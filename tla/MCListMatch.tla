----------------------------- MODULE MCListMatch -----------------------------
(***************************************************************************)
(* ListMatch for TLC: two cities, three postal codes of which a city may   *)
(* have more than "si" looks at, and three streets, the third of which     *)
(* "si" leaves out.                                                        *)
(***************************************************************************)
EXTENDS ListMatch

CONSTANTS c1, c2, z1, z2, z3, s1, s2, s3

AFewCodes == {<<z1, z2>>, <<z2, z1, z3>>}
AFewStreets == {<<>>, <<s2, s1, s3>>}

\* No city, or a near-perfect one and another.
FoundCities ==
    {<<>>} \cup {<<[city |-> c1, near |-> p[1]], [city |-> c2, near |-> p[2]]>> :
                    p \in {<<TRUE, TRUE>>, <<TRUE, FALSE>>}}

\* Every grading of two streets; the third is found as a last resort.
SomeGradings ==
    {[i \in 1..2 |-> [s \in Streets |-> IF s = s3 THEN 4 ELSE g[i][s]]] :
        g \in [1..2 -> [{s1, s2} -> {Near, 1, Never}]]}
=============================================================================

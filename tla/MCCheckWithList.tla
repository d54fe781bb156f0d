--------------------------- MODULE MCCheckWithList ---------------------------
(***************************************************************************)
(* CheckWithList for TLC.  The list's three checks find anything in the    *)
(* input's country; Nominatim finds nothing, one pair, or all of them, at  *)
(* home or abroad.                                                         *)
(***************************************************************************)
EXTENDS CheckWithList

CONSTANTS r1, si, at

Home == {si}
TwoCountries == {si, at}
OneKey == {"k"}
TheKey == [r \in Requests |-> "k"]
OneUser == {"u"}
TheUser == [r \in Requests |-> "u"]

\* Every pattern of matches at home, and foreign matches that leave the country
\* code unmatched.
AllPatterns ==
    [Pairs -> SUBSET Home]
        \cup {[p \in Pairs |-> {at}], [p \in Pairs |-> IF p = "postalCity" THEN {at} ELSE {}]}
=============================================================================

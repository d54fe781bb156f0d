----------------------------- MODULE MCMatching -----------------------------
(* Small instances of Matching: short strings over two letters and two       *)
(* separators, compared position by position.                                *)
EXTENDS Matching

Strings == UNION {[1..n -> {"a", "b", " ", "-"}] : n \in 0..4}

\* Names as they are listed, with and without separators.
Names == {<<"a">>, <<"b", "a">>, <<"a", " ", "b">>, <<"a", "-", "b">>,
          <<"b", "-", "a", "a">>, <<"a", "a", "b", "b">>, <<"b", "b", " ", "a", "b">>}

Lists == {{x, y} : x, y \in Names}

JustA == {<<"a">>}

Agreeing(x, y) ==
    LET most == Max({1, Len(x), Len(y)})
    IN (100 * Cardinality({i \in DOMAIN x \cap DOMAIN y : x[i] = y[i]})) \div most

\* Strings that begin alike are closer, others less close.
SameStart(x, y) ==
    IF x = y THEN 100
    ELSE IF x # <<>> /\ y # <<>> /\ Head(x) = Head(y) THEN Agreeing(x, y) + 5
    ELSE Max({0, Agreeing(x, y) - 5})
=============================================================================

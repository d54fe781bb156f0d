--------------------------- MODULE MCCheckHandler ---------------------------
(***************************************************************************)
(* CheckHandler for TLC: two requests with one cache key.  Where the one's *)
(* country has a list and the other's has not, their inputs differ and     *)
(* collide in createHash; "home" is each one's own country.                *)
(***************************************************************************)
EXTENDS CheckHandler

CONSTANTS r1, r2, home

\* One key for every request.
SameKey == [r \in Requests |-> "k"]
OneKey == {"k"}

\* Both requests come with the same user's token.
OneUser == {"u"}
SameUser == [r \in Requests |-> "u"]

\* Nothing, a partial match, and a perfect one.
FewPatterns ==
    {[p \in Pairs |-> {}],
     [p \in Pairs |-> IF p = "cityStreet" THEN {home} ELSE {}],
     [p \in Pairs |-> {home}]}
=============================================================================

--------------------------- MODULE MCAddressUpdate ---------------------------
(* Instances of AddressUpdate: addresses a and b, and one without a          *)
(* feature_id; runs that no restart of the server disturbs.                  *)
EXTENDS AddressUpdate

CONSTANTS a, b, none

Addresses == {a, b, none}

\* Files of one and of two batches, the second to supersede and to extend.
NestedFiles == {<<a>>, <<a, b>>}

There == <<a, b, none>>

NextWithoutRestart == Mutate \/ \E r \in Runs : Run(r) \/ Crash(r)

CalmSpec == Init /\ [][NextWithoutRestart]_vars
=============================================================================

-------------------------- MODULE MCAddressService --------------------------
(***************************************************************************)
(* AddressService for TLC: addresses a and b, and one without a            *)
(* feature_id, which is in a settlement without street names.  Everything  *)
(* that is not a digit is taken out of a postal code                       *)
(* (normalization/si.go:72-96).                                            *)
(***************************************************************************)
EXTENDS AddressService

CONSTANTS a, b, none

Features == {a, b, none}

\* A file with a, one with an address without a feature_id, and one without rows; b is
\* in none of them.
OddFiles == {<<a>>, <<none>>, <<>>}

There == <<a, b, none>>

SomeCodes == {"1000", "4000", "si4000"}

SomeNorm == [k \in SomeCodes |-> IF k = "si4000" THEN "4000" ELSE k]

SomeCodeRank == [k \in SomeCodes |-> CASE k = "1000" -> 0 [] k = "4000" -> 1 [] OTHER -> 2]

SomeStreets == {"Celovska", "Slovenska", ""}
SomeForms == {"celovska", "slovenska", "ljubljana", "kranj"}

SomeCities == {"Ljubljana", "Kranj"}
SomeNames == {"ljubljana", "kranj", ""}

SomeFormsOf ==
    [s \in SomeStreets \cup SomeCities |->
        CASE s = "Celovska" -> {"celovska"} [] s = "Slovenska" -> {"slovenska"}
          [] s = "Ljubljana" -> {"ljubljana"} [] s = "Kranj" -> {"kranj"} [] OTHER -> {}]

SomeName == [c \in SomeCities |-> IF c = "Kranj" THEN "kranj" ELSE "ljubljana"]

SomeCityRank == [c \in SomeCities |-> IF c = "Kranj" THEN 0 ELSE 1]

At(k, s, c) == [code |-> k, street |-> s, city |-> c, region |-> c]

AnyTable == SUBSET Address

\* The first run moves an address to another street; the second spells the code of
\* the addresses without a feature_id in another way.
SomeAddress ==
    [p \in (0..NumRuns) \X (1..3) |->
        CASE p = <<0, 1>> -> At("1000", "Celovska", "Ljubljana")
          [] p = <<0, 2>> -> At("1000", "Slovenska", "Ljubljana")
          [] p = <<1, 1>> -> At("1000", "Slovenska", "Ljubljana")
          [] p = <<2, 1>> -> At("si4000", "", "Kranj")
          [] OTHER        -> At("4000", "", "Kranj")]
=============================================================================

----------------------------- MODULE MCListIndex -----------------------------
(***************************************************************************)
(* ListIndex for TLC.  German postal codes: a leading zero may be missing  *)
(* in the table, and is put back (normalization/de.go:54-69).              *)
(***************************************************************************)
EXTENDS ListIndex

GermanCodes == {"01067", "1067", "10115", "n/a"}

GermanNorm ==
    [k \in GermanCodes |-> IF k = "1067" THEN "01067"
                           ELSE IF k = "n/a" THEN "error" ELSE k]

GermanCodeRank ==
    [k \in GermanCodes |-> CASE k = "01067" -> 0 [] k = "10115" -> 1
                             [] k = "1067" -> 2 [] OTHER -> 3]

\* Streets with one normal form, with two, and with none.
GermanStreets == {"Ring", "Ring, A 1", "5"}
GermanForms == {"ring", "a1"}

\* Two spellings of one city, another one, and a name without letters.
GermanCities == {"Neustadt", "neustadt", "Dresden", "-"}
GermanNames == {"neustadt", "dresden", ""}

GermanFormsOf ==
    [s \in GermanStreets \cup GermanCities |->
        CASE s = "Ring" -> {"ring"} [] s = "Ring, A 1" -> {"ring", "a1"}
          [] OTHER -> {}]

GermanName ==
    [c \in GermanCities |-> CASE c = "Dresden" -> "dresden" [] c = "-" -> ""
                              [] OTHER -> "neustadt"]

GermanCityRank ==
    [c \in GermanCities |-> CASE c = "-" -> 0 [] c = "Dresden" -> 1
                              [] c = "Neustadt" -> 2 [] OTHER -> 3]

At(k, s, c, r) == [code |-> k, street |-> s, city |-> c, region |-> r]

\* One code under two spellings, another one, one that is unusable, and a city
\* without a name.
GermanRows ==
    {At("01067", "Ring", "Neustadt", "Dresden"), At("01067", "5", "Neustadt", "Neustadt"),
     At("1067", "Ring, A 1", "neustadt", "Dresden"), At("1067", "5", "neustadt", "Dresden"),
     At("10115", "Ring, A 1", "Dresden", "Neustadt"), At("n/a", "Ring", "Neustadt", "Dresden"),
     At("10115", "Ring", "-", "Dresden")}

SmallTables == {{p, q, At("01067", "Ring", "Neustadt", "Dresden")} : p, q \in GermanRows}
                \cup {{p, q} : p, q \in GermanRows}
=============================================================================

------------------------------ MODULE ListIndex ------------------------------
(***************************************************************************)
(* The indexes of a country's address list, built once when the service    *)
(* starts (buildMatchingLists in internal/listmatcher/de/de.go and si/     *)
(* si.go, the queries in their database.go).                               *)
(*                                                                         *)
(* Two SELECT DISTINCTs are sent one after the other, and the table may    *)
(* change in between.  Their entries are read in order: streets go under   *)
(* their postal code, postal codes under their city and, for "de", under   *)
(* its region.  Codes and names are normalized on the way: several         *)
(* spellings may share a normal form, and a street may have none, or       *)
(* several.                                                                *)
(*                                                                         *)
(* A code without streets, or a name without codes, is one that is not in  *)
(* the index: the checks find nothing in either.                           *)
(***************************************************************************)
EXTENDS Naturals, Sequences, Functions

CONSTANTS
    Country,    \* "de" or "si"
    Codes,      \* postal codes as they are spelled in the table
    Norm,       \* normalizer.PostalCode
    Invalid,    \* what it gives for an unusable code: an error
    CodeRank,   \* the order of the codes in ORDER BY
    Streets,    \* street names as they are spelled in the table
    Forms,      \* their normal forms
    FormsOf,    \* normalizer.Street, which has no errors
    Cities,     \* city and region names as they are spelled in the table
    Names,      \* their normal forms
    NameOf,     \* normalizer.City, which has no errors
    NoName,     \* the empty normal form
    CityRank,   \* the order of the names in ORDER BY
    Empty,      \* the empty column
    Tables      \* what the table can hold

Address == [code : Codes, street : Streets, city : Cities, region : Cities]

\* A normal form of a code is a spelling, and its own normal form.
ASSUME ListIndexAssumption ==
    /\ Country \in {"de", "si"}
    /\ Invalid \notin Codes
    /\ Norm \in [Codes -> Codes \cup {Invalid}]
    /\ \A k \in Codes : Norm[k] # Invalid => Norm[Norm[k]] = Norm[k]
    /\ CodeRank \in [Codes -> Nat]
    /\ FormsOf \in [Streets \cup Cities -> SUBSET Forms]
    /\ NameOf \in [Cities -> Names]
    /\ NoName \in Names
    /\ CityRank \in [Cities -> Nat]
    /\ Tables \subseteq SUBSET Address

VARIABLES
    table,      \* the address table
    phase,      \* of buildMatchingLists
    streetTable, cityTable, \* the table as each of the two queries saw it
    todo,       \* entries of the current query's response still to be read
    streetsOf,  \* postalCodeStreet: the normal forms of each normalized code's streets
    codesOf     \* cityPostalCode: the normalized codes of each normalized name

indexes == <<streetsOf, codesOf>>
seen == <<streetTable, cityTable>>
indexVars == <<phase, streetTable, cityTable, todo, streetsOf, codesOf>>
listVars == <<table, indexVars>>

NormalCodes == {k \in Codes : Norm[k] = k}

-----------------------------------------------------------------------------
(***************************************************************************)
(* The queries.  Only those of "si" have a WHERE; an address without a     *)
(* street has its settlement's name for one there.                         *)
(***************************************************************************)

StreetOf(r) == IF Country = "si" /\ r.street = Empty THEN r.city ELSE r.street

StreetEntries(rows) ==
    {[code |-> r.code, street |-> StreetOf(r)] :
        r \in {q \in rows : Country = "si" => q.code # Empty /\ StreetOf(q) # Empty}}

CityEntries(rows) ==
    {[code |-> r.code, city |-> r.city,
      region |-> IF Country = "si" THEN r.city ELSE r.region] :
        r \in {q \in rows : Country = "si" => q.code # Empty /\ q.city # Empty}}

IndexTypeOK ==
    /\ table \in SUBSET Address
    /\ phase \in {"down", "streets", "cities", "ready", "panic"}
    /\ streetTable \subseteq Address /\ cityTable \subseteq Address
    /\ todo \subseteq StreetEntries(streetTable) \cup CityEntries(cityTable)
    /\ streetsOf \in [Codes -> SUBSET Forms]
    /\ codesOf \in [Names -> Seq(NormalCodes)]

NoStreets == [k \in Codes |-> {}]
NoCodes == [n \in Names |-> <<>>]

IndexInit ==
    /\ table \in Tables
    /\ phase = "down"
    /\ streetTable = {} /\ cityTable = {} /\ todo = {}
    /\ streetsOf = NoStreets /\ codesOf = NoCodes

-----------------------------------------------------------------------------
(***************************************************************************)
(* GetPostalCodeStreet.                                                    *)
(***************************************************************************)

QueryStreets ==
    /\ phase = "down"
    /\ phase' = "streets"
    /\ streetTable' = table
    /\ todo' = StreetEntries(table)
    /\ UNCHANGED <<table, cityTable, indexes>>

\* Entries with the same code come in any order.
NextByCode(e) == e \in todo /\ \A f \in todo : CodeRank[e.code] <= CodeRank[f.code]

RawKey(e) == e.code                         \* mutant: stored as it is spelled

StreetKey(e) == Norm[e.code]

OnlyThisStreet(e) == FormsOf[e.street]      \* mutant: append forgotten

EarlierOnes(e) ==                           \* mutant: streets never reset
    FormsOf[e.street] \cup UNION {streetsOf[k] : k \in Codes}

\* The streets there are so far are looked up under the code as it is spelled.
WithEarlier(e) == FormsOf[e.street] \cup streetsOf[e.code]

AddStreet(e) ==
    /\ phase = "streets" /\ NextByCode(e)
    /\ streetsOf' = IF Norm[e.code] = Invalid THEN streetsOf
                    ELSE [streetsOf EXCEPT ![StreetKey(e)] = WithEarlier(e)]
    /\ todo' = todo \ {e}
    /\ UNCHANGED <<table, phase, seen, codesOf>>

-----------------------------------------------------------------------------
(***************************************************************************)
(* GetCityPostalCode.                                                      *)
(***************************************************************************)

QueryCities ==
    /\ phase = "streets" /\ todo = {}
    /\ phase' = "cities"
    /\ cityTable' = table
    /\ todo' = CityEntries(table)
    /\ UNCHANGED <<table, streetTable, indexes>>

\* By region, then by city; entries with the same names in any order.
NextByCity(e) ==
    /\ e \in todo
    /\ \A f \in todo : \/ CityRank[e.region] < CityRank[f.region]
                       \/ /\ CityRank[e.region] = CityRank[f.region]
                          /\ CityRank[e.city] <= CityRank[f.city]

Usable(e) == Norm[e.code] \notin {Invalid, Empty}

AppendNew(codes, k) == IF k \in Range(codes) THEN codes ELSE Append(codes, k)

\* "de" does not look whether the city has the code already.
WithCity(n, e) ==
    IF n # NameOf[e.city] THEN codesOf[n]
    ELSE IF Country = "si" THEN AppendNew(codesOf[n], Norm[e.code])
    ELSE Append(codesOf[n], Norm[e.code])

FirstCode(n, e) ==                          \* mutant: nothing in the else branch
    IF n = NameOf[e.region] /\ codesOf[n] = <<>> THEN <<Norm[e.code]>> ELSE WithCity(n, e)

WithCode(n, e) ==
    IF n = NameOf[e.region] THEN AppendNew(WithCity(n, e), Norm[e.code]) ELSE WithCity(n, e)

AddCity(e) ==
    /\ phase = "cities" /\ NextByCity(e)
    /\ codesOf' = IF Usable(e) THEN [n \in Names |-> WithCode(n, e)] ELSE codesOf
    /\ todo' = todo \ {e}
    /\ UNCHANGED <<table, phase, seen, streetsOf>>

\* buildFirstLetterCities: a name without a first letter is out of range.
BuildLetters ==
    /\ phase = "cities" /\ todo = {}
    /\ phase' = IF codesOf[NoName] # <<>> THEN "panic" ELSE "ready"
    /\ UNCHANGED <<table, seen, todo, indexes>>

-----------------------------------------------------------------------------
\* A query that fails ends the process.
QueryFails ==
    /\ phase \in {"down", "streets"} /\ todo = {}
    /\ phase' = "panic"
    /\ UNCHANGED <<table, seen, todo, indexes>>

\* The process ends, and is started again.
RestartService ==
    /\ phase # "down"
    /\ phase' = "down"
    /\ streetTable' = {} /\ cityTable' = {} /\ todo' = {}
    /\ streetsOf' = NoStreets /\ codesOf' = NoCodes
    /\ UNCHANGED table

\* Nothing holds the table still.
TableChanges == table' \in Tables /\ UNCHANGED indexVars

Build ==
    \/ QueryStreets \/ QueryCities \/ QueryFails
    \/ \E e \in todo : AddStreet(e) \/ AddCity(e)
    \/ BuildLetters
    \/ RestartService

IndexNext == Build \/ TableChanges

IndexSpec == IndexInit /\ [][IndexNext]_listVars

-----------------------------------------------------------------------------
(***************************************************************************)
(* Properties.                                                             *)
(***************************************************************************)

\* A street is never found under a postal code it did not have in the table the
\* query saw, however its code is spelled and in whatever order the entries come
\* (de/database.go:93-111).
StreetsOfTheirCode ==
    \A k \in Codes : \A s \in streetsOf[k] :
        \E e \in StreetEntries(streetTable) : Norm[e.code] = k /\ s \in FormsOf[e.street]

\* The code has one spelling among the entries, the normal one.
OneSpelling(k) ==
    Norm[k] = k /\ \A e \in StreetEntries(streetTable) : Norm[e.code] = k => e.code = k

StreetsRead == phase \in {"cities", "ready"}

\* A code that has one spelling, the normal one, has all normal forms of all its
\* streets, also when others of its streets have none (de/database.go:95-111).
CanonicalStreetsFound ==
    StreetsRead =>
        \A e \in StreetEntries(streetTable) :
            OneSpelling(e.code) => FormsOf[e.street] \subseteq streetsOf[e.code]

\* The row puts the code under the name.
Gives(r, n, k) ==
    \E e \in CityEntries({r}) :
        Usable(e) /\ Norm[e.code] = k /\ n \in {NameOf[e.city], NameOf[e.region]}

\* A code found under a city has streets although the two indexes come from two
\* queries and the table may change in between, if a row that puts it there was in
\* the table for both, and none of the code's streets is without normal forms:
\* otherwise the code's streets may have come too late, or been overwritten with
\* none (de/database.go:93-111, de/de.go:54-66, si/database.go:64-72, 134-139).
CityCodesHaveStreets ==
    phase = "ready" => \A n \in Names : \A k \in Range(codesOf[n]) :
        (/\ \E r \in streetTable \cap cityTable : Gives(r, n, k)
         /\ \A e \in StreetEntries(streetTable) : Norm[e.code] = k => FormsOf[e.street] # {})
            => streetsOf[k] # {}

\* City and region have exactly the codes of the rows the second query saw, whichever
\* entries share a name and whatever their order; with "si" each of them once
\* (de/database.go:159-217, si/database.go:161-193).
CityCodesExact ==
    phase = "ready" => \A n \in Names :
        /\ Range(codesOf[n]) = {k \in Codes : \E r \in cityTable : Gives(r, n, k)}
        /\ Country = "si" => IsInjective(codesOf[n])

\* "Is there a street within the specified postal code area that approximately
\* matches the given street name?" (docs/src/docs/usage.md:39): every street of
\* the list can be found under its postal code (de/database.go:93, 108).
EveryStreetFound ==
    StreetsRead =>
        \A e \in StreetEntries(streetTable) :
            Norm[e.code] # Invalid => FormsOf[e.street] \subseteq streetsOf[Norm[e.code]]
=============================================================================

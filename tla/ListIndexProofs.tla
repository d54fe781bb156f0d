--------------------------- MODULE ListIndexProofs ---------------------------
(***************************************************************************)
(* Proofs about the building of the indexes, for any table, normalizer and *)
(* order of the entries, and any change of the table while it is read.     *)
(***************************************************************************)
EXTENDS ListIndex, TLAPS

USE ListIndexAssumption DEF ListIndexAssumption

-----------------------------------------------------------------------------
(***************************************************************************)
(* Entries, and sequences of codes.                                        *)
(***************************************************************************)

LEMMA StreetEntryType ==
    ASSUME NEW rows \in SUBSET Address, NEW e \in StreetEntries(rows)
    PROVE  e.code \in Codes /\ e.street \in Streets \cup Cities
BY DEF StreetEntries, StreetOf, Address

LEMMA CityEntryType ==
    ASSUME NEW rows \in SUBSET Address, NEW e \in CityEntries(rows)
    PROVE  e.code \in Codes /\ e.city \in Cities /\ e.region \in Cities
BY DEF CityEntries, Address

LEMMA AppendLast ==
    ASSUME NEW S, NEW s \in Seq(S), NEW x \in S
    PROVE  /\ Append(s, x) \in Seq(S)
           /\ Range(Append(s, x)) = Range(s) \cup {x}
           /\ x \notin Range(s) /\ IsInjective(s) => IsInjective(Append(s, x))
<1>1. /\ Append(s, x) \in Seq(S)
      /\ DOMAIN s = 1..Len(s) /\ Len(s) \in Nat
      /\ DOMAIN Append(s, x) = 1..(Len(s) + 1)
      /\ \A i \in 1..Len(s) : Append(s, x)[i] = s[i]
      /\ Append(s, x)[Len(s) + 1] = x
    OBVIOUS
<1>2. Range(Append(s, x)) = Range(s) \cup {x}
    <2>1. \A i \in 1..(Len(s) + 1) : i \in 1..Len(s) \/ i = Len(s) + 1
        BY <1>1
    <2>2. 1..Len(s) \subseteq 1..(Len(s) + 1) /\ Len(s) + 1 \in 1..(Len(s) + 1)
        BY <1>1
    <2> QED
        BY <1>1, <2>1, <2>2 DEF Range
<1>3. x \notin Range(s) /\ IsInjective(s) => IsInjective(Append(s, x))
    <2>1. \A i \in 1..(Len(s) + 1) : i \in 1..Len(s) \/ i = Len(s) + 1
        BY <1>1
    <2> QED
        BY <1>1, <2>1 DEF Range, IsInjective
<1> QED
    BY <1>1, <1>2, <1>3

LEMMA AppendOnce ==
    ASSUME NEW S, NEW s \in Seq(S), NEW x \in S
    PROVE  /\ AppendNew(s, x) \in Seq(S)
           /\ Range(AppendNew(s, x)) = Range(s) \cup {x}
           /\ IsInjective(s) => IsInjective(AppendNew(s, x))
BY AppendLast DEF AppendNew

\* The entry puts the code under the name.
Puts(e, n, k) == Usable(e) /\ Norm[e.code] = k /\ n \in {NameOf[e.city], NameOf[e.region]}

LEMMA WithCodeAdds ==
    ASSUME codesOf \in [Names -> Seq(NormalCodes)],
           NEW rows \in SUBSET Address, NEW e \in CityEntries(rows), Usable(e), NEW n \in Names
    PROVE  /\ WithCode(n, e) \in Seq(NormalCodes)
           /\ \A k : k \in Range(WithCode(n, e)) <=> k \in Range(codesOf[n]) \/ Puts(e, n, k)
           /\ Country = "si" /\ IsInjective(codesOf[n]) => IsInjective(WithCode(n, e))
<1>1. Norm[e.code] \in NormalCodes /\ codesOf[n] \in Seq(NormalCodes)
    BY CityEntryType DEF Usable, NormalCodes
<1>2. /\ WithCity(n, e) \in Seq(NormalCodes)
      /\ Range(WithCity(n, e)) =
            Range(codesOf[n]) \cup (IF n = NameOf[e.city] THEN {Norm[e.code]} ELSE {})
      /\ Country = "si" /\ IsInjective(codesOf[n]) => IsInjective(WithCity(n, e))
    BY <1>1, AppendLast, AppendOnce DEF WithCity
<1>3. /\ WithCode(n, e) \in Seq(NormalCodes)
      /\ Range(WithCode(n, e)) =
            Range(WithCity(n, e)) \cup (IF n = NameOf[e.region] THEN {Norm[e.code]} ELSE {})
      /\ IsInjective(WithCity(n, e)) => IsInjective(WithCode(n, e))
    BY <1>1, <1>2, AppendOnce, SMTT(20) DEF WithCode
<1> QED
    BY <1>2, <1>3 DEF Puts

-----------------------------------------------------------------------------
\* What is still to be read belongs to the query under way.
Reading ==
    /\ phase = "streets" => todo \subseteq StreetEntries(streetTable)
    /\ phase = "cities" => todo \subseteq CityEntries(cityTable)
    /\ phase \notin {"streets", "cities"} => todo = {}

TypeInv == IndexTypeOK /\ Reading

LEMMA EmptyIndexes ==
    NoStreets \in [Codes -> SUBSET Forms] /\ NoCodes \in [Names -> Seq(NormalCodes)]
BY DEF NoStreets, NoCodes

LEMMA InitTypeInv == IndexInit => TypeInv
BY EmptyIndexes DEF IndexInit, TypeInv, IndexTypeOK, Reading

LEMMA AddStreetTypeInv ==
    ASSUME TypeInv, NEW e \in todo, AddStreet(e)
    PROVE  TypeInv'
<1>1. e \in StreetEntries(streetTable) /\ streetTable \in SUBSET Address
    BY DEF TypeInv, IndexTypeOK, Reading, AddStreet
<1>2. e.code \in Codes /\ FormsOf[e.street] \in SUBSET Forms
    BY <1>1, StreetEntryType
<1>3. streetsOf' \in [Codes -> SUBSET Forms]
    BY <1>2 DEF TypeInv, IndexTypeOK, AddStreet, StreetKey, WithEarlier
<1> QED
    BY <1>3 DEF TypeInv, IndexTypeOK, Reading, AddStreet, seen

LEMMA AddCityTypeInv ==
    ASSUME TypeInv, NEW e \in todo, AddCity(e)
    PROVE  TypeInv'
<1>1. e \in CityEntries(cityTable) /\ cityTable \in SUBSET Address
    BY DEF TypeInv, IndexTypeOK, Reading, AddCity
<1>2. codesOf' \in [Names -> Seq(NormalCodes)]
    BY <1>1, WithCodeAdds DEF TypeInv, IndexTypeOK, AddCity
<1> QED
    BY <1>2 DEF TypeInv, IndexTypeOK, Reading, AddCity, seen

LEMMA StepTypeInv == TypeInv /\ [IndexNext]_listVars => TypeInv'
<1>1. TypeInv /\ (QueryStreets \/ QueryCities \/ QueryFails \/ BuildLetters) => TypeInv'
    BY DEF TypeInv, IndexTypeOK, Reading, QueryStreets, QueryCities, QueryFails, BuildLetters,
           seen, indexes
<1>2. TypeInv /\ (TableChanges \/ UNCHANGED listVars) => TypeInv'
    BY DEF TypeInv, IndexTypeOK, Reading, TableChanges, indexVars, listVars
<1>3. TypeInv /\ RestartService => TypeInv'
    BY EmptyIndexes DEF TypeInv, IndexTypeOK, Reading, RestartService
<1> QED
    BY <1>1, <1>2, <1>3, AddStreetTypeInv, AddCityTypeInv DEF IndexNext, Build

\* The indexes map codes to normal forms of streets, and names to codes in their
\* normal form (de/database.go:108, 159-217).
THEOREM IndexTypeCorrect == IndexSpec => []IndexTypeOK
<1>1. TypeInv => IndexTypeOK
    BY DEF TypeInv
<1> QED
    BY InitTypeInv, StepTypeInv, <1>1, PTL DEF IndexSpec

-----------------------------------------------------------------------------
(***************************************************************************)
(* The streets of the postal codes.                                        *)
(***************************************************************************)

Queried == phase \in {"streets", "cities", "ready"}

\* Every street of the code has a normal form.
AllHaveForms(k) ==
    \A e \in StreetEntries(streetTable) : Norm[e.code] = k => FormsOf[e.street] # {}

\* Of the entries that have been read, those whose code has no other spelling have
\* left their own streets under it, and those with a usable code some street, unless
\* one of the code's entries has none to leave.
StreetsInv ==
    /\ StreetsOfTheirCode
    /\ phase = "down" => streetsOf = NoStreets
    /\ Queried => \A e \in StreetEntries(streetTable) : OneSpelling(e.code) =>
            \/ FormsOf[e.street] \subseteq streetsOf[e.code]
            \/ phase = "streets" /\ e \in todo
    /\ Queried => \A e \in StreetEntries(streetTable) :
            (Norm[e.code] # Invalid /\ AllHaveForms(Norm[e.code])) =>
                \/ streetsOf[Norm[e.code]] # {}
                \/ phase = "streets" /\ e \in todo

LEMMA InitStreets == IndexInit => StreetsInv
BY DEF IndexInit, StreetsInv, StreetsOfTheirCode, Queried, NoStreets

LEMMA AddStreetStreets ==
    ASSUME TypeInv, StreetsInv, NEW x \in todo, AddStreet(x)
    PROVE  StreetsInv'
<1> DEFINE Entries == StreetEntries(streetTable)
<1>1. /\ x \in Entries /\ x.code \in Codes
      /\ \A e \in Entries : e.code \in Codes
    BY StreetEntryType DEF TypeInv, IndexTypeOK, Reading, AddStreet
<1>2. /\ phase = "streets" /\ todo' = todo \ {x} /\ UNCHANGED <<phase, streetTable>>
      /\ Norm[x.code] = Invalid => streetsOf' = streetsOf
      /\ Norm[x.code] # Invalid =>
            /\ streetsOf'[Norm[x.code]] = FormsOf[x.street] \cup streetsOf[x.code]
            /\ \A k \in Codes : k # Norm[x.code] => streetsOf'[k] = streetsOf[k]
    BY <1>1 DEF TypeInv, IndexTypeOK, AddStreet, StreetKey, WithEarlier, seen
<1> HIDE DEF Entries
<1>3. ASSUME NEW k \in Codes, NEW s \in streetsOf'[k]
      PROVE  \E e \in Entries : Norm[e.code] = k /\ s \in FormsOf[e.street]
    <2>1. CASE s \in streetsOf[k]
        BY <2>1 DEF StreetsInv, StreetsOfTheirCode, Entries
    <2>2. CASE s \notin streetsOf[k]
        <3>1. /\ Norm[x.code] # Invalid /\ k = Norm[x.code]
              /\ s \in FormsOf[x.street] \cup streetsOf[x.code]
            BY <1>2, <1>3, <2>2
        <3>2. CASE s \in FormsOf[x.street]
            BY <1>1, <3>1, <3>2
        <3>3. CASE s \in streetsOf[x.code]
            <4>1. PICK e \in Entries : Norm[e.code] = x.code /\ s \in FormsOf[e.street]
                BY <1>1, <3>3 DEF StreetsInv, StreetsOfTheirCode, Entries
            <4>2. Norm[x.code] = x.code
                BY <1>1, <3>1, <4>1
            <4> QED
                BY <3>1, <4>1, <4>2
        <3> QED
            BY <3>1, <3>2, <3>3
    <2> QED
        BY <2>1, <2>2
<1>4. ASSUME NEW e \in Entries, OneSpelling(e.code)
      PROVE  FormsOf[e.street] \subseteq streetsOf'[e.code] \/ e \in todo'
    <2>1. FormsOf[e.street] \subseteq streetsOf[e.code] \/ e \in todo
        BY <1>2, <1>4 DEF StreetsInv, Queried, Entries
    <2>2. Norm[e.code] = e.code /\ e.code # Invalid
        BY <1>1, <1>4 DEF OneSpelling
    <2>3. Norm[x.code] = e.code => x.code = e.code
        BY <1>1, <1>4 DEF OneSpelling, Entries
    <2> QED
        BY <1>1, <1>2, <2>1, <2>2, <2>3
<1>5. ASSUME NEW e \in Entries, Norm[e.code] # Invalid, AllHaveForms(Norm[e.code])
      PROVE  streetsOf'[Norm[e.code]] # {} \/ e \in todo'
    <2>1. streetsOf[Norm[e.code]] # {} \/ e \in todo
        BY <1>2, <1>5 DEF StreetsInv, Queried, Entries
    <2>2. Norm[e.code] \in Codes
        BY <1>1, <1>5
    <2>3. Norm[x.code] = Norm[e.code] => FormsOf[x.street] # {}
        BY <1>1, <1>5 DEF AllHaveForms, Entries
    <2> QED
        BY <1>2, <1>5, <2>1, <2>2, <2>3
<1>6. StreetsOfTheirCode'
    BY <1>2, <1>3 DEF StreetsOfTheirCode, Entries
<1>7. \A k : (OneSpelling(k)' <=> OneSpelling(k)) /\ (AllHaveForms(k)' <=> AllHaveForms(k))
    BY <1>2 DEF OneSpelling, AllHaveForms
<1> QED
    BY <1>2, <1>4, <1>5, <1>6, <1>7 DEF StreetsInv, Queried, Entries

LEMMA StepStreets == TypeInv /\ StreetsInv /\ [IndexNext]_listVars => StreetsInv'
<1> SUFFICES ASSUME TypeInv, StreetsInv, [IndexNext]_listVars
             PROVE  StreetsInv'
    OBVIOUS
<1>1. CASE QueryStreets \/ RestartService
    <2>1. \A k \in Codes : streetsOf'[k] = {}
        <3>1. CASE QueryStreets
            BY <3>1 DEF QueryStreets, indexes, StreetsInv, NoStreets
        <3>2. CASE RestartService
            BY <3>2 DEF RestartService, NoStreets
        <3> QED
            BY <1>1, <3>1, <3>2
    <2>2. \/ phase' = "down"
          \/ phase' = "streets" /\ todo' = StreetEntries(streetTable')
        BY <1>1 DEF QueryStreets, RestartService
    <2>3. StreetsOfTheirCode'
        BY <2>1 DEF StreetsOfTheirCode
    <2>4. phase' = "down" => streetsOf' = NoStreets
        BY <1>1 DEF QueryStreets, RestartService
    <2> QED
        BY <2>2, <2>3, <2>4 DEF StreetsInv, Queried
<1>2. CASE QueryFails \/ QueryCities \/ BuildLetters \/ TableChanges \/ UNCHANGED listVars
    <2>1. /\ UNCHANGED <<streetTable, streetsOf>>
          /\ \/ phase' = "panic" /\ phase # "panic"
             \/ phase \in {"streets", "cities"} /\ todo = {} /\ phase' \in {"cities", "ready"}
             \/ UNCHANGED <<phase, todo>>
        BY <1>2 DEF QueryFails, QueryCities, BuildLetters, TableChanges, indexVars, listVars,
                    seen, indexes
    <2> QED
        BY <2>1 DEF StreetsInv, StreetsOfTheirCode, Queried, OneSpelling, AllHaveForms
<1>3. ASSUME NEW e \in todo, AddCity(e)
      PROVE  StreetsInv'
    BY <1>3 DEF AddCity, seen, StreetsInv, StreetsOfTheirCode, Queried, OneSpelling,
                AllHaveForms
<1> QED
    BY <1>1, <1>2, <1>3, AddStreetStreets DEF IndexNext, Build

\* No street is ever under a postal code it does not have, however the codes are spelled
\* (de/database.go:93-111).
THEOREM NoStreetMisplaced == IndexSpec => []StreetsOfTheirCode
<1>1. StreetsInv => StreetsOfTheirCode
    BY DEF StreetsInv
<1> QED
    BY InitTypeInv, StepTypeInv, InitStreets, StepStreets, <1>1, PTL DEF IndexSpec

\* A code with one spelling, the normal one, has all normal forms of all its streets
\* once the first query has been read: what another code's entries overwrite is never
\* its own (de/database.go:95-111).
THEOREM CanonicalStreetsThere == IndexSpec => []CanonicalStreetsFound
<1>1. StreetsInv => CanonicalStreetsFound
    BY DEF StreetsInv, CanonicalStreetsFound, StreetsRead, Queried
<1> QED
    BY InitTypeInv, StepTypeInv, InitStreets, StepStreets, <1>1, PTL DEF IndexSpec

-----------------------------------------------------------------------------
(***************************************************************************)
(* The postal codes of the cities.                                         *)
(***************************************************************************)

CodesInv ==
    /\ phase \in {"down", "streets"} => codesOf = NoCodes
    /\ phase \in {"cities", "ready"} => \A n \in Names, k \in Codes :
            k \in Range(codesOf[n]) <=> \E e \in CityEntries(cityTable) \ todo : Puts(e, n, k)
    /\ Country = "si" => \A n \in Names : IsInjective(codesOf[n])

LEMMA InitCodes == IndexInit => CodesInv
BY DEF IndexInit, CodesInv, NoCodes, IsInjective

LEMMA AddCityCodes ==
    ASSUME TypeInv, CodesInv, NEW x \in todo, AddCity(x)
    PROVE  CodesInv'
<1>1. /\ x \in CityEntries(cityTable) /\ cityTable \in SUBSET Address
      /\ codesOf \in [Names -> Seq(NormalCodes)]
      /\ phase = "cities" /\ todo' = todo \ {x} /\ UNCHANGED <<phase, cityTable>>
    BY DEF TypeInv, IndexTypeOK, Reading, AddCity, seen
<1>2. /\ \A n \in Names : \A k : k \in Range(codesOf'[n])
            <=> k \in Range(codesOf[n]) \/ Puts(x, n, k)
      /\ Country = "si" => \A n \in Names :
            IsInjective(codesOf[n]) => IsInjective(codesOf'[n])
    <2>1. CASE Usable(x)
        BY <1>1, <2>1, WithCodeAdds DEF AddCity
    <2>2. CASE ~Usable(x)
        BY <2>2 DEF AddCity, Puts
    <2> QED
        BY <2>1, <2>2
<1>3. ASSUME NEW n \in Names, NEW k \in Codes
      PROVE  k \in Range(codesOf'[n])
                <=> \E e \in CityEntries(cityTable) \ todo' : Puts(e, n, k)
    BY <1>1, <1>2 DEF CodesInv
<1>4. \A e, n, k : Puts(e, n, k)' <=> Puts(e, n, k)
    BY DEF Puts, Usable
<1> QED
    BY <1>1, <1>2, <1>3, <1>4 DEF CodesInv

LEMMA StepCodes == TypeInv /\ CodesInv /\ [IndexNext]_listVars => CodesInv'
<1> SUFFICES ASSUME TypeInv, CodesInv, [IndexNext]_listVars
             PROVE  CodesInv'
    OBVIOUS
<1> \A e, n, k : Puts(e, n, k)' <=> Puts(e, n, k)
    BY DEF Puts, Usable
<1>1. CASE QueryCities
    <2>1. /\ phase = "streets" /\ phase' = "cities" /\ UNCHANGED codesOf
          /\ CityEntries(cityTable') \ todo' = {}
        BY <1>1 DEF QueryCities, indexes
    <2>2. \A n \in Names : Range(codesOf[n]) = {}
        BY <2>1 DEF CodesInv, NoCodes, Range
    <2> QED
        BY <2>1, <2>2 DEF CodesInv
<1>2. CASE RestartService
    BY <1>2 DEF RestartService, CodesInv, NoCodes, IsInjective
<1>3. CASE QueryStreets \/ QueryFails \/ BuildLetters
    BY <1>3 DEF CodesInv, QueryStreets, QueryFails, BuildLetters, seen, indexes
<1>4. CASE TableChanges \/ UNCHANGED listVars
    BY <1>4 DEF CodesInv, TableChanges, indexVars, listVars
<1>5. ASSUME NEW e \in todo, AddStreet(e)
      PROVE  CodesInv'
    BY <1>5 DEF CodesInv, AddStreet
<1> QED
    BY <1>1, <1>2, <1>3, <1>4, <1>5, AddCityCodes DEF IndexNext, Build

LEMMA GivesPuts ==
    ASSUME NEW rows, NEW n, NEW k
    PROVE  (\E r \in rows : Gives(r, n, k)) <=> \E e \in CityEntries(rows) : Puts(e, n, k)
BY DEF Gives, Puts, CityEntries

\* A row that gives a name a code is an entry of the first query too, if that sees it.
LEMMA GivesStreet ==
    ASSUME NEW rows \in SUBSET Address, NEW r \in rows, NEW n, NEW k, Gives(r, n, k)
    PROVE  k \in Codes /\ \E e \in StreetEntries(rows) : Norm[e.code] = k /\ k # Invalid
<1>1. PICK e \in CityEntries({r}) : Usable(e) /\ Norm[e.code] = k
    BY DEF Gives
<1>2. /\ e.code = r.code /\ r.code \in Codes
      /\ Country = "si" => r.code # Empty /\ r.city # Empty
    BY <1>1 DEF CityEntries, Address
<1>3. \E f \in StreetEntries(rows) : f.code = r.code
    <2>1. Country = "si" => StreetOf(r) # Empty
        BY <1>2 DEF StreetOf
    <2> DEFINE f == [code |-> r.code, street |-> StreetOf(r)]
    <2>2. f \in StreetEntries(rows) /\ f.code = r.code
        BY <1>2, <2>1 DEF StreetEntries
    <2> QED
        BY <2>2
<1> QED
    BY <1>1, <1>2, <1>3 DEF Usable

\* A code found under a city has streets, whatever the table did between the two
\* queries, if the row that puts it there was in both responses and none of the code's
\* streets is without normal forms (de/database.go:93-111, de/de.go:54-66, 143-146).
THEOREM CityCodesAlwaysHaveStreets == IndexSpec => []CityCodesHaveStreets
<1>1. TypeInv /\ StreetsInv => CityCodesHaveStreets
    <2> SUFFICES ASSUME TypeInv, StreetsInv, phase = "ready", NEW n, NEW k,
                        NEW r \in streetTable \cap cityTable, Gives(r, n, k),
                        AllHaveForms(k)
                 PROVE  streetsOf[k] # {}
        BY DEF CityCodesHaveStreets, AllHaveForms
    <2>1. PICK e \in StreetEntries(streetTable) : Norm[e.code] = k /\ k # Invalid
        BY GivesStreet DEF TypeInv, IndexTypeOK
    <2> QED
        BY <2>1 DEF StreetsInv, Queried
<1> QED
    BY InitTypeInv, StepTypeInv, InitStreets, StepStreets, <1>1, PTL DEF IndexSpec

\* A finished index has exactly the codes of the rows the second query saw under their
\* cities and regions, and with "si" each of them once (de/database.go:159-217,
\* si/database.go:161-193).
THEOREM CityCodesComplete == IndexSpec => []CityCodesExact
<1>1. TypeInv /\ CodesInv => CityCodesExact
    <2> SUFFICES ASSUME TypeInv, CodesInv, phase = "ready", NEW n \in Names
                 PROVE  Range(codesOf[n])
                            = {k \in Codes : \E r \in cityTable : Gives(r, n, k)}
        BY DEF CityCodesExact, CodesInv
    <2>1. todo = {} /\ codesOf[n] \in Seq(NormalCodes)
        BY DEF TypeInv, IndexTypeOK, Reading
    <2>2. Range(codesOf[n]) \subseteq Codes
        BY <2>1 DEF Range, NormalCodes
    <2>3. \A k \in Codes : k \in Range(codesOf[n]) <=> \E r \in cityTable : Gives(r, n, k)
        BY <2>1, GivesPuts DEF CodesInv
    <2> QED
        BY <2>2, <2>3
<1> QED
    BY InitTypeInv, StepTypeInv, InitCodes, StepCodes, <1>1, PTL DEF IndexSpec
=============================================================================

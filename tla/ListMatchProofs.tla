--------------------------- MODULE ListMatchProofs ---------------------------
(***************************************************************************)
(* Proofs about the search of an address list, for any indexes, bounds,    *)
(* gradings and order of equal matches.                                    *)
(*                                                                         *)
(* What PostalCodeStreetCheck returns is a recursive function of the       *)
(* number of streets of the input.  What holds of every result is proved   *)
(* by looking at the least number for which it would fail (LeastNatural).  *)
(***************************************************************************)
EXTENDS ListMatch, FiniteSetTheorems, SequenceTheorems, WellFoundedInduction, TLAPS

-----------------------------------------------------------------------------
(***************************************************************************)
(* Numbers, sequences and the bounds.                                      *)
(***************************************************************************)

LEMMA LeastNatural ==
    ASSUME NEW T, T \subseteq Nat, T # {}
    PROVE  \E n \in T : \A m \in T : n <= m
<1>1. PICK n \in T : \A m \in T : <<m, n>> \notin OpToRel(<, Nat)
    BY WFMin, NatLessThanWellFounded
<1>2. \A m \in T : ~(m < n)
    BY <1>1 DEF OpToRel
<1> QED
    BY <1>2

\* Induction, with a set of numbers for the property.
LEMMA UpToInduction ==
    ASSUME NEW n \in Nat, NEW P, 0 \in P, \A i \in 1..n : i - 1 \in P => i \in P
    PROVE  \A i \in 0..n : i \in P
<1> DEFINE T == {i \in 0..n : i \notin P}
<1>1. SUFFICES ASSUME T # {}
               PROVE  FALSE
    OBVIOUS
<1> T \subseteq Nat
    OBVIOUS
<1>2. PICK i \in T : \A j \in T : i <= j
    <2> HIDE DEF T
    <2> QED
        BY <1>1, LeastNatural
<1>3. i \in 1..n /\ i - 1 \in 0..n
    BY <1>2
<1>4. i - 1 \notin T
    BY <1>2, <1>3
<1> QED
    BY <1>2, <1>3, <1>4

LEMMA MinLeast ==
    ASSUME NEW T, T \subseteq Nat, T # {}
    PROVE  Min(T) \in T /\ \A m \in T : Min(T) <= m
BY LeastNatural DEF Min

\* A bound leaves the beginning of a sequence, and all of it where there is room.
LEMMA CutProperties ==
    ASSUME NEW S, NEW s \in Seq(S), NEW n \in Int, country = "si" => n \in Nat
    PROVE  /\ Cut(s, n) \in Seq(S)
           /\ Len(Cut(s, n)) <= Len(s)
           /\ \A i \in 1..Len(Cut(s, n)) : Cut(s, n)[i] = s[i]
           /\ country = "si" => Len(Cut(s, n)) <= n
           /\ (country = "si" => Len(s) <= n) => Cut(s, n) = s
           /\ (country = "si" => n > 0) /\ s # <<>> => Cut(s, n) # <<>>
<1>1. Len(s) \in Nat /\ \A i \in 1..Len(s) : s[i] \in S
    BY LenProperties, ElementOfSeq
<1>2. CASE country # "si"
    BY <1>1, <1>2 DEF Cut
<1>3. CASE country = "si"
    <2> DEFINE m == IF Len(s) < n THEN Len(s) ELSE n
    <2>1. m \in Nat /\ m <= Len(s) /\ m <= n /\ n \in Nat
        BY <1>1, <1>3
    <2>2. Cut(s, n) = SubSeq(s, 1, m)
        BY <1>3 DEF Cut
    <2>3. \A i \in 1..m : s[i] \in S
        BY <1>1, <2>1
    <2>4. /\ SubSeq(s, 1, m) \in Seq(S)
          /\ Len(SubSeq(s, 1, m)) = m
          /\ \A i \in 1..m : SubSeq(s, 1, m)[i] = s[i]
        <3>1. /\ SubSeq(s, 1, m) \in Seq(S)
              /\ Len(SubSeq(s, 1, m)) = IF 1 <= m THEN m - 1 + 1 ELSE 0
              /\ \A i \in 1..m - 1 + 1 : SubSeq(s, 1, m)[i] = s[1 + i - 1]
            BY <2>1, <2>3, SubSeqProperties
        <3> HIDE DEF m
        <3> QED
            BY <2>1, <3>1
    <2>5. Len(s) <= n => SubSeq(s, 1, m) = s
        BY <1>1, <2>1, SubSeqFull
    <2>6. s # <<>> => Len(s) > 0
        BY <1>1, EmptySeq
    <2>7. n > 0 /\ s # <<>> => m > 0
        BY <1>1, <2>1, <2>6
    <2>8. m > 0 => SubSeq(s, 1, m) # <<>>
        BY <2>1, <2>4, EmptySeq
    <2> HIDE DEF m
    <2> QED
        BY <1>3, <2>1, <2>2, <2>4, <2>5, <2>7, <2>8
<1> QED
    BY <1>2, <1>3

LEMMA CutFills ==
    ASSUME NEW S, NEW s \in Seq(S), NEW n \in Nat, country = "si", n <= Len(s)
    PROVE  Len(Cut(s, n)) = n
<1>1. Len(s) \in Nat /\ \A i \in 1..Len(s) : s[i] \in S
    BY LenProperties, ElementOfSeq
<1>2. Cut(s, n) = SubSeq(s, 1, n)
    BY <1>1 DEF Cut
<1>3. Len(SubSeq(s, 1, n)) = IF 1 <= n THEN n - 1 + 1 ELSE 0
    BY <1>1, SubSeqProperties
<1> QED
    BY <1>2, <1>3

-----------------------------------------------------------------------------
(***************************************************************************)
(* One street of the input.                                                *)
(***************************************************************************)

\* What the indexes and the input can be.
Given ==
    /\ country \in {"de", "si"}
    /\ codesOf \in [Cities -> Seq(Codes)]
    /\ streetsOf \in [Codes -> Seq(Streets)]
    /\ grade \in [1..Inputs -> [Streets -> Near..Never]]
    /\ candidates \in Seq(Candidate)

Bounds == {Inputs, MaxMatches, MaxCodes, MaxPerCode, MaxPerStreet, MaxStreets} \subseteq Nat \ {0}

FoundStreet == [street : Streets, near : BOOLEAN]

LEMMA BoundsHold == Bounds
BY ListMatchAssumption DEF ListMatchAssumption, Bounds

LEMMA EntriesFinite ==
    ASSUME NEW S, NEW s \in Seq(S)
    PROVE  IsFiniteSet(ToSet(s)) /\ ToSet(s) \subseteq S
<1>1. s \in [1..Len(s) -> S] /\ Len(s) \in Nat
    BY LenProperties
<1>2. IsFiniteSet(1..Len(s))
    BY <1>1, FS_Interval
<1>3. s \in Surjection(1..Len(s), ToSet(s))
    BY <1>1 DEF Surjection, ToSet
<1> QED
    BY <1>1, <1>2, <1>3, FS_Surjection DEF ToSet

\* An order of a finite set has each of its elements somewhere.
LEMMA OrderComplete ==
    ASSUME NEW F, IsFiniteSet(F), NEW o \in SetToSeqs(F)
    PROVE  /\ o \in Seq(F)
           /\ \A x \in F : \E n \in DOMAIN o : o[n] = x
<1> DEFINE D == 1..Cardinality(F)
<1>1. Cardinality(F) \in Nat
    BY FS_CardinalityType
<1>2. o \in [D -> F] /\ \A i, j \in D : i # j => o[i] # o[j]
    BY DEF SetToSeqs
<1>3. o \in Injection(D, F)
    BY <1>2 DEF Injection, IsInjective
<1>4. IsFiniteSet(D) /\ Cardinality(D) = Cardinality(F)
    BY <1>1, FS_Interval
<1>5. o \in Surjection(D, F)
    BY <1>3, <1>4, FS_Injection
<1> QED
    BY <1>1, <1>2, <1>5 DEF Surjection

LEMMA FoundFinite ==
    ASSUME Given, NEW i \in 1..Inputs, NEW s \in Seq(Streets)
    PROVE  IsFiniteSet(Found(i, s)) /\ Found(i, s) \subseteq Streets
BY EntriesFinite, FS_Subset DEF Found

\* The loop over the candidates of a street keeps a beginning, as long as allowed,
\* with a near-perfect one if there is any; it keeps something if there is anything.
LEMMA KeptProperties ==
    ASSUME Given, NEW i \in 1..Inputs, NEW o \in Seq(Streets), BestFirst(i, o)
    PROVE  /\ Kept(i, o) \in Seq(Streets)
           /\ Kept(i, o) = <<>> => o = <<>>
           /\ country = "si" => Len(Kept(i, o)) <= MaxPerStreet
           /\ (\E n \in DOMAIN o : grade[i][o[n]] = Near)
                => \E n \in DOMAIN Kept(i, o) : grade[i][Kept(i, o)[n]] = Near
<1> DEFINE near == {n \in DOMAIN o : grade[i][o[n]] = Near}
           first == SubSeq(o, 1, Min(near))
<1>1. MaxPerStreet \in Nat \ {0}
    BY BoundsHold DEF Bounds
<1>2. /\ Len(o) \in Nat /\ DOMAIN o = 1..Len(o)
      /\ \A n \in 1..Len(o) : o[n] \in Streets
    BY LenProperties, ElementOfSeq
<1>3. \A x \in Streets : grade[i][x] \in Near..Never
    BY DEF Given
<1>4. CASE country = "si" /\ near # {}
    <2>1. near \subseteq Nat
        BY <1>2
    <2>2. /\ Min(near) \in near
          /\ \A m \in near : Min(near) <= m
        BY <1>4, <2>1, MinLeast
    <2>3. Min(near) = 1
        <3>1. PICK n \in 1..Len(o) : grade[i][o[n]] = Near
            BY <1>2, <1>4
        <3>2. o[1] \in Streets /\ 1 \in DOMAIN o
            BY <1>2
        <3>3. n = 1 \/ grade[i][o[1]] <= grade[i][o[n]]
            BY <1>2, <3>1, <3>2 DEF BestFirst
        <3>4. grade[i][o[1]] \in 0..5
            BY <1>3, <3>2 DEF Near, Never
        <3>5. grade[i][o[1]] = Near
            BY <3>1, <3>3, <3>4 DEF Near
        <3>6. 1 \in near
            BY <3>2, <3>5
        <3> HIDE DEF near
        <3>7. Min(near) \in Nat /\ Min(near) <= 1
            BY <2>1, <2>2, <3>6
        <3>8. Min(near) \in 1..Len(o)
            BY <1>2, <2>2 DEF near
        <3> QED
            BY <3>7, <3>8
    <2>4. Len(o) >= 1
        BY <1>2, <1>4
    <2>5. first \in Seq(Streets) /\ Len(first) = 1 /\ first[1] = o[1]
        <3> HIDE DEF near
        <3>1. first = SubSeq(o, 1, 1)
            BY <2>3
        <3>2. \A n \in 1..1 : o[n] \in Streets
            BY <1>2, <2>4
        <3>3. /\ SubSeq(o, 1, 1) \in Seq(Streets)
              /\ Len(SubSeq(o, 1, 1)) = IF 1 <= 1 THEN 1 - 1 + 1 ELSE 0
              /\ \A m \in 1..1 - 1 + 1 : SubSeq(o, 1, 1)[m] = o[1 + m - 1]
            BY <3>2, SubSeqProperties
        <3> HIDE DEF first
        <3> QED
            BY <3>1, <3>3
    <2>6. Kept(i, o) = Cut(first, MaxPerStreet)
        BY <1>4 DEF Kept
    <2> HIDE DEF first, near
    <2>7. Kept(i, o) = first
        BY <1>1, <2>5, <2>6, CutProperties
    <2>8. DOMAIN first = 1..1 /\ grade[i][first[1]] = Near
        BY <2>2, <2>3, <2>5, LenProperties DEF near
    <2>9. Kept(i, o) # <<>>
        BY <2>5, <2>7, EmptySeq
    <2>10. Len(Kept(i, o)) <= MaxPerStreet
        BY <1>1, <1>4, <2>5, <2>6, CutProperties
    <2> QED
        BY <2>5, <2>7, <2>8, <2>9, <2>10
<1>5. CASE ~(country = "si" /\ near # {})
    <2>1. Kept(i, o) = Cut(o, MaxPerStreet)
        BY <1>5 DEF Kept
    <2>2. near # {} => Kept(i, o) = o
        BY <1>1, <1>5, <2>1, CutProperties
    <2>3. /\ Kept(i, o) \in Seq(Streets)
          /\ Kept(i, o) = <<>> => o = <<>>
          /\ country = "si" => Len(Kept(i, o)) <= MaxPerStreet
        BY <1>1, <2>1, CutProperties
    <2> QED
        BY <2>2, <2>3
<1> QED
    BY <1>4, <1>5

\* The result for a street, in the form PostalCodeStreetCheck returns it.
Listed(i, o) == [n \in DOMAIN o |-> [street |-> o[n], near |-> grade[i][o[n]] = Near]]

LEMMA ListedProperties ==
    ASSUME Given, NEW i \in 1..Inputs, NEW o \in Seq(Streets)
    PROVE  /\ Listed(i, o) \in Seq(FoundStreet)
           /\ Len(Listed(i, o)) = Len(o)
           /\ \A n \in DOMAIN o : n \in DOMAIN Listed(i, o)
                                    /\ Listed(i, o)[n].near = (grade[i][o[n]] = Near)
<1>1. Len(o) \in Nat /\ DOMAIN o = 1..Len(o) /\ \A n \in 1..Len(o) : o[n] \in Streets
    BY LenProperties, ElementOfSeq
<1>2. \A n \in DOMAIN o :
        [street |-> o[n], near |-> grade[i][o[n]] = Near] \in FoundStreet
    BY <1>1 DEF FoundStreet
<1>3. Listed(i, o) \in [1..Len(o) -> FoundStreet]
    BY <1>1, <1>2 DEF Listed
<1>4. Listed(i, o) \in Seq(FoundStreet)
    BY <1>1, <1>3, SeqDef
<1>5. Len(Listed(i, o)) = Len(o)
    BY <1>1, <1>3, <1>4, LenProperties
<1> QED
    BY <1>1, <1>4, <1>5 DEF Listed

LEMMA FromAnOrder ==
    ASSUME Given, NEW i \in 1..Inputs, NEW s \in Seq(Streets), NEW r \in PerStreet(i, s)
    PROVE  \E o \in SetToSeqs(Found(i, s)) : BestFirst(i, o) /\ r = Listed(i, Kept(i, o))
BY DEF PerStreet, Listed

\* The result for a street is empty in all cases or in none; it is as long as
\* allowed, and has a near-perfect match if there is one.
LEMMA PerStreetProperties ==
    ASSUME Given, NEW i \in 1..Inputs, NEW s \in Seq(Streets), NEW r \in PerStreet(i, s)
    PROVE  /\ r \in Seq(FoundStreet)
           /\ country = "si" => Len(r) <= MaxPerStreet
           /\ r = <<>> => PerStreet(i, s) = {<<>>}
           /\ (\E x \in ToSet(s) : grade[i][x] = Near) => \E n \in DOMAIN r : r[n].near
<1> DEFINE F == Found(i, s)
<1>1. IsFiniteSet(F) /\ F \subseteq Streets
    BY FoundFinite
<1>2. \A o \in SetToSeqs(F) : o \in Seq(Streets) /\ \A x \in F : \E n \in DOMAIN o : o[n] = x
    BY <1>1, OrderComplete, SeqMonotonic
<1>3. PICK o \in SetToSeqs(F) : BestFirst(i, o) /\ r = Listed(i, Kept(i, o))
    BY FromAnOrder
<1>4. Kept(i, o) \in Seq(Streets)
    BY <1>2, <1>3, KeptProperties
<1>5. r \in Seq(FoundStreet) /\ Len(r) = Len(Kept(i, o))
    BY <1>3, <1>4, ListedProperties
<1>6. country = "si" => Len(r) <= MaxPerStreet
    BY <1>2, <1>3, <1>5, KeptProperties
<1>7. ASSUME r = <<>>
      PROVE  PerStreet(i, s) = {<<>>}
    <2>1. Kept(i, o) = <<>>
        BY <1>4, <1>5, <1>7, EmptySeq
    <2>2. o = <<>>
        BY <1>2, <1>3, <2>1, KeptProperties
    <2>3. F = {}
        BY <1>2, <1>3, <2>2
    <2>4. ASSUME NEW q \in PerStreet(i, s)
          PROVE  q = <<>>
        <3>1. PICK p \in SetToSeqs(F) : BestFirst(i, p) /\ q = Listed(i, Kept(i, p))
            BY FromAnOrder
        <3>2. p \in Seq({}) /\ p \in Seq(Streets)
            BY <1>1, <1>2, <2>3, OrderComplete
        <3>3. p = <<>>
            BY <3>2, EmptySeq, ElementOfSeq, LenProperties
        <3> QED
            BY <1>3, <1>7, <2>2, <3>1, <3>3
    <2> QED
        BY <1>7, <2>4
<1>8. ASSUME NEW x \in ToSet(s), grade[i][x] = Near
      PROVE  \E n \in DOMAIN r : r[n].near
    <2>1. x \in F
        <3> \A y \in ToSet(s) : y \in Streets
            BY EntriesFinite
        <3>1. \A y \in ToSet(s) : grade[i][y] \in 0..5
            BY DEF Given, Near, Never
        <3>2. \A y \in ToSet(s) : Stage(i, x) <= Stage(i, y)
            BY <1>8, <3>1 DEF Stage, Near
        <3> QED
            BY <1>8, <3>2 DEF Found, Near, Never
    <2>2. \E n \in DOMAIN o : grade[i][o[n]] = Near
        BY <1>2, <1>3, <1>8, <2>1
    <2>3. PICK n \in DOMAIN Kept(i, o) : grade[i][Kept(i, o)[n]] = Near
        BY <1>2, <1>3, <2>2, KeptProperties
    <2> QED
        BY <1>3, <1>4, <2>3, ListedProperties
<1> QED
    BY <1>5, <1>6, <1>7, <1>8

-----------------------------------------------------------------------------
(***************************************************************************)
(* All streets of the input.                                               *)
(***************************************************************************)

Extended(results, i, s) == {r \o more : r \in results, more \in PerStreet(i, s)}

\* f gives the results for the first streets of the input, up to n.
Results(f, n, s) ==
    f = [i \in 0..n |-> IF i = 0 THEN {<<>>} ELSE Extended(f[i - 1], i, s)]

LEMMA ResultsExist ==
    ASSUME NEW s, NEW n \in Nat
    PROVE  \E f : Results(f, n, s)
<1> DEFINE P == {m \in Nat : \E f : Results(f, m, s)}
<1>1. 0 \in P
    <2>1. Results([i \in 0..0 |-> {<<>>}], 0, s)
        BY DEF Results
    <2> QED
        BY <2>1
<1>2. ASSUME NEW m \in 1..n, m - 1 \in P
      PROVE  m \in P
    <2>1. PICK f : Results(f, m - 1, s)
        BY <1>2
    <2> DEFINE g == [i \in 0..m |-> IF i = m THEN Extended(f[m - 1], m, s) ELSE f[i]]
    <2>2. \A i \in 0..m - 1 : g[i] = f[i]
        OBVIOUS
    <2>3. ASSUME NEW i \in 0..m - 1
          PROVE  g[i] = IF i = 0 THEN {<<>>} ELSE Extended(g[i - 1], i, s)
        <3>1. f[i] = IF i = 0 THEN {<<>>} ELSE Extended(f[i - 1], i, s)
            BY <2>1 DEF Results
        <3>2. i # 0 => g[i - 1] = f[i - 1]
            BY <2>2
        <3> HIDE DEF g
        <3> QED
            BY <2>2, <3>1, <3>2
    <2>4. g[m] = Extended(g[m - 1], m, s)
        OBVIOUS
    <2>5. g = [i \in 0..m |-> g[i]]
        OBVIOUS
    <2>6. m # 0 /\ \A i \in 0..m : i \in 0..m - 1 \/ i = m
        OBVIOUS
    <2> HIDE DEF g
    <2>7. \A i \in 0..m : g[i] = IF i = 0 THEN {<<>>} ELSE Extended(g[i - 1], i, s)
        BY <2>3, <2>4, <2>6
    <2>8. Results(g, m, s)
        BY <2>5, <2>7 DEF Results
    <2> QED
        BY <2>8
<1> HIDE DEF P
<1>3. n \in P
    BY <1>1, <1>2, UpToInduction
<1> QED
    BY <1>3 DEF P

StreetsOf(z) == Cut(streetsOf[z], MaxStreets)

LEMMA ResultsOf ==
    ASSUME NEW z
    PROVE  \E f : Results(f, Inputs, StreetsOf(z)) /\ PostalCodeStreetCheck(z) = f[Inputs]
<1> DEFINE f == CHOOSE g : Results(g, Inputs, StreetsOf(z))
<1>1. Inputs \in Nat
    BY BoundsHold DEF Bounds
<1>2. Results(f, Inputs, StreetsOf(z))
    BY <1>1, ResultsExist
<1>3. PostalCodeStreetCheck(z) = f[Inputs]
    BY DEF PostalCodeStreetCheck, Results, Extended, StreetsOf
<1> QED
    BY <1>2, <1>3

NearAmong(i, s) == \E x \in ToSet(s) : grade[i][x] = Near

Fine(r, n, s) ==
    /\ r \in Seq(FoundStreet)
    /\ country = "si" => Len(r) <= n * MaxPerStreet
    /\ \A i \in 1..n : NearAmong(i, s) => \E m \in DOMAIN r : r[m].near

LEMMA ExtendedFine ==
    ASSUME Given, NEW s \in Seq(Streets), NEW i \in 1..Inputs, NEW results,
           \A r \in results : Fine(r, i - 1, s),
           NEW r \in Extended(results, i, s)
    PROVE  /\ Fine(r, i, s)
           /\ (<<>> \in results => results = {<<>>}) /\ r = <<>> =>
                Extended(results, i, s) = {<<>>}
<1>1. PICK q \in results, more \in PerStreet(i, s) : r = q \o more
    BY DEF Extended
<1>2. q \in Seq(FoundStreet) /\ more \in Seq(FoundStreet)
    BY PerStreetProperties DEF Fine
<1>3. /\ r \in Seq(FoundStreet)
      /\ Len(r) = Len(q) + Len(more)
      /\ \A m \in 1..Len(q) + Len(more) : r[m] = IF m <= Len(q) THEN q[m] ELSE more[m - Len(q)]
    BY <1>1, <1>2, ConcatProperties
<1>4. /\ Len(q) \in Nat /\ DOMAIN q = 1..Len(q)
      /\ Len(more) \in Nat /\ DOMAIN more = 1..Len(more)
      /\ DOMAIN r = 1..Len(r)
    BY <1>2, <1>3, LenProperties
<1>5. country = "si" => Len(r) <= i * MaxPerStreet
    <2>1. country = "si" => Len(q) <= (i - 1) * MaxPerStreet /\ Len(more) <= MaxPerStreet
        BY PerStreetProperties DEF Fine
    <2>2. MaxPerStreet \in Nat /\ i \in Nat /\ (i - 1) * MaxPerStreet + MaxPerStreet = i * MaxPerStreet
        BY BoundsHold DEF Bounds
    <2> QED
        BY <1>3, <1>4, <2>1, <2>2
<1>6. ASSUME NEW j \in 1..i, NearAmong(j, s)
      PROVE  \E m \in DOMAIN r : r[m].near
    <2>1. CASE j = i
        <3>1. PICK m \in DOMAIN more : more[m].near
            BY <1>6, <2>1, PerStreetProperties DEF NearAmong
        <3>2. Len(q) + m \in DOMAIN r /\ r[Len(q) + m] = more[m]
            BY <1>3, <1>4
        <3> QED
            BY <3>1, <3>2
    <2>2. CASE j # i
        <3>1. j \in 1..i - 1
            BY <2>2
        <3>2. PICK m \in DOMAIN q : q[m].near
            BY <1>6, <3>1 DEF Fine
        <3>3. m \in DOMAIN r /\ r[m] = q[m]
            BY <1>3, <1>4
        <3> QED
            BY <3>2, <3>3
    <2> QED
        BY <2>1, <2>2
<1>7. ASSUME <<>> \in results => results = {<<>>}, r = <<>>
      PROVE  Extended(results, i, s) = {<<>>}
    <2>1. q = <<>> /\ more = <<>>
        <3>1. Len(q) = 0 /\ Len(more) = 0
            BY <1>3, <1>4, <1>7, EmptySeq
        <3> QED
            BY <1>2, <3>1, EmptySeq
    <2>2. results = {<<>>} /\ PerStreet(i, s) = {<<>>}
        BY <1>7, <2>1, PerStreetProperties
    <2>3. \A p \in Extended(results, i, s) : p = <<>>
        <3>1. <<>> \o <<>> = <<>>
            BY <1>1, <1>7, <2>1
        <3> QED
            BY <2>2, <3>1 DEF Extended
    <2> QED
        BY <1>7, <2>3
<1> QED
    BY <1>3, <1>5, <1>6, <1>7 DEF Fine

LEMMA ResultsFine ==
    ASSUME Given, NEW s \in Seq(Streets), NEW f, Results(f, Inputs, s)
    PROVE  \A i \in 0..Inputs : /\ \A r \in f[i] : Fine(r, i, s)
                                /\ <<>> \in f[i] => f[i] = {<<>>}
<1> DEFINE P == {i \in 0..Inputs : /\ \A r \in f[i] : Fine(r, i, s)
                                   /\ <<>> \in f[i] => f[i] = {<<>>}}
<1>1. Inputs \in Nat
    BY BoundsHold DEF Bounds
<1>2. \A i \in 0..Inputs : f[i] = IF i = 0 THEN {<<>>} ELSE Extended(f[i - 1], i, s)
    BY DEF Results
<1>3. 0 \in P
    <2>1. f[0] = {<<>>}
        BY <1>1, <1>2
    <2>2. MaxPerStreet \in Nat
        BY BoundsHold DEF Bounds
    <2>3. Fine(<<>>, 0, s)
        BY <2>2, EmptySeq DEF Fine
    <2> QED
        BY <1>1, <2>1, <2>3
<1>4. ASSUME NEW i \in 1..Inputs, i - 1 \in P
      PROVE  i \in P
    <2>1. f[i] = Extended(f[i - 1], i, s)
        BY <1>1, <1>2
    <2>2. /\ \A r \in f[i - 1] : Fine(r, i - 1, s)
          /\ <<>> \in f[i - 1] => f[i - 1] = {<<>>}
        BY <1>4
    <2> QED
        BY <1>1, <2>1, <2>2, ExtendedFine
<1> HIDE DEF P
<1>5. \A i \in 0..Inputs : i \in P
    BY <1>1, <1>3, <1>4, UpToInduction
<1> QED
    BY <1>5 DEF P

\* The results of PostalCodeStreetCheck: all of them are empty or none is, they have
\* the length the bounds allow, and a near-perfect match if there is one.
LEMMA StreetCheckProperties ==
    ASSUME Given, NEW z \in Codes, NEW r \in PostalCodeStreetCheck(z)
    PROVE  /\ r \in Seq(FoundStreet)
           /\ r # <<>> => StreetMatched(z)
           /\ country = "si" => Len(r) <= Inputs * MaxPerStreet
           /\ (\E i \in 1..Inputs : NearAmong(i, StreetsOf(z))) => \E m \in DOMAIN r : r[m].near
<1>1. Inputs \in Nat /\ MaxStreets \in Nat
    BY BoundsHold DEF Bounds
<1>2. StreetsOf(z) \in Seq(Streets)
    BY <1>1, CutProperties DEF StreetsOf, Given
<1>3. PICK f : Results(f, Inputs, StreetsOf(z)) /\ PostalCodeStreetCheck(z) = f[Inputs]
    BY ResultsOf
<1>4. Fine(r, Inputs, StreetsOf(z))
    BY <1>1, <1>2, <1>3, ResultsFine
<1>5. <<>> \in PostalCodeStreetCheck(z) => r = <<>>
    BY <1>1, <1>2, <1>3, ResultsFine
<1> QED
    BY <1>4, <1>5 DEF Fine, StreetMatched

-----------------------------------------------------------------------------
(***************************************************************************)
(* Types.                                                                  *)
(***************************************************************************)

LEMMA TypeGiven == TypeOK => Given
BY ListMatchAssumption DEF TypeOK, Given, ListMatchAssumption

LEMMA CodesToCheckType ==
    ASSUME Given, NEW n \in DOMAIN candidates
    PROVE  /\ candidates[n] \in Candidate
           /\ CodesToCheck(n) \in Seq(Codes)
           /\ \A c \in DOMAIN CodesToCheck(n) :
                CodesToCheck(n)[c] \in Codes
                    /\ CodesToCheck(n)[c] \in ToSet(codesOf[candidates[n].city])
           /\ FewCodes => CodesToCheck(n) = codesOf[candidates[n].city]
<1>1. candidates[n] \in Candidate
    BY LenProperties, ElementOfSeq DEF Given
<1>2. candidates[n].city \in Cities
    BY <1>1 DEF Candidate
<1>3. codesOf[candidates[n].city] \in Seq(Codes)
    BY <1>2 DEF Given
<1>4. MaxCodes \in Nat
    BY BoundsHold DEF Bounds
<1>5. /\ CodesToCheck(n) \in Seq(Codes)
      /\ Len(CodesToCheck(n)) <= Len(codesOf[candidates[n].city])
      /\ \A c \in 1..Len(CodesToCheck(n)) : CodesToCheck(n)[c] = codesOf[candidates[n].city][c]
    BY <1>3, <1>4, CutProperties DEF CodesToCheck
<1>6. FewCodes => CodesToCheck(n) = codesOf[candidates[n].city]
    BY <1>2, <1>3, <1>4, CutProperties DEF CodesToCheck, FewCodes
<1>7. ASSUME NEW c \in DOMAIN CodesToCheck(n)
      PROVE  CodesToCheck(n)[c] \in Codes
                /\ CodesToCheck(n)[c] \in ToSet(codesOf[candidates[n].city])
    <2>1. c \in 1..Len(CodesToCheck(n))
        BY <1>5, LenProperties
    <2>2. c \in DOMAIN codesOf[candidates[n].city]
        BY <1>3, <1>5, <2>1, LenProperties
    <2> QED
        BY <1>5, <2>1, <2>2, ElementOfSeq DEF ToSet
<1> QED
    BY <1>1, <1>5, <1>6, <1>7

\* What is kept of a result is as long as there is room for; it is empty only if
\* there is none, and everything if there is room left.
LEMMA AddedProperties ==
    ASSUME matches \in Seq(Match), Room, NEW found \in Seq(FoundStreet)
    PROVE  /\ Added(found) \in Seq(FoundStreet)
           /\ country = "si" => Len(matches) + Len(Added(found)) <= MaxMatches
           /\ Added(found) = <<>> <=> found = <<>>
           /\ (country = "si" => /\ Len(found) <= MaxPerCode
                                 /\ Len(matches) + Len(Added(found)) < MaxMatches)
                => Added(found) = found
<1> DEFINE left == MaxMatches - Len(matches)
           some == Cut(found, MaxPerCode)
<1>1. /\ MaxMatches \in Nat \ {0} /\ MaxPerCode \in Nat \ {0}
      /\ Len(matches) \in Nat /\ Len(found) \in Nat
    BY BoundsHold, LenProperties DEF Bounds
<1>2. left \in Int /\ (country = "si" => left \in Nat /\ left > 0)
    BY <1>1 DEF Room
<1>3. /\ some \in Seq(FoundStreet)
      /\ Len(some) <= Len(found)
      /\ found # <<>> => some # <<>>
      /\ (country = "si" => Len(found) <= MaxPerCode) => some = found
    BY <1>1, CutProperties
<1>4. Added(found) = Cut(some, left)
    BY DEF Added
<1> HIDE DEF some, left
<1>5. /\ Added(found) \in Seq(FoundStreet)
      /\ Len(Added(found)) <= Len(some)
      /\ country = "si" => Len(Added(found)) <= left
      /\ (country = "si" => Len(some) <= left) => Added(found) = some
      /\ some # <<>> => Added(found) # <<>>
    BY <1>2, <1>3, <1>4, CutProperties
<1>6. Len(some) \in Nat /\ Len(Added(found)) \in Nat
    BY <1>3, <1>5, LenProperties
<1>7. country = "si" /\ left <= Len(some) => Len(Added(found)) = left
    BY <1>2, <1>3, <1>4, CutFills
<1>8. found = <<>> => Added(found) = <<>>
    BY <1>3, <1>5, <1>6, EmptySeq
<1> QED
    BY <1>1, <1>2, <1>3, <1>5, <1>6, <1>7, <1>8 DEF left

-----------------------------------------------------------------------------
(***************************************************************************)
(* What the loops keep.                                                    *)
(***************************************************************************)

\* The loops are past the c-th postal code of the n-th city.
Passed(n, c) == n < city \/ (n = city /\ c < code)

\* All that is collected is a match of both other checks.
MatchesReal ==
    \A m \in DOMAIN matches :
        /\ \E n \in DOMAIN candidates : candidates[n].city = matches[m].city
        /\ matches[m].code \in ToSet(codesOf[matches[m].city])
        /\ StreetMatched(matches[m].code)

\* As long as nothing is collected, no postal code that was passed has a street.
NothingMissed ==
    matches = <<>> =>
        \A n \in DOMAIN candidates : \A c \in DOMAIN CodesToCheck(n) :
            Passed(n, c) => ~ StreetMatched(CodesToCheck(n)[c])

\* As long as there is room, near-perfect matches that were passed are collected, one
\* for each city.
NearCollected ==
    Room /\ Inputs * MaxPerStreet <= MaxPerCode =>
        \A n \in DOMAIN candidates : \A c \in DOMAIN CodesToCheck(n) :
            (/\ Passed(n, c)
             /\ candidates[n].near
             /\ \E i \in 1..Inputs : NearAmong(i, StreetsOf(CodesToCheck(n)[c])))
            => \E m \in DOMAIN matches : matches[m].near /\ matches[m].city = candidates[n].city

Finished == pc = "sent" => city > Len(candidates) \/ ~Room

IInv == TypeOK /\ MatchesReal /\ NothingMissed /\ NearCollected /\ Finished

LEMMA InitIInv == Init => IInv
<1> SUFFICES ASSUME Init
             PROVE  IInv
    OBVIOUS
<1>1. /\ codesOf \in [Cities -> Seq(Codes)] /\ streetsOf \in [Codes -> Seq(Streets)]
      /\ candidates \in Seq(Candidate) /\ Len(candidates) \in Nat
    BY ListMatchAssumption, LenProperties DEF Init, ListMatchAssumption
<1>2. MaxMatches \in Nat
    BY BoundsHold DEF Bounds
<1>3. matches \in Seq(Match) /\ Len(matches) = 0 /\ DOMAIN matches = 1..0
    BY EmptySeq, LenProperties DEF Init
<1>4. TypeOK
    BY <1>1, <1>2, <1>3 DEF Init, TypeOK
<1>5. \A n \in DOMAIN candidates : \A c \in DOMAIN CodesToCheck(n) : ~Passed(n, c)
    <2> SUFFICES ASSUME NEW n \in DOMAIN candidates, NEW c \in DOMAIN CodesToCheck(n)
                 PROVE  ~Passed(n, c)
        OBVIOUS
    <2>1. n \in 1..Len(candidates)
        BY <1>1, LenProperties
    <2>2. CodesToCheck(n) \in Seq(Codes)
        BY <1>4, TypeGiven, CodesToCheckType
    <2>3. c \in 1..Len(CodesToCheck(n))
        BY <2>2, LenProperties
    <2>4. city = 1 /\ code = 1
        BY DEF Init
    <2> QED
        BY <1>1, <2>1, <2>2, <2>3, <2>4, LenProperties DEF Passed
<1>6. MatchesReal /\ Finished
    BY <1>3 DEF Init, MatchesReal, Finished
<1>7. NothingMissed /\ NearCollected
    BY <1>5 DEF NothingMissed, NearCollected
<1> QED
    BY <1>4, <1>6, <1>7 DEF IInv

\* What is searched, and what a search finds, does not change.
LEMMA SameInput ==
    ASSUME UNCHANGED input
    PROVE  /\ \A z : StreetMatched(z)' = StreetMatched(z)
           /\ \A n : CodesToCheck(n)' = CodesToCheck(n)
           /\ \A i, z : NearAmong(i, StreetsOf(z))' = NearAmong(i, StreetsOf(z))
           /\ UNCHANGED <<country, codesOf, streetsOf, grade, candidates>>
<1>1. UNCHANGED <<country, codesOf, streetsOf, grade, candidates>>
    BY DEF input
<1>2. \A z : PostalCodeStreetCheck(z)' = PostalCodeStreetCheck(z)
    BY <1>1 DEF PostalCodeStreetCheck, PerStreet, Found, BestFirst, Kept, Cut, Stage
<1>3. \A z : StreetMatched(z)' = StreetMatched(z)
    BY <1>2 DEF StreetMatched
<1>4. \A n : CodesToCheck(n)' = CodesToCheck(n)
    BY <1>1 DEF CodesToCheck, Cut
<1>5. \A z : StreetsOf(z)' = StreetsOf(z)
    BY <1>1 DEF StreetsOf, Cut
<1>6. \A i, z : NearAmong(i, StreetsOf(z))' = NearAmong(i, StreetsOf(z))
    BY <1>1, <1>5 DEF NearAmong
<1> QED
    BY <1>1, <1>3, <1>4, <1>6

-----------------------------------------------------------------------------
(***************************************************************************)
(* The innermost step: a postal code is checked.                           *)
(***************************************************************************)

NewMatch(e) ==
    [city |-> candidates[city].city, code |-> CodesToCheck(city)[code],
     street |-> e.street, near |-> candidates[city].near /\ e.near]

NewMatches(added) == [n \in DOMAIN added |-> NewMatch(added[n])]

Checked(found) ==
    /\ found \in PostalCodeStreetCheck(CodesToCheck(city)[code])
    /\ matches' = matches \o NewMatches(Added(found))
    /\ IF EarlyExit(Added(found)) THEN NextCity ELSE code' = code + 1 /\ UNCHANGED city
    /\ UNCHANGED <<input, pc>>

LEMMA SomethingChecked == CheckCode => \E found : Checked(found)
BY DEF CheckCode, Checked, NewMatches, NewMatch

\* The position of the loops.
LEMMA CheckedWhere ==
    ASSUME TypeOK, CheckCode
    PROVE  /\ city \in DOMAIN candidates /\ code \in DOMAIN CodesToCheck(city)
           /\ candidates[city] \in Candidate /\ CodesToCheck(city)[code] \in Codes
           /\ Room
<1>1. Given
    BY TypeGiven
<1>2. city \in DOMAIN candidates
    BY LenProperties DEF TypeOK, CheckCode
<1>3. CodesToCheck(city) \in Seq(Codes)
    BY <1>1, <1>2, CodesToCheckType
<1>4. code \in DOMAIN CodesToCheck(city)
    BY <1>3, LenProperties DEF TypeOK, CheckCode
<1> QED
    BY <1>1, <1>2, <1>4, CodesToCheckType DEF CheckCode

LEMMA JoinedSequences ==
    ASSUME NEW S, NEW s \in Seq(S), NEW t \in Seq(S), NEW j, j = s \o t
    PROVE  /\ j \in Seq(S) /\ Len(j) = Len(s) + Len(t)
           /\ \A m \in DOMAIN s : m \in DOMAIN j /\ j[m] = s[m]
           /\ \A k \in DOMAIN t : Len(s) + k \in DOMAIN j /\ j[Len(s) + k] = t[k]
           /\ \A m \in DOMAIN j : \/ m \in DOMAIN s /\ j[m] = s[m]
                                  \/ \E k \in DOMAIN t : j[m] = t[k]
<1>1. /\ j \in Seq(S) /\ Len(j) = Len(s) + Len(t)
      /\ \A m \in 1..Len(s) + Len(t) : j[m] = IF m <= Len(s) THEN s[m] ELSE t[m - Len(s)]
    BY ConcatProperties
<1>2. /\ DOMAIN s = 1..Len(s) /\ DOMAIN t = 1..Len(t) /\ DOMAIN j = 1..Len(j)
      /\ Len(s) \in Nat /\ Len(t) \in Nat
    BY <1>1, LenProperties
<1>3. \A k \in DOMAIN t : Len(s) + k \in DOMAIN j /\ j[Len(s) + k] = t[k]
    BY <1>1, <1>2
<1>4. \A m \in DOMAIN j : \/ m \in DOMAIN s /\ j[m] = s[m]
                          \/ m - Len(s) \in DOMAIN t /\ j[m] = t[m - Len(s)]
    BY <1>1, <1>2
<1>5. \A m \in DOMAIN s : m \in DOMAIN j /\ j[m] = s[m]
    BY <1>1, <1>2
<1> QED
    BY <1>1, <1>3, <1>4, <1>5

LEMMA NewMatchesType ==
    ASSUME TypeOK, CheckCode, NEW added \in Seq(FoundStreet)
    PROVE  /\ NewMatches(added) \in Seq(Match)
           /\ Len(NewMatches(added)) = Len(added)
           /\ DOMAIN NewMatches(added) = DOMAIN added
           /\ \A n \in DOMAIN added : NewMatches(added)[n] = NewMatch(added[n])
<1>1. candidates[city] \in Candidate /\ CodesToCheck(city)[code] \in Codes
    BY CheckedWhere
<1>2. Len(added) \in Nat /\ DOMAIN added = 1..Len(added) /\ \A n \in 1..Len(added) : added[n] \in FoundStreet
    BY LenProperties, ElementOfSeq
<1>3. \A e \in FoundStreet : NewMatch(e) \in Match
    BY <1>1 DEF NewMatch, FoundStreet, Match, Candidate
<1>4. NewMatches(added) \in [1..Len(added) -> Match]
    BY <1>2, <1>3 DEF NewMatches
<1>5. NewMatches(added) \in Seq(Match)
    BY <1>2, <1>4, SeqDef
<1> QED
    BY <1>2, <1>4, <1>5, LenProperties DEF NewMatches

\* What is collected afterwards: all that was, and what was found and has room.
LEMMA CheckedMatches ==
    ASSUME TypeOK, CheckCode, NEW found, Checked(found)
    PROVE  /\ found \in Seq(FoundStreet)
           /\ Added(found) \in Seq(FoundStreet)
           /\ matches' \in Seq(Match)
           /\ Len(matches') = Len(matches) + Len(Added(found))
           /\ \A m \in DOMAIN matches : m \in DOMAIN matches' /\ matches'[m] = matches[m]
           /\ \A k \in DOMAIN Added(found) :
                \E m \in DOMAIN matches' : matches'[m] = NewMatch(Added(found)[k])
           /\ \A m \in DOMAIN matches' :
                \/ m \in DOMAIN matches /\ matches'[m] = matches[m]
                \/ \E k \in DOMAIN Added(found) : matches'[m] = NewMatch(Added(found)[k])
<1> DEFINE new == NewMatches(Added(found))
<1>1. found \in Seq(FoundStreet)
    BY TypeGiven, CheckedWhere, StreetCheckProperties DEF Checked
<1>2. matches \in Seq(Match) /\ Room
    BY CheckedWhere DEF TypeOK
<1>3. Added(found) \in Seq(FoundStreet)
    BY <1>1, <1>2, AddedProperties
<1>4. /\ new \in Seq(Match) /\ Len(new) = Len(Added(found))
      /\ DOMAIN new = DOMAIN Added(found)
      /\ \A k \in DOMAIN Added(found) : new[k] = NewMatch(Added(found)[k])
    BY <1>3, NewMatchesType
<1>5. matches' = matches \o new
    BY DEF Checked
<1> HIDE DEF new
<1>6. matches' \in Seq(Match) /\ Len(matches') = Len(matches) + Len(Added(found))
    <2>1. matches' \in Seq(Match)
        BY <1>2, <1>4, <1>5, JoinedSequences
    <2>2. Len(matches') = Len(matches) + Len(new)
        <3> matches \in Seq(Match) /\ new \in Seq(Match)
            BY <1>2, <1>4
        <3> QED
            BY <1>5, JoinedSequences
    <2> QED
        BY <1>4, <2>1, <2>2
<1>7. \A m \in DOMAIN matches : m \in DOMAIN matches' /\ matches'[m] = matches[m]
    BY <1>2, <1>4, <1>5, JoinedSequences
<1>8. ASSUME NEW k \in DOMAIN Added(found)
      PROVE  \E m \in DOMAIN matches' : matches'[m] = NewMatch(Added(found)[k])
    <2>1. Len(matches) + k \in DOMAIN matches' /\ matches'[Len(matches) + k] = new[k]
        BY <1>2, <1>4, <1>5, JoinedSequences
    <2> QED
        BY <1>4, <2>1
<1>9. \A m \in DOMAIN matches' : \/ m \in DOMAIN matches /\ matches'[m] = matches[m]
                                 \/ \E k \in DOMAIN new : matches'[m] = new[k]
    BY <1>2, <1>4, <1>5, JoinedSequences
<1> QED
    BY <1>1, <1>3, <1>4, <1>6, <1>7, <1>8, <1>9

LEMMA CheckType ==
    ASSUME TypeOK, CheckCode
    PROVE  TypeOK'
<1>1. PICK found : Checked(found)
    BY SomethingChecked
<1>2. /\ matches' \in Seq(Match) /\ found \in Seq(FoundStreet)
      /\ Len(matches') = Len(matches) + Len(Added(found))
    BY <1>1, CheckedMatches
<1>3. country = "si" => Len(matches') <= MaxMatches
    BY <1>2, AddedProperties, CheckedWhere DEF TypeOK
<1>4. city \in 1..Len(candidates) /\ Len(candidates) \in Nat
    BY CheckedWhere, LenProperties DEF TypeOK
<1>5. UNCHANGED <<country, codesOf, streetsOf, grade, candidates, pc>>
    BY <1>1 DEF Checked, input
<1>6. /\ city' \in 1..Len(candidates) + 1
      /\ code' \in Nat \ {0}
    BY <1>1, <1>4 DEF Checked, NextCity, TypeOK
<1> QED
    BY <1>2, <1>3, <1>5, <1>6 DEF TypeOK

LEMMA CheckReal ==
    ASSUME TypeOK, MatchesReal, CheckCode
    PROVE  MatchesReal'
<1>1. PICK found : Checked(found)
    BY SomethingChecked
<1>2. UNCHANGED input
    BY <1>1 DEF Checked
<1> SUFFICES ASSUME NEW m \in DOMAIN matches'
             PROVE  /\ \E n \in DOMAIN candidates : candidates[n].city = matches'[m].city
                    /\ matches'[m].code \in ToSet(codesOf[matches'[m].city])
                    /\ StreetMatched(matches'[m].code)
    BY <1>2, SameInput DEF MatchesReal
<1>3. CASE m \in DOMAIN matches /\ matches'[m] = matches[m]
    BY <1>3 DEF MatchesReal
<1>4. ASSUME NEW k \in DOMAIN Added(found), matches'[m] = NewMatch(Added(found)[k])
      PROVE  /\ \E n \in DOMAIN candidates : candidates[n].city = matches'[m].city
             /\ matches'[m].code \in ToSet(codesOf[matches'[m].city])
             /\ StreetMatched(matches'[m].code)
    <2>1. /\ city \in DOMAIN candidates /\ code \in DOMAIN CodesToCheck(city)
          /\ CodesToCheck(city)[code] \in Codes /\ Room
        BY CheckedWhere
    <2>2. /\ matches'[m].city = candidates[city].city
          /\ matches'[m].code = CodesToCheck(city)[code]
        BY <1>4 DEF NewMatch
    <2>3. found # <<>>
        <3>1. Added(found) # <<>>
            BY <1>1, CheckedMatches, EmptySeq, LenProperties
        <3> QED
            BY <1>1, <2>1, <3>1, CheckedMatches, AddedProperties DEF TypeOK
    <2>4. StreetMatched(CodesToCheck(city)[code])
        BY <1>1, <2>1, <2>3, TypeGiven, StreetCheckProperties DEF Checked
    <2> QED
        BY <2>1, <2>2, <2>4, TypeGiven, CodesToCheckType
<1> QED
    BY <1>1, <1>3, <1>4, CheckedMatches

LEMMA CheckMissed ==
    ASSUME TypeOK, NothingMissed, CheckCode
    PROVE  NothingMissed'
<1>1. PICK found : Checked(found)
    BY SomethingChecked
<1>2. UNCHANGED input
    BY <1>1 DEF Checked
<1> SUFFICES ASSUME matches' = <<>>,
                    NEW n \in DOMAIN candidates, NEW c \in DOMAIN CodesToCheck(n), Passed(n, c)'
             PROVE  ~ StreetMatched(CodesToCheck(n)[c])
    BY <1>2, SameInput DEF NothingMissed
<1>3. matches = <<>> /\ Added(found) = <<>>
    <2>1. matches \in Seq(Match) /\ Added(found) \in Seq(FoundStreet)
        BY <1>1, CheckedMatches DEF TypeOK
    <2>2. Len(matches) + Len(Added(found)) = 0
        BY <1>1, CheckedMatches, EmptySeq
    <2>3. Len(matches) = 0 /\ Len(Added(found)) = 0
        BY <2>1, <2>2, LenProperties
    <2> QED
        BY <2>1, <2>3, EmptySeq
<1>4. found = <<>>
    BY <1>1, <1>3, CheckedMatches, CheckedWhere, AddedProperties DEF TypeOK
<1>5. ~ StreetMatched(CodesToCheck(city)[code])
    BY <1>1, <1>4 DEF Checked, StreetMatched
<1>6. ~ EarlyExit(Added(found))
    <2>1. Len(Added(found)) = 0 /\ Added(found) \in Seq(FoundStreet)
        BY <1>1, <1>3, CheckedMatches, EmptySeq
    <2>2. DOMAIN Added(found) = 1..0
        BY <2>1, LenProperties
    <2> QED
        BY <2>2 DEF EarlyExit
<1>7. code' = code + 1 /\ city' = city
    BY <1>1, <1>6 DEF Checked
<1>8. Passed(n, c) \/ (n = city /\ c = code)
    <2>1. n \in Nat /\ c \in Nat /\ city \in Nat /\ code \in Nat
        BY TypeGiven, CodesToCheckType, LenProperties DEF TypeOK
    <2> QED
        BY <1>7, <2>1 DEF Passed
<1> QED
    BY <1>3, <1>5, <1>8 DEF NothingMissed

LEMMA CheckNear ==
    ASSUME TypeOK, NearCollected, CheckCode
    PROVE  NearCollected'
<1>1. PICK found : Checked(found)
    BY SomethingChecked
<1>2. UNCHANGED input
    BY <1>1 DEF Checked
<1> DEFINE NearThere(n, c) ==
        candidates[n].near /\ \E i \in 1..Inputs : NearAmong(i, StreetsOf(CodesToCheck(n)[c]))
<1> SUFFICES ASSUME Room', Inputs * MaxPerStreet <= MaxPerCode,
                    NEW n \in DOMAIN candidates, NEW c \in DOMAIN CodesToCheck(n),
                    Passed(n, c)', NearThere(n, c)
             PROVE  \E m \in DOMAIN matches' :
                        matches'[m].near /\ matches'[m].city = candidates[n].city
    <2> HIDE DEF NearThere
    <2> QED
        BY <1>2, SameInput DEF NearCollected, NearThere
<1>3. /\ city \in DOMAIN candidates /\ code \in DOMAIN CodesToCheck(city)
      /\ CodesToCheck(city)[code] \in Codes /\ Room
    BY CheckedWhere
<1>4. CASE Passed(n, c)
    <2>1. PICK m \in DOMAIN matches : matches[m].near /\ matches[m].city = candidates[n].city
        BY <1>3, <1>4 DEF NearCollected
    <2> QED
        BY <1>1, <2>1, CheckedMatches
<1>5. ASSUME n = city, \E k \in DOMAIN Added(found) : Added(found)[k].near
      PROVE  \E m \in DOMAIN matches' :
                    matches'[m].near /\ matches'[m].city = candidates[n].city
    <2>1. PICK k \in DOMAIN Added(found) : Added(found)[k].near
        BY <1>5
    <2>2. PICK m \in DOMAIN matches' : matches'[m] = NewMatch(Added(found)[k])
        BY <1>1, CheckedMatches
    <2>3. /\ matches'[m].city = candidates[city].city
          /\ matches'[m].near = (candidates[city].near /\ Added(found)[k].near)
        BY <2>2 DEF NewMatch
    <2> QED
        BY <1>5, <2>1, <2>3, Zenon
<1>6. n \in Nat /\ c \in Nat \ {0} /\ city \in Nat /\ code \in Nat
    BY TypeGiven, CodesToCheckType, LenProperties DEF TypeOK
<1>7. CASE EarlyExit(Added(found)) /\ ~Passed(n, c)
    <2>1. n = city
        BY <1>1, <1>6, <1>7 DEF Checked, NextCity, Passed
    <2> QED
        BY <1>5, <1>7, <2>1 DEF EarlyExit
<1>8. CASE ~EarlyExit(Added(found)) /\ ~Passed(n, c)
    <2>1. n = city /\ c = code
        BY <1>1, <1>6, <1>8 DEF Checked, Passed
    <2>2. /\ \E k \in DOMAIN found : found[k].near
          /\ country = "si" => Len(found) <= Inputs * MaxPerStreet
          /\ found \in Seq(FoundStreet)
        BY <1>1, <1>3, <2>1, TypeGiven, StreetCheckProperties DEF Checked
    <2>3. country = "si" => Len(found) <= MaxPerCode
        BY <2>2, BoundsHold, LenProperties DEF Bounds
    <2>4. country = "si" => Len(matches) + Len(Added(found)) < MaxMatches
        BY <1>1, <1>2, CheckedMatches, SameInput DEF Room
    <2>5. Added(found) = found
        BY <1>3, <2>2, <2>3, <2>4, AddedProperties DEF TypeOK
    <2> QED
        BY <1>5, <2>1, <2>2, <2>5
<1> QED
    BY <1>4, <1>7, <1>8

-----------------------------------------------------------------------------
(***************************************************************************)
(* The other steps, and the theorems.                                      *)
(***************************************************************************)

\* A step that collects nothing passes at most what there is not to be checked.
LEMMA NothingCollected ==
    ASSUME UNCHANGED <<input, matches>>,
           \A n \in DOMAIN candidates : \A c \in DOMAIN CodesToCheck(n) :
                Passed(n, c)' => Passed(n, c),
           MatchesReal, NothingMissed, NearCollected
    PROVE  MatchesReal' /\ NothingMissed' /\ NearCollected'
<1>1. MatchesReal'
    BY SameInput DEF MatchesReal
<1>2. NothingMissed'
    BY SameInput DEF NothingMissed
<1>3. Room' <=> Room
    BY SameInput DEF Room
<1>4. NearCollected'
    BY <1>3, SameInput DEF NearCollected
<1> QED
    BY <1>1, <1>2, <1>4

LEMMA StepIInv == IInv /\ [Next]_vars => IInv'
<1> SUFFICES ASSUME IInv, [Next]_vars
             PROVE  IInv'
    OBVIOUS
<1> USE DEF IInv
<1>1. CASE CheckCode
    <2>1. Finished'
        BY <1>1 DEF CheckCode, Finished
    <2> QED
        BY <1>1, <2>1, CheckType, CheckReal, CheckMissed, CheckNear
<1>2. CASE LeaveCity
    <2>1. UNCHANGED <<input, matches, pc>> /\ NextCity /\ code > Len(CodesToCheck(city))
          /\ city <= Len(candidates) /\ pc = "search"
        BY <1>2 DEF LeaveCity
    <2>2. TypeOK'
        <3>1. Len(candidates) \in Nat
            BY LenProperties DEF TypeOK
        <3> QED
            BY <2>1, <3>1 DEF TypeOK, NextCity, input
    <2>3. ASSUME NEW n \in DOMAIN candidates, NEW c \in DOMAIN CodesToCheck(n), Passed(n, c)'
          PROVE  Passed(n, c)
        <3>1. CodesToCheck(n) \in Seq(Codes)
            BY TypeGiven, CodesToCheckType
        <3>2. /\ n \in Nat /\ c \in Nat \ {0} /\ city \in Nat /\ code \in Nat
              /\ c <= Len(CodesToCheck(n)) /\ Len(CodesToCheck(n)) \in Nat
            BY <3>1, LenProperties DEF TypeOK
        <3>3. n < city + 1 \/ (n = city + 1 /\ c < 1)
            BY <2>1, <2>3 DEF Passed, NextCity
        <3>4. n = city => c < code
            BY <2>1, <3>2
        <3> QED
            BY <3>2, <3>3, <3>4 DEF Passed
    <2>4. Finished'
        BY <2>1 DEF Finished
    <2> QED
        BY <2>1, <2>2, <2>3, <2>4, NothingCollected
<1>3. CASE Send
    <2>1. UNCHANGED <<input, city, code, matches>> /\ (city > Len(candidates) \/ ~Room)
          /\ pc' = "sent"
        BY <1>3 DEF Send
    <2>2. TypeOK'
        BY <2>1 DEF TypeOK, input
    <2>3. Finished'
        BY <2>1, SameInput DEF Finished, Room
    <2>4. \A n, c : Passed(n, c)' => Passed(n, c)
        BY <2>1 DEF Passed
    <2> QED
        BY <2>1, <2>2, <2>3, <2>4, NothingCollected
<1>4. CASE UNCHANGED vars
    <2>1. UNCHANGED <<input, city, code, matches, pc>>
        BY <1>4 DEF vars
    <2>2. TypeOK' /\ Finished'
        BY <2>1, SameInput DEF TypeOK, Finished, Room, input
    <2>3. \A n, c : Passed(n, c)' => Passed(n, c)
        BY <2>1 DEF Passed
    <2> QED
        BY <2>1, <2>2, <2>3, NothingCollected
<1> QED
    BY <1>1, <1>2, <1>3, <1>4 DEF Next

\* The types, and the bound on the matches "si" collects: no more than fifty, however
\* many there are for a postal code (si.go:168-211).
THEOREM SearchTypeCorrect == Spec => []TypeOK
<1>1. IInv => TypeOK
    BY DEF IInv
<1> QED
    BY InitIInv, StepIInv, <1>1, PTL DEF Spec

\* The three flags of a result agree with each other, for any indexes and bounds, and
\* in whatever order equal matches come (si.go:140-211, 240-333, 374-390).
THEOREM FlagsAlwaysAgree == Spec => []FlagsAgree
<1>1. IInv => FlagsAgree
    <2> SUFFICES ASSUME IInv, pc = "sent"
                 PROVE  FlagsAgree
        BY DEF FlagsAgree
    <2> USE DEF IInv
    <2>1. ASSUME NEW n \in DOMAIN matches
          PROVE  /\ StreetMatched(matches[n].code)
                 /\ matches[n].city \in PostalCodeCityCheck(matches[n].code)
        <3>1. matches[n] \in Match
            BY LenProperties, ElementOfSeq DEF TypeOK
        <3>2. matches[n].city \in Cities
            BY <3>1 DEF Match
        <3> QED
            BY <3>2 DEF MatchesReal, PostalCodeCityCheck
    <2>2. ASSUME FewCodes, NEW z \in Codes, PostalCodeCityCheck(z) # {}, StreetMatched(z),
                 matches = <<>>
          PROVE  FALSE
        <3>1. PICK n \in DOMAIN candidates : z \in ToSet(codesOf[candidates[n].city])
            BY <2>2 DEF PostalCodeCityCheck
        <3>2. CodesToCheck(n) = codesOf[candidates[n].city]
            BY <2>2, TypeGiven, CodesToCheckType
        <3>3. PICK c \in DOMAIN CodesToCheck(n) : CodesToCheck(n)[c] = z
            BY <3>1, <3>2 DEF ToSet
        <3>4. city > Len(candidates)
            BY <2>2, BoundsHold, EmptySeq DEF Finished, Room, Bounds
        <3>5. n < city
            BY <3>4, LenProperties DEF TypeOK
        <3> QED
            BY <2>2, <3>3, <3>5 DEF NothingMissed, Passed
    <2> QED
        BY <2>1, <2>2 DEF FlagsAgree
<1> QED
    BY InitIInv, StepIInv, <1>1, PTL DEF Spec

\* Neither bounds nor early exits hide a near-perfect match from a result that has
\* room left (si.go:149-206, 300-331).
THEOREM NearMatchAlwaysReported == Spec => []NearMatchReported
<1>1. IInv => NearMatchReported
    <2> SUFFICES ASSUME IInv, pc = "sent", Room, Inputs * MaxPerStreet <= MaxPerCode,
                        NEW n \in DOMAIN candidates, candidates[n].near,
                        NEW z \in ToSet(CodesToCheck(n)), NEW i \in 1..Inputs,
                        NEW s \in ToSet(Cut(streetsOf[z], MaxStreets)), grade[i][s] = Near
                 PROVE  \E m \in DOMAIN matches :
                            matches[m].near /\ matches[m].city = candidates[n].city
        BY DEF NearMatchReported
    <2> USE DEF IInv
    <2>1. PICK c \in DOMAIN CodesToCheck(n) : CodesToCheck(n)[c] = z
        BY DEF ToSet
    <2>2. NearAmong(i, StreetsOf(CodesToCheck(n)[c]))
        BY <2>1 DEF NearAmong, StreetsOf
    <2>3. n < city
        BY LenProperties DEF Finished, TypeOK
    <2> QED
        BY <2>1, <2>2, <2>3 DEF NearCollected, Passed
<1> QED
    BY InitIInv, StepIInv, <1>1, PTL DEF Spec
=============================================================================

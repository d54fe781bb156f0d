--------------------------- MODULE MatchingProofs ---------------------------
(***************************************************************************)
(* Proofs about fuzzy matching, for any strings, separators, thresholds    *)
(* and similarities.                                                       *)
(*                                                                         *)
(* How a string is cut: the places of the cuts, in order, are an           *)
(* increasing sequence of all of them (CutsInOrder), so that no piece has  *)
(* a separator in it (SplitPieces).  What joined pieces are is a recursive *)
(* function; what holds of it is proved by induction on the number of      *)
(* pieces, with a set of numbers for the property (UpToInduction).         *)
(***************************************************************************)
EXTENDS Matching, FiniteSetTheorems, SequenceTheorems, WellFoundedInduction, TLAPS

Chosen == input \in Inputs /\ compareTo \in CompareLists

LEMMA ChosenHolds == Spec => []Chosen
<1>1. Init => Chosen
    BY DEF Init, Chosen
<1>2. Chosen /\ [Next]_vars => Chosen'
    BY DEF Chosen, Next, NextStage, vars
<1> QED
    BY <1>1, <1>2, PTL DEF Spec

\* What is found good enough is in the list it was looked for in.
LEMMA CloseOnesListed ==
    ASSUME NEW x, NEW values, NEW partial
    PROVE  CalculateSimilarity(x, values, partial) \subseteq values
BY DEF CalculateSimilarity

\* A match in part is with a string of the list, even where words of it were compared.
LEMMA PartialFromList ==
    ASSUME NEW config, NEW r \in GetPartialMatches(config)
    PROVE  \E v \in compareTo : r = Result(v, TRUE)
<1>1. FilterList(compareTo) \subseteq compareTo
    BY DEF FilterList
<1>2. PICK v \in MatchedWhole(config) \cup MatchedInPart(config) : r = Result(v, TRUE)
    BY DEF GetPartialMatches
<1>3. CASE v \in MatchedWhole(config)
    <2>1. PICK part \in Parts(config) :
                v \in CalculateSimilarity(part, FilterList(compareTo), TRUE)
        BY <1>3 DEF MatchedWhole
    <2> QED
        BY <1>1, <1>2, <2>1, CloseOnesListed
<1>4. CASE v \in MatchedInPart(config)
    BY <1>1, <1>2, <1>4 DEF MatchedInPart
<1> QED
    BY <1>2, <1>3, <1>4

WholeMatches == {Result(v, FALSE) : v \in CalculateSimilarity(input, compareTo, FALSE)}

AllMatches(config) ==
    WholeMatches \cup (IF config.partial THEN GetPartialMatches(config) ELSE {})

LEMMA MatchesFromList ==
    ASSUME NEW config, NEW r \in AllMatches(config)
    PROVE  \E v \in compareTo, b \in BOOLEAN : r = Result(v, b)
<1>1. CASE r \in WholeMatches
    BY <1>1, CloseOnesListed DEF WholeMatches
<1>2. CASE r \in GetPartialMatches(config)
    BY <1>2, PartialFromList
<1> QED
    BY <1>1, <1>2 DEF AllMatches

-----------------------------------------------------------------------------
(***************************************************************************)
(* Numbers in order.                                                       *)
(***************************************************************************)

LEMMA LeastNatural ==
    ASSUME NEW T, T \subseteq Nat, T # {}
    PROVE  \E n \in T : \A m \in T : n <= m
<1>1. PICK n \in T : \A m \in T : <<m, n>> \notin OpToRel(<, Nat)
    BY WFMin, NatLessThanWellFounded
<1>2. \A m \in T : ~(m < n)
    BY <1>1 DEF OpToRel
<1> QED
    BY <1>2

\* Induction, with a set of numbers for the property.
LEMMA UpToInduction ==
    ASSUME NEW n \in Nat, NEW P, 1 \in P, \A i \in 2..n : i - 1 \in P => i \in P
    PROVE  \A i \in 1..n : i \in P
<1> DEFINE T == {i \in 1..n : i \notin P}
<1>1. SUFFICES ASSUME T # {}
               PROVE  FALSE
    OBVIOUS
<1> T \subseteq Nat
    OBVIOUS
<1>2. PICK i \in T : \A j \in T : i <= j
    <2> HIDE DEF T
    <2> QED
        BY <1>1, LeastNatural
<1>3. i \in 2..n /\ i - 1 \in 1..n
    BY <1>2
<1>4. i - 1 \notin T
    BY <1>2, <1>3
<1> QED
    BY <1>2, <1>3, <1>4

\* The numbers of S up to x; how many they are is the rank of x in S.
UpTo(S, x) == {y \in S : y <= x}

LEMMA RankProperties ==
    ASSUME NEW S, S \subseteq Nat, IsFiniteSet(S)
    PROVE  /\ \A x \in S : Cardinality(UpTo(S, x)) \in 1..Cardinality(S)
           /\ \A x, y \in S : x < y => Cardinality(UpTo(S, x)) < Cardinality(UpTo(S, y))
<1>1. ASSUME NEW x \in S
      PROVE  /\ IsFiniteSet(UpTo(S, x)) /\ Cardinality(UpTo(S, x)) \in Nat
             /\ Cardinality(UpTo(S, x)) <= Cardinality(S) /\ Cardinality(S) \in Nat
             /\ x \in UpTo(S, x)
    <2>1. UpTo(S, x) \in SUBSET S /\ x \in UpTo(S, x)
        BY DEF UpTo
    <2> QED
        BY <2>1, FS_Subset, FS_CardinalityType
<1>2. ASSUME NEW x \in S
      PROVE  Cardinality(UpTo(S, x)) \in 1..Cardinality(S)
    BY <1>1, FS_EmptySet
<1>3. ASSUME NEW x \in S, NEW y \in S, x < y
      PROVE  Cardinality(UpTo(S, x)) < Cardinality(UpTo(S, y))
    <2>1. UpTo(S, x) \in SUBSET UpTo(S, y)
        <3>1. \A w \in S : w <= x => w <= y
            BY <1>3
        <3> QED
            BY <3>1 DEF UpTo
    <2>2. y \in UpTo(S, y) /\ y \notin UpTo(S, x)
        BY <1>3 DEF UpTo
    <2>3. /\ Cardinality(UpTo(S, x)) <= Cardinality(UpTo(S, y))
          /\ Cardinality(UpTo(S, x)) # Cardinality(UpTo(S, y))
        BY <1>1, <2>1, <2>2, FS_Subset
    <2> QED
        BY <1>1, <2>3
<1> QED
    BY <1>2, <1>3

\* Every rank is that of some number, as many ranks as there are numbers.
LEMMA RanksTaken ==
    ASSUME NEW S, S \subseteq Nat, IsFiniteSet(S), NEW n \in 1..Cardinality(S)
    PROVE  \E x \in S : Cardinality(UpTo(S, x)) = n
<1> DEFINE rank == [x \in S |-> Cardinality(UpTo(S, x))]
           Ranks == 1..Cardinality(S)
<1>1. Cardinality(S) \in Nat
    BY FS_CardinalityType
<1>2. IsFiniteSet(Ranks) /\ Cardinality(Ranks) = Cardinality(S)
    BY <1>1, FS_Interval
<1>3. /\ \A x \in S : Cardinality(UpTo(S, x)) \in 1..Cardinality(S)
      /\ \A x, y \in S : x < y => Cardinality(UpTo(S, x)) < Cardinality(UpTo(S, y))
    BY RankProperties
<1>4. ASSUME NEW x \in S, NEW y \in S, rank[x] = rank[y]
      PROVE  x = y
    <2>1. Cardinality(UpTo(S, x)) \in Nat /\ Cardinality(UpTo(S, y)) \in Nat
        BY <1>3
    <2>2. ~(x < y) /\ ~(y < x)
        BY <1>3, <1>4, <2>1
    <2> QED
        BY <2>2
<1>5. rank \in Injection(S, Ranks)
    BY <1>3, <1>4 DEF Injection, IsInjective
<1> HIDE DEF Ranks
<1>6. rank \in Surjection(S, Ranks)
    BY <1>2, <1>5, FS_Injection
<1> QED
    BY <1>6 DEF Surjection, Ranks

LEMMA OrderProperties ==
    ASSUME NEW S, S \subseteq Nat, IsFiniteSet(S)
    PROVE  /\ Cardinality(S) \in Nat
           /\ InOrder(S) \in [1..Cardinality(S) -> S]
           /\ \A m, n \in 1..Cardinality(S) : m < n => InOrder(S)[m] < InOrder(S)[n]
           /\ \A x \in S : \E n \in 1..Cardinality(S) : InOrder(S)[n] = x
<1> DEFINE o == InOrder(S)
<1>1. Cardinality(S) \in Nat
    BY FS_CardinalityType
<1>2. ASSUME NEW n \in 1..Cardinality(S)
      PROVE  o[n] \in S /\ Cardinality(UpTo(S, o[n])) = n
    <2>1. o[n] = CHOOSE x \in S : Cardinality(UpTo(S, x)) = n
        BY DEF InOrder, UpTo
    <2> HIDE DEF o
    <2> QED
        BY <2>1, RanksTaken
<1>3. o \in [1..Cardinality(S) -> S]
    BY <1>2 DEF InOrder
<1> HIDE DEF o
<1>4. ASSUME NEW m \in 1..Cardinality(S), NEW n \in 1..Cardinality(S), m < n
      PROVE  o[m] < o[n]
    <2>1. /\ o[m] \in Nat /\ o[n] \in Nat
          /\ o[m] \in S /\ o[n] \in S
          /\ Cardinality(UpTo(S, o[m])) = m /\ Cardinality(UpTo(S, o[n])) = n
        BY <1>2
    <2>2. o[n] < o[m] => n < m
        BY <2>1, RankProperties
    <2>3. o[n] # o[m]
        BY <1>4, <2>1
    <2> QED
        BY <1>4, <2>1, <2>2, <2>3
<1>5. ASSUME NEW x \in S
      PROVE  \E n \in 1..Cardinality(S) : o[n] = x
    <2> DEFINE n == Cardinality(UpTo(S, x))
    <2>1. n \in 1..Cardinality(S)
        BY RankProperties
    <2>2. o[n] \in S /\ Cardinality(UpTo(S, o[n])) = n
        BY <1>2, <2>1
    <2>3. o[n] \in Nat /\ x \in Nat
        BY <2>2
    <2>4. ~(o[n] < x) /\ ~(x < o[n])
        <3>1. \A y, z \in S : y < z => Cardinality(UpTo(S, y)) < Cardinality(UpTo(S, z))
            BY RankProperties
        <3>2. Cardinality(UpTo(S, x)) = n /\ n \in Nat
            BY <2>1
        <3> HIDE DEF n
        <3> QED
            BY <2>2, <2>3, <3>1, <3>2
    <2> QED
        BY <2>1, <2>3, <2>4
<1> QED
    BY <1>1, <1>3, <1>4, <1>5 DEF o
-----------------------------------------------------------------------------
(***************************************************************************)
(* Cutting a string.                                                       *)
(***************************************************************************)

CutPlaces(s, sep) == {0, Len(s) + 1} \cup {i \in DOMAIN s : s[i] = sep}

LEMMA PlacesFinite ==
    ASSUME NEW A, NEW s \in Seq(A), NEW sep
    PROVE  /\ CutPlaces(s, sep) \subseteq 0..Len(s) + 1
           /\ CutPlaces(s, sep) \subseteq Nat
           /\ IsFiniteSet(CutPlaces(s, sep))
<1>1. Len(s) \in Nat /\ DOMAIN s = 1..Len(s)
    BY LenProperties
<1>2. CutPlaces(s, sep) \subseteq 0..Len(s) + 1
    BY <1>1 DEF CutPlaces
<1>3. IsFiniteSet(0..Len(s) + 1)
    BY <1>1, FS_Interval
<1> QED
    BY <1>1, <1>2, <1>3, FS_Subset

\* The places of the cuts are all there, in increasing order.
LEMMA CutsInOrder ==
    ASSUME NEW A, NEW s \in Seq(A), NEW sep
    PROVE  /\ Cuts(s, sep) \in Seq(CutPlaces(s, sep))
           /\ \A m, n \in 1..Len(Cuts(s, sep)) : m < n => Cuts(s, sep)[m] < Cuts(s, sep)[n]
           /\ \A i \in CutPlaces(s, sep) : \E n \in 1..Len(Cuts(s, sep)) : Cuts(s, sep)[n] = i
<1> DEFINE P == CutPlaces(s, sep)
<1>1. P \subseteq Nat /\ IsFiniteSet(P)
    BY PlacesFinite
<1>2. Cuts(s, sep) = InOrder(P)
    BY DEF Cuts, CutPlaces
<1> HIDE DEF P
<1>3. /\ Cardinality(P) \in Nat
      /\ InOrder(P) \in [1..Cardinality(P) -> P]
      /\ \A m, n \in 1..Cardinality(P) : m < n => InOrder(P)[m] < InOrder(P)[n]
      /\ \A x \in P : \E n \in 1..Cardinality(P) : InOrder(P)[n] = x
    BY <1>1, OrderProperties
<1>4. InOrder(P) \in Seq(P)
    BY <1>3, SeqDef
<1>5. Len(InOrder(P)) = Cardinality(P)
    BY <1>3, <1>4, LenProperties
<1> QED
    BY <1>2, <1>3, <1>4, <1>5 DEF P

\* The first and the last place are the ends, the others those of separators.
LEMMA CutEnds ==
    ASSUME NEW A, NEW s \in Seq(A), NEW sep
    PROVE  /\ Len(s) \in Nat /\ Len(Cuts(s, sep)) \in Nat /\ Len(Cuts(s, sep)) >= 2
           /\ \A n \in 1..Len(Cuts(s, sep)) : Cuts(s, sep)[n] \in 0..Len(s) + 1
           /\ Cuts(s, sep)[1] = 0
           /\ Cuts(s, sep)[Len(Cuts(s, sep))] = Len(s) + 1
           /\ \A n \in 2..Len(Cuts(s, sep)) - 1 :
                Cuts(s, sep)[n] \in DOMAIN s /\ s[Cuts(s, sep)[n]] = sep
<1> DEFINE c == Cuts(s, sep)
           P == CutPlaces(s, sep)
<1>1. /\ c \in Seq(P)
      /\ \A m, n \in 1..Len(c) : m < n => c[m] < c[n]
      /\ \A i \in P : \E n \in 1..Len(c) : c[n] = i
    BY CutsInOrder
<1>2. Len(s) \in Nat /\ DOMAIN s = 1..Len(s) /\ P \subseteq 0..Len(s) + 1
    BY PlacesFinite, LenProperties
<1>3. 0 \in P /\ Len(s) + 1 \in P
    BY DEF CutPlaces
<1>4. \A i \in P : i = 0 \/ i = Len(s) + 1 \/ (i \in DOMAIN s /\ s[i] = sep)
    BY DEF CutPlaces
<1> HIDE DEF c, P
<1>5. Len(c) \in Nat /\ \A n \in 1..Len(c) : c[n] \in P
    BY <1>1, LenProperties, ElementOfSeq
<1>6. \A n \in 1..Len(c) : c[n] \in 0..Len(s) + 1
    BY <1>2, <1>5
<1>7. PICK a \in 1..Len(c) : c[a] = 0
    BY <1>1, <1>3
<1>8. PICK b \in 1..Len(c) : c[b] = Len(s) + 1
    BY <1>1, <1>3
<1>9. Len(c) >= 2
    BY <1>2, <1>5, <1>7, <1>8
<1>10. a = 1
    <2>1. 1 \in 1..Len(c) /\ c[1] >= 0 /\ c[1] \in Int
        BY <1>2, <1>5, <1>6, <1>9
    <2>2. 1 < a => c[1] < c[a]
        BY <1>1, <2>1
    <2> QED
        BY <1>7, <2>1, <2>2
<1>11. b = Len(c)
    <2>1. Len(c) \in 1..Len(c) /\ c[Len(c)] <= Len(s) + 1 /\ c[Len(c)] \in Int
        BY <1>2, <1>5, <1>6, <1>9
    <2>2. b < Len(c) => c[b] < c[Len(c)]
        BY <1>1, <2>1
    <2> QED
        BY <1>2, <1>5, <1>8, <2>1, <2>2
<1>12. ASSUME NEW n \in 2..Len(c) - 1
       PROVE  c[n] \in DOMAIN s /\ s[c[n]] = sep
    <2>1. n \in 1..Len(c) /\ 1 \in 1..Len(c) /\ Len(c) \in 1..Len(c)
        BY <1>5, <1>9
    <2>2. c[1] < c[n] /\ c[n] < c[Len(c)]
        <3>1. 1 < n /\ n < Len(c)
            BY <1>5
        <3> QED
            BY <1>1, <2>1, <3>1
    <2>3. c[n] # 0 /\ c[n] # Len(s) + 1
        BY <1>2, <1>6, <1>7, <1>8, <1>10, <1>11, <2>1, <2>2
    <2> QED
        BY <1>4, <1>5, <2>1, <2>3
<1> QED
    BY <1>2, <1>5, <1>6, <1>7, <1>8, <1>9, <1>10, <1>11, <1>12 DEF c

\* A place between two cuts.
LEMMA PlaceBetween ==
    ASSUME NEW x \in Nat, NEW y \in Nat, NEW most \in Nat, y <= most + 1,
           NEW k \in 1..y - x - 1
    PROVE  x < x + k /\ x + k < y /\ x + k \in 1..most
OBVIOUS

\* Each piece is what is between two cuts that follow each other; no separator is
\* in it.
BetweenCuts(piece, s, sep, n) ==
    /\ piece = SubSeq(s, Cuts(s, sep)[n] + 1, Cuts(s, sep)[n + 1] - 1)
    /\ Len(piece) = Cuts(s, sep)[n + 1] - Cuts(s, sep)[n] - 1
    /\ \A k \in 1..Len(piece) :
            piece[k] = s[Cuts(s, sep)[n] + k] /\ s[Cuts(s, sep)[n] + k] # sep

LEMMA SplitPieces ==
    ASSUME NEW A, NEW s \in Seq(A), NEW sep
    PROVE  /\ Split(s, sep) \in Seq(Seq(A))
           /\ Len(Split(s, sep)) = Len(Cuts(s, sep)) - 1
           /\ \A n \in 1..Len(Split(s, sep)) : BetweenCuts(Split(s, sep)[n], s, sep, n)
<1> DEFINE c == Cuts(s, sep)
           piece(n) == SubSeq(s, c[n] + 1, c[n + 1] - 1)
<1>1. /\ Len(s) \in Nat /\ Len(c) \in Nat /\ Len(c) >= 2
      /\ \A n \in 1..Len(c) : c[n] \in 0..Len(s) + 1
    BY CutEnds
<1>2. \A m, n \in 1..Len(c) : m < n => c[m] < c[n]
    BY CutsInOrder
<1>3. \A i \in 1..Len(s) : s[i] \in A
    BY ElementOfSeq
<1>4. \A i \in 1..Len(s) : s[i] = sep => \E m \in 1..Len(c) : c[m] = i
    <2>1. \A i \in 1..Len(s) : s[i] = sep => i \in CutPlaces(s, sep)
        BY LenProperties DEF CutPlaces
    <2> QED
        BY <2>1, CutsInOrder
<1>5. Split(s, sep) = [n \in 1..Len(c) - 1 |-> piece(n)]
    BY DEF Split
<1> HIDE DEF c
<1>6. ASSUME NEW n \in 1..Len(c) - 1
      PROVE  /\ piece(n) \in Seq(A)
             /\ Len(piece(n)) = c[n + 1] - c[n] - 1
             /\ \A k \in 1..Len(piece(n)) : piece(n)[k] = s[c[n] + k] /\ s[c[n] + k] # sep
    <2>1. n \in 1..Len(c) /\ n + 1 \in 1..Len(c)
        BY <1>1
    <2>2. c[n] \in Nat /\ c[n + 1] \in Nat /\ c[n] < c[n + 1] /\ c[n + 1] <= Len(s) + 1
        BY <1>1, <1>2, <2>1
    <2> DEFINE a == c[n] + 1
               b == c[n + 1] - 1
    <2>3. a \in Int /\ b \in Int /\ a >= 1 /\ b <= Len(s) /\ b - a + 1 \in Nat
          /\ b - a + 1 = c[n + 1] - c[n] - 1
        BY <1>1, <2>2, SMTT(20)
    <2>4. piece(n) = SubSeq(s, a, b)
        OBVIOUS
    <2> HIDE DEF a, b, piece
    <2>5. \A i \in a..b : s[i] \in A
        BY <1>1, <1>3, <2>3
    <2>6. /\ SubSeq(s, a, b) \in Seq(A)
          /\ Len(SubSeq(s, a, b)) = IF a <= b THEN b - a + 1 ELSE 0
          /\ \A k \in 1..b - a + 1 : SubSeq(s, a, b)[k] = s[a + k - 1]
        BY <2>3, <2>5, SubSeqProperties
    <2>7. Len(piece(n)) = b - a + 1
        BY <2>3, <2>4, <2>6
    <2>8. ASSUME NEW k \in 1..Len(piece(n))
          PROVE  piece(n)[k] = s[c[n] + k] /\ s[c[n] + k] # sep
        <3>1. a + k - 1 = c[n] + k
            BY <2>2 DEF a
        <3>2. k \in 1..b - a + 1
            BY <2>7
        <3>3. piece(n)[k] = s[c[n] + k]
            BY <2>4, <2>6, <3>1, <3>2
        <3>4. c[n] < c[n] + k /\ c[n] + k < c[n + 1] /\ c[n] + k \in 1..Len(s)
            <4>1. k \in 1..c[n + 1] - c[n] - 1
                BY <2>3, <3>2
            <4> QED
                BY <1>1, <2>2, <4>1, PlaceBetween
        <3>5. ASSUME NEW m \in 1..Len(c), c[m] = c[n] + k
              PROVE  FALSE
            <4>1. c[n] < c[m] /\ c[m] < c[n + 1]
                BY <3>4, <3>5
            <4>2. m < n => c[m] < c[n]
                BY <1>2, <2>1
            <4>3. n + 1 < m => c[n + 1] < c[m]
                BY <1>2, <2>1
            <4>4. m < n \/ m = n \/ m = n + 1 \/ n + 1 < m
                BY <2>1
            <4>5. c[m] \in Int
                BY <2>2, <3>5
            <4>6. CASE m = n
                BY <2>2, <4>1, <4>6
            <4>7. CASE m = n + 1
                BY <2>2, <4>1, <4>7
            <4> QED
                BY <2>2, <4>1, <4>2, <4>3, <4>4, <4>5, <4>6, <4>7
        <3> QED
            BY <1>4, <3>3, <3>4, <3>5
    <2> QED
        BY <2>3, <2>4, <2>6, <2>7, <2>8
<1> HIDE DEF piece
<1>7. Split(s, sep) \in [1..Len(c) - 1 -> Seq(A)]
    BY <1>5, <1>6
<1>8. Split(s, sep) \in Seq(Seq(A)) /\ Len(Split(s, sep)) = Len(c) - 1
    <2>1. Len(c) - 1 \in Nat
        BY <1>1
    <2>2. Split(s, sep) \in Seq(Seq(A))
        BY <1>7, <2>1, SeqDef
    <2> QED
        BY <1>7, <2>1, <2>2, LenProperties
<1>9. ASSUME NEW n \in 1..Len(c) - 1
      PROVE  BetweenCuts(Split(s, sep)[n], s, sep, n)
    <2>1. Split(s, sep)[n] = piece(n)
        BY <1>5
    <2>2. piece(n) = SubSeq(s, Cuts(s, sep)[n] + 1, Cuts(s, sep)[n + 1] - 1)
        BY DEF piece, c
    <2>3. BetweenCuts(piece(n), s, sep, n)
        BY <1>6, <2>2 DEF BetweenCuts, c
    <2> QED
        BY <2>1, <2>3
<1> QED
    BY <1>8, <1>9 DEF c
-----------------------------------------------------------------------------
(***************************************************************************)
(* Sequences one after the other.                                          *)
(***************************************************************************)

\* f[i] is the first i sequences, one after the other, up to n.
Flattened(f, seqs, n) ==
    f = [i \in 1..n |-> IF i = 1 THEN seqs[i] ELSE f[i - 1] \o seqs[i]]

LEMMA FlattenedExists ==
    ASSUME NEW seqs, NEW n \in Nat \ {0}
    PROVE  \E f : Flattened(f, seqs, n)
<1> DEFINE P == {m \in Nat : \E f : Flattened(f, seqs, m)}
<1>1. 1 \in P
    <2>1. Flattened([i \in 1..1 |-> seqs[i]], seqs, 1)
        BY DEF Flattened
    <2> QED
        BY <2>1
<1>2. ASSUME NEW m \in 2..n, m - 1 \in P
      PROVE  m \in P
    <2>1. PICK f : Flattened(f, seqs, m - 1)
        BY <1>2
    <2> DEFINE last == f[m - 1] \o seqs[m]
               g == [i \in 1..m |-> IF i = m THEN last ELSE f[i]]
    <2> HIDE DEF last
    <2>2. \A i \in 1..m - 1 : g[i] = f[i]
        OBVIOUS
    <2>3. ASSUME NEW i \in 1..m - 1
          PROVE  g[i] = IF i = 1 THEN seqs[i] ELSE g[i - 1] \o seqs[i]
        <3>1. f[i] = IF i = 1 THEN seqs[i] ELSE f[i - 1] \o seqs[i]
            BY <2>1 DEF Flattened
        <3>2. i # 1 => g[i - 1] = f[i - 1]
            BY <2>2
        <3> HIDE DEF g
        <3> QED
            BY <2>2, <3>1, <3>2
    <2>4. g[m] = g[m - 1] \o seqs[m]
        <3>1. g[m] = last
            OBVIOUS
        <3>2. g[m - 1] = f[m - 1]
            BY <2>2
        <3> HIDE DEF g
        <3> QED
            BY <3>1, <3>2 DEF last
    <2>5. g = [i \in 1..m |-> g[i]]
        OBVIOUS
    <2>6. m # 1 /\ \A i \in 1..m : i \in 1..m - 1 \/ i = m
        OBVIOUS
    <2> HIDE DEF g
    <2>7. \A i \in 1..m : g[i] = IF i = 1 THEN seqs[i] ELSE g[i - 1] \o seqs[i]
        BY <2>3, <2>4, <2>6
    <2>8. Flattened(g, seqs, m)
        BY <2>5, <2>7 DEF Flattened
    <2> QED
        BY <2>8
<1> HIDE DEF P
<1>3. n \in P
    BY <1>1, <1>2, UpToInduction
<1> QED
    BY <1>3 DEF P

LEMMA FlattenSeqIs ==
    ASSUME NEW seqs, Len(seqs) \in Nat \ {0}
    PROVE  \E f : Flattened(f, seqs, Len(seqs)) /\ FlattenSeq(seqs) = f[Len(seqs)]
<1> DEFINE f == CHOOSE g : Flattened(g, seqs, Len(seqs))
<1>1. Flattened(f, seqs, Len(seqs))
    BY FlattenedExists
<1>2. FlattenSeq(seqs) = f[Len(seqs)]
    BY DEF FlattenSeq, Flattened
<1> QED
    BY <1>1, <1>2

LEMMA FlattenOne ==
    ASSUME NEW seqs, Len(seqs) = 1
    PROVE  FlattenSeq(seqs) = seqs[1]
<1>1. PICK f : Flattened(f, seqs, Len(seqs)) /\ FlattenSeq(seqs) = f[Len(seqs)]
    BY FlattenSeqIs
<1> QED
    BY <1>1 DEF Flattened

\* One sequence more comes after the others.
LEMMA FlattenMore ==
    ASSUME NEW n \in Nat \ {0}, NEW p, NEW q, Len(p) = n, Len(q) = n + 1,
           \A i \in 1..n : p[i] = q[i]
    PROVE  FlattenSeq(q) = FlattenSeq(p) \o q[n + 1]
<1>1. PICK f : Flattened(f, p, n) /\ FlattenSeq(p) = f[n]
    BY FlattenSeqIs
<1>2. PICK g : Flattened(g, q, n + 1) /\ FlattenSeq(q) = g[n + 1]
    BY FlattenSeqIs
<1>3. \A i \in 1..n : f[i] = IF i = 1 THEN p[i] ELSE f[i - 1] \o p[i]
    BY <1>1 DEF Flattened
<1>4. \A i \in 1..n + 1 : g[i] = IF i = 1 THEN q[i] ELSE g[i - 1] \o q[i]
    BY <1>2 DEF Flattened
<1> DEFINE P == {i \in 1..n : f[i] = g[i]}
<1>5. 1 \in P
    BY <1>3, <1>4
<1>6. ASSUME NEW i \in 2..n, i - 1 \in P
      PROVE  i \in P
    <2>1. i # 1 /\ i \in 1..n /\ i \in 1..n + 1
        OBVIOUS
    <2>2. f[i] = f[i - 1] \o p[i]
        BY <1>3, <2>1
    <2>3. g[i] = g[i - 1] \o q[i]
        BY <1>4, <2>1
    <2>4. f[i - 1] = g[i - 1] /\ p[i] = q[i]
        BY <1>6, <2>1
    <2> QED
        BY <2>1, <2>2, <2>3, <2>4
<1> HIDE DEF P
<1>7. n \in P
    BY <1>5, <1>6, UpToInduction
<1>8. g[n + 1] = g[n] \o q[n + 1]
    <2> DEFINE m == n + 1
    <2>1. m \in 1..n + 1 /\ m # 1 /\ m - 1 = n
        OBVIOUS
    <2> HIDE DEF m
    <2>2. g[m] = IF m = 1 THEN q[m] ELSE g[m - 1] \o q[m]
        BY <1>4, <2>1
    <2>3. g[m] = g[n] \o q[m]
        BY <2>1, <2>2
    <2> QED
        BY <2>3 DEF m
<1> QED
    BY <1>1, <1>2, <1>7, <1>8 DEF P

LEMMA FlattenTwo ==
    ASSUME NEW seqs, Len(seqs) = 2
    PROVE  FlattenSeq(seqs) = seqs[1] \o seqs[2]
<1> DEFINE p == <<seqs[1]>>
<1>1. Len(p) = 1 /\ p[1] = seqs[1]
    OBVIOUS
<1> HIDE DEF p
<1>2. FlattenSeq(p) = seqs[1]
    BY <1>1, FlattenOne
<1>3. \A i \in 1..1 : p[i] = seqs[i]
    BY <1>1
<1>4. Len(seqs) = 1 + 1 /\ 1 \in Nat \ {0}
    OBVIOUS
<1>5. FlattenSeq(seqs) = FlattenSeq(p) \o seqs[1 + 1]
    BY <1>1, <1>3, <1>4, FlattenMore
<1> QED
    BY <1>2, <1>5
\* Sequences of sequences, one after the other.
LEMMA FlattenType ==
    ASSUME NEW B, NEW p \in Seq(Seq(B)), Len(p) # 0
    PROVE  FlattenSeq(p) \in Seq(B)
<1> DEFINE n == Len(p)
<1>1. n \in Nat \ {0}
    BY LenProperties
<1>2. \A i \in 1..n : p[i] \in Seq(B)
    BY ElementOfSeq
<1>3. PICK f : Flattened(f, p, n) /\ FlattenSeq(p) = f[n]
    BY <1>1, FlattenSeqIs
<1>4. \A i \in 1..n : f[i] = IF i = 1 THEN p[i] ELSE f[i - 1] \o p[i]
    BY <1>3 DEF Flattened
<1> DEFINE P == {i \in 1..n : f[i] \in Seq(B)}
<1> HIDE DEF n
<1>5. 1 \in P
    <2>1. 1 \in 1..n
        BY <1>1
    <2>2. f[1] = p[1]
        BY <1>4, <2>1
    <2> QED
        BY <1>2, <2>1, <2>2
<1>6. ASSUME NEW i \in 2..n, i - 1 \in P
      PROVE  i \in P
    <2>1. i # 1 /\ i \in 1..n /\ i - 1 \in 1..n
        BY <1>1
    <2>2. f[i] = f[i - 1] \o p[i]
        BY <1>4, <2>1
    <2>3. f[i - 1] \in Seq(B) /\ p[i] \in Seq(B)
        BY <1>2, <1>6, <2>1
    <2>4. f[i - 1] \o p[i] \in Seq(B)
        BY <2>3, ConcatProperties
    <2> QED
        BY <2>1, <2>2, <2>4
<1> HIDE DEF P
<1>7. \A i \in 1..n : i \in P
    BY <1>1, <1>5, <1>6, UpToInduction
<1>8. n \in P
    BY <1>1, <1>7
<1> QED
    BY <1>3, <1>8 DEF P

LEMMA FlattenConcat ==
    ASSUME NEW B
    PROVE  \A p, r \in Seq(Seq(B)) : (Len(p) # 0 /\ Len(r) # 0) =>
                FlattenSeq(p \o r) = FlattenSeq(p) \o FlattenSeq(r)
<1>0. \A f, g, x \in Seq(B) : (f \o g) \o x = f \o (g \o x)
    BY ConcatAssociative
<1> SUFFICES ASSUME NEW p \in Seq(Seq(B)), NEW r \in Seq(Seq(B)), Len(p) # 0, Len(r) # 0
             PROVE  FlattenSeq(p \o r) = FlattenSeq(p) \o FlattenSeq(r)
    OBVIOUS
<1> DEFINE n == Len(p)
           m == Len(r)
           q == p \o r
           qs(i) == [k \in 1..n + i |-> q[k]]
           rs(i) == [k \in 1..i |-> r[k]]
           P == {i \in 1..m : FlattenSeq(qs(i)) = FlattenSeq(p) \o FlattenSeq(rs(i))}
<1>1. n \in Nat \ {0} /\ m \in Nat \ {0} /\ r = rs(m) /\ \A k \in 1..m : r[k] \in Seq(B)
    BY LenProperties, ElementOfSeq
<1>2. q \in Seq(Seq(B)) /\ Len(q) = n + m
      /\ \A k \in 1..n + m : q[k] = IF k <= n THEN p[k] ELSE r[k - n]
    BY ConcatProperties
<1> HIDE DEF q, n, m
<1>3. q = qs(m)
    <2>1. q = [k \in 1..Len(q) |-> q[k]]
        BY <1>2, LenProperties
    <2> QED
        BY <1>2, <2>1
<1>4. \A k \in 1..n : q[k] = p[k]
    <2>1. \A k \in 1..n : k \in 1..n + m /\ k <= n
        BY <1>1
    <2> QED
        BY <1>2, <2>1
<1>5. ASSUME NEW k \in 1..m
      PROVE  q[n + k] = r[k]
    <2> DEFINE l == n + k
    <2>1. l \in 1..n + m /\ ~(l <= n) /\ l - n = k
        BY <1>1
    <2> HIDE DEF l
    <2>2. q[l] = r[k]
        BY <1>2, <2>1
    <2> QED
        BY <2>2 DEF l
<1>6. \A i \in 1..m : /\ Len(qs(i)) = n + i /\ \A k \in 1..n + i : qs(i)[k] = q[k]
                      /\ Len(rs(i)) = i /\ \A k \in 1..i : rs(i)[k] = r[k]
    BY <1>1
<1>7. \A i \in 1..m : rs(i) \in Seq(Seq(B))
    <2> SUFFICES ASSUME NEW i \in 1..m
                 PROVE  rs(i) \in Seq(Seq(B))
        OBVIOUS
    <2>1. i \in Nat /\ \A k \in 1..i : k \in 1..m
        BY <1>1
    <2>2. rs(i) \in [1..i -> Seq(B)]
        BY <1>1, <2>1
    <2> HIDE DEF rs
    <2> QED
        BY <2>1, <2>2, SeqDef
<1> HIDE DEF qs, rs
<1>8. 1 \in P
    <2>1. 1 \in 1..m /\ n + 1 \in 1..n + 1 /\ 1 \in 1..1 /\ \A k \in 1..n : k \in 1..n + 1
        BY <1>1
    <2>2. Len(qs(1)) = n + 1 /\ \A k \in 1..n : p[k] = qs(1)[k]
        BY <1>4, <1>6, <2>1
    <2>3. FlattenSeq(qs(1)) = FlattenSeq(p) \o qs(1)[n + 1]
        <3>1. Len(p) = n
            BY DEF n
        <3> QED
            BY <1>1, <2>2, <3>1, FlattenMore
    <2>4. FlattenSeq(rs(1)) = rs(1)[1]
        BY <1>6, <2>1, FlattenOne
    <2>5. qs(1)[n + 1] = q[n + 1] /\ q[n + 1] = r[1] /\ rs(1)[1] = r[1]
        BY <1>5, <1>6, <2>1
    <2> QED
        BY <2>1, <2>3, <2>4, <2>5
<1>9. ASSUME NEW i \in 2..m, i - 1 \in P
      PROVE  i \in P
    <2> DEFINE j == i - 1
               e == n + j
    <2>1. /\ j \in Nat \ {0} /\ j \in 1..m /\ i \in 1..m /\ j + 1 = i /\ i \in 1..i
          /\ e \in Nat \ {0} /\ n + i = e + 1 /\ e + 1 \in 1..n + i
          /\ \A k \in 1..e : k \in 1..n + i
          /\ \A k \in 1..j : k \in 1..i
        BY <1>1
    <2>2. n + j = e
        OBVIOUS
    <2> HIDE DEF j, e
    <2>3. Len(qs(j)) = e /\ \A k \in 1..e : qs(j)[k] = q[k]
        BY <1>6, <2>1, <2>2
    <2>4. Len(qs(i)) = e + 1 /\ \A k \in 1..e + 1 : qs(i)[k] = q[k]
        BY <1>6, <2>1
    <2>5. FlattenSeq(qs(i)) = FlattenSeq(qs(j)) \o qs(i)[e + 1]
        <3>1. \A k \in 1..e : qs(j)[k] = qs(i)[k]
            BY <2>1, <2>3, <2>4
        <3> QED
            BY <2>1, <2>3, <2>4, <3>1, FlattenMore, ZenonT(20)
    <2>6. Len(rs(j)) = j /\ \A k \in 1..j : rs(j)[k] = r[k]
        BY <1>6, <2>1
    <2>7. Len(rs(i)) = j + 1 /\ \A k \in 1..i : rs(i)[k] = r[k]
        BY <1>6, <2>1
    <2>8. FlattenSeq(rs(i)) = FlattenSeq(rs(j)) \o rs(i)[j + 1]
        <3>1. \A k \in 1..j : rs(j)[k] = rs(i)[k]
            BY <2>1, <2>6, <2>7
        <3> QED
            BY <2>1, <2>6, <2>7, <3>1, FlattenMore
    <2>9. qs(i)[e + 1] = r[i] /\ rs(i)[j + 1] = r[i] /\ r[i] \in Seq(B)
        <3>1. q[n + i] = r[i]
            BY <1>5, <2>1
        <3>2. e + 1 \in 1..e + 1
            BY <2>1
        <3> QED
            BY <1>1, <2>1, <2>4, <2>7, <3>1, <3>2
    <2>10. FlattenSeq(qs(j)) = FlattenSeq(p) \o FlattenSeq(rs(j))
        BY <1>9 DEF j
    <2>11. FlattenSeq(p) \in Seq(B) /\ FlattenSeq(rs(j)) \in Seq(B)
        <3>1. Len(rs(j)) # 0 /\ rs(j) \in Seq(Seq(B))
            BY <1>7, <2>1, <2>6
        <3> QED
            BY <3>1, FlattenType
    <2>12. (FlattenSeq(p) \o FlattenSeq(rs(j))) \o r[i]
            = FlattenSeq(p) \o (FlattenSeq(rs(j)) \o r[i])
        <3>1. r[i] \in Seq(B)
            BY <2>9
        <3> QED
            BY <1>0, <2>11, <3>1
    <2>13. FlattenSeq(qs(i)) = (FlattenSeq(p) \o FlattenSeq(rs(j))) \o r[i]
        BY <2>5, <2>9, <2>10
    <2>14. FlattenSeq(rs(i)) = FlattenSeq(rs(j)) \o r[i]
        BY <2>8, <2>9
    <2> QED
        BY <2>1, <2>12, <2>13, <2>14
<1> HIDE DEF P
<1>10. \A i \in 1..m : i \in P
    BY <1>1, <1>8, <1>9, UpToInduction
<1>11. m \in P
    BY <1>1, <1>10
<1> QED
    BY <1>1, <1>3, <1>11 DEF P, q

\* What is left when the first of two is without its head.
LEMMA TailOfTwo ==
    ASSUME NEW B, NEW f \in Seq(B), NEW g \in Seq(B), NEW x \in B, Len(f) > 0, Len(g) > 0,
           g[1] = x
    PROVE  Tail(f \o g) = Tail(f) \o <<x>> \o Tail(g)
<1> DEFINE fg == f \o g
           tf == Tail(f)
           tg == Tail(g)
           fx == tf \o <<x>>
           h == fx \o tg
<1>1. Len(f) \in Nat /\ Len(g) \in Nat /\ f # <<>> /\ g # <<>>
    BY LenProperties
<1>2. /\ fg \in Seq(B) /\ Len(fg) = Len(f) + Len(g)
      /\ \A i \in 1..Len(f) + Len(g) : fg[i] = IF i <= Len(f) THEN f[i] ELSE g[i - Len(f)]
    BY ConcatProperties
<1>3. /\ tf \in Seq(B) /\ Len(tf) = Len(f) - 1 /\ \A i \in 1..Len(f) - 1 : tf[i] = f[i + 1]
    BY <1>1, HeadTailProperties
<1>4. /\ tg \in Seq(B) /\ Len(tg) = Len(g) - 1 /\ \A i \in 1..Len(g) - 1 : tg[i] = g[i + 1]
    BY <1>1, HeadTailProperties
<1>5. <<x>> \in Seq(B) /\ Len(<<x>>) = 1 /\ <<x>>[1] = x
    OBVIOUS
<1> HIDE DEF fg, tf, tg
<1>6. /\ fx \in Seq(B) /\ Len(fx) = Len(tf) + 1
      /\ \A i \in 1..Len(tf) + 1 : fx[i] = IF i <= Len(tf) THEN tf[i] ELSE <<x>>[i - Len(tf)]
    BY <1>3, <1>5, ConcatProperties
<1> HIDE DEF fx
<1>7. /\ h \in Seq(B) /\ Len(h) = Len(fx) + Len(tg)
      /\ \A i \in 1..Len(fx) + Len(tg) : h[i] = IF i <= Len(fx) THEN fx[i] ELSE tg[i - Len(fx)]
    BY <1>4, <1>6, ConcatProperties
<1> HIDE DEF h
<1>8. fg # <<>>
    BY <1>1, <1>2
<1>9. /\ Tail(fg) \in Seq(B) /\ Len(Tail(fg)) = Len(fg) - 1
      /\ \A i \in 1..Len(Tail(fg)) : Tail(fg)[i] = fg[i + 1]
    BY <1>2, <1>8, HeadTailProperties
<1>10. Len(Tail(fg)) = Len(f) + Len(g) - 1 /\ Len(h) = Len(f) + Len(g) - 1 /\ Len(fx) = Len(f)
    BY <1>1, <1>2, <1>3, <1>4, <1>6, <1>7, <1>9
<1>11. ASSUME NEW i \in 1..Len(f) + Len(g) - 1
       PROVE  Tail(fg)[i] = h[i]
    <2> DEFINE k == i + 1
    <2>1. k \in 1..Len(f) + Len(g) /\ i \in 1..Len(fx) + Len(tg) /\ i \in Nat \ {0}
        BY <1>1, <1>7, <1>10
    <2>2. Tail(fg)[i] = fg[k]
        BY <1>9, <1>10
    <2>3. CASE i < Len(f)
        <3>1. k <= Len(f) /\ i \in 1..Len(f) - 1 /\ i <= Len(tf) /\ i <= Len(fx)
              /\ i \in 1..Len(tf) + 1
            BY <1>1, <1>3, <1>10, <2>1, <2>3
        <3>2. fg[k] = f[k] /\ tf[i] = f[k]
            BY <1>2, <1>3, <2>1, <3>1
        <3> HIDE DEF k
        <3>3. h[i] = fx[i] /\ fx[i] = tf[i]
            BY <1>6, <1>7, <2>1, <3>1
        <3> QED
            BY <2>2, <3>2, <3>3
    <2>4. CASE i = Len(f)
        <3>1. ~(k <= Len(f)) /\ k - Len(f) = 1 /\ i <= Len(fx) /\ ~(i <= Len(tf))
              /\ i - Len(tf) = 1 /\ i \in 1..Len(tf) + 1
            BY <1>1, <1>3, <1>10, <2>1, <2>4
        <3> HIDE DEF k
        <3>2. fg[k] = g[1]
            BY <1>2, <2>1, <3>1
        <3>3. h[i] = fx[i] /\ fx[i] = x
            BY <1>5, <1>6, <1>7, <2>1, <3>1
        <3> QED
            BY <2>2, <3>2, <3>3
    <2>5. CASE i > Len(f)
        <3> DEFINE l == i - Len(f)
        <3>1. ~(k <= Len(f)) /\ k - Len(f) = l + 1 /\ ~(i <= Len(fx)) /\ i - Len(fx) = l
              /\ l \in 1..Len(g) - 1
            BY <1>1, <1>10, <2>1, <2>5
        <3> HIDE DEF k, l
        <3>2. fg[k] = g[l + 1]
            BY <1>2, <2>1, <3>1
        <3>3. h[i] = tg[l]
            BY <1>7, <2>1, <3>1
        <3> QED
            BY <1>4, <2>2, <3>1, <3>2, <3>3
    <2>6. i < Len(f) \/ i = Len(f) \/ i > Len(f)
        BY <1>1, <2>1
    <2> QED
        BY <2>3, <2>4, <2>5, <2>6
<1>12. Tail(fg) = h
    BY <1>7, <1>9, <1>10, <1>11, SeqEqual
<1> QED
    BY <1>12 DEF fg, h, fx, tf, tg
-----------------------------------------------------------------------------
(***************************************************************************)
(* The words of a string, cut at one separator after the other.            *)
(***************************************************************************)

LEMMA SplitAtOne ==
    ASSUME NEW s, NEW sep
    PROVE  SplitString(s, <<sep>>) = Split(s, sep)
<1> DEFINE seqs == [n \in DOMAIN <<sep>> |-> Split(s, <<sep>>[n])]
<1>1. Len(seqs) = 1 /\ seqs[1] = Split(s, sep)
    OBVIOUS
<1>2. SplitString(s, <<sep>>) = FlattenSeq(seqs)
    BY DEF SplitString
<1> HIDE DEF seqs
<1> QED
    BY <1>1, <1>2, FlattenOne

LEMMA SplitAtBoth ==
    ASSUME NEW s
    PROVE  SplitString(s, Both) = Split(s, Space) \o Split(s, Dash)
<1> DEFINE seqs == [n \in DOMAIN Both |-> Split(s, Both[n])]
<1>1. Len(seqs) = 2 /\ seqs[1] = Split(s, Space) /\ seqs[2] = Split(s, Dash)
    BY DEF Both
<1>2. SplitString(s, Both) = FlattenSeq(seqs)
    BY DEF SplitString
<1> HIDE DEF seqs
<1>3. FlattenSeq(seqs) = seqs[1] \o seqs[2]
    BY <1>1, FlattenTwo
<1> QED
    BY <1>1, <1>2, <1>3

LEMMA ConcatenationElements ==
    ASSUME NEW A, NEW a \in Seq(A), NEW b \in Seq(A)
    PROVE  ToSet(a \o b) = ToSet(a) \cup ToSet(b)
<1>1. /\ Len(a) \in Nat /\ Len(b) \in Nat
      /\ DOMAIN a = 1..Len(a) /\ DOMAIN b = 1..Len(b)
    BY LenProperties
<1>2. /\ a \o b \in Seq(A) /\ Len(a \o b) = Len(a) + Len(b)
      /\ \A i \in 1..Len(a) + Len(b) :
            (a \o b)[i] = IF i <= Len(a) THEN a[i] ELSE b[i - Len(a)]
    BY ConcatProperties
<1> DEFINE c == a \o b
<1>3. DOMAIN c = 1..Len(a) + Len(b)
    BY <1>2, LenProperties
<1> HIDE DEF c
<1>4. \A i \in 1..Len(a) + Len(b) : c[i] = IF i <= Len(a) THEN a[i] ELSE b[i - Len(a)]
    BY <1>2 DEF c
<1>5. ASSUME NEW i \in DOMAIN c
      PROVE  c[i] \in ToSet(a) \cup ToSet(b)
    <2>1. CASE i <= Len(a)
        BY <1>1, <1>3, <1>4, <2>1 DEF ToSet
    <2>2. CASE ~(i <= Len(a))
        <3>1. i - Len(a) \in DOMAIN b /\ c[i] = b[i - Len(a)]
            BY <1>1, <1>3, <1>4, <2>2
        <3> QED
            BY <3>1 DEF ToSet
    <2> QED
        BY <2>1, <2>2
<1>6. ASSUME NEW i \in DOMAIN a
      PROVE  a[i] \in ToSet(c)
    <2>1. i \in DOMAIN c /\ c[i] = a[i]
        BY <1>1, <1>3, <1>4
    <2> QED
        BY <2>1 DEF ToSet
<1>7. ASSUME NEW i \in DOMAIN b
      PROVE  b[i] \in ToSet(c)
    <2> DEFINE k == Len(a) + i
    <2>1. k \in DOMAIN c /\ ~(k <= Len(a)) /\ k - Len(a) = i
        BY <1>1, <1>3
    <2> HIDE DEF k
    <2>2. c[k] = b[i]
        BY <1>3, <1>4, <2>1
    <2> QED
        BY <2>1, <2>2 DEF ToSet
<1>8. ToSet(c) = ToSet(a) \cup ToSet(b)
    BY <1>5, <1>6, <1>7 DEF ToSet
<1> QED
    BY <1>8 DEF c

LEMMA WordsAtBoth ==
    ASSUME NEW A, NEW s \in Seq(A)
    PROVE  /\ SplitString(s, Both) \in Seq(Seq(A))
           /\ ToSet(SplitString(s, Both)) = ToSet(Split(s, Space)) \cup ToSet(Split(s, Dash))
<1>1. Split(s, Space) \in Seq(Seq(A)) /\ Split(s, Dash) \in Seq(Seq(A))
    BY SplitPieces
<1>2. Split(s, Space) \o Split(s, Dash) \in Seq(Seq(A))
    BY <1>1, ConcatProperties
<1>3. SplitString(s, Both) = Split(s, Space) \o Split(s, Dash)
    BY SplitAtBoth
<1>4. ToSet(Split(s, Space) \o Split(s, Dash)) = ToSet(Split(s, Space)) \cup ToSet(Split(s, Dash))
    BY <1>1, ConcatenationElements
<1> QED
    BY <1>2, <1>3, <1>4

\* What is between two cuts is a stretch, from the first cut on a head, up to the last an
\* end.
LEMMA BetweenCutsIsStretch ==
    ASSUME NEW A, NEW s \in Seq(A), NEW sep,
           NEW i \in 1..Len(Cuts(s, sep)), NEW j \in 1..Len(Cuts(s, sep)), i < j
    PROVE  /\ SubSeq(s, Cuts(s, sep)[i] + 1, Cuts(s, sep)[j] - 1) \in Stretches(s, sep)
           /\ i = 1 => SubSeq(s, Cuts(s, sep)[i] + 1, Cuts(s, sep)[j] - 1) \in Heads(s, sep)
           /\ j = Len(Cuts(s, sep)) =>
                SubSeq(s, Cuts(s, sep)[i] + 1, Cuts(s, sep)[j] - 1) \in Ends(s, sep)
<1> DEFINE c == Cuts(s, sep)
           l == c[i] + 1
           r == c[j] - 1
<1>1. /\ Len(s) \in Nat /\ Len(c) \in Nat /\ Len(c) >= 2
      /\ \A n \in 1..Len(c) : c[n] \in 0..Len(s) + 1
      /\ c[1] = 0 /\ c[Len(c)] = Len(s) + 1
      /\ \A n \in 2..Len(c) - 1 : c[n] \in DOMAIN s /\ s[c[n]] = sep
    BY CutEnds
<1>2. \A m, n \in 1..Len(c) : m < n => c[m] < c[n]
    BY CutsInOrder
<1>3. i \in 1..Len(c) /\ j \in 1..Len(c)
    OBVIOUS
<1> HIDE DEF c
<1>4. c[i] \in 0..Len(s) + 1 /\ c[j] \in 0..Len(s) + 1 /\ c[i] < c[j]
    BY <1>1, <1>2, <1>3
<1>5. l \in 1..Len(s) + 1 /\ r \in 0..Len(s) /\ l <= r + 1
    <2>1. Len(s) \in Nat
        BY <1>1
    <2> QED
        BY <1>4, <2>1, SMTT(20)
<1>6. l = 1 \/ s[l - 1] = sep
    <2>1. CASE i = 1
        BY <1>1, <2>1
    <2>2. CASE i # 1
        <3>1. i \in 2..Len(c) - 1 /\ l - 1 = c[i]
            BY <1>1, <1>3, <1>4, <2>2
        <3> QED
            BY <1>1, <3>1
    <2> QED
        BY <2>1, <2>2
<1>7. r = Len(s) \/ s[r + 1] = sep
    <2>1. CASE j = Len(c)
        BY <1>1, <2>1
    <2>2. CASE j # Len(c)
        <3>1. j \in 2..Len(c) - 1 /\ r + 1 = c[j]
            BY <1>1, <1>3, <1>4, <2>2
        <3> QED
            BY <1>1, <3>1
    <2> QED
        BY <2>1, <2>2
<1>8. i = 1 => l = 1
    BY <1>1
<1>9. j = Len(c) => r = Len(s)
    BY <1>1
<1> HIDE DEF l, r
<1>10. SubSeq(s, l, r) \in Stretches(s, sep)
    <2> DEFINE lr == <<l, r>>
    <2>1. lr \in {p \in (1..(Len(s) + 1)) \X (0..Len(s)) :
                    /\ p[1] <= p[2] + 1
                    /\ p[1] = 1 \/ s[p[1] - 1] = sep
                    /\ p[2] = Len(s) \/ s[p[2] + 1] = sep}
        BY <1>5, <1>6, <1>7
    <2>2. SubSeq(s, l, r) = SubSeq(s, lr[1], lr[2])
        OBVIOUS
    <2> QED
        BY <2>1, <2>2 DEF Stretches
<1>11. i = 1 => SubSeq(s, l, r) \in Heads(s, sep)
    BY <1>5, <1>7, <1>8 DEF Heads
<1>12. j = Len(c) => SubSeq(s, l, r) \in Ends(s, sep)
    BY <1>5, <1>6, <1>9 DEF Ends
<1> QED
    BY <1>10, <1>11, <1>12 DEF l, r, c

\* A piece is the stretch between two cuts, with no separator in it.
LEMMA PiecesAreStretches ==
    ASSUME NEW A, NEW s \in Seq(A), NEW sep, NEW x \in ToSet(Split(s, sep))
    PROVE  x \in Stretches(s, sep) /\ ~Contains(x, sep)
<1> DEFINE c == Cuts(s, sep)
<1>1. Len(c) \in Nat
    BY CutEnds
<1>2. /\ Split(s, sep) \in Seq(Seq(A))
      /\ Len(Split(s, sep)) = Len(c) - 1
      /\ \A n \in 1..Len(Split(s, sep)) : BetweenCuts(Split(s, sep)[n], s, sep, n)
    BY SplitPieces
<1>3. DOMAIN Split(s, sep) = 1..Len(c) - 1
    BY <1>2, LenProperties
<1>4. PICK n \in 1..Len(c) - 1 : x = Split(s, sep)[n]
    BY <1>3 DEF ToSet
<1>5. x = SubSeq(s, c[n] + 1, c[n + 1] - 1) /\ \A k \in 1..Len(x) : x[k] # sep
    BY <1>2, <1>4 DEF BetweenCuts
<1>6. ~Contains(x, sep)
    BY <1>5 DEF Contains
<1> DEFINE m == n + 1
<1>7. n \in 1..Len(c) /\ m \in 1..Len(c) /\ n < m
    BY <1>1
<1>8. x = SubSeq(s, c[n] + 1, c[m] - 1)
    BY <1>5
<1> HIDE DEF m
<1>9. x \in Stretches(s, sep)
    BY <1>7, <1>8, BetweenCutsIsStretch
<1> QED
    BY <1>6, <1>9
-----------------------------------------------------------------------------
(***************************************************************************)
(* What is found with the configurations, one after the other.             *)
(***************************************************************************)

Configurations ==
    [partial : BOOLEAN, list : BOOLEAN, combine : BOOLEAN, separators : {<<Space>>, Both}]

LEMMA ConfigsType ==
    ASSUME NEW u \in DOMAIN Configs
    PROVE  /\ Len(Configs[u]) \in Nat \ {0}
           /\ \A n \in 1..Len(Configs[u]) : Configs[u][n] \in Configurations
<1>1. Whole \in Configurations /\ [Whole EXCEPT !.partial = TRUE] \in Configurations
      /\ [Whole EXCEPT !.partial = TRUE, !.combine = TRUE] \in Configurations
    BY DEF Whole, Configurations
<1>2. /\ [partial |-> TRUE, list |-> TRUE, combine |-> FALSE, separators |-> Both] \in Configurations
      /\ [partial |-> TRUE, list |-> TRUE, combine |-> TRUE, separators |-> Both] \in Configurations
    BY DEF Configurations
<1>3. u \in {"siStreets", "deStreets", "cities"}
    BY DEF Configs
<1>4. CASE u = "siStreets"
    <2>1. Configs[u] =
            <<Whole,
              [Whole EXCEPT !.partial = TRUE],
              [partial |-> TRUE, list |-> TRUE, combine |-> FALSE, separators |-> Both],
              [partial |-> TRUE, list |-> TRUE, combine |-> TRUE, separators |-> Both]>>
        BY <1>4 DEF Configs
    <2>2. Len(Configs[u]) = 4
        BY <2>1
    <2>3. /\ Configs[u][1] \in Configurations /\ Configs[u][2] \in Configurations
          /\ Configs[u][3] \in Configurations /\ Configs[u][4] \in Configurations
        BY <1>1, <1>2, <2>1
    <2> QED
        BY <2>2, <2>3
<1>5. CASE u = "deStreets"
    <2>1. Configs[u] = <<[Whole EXCEPT !.partial = TRUE, !.combine = TRUE]>>
        BY <1>5 DEF Configs
    <2> QED
        BY <1>1, <2>1
<1>6. CASE u = "cities"
    <2>1. Configs[u] =
            <<[partial |-> TRUE, list |-> TRUE, combine |-> FALSE, separators |-> Both]>>
        BY <1>6 DEF Configs
    <2>2. Len(Configs[u]) = 1 /\ Configs[u][1] \in Configurations
        BY <1>2, <2>1
    <2> QED
        BY <2>2
<1> QED
    BY <1>3, <1>4, <1>5, <1>6

\* What is found is what the configuration tried last finds.
Tried ==
    /\ Chosen
    /\ use \in DOMAIN Configs
    /\ stage \in 0..Len(Configs[use])
    /\ stage = 0 => found = {}
    /\ stage > 0 => found = GetMatches(Configs[use][stage])

\* As it is after a step that leaves what is looked for as it was.
LEMMA MatchesUnchanged ==
    ASSUME UNCHANGED <<use, input, compareTo>>
    PROVE  \A config : GetMatches(config)' = GetMatches(config)
BY DEF GetMatches, CleanMatchResults, GetPartialMatches, MatchedWhole, MatchedInPart, Parts,
       WordsOf, Result, Percent, CalculateSimilarity, ListSeparators

LEMMA TriedHolds == Spec => []Tried
<1>1. Init => Tried
    <2> SUFFICES ASSUME Init
                 PROVE  Tried
        OBVIOUS
    <2>1. Chosen /\ use \in DOMAIN Configs /\ stage = 0 /\ found = {}
        BY DEF Init, Chosen
    <2>2. Len(Configs[use]) \in Nat
        BY <2>1, ConfigsType
    <2> QED
        BY <2>1, <2>2 DEF Tried
<1>2. Tried /\ [Next]_vars => Tried'
    <2> SUFFICES ASSUME Tried, [Next]_vars
                 PROVE  Tried'
        OBVIOUS
    <2>1. Len(Configs[use]) \in Nat
        BY ConfigsType DEF Tried
    <2>2. CASE NextStage
        <3>1. UNCHANGED <<use, input, compareTo>>
            BY <2>2 DEF NextStage
        <3>2. Chosen' /\ (use \in DOMAIN Configs)'
            BY <3>1 DEF Tried, Chosen, Configs, Whole, Both
        <3>3. stage' = stage + 1 /\ stage' \in 1..Len(Configs[use])
            BY <2>1, <2>2 DEF NextStage, Tried
        <3>4. found' = GetMatches(Configs[use][stage'])
            BY <2>2, <3>3 DEF NextStage
        <3>5. Configs' = Configs
            BY DEF Configs, Whole, Both
        <3>6. (found = GetMatches(Configs[use][stage]))'
            BY <3>1, <3>4, <3>5, MatchesUnchanged
        <3> QED
            BY <2>1, <3>1, <3>2, <3>3, <3>5, <3>6 DEF Tried
    <2>3. CASE UNCHANGED vars
        <3>1. UNCHANGED <<use, input, compareTo, stage, found>>
            BY <2>3 DEF vars
        <3>2. Chosen' /\ Configs' = Configs
            BY <3>1 DEF Tried, Chosen, Configs, Whole, Both
        <3>3. (stage > 0 => found = GetMatches(Configs[use][stage]))'
            BY <3>1, <3>2, MatchesUnchanged DEF Tried
        <3> QED
            BY <3>1, <3>2, <3>3 DEF Tried
    <2> QED
        BY <2>2, <2>3 DEF Next
<1> QED
    BY <1>1, <1>2, PTL DEF Spec

WholeValues == CalculateSimilarity(input, compareTo, FALSE)

PartValues(config) ==
    IF config.partial THEN MatchedWhole(config) \cup MatchedInPart(config) ELSE {}

\* What is found of a value, as a whole and in part.
LEMMA ResultsOfValue ==
    ASSUME NEW config
    PROVE  /\ \A v \in WholeValues : Result(v, FALSE) \in AllMatches(config)
           /\ \A v \in PartValues(config) : Result(v, TRUE) \in AllMatches(config)
           /\ \A r \in AllMatches(config) :
                \/ \E v \in WholeValues : r = Result(v, FALSE)
                \/ \E v \in PartValues(config) : r = Result(v, TRUE)
<1>1. WholeMatches = {Result(v, FALSE) : v \in WholeValues}
    BY DEF WholeMatches, WholeValues
<1>2. CASE config.partial
    <2>1. PartValues(config) = MatchedWhole(config) \cup MatchedInPart(config)
        BY <1>2 DEF PartValues
    <2>2. AllMatches(config) = WholeMatches \cup {Result(v, TRUE) : v \in PartValues(config)}
        BY <1>2, <2>1 DEF AllMatches, GetPartialMatches
    <2> QED
        BY <1>1, <2>2
<1>3. CASE ~config.partial
    <2>1. PartValues(config) = {} /\ AllMatches(config) = WholeMatches
        BY <1>3 DEF PartValues, AllMatches
    <2> QED
        BY <1>1, <2>1
<1> QED
    BY <1>2, <1>3

\* The results of GetMatches: of the two a value may have, cleanMatchResults has kept
\* the better, the first if they are equally good.
LEMMA BestOfMatches ==
    ASSUME Chosen, NEW config
    PROVE  GetMatches(config) =
                {Better(v, WholeValues, PartValues(config)) :
                    v \in WholeValues \cup PartValues(config)}
<1> DEFINE W == WholeValues
           P == PartValues(config)
           whole(v) == Result(v, FALSE)
           part(v) == Result(v, TRUE)
<1>1. GetMatches(config) = CleanMatchResults(AllMatches(config))
    BY DEF GetMatches, AllMatches, WholeMatches
<1>2. /\ \A v \in W : whole(v) \in AllMatches(config)
      /\ \A v \in P : part(v) \in AllMatches(config)
      /\ \A r \in AllMatches(config) :
            (\E v \in W : r = whole(v)) \/ (\E v \in P : r = part(v))
    BY ResultsOfValue
<1>3. /\ \A v : whole(v).value = v /\ ~whole(v).partial
      /\ \A v : part(v).value = v /\ part(v).partial
      /\ \A v : whole(v).similarity = Similarity(input, v)
      /\ \A v : part(v).similarity = PartialSimilarity(input, v)
    BY DEF Result, Percent
<1>4. ASSUME NEW v \in W \cup P
      PROVE  Similarity(input, v) \in Nat /\ PartialSimilarity(input, v) \in Nat
    <2>1. PICK r \in AllMatches(config) : r.value = v
        BY <1>2, <1>3
    <2>2. v \in compareTo
        <3>1. PICK w \in compareTo, b \in BOOLEAN : r = Result(w, b)
            BY MatchesFromList
        <3> QED
            BY <2>1, <3>1 DEF Result
    <2> QED
        BY <2>2, MatchingAssumption DEF MatchingAssumption, Chosen
<1>5. \A v : Better(v, W, P) =
                IF v \in W \cap P /\ PartialSimilarity(input, v) <= Similarity(input, v)
                THEN whole(v) ELSE Result(v, v \in P)
    BY DEF Better
<1>6. \A r : r \in GetMatches(config) <=>
            /\ r \in AllMatches(config)
            /\ \A q \in AllMatches(config) : q.value = r.value =>
                    \/ q.similarity < r.similarity
                    \/ q.similarity = r.similarity /\ (q.partial \/ ~r.partial)
    BY <1>1 DEF CleanMatchResults
<1> HIDE DEF W, P, whole, part
<1>7. ASSUME NEW v, NEW q \in AllMatches(config), q.value = v
      PROVE  (v \in W /\ q = whole(v)) \/ (v \in P /\ q = part(v))
    BY <1>2, <1>3, <1>7
<1>8. ASSUME NEW v \in W
      PROVE  whole(v) \in GetMatches(config) <=>
                (v \in P => PartialSimilarity(input, v) <= Similarity(input, v))
    <2>1. CASE v \notin P
        <3>1. \A q \in AllMatches(config) : q.value = v => q = whole(v)
            BY <1>7, <2>1
        <3> QED
            BY <1>2, <1>3, <1>6, <2>1, <3>1
    <2>2. CASE v \in P /\ PartialSimilarity(input, v) <= Similarity(input, v)
        <3>1. \A q \in AllMatches(config) : q.value = v => q = whole(v) \/ q = part(v)
            BY <1>7
        <3>2. \/ part(v).similarity < whole(v).similarity
              \/ part(v).similarity = whole(v).similarity
            BY <1>3, <1>4, <2>2
        <3> QED
            BY <1>2, <1>3, <1>6, <2>2, <3>1, <3>2
    <2>3. CASE v \in P /\ ~(PartialSimilarity(input, v) <= Similarity(input, v))
        <3>1. /\ ~(part(v).similarity < whole(v).similarity)
              /\ part(v).similarity # whole(v).similarity
            BY <1>3, <1>4, <2>3
        <3> QED
            BY <1>2, <1>3, <1>6, <2>3, <3>1
    <2> QED
        BY <2>1, <2>2, <2>3
<1>9. ASSUME NEW v \in P
      PROVE  part(v) \in GetMatches(config) <=>
                (v \in W => ~(PartialSimilarity(input, v) <= Similarity(input, v)))
    <2>1. CASE v \notin W
        <3>1. \A q \in AllMatches(config) : q.value = v => q = part(v)
            BY <1>7, <2>1
        <3> QED
            BY <1>2, <1>3, <1>6, <2>1, <3>1
    <2>2. CASE v \in W /\ PartialSimilarity(input, v) <= Similarity(input, v)
        <3>1. ~(whole(v).similarity < part(v).similarity)
            BY <1>3, <1>4, <2>2
        <3> QED
            BY <1>2, <1>3, <1>6, <2>2, <3>1
    <2>3. CASE v \in W /\ ~(PartialSimilarity(input, v) <= Similarity(input, v))
        <3>1. \A q \in AllMatches(config) : q.value = v => q = whole(v) \/ q = part(v)
            BY <1>7
        <3>2. whole(v).similarity < part(v).similarity
            BY <1>3, <1>4, <2>3
        <3> QED
            BY <1>2, <1>3, <1>6, <2>3, <3>1, <3>2
    <2> QED
        BY <2>1, <2>2, <2>3
<1>10. ASSUME NEW v \in W \cup P
       PROVE  /\ Better(v, W, P) \in GetMatches(config)
              /\ \A r \in GetMatches(config) : r.value = v => r = Better(v, W, P)
    <2>1. CASE v \in W /\ v \notin P
        <3>1. Better(v, W, P) = whole(v)
            <4>1. Better(v, W, P) = Result(v, v \in P)
                BY <1>5, <2>1
            <4>2. (v \in P) = FALSE
                BY <2>1
            <4> QED
                BY <4>1, <4>2, Zenon DEF whole
        <3>2. \A r \in GetMatches(config) : r.value = v => r = whole(v)
            BY <1>6, <1>7, <2>1
        <3> QED
            BY <1>8, <2>1, <3>1, <3>2
    <2>2. CASE v \in P /\ v \notin W
        <3>1. Better(v, W, P) = part(v)
            BY <1>5, <2>2 DEF part
        <3>2. \A r \in GetMatches(config) : r.value = v => r = part(v)
            BY <1>6, <1>7, <2>2
        <3> QED
            BY <1>9, <2>2, <3>1, <3>2
    <2>3. CASE v \in W /\ v \in P
        <3>1. \A r \in GetMatches(config) : r.value = v => r = whole(v) \/ r = part(v)
            BY <1>6, <1>7
        <3>2. CASE PartialSimilarity(input, v) <= Similarity(input, v)
            <4>1. Better(v, W, P) = whole(v)
                BY <1>5, <2>3, <3>2
            <4> QED
                BY <1>8, <1>9, <2>3, <3>1, <3>2, <4>1
        <3>3. CASE ~(PartialSimilarity(input, v) <= Similarity(input, v))
            <4>1. Better(v, W, P) = part(v)
                BY <1>5, <2>3, <3>3 DEF part
            <4> QED
                BY <1>8, <1>9, <2>3, <3>1, <3>3, <4>1
        <3> QED
            BY <3>2, <3>3
    <2> QED
        BY <2>1, <2>2, <2>3
<1>11. \A r \in GetMatches(config) : r.value \in W \cup P
    BY <1>2, <1>3, <1>6
<1>12. GetMatches(config) = {Better(v, W, P) : v \in W \cup P}
    BY <1>10, <1>11
<1> QED
    BY <1>12 DEF W, P

\* Whatever matches as a whole and in part, in however many ways, is reported, once,
\* with the better of its two similarities, and nothing else is (matching.go:170-196).
THEOREM BestAlwaysReported == Spec => []BestOfEach
<1>1. Tried => BestOfEach
    <2> SUFFICES ASSUME Tried, stage > 0
                 PROVE  found = {Better(v, WholeValues, PartValues(Configs[use][stage])) :
                            v \in WholeValues \cup PartValues(Configs[use][stage])}
        BY DEF BestOfEach, WholeValues, PartValues
    <2> QED
        BY BestOfMatches DEF Tried
<1> QED
    BY <1>1, TriedHolds, PTL
-----------------------------------------------------------------------------
(***************************************************************************)
(* Later configurations find more.                                         *)
(***************************************************************************)

ValuesFound(config) ==
    CalculateSimilarity(input, compareTo, FALSE)
    \cup (IF config.partial THEN MatchedWhole(config) \cup MatchedInPart(config) ELSE {})

\* A value that matches at all is among the results, once.
LEMMA ValuesOfMatches ==
    ASSUME Chosen, NEW config \in Configurations
    PROVE  {r.value : r \in GetMatches(config)} = ValuesFound(config)
<1> DEFINE Vals == {r.value : r \in GetMatches(config)}
<1>1. GetMatches(config) = CleanMatchResults(AllMatches(config))
    BY DEF GetMatches, AllMatches, WholeMatches
<1>2. \A v, b : Result(v, b).value = v /\ Result(v, b).partial = b
                /\ Result(v, b).similarity = Percent(input, v, b)
    BY DEF Result
<1>3. ASSUME NEW r \in AllMatches(config)
      PROVE  r.value \in ValuesFound(config)
    <2>1. CASE r \in WholeMatches
        <3>1. PICK v \in CalculateSimilarity(input, compareTo, FALSE) : r = Result(v, FALSE)
            BY <2>1 DEF WholeMatches
        <3> QED
            BY <1>2, <3>1 DEF ValuesFound
    <2>2. CASE r \notin WholeMatches
        <3>1. config.partial /\ r \in GetPartialMatches(config)
            BY <2>2 DEF AllMatches
        <3>2. PICK v \in MatchedWhole(config) \cup MatchedInPart(config) : r = Result(v, TRUE)
            BY <3>1 DEF GetPartialMatches
        <3> QED
            BY <1>2, <3>1, <3>2 DEF ValuesFound
    <2> QED
        BY <2>1, <2>2
<1>4. Vals \subseteq ValuesFound(config)
    BY <1>1, <1>3 DEF CleanMatchResults
<1>5. ASSUME NEW v \in ValuesFound(config)
      PROVE  v \in Vals
    <2> DEFINE whole == Result(v, FALSE)
               part == Result(v, TRUE)
    <2>1. whole \in AllMatches(config) \/ part \in AllMatches(config)
        BY <1>5 DEF ValuesFound, AllMatches, WholeMatches, GetPartialMatches
    <2>2. v \in compareTo
        <3>1. PICK r \in AllMatches(config) : r.value = v
            BY <1>2, <2>1
        <3>2. PICK w \in compareTo, b \in BOOLEAN : r = Result(w, b)
            BY MatchesFromList
        <3> QED
            BY <1>2, <3>1, <3>2
    <2>3. Similarity(input, v) \in Nat /\ PartialSimilarity(input, v) \in Nat
        BY <2>2, MatchingAssumption DEF MatchingAssumption, Chosen
    <2>4. ASSUME NEW q \in AllMatches(config), q.value = v
          PROVE  q = whole \/ q = part
        <3>1. PICK w \in compareTo, b \in BOOLEAN : q = Result(w, b)
            BY MatchesFromList
        <3>2. w = v
            BY <1>2, <2>4, <3>1
        <3> QED
            BY <3>1, <3>2
    <2>5. /\ whole.value = v /\ ~whole.partial /\ whole.similarity \in Nat
          /\ part.value = v /\ part.partial /\ part.similarity \in Nat
        BY <1>2, <2>3 DEF Percent
    <2> HIDE DEF whole, part
    <2>6. whole \in GetMatches(config) \/ part \in GetMatches(config)
        <3>1. CASE whole \in AllMatches(config) /\ part.similarity <= whole.similarity
            <4>1. whole \in GetMatches(config)
                BY <1>1, <2>4, <2>5, <3>1 DEF CleanMatchResults
            <4> QED
                BY <4>1
        <3>2. CASE whole \in AllMatches(config) /\ ~(part.similarity <= whole.similarity)
                   /\ part \in AllMatches(config)
            <4>1. part \in GetMatches(config)
                BY <1>1, <2>4, <2>5, <3>2 DEF CleanMatchResults
            <4> QED
                BY <4>1
        <3>3. CASE whole \in AllMatches(config) /\ part \notin AllMatches(config)
            <4>1. \A q \in AllMatches(config) : q.value = v => q = whole
                BY <2>4, <3>3
            <4>2. whole \in GetMatches(config)
                BY <1>1, <2>5, <3>3, <4>1 DEF CleanMatchResults
            <4> QED
                BY <4>2
        <3>4. CASE whole \notin AllMatches(config)
            <4>1. part \in AllMatches(config)
                BY <2>1, <3>4
            <4>2. \A q \in AllMatches(config) : q.value = v => q = part
                BY <2>4, <3>4
            <4>3. part \in GetMatches(config)
                BY <1>1, <2>5, <4>1, <4>2 DEF CleanMatchResults
            <4> QED
                BY <4>3
        <3> QED
            BY <3>1, <3>2, <3>3, <3>4
    <2> QED
        BY <2>5, <2>6
<1> QED
    BY <1>4, <1>5
\* A single word is a run of words.
LEMMA JoinOne ==
    ASSUME NEW A, NEW x \in Seq(A), NEW words, Len(words) = 1, words[1] = x,
           DOMAIN words = 1..1
    PROVE  Join(words) = x
<1> DEFINE B == A \cup {Space}
           y == <<Space>> \o x
           seqs == [n \in DOMAIN words |-> <<Space>> \o words[n]]
<1>1. x \in Seq(B)
    BY SeqMonotonic
<1>2. <<Space>> \in Seq(B) /\ Len(<<Space>>) = 1
    OBVIOUS
<1>3. Len(seqs) = 1 /\ seqs[1] = y
    OBVIOUS
<1>4. Join(words) = Tail(FlattenSeq(seqs))
    BY DEF Join
<1>5. /\ y \in Seq(B) /\ Len(y) = 1 + Len(x)
      /\ \A i \in 1..1 + Len(x) : y[i] = IF i <= 1 THEN <<Space>>[i] ELSE x[i - 1]
    BY <1>1, <1>2, ConcatProperties
<1> HIDE DEF seqs, B, y
<1>6. FlattenSeq(seqs) = y
    BY <1>3, FlattenOne
<1>7. Len(x) \in Nat
    BY <1>1, LenProperties
<1>8. y # <<>>
    BY <1>5, <1>7, EmptySeq
<1>9. /\ Tail(y) \in Seq(B) /\ Len(Tail(y)) = Len(y) - 1
      /\ \A i \in 1..Len(Tail(y)) : Tail(y)[i] = y[i + 1]
    BY <1>5, <1>8, HeadTailProperties
<1>10. ASSUME NEW i \in 1..Len(Tail(y))
       PROVE  Tail(y)[i] = x[i]
    <2> DEFINE k == i + 1
    <2>1. i \in 1..Len(x) /\ k \in 1..1 + Len(x) /\ ~(k <= 1) /\ k - 1 = i
        BY <1>5, <1>7, <1>9
    <2>2. Tail(y)[i] = y[k]
        BY <1>9
    <2> HIDE DEF k
    <2> QED
        BY <1>5, <2>1, <2>2
<1>11. Tail(y) = x
    BY <1>1, <1>5, <1>7, <1>9, <1>10, SeqEqual
<1> QED
    BY <1>4, <1>6, <1>11

LEMMA WordsCombined ==
    ASSUME NEW A, NEW words \in Seq(Seq(A))
    PROVE  ToSet(words) \subseteq CombineAllForwardCombinations(words)
<1>1. DOMAIN words = 1..Len(words) /\ Len(words) \in Nat
    BY LenProperties
<1> SUFFICES ASSUME NEW i \in 1..Len(words)
             PROVE  words[i] \in CombineAllForwardCombinations(words)
    BY <1>1 DEF ToSet
<1> DEFINE one == SubSeq(words, i, i)
<1>2. i \in Int /\ i - i + 1 = 1 /\ i + 1 - 1 = i /\ \A k \in i..i : words[k] \in Seq(A)
    BY <1>1, ElementOfSeq
<1>3. /\ one \in Seq(Seq(A)) /\ Len(one) = 1
      /\ \A k \in 1..1 : one[k] = words[i + k - 1]
    BY <1>2, SubSeqProperties
<1> HIDE DEF one
<1>4. one[1] = words[i]
    BY <1>2, <1>3
<1>5. DOMAIN one = 1..1
    BY <1>3, LenProperties
<1>6. words[i] \in Seq(A)
    BY ElementOfSeq
<1>7. Join(one) = words[i]
    BY <1>3, <1>4, <1>5, <1>6, JoinOne
<1> DEFINE ij == <<i, i>>
<1>8. /\ ij \in {p \in (DOMAIN words) \X (DOMAIN words) : p[1] <= p[2]}
      /\ Join(SubSeq(words, ij[1], ij[2])) = words[i]
    BY <1>1, <1>7 DEF one
<1> QED
    BY <1>8 DEF CombineAllForwardCombinations

\* A configuration that looks at least where another one does.
Looser(d, c) ==
    /\ c.partial => d.partial
    /\ ~c.combine
    /\ c.list => d.list /\ d.separators = c.separators
    /\ d.separators = c.separators \/ d.separators = Both

LEMMA MoreParts ==
    ASSUME Chosen, NEW c \in Configurations, NEW d \in Configurations, Looser(d, c)
    PROVE  Parts(c) \subseteq Parts(d)
<1> DEFINE A == ToSet(input)
           few == SplitString(input, c.separators)
           many == SplitString(input, d.separators)
<1>1. input \in Seq(A)
    BY MatchingAssumption DEF MatchingAssumption, Chosen
<1>2. c.separators \in {<<Space>>, Both} /\ d.separators \in {<<Space>>, Both}
    BY DEF Configurations
<1>3. few = Split(input, Space) => ToSet(few) = ToSet(Split(input, Space))
    OBVIOUS
<1> HIDE DEF A
<1>4. Split(input, Space) \in Seq(Seq(A))
    BY <1>1, SplitPieces
<1>5. many \in Seq(Seq(A))
    <2>1. CASE d.separators = <<Space>>
        BY <1>4, <2>1, SplitAtOne
    <2>2. CASE d.separators = Both
        BY <1>1, <2>2, WordsAtBoth
    <2> QED
        BY <1>2, <2>1, <2>2
<1>6. ToSet(few) \subseteq ToSet(many)
    <2>1. CASE d.separators = c.separators
        BY <2>1
    <2>2. CASE c.separators = <<Space>> /\ d.separators = Both
        <3>1. few = Split(input, Space)
            BY <2>2, SplitAtOne
        <3>2. ToSet(many) = ToSet(Split(input, Space)) \cup ToSet(Split(input, Dash))
            BY <1>1, <2>2, WordsAtBoth
        <3> QED
            BY <3>1, <3>2
    <2> QED
        BY <1>2, <2>1, <2>2 DEF Looser
<1>7. ToSet(many) \subseteq CombineAllForwardCombinations(many)
    BY <1>5, WordsCombined
<1>8. Parts(c) = FilterList(ToSet(few))
    BY DEF Parts, Looser
<1>9. Parts(d) = FilterList(IF d.combine THEN CombineAllForwardCombinations(many) ELSE ToSet(many))
    BY DEF Parts
<1> HIDE DEF few, many
<1> QED
    BY <1>6, <1>7, <1>8, <1>9 DEF FilterList

LEMMA MoreValues ==
    ASSUME Chosen, NEW c \in Configurations, NEW d \in Configurations, Looser(d, c)
    PROVE  ValuesFound(c) \subseteq ValuesFound(d)
<1>1. Parts(c) \subseteq Parts(d)
    BY MoreParts
<1>2. MatchedWhole(c) \subseteq MatchedWhole(d)
    BY <1>1 DEF MatchedWhole
<1>3. ASSUME NEW v \in MatchedInPart(c)
      PROVE  v \in MatchedInPart(d)
    <2>1. c.list /\ d.list /\ d.separators = c.separators
        BY <1>3 DEF MatchedInPart, Looser
    <2>2. WordsOf(v, d) = WordsOf(v, c)
        BY <2>1 DEF WordsOf, ListSeparators
    <2>3. PICK part \in Parts(c) : CalculateSimilarity(part, WordsOf(v, c), TRUE) # {}
        BY <1>3 DEF MatchedInPart
    <2>4. v \in FilterList(compareTo)
        BY <1>3 DEF MatchedInPart
    <2> QED
        BY <1>1, <2>1, <2>2, <2>3, <2>4 DEF MatchedInPart
<1> QED
    BY <1>2, <1>3 DEF ValuesFound, Looser

\* The later of two configurations for the same lookup.
LEMMA LaterIsLooser ==
    ASSUME NEW u \in DOMAIN Configs, NEW m \in 1..Len(Configs[u]), NEW n \in 1..Len(Configs[u]),
           m < n
    PROVE  Looser(Configs[u][n], Configs[u][m])
<1>1. u \in {"siStreets", "deStreets", "cities"}
    BY DEF Configs
<1>2. CASE u = "deStreets"
    BY <1>2 DEF Configs
<1>3. CASE u = "cities"
    BY <1>3 DEF Configs
<1>4. CASE u = "siStreets"
    <2> DEFINE c == Configs[u]
    <2>1. /\ Len(c) = 4
          /\ c[1] = Whole
          /\ c[2] = [Whole EXCEPT !.partial = TRUE]
          /\ c[3] = [partial |-> TRUE, list |-> TRUE, combine |-> FALSE, separators |-> Both]
          /\ c[4] = [partial |-> TRUE, list |-> TRUE, combine |-> TRUE, separators |-> Both]
        BY <1>4 DEF Configs
    <2> HIDE DEF c
    <2>2. /\ ~c[1].partial /\ ~c[1].list /\ ~c[1].combine /\ c[1].separators = <<Space>>
          /\ c[2].partial /\ ~c[2].list /\ ~c[2].combine /\ c[2].separators = <<Space>>
          /\ c[3].partial /\ c[3].list /\ ~c[3].combine /\ c[3].separators = Both
          /\ c[4].partial /\ c[4].list /\ c[4].separators = Both
        BY <2>1 DEF Whole
    <2>3. \/ m = 1 /\ n \in {2, 3, 4}
          \/ m = 2 /\ n \in {3, 4}
          \/ m = 3 /\ n = 4
        BY <2>1 DEF c
    <2>4. Looser(c[n], c[m])
        BY <2>2, <2>3 DEF Looser
    <2> QED
        BY <2>4 DEF c
<1> QED
    BY <1>1, <1>2, <1>3, <1>4

\* The search of "si" stops at the first configuration that finds something; what it
\* finds, every later one would have found too, so no street is lost by being strict
\* first (si.go:254-293).
THEOREM LaterStagesAlwaysFindMore == Spec => []LaterStagesFindMore
<1>1. Tried => LaterStagesFindMore
    <2> SUFFICES ASSUME Tried, NEW n \in DOMAIN Configs[use], n >= stage
                 PROVE  {r.value : r \in found} \subseteq
                            {r.value : r \in GetMatches(Configs[use][n])}
        BY DEF LaterStagesFindMore
    <2> DEFINE c == Configs[use][stage]
               d == Configs[use][n]
    <2>1. use \in DOMAIN Configs /\ Chosen /\ stage \in 0..Len(Configs[use])
        BY DEF Tried
    <2>2. Len(Configs[use]) \in Nat
        BY <2>1, ConfigsType
    <2>3. DOMAIN Configs[use] = 1..Len(Configs[use])
        BY <2>1 DEF Configs
    <2>4. n \in 1..Len(Configs[use]) /\ d \in Configurations
        BY <2>1, <2>3, ConfigsType
    <2>5. CASE stage = 0
        BY <2>5 DEF Tried
    <2>6. CASE stage > 0
        <3>1. stage \in 1..Len(Configs[use])
            BY <2>1, <2>2, <2>6
        <3>2. c \in Configurations
            BY <2>1, <3>1, ConfigsType
        <3>3. found = GetMatches(c)
            BY <2>6 DEF Tried
        <3>4. CASE n = stage
            BY <3>3, <3>4
        <3>5. CASE n # stage
            <4>1. stage < n
                BY <2>4, <3>1, <3>5
            <4>2. Looser(d, c)
                BY <2>1, <2>4, <3>1, <4>1, LaterIsLooser
            <4> HIDE DEF c, d
            <4>3. ValuesFound(c) \subseteq ValuesFound(d)
                BY <2>1, <2>4, <3>2, <4>2, MoreValues
            <4>4. {r.value : r \in GetMatches(c)} = ValuesFound(c)
                BY <2>1, <3>2, ValuesOfMatches
            <4>5. {r.value : r \in GetMatches(d)} = ValuesFound(d)
                BY <2>1, <2>4, ValuesOfMatches
            <4> QED
                BY <3>3, <4>3, <4>4, <4>5 DEF d
        <3> QED
            BY <3>4, <3>5
    <2>7. stage = 0 \/ stage > 0
        BY <2>1, <2>2
    <2> QED
        BY <2>5, <2>6, <2>7
<1> QED
    BY <1>1, TriedHolds, PTL
-----------------------------------------------------------------------------
(***************************************************************************)
(* Runs of words, joined.                                                  *)
(***************************************************************************)

\* The string from one place to before another, its separators replaced, after a space.
Spaced(s, sep, a, b) ==
    [k \in 1..b - a |-> IF k = 1 \/ s[a + k - 1] = sep THEN Space ELSE s[a + k - 1]]

LEMMA SpacedLength ==
    ASSUME NEW s, NEW sep, NEW a \in Int, NEW b \in Int, a < b
    PROVE  Len(Spaced(s, sep, a, b)) = b - a
<1>1. b - a \in Nat
    OBVIOUS
<1> QED
    BY <1>1 DEF Spaced

LEMMA SpacedType ==
    ASSUME NEW A, NEW s \in Seq(A), NEW sep, NEW a \in 0..Len(s), NEW b \in a + 1..Len(s) + 1
    PROVE  /\ Spaced(s, sep, a, b) \in Seq(A \cup {Space})
           /\ b - a \in Nat \ {0}
<1>1. Len(s) \in Nat
    BY LenProperties
<1>2. b - a \in Nat \ {0}
    BY <1>1
<1> DEFINE f == Spaced(s, sep, a, b)
<1>3. ASSUME NEW k \in 1..b - a
      PROVE  f[k] \in A \cup {Space}
    <2>1. f[k] = IF k = 1 \/ s[a + k - 1] = sep THEN Space ELSE s[a + k - 1]
        BY DEF Spaced
    <2>2. k # 1 => a + k - 1 \in 1..Len(s)
        BY <1>1
    <2>3. k # 1 => s[a + k - 1] \in A
        BY <2>2, ElementOfSeq
    <2> HIDE DEF f
    <2> QED
        BY <2>1, <2>3
<1>4. f \in [1..b - a -> A \cup {Space}]
    BY <1>3 DEF Spaced
<1> HIDE DEF f
<1>5. f \in Seq(A \cup {Space})
    BY <1>2, <1>4, SeqDef
<1> QED
    BY <1>2, <1>5 DEF f

LEMMA SpacedMore ==
    ASSUME NEW A, NEW s \in Seq(A), NEW sep,
           NEW a \in 0..Len(s), NEW b \in a + 1..Len(s), NEW d \in b + 1..Len(s) + 1, s[b] = sep
    PROVE  Spaced(s, sep, a, b) \o Spaced(s, sep, b, d) = Spaced(s, sep, a, d)
<1> DEFINE B == A \cup {Space}
           f == Spaced(s, sep, a, b)
           g == Spaced(s, sep, b, d)
           h == Spaced(s, sep, a, d)
<1>1. Len(s) \in Nat
    BY LenProperties
<1>2. b \in 0..Len(s) /\ b \in a + 1..Len(s) + 1 /\ d \in a + 1..Len(s) + 1
    BY <1>1
<1>3. f \in Seq(B) /\ g \in Seq(B) /\ h \in Seq(B)
    BY <1>2, SpacedType
<1>4. Len(f) = b - a
    BY <1>1, SpacedLength
<1>5. Len(g) = d - b /\ Len(h) = d - a
    BY <1>1, <1>2, SpacedLength
<1>6. \A k \in 1..b - a : f[k] = IF k = 1 \/ s[a + k - 1] = sep THEN Space ELSE s[a + k - 1]
    BY DEF Spaced
<1>7. \A k \in 1..d - b : g[k] = IF k = 1 \/ s[b + k - 1] = sep THEN Space ELSE s[b + k - 1]
    BY DEF Spaced
<1>8. \A k \in 1..d - a : h[k] = IF k = 1 \/ s[a + k - 1] = sep THEN Space ELSE s[a + k - 1]
    BY DEF Spaced
<1> DEFINE fg == f \o g
<1> HIDE DEF B, f, g, h
<1>9. fg \in Seq(B) /\ Len(fg) = (b - a) + (d - b)
      /\ \A k \in 1..(b - a) + (d - b) : fg[k] = IF k <= b - a THEN f[k] ELSE g[k - (b - a)]
    <2>1. /\ fg \in Seq(B) /\ Len(fg) = Len(f) + Len(g)
          /\ \A k \in 1..Len(f) + Len(g) : fg[k] = IF k <= Len(f) THEN f[k] ELSE g[k - Len(f)]
        BY <1>3, ConcatProperties
    <2> HIDE DEF fg
    <2> QED
        BY <1>4, <1>5, <2>1
<1> HIDE DEF fg
<1>10. (b - a) + (d - b) = d - a
    OBVIOUS
<1>11. ASSUME NEW k \in 1..d - a
       PROVE  fg[k] = h[k]
    <2>1. CASE k <= b - a
        <3>1. k \in 1..b - a
            BY <2>1
        <3> QED
            BY <1>6, <1>8, <1>9, <1>10, <2>1, <3>1
    <2>2. CASE ~(k <= b - a)
        <3> DEFINE i == k - (b - a)
        <3>1. i \in 1..d - b /\ b + i - 1 = a + k - 1 /\ k # 1
            BY <2>2
        <3>2. fg[k] = g[i]
            BY <1>9, <1>10, <2>2
        <3>3. i = 1 => s[a + k - 1] = sep
            BY <3>1
        <3> HIDE DEF i
        <3>4. g[i] = IF i = 1 \/ s[a + k - 1] = sep THEN Space ELSE s[a + k - 1]
            BY <1>7, <3>1
        <3> QED
            BY <1>8, <3>1, <3>2, <3>3, <3>4
    <2> QED
        BY <2>1, <2>2
<1>12. fg = h
    BY <1>3, <1>5, <1>9, <1>10, <1>11, SeqEqual
<1> QED
    BY <1>12 DEF fg, f, g, h

\* A piece, after a space.
LEMMA SpacedPiece ==
    ASSUME NEW A, NEW s \in Seq(A), NEW sep, NEW n \in 1..Len(Cuts(s, sep)) - 1
    PROVE  /\ Cuts(s, sep)[n] \in 0..Len(s)
           /\ Cuts(s, sep)[n + 1] \in Cuts(s, sep)[n] + 1..Len(s) + 1
           /\ <<Space>> \o Split(s, sep)[n] = Spaced(s, sep, Cuts(s, sep)[n], Cuts(s, sep)[n + 1])
<1> DEFINE c == Cuts(s, sep)
           B == A \cup {Space}
           x == Split(s, sep)[n]
           a == c[n]
           b == c[n + 1]
<1>1. /\ Len(s) \in Nat /\ Len(c) \in Nat /\ Len(c) >= 2
      /\ \A m \in 1..Len(c) : c[m] \in 0..Len(s) + 1
    BY CutEnds
<1>2. \A l, m \in 1..Len(c) : l < m => c[l] < c[m]
    BY CutsInOrder
<1>3. /\ Split(s, sep) \in Seq(Seq(A))
      /\ Len(Split(s, sep)) = Len(c) - 1
      /\ \A m \in 1..Len(Split(s, sep)) : BetweenCuts(Split(s, sep)[m], s, sep, m)
    BY SplitPieces
<1>4. x \in Seq(A)
    BY <1>3, ElementOfSeq
<1>5. Len(x) = b - a - 1 /\ \A k \in 1..Len(x) : x[k] = s[a + k] /\ s[a + k] # sep
    BY <1>3 DEF BetweenCuts
<1>6. n \in 1..Len(c) /\ n + 1 \in 1..Len(c) /\ n < n + 1
    BY <1>1
<1> HIDE DEF c, x
<1>7. a \in 0..Len(s) /\ b \in a + 1..Len(s) + 1
    <2>1. c[n] \in 0..Len(s) + 1 /\ c[n + 1] \in 0..Len(s) + 1 /\ c[n] < c[n + 1]
        BY <1>1, <1>2, <1>6
    <2> QED
        BY <1>1, <2>1
<1> HIDE DEF a, b
<1> DEFINE h == Spaced(s, sep, a, b)
           y == <<Space>> \o x
<1>8. h \in Seq(B) /\ Len(h) = b - a
    <2>1. h \in Seq(B)
        BY <1>7, SpacedType
    <2>2. a \in Int /\ b \in Int /\ a < b
        BY <1>1, <1>7
    <2> QED
        BY <2>1, <2>2, SpacedLength
<1>9. \A k \in 1..b - a : h[k] = IF k = 1 \/ s[a + k - 1] = sep THEN Space ELSE s[a + k - 1]
    BY DEF Spaced
<1>10. x \in Seq(B) /\ <<Space>> \in Seq(B) /\ Len(<<Space>>) = 1 /\ <<Space>>[1] = Space
    BY <1>4, SeqMonotonic
<1>11. /\ y \in Seq(B) /\ Len(y) = 1 + Len(x)
       /\ \A k \in 1..1 + Len(x) : y[k] = IF k <= 1 THEN <<Space>>[k] ELSE x[k - 1]
    BY <1>10, ConcatProperties
<1> HIDE DEF h, y, B
<1>12. 1 + Len(x) = b - a /\ Len(s) \in Nat
    BY <1>1, <1>5, <1>7
<1>13. ASSUME NEW k \in 1..b - a
       PROVE  y[k] = h[k]
    <2>1. CASE k = 1
        BY <1>9, <1>10, <1>11, <1>12, <2>1
    <2>2. CASE k # 1
        <3> DEFINE i == k - 1
        <3>1. i \in 1..Len(x) /\ ~(k <= 1) /\ a + i = a + k - 1
            BY <1>5, <1>7, <2>2
        <3>2. y[k] = x[i]
            BY <1>11, <1>12, <3>1
        <3> HIDE DEF i
        <3>3. x[i] = s[a + k - 1] /\ s[a + k - 1] # sep
            BY <1>5, <3>1
        <3> QED
            BY <1>9, <2>2, <3>2, <3>3
    <2> QED
        BY <2>1, <2>2
<1>14. y = h
    BY <1>8, <1>11, <1>12, <1>13, SeqEqual
<1> QED
    BY <1>7, <1>14 DEF a, b, c, x, y, h
\* The pieces from one on, each after a space.
Spelled(s, sep, i, N) == [k \in 1..N |-> <<Space>> \o Split(s, sep)[i + k - 1]]

LEMMA PiecesOneAfterAnother ==
    ASSUME NEW A, NEW s \in Seq(A), NEW sep, NEW i \in 1..Len(Cuts(s, sep)) - 1,
           NEW N \in 1..Len(Cuts(s, sep)) - i
    PROVE  FlattenSeq(Spelled(s, sep, i, N)) =
                Spaced(s, sep, Cuts(s, sep)[i], Cuts(s, sep)[i + N])
<1> DEFINE c == Cuts(s, sep)
           q == Spelled(s, sep, i, N)
           word(k) == <<Space>> \o Split(s, sep)[k]
           first(m) == [k \in 1..m |-> q[k]]
           P == {m \in 1..N : FlattenSeq(first(m)) = Spaced(s, sep, c[i], c[i + m])}
<1>1. /\ Len(s) \in Nat /\ Len(c) \in Nat /\ Len(c) >= 2
      /\ \A n \in 2..Len(c) - 1 : c[n] \in DOMAIN s /\ s[c[n]] = sep
    BY CutEnds
<1>2. DOMAIN s = 1..Len(s)
    BY LenProperties
<1>3. \A l, m \in 1..Len(c) : l < m => c[l] < c[m]
    BY CutsInOrder
<1>4. \A n \in 1..Len(c) - 1 : /\ c[n] \in 0..Len(s)
                               /\ c[n + 1] \in c[n] + 1..Len(s) + 1
                               /\ word(n) = Spaced(s, sep, c[n], c[n + 1])
    BY SpacedPiece
<1>5. q = [k \in 1..N |-> q[k]] /\ \A k \in 1..N : q[k] = word(i + k - 1)
    BY DEF Spelled
<1>6. N \in Nat /\ N \in 1..N /\ i \in Nat /\ i + N <= Len(c) /\ i \in 1..Len(c) - 1
    BY <1>1
<1>7. \A m \in 1..N : Len(first(m)) = m /\ \A k \in 1..m : first(m)[k] = q[k]
    BY <1>6
<1> HIDE DEF c, word, first, q
<1>8. 1 \in P
    <2>1. 1 \in 1..N /\ i + 1 - 1 = i /\ i \in 1..Len(c) - 1 /\ 1 \in 1..1
        BY <1>6 DEF c
    <2>2. q[1] = word(i)
        BY <1>5, <2>1
    <2>3. FlattenSeq(first(1)) = q[1]
        BY <1>7, <2>1, FlattenOne
    <2>4. word(i) = Spaced(s, sep, c[i], c[i + 1])
        BY <1>4, <1>6
    <2> QED
        BY <2>1, <2>2, <2>3, <2>4
<1>9. ASSUME NEW m \in 2..N, m - 1 \in P
      PROVE  m \in P
    <2> DEFINE n == m - 1
               e == i + n
    <2>1. n \in Nat \ {0} /\ n \in 1..N /\ m \in 1..N /\ n + 1 = m
          /\ i + m - 1 = e /\ i + m = e + 1 /\ e \in 2..Len(c) - 1 /\ e \in 1..Len(c) - 1
          /\ i \in 1..Len(c) /\ e \in 1..Len(c) /\ i < e /\ m \in 1..m
        <3>1. n \in Nat \ {0} /\ n \in 1..N /\ m \in 1..N /\ n + 1 = m /\ m \in 1..m
            BY <1>6
        <3>2. i + m - 1 = e /\ i + m = e + 1
            BY <1>6
        <3>3. e <= Len(c) - 1 /\ e \in Int /\ i < e
            BY <1>6
        <3> HIDE DEF n, e
        <3>4. Len(c) \in Int /\ i >= 1 /\ i <= Len(c) - 1
            BY <1>1, <1>6
        <3>5. e \in 2..Len(c) - 1 /\ e \in 1..Len(c) - 1 /\ i \in 1..Len(c) /\ e \in 1..Len(c)
            BY <3>3, <3>4, <1>6
        <3> QED
            BY <3>1, <3>2, <3>3, <3>5
    <2> HIDE DEF n, e
    <2>2. Len(first(n)) = n /\ Len(first(m)) = n + 1
          /\ \A k \in 1..n : first(n)[k] = first(m)[k]
        <3>1. \A k \in 1..n : k \in 1..m
            BY <2>1
        <3> QED
            BY <1>7, <2>1, <3>1
    <2>3. FlattenSeq(first(m)) = FlattenSeq(first(n)) \o first(m)[n + 1]
        BY <2>1, <2>2, FlattenMore
    <2>4. first(m)[m] = word(e)
        BY <1>5, <1>7, <2>1
    <2>5. word(e) = Spaced(s, sep, c[e], c[e + 1])
        BY <1>4, <2>1
    <2>6. FlattenSeq(first(n)) = Spaced(s, sep, c[i], c[e])
        BY <1>9 DEF n, e
    <2>7. s[c[e]] = sep /\ c[e] \in 1..Len(s) /\ c[e + 1] \in c[e] + 1..Len(s) + 1
          /\ c[i] \in 0..Len(s) /\ c[i] < c[e]
        BY <1>1, <1>2, <1>3, <1>4, <2>1
    <2>8. c[e] \in c[i] + 1..Len(s)
        BY <1>1, <2>7, SMTT(20)
    <2>9. Spaced(s, sep, c[i], c[e]) \o Spaced(s, sep, c[e], c[e + 1])
            = Spaced(s, sep, c[i], c[e + 1])
        BY <2>7, <2>8, SpacedMore
    <2> QED
        BY <2>1, <2>3, <2>4, <2>5, <2>6, <2>9
<1> HIDE DEF P
<1>10. N \in P
    BY <1>6, <1>8, <1>9, UpToInduction
<1>11. first(N) = q
    BY <1>5 DEF first
<1> QED
    BY <1>10, <1>11 DEF P, c, q

\* Joined, the pieces are the string again, from the first cut to the last, with spaces
\* for the separators.
LEMMA TailOfSpaced ==
    ASSUME NEW A, NEW s \in Seq(A), NEW sep, NEW a \in 0..Len(s), NEW b \in a + 1..Len(s) + 1
    PROVE  Tail(Spaced(s, sep, a, b)) = ReplaceAll(SubSeq(s, a + 1, b - 1), sep, Space)
<1> DEFINE B == A \cup {Space}
           f == Spaced(s, sep, a, b)
           x == SubSeq(s, a + 1, b - 1)
           y == ReplaceAll(x, sep, Space)
<1>1. Len(s) \in Nat /\ \A i \in 1..Len(s) : s[i] \in A
    BY LenProperties, ElementOfSeq
<1>2. a \in Nat /\ b \in Nat /\ a < b /\ a + 1 \in Int /\ b - 1 \in Int
      /\ \A i \in a + 1..b - 1 : s[i] \in A
    BY <1>1
<1>3. f \in Seq(B)
    BY SpacedType
<1>4. Len(f) = b - a
    BY <1>2, SpacedLength
<1>5. \A k \in 1..b - a : f[k] = IF k = 1 \/ s[a + k - 1] = sep THEN Space ELSE s[a + k - 1]
    BY DEF Spaced
<1> HIDE DEF f
<1>6. f # <<>>
    BY <1>2, <1>3, <1>4, EmptySeq
<1>7. Tail(f) \in Seq(B) /\ Len(Tail(f)) = b - a - 1
      /\ \A i \in 1..Len(Tail(f)) : Tail(f)[i] = f[i + 1]
    BY <1>3, <1>4, <1>6, HeadTailProperties
<1>8. /\ x \in Seq(A)
      /\ Len(x) = IF a + 1 <= b - 1 THEN b - 1 - (a + 1) + 1 ELSE 0
      /\ \A i \in 1..b - 1 - (a + 1) + 1 : x[i] = s[a + 1 + i - 1]
    BY <1>2, SubSeqProperties
<1> HIDE DEF x
<1>9. Len(x) = b - a - 1 /\ \A i \in 1..b - a - 1 : x[i] = s[a + i] /\ x[i] \in A
    <2>1. Len(x) = b - a - 1 /\ b - 1 - (a + 1) + 1 = b - a - 1
        BY <1>2, <1>8
    <2>2. \A i \in 1..b - a - 1 : a + 1 + i - 1 = a + i
        BY <1>2
    <2>3. \A i \in 1..b - a - 1 : x[i] = s[a + i]
        BY <1>8, <2>1, <2>2
    <2> QED
        BY <1>8, <2>1, <2>3, ElementOfSeq
<1>10. y = [i \in 1..b - a - 1 |-> IF x[i] = sep THEN Space ELSE x[i]]
    BY <1>9 DEF ReplaceAll
<1>11. y \in [1..b - a - 1 -> B] /\ \A i \in 1..b - a - 1 : y[i] = IF x[i] = sep THEN Space ELSE x[i]
    BY <1>9, <1>10
<1> HIDE DEF y, B
<1>12. b - a - 1 \in Nat
    BY <1>2
<1>13. y \in Seq(B) /\ Len(y) = b - a - 1
    <2>1. y \in Seq(B)
        BY <1>11, <1>12, SeqDef
    <2> QED
        BY <1>11, <1>12, <2>1, LenProperties
<1>14. ASSUME NEW i \in 1..b - a - 1
       PROVE  Tail(f)[i] = y[i]
    <2> DEFINE k == i + 1
    <2>1. k \in 1..b - a /\ k # 1 /\ a + k - 1 = a + i
        BY <1>2
    <2>2. Tail(f)[i] = f[k]
        BY <1>7
    <2> HIDE DEF k
    <2>3. f[k] = IF s[a + i] = sep THEN Space ELSE s[a + i]
        BY <1>5, <2>1
    <2> QED
        BY <1>9, <1>11, <2>2, <2>3
<1>15. Tail(f) = y
    BY <1>7, <1>13, <1>14, SeqEqual
<1> QED
    BY <1>15 DEF f, x, y
\* Pieces that follow each other among the words, joined.
RunIs(words, a, b, x) == Join(SubSeq(words, a, b)) = x

LEMMA JoinedRun ==
    ASSUME NEW A, NEW s \in Seq(A), NEW sep, NEW words, NEW o \in Nat,
           words \in Seq(Seq(A)),
           o + Len(Split(s, sep)) <= Len(words),
           \A n \in 1..Len(Split(s, sep)) : words[o + n] = Split(s, sep)[n],
           NEW i \in 1..Len(Cuts(s, sep)), NEW j \in 1..Len(Cuts(s, sep)), i < j
    PROVE  /\ RunIs(words, o + i, o + j - 1,
                ReplaceAll(SubSeq(s, Cuts(s, sep)[i] + 1, Cuts(s, sep)[j] - 1), sep, Space))
           /\ ReplaceAll(SubSeq(s, Cuts(s, sep)[i] + 1, Cuts(s, sep)[j] - 1), sep, Space)
                \in CombineAllForwardCombinations(words)
<1> DEFINE c == Cuts(s, sep)
           N == j - i
           a == o + i
           b == o + j - 1
           run == SubSeq(words, a, b)
           q == [n \in DOMAIN run |-> <<Space>> \o run[n]]
<1>1. /\ Len(s) \in Nat /\ Len(c) \in Nat /\ Len(c) >= 2
      /\ \A n \in 1..Len(c) : c[n] \in 0..Len(s) + 1
    BY CutEnds
<1>2. \A l, m \in 1..Len(c) : l < m => c[l] < c[m]
    BY CutsInOrder
<1>3. Len(Split(s, sep)) = Len(c) - 1
    BY SplitPieces
<1>4. Len(words) \in Nat /\ DOMAIN words = 1..Len(words)
    BY LenProperties
<1>5. /\ i \in 1..Len(c) /\ j \in 1..Len(c) /\ i \in 1..Len(c) - 1 /\ N \in 1..Len(c) - i
      /\ i + N = j /\ N \in Nat
    BY <1>1
<1>6. /\ a \in 1..Len(words) /\ b \in 1..Len(words) /\ a <= b /\ b - a + 1 = N
      /\ a \in Int /\ b \in Int
    <2>1. o + j - 1 <= Len(words)
        BY <1>1, <1>3, <1>4, <1>5
    <2> QED
        BY <1>1, <1>4, <2>1
<1>7. c[i] \in 0..Len(s) /\ c[j] \in c[i] + 1..Len(s) + 1
    <2>1. c[i] \in 0..Len(s) + 1 /\ c[j] \in 0..Len(s) + 1 /\ c[i] < c[j]
        BY <1>1, <1>2, <1>5
    <2> HIDE DEF c
    <2> QED
        BY <1>1, <2>1, SMTT(20)
<1>8. /\ run \in Seq(Seq(A)) /\ Len(run) = N
      /\ \A k \in 1..N : run[k] = words[a + k - 1]
    <2>1. \A k \in a..b : words[k] \in Seq(A)
        <3>1. \A k \in a..b : k \in 1..Len(words)
            BY <1>4, <1>6
        <3> HIDE DEF a, b
        <3> QED
            BY <3>1, ElementOfSeq
    <2>2. /\ SubSeq(words, a, b) \in Seq(Seq(A))
          /\ Len(SubSeq(words, a, b)) = IF a <= b THEN b - a + 1 ELSE 0
          /\ \A k \in 1..b - a + 1 : SubSeq(words, a, b)[k] = words[a + k - 1]
        <3> HIDE DEF a, b
        <3> QED
            BY <1>6, <2>1, SubSeqProperties
    <2> HIDE DEF a, b, N
    <2> QED
        BY <1>6, <2>2
<1>9. \A k \in 1..N : words[a + k - 1] = Split(s, sep)[i + k - 1]
    <2> SUFFICES ASSUME NEW k \in 1..N
                 PROVE  words[a + k - 1] = Split(s, sep)[i + k - 1]
        OBVIOUS
    <2> DEFINE n == i + k - 1
    <2>1. n \in 1..Len(c) - 1 /\ o + n = a + k - 1
        BY <1>1
    <2> HIDE DEF n
    <2>2. words[o + n] = Split(s, sep)[n]
        BY <1>3, <2>1
    <2> QED
        BY <2>1, <2>2 DEF n
<1>10. DOMAIN run = 1..N
    BY <1>8, LenProperties
<1> HIDE DEF run
<1>11. q = Spelled(s, sep, i, N)
    BY <1>8, <1>9, <1>10 DEF Spelled
<1> HIDE DEF q, N, c, a, b
<1>12. FlattenSeq(q) = Spaced(s, sep, c[i], c[j])
    <2>1. FlattenSeq(q) = Spaced(s, sep, c[i], c[i + N])
        BY <1>5, <1>11, PiecesOneAfterAnother DEF c
    <2> QED
        BY <1>5, <2>1
<1>13. Join(run) = Tail(FlattenSeq(q))
    BY DEF Join, q
<1>14. Tail(Spaced(s, sep, c[i], c[j])) = ReplaceAll(SubSeq(s, c[i] + 1, c[j] - 1), sep, Space)
    BY <1>7, TailOfSpaced
<1>15. Join(SubSeq(words, a, b)) \in CombineAllForwardCombinations(words)
    <2> DEFINE ab == <<a, b>>
    <2>1. /\ ab \in {p \in (DOMAIN words) \X (DOMAIN words) : p[1] <= p[2]}
          /\ Join(SubSeq(words, ab[1], ab[2])) = Join(SubSeq(words, a, b))
        BY <1>4, <1>6
    <2> QED
        BY <2>1 DEF CombineAllForwardCombinations
<1>16. RunIs(words, a, b, ReplaceAll(SubSeq(s, c[i] + 1, c[j] - 1), sep, Space))
    BY <1>12, <1>13, <1>14 DEF run, RunIs
<1> QED
    BY <1>12, <1>13, <1>14, <1>15, <1>16 DEF run, c, a, b

\* The pieces cut at a space come before those cut at a dash.
LEMMA PiecesAmongWords ==
    ASSUME NEW A, NEW s \in Seq(A)
    PROVE  /\ SplitString(s, Both) \in Seq(Seq(A))
           /\ Len(SplitString(s, Both)) = Len(Split(s, Space)) + Len(Split(s, Dash))
           /\ \A n \in 1..Len(Split(s, Space)) : SplitString(s, Both)[n] = Split(s, Space)[n]
           /\ \A n \in 1..Len(Split(s, Dash)) :
                SplitString(s, Both)[Len(Split(s, Space)) + n] = Split(s, Dash)[n]
<1> DEFINE x == Split(s, Space)
           y == Split(s, Dash)
           z == x \o y
<1>1. SplitString(s, Both) = z
    BY SplitAtBoth
<1>2. x \in Seq(Seq(A)) /\ y \in Seq(Seq(A))
    BY SplitPieces
<1> HIDE DEF x, y
<1>3. /\ z \in Seq(Seq(A)) /\ Len(z) = Len(x) + Len(y)
      /\ \A n \in 1..Len(x) + Len(y) : z[n] = IF n <= Len(x) THEN x[n] ELSE y[n - Len(x)]
    BY <1>2, ConcatProperties
<1>4. Len(x) \in Nat /\ Len(y) \in Nat
    BY <1>2, LenProperties
<1> HIDE DEF z
<1>5. \A n \in 1..Len(x) : z[n] = x[n]
    <2>1. \A n \in 1..Len(x) : n \in 1..Len(x) + Len(y) /\ n <= Len(x)
        BY <1>4
    <2> QED
        BY <1>3, <2>1
<1>6. ASSUME NEW n \in 1..Len(y)
      PROVE  z[Len(x) + n] = y[n]
    <2> DEFINE k == Len(x) + n
    <2>1. k \in 1..Len(x) + Len(y) /\ ~(k <= Len(x)) /\ k - Len(x) = n
        BY <1>4
    <2> HIDE DEF k
    <2>2. z[k] = y[n]
        BY <1>3, <2>1
    <2> QED
        BY <2>2 DEF k
<1> QED
    BY <1>1, <1>3, <1>5, <1>6 DEF x, y

\* A stretch is between two of the cuts.
LEMMA StretchBetweenCuts ==
    ASSUME NEW A, NEW s \in Seq(A), NEW sep, NEW x \in Stretches(s, sep)
    PROVE  \E i, j \in 1..Len(Cuts(s, sep)) :
                i < j /\ x = SubSeq(s, Cuts(s, sep)[i] + 1, Cuts(s, sep)[j] - 1)
<1> DEFINE c == Cuts(s, sep)
<1>1. /\ Len(s) \in Nat /\ Len(c) \in Nat
      /\ \A n \in 1..Len(c) : c[n] \in 0..Len(s) + 1
    BY CutEnds
<1>2. /\ \A l, m \in 1..Len(c) : l < m => c[l] < c[m]
      /\ \A k \in CutPlaces(s, sep) : \E n \in 1..Len(c) : c[n] = k
    BY CutsInOrder
<1>3. DOMAIN s = 1..Len(s)
    BY LenProperties
<1>4. PICK l \in 1..Len(s) + 1, r \in 0..Len(s) :
            /\ l <= r + 1
            /\ l = 1 \/ s[l - 1] = sep
            /\ r = Len(s) \/ s[r + 1] = sep
            /\ x = SubSeq(s, l, r)
    BY DEF Stretches
<1> HIDE DEF c
<1>5. l - 1 \in CutPlaces(s, sep)
    <2>1. l = 1 => l - 1 = 0
        OBVIOUS
    <2>2. l # 1 => l - 1 \in 1..Len(s)
        BY <1>1
    <2>3. l # 1 => s[l - 1] = sep
        BY <1>4
    <2> QED
        BY <1>3, <2>1, <2>2, <2>3 DEF CutPlaces
<1>6. r + 1 \in CutPlaces(s, sep)
    <2>1. r # Len(s) => r + 1 \in 1..Len(s)
        BY <1>1
    <2>2. r # Len(s) => s[r + 1] = sep
        BY <1>4
    <2> QED
        BY <1>3, <2>1, <2>2 DEF CutPlaces
<1>7. PICK i \in 1..Len(c) : c[i] = l - 1
    BY <1>2, <1>5
<1>8. PICK j \in 1..Len(c) : c[j] = r + 1
    BY <1>2, <1>6
<1>9. i < j
    <2>1. c[i] < c[j]
        BY <1>1, <1>4, <1>7, <1>8
    <2>2. j < i => c[j] < c[i]
        BY <1>2
    <2> QED
        BY <1>1, <1>7, <1>8, <2>1, <2>2
<1>10. c[i] + 1 = l /\ c[j] - 1 = r
    BY <1>1, <1>7, <1>8
<1> QED
    BY <1>4, <1>9, <1>10 DEF c

\* Wherever an input is cut at separators of one kind, the stretch between two cuts is
\* among the combinations that are compared, with spaces for the separators: no run of
\* its words is left out, also not of those cut at the second separator
\* (matching.go:198-219).
THEOREM EveryStretchAlwaysCombined == Spec => []EveryStretchCombined
<1>1. Chosen => EveryStretchCombined
    <2> SUFFICES ASSUME Chosen, NEW sep \in ToSet(Both), NEW x \in Stretches(input, sep)
                 PROVE  ReplaceAll(x, sep, Space) \in
                            CombineAllForwardCombinations(SplitString(input, Both))
        BY DEF EveryStretchCombined
    <2> DEFINE A == ToSet(input)
    <2>1. input \in Seq(A)
        BY MatchingAssumption DEF MatchingAssumption, Chosen
    <2>2. sep \in {Space, Dash}
        BY DEF ToSet, Both
    <2> HIDE DEF A
    <2> DEFINE words == SplitString(input, Both)
               ofSpace == Split(input, Space)
    <2>3. /\ words \in Seq(Seq(A)) /\ Len(words) = Len(ofSpace) + Len(Split(input, Dash))
          /\ Len(ofSpace) \in Nat /\ Len(Split(input, Dash)) \in Nat
          /\ \A n \in 1..Len(ofSpace) : words[n] = ofSpace[n]
          /\ \A n \in 1..Len(Split(input, Dash)) :
                words[Len(ofSpace) + n] = Split(input, Dash)[n]
        BY <2>1, PiecesAmongWords, SplitPieces, LenProperties
    <2> HIDE DEF words
    <2>4. PICK i, j \in 1..Len(Cuts(input, sep)) :
                i < j /\ x = SubSeq(input, Cuts(input, sep)[i] + 1, Cuts(input, sep)[j] - 1)
        BY <2>1, StretchBetweenCuts
    <2>5. PICK o \in Nat : /\ o + Len(Split(input, sep)) <= Len(words)
                           /\ \A n \in 1..Len(Split(input, sep)) :
                                words[o + n] = Split(input, sep)[n]
        <3>1. CASE sep = Space
            <4>1. /\ 0 \in Nat /\ 0 + Len(ofSpace) <= Len(words)
                  /\ \A n \in 1..Len(ofSpace) : words[0 + n] = ofSpace[n]
                BY <2>3
            <4> QED
                BY <3>1, <4>1
        <3>2. CASE sep = Dash
            <4>1. Len(ofSpace) + Len(Split(input, Dash)) <= Len(words)
                BY <2>3
            <4> QED
                BY <2>3, <3>2, <4>1
        <3> QED
            BY <2>2, <3>1, <3>2
    <2>6. ReplaceAll(x, sep, Space) \in CombineAllForwardCombinations(words)
        BY <2>1, <2>3, <2>4, <2>5, JoinedRun
    <2> QED
        BY <2>6 DEF words
<1> QED
    BY <1>1, ChosenHolds, PTL
-----------------------------------------------------------------------------
(***************************************************************************)
(* What a match in part rests on.                                          *)
(***************************************************************************)

\* With a space in the place of each space, a string is what it was.
LEMMA SpacesReplaced ==
    ASSUME NEW A, NEW x \in Seq(A)
    PROVE  ReplaceAll(x, Space, Space) = x
<1>1. x = [i \in 1..Len(x) |-> x[i]]
    BY LenProperties
<1>2. ReplaceAll(x, Space, Space) = [i \in 1..Len(x) |-> x[i]]
    BY DEF ReplaceAll
<1> QED
    BY <1>1, <1>2

\* Joined, the last of the pieces cut at a space and the first of those cut at a dash
\* are an end of the string, a space and a head of it with spaces for the dashes.
LEMMA JoinedAcross ==
    ASSUME NEW A, NEW s \in Seq(A),
           NEW i \in 1..Len(Split(s, Space)), NEW M \in 1..Len(Split(s, Dash))
    PROVE  \E e \in Ends(s, Space), h \in Heads(s, Dash) :
                Join(SubSeq(SplitString(s, Both), i, Len(Split(s, Space)) + M))
                    = e \o <<Space>> \o ReplaceAll(h, Dash, Space)
<1> DEFINE B == A \cup {Space}
           words == SplitString(s, Both)
           x == Split(s, Space)
           y == Split(s, Dash)
           c == Cuts(s, Space)
           d == Cuts(s, Dash)
           N == Len(x) - i + 1
           j == Len(x) + M
           run == SubSeq(words, i, j)
           q == [n \in DOMAIN run |-> <<Space>> \o run[n]]
           u == Spelled(s, Space, i, N)
           v == Spelled(s, Dash, 1, M)
           f == Spaced(s, Space, c[i], Len(s) + 1)
           g == Spaced(s, Dash, 0, d[M + 1])
           e == SubSeq(s, c[i] + 1, Len(s))
           h == SubSeq(s, 1, d[M + 1] - 1)
<1>1. /\ Len(s) \in Nat /\ Len(c) \in Nat /\ Len(x) = Len(c) - 1 /\ x \in Seq(Seq(A))
      /\ c[Len(c)] = Len(s) + 1
      /\ \A n \in 1..Len(x) : c[n] \in 0..Len(s)
    BY CutEnds, SplitPieces, SpacedPiece
<1>2. /\ Len(d) \in Nat /\ Len(y) = Len(d) - 1 /\ y \in Seq(Seq(A)) /\ d[1] = 0
      /\ \A n \in 1..Len(d) : d[n] \in 0..Len(s) + 1
      /\ \A m, n \in 1..Len(d) : m < n => d[m] < d[n]
    <2>1. \A n \in 1..Len(d) : d[n] \in 0..Len(s) + 1
        BY CutEnds
    <2>2. Len(d) \in Nat /\ d[1] = 0
        BY CutEnds
    <2>3. Len(y) = Len(d) - 1 /\ y \in Seq(Seq(A))
        BY SplitPieces
    <2>4. \A m, n \in 1..Len(d) : m < n => d[m] < d[n]
        BY CutsInOrder
    <2> QED
        BY <2>1, <2>2, <2>3, <2>4
<1>3. /\ words \in Seq(Seq(A)) /\ Len(words) = Len(x) + Len(y)
      /\ \A n \in 1..Len(x) : words[n] = x[n]
      /\ \A n \in 1..Len(y) : words[Len(x) + n] = y[n]
    BY PiecesAmongWords
<1>4. i \in 1..Len(x) /\ M \in 1..Len(y)
    OBVIOUS
<1> HIDE DEF words, x, y, c, d
<1>5. /\ N \in Nat \ {0} /\ M \in Nat \ {0} /\ j \in Nat /\ i \in Nat /\ i <= j /\ j - i + 1 = N + M
      /\ i \in 1..Len(c) - 1 /\ N \in 1..Len(c) - i /\ i + N = Len(c)
      /\ 1 \in 1..Len(d) - 1 /\ M \in 1..Len(d) - 1 /\ 1 + M = M + 1
      /\ M + 1 \in 1..Len(d) /\ 1 \in 1..Len(d) /\ 1 < M + 1
      /\ \A n \in i..j : n \in 1..Len(words)
    <2>1. /\ Len(x) \in Nat /\ Len(c) \in Nat /\ Len(c) = Len(x) + 1
          /\ Len(y) \in Nat /\ Len(d) \in Nat /\ Len(d) = Len(y) + 1
        BY <1>1, <1>2, LenProperties
    <2>2. /\ N \in Nat \ {0} /\ M \in Nat \ {0} /\ j \in Nat /\ i \in Nat /\ i <= j
          /\ j - i + 1 = N + M
        BY <1>4, <2>1
    <2>3. i \in 1..Len(c) - 1 /\ N \in 1..Len(c) - i /\ i + N = Len(c)
        BY <1>4, <2>1
    <2>4. /\ 1 \in 1..Len(d) - 1 /\ M \in 1..Len(d) - 1 /\ 1 + M = M + 1
          /\ M + 1 \in 1..Len(d) /\ 1 \in 1..Len(d) /\ 1 < M + 1
        BY <1>4, <2>1
    <2>5. \A n \in i..j : n \in 1..Len(words)
        <3>1. Len(words) = Len(x) + Len(y)
            BY <1>3
        <3> QED
            BY <1>4, <2>1, <3>1
    <2> QED
        BY <2>2, <2>3, <2>4, <2>5
<1>6. /\ run \in Seq(Seq(A)) /\ Len(run) = N + M
      /\ \A n \in 1..N + M : run[n] = words[i + n - 1]
    <2>1. \A n \in i..j : words[n] \in Seq(A)
        BY <1>3, <1>5, ElementOfSeq
    <2> HIDE DEF N, j
    <2>2. /\ SubSeq(words, i, j) \in Seq(Seq(A))
          /\ Len(SubSeq(words, i, j)) = IF i <= j THEN j - i + 1 ELSE 0
          /\ \A n \in 1..j - i + 1 : SubSeq(words, i, j)[n] = words[i + n - 1]
        BY <1>5, <2>1, SubSeqProperties
    <2> QED
        BY <1>5, <2>2
<1>7. DOMAIN run = 1..N + M
    BY <1>6, LenProperties
<1>8. /\ \A n \in 1..N : u[n] = <<Space>> \o x[i + n - 1]
      /\ \A n \in 1..M : v[n] = <<Space>> \o y[n]
    <2>1. \A n \in 1..M : 1 + n - 1 = n
        BY <1>5
    <2> QED
        BY <2>1 DEF Spelled, x, y
<1>9. u = [n \in 1..N |-> u[n]] /\ v = [n \in 1..M |-> v[n]]
    BY DEF Spelled
<1>10. q = [n \in 1..N + M |-> <<Space>> \o run[n]]
    BY <1>7
<1>11. Join(run) = Tail(FlattenSeq(q))
    BY DEF Join
<1> HIDE DEF run, u, v, q
<1>12. /\ \A n \in 1..Len(x) : <<Space>> \o x[n] \in Seq(B)
       /\ \A n \in 1..Len(y) : <<Space>> \o y[n] \in Seq(B)
    <2>1. \A n \in 1..Len(x) : x[n] \in Seq(A)
        BY <1>1, ElementOfSeq
    <2>2. \A n \in 1..Len(y) : y[n] \in Seq(A)
        BY <1>2, ElementOfSeq
    <2>3. <<Space>> \in Seq(B)
        OBVIOUS
    <2>4. \A z \in Seq(A) : z \in Seq(B)
        BY SeqMonotonic
    <2> HIDE DEF B
    <2>5. \A z \in Seq(A) : <<Space>> \o z \in Seq(B)
        BY <2>3, <2>4, ConcatProperties
    <2> QED
        BY <2>1, <2>2, <2>5
<1> HIDE DEF B
<1>13. u \in Seq(Seq(B)) /\ Len(u) = N /\ v \in Seq(Seq(B)) /\ Len(v) = M
    <2>1. \A n \in 1..N : i + n - 1 \in 1..Len(x)
        BY <1>1, <1>5
    <2>2. \A n \in 1..M : n \in 1..Len(y)
        BY <1>2, <1>4
    <2>3. u \in [1..N -> Seq(B)]
        BY <1>8, <1>9, <1>12, <2>1
    <2>4. v \in [1..M -> Seq(B)]
        BY <1>8, <1>9, <1>12, <2>2
    <2> HIDE DEF N
    <2>6. N \in Nat /\ M \in Nat
        BY <1>5
    <2> DEFINE C == Seq(B)
    <2>7. u \in [1..N -> C] /\ v \in [1..M -> C]
        BY <2>3, <2>4
    <2> HIDE DEF C
    <2>8. u \in Seq(C) /\ v \in Seq(C)
        BY <2>6, <2>7, SeqDef
    <2>5. u \in Seq(Seq(B)) /\ v \in Seq(Seq(B))
        BY <2>8 DEF C
    <2> QED
        BY <1>5, <2>3, <2>4, <2>5, LenProperties
<1>14. q = u \o v
    <2> DEFINE uv == u \o v
    <2>1. /\ uv \in Seq(Seq(B)) /\ Len(uv) = N + M
          /\ \A n \in 1..N + M : uv[n] = IF n <= N THEN u[n] ELSE v[n - N]
        <3> DEFINE C == Seq(B)
        <3>1. u \in Seq(C) /\ v \in Seq(C)
            BY <1>13
        <3> HIDE DEF C
        <3>2. /\ uv \in Seq(C) /\ Len(uv) = Len(u) + Len(v)
              /\ \A n \in 1..Len(u) + Len(v) : uv[n] = IF n <= Len(u) THEN u[n] ELSE v[n - Len(u)]
            BY <3>1, ConcatProperties
        <3> HIDE DEF uv, N
        <3> QED
            BY <1>13, <3>2 DEF C
    <2>2. ASSUME NEW n \in 1..N + M
          PROVE  q[n] = uv[n]
        <3>1. q[n] = <<Space>> \o words[i + n - 1]
            BY <1>6, <1>10
        <3>2. CASE n <= N
            <4>1. n \in 1..N /\ i + n - 1 \in 1..Len(x)
                BY <1>1, <1>5, <3>2
            <4>2. words[i + n - 1] = x[i + n - 1]
                BY <1>3, <4>1
            <4> HIDE DEF uv, N
            <4> QED
                BY <1>8, <2>1, <3>1, <3>2, <4>1, <4>2
        <3>3. CASE ~(n <= N)
            <4> DEFINE k == n - N
            <4>1. k \in 1..M /\ k \in 1..Len(y) /\ i + n - 1 = Len(x) + k
                <5>1. Len(x) \in Nat /\ Len(y) \in Nat
                    BY <1>1, <1>2, LenProperties
                <5> QED
                    BY <1>4, <3>3, <5>1
            <4>2. uv[n] = v[k]
                BY <2>1, <3>3
            <4> HIDE DEF uv, N, k
            <4>3. words[i + n - 1] = y[k]
                BY <1>3, <4>1
            <4> QED
                BY <1>8, <3>1, <4>1, <4>2, <4>3
        <3> QED
            BY <3>2, <3>3
    <2> HIDE DEF N, uv
    <2>3. uv = [n \in 1..N + M |-> uv[n]]
        <3>1. uv = [n \in 1..Len(uv) |-> uv[n]]
            BY <2>1, LenProperties
        <3> QED
            BY <2>1, <3>1
    <2>4. q = [n \in 1..N + M |-> q[n]]
        BY <1>10
    <2>5. q = uv
        BY <2>2, <2>3, <2>4
    <2> QED
        BY <2>5 DEF uv
<1>15. FlattenSeq(q) = FlattenSeq(u) \o FlattenSeq(v)
    <2>1. Len(u) # 0 /\ Len(v) # 0
        BY <1>5, <1>13
    <2> QED
        BY <1>13, <1>14, <2>1, FlattenConcat
<1>16. FlattenSeq(u) = f
    <2>1. FlattenSeq(u) = Spaced(s, Space, c[i], c[i + N])
        <3>1. i \in 1..Len(c) - 1 /\ N \in 1..Len(c) - i
            BY <1>5
        <3> HIDE DEF N
        <3> QED
            BY <3>1, PiecesOneAfterAnother DEF u, c
    <2> QED
        BY <1>1, <1>5, <2>1
<1>17. FlattenSeq(v) = g
    <2>1. FlattenSeq(v) = Spaced(s, Dash, d[1], d[1 + M])
        BY <1>5, PiecesOneAfterAnother DEF v, d
    <2> QED
        BY <1>2, <1>5, <2>1
<1>18. /\ c[i] \in 0..Len(s) /\ Len(s) + 1 \in c[i] + 1..Len(s) + 1
       /\ 0 \in 0..Len(s) /\ d[M + 1] \in 0 + 1..Len(s) + 1
    <2>1. c[i] \in 0..Len(s)
        BY <1>1, <1>4
    <2>2. d[1] < d[M + 1] /\ d[M + 1] \in 0..Len(s) + 1
        BY <1>2, <1>5
    <2>3. d[1] = 0 /\ Len(s) \in Nat
        BY <1>1, <1>2
    <2> QED
        BY <2>1, <2>2, <2>3
<1>19. /\ f \in Seq(B) /\ g \in Seq(B) /\ Len(f) > 0 /\ Len(g) > 0 /\ g[1] = Space
    <2>1. f \in Seq(B) /\ g \in Seq(B)
        BY <1>18, SpacedType DEF B
    <2>2. Len(f) = (Len(s) + 1) - c[i] /\ Len(g) = d[M + 1] - 0
        <3> DEFINE a == c[i]
                   b == d[M + 1]
                   t == Len(s) + 1
        <3>1. a \in Int /\ t \in Int /\ a < t /\ 0 \in Int /\ b \in Int /\ 0 < b
            BY <1>1, <1>18, SMTT(20)
        <3> HIDE DEF a, b, t
        <3>2. Len(Spaced(s, Space, a, t)) = t - a /\ Len(Spaced(s, Dash, 0, b)) = b - 0
            BY <3>1, SpacedLength
        <3>3. f = Spaced(s, Space, a, t)
            BY DEF a, t
        <3>4. g = Spaced(s, Dash, 0, b)
            BY DEF b
        <3> HIDE DEF f, g
        <3>5. Len(f) = t - a /\ Len(g) = b - 0
            BY <3>2, <3>3, <3>4
        <3> QED
            BY <3>5 DEF a, b, t
    <2>3. 1 \in 1..d[M + 1] - 0
        BY <1>1, <1>18
    <2>4. g[1] = Space
        BY <2>3 DEF Spaced
    <2> HIDE DEF f, g
    <2>5. Len(f) > 0
        BY <1>1, <1>18, <2>2, SMTT(20)
    <2>6. Len(g) > 0
        BY <1>1, <1>18, <2>2
    <2> QED
        BY <2>1, <2>4, <2>5, <2>6
<1>20. Tail(f) = ReplaceAll(SubSeq(s, c[i] + 1, Len(s) + 1 - 1), Space, Space)
    <2> DEFINE a == c[i]
               t == Len(s) + 1
    <2>1. a \in 0..Len(s) /\ t \in a + 1..Len(s) + 1
        BY <1>18
    <2> HIDE DEF a, t
    <2>2. Tail(Spaced(s, Space, a, t)) = ReplaceAll(SubSeq(s, a + 1, t - 1), Space, Space)
        BY <2>1, TailOfSpaced
    <2> QED
        BY <2>2 DEF a, t
<1>21. Tail(g) = ReplaceAll(SubSeq(s, 0 + 1, d[M + 1] - 1), Dash, Space)
    BY <1>18, TailOfSpaced
<1>22. Tail(f) = e
    <2>1. Len(s) + 1 - 1 = Len(s)
        BY <1>1
    <2>2. e \in Seq(A)
        <3>1. c[i] + 1 \in Int /\ Len(s) \in Int /\ \A n \in c[i] + 1..Len(s) : n \in 1..Len(s)
            BY <1>1, <1>18, SMTT(20)
        <3>2. \A n \in c[i] + 1..Len(s) : s[n] \in A
            BY <3>1, ElementOfSeq
        <3> QED
            BY <3>1, <3>2, SubSeqProperties
    <2> HIDE DEF e
    <2>3. ReplaceAll(e, Space, Space) = e
        BY <2>2, SpacesReplaced
    <2> QED
        BY <1>20, <2>1, <2>3 DEF e
<1>23. Tail(g) = ReplaceAll(h, Dash, Space)
    BY <1>21
<1>24. e \in Ends(s, Space)
    <2>1. i \in 1..Len(c) /\ Len(c) \in 1..Len(c) /\ i < Len(c)
        BY <1>1, <1>5, SMTT(20)
    <2>2. SubSeq(s, c[i] + 1, c[Len(c)] - 1) \in Ends(s, Space)
        BY <2>1, BetweenCutsIsStretch DEF c
    <2>3. c[Len(c)] - 1 = Len(s)
        BY <1>1
    <2> QED
        BY <2>2, <2>3
<1>25. h \in Heads(s, Dash)
    <2> DEFINE m == M + 1
    <2>1. m \in 1..Len(d) /\ 1 \in 1..Len(d) /\ 1 < m
        BY <1>5
    <2> HIDE DEF m
    <2>2. SubSeq(s, d[1] + 1, d[m] - 1) \in Heads(s, Dash)
        BY <2>1, BetweenCutsIsStretch DEF d
    <2>3. d[1] + 1 = 1
        BY <1>2
    <2> QED
        BY <2>2, <2>3 DEF m
<1> HIDE DEF e, f, g, h
<1>26. Tail(f \o g) = Tail(f) \o <<Space>> \o Tail(g)
    <2>1. Space \in B
        BY DEF B
    <2> QED
        BY <1>19, <2>1, TailOfTwo
<1>27. Join(run) = e \o <<Space>> \o ReplaceAll(h, Dash, Space)
    BY <1>11, <1>15, <1>16, <1>17, <1>22, <1>23, <1>26
<1> QED
    BY <1>24, <1>25, <1>27 DEF run, words, x

LEMMA WordsArePlain ==
    ASSUME NEW s, s \in Seq(ToSet(s)), NEW separators \in {<<Space>>, Both}
    PROVE  ToSet(SplitString(s, separators)) \subseteq PlainWords(s, separators)
<1>1. \A n \in DOMAIN separators : \A x \in ToSet(Split(s, separators[n])) :
            x \in Stretches(s, separators[n]) /\ ~Contains(x, separators[n])
    BY PiecesAreStretches
<1>2. ASSUME NEW x \in ToSet(SplitString(s, separators))
      PROVE  \E n \in DOMAIN separators : x \in ToSet(Split(s, separators[n]))
    <2>1. CASE separators = <<Space>>
        <3>1. x \in ToSet(Split(s, Space))
            BY <1>2, <2>1, SplitAtOne
        <3>2. 1 \in DOMAIN separators /\ separators[1] = Space
            BY <2>1
        <3> QED
            BY <3>1, <3>2
    <2>2. CASE separators = Both
        <3>1. x \in ToSet(Split(s, Space)) \cup ToSet(Split(s, Dash))
            BY <1>2, <2>2, WordsAtBoth
        <3>2. /\ 1 \in DOMAIN separators /\ separators[1] = Space
              /\ 2 \in DOMAIN separators /\ separators[2] = Dash
            BY <2>2 DEF Both
        <3> QED
            BY <3>1, <3>2
    <2> QED
        BY <2>1, <2>2
<1>3. ASSUME NEW x \in ToSet(SplitString(s, separators))
      PROVE  x \in PlainWords(s, separators)
    <2>2. PICK n \in DOMAIN separators : x \in ToSet(Split(s, separators[n]))
        BY <1>2
    <2> DEFINE plain(m) == {y \in Stretches(s, separators[m]) : ~Contains(y, separators[m])}
    <2>3. x \in plain(n)
        BY <1>1, <2>2
    <2>4. PlainWords(s, separators) =
                UNION {plain(m) : m \in DOMAIN separators}
        BY DEF PlainWords
    <2> HIDE DEF plain
    <2>5. x \in UNION {plain(m) : m \in DOMAIN separators}
        BY <2>2, <2>3
    <2> QED
        BY <2>4, <2>5
<1> QED
    BY <1>3

LEMMA StretchesAreCombined ==
    ASSUME NEW s, NEW separators
    PROVE  /\ \A n \in DOMAIN separators : \A x \in Stretches(s, separators[n]) :
                ReplaceAll(x, separators[n], Space) \in Combined(s, separators)
           /\ separators = Both =>
                \A e \in Ends(s, Space), h \in Heads(s, Dash) :
                    e \o <<Space>> \o ReplaceAll(h, Dash, Space) \in Combined(s, separators)
<1>1. \A n \in DOMAIN separators : \A x \in Stretches(s, separators[n]) :
            ReplaceAll(x, separators[n], Space) \in SpacedOut(s, separators[n])
    BY DEF SpacedOut
<1>2. \A e \in Ends(s, Space), h \in Heads(s, Dash) :
            e \o <<Space>> \o ReplaceAll(h, Dash, Space) \in Across(s)
    BY DEF Across
<1>3. \A n \in DOMAIN separators : SpacedOut(s, separators[n]) \subseteq Combined(s, separators)
    BY DEF Combined
<1>4. separators = Both => Across(s) \subseteq Combined(s, separators)
    BY DEF Combined
<1> QED
    BY <1>1, <1>2, <1>3, <1>4

\* Combined, the words are stretches, or two of them where those cut at a dash follow.
LEMMA WordsAreCombined ==
    ASSUME NEW A, NEW s \in Seq(A), NEW separators \in {<<Space>>, Both}
    PROVE  CombineAllForwardCombinations(SplitString(s, separators))
                \subseteq Combined(s, separators)
<1> DEFINE words == SplitString(s, separators)
           first == Split(s, Space)
           second == Split(s, Dash)
<1>1. /\ first \in Seq(Seq(A)) /\ Len(first) \in Nat /\ Len(first) = Len(Cuts(s, Space)) - 1
      /\ second \in Seq(Seq(A)) /\ Len(second) \in Nat /\ Len(second) = Len(Cuts(s, Dash)) - 1
      /\ Len(Cuts(s, Space)) \in Nat /\ Len(Cuts(s, Dash)) \in Nat
    BY SplitPieces, LenProperties, CutEnds
<1>2. /\ words \in Seq(Seq(A))
      /\ \A n \in 1..Len(first) : words[n] = first[n]
      /\ separators = <<Space>> => Len(words) = Len(first)
      /\ separators = Both => /\ Len(words) = Len(first) + Len(second)
                              /\ \A n \in 1..Len(second) : words[Len(first) + n] = second[n]
    <2>1. CASE separators = <<Space>>
        <3>1. words = first
            BY <2>1, SplitAtOne
        <3>2. separators # Both
            BY <2>1 DEF Both
        <3> HIDE DEF words
        <3> QED
            BY <1>1, <3>1, <3>2
    <2>2. CASE separators = Both
        <3>1. separators # <<Space>>
            BY <2>2 DEF Both
        <3> QED
            BY <2>2, <3>1, PiecesAmongWords
    <2> QED
        BY <2>1, <2>2
<1>3. /\ Len(first) \in Nat /\ Len(second) \in Nat
      /\ Len(words) = Len(first) \/ (separators = Both /\ Len(words) = Len(first) + Len(second))
    BY <1>1, <1>2
<1>4. words \in Seq(Seq(A))
    BY <1>2
<1>5. \A n \in DOMAIN separators : \A x \in Stretches(s, separators[n]) :
            ReplaceAll(x, separators[n], Space) \in Combined(s, separators)
    BY StretchesAreCombined
<1>6. /\ \A x \in Stretches(s, Space) : ReplaceAll(x, Space, Space) \in Combined(s, separators)
      /\ separators = Both =>
            \A x \in Stretches(s, Dash) : ReplaceAll(x, Dash, Space) \in Combined(s, separators)
    <2>1. 1 \in DOMAIN separators /\ separators[1] = Space
        BY DEF Both
    <2>2. separators = Both => 2 \in DOMAIN separators /\ separators[2] = Dash
        BY DEF Both
    <2> QED
        BY <1>5, <2>1, <2>2
<1>7. Len(words) \in Nat /\ DOMAIN words = 1..Len(words)
    BY <1>2, LenProperties
<1> HIDE DEF words, first, second
<1>8. ASSUME NEW a \in 1..Len(words), NEW b \in 1..Len(words), a <= b
      PROVE  Join(SubSeq(words, a, b)) \in Combined(s, separators)
    <2>1. CASE b <= Len(first)
        <3> DEFINE i == a
                   j == b + 1
        <3>1. i \in 1..Len(Cuts(s, Space)) /\ j \in 1..Len(Cuts(s, Space)) /\ i < j
              /\ 0 \in Nat /\ 0 + i = a /\ 0 + j - 1 = b
            BY <1>1, <1>8, <2>1
        <3>2. 0 + Len(first) <= Len(words)
            BY <1>3
        <3>3. \A n \in 1..Len(first) : words[0 + n] = first[n]
            BY <1>1, <1>2
        <3> HIDE DEF i, j
        <3>4. RunIs(words, 0 + i, 0 + j - 1,
                ReplaceAll(SubSeq(s, Cuts(s, Space)[i] + 1, Cuts(s, Space)[j] - 1), Space, Space))
            BY <1>4, <3>1, <3>2, <3>3, JoinedRun DEF first
        <3>5. SubSeq(s, Cuts(s, Space)[i] + 1, Cuts(s, Space)[j] - 1) \in Stretches(s, Space)
            BY <3>1, BetweenCutsIsStretch
        <3> QED
            BY <1>6, <3>1, <3>4, <3>5 DEF RunIs
    <2>2. CASE a > Len(first)
        <3> DEFINE o == Len(first)
                   i == a - o
                   j == b - o + 1
        <3>1. separators = Both /\ Len(words) = o + Len(second)
            BY <1>1, <1>2, <2>2, SMTT(20)
        <3>2. i \in 1..Len(Cuts(s, Dash)) /\ j \in 1..Len(Cuts(s, Dash)) /\ i < j
              /\ o \in Nat /\ o + i = a /\ o + j - 1 = b
            BY <1>1, <1>8, <2>2, <3>1, SMTT(20)
        <3>3. o + Len(second) <= Len(words)
            BY <1>1, <3>1
        <3>4. \A n \in 1..Len(second) : words[o + n] = second[n]
            BY <1>2, <3>1
        <3> HIDE DEF i, j, o
        <3>5. RunIs(words, o + i, o + j - 1,
                ReplaceAll(SubSeq(s, Cuts(s, Dash)[i] + 1, Cuts(s, Dash)[j] - 1), Dash, Space))
            BY <1>4, <3>2, <3>3, <3>4, JoinedRun DEF second
        <3>6. SubSeq(s, Cuts(s, Dash)[i] + 1, Cuts(s, Dash)[j] - 1) \in Stretches(s, Dash)
            BY <3>2, BetweenCutsIsStretch
        <3> QED
            BY <1>6, <3>1, <3>2, <3>5, <3>6 DEF RunIs
    <2>3. CASE a <= Len(first) /\ b > Len(first)
        <3> DEFINE M == b - Len(first)
        <3>1. separators = Both /\ Len(words) = Len(first) + Len(second)
            BY <1>3, <2>3
        <3>2. a \in 1..Len(first) /\ M \in 1..Len(second) /\ Len(first) + M = b
            BY <1>1, <1>8, <2>3, <3>1
        <3> HIDE DEF M
        <3>3. PICK e \in Ends(s, Space), h \in Heads(s, Dash) :
                Join(SubSeq(SplitString(s, Both), a, Len(first) + M))
                    = e \o <<Space>> \o ReplaceAll(h, Dash, Space)
            BY <3>2, JoinedAcross DEF first, second
        <3>4. words = SplitString(s, Both)
            BY <3>1 DEF words
        <3>5. e \o <<Space>> \o ReplaceAll(h, Dash, Space) \in Combined(s, separators)
            BY <3>1, StretchesAreCombined
        <3> QED
            BY <3>2, <3>3, <3>4, <3>5
    <2>4. a \in Int /\ b \in Int /\ Len(first) \in Int
        BY <1>3
    <2>5. b <= Len(first) \/ a > Len(first) \/ (a <= Len(first) /\ b > Len(first))
        BY <2>4
    <2> QED
        BY <2>1, <2>2, <2>3, <2>5
<1>9. CombineAllForwardCombinations(words) \subseteq Combined(s, separators)
    BY <1>7, <1>8 DEF CombineAllForwardCombinations
<1> QED
    BY <1>9 DEF words

\* The parts of an input that are compared with a configuration.
PartsOf(config) ==
    IF config.combine THEN Combined(input, config.separators)
                      ELSE PlainWords(input, config.separators)

WordsCompared(config, value) ==
    IF config.list THEN PlainWords(value, ListSeparators(config)) ELSE {}

ExplainedBy(config, value) ==
    \E x \in PartsOf(config) \ Excluded, y \in ({value} \cup WordsCompared(config, value)) \ Excluded :
        PartialSimilarity(x, y) >= PartialThreshold

LEMMA CloseInPart ==
    ASSUME NEW x, NEW values, NEW y \in CalculateSimilarity(x, values, TRUE)
    PROVE  y \in values /\ PartialSimilarity(x, y) >= PartialThreshold
BY DEF CalculateSimilarity, Percent

\* A match in part rests on words of the input and of the list.
LEMMA PartialHasReason ==
    ASSUME Chosen, NEW config \in Configurations,
           NEW v \in MatchedWhole(config) \cup MatchedInPart(config)
    PROVE  ExplainedBy(config, v)
<1>1. v \in FilterList(compareTo)
    <2>1. CASE v \in MatchedWhole(config)
        <3>1. PICK x \in Parts(config) : v \in CalculateSimilarity(x, FilterList(compareTo), TRUE)
            BY <2>1 DEF MatchedWhole
        <3> QED
            BY <3>1, CloseOnesListed
    <2>2. CASE v \in MatchedInPart(config)
        BY <2>2 DEF MatchedInPart
    <2> QED
        BY <2>1, <2>2
<1>2. v \in compareTo /\ v \notin Excluded
    BY <1>1 DEF FilterList
<1>3. input \in Seq(ToSet(input)) /\ v \in Seq(ToSet(v))
    BY <1>2, MatchingAssumption DEF MatchingAssumption, Chosen
<1>4. /\ config.separators \in {<<Space>>, Both}
      /\ ListSeparators(config) \in {<<Space>>, Both}
    BY DEF Configurations, ListSeparators
<1>5. Parts(config) \subseteq PartsOf(config) \ Excluded
    <2> DEFINE words == SplitString(input, config.separators)
    <2>1. CASE config.combine
        <3>1. CombineAllForwardCombinations(words) \subseteq Combined(input, config.separators)
            BY <1>3, <1>4, WordsAreCombined
        <3>2. Parts(config) = FilterList(CombineAllForwardCombinations(words))
            BY <2>1 DEF Parts
        <3> QED
            BY <2>1, <3>1, <3>2 DEF FilterList, PartsOf
    <2>2. CASE ~config.combine
        <3>1. ToSet(words) \subseteq PlainWords(input, config.separators)
            BY <1>3, <1>4, WordsArePlain
        <3>2. Parts(config) = FilterList(ToSet(words))
            BY <2>2 DEF Parts
        <3> QED
            BY <2>2, <3>1, <3>2 DEF FilterList, PartsOf
    <2> QED
        BY <2>1, <2>2
<1>6. WordsOf(v, config) \subseteq PlainWords(v, ListSeparators(config)) \ Excluded
    <2>1. ToSet(SplitString(v, ListSeparators(config))) \subseteq PlainWords(v, ListSeparators(config))
        BY <1>3, <1>4, WordsArePlain
    <2> QED
        BY <2>1 DEF WordsOf, FilterList
<1>7. CASE v \in MatchedWhole(config)
    <2>1. PICK x \in Parts(config) : v \in CalculateSimilarity(x, FilterList(compareTo), TRUE)
        BY <1>7 DEF MatchedWhole
    <2>2. PartialSimilarity(x, v) >= PartialThreshold
        BY <2>1, CloseInPart
    <2> QED
        BY <1>2, <1>5, <2>2 DEF ExplainedBy
<1>8. CASE v \in MatchedInPart(config)
    <2>1. config.list
        BY <1>8 DEF MatchedInPart
    <2>2. PICK x \in Parts(config) : CalculateSimilarity(x, WordsOf(v, config), TRUE) # {}
        BY <1>8 DEF MatchedInPart
    <2>3. PICK y : y \in CalculateSimilarity(x, WordsOf(v, config), TRUE)
        BY <2>2
    <2>4. y \in WordsOf(v, config) /\ PartialSimilarity(x, y) >= PartialThreshold
        BY <2>3, CloseInPart
    <2>5. y \in WordsCompared(config, v) \ Excluded
        BY <1>6, <2>1, <2>4 DEF WordsCompared
    <2> QED
        BY <1>5, <2>4, <2>5 DEF ExplainedBy
<1> QED
    BY <1>7, <1>8

LEMMA PartialResultsExplained ==
    ASSUME Tried, NEW r \in found, r.partial
    PROVE  ExplainedBy(Configs[use][stage], r.value)
<1> DEFINE config == Configs[use][stage]
<1>1. use \in DOMAIN Configs /\ stage \in 1..Len(Configs[use]) /\ found = GetMatches(config)
    <2>1. stage # 0 /\ stage \in 0..Len(Configs[use]) /\ use \in DOMAIN Configs
        BY DEF Tried
    <2>2. Len(Configs[use]) \in Nat
        BY <2>1, ConfigsType
    <2>3. stage > 0 /\ stage \in 1..Len(Configs[use])
        BY <2>1, <2>2
    <2> QED
        BY <2>1, <2>3 DEF Tried
<1>2. config \in Configurations
    BY <1>1, ConfigsType
<1> HIDE DEF config
<1>3. r \in AllMatches(config)
    BY <1>1 DEF GetMatches, CleanMatchResults, AllMatches, WholeMatches
<1>4. r \notin WholeMatches
    <2>1. \A v : Result(v, FALSE).partial = FALSE
        BY DEF Result
    <2>2. \A q \in WholeMatches : \E v : q = Result(v, FALSE)
        BY DEF WholeMatches
    <2> QED
        BY <2>1, <2>2
<1>5. r \in GetPartialMatches(config)
    BY <1>3, <1>4 DEF AllMatches
<1>6. PICK v \in MatchedWhole(config) \cup MatchedInPart(config) : r = Result(v, TRUE)
    BY <1>5 DEF GetPartialMatches
<1>7. r.value = v
    BY <1>6 DEF Result
<1>8. Chosen
    BY DEF Tried
<1>9. ExplainedBy(config, v)
    BY <1>2, <1>8, PartialHasReason
<1> QED
    BY <1>7, <1>9 DEF config

\* However the strings are cut and the words combined, a match in part rests on a part of
\* the input and on the value, or on a word of it where words are compared, neither of them
\* excluded: words without the separator they were cut at or, where words are combined,
\* stretches of the input, two of them at most (matching.go:45-58, 77-107, 198-219).
THEOREM PartialAlwaysExplained == Spec => []PartialExplained
<1>1. Tried => PartialExplained
    <2> SUFFICES ASSUME Tried, NEW r \in found, r.partial
                 PROVE  ExplainedBy(Configs[use][stage], r.value)
        BY DEF PartialExplained, ExplainedBy, PartsOf, WordsCompared
    <2> QED
        BY PartialResultsExplained
<1> QED
    BY <1>1, TriedHolds, PTL

-----------------------------------------------------------------------------
(***************************************************************************)
(* A string that is in the list as it is.                                  *)
(***************************************************************************)

\* What go-edlib says of a string and itself, and of different ones.
ClosestToItself ==
    \A x \in Inputs \cap UNION CompareLists :
        /\ Similarity(x, x) >= Threshold
        /\ \A y \in UNION CompareLists : y # x => Similarity(x, y) < Similarity(x, x)

ExactMatchFound ==
    (stage > 0 /\ input \in compareTo /\ input # <<>>) =>
        stage = 1 /\ \E r \in found : r.value = input

LEMMA ExactAmongValues ==
    ASSUME ClosestToItself, Chosen, input \in compareTo, input # <<>>, NEW config
    PROVE  input \in ValuesFound(config)
<1> DEFINE closer == {w \in compareTo : Percent(input, w, FALSE) > Percent(input, input, FALSE)}
<1>1. /\ input \in Inputs \cap UNION CompareLists
      /\ \A y \in compareTo : y \in UNION CompareLists
    BY DEF Chosen
<1>2. \A y \in compareTo : Similarity(input, y) \in Nat
    BY <1>1, MatchingAssumption DEF MatchingAssumption
<1>3. \A y \in compareTo : ~(Similarity(input, y) > Similarity(input, input))
    <2> SUFFICES ASSUME NEW y \in compareTo
                 PROVE  ~(Similarity(input, y) > Similarity(input, input))
        OBVIOUS
    <2>1. y # input => Similarity(input, y) < Similarity(input, input)
        BY <1>1 DEF ClosestToItself
    <2> QED
        BY <1>2, <2>1
<1>4. closer = {}
    BY <1>3 DEF Percent
<1>5. Cardinality(closer) < Limit
    <2>1. Cardinality(closer) = 0
        BY <1>4, FS_EmptySet
    <2>2. Limit \in Nat \ {0}
        BY MatchingAssumption DEF MatchingAssumption
    <2> QED
        BY <2>1, <2>2
<1>6. Percent(input, input, FALSE) >= Threshold
    BY <1>1 DEF ClosestToItself, Percent
<1>7. input \in CalculateSimilarity(input, compareTo, FALSE)
    BY <1>5, <1>6 DEF CalculateSimilarity
<1> QED
    BY <1>7 DEF ValuesFound

\* If no other string is as similar to one as it is to itself, what is looked for and is
\* in the list is found with the first configuration already, whatever else is in the
\* list and however few results are kept (matching.go:20-36, 131-168).
THEOREM ExactMatchAlwaysFound == ClosestToItself => (Spec => []ExactMatchFound)
<1> SUFFICES ASSUME ClosestToItself
             PROVE  Spec => []ExactMatchFound
    OBVIOUS
<1>1. Tried /\ Init => ExactMatchFound
    BY DEF Init, ExactMatchFound
<1>2. Tried /\ ExactMatchFound /\ [Next]_vars => ExactMatchFound'
    <2> SUFFICES ASSUME Tried, ExactMatchFound, [Next]_vars
                 PROVE  ExactMatchFound'
        OBVIOUS
    <2>1. CASE UNCHANGED vars
        BY <2>1 DEF ExactMatchFound, vars
    <2>2. CASE NextStage
        <3>1. /\ found = {} /\ stage < Len(Configs[use]) /\ stage' = stage + 1
              /\ found' = GetMatches(Configs[use][stage + 1])
              /\ UNCHANGED <<use, input, compareTo>>
            BY <2>2 DEF NextStage
        <3> SUFFICES ASSUME input \in compareTo, input # <<>>
                     PROVE  stage' = 1 /\ \E r \in found' : r.value = input
            BY <3>1 DEF ExactMatchFound
        <3>2. stage = 0
            <4>1. stage \in 0..Len(Configs[use])
                BY DEF Tried
            <4> QED
                BY <3>1, <4>1 DEF ExactMatchFound
        <3>3. use \in DOMAIN Configs /\ Chosen
            BY DEF Tried
        <3>4. 1 \in 1..Len(Configs[use]) /\ stage + 1 = 1
            BY <3>2, <3>3, ConfigsType
        <3> DEFINE config == Configs[use][stage + 1]
        <3>5. config \in Configurations
            BY <3>3, <3>4, ConfigsType
        <3> HIDE DEF config
        <3>6. input \in ValuesFound(config)
            BY <3>3, ExactAmongValues
        <3>7. \E r \in GetMatches(config) : r.value = input
            BY <3>3, <3>5, <3>6, ValuesOfMatches
        <3> QED
            BY <3>1, <3>4, <3>7 DEF config
    <2> QED
        BY <2>1, <2>2 DEF Next
<1> QED
    BY TriedHolds, <1>1, <1>2, PTL DEF Spec
=============================================================================

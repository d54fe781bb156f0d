------------------------------ MODULE Matching ------------------------------
(***************************************************************************)
(* Fuzzy matching (internal/algorithms/matching.go) as the address lists   *)
(* use it: "de" for streets with one configuration (de.go:206-220), both   *)
(* for cities (si.go:117-131), and "si" for streets with four, one after   *)
(* the other until something is found (si.go:254-293).                     *)
(*                                                                         *)
(* A string is a sequence of symbols, so that it can be cut at separators. *)
(* How similar two strings are is left to go-edlib.                        *)
(***************************************************************************)
EXTENDS Integers, SequencesExt

CONSTANTS
    Inputs,         \* the strings looked for
    CompareLists,   \* the lists of strings they are looked for in, as sets
    Space, Dash,    \* the separators (there is also a slash)
    Excluded,       \* PartialExcludeWords; no caller sets them
    Threshold, PartialThreshold, Limit, \* 80 and 80 percent, 10 results
    Similarity(_, _), PartialSimilarity(_, _)   \* in percent

ASSUME MatchingAssumption ==
    /\ {Threshold, PartialThreshold, Limit} \subseteq Nat \ {0}
    /\ \A x \in Inputs \cup UNION CompareLists : x \in Seq(ToSet(x))
    /\ \A x \in Inputs, y \in UNION CompareLists :
            {Similarity(x, y), PartialSimilarity(x, y)} \subseteq Nat

VARIABLES
    use,        \* what is looked for, and where
    input,
    compareTo,
    stage,      \* the configurations tried
    found       \* the result of GetMatches

vars == <<use, input, compareTo, stage, found>>

Both == <<Space, Dash>>

Whole == [partial |-> FALSE, list |-> FALSE, combine |-> FALSE, separators |-> <<Space>>]

\* The configurations GetMatches is called with, one after the other.
Configs ==
    [siStreets |->
        <<Whole,
          [Whole EXCEPT !.partial = TRUE],
          [partial |-> TRUE, list |-> TRUE, combine |-> FALSE, separators |-> Both],
          [partial |-> TRUE, list |-> TRUE, combine |-> TRUE, separators |-> Both]>>,
     deStreets |-> <<[Whole EXCEPT !.partial = TRUE, !.combine = TRUE]>>,
     cities |-> <<[partial |-> TRUE, list |-> TRUE, combine |-> FALSE, separators |-> Both]>>]

\* The compare list is cut at the separators of the input, but for cities, where
\* PartialCompareListSeparators is left at its default.
ListSeparators(config) == IF use = "cities" THEN <<Space>> ELSE config.separators

Init ==
    /\ use \in DOMAIN Configs
    /\ input \in Inputs
    /\ compareTo \in CompareLists
    /\ stage = 0
    /\ found = {}

-----------------------------------------------------------------------------
(***************************************************************************)
(* Cutting strings.                                                        *)
(***************************************************************************)

\* The numbers of a set, each at the place its rank gives it.
InOrder(S) ==
    [n \in 1..Cardinality(S) |-> CHOOSE i \in S : Cardinality({j \in S : j <= i}) = n]

\* Where a string is cut, its ends included.
Cuts(s, sep) == InOrder({0, Len(s) + 1} \cup {i \in DOMAIN s : s[i] = sep})

\* strings.Split
Split(s, sep) ==
    LET cuts == Cuts(s, sep)
    IN [n \in 1..(Len(cuts) - 1) |-> SubSeq(s, cuts[n] + 1, cuts[n + 1] - 1)]

SplitString(s, separators) ==
    FlattenSeq([n \in DOMAIN separators |-> Split(s, separators[n])])

\* strings.Join
Join(words) == Tail(FlattenSeq([n \in DOMAIN words |-> <<Space>> \o words[n]]))

PairsOnly(words) ==             \* mutant: i < j
    {Join(SubSeq(words, ij[1], ij[2])) :
        ij \in {p \in (DOMAIN words) \X (DOMAIN words) : p[1] < p[2]}}

\* The runs of words, those cut at one separator followed by those at the next.
CombineAllForwardCombinations(words) ==
    {Join(SubSeq(words, ij[1], ij[2])) :
        ij \in {p \in (DOMAIN words) \X (DOMAIN words) : p[1] <= p[2]}}

EverythingKept(strings) == strings  \* mutant: no filter

FilterList(strings) == strings \ Excluded

-----------------------------------------------------------------------------
(***************************************************************************)
(* Matching.                                                               *)
(***************************************************************************)

Percent(x, y, partial) == IF partial THEN PartialSimilarity(x, y) ELSE Similarity(x, y)

\* The best of a list, as FuzzySearchSet finds them, and of these the good ones.
\* (Which of several equally good ones the limit spares is left out: it spares all.)
CalculateSimilarity(x, values, partial) ==
    LET Closer(v) == {w \in values : Percent(x, w, partial) > Percent(x, v, partial)}
    IN {v \in values \ {<<>>} :
            /\ Cardinality(Closer(v)) < Limit
            /\ Percent(x, v, partial) >= (IF partial THEN PartialThreshold ELSE Threshold)}

Result(v, partial) ==
    [value |-> v, similarity |-> Percent(input, v, partial), partial |-> partial]

Parts(config) ==
    LET words == SplitString(input, config.separators)
    IN FilterList(IF config.combine THEN CombineAllForwardCombinations(words)
                                    ELSE ToSet(words))

WordsOf(v, config) == FilterList(ToSet(SplitString(v, ListSeparators(config))))

\* A part of the input matches a string of the list.
MatchedWhole(config) ==
    UNION {CalculateSimilarity(part, FilterList(compareTo), TRUE) : part \in Parts(config)}

\* A part of the input matches a part of a string of the list.
MatchedInPart(config) ==
    {v \in FilterList(compareTo) :
        /\ config.list
        /\ \E part \in Parts(config) :
                CalculateSimilarity(part, WordsOf(v, config), TRUE) # {}}

\* The similarity reported is that of the whole strings all the same.
GetPartialMatches(config) ==
    {Result(v, TRUE) : v \in MatchedWhole(config) \cup MatchedInPart(config)}

FirstKept(results) ==           \* mutant: similarities not compared
    {r \in results : \A q \in results : q.value = r.value => (q.partial \/ ~r.partial)}

\* Of the results for a value, the first of the best: whole matches come first.
CleanMatchResults(results) ==
    {r \in results : \A q \in results : q.value = r.value =>
        \/ q.similarity < r.similarity
        \/ q.similarity = r.similarity /\ (q.partial \/ ~r.partial)}

GetMatches(config) ==
    CleanMatchResults(
        {Result(v, FALSE) : v \in CalculateSimilarity(input, compareTo, FALSE)}
        \cup (IF config.partial THEN GetPartialMatches(config) ELSE {}))

NextStage ==
    /\ found = {} /\ stage < Len(Configs[use])
    /\ stage' = stage + 1
    /\ found' = GetMatches(Configs[use][stage + 1])
    /\ UNCHANGED <<use, input, compareTo>>

Next == NextStage

Spec == Init /\ [][Next]_vars

-----------------------------------------------------------------------------
(***************************************************************************)
(* Properties.                                                             *)
(***************************************************************************)

\* A value found as a whole and in part is reported in part if that is strictly better.
Better(v, whole, part) ==
    IF v \in whole \cap part /\ PartialSimilarity(input, v) <= Similarity(input, v)
    THEN Result(v, FALSE) ELSE Result(v, v \in part)

\* Everything found, as a whole or in part and however often, is reported, once and
\* with the better of its similarities, and nothing else is (matching.go:19-40, 170-196).
BestOfEach ==
    stage > 0 =>
        LET config == Configs[use][stage]
            whole == CalculateSimilarity(input, compareTo, FALSE)
            part == IF config.partial THEN MatchedWhole(config) \cup MatchedInPart(config)
                                      ELSE {}
        IN found = {Better(v, whole, part) : v \in whole \cup part}

\* What the search of "si" finds with one configuration the later ones would have
\* found as well, so that stopping at the first loses no street that a stricter
\* configuration sees, and the last finds something if any does (si.go:254-293).
LaterStagesFindMore ==
    \A n \in DOMAIN Configs[use] : n >= stage =>
        {r.value : r \in found} \subseteq {r.value : r \in GetMatches(Configs[use][n])}

\* The stretches of a string between two separators of a kind, or its ends.
Stretches(s, sep) ==
    {SubSeq(s, lr[1], lr[2]) :
        lr \in {p \in (1..(Len(s) + 1)) \X (0..Len(s)) :
                    /\ p[1] <= p[2] + 1
                    /\ p[1] = 1 \/ s[p[1] - 1] = sep
                    /\ p[2] = Len(s) \/ s[p[2] + 1] = sep}}

\* Wherever an input is cut at separators of one kind, the stretch between two cuts
\* is among the combinations, its separators replaced by spaces
\* (matching.go:198-219).
EveryStretchCombined ==
    \A sep \in ToSet(Both) : \A x \in Stretches(input, sep) :
        ReplaceAll(x, sep, Space) \in
            CombineAllForwardCombinations(SplitString(input, Both))

\* The stretches up to a cut, and from a cut on.
Heads(s, sep) ==
    {SubSeq(s, 1, r) : r \in {n \in 0..Len(s) : n = Len(s) \/ s[n + 1] = sep}}

Ends(s, sep) ==
    {SubSeq(s, l, Len(s)) : l \in {n \in 1..(Len(s) + 1) : n = 1 \/ s[n - 1] = sep}}

\* Stretches between cuts, without a separator left in them.
PlainWords(s, separators) ==
    UNION {{x \in Stretches(s, separators[n]) : ~Contains(x, separators[n])} :
                n \in DOMAIN separators}

SpacedOut(s, sep) == {ReplaceAll(x, sep, Space) : x \in Stretches(s, sep)}

\* Where the words cut at a dash follow those cut at a space.
Across(s) ==
    {e \o <<Space>> \o ReplaceAll(h, Dash, Space) : e \in Ends(s, Space), h \in Heads(s, Dash)}

\* Stretches with spaces for separators, two of them at most.
Combined(s, separators) ==
    (UNION {SpacedOut(s, separators[n]) : n \in DOMAIN separators})
    \cup (IF separators = Both THEN Across(s) ELSE {})

\* A match in part rests on a part of the input that is close to the value or, if the
\* configuration compares words with words, to a word of it, none of them excluded:
\* where words are not combined a word, and where they are never more than stretches of
\* the input, two of them at most (matching.go:45-58, 77-107, 198-219).
PartialExplained ==
    \A r \in found : r.partial =>
        LET config == Configs[use][stage]
            parts == IF config.combine THEN Combined(input, config.separators)
                                       ELSE PlainWords(input, config.separators)
            words == IF config.list THEN PlainWords(r.value, ListSeparators(config)) ELSE {}
        IN \E x \in parts \ Excluded, y \in ({r.value} \cup words) \ Excluded :
                PartialSimilarity(x, y) >= PartialThreshold
=============================================================================

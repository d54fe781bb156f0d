------------------------------ MODULE ListMatch ------------------------------
(***************************************************************************)
(* Looking for an address in the indexes of a country's list: the loops of *)
(* CityStreetCheck and the two other checks (internal/listmatcher/si/si.go *)
(* and de/de.go), and what they need of algorithms/matching.go.            *)
(*                                                                         *)
(* "de" looks at everything.  "si" bounds each of its loops, and stops     *)
(* early where it has found a near-perfect match (similarity 0.95).  The   *)
(* model asks what bounds and early exits may cost.                        *)
(*                                                                         *)
(* Similarity is abstracted to what the code tells apart: whether a match  *)
(* is near-perfect, and the least permissive of the four configurations of *)
(* "si" that finds it.  A near-perfect match passes the first of them,     *)
(* whose threshold is lower (cmd/main.go:100).                             *)
(***************************************************************************)
EXTENDS SequencesExt

CONSTANTS
    Cities, Codes, Streets, \* normal forms in the indexes
    Inputs,                 \* number of streets the input was normalized to
    MaxMatches,             \* 50 matches in total
    MaxCodes,               \* 10 postal codes of a city
    MaxPerCode,             \* 20 matches of a postal code
    MaxPerStreet,           \* 10 matches of a street of the input
    MaxStreets,             \* 5000 streets of a postal code
    CandidateLists,         \* the cities GetMatches can find, best first
    CodeLists, StreetLists, \* what an entry of an index can hold
    Gradings                \* how well streets of the input and listed ones agree

Near == 0       \* similarity of at least 0.95
Never == 5      \* no configuration finds it; 1 to 4: found by the nth

Candidate == [city : Cities, near : BOOLEAN]

ASSUME ListMatchAssumption ==
    /\ {Inputs, MaxMatches, MaxCodes, MaxPerCode, MaxPerStreet, MaxStreets} \subseteq Nat \ {0}
    /\ CandidateLists \subseteq Seq(Candidate)
    /\ CodeLists \subseteq Seq(Codes)
    /\ StreetLists \subseteq Seq(Streets)
    /\ Gradings \subseteq [1..Inputs -> [Streets -> Near..Never]]

VARIABLES
    country,    \* which of the two
    codesOf,    \* cityPostalCode
    streetsOf,  \* postalCodeStreet
    grade,      \* of each street of the input and each listed one
    candidates, \* cityCandidates
    city,       \* position in candidates
    code,       \* position in the codes of that city
    matches,    \* what CityStreetCheck has collected
    pc

input == <<country, codesOf, streetsOf, grade, candidates>>
vars == <<input, city, code, matches, pc>>

Match == [city : Cities, code : Codes, street : Streets, near : BOOLEAN]

TypeOK ==
    /\ country \in {"de", "si"}
    /\ codesOf \in [Cities -> Seq(Codes)]
    /\ streetsOf \in [Codes -> Seq(Streets)]
    /\ grade \in Gradings
    /\ candidates \in Seq(Candidate)
    /\ city \in 1..(Len(candidates) + 1)
    /\ code \in Nat \ {0}
    /\ matches \in Seq(Match) /\ (country = "si" => Len(matches) <= MaxMatches)
    /\ pc \in {"search", "sent"}

Init ==
    /\ country \in {"de", "si"}
    /\ codesOf \in [Cities -> CodeLists]
    /\ streetsOf \in [Codes -> StreetLists]
    /\ grade \in Gradings
    /\ candidates \in CandidateLists
    /\ city = 1 /\ code = 1
    /\ matches = <<>>
    /\ pc = "search"

\* A bound, which only "si" has.  ("de" reports a street in all its spellings,
\* which are one here.)
Cut(s, n) ==
    IF country = "si" THEN SubSeq(s, 1, IF Len(s) < n THEN Len(s) ELSE n) ELSE s

-----------------------------------------------------------------------------
(***************************************************************************)
(* PostalCodeStreetCheck, and the other check a postal code is put to.     *)
(***************************************************************************)

\* The first configuration that finds a street.
Stage(i, s) == IF grade[i][s] = Near THEN 1 ELSE grade[i][s]

\* The streets GetMatches gives for the i-th street of the input: for "si" those
\* of the first configuration that finds any.  The search keeps ten per call,
\* the best, which the bounds that follow make invisible.
Found(i, streets) ==
    {s \in ToSet(streets) :
        /\ grade[i][s] # Never
        /\ country = "si" => \A t \in ToSet(streets) : Stage(i, s) <= Stage(i, t)}

WorstFirst(i, o) ==             \* mutant: < instead of >
    \A m, n \in DOMAIN o : m < n => grade[i][o[m]] >= grade[i][o[n]]

\* Sorted by similarity, which a better grade stands for; equals come in any
\* order, as a map is iterated.
BestFirst(i, o) ==
    \A m, n \in DOMAIN o : m < n => grade[i][o[m]] <= grade[i][o[n]]

\* The loop over the candidates of a street, which "si" leaves at a near one.
Kept(i, o) ==
    LET near == {n \in DOMAIN o : grade[i][o[n]] = Near}
    IN IF country = "si" /\ near # {} THEN Cut(SubSeq(o, 1, Min(near)), MaxPerStreet)
       ELSE Cut(o, MaxPerStreet)

PerStreet(i, streets) ==
    LET orders == {o \in SetToSeqs(Found(i, streets)) : BestFirst(i, o)}
    IN {[n \in DOMAIN o |-> [street |-> o[n], near |-> grade[i][o[n]] = Near]] :
            o \in {Kept(i, o) : o \in orders}}

\* The results PostalCodeStreetCheck can have, the input's streets in their order.
PostalCodeStreetCheck(z) ==
    LET streets == Cut(streetsOf[z], MaxStreets)
        upTo[i \in 0..Inputs] ==
            IF i = 0 THEN {<<>>}
            ELSE {r \o more : r \in upTo[i - 1], more \in PerStreet(i, streets)}
    IN upTo[Inputs]

\* PostalCodeCityCheck: the cities found that have the postal code, all of them.
PostalCodeCityCheck(z) ==
    {c \in Cities : z \in ToSet(codesOf[c])
                        /\ \E n \in DOMAIN candidates : candidates[n].city = c}

-----------------------------------------------------------------------------
(***************************************************************************)
(* CityStreetCheck.                                                        *)
(***************************************************************************)

CodesToCheck(n) == Cut(codesOf[candidates[n].city], MaxCodes)

Room == country = "si" => Len(matches) < MaxMatches

OverTheTop(found) == Cut(found, MaxPerCode)     \* mutant: no check in the innermost loop

Added(found) == Cut(Cut(found, MaxPerCode), MaxMatches - Len(matches))

StopsWithoutMatch(added) ==     \* mutant: break where nothing was found
    country = "si" /\ added = <<>>

\* A near-perfect street in a near-perfect city ends the search in that city.
EarlyExit(added) ==
    /\ country = "si"
    /\ candidates[city].near
    /\ \E n \in DOMAIN added : added[n].near

NextCity == city' = city + 1 /\ code' = 1

CheckCode ==
    /\ pc = "search" /\ city <= Len(candidates) /\ Room
    /\ code <= Len(CodesToCheck(city))
    /\ \E found \in PostalCodeStreetCheck(CodesToCheck(city)[code]) :
        LET added == Added(found)
        IN /\ matches' = matches \o
                [n \in DOMAIN added |->
                    [city |-> candidates[city].city, code |-> CodesToCheck(city)[code],
                     street |-> added[n].street, near |-> candidates[city].near /\ added[n].near]]
           /\ IF EarlyExit(added) THEN NextCity ELSE code' = code + 1 /\ UNCHANGED city
    /\ UNCHANGED <<input, pc>>

LeaveCity ==
    /\ pc = "search" /\ city <= Len(candidates) /\ Room
    /\ code > Len(CodesToCheck(city))
    /\ NextCity
    /\ UNCHANGED <<input, matches, pc>>

Send ==
    /\ pc = "search"
    /\ city > Len(candidates) \/ ~Room
    /\ pc' = "sent"
    /\ UNCHANGED <<input, city, code, matches>>

Next == CheckCode \/ LeaveCity \/ Send

Spec == Init /\ [][Next]_vars

-----------------------------------------------------------------------------
(***************************************************************************)
(* Properties.                                                             *)
(***************************************************************************)

StreetMatched(z) == <<>> \notin PostalCodeStreetCheck(z)

\* No city has more postal codes than "si" looks at.
FewCodes == country = "si" => \A c \in Cities : Len(codesOf[c]) <= MaxCodes

\* The three flags agree, whatever the bounds cut off, in whatever order equal
\* matches come: city and street match if and only if for some postal code both
\* other checks match; "if" needs FewCodes (si.go:140-211, 240-333, 374-390).
FlagsAgree ==
    pc = "sent" =>
        /\ \A z \in {matches[n].code : n \in DOMAIN matches} :
            /\ StreetMatched(z)
            /\ \A n \in DOMAIN matches :
                matches[n].code = z => matches[n].city \in PostalCodeCityCheck(z)
        /\ (FewCodes /\ \E z \in Codes : PostalCodeCityCheck(z) # {} /\ StreetMatched(z))
                => matches # <<>>

\* Bounds and early exits never hide a near-perfect match from a result with room
\* left, provided that one postal code has room for what all of the input's
\* streets may give (si.go:149-206, 300-331).
NearMatchReported ==
    (pc = "sent" /\ Room /\ Inputs * MaxPerStreet <= MaxPerCode) =>
        \A n \in DOMAIN candidates :
            (candidates[n].near /\ \E z \in ToSet(CodesToCheck(n)), i \in 1..Inputs :
                \E s \in ToSet(Cut(streetsOf[z], MaxStreets)) : grade[i][s] = Near)
            => \E m \in DOMAIN matches : matches[m].near /\ matches[m].city = candidates[n].city
=============================================================================

# Verification of openPAQ

openPAQ answers `GET /api/v1/check` with five flags that say how well street,
city, postal code and country of an address fit together. It asks a list of
addresses in memory (built from ClickHouse) and the Nominatim API, and keeps
answers in memcached. This directory holds TLA+ models of its concurrent and
fault-prone parts, the TLC configurations that check them, and proofs of the
results that matter most.

    tlc -config Limiter.cfg OutboundLimiter.tla           # one of the runs below
    tlapm CheckHandlerProofs.tla                          # one of the eight proof modules

`PROJECT.json` lists components, runs, mutants, hazards, findings, theorems, and
for every definition the lines of the source it stands for. Paths below are
relative to the repository.

## Inventory

| Component | State | Operations | Talks to |
|---|---|---|---|
| Outbound rate limiter (`internal/nominatim/limiter.go`) | queue of waiters, times of recent grants, one-place wake channel, timer | `Wait` by any number of goroutines, `cancel`, one goroutine in `run`/`process` | called before every HTTP request to Nominatim |
| Nominatim lookup (`handler.go`, `check.go`, `nominatim-request.go`) | per lookup: results and errors of three checks, one channel each, a goroutine per language | `Handle`, `CityStreetCheck`, `PostalCodeCityCheck`, `PostalCodeStreetCheck`, `request` | limiter, Nominatim, the HTTP handler through a channel |
| Address list lookup (`internal/listmatcher/handler.go`, `de/de.go`, `si/si.go`) | per lookup: results of three checks | `Handle` and the checks | indexes, the HTTP handler through a channel and the context |
| Address list index (`de/database.go`, `si/database.go`, `buildMatchingLists`) | three maps, built at start, read-only afterwards | two queries, three loops | ClickHouse |
| HTTP handler and cache (`internal/httpserver.go`) | per request: flags, matches, error, context; shared: memcached, two metrics per user | `checkHandler`, `eval`, `checkCache`, `putCache` | both lookups, memcached, the client |
| Authentication (`CheckJwt`) | none of its own | one middleware | HTTP handler |
| Address update (`scripts/update_slovenian_addresses.py`) | staging and main table in ClickHouse | create, load, delete, insert, drop | ClickHouse, and through it the index at the next start |
| Service start and configuration (`internal/service.go`, `cmd/main.go`) | configuration; the indexes live as long as the process | `NewService`, `Register`, `Start` | ClickHouse, HTTP server |
| Fuzzy matching (`internal/algorithms/matching.go`) | none | `GetMatches` | lookups, go-edlib |
| Normalization, HAProxy, documentation | none of the service's | | |

What is hard, and what makes each component correct:

* **Limiter** - grants race cancellations, signals race the loop, the queue is
  filtered from two sides. Correct: never over budget, in order, nobody lost,
  nobody starved, no budget wasted.
* **Nominatim lookup** - errors of concurrent calls are joined, answers come in
  either order, the context ends in the middle. Correct: an error is an error
  whoever ends last; the reply combines the three answers; no goroutine leaks.
* **List lookup** - the same without errors, cancelled by a handler that has already
  got what it wants.
* **Index** - several spellings share a normal form and two queries must agree.
  Correct: a street is found under its code and under no other, and a code under a city has streets.
* **HTTP handler** - two sources race, with errors, a deadline and a client that may leave;
  requests for one address race for the cache. Correct: flags agree with the matches
  shown, a perfect reply wins, a false flag means that everybody was heard, only answers
  are cached, and the metrics do not drift.
* **Update** - five queries without a transaction, on a table in memory, against a
  server that deletes later. Correct: success means landed, and nothing is lost.
* **Start** - two queries to a table that may be in the middle of an update, and change between them.
  Correct: what no update touches is found in both indexes.
* **Fuzzy matching** - four configurations in turn, three ways to match, results
  merged by value. Correct: the best result of each value, once; a looser
  configuration loses nothing.

## Modules

    RateGate          what callers rely on from a rate limiter
      ^ implemented by
    OutboundLimiter   limiter.go                            (OutboundLimiterProofs)
      ^ its liveness is what a fair API call assumes in
    NominatimLookup   handler.go, check.go, nominatim-request.go
      |                                                     (NominatimLookupProofs)
      v implements
    PairLookup        a source: one reply, partial only when the context has ended
      ^ instantiated per source and request by
    CheckHandler      httpserver.go        (MCCheckHandler, CheckHandlerProofs)
      ^ implemented by
    CheckWithList     CheckHandler, with in the place of one source
      |               ListLookup  (listmatcher/handler.go)
      |                                    (MCCheckWithList, CheckWithListProofs)

    Matching          matching.go, the configurations of de.go and si.go
                                           (MCMatching, MatchingProofs)
    ListMatch         the loops of si.go, de.go             (MCListMatch, ListMatchProofs)
    ListIndex         database.go, buildMatchingLists       (MCListIndex, ListIndexProofs)

    AddressUpdate     update_slovenian_addresses.py  (MCAddressUpdate, AddressUpdateProofs)
      ^ extended, together with ListIndex, by
    AddressService    Register, buildMatchingLists   (MCAddressService, AddressUpdateProofs)

Definitions whose comment says "mutant" are wrong versions of the one that
follows. Nothing uses them; `PROJECT.json` pairs each with the property that
notices the difference.

### OutboundLimiter, RateGate

One action per critical section of the mutex and per channel operation. A waiter is
identified with its call of `Wait`; `pc` is where the call is (`signal` between
the append and the send on `wake`, `select` parked, `cancel` before taking the
mutex again). The queue is a set ordered by `arrival`, because all the code does with
it is append, filter and pop the front. `process` and what `run` does with its
result are one action: a token sent in between stays in the channel, and the
loop takes it there. Contexts are read without the mutex, so `ContextDone` may
fall anywhere; one that ends between the filter and the pop of `process` is the
same as one that ended just before. Time is discrete; only the age of each grant is
kept, up to `Window`, at which the code forgets it.

`RateGate` has neither queue nor loop: `Admit(G)` lets through a group of calls that
stay, oldest first, if the window has room. `ImplementsGate` is
the refinement with `admitted <- granted`, `abandoned <- ctxDone`.

### NominatimLookup, PairLookup

`stage`, `todo` and `found` are the goroutine of each check, `language` the
goroutines of its current request: a search call, then a call with parameters, of
which both must fail to make an error (`check.go:70-82`). An API call is one step,
at the moment its outcome is known, and may only succeed while the context lives
(limiter and client both take it). Matches are reduced to the countries they
lie in; which results match is left open. If the city/street matches already
have the input's postal code, both postal checks answer from them
(`StartPostal`). `PostalCodeCityCheck` looks at its two results together, which
is the same as one after the other, as a failure drops both.

`PairLookup` is what the HTTP handler assumes of a source: exactly one reply, and one
that lacks an answer (`whole = FALSE`) only after the context has ended.

### CheckHandler

Uses `PairLookup` for each source of each request. `Admit` and `Refuse` are the
arrival: `CheckJwt` and the length checks. `Refusals` lists the statuses a request can be
turned away with; a refusal touches neither metrics nor sources, because gin runs no
handler after `Abort` and the deferred function is installed after the length checks.

`TakeError`, `TakePerfect`, `TakePartial` and `SeeExpiry` are the cases of the select;
`TakeNominatim` is the path without a list, which waits whatever the context does.
A send to the cache may fail, memcached may evict at any time, and `Add` keeps
what is there. `Store` and `RespondOK` are two steps: another request may be served from the
cache before the client whose answer it is has got it. `KeyOf` stands for `createHash`. `eval` decides the flags
from booleans that are set exactly when the list of matches is not empty, so the
model keeps the lists only, as sets of countries. The writes of one handler to its own
variables are one step each; the shared state is the cache, which is read and
written by single requests to memcached, and the metrics.

Three sets tell apart what "the request has ended" can mean. `expired`: its context is done,
because the client closed the connection (`Leave`) or the deadline of three minutes passed
(`TimeUp`). `lost`: nothing written reaches the client any more, because it left or the
server's write timeout of two minutes passed (`WriteTimesOut`), which the handler does not
notice. `received`: the response got through. `AtDeadline` relates the two clocks: where
the write timeout is no longer than the deadline, it has passed when the deadline does, as it
started earlier. The source a handler has called goes on after the handler is
done (`Working`).

### CheckWithList, ListLookup

`ListLookup` is `Handle` of the list matcher with its three checks. `CheckWithList`
puts it where `CheckHandler` has its abstract "list" source, for one request: the lookup's context
is the one the handler cancels, and what it sends is what the handler receives. `HandlerImplemented`
says that the system is still a `CheckHandler`, fairness included: the list implements
`PairLookup` when used this way.

### AddressUpdate

One action per query of a run. `Faults` selects what can go wrong: `query`
(an error is reported, the effect may have happened, an INSERT may be partial),
`crash`, `restart` (the Memory table comes back empty), `late` (the server queues a
DELETE, executes it for the rows it was issued for, reads staging only then,
and waits while there is none), `overlap`. The last three are properties of
ClickHouse and of the operator, not of the repository, and marked external. Rows
are identified by file and place, so duplicates are two rows.

### AddressService

`ListIndex` for "si" next to the runs of the script, on one table: `table` is what the columns that the
service reads hold in `main`, whatever step a run is at. `AddressOf` gives each place of each file its
address. Either of the two queries may be answered at any step, and the indexes live until the service
is restarted.

### ListIndex

`table` is the address table, and `TableChanges` may replace it at any time, also between the two queries:
`streetTable` and `cityTable` are what each of them has seen. `StreetEntries` and `CityEntries` are
the two SELECTs, for "si" with their WHERE and with the settlement's name in the place of a missing street.
An entry is read per step, those that ORDER BY leaves equal in any order. The normalizers are the
parameters `Norm`, `FormsOf` and `NameOf`; their only assumed property is that a normal form of a code is its own
normal form. A code may be unusable (`Invalid`), a street may have several normal forms or none. `normalizer.Street` and `normalizer.City` of
both countries never return an error, so that the branches for one are left out. The streets of a code are
a set, as all the searches do with their list is match against it; the codes of a name are a sequence, to which "de" appends
a city's code without looking whether it is there. An index entry with nothing in
it is the same as none. The "si" index is the case in which city and region of every
row coincide. A city without a first letter ends the process with a panic (`BuildLetters`), as does a query that fails;
`RestartService` starts it again, from a state in which nothing is kept.

### Matching

`GetMatches` as an operator on a configuration: the whole input against the list, parts of
the input against the list, parts against parts. Strings are sequences of symbols, so that
`Split`, `SplitString` and `CombineAllForwardCombinations` can be defined by what they do. How
similar two strings are is a parameter, as is which of them are cut off by the limit of
`FuzzySearchSet`: the model keeps those with fewer than `Limit` better ones. Lists of results are sets; that the first of
equals survives in `cleanMatchResults` means that a whole match, appended first, beats an equal
partial one, and a strictly better partial one beats the whole. `BestOfEach` states this from the values found, without a
look at how results are merged. `PartialExplained` says what may be the reason of a partial match: a word of the input or,
where words are combined, a stretch of it between two cuts, or an end cut at a space followed by a beginning cut at a
dash (`Across`), which is where the words of the second separator follow those of the first. `Excluded` is
`PartialExcludeWords`, which no caller in the repository sets. `Configs` holds the configurations of the three callers; `NextStage` is one
call, and the search of `si` makes up to four. Two separators stand for the code's three.
A string is cut where a separator starts that overlaps no earlier cut; `InOrder` lists a set of places by
their rank, because the prover knows nothing of the community modules' `SetToSortSeq`.

### ListMatch

The loops of `CityStreetCheck`, one action per postal code, with `PostalCodeStreetCheck` as
an operator that gives every result it can have: equal matches come in any order, since
`cleanMatchResults` iterates a map. `grade` abstracts similarity: near-perfect (0.95), or
the first of the four configurations of `si` that finds the street. That later ones find it as
well is `LaterStagesFindMore` of `Matching`. `Cut` is a bound
for `si` and nothing for `de`, so both countries are checked with the same properties.
`PostalCodeStreetCheck` has room for `MaxPerStreet` matches for each street of the input;
with more than two streets in the input (at 10 and 20) a near-perfect one may be cut off by
`MaxPerCode`, which is why `NearMatchReported` asks for `Inputs * MaxPerStreet <= MaxPerCode`.

## Runs

| Run | Instance | What it shows |
|---|---|---|
| `Limiter` | 3 calls, 2 per window of 2 ticks | safety, order, `EveryWaitReturns` and `ImplementsFairGate` under every interleaving and cancellation |
| `Lookup` | 1 country, 2 languages, 2 streets | error joining, combination, unreachable Nominatim, no goroutine left, implements `PairLookup` |
| `HandlerWithList` | 1 request; the list finds anything at home, Nominatim also abroad | the race of both sources with the list's own goroutines inside, and what of their matches the client receives; implements `CheckHandler` |
| `HandlerCache` | 2 requests of one user with one key, one with a list and one without, with tokens | what gets into the cache and stays there, the metrics, and an answer on both ways |
| `UpdateSequential` | 3 runs, files of 1 and 2 batches, no restarts | success means landed; nothing goes missing unreported |
| `ServiceStarts` | 2 overlapping runs, all faults, files with and without feature_ids and without rows | what no file replaces stays, and is found in both indexes of every service of si, which builds them at any step of the runs; 1.6 million states |
| `FuzzyMatching` | all inputs of up to 4 symbols, lists of two names, all three uses, a similarity that prefers equal beginnings in part | the better result of each value, later configurations, combinations, partial matches |
| `ListMatch` | 2 cities, 3 codes, 3 streets, 2 streets in the input; the bounds scaled down to 3, 2, 2, 1, 2 | flags agree, near-perfect matches are not hidden, for si and de |
| `IndexBuild` | 3 spellings of 2 codes and an unusable one, streets with one normal form, two and none, 3 names; 43 tables of up to 3 rows, one replacing another at any time | both indexes, every order, and what two queries of a changing table can agree on |
| `LookupErrorLost`, `HandlerUnreachable`, `IndexSpellings` | smallest instances | counterexamples, see Findings |

Why the bounds are enough. Limiter: with two grants per window and three calls there
is a full window with a call behind it, two calls competing for the last grant, a
cancellation between them, and a grant that leaves the window before another of the
same window; two ticks separate old and young grants. Lookup: two languages are what it takes for one's success to race the other's
failure, two streets for a second request after a success. Handler: properties
relate the two sources of one request, or two requests and one key. In `HandlerCache`
one of the two has a list and the other has not, so that both branches meet in one cache: their countries differ, and the
keys collide because `createHash` concatenates its fields. Update: a third run is
needed for a DELETE that gets stuck behind a dropped staging table to be executed
during another run; two that overlap are enough for one to drop the other's staging, and the proof covers any number. Service: one is enough,
as services do not see each other; its three codes are one that no file spells otherwise, with two streets, and one in two spellings. Matching: four symbols are two words and a separator of each kind,
or three words; `Limit = 1` makes the best of a list displace the other; `SameStart` gives whole and part
different similarities, either of which may be the better. Index: two spellings of one code with two streets overwrite each other;
a third row adds a second code or name, and a table of other rows is what the second query may see. List search: every
bound cuts something: the third code of a city, the third street of a code, the second match of a
street, the fourth in total. Most properties are also proved for every value of the
constants (see Proofs).

No run uses symmetry: most check liveness, which it would make unsound. Deadlock is checked for the limiter, whose clock never stops; the
others end. The batch of `ServiceStarts` has two rows and its files have one or none, so that batches are short;
that of `UpdateSequential` has one, so that a file of two is loaded in two steps.

## Fairness

* Goroutines that can run are run: weak fairness on the steps of each call,
  check, language and handler, and on the limiter's loop. A call that has not been made
  need not be made, and no context ever has to end.
* The clock advances (`WF(Tick)`).
* An API call ends: the HTTP client has a timeout (`handler.go:29`), and the limiter
  serves every call (`EveryWaitReturns`).
* In `CheckHandler` a source that was asked replies: this is `PairLookup!FairSpec`, which
  `NominatimLookup` is checked to implement. For the list `CheckWithList` assumes only that its goroutines run, and
  `HandlerImplemented` derives the reply.
* Nothing is assumed of clients, memcached, the clocks of the handler, the update script or the service,
  whose properties are all safety properties.

## Proofs

All invariants of the passing runs, and all their action properties, are also theorems (the type invariants of modules whose runs do not list them as well) for every value of the
constants. The assumptions are the `ASSUME`s of the modules, which
TLC evaluates on every run, and the hypotheses named below.

`OutboundLimiterProofs`, for every finite set of calls, every capacity and window:

* `TypeCorrect` (`TypeOK`).
* `BudgetKept` (`WindowBound`). Not inductive by itself, as the loop counts the grants it
  *remembers*. The invariant `Remembered` says that every grant younger than a window
  is remembered and that there are at most `Capacity` of those.
* `GrantNotLeaked` (`ErrNeverGranted`) and `WaitersKept` (`NoLostWaiter`). A
  grant could go to a call that has already returned an error if that call were still
  queued; `GaveUp` says that calls that returned an error or are about to cancel have a
  context that is done, which is what the filter of the queue tests.
* `WakeupKept` (`NoLostWakeup`), from `Process` leaving an empty queue when it blocks and
  `Signal` always leaving a token.
* `OrderKept` (`ServedInOrder`): only `Process` grants, oldest first among those who still
  want it, and who has a live context and no grant is in the queue (`NoLostWaiter`).
* `NoBudgetWasted` (`WorkConserving`), by `TimerInv`: while the timer is armed the budget is
  used up, and no remembered grant leaves the window before it fires.
* `GateImplemented` (`ImplementsGate`, the safety part of `ImplementsFairGate`): initial states map to initial states, and every step to a step
  of the gate or a stutter. `Process` is the interesting one: the group it grants is
  admissible for the gate because what the loop remembers is what the gate calls recent,
  and because `Queued` (granted calls are not in the queue, queued calls have
  arrived) makes its live queue the gate's waiting calls.

`NominatimLookupProofs`, for any countries, languages and streets, by `LookupInv`: a request's error
is that of some language (`SomeLanguageFailed`), what `Handle` has taken is what was answered (`Heard`), and as long
as no call has succeeded the city/street check is at its first request or has answered with an error (`Unreached`). From it
`LookupAnswersCombined`, `UnreachableAlwaysReported` (with at least one street, as the finding
below shows) and `NoLanguageOverlooked`. `SourceImplemented` is the safety part of
`ImplementsSource`: every step is one of `PairLookup` or a stutter.

`CheckHandlerProofs`, for any requests, keys and users, any of them with a list:

* `FlagsAlwaysExplained`, by `FlagsInv`: `source` agrees with `details` in every state, and so do all
  entries of the cache; combining two replies keeps this because the flags of a union are the union of the flags.
* `CacheHoldsOnlyAnswers` and `CachedAnswersAreWhole`, by `CacheInv`: an entry is the answer of a request with this key that is sent,
  or about to be sent, with a 200, and so is what was served from it, also when the entry is dropped and stored again. That the request had
  heard its sources in full, or has lost its client, is `RaceInv` of that request, again with `WriteTimeout <= Deadline`.
* `PerfectAlwaysWins` and `FreshAnswersAreWhole`, by `RaceInv`, a conjunction of
  what holds of a request while its sources are `Unheard`, while the handler is `Listening`, of its `Verdict`,
  of how it `Concluded`, and of the clocks (`Lasts`). `FreshAnswersAreWhole`
  assumes `WriteTimeout <= Deadline`; the values are `service.go:82` and `httpserver.go:200`.
* `DetailsAlwaysFromSources`, which no run checks: the matches of a fresh answer are those of one source that had all flags by
  itself, or exactly those of all sources heard, in whatever order. By `DetailsInv`: while the handler
  collects, `details` is what it has taken put `Together`. This needs `RaceInv` as well, as what it has taken is read
  where the source keeps it, and must not change any more.
* `MetricsAreRight`, by counting: the requests of a user are split into those inside and those that have left.

`CheckWithListProofs`: `SystemImplementsHandler`, every step of the system is a step of `CheckHandler` or
a stutter, by `ListInv`; the interesting step is the list's last, which must be a reply that
`PairLookup` allows. So what is proved of the handler holds of the system: `SystemPerfectWins`, `SystemFlagsExplained` and
`SystemFreshAnswersAreWhole` are the handler's theorems and this. `SystemDeliversFromChecks` (`DeliveredFromChecks`, again with
`WriteTimeout <= Deadline`) follows a match from the check that found it to the client: a whole reply of the list holds
what its three checks answered, for good (`WholeReplyKept`); a client that receives a fresh false flag has an answer for which all sources
were heard in full (`FreshAnswersWhole`); and such an answer is made of exactly their replies (`DetailsFromSources`).

`AddressUpdateProofs`, for any number of runs and any files:

* `AddressesKept` (`UntouchedKept`), for all faults. A DELETE takes its ids from whatever is in
  staging when it is executed; the invariant `StagedFromFiles` says that all rows that are ever there come
  from files.
* `CompleteMeansLanded` (`FileLanded`) and `NothingMissing` (`MissingOnlyWhileStaged`), for faults without restarts
  and overlap (`Undisturbed`). `LandInv`: one run at a time, whose rows are in staging before the table,
  and no queued DELETE concerns them. `MissingInv`: between a run's INSERT and the next one's start, what is still in staging is in
  the table in a row that no queued DELETE concerns (`Covered`); so a DELETE that is executed late may only remove what is about to be inserted again.
* `ServiceBuildsIndexes`: the service next to the runs is a behaviour of `ListIndex`, as a step of the script is a `TableChanges` or a stutter.
  This needs `FromFiles` (all rows come from a file or the initial table).
* `UntouchedAlwaysFound` (`UntouchedFound`), by `SeenInv`: as `UntouchedKept` holds whenever a query is answered, both responses
  hold these addresses. What the indexes make of a response is `StreetsInv` and `CodesInv` of `ListIndexProofs`, which
  hold of the service by `ServiceBuildsIndexes`.

`ListIndexProofs`, for any tables, however they change, and any normalizers with the assumed property: by `StreetsInv` and `CodesInv`, what
the index holds is what the entries read so far of the response give, and the rest is in `todo`. For `CityCodesAlwaysHaveStreets` a code
none of whose streets is without normal forms has streets as soon as one of its entries is read, whatever overwrites
them (`AllHaveForms`).

`ListMatchProofs`, for any cities, codes, streets and orders of equal matches, and any positive bounds. The properties
speak of the end of the search, so `IInv` says what holds on the way, of the codes that are behind the loops (`Passed`):

* `MatchesReal`: all that is collected matches the other two checks as well.
* `NothingMissed`: as long as nothing is collected, no code that was passed has a street. A code may
  only be dropped when something was found before.
* `NearCollected`: as long as there is room, the near-perfect streets that were passed are collected.
* `Finished`: the search ends at the last city or for lack of room.

With `TypeOK` it is inductive, and gives `SearchTypeCorrect`, `FlagsAlwaysAgree` and `NearMatchAlwaysReported`. The step that
collects needs what one call of `PostalCodeStreetCheck` guarantees of any of its results (`StreetCheckProperties`):
either all are empty or none is, and each has a near-perfect match if there is one, whatever the bounds cut off.

`MatchingProofs`, for any strings, lists, thresholds and similarities:

* `BestAlwaysReported` (`BestOfEach`): the results for a value before they are cleaned are one as a whole, one in part, or both
  (`ResultsOfValue`), and of these exactly the better survives (`BestOfMatches`).
* `PartialAlwaysExplained` (`PartialExplained`), by `Tried`: what is found is what the configuration tried last
  finds. A piece between two neighbouring cuts is a stretch without a separator (`WordsArePlain`). A run of the words of both separators is a
  run of those of one, and so a stretch (`StretchesAreCombined`), or an end of the first's followed by a beginning of the second's
  (`JoinedAcross`); together `WordsAreCombined`.
* `LaterStagesAlwaysFindMore` (`LaterStagesFindMore`): the values found depend on whether the configuration matches in part and on
  its parts (`ValuesOfMatches`), and a configuration that is `Looser` has all parts of the stricter one (`MoreParts`), single words being among
  the combinations (`WordsCombined`).
* `EveryStretchAlwaysCombined` (`EveryStretchCombined`): a stretch between two cuts is a run of neighbouring pieces (`StretchBetweenCuts`), which
  stand one after the other in the words of all separators (`PiecesAmongWords`), and joining them gives the stretch with a space for each
  separator (`JoinedRun`).
* `ExactMatchAlwaysFound`, which no run checks: a value that equals the input is found by the first configuration, although
  `Limit` cuts the search set, if equality is the closest there is (`ClosestToItself`). Of the measure in use this is go-edlib's matter,
  and so a hypothesis.

These are about strings of any length, and so need induction. The library's induction theorems cannot be used, as they take an operator as a
parameter; `UpToInduction` says the same of a *set* of numbers, from a least counterexample (`LeastNatural`), and is used for
the order of the cuts (`OrderProperties`), for the concatenation of sequences (`FlattenSeqIs`) and for the length of a run of pieces
(`PiecesOneAfterAnother`).

Only model-checked: all liveness, and `ImplementsFairGate`, `ImplementsSource` and `HandlerImplemented` as far as they are
about fairness. Both are out of the prover's reach, as is ENABLED. No module uses RECURSIVE.

## Findings

* **An error is overwritten** (`LookupErrorLost`). `handler.go:72` and `77` both assign
  the error of their own answer. If one postal check fails and the other has nothing to
  ask, or got through, whichever answers last decides; a 200 with false flags can follow,
  contrary to the changelog of 5.0.14.
* **A hanging Nominatim is a 200** (`HandlerUnreachable`). When the context ends `checkHandler` leaves its
  select without an error (`httpserver.go:248`), and stores what the list alone gave, without
  expiry. The client whose request it was does not see it: it has left, or the write timeout has passed
  (`FreshAnswersWhole` holds). But the next client with the same key receives it from the cache, also when Nominatim is back.
* **Streets overwritten in the index** (`IndexSpellings`). `database.go` looks the earlier streets up
  under the code as spelled and stores them under its normal form; where these
  differ (a German code that lost its leading zero) only the last street is kept.

Met while modelling, without a run of their own:

* `HAPROXY.md:79` promises retries with backoff on 429; `nominatim-request.go:40`
  returns any status but 200 as an error, and nothing repeats the call.
* An API call that fails while its sibling for the same language succeeds leaves no trace
  (`check.go:82`): the reply of one is taken for the reply of both.
* An expired token without a usable subject is answered with two JSON bodies (`httpserver.go:358-376`); a valid one
  with a 400, after which `SubjectFromToken` is set and `Next` called all the same, although `Abort` keeps the handler from running.
* A cached answer echoes the country code as the client wrote it, a computed one in
  lower case (`httpserver.go:141`, `164`).
* The cache key is built from the list's normal forms, without separators; Nominatim is asked with the input as it
  came (`types.go:61`). Two inputs with one key may deserve different answers.
* The forward combinations run over the words of all separators in one sequence, so that some of
  them join words that are not next to each other in the input (`matching.go:201-217`). `PartialExcludeWords` is never set by the service.
* A DELETE of the update script that fails is only a warning, meant for an empty table
  (line 251); on any other table the INSERT that follows leaves addresses twice.
* A city of the Slovenian list with more than ten postal codes is only searched in ten
  (`si.go:150`), so a street of the city may not be found although both postal checks match;
  `FlagsAgree` is stated for the others.
* A restart of the server between DELETE and INSERT empties the Memory table: the
  addresses are gone, no query fails, and the script prints "Update Complete!". With
  `Faults = {"restart"}` TLC refutes `FileLanded` in one run of the script.
* A service that starts between DELETE and INSERT serves without the addresses of the file until it is
  restarted; its two indexes may disagree, so that a code found under a city has no streets. `UntouchedFound` is about the
  others, and `CityCodesHaveStreets` says when a code has streets all the same.
* A street without a normal form replaces the streets of its code by none if its row spells the code otherwise than in its normal form
  (`database.go:93-111`); the exception in `CityCodesHaveStreets` is about it.

## Not modelled

* Normalization: regular expressions on strings without state; the models take normal forms as parameters.
* Reading the environment and setting up the server: sequential, done once, and a failure ends the process.
* HAProxy: configuration of another program. A 429 is one of the failures of an API call.
* The documentation site. The JavaScript in the repository is all there (`docs/`): vendored copies of lunr's
  tokenizers and of Swagger UI, which the service only delivers.
* Logging, JSON, the other metrics, the row counts the update script prints, the spelling of what is shown.

## Plan

1. `ListMatch` over the indexes that `ListIndex` builds, and as the checks of `ListLookup`.
2. `CheckHandler` with `NominatimLookup` in the place of the other source, and the limiter below it.
3. Cache keys as sequences of fields, with the collisions of `createHash`.
4. The normalizers over bounded strings: that a normal form is its own normal form, which `ListIndex` assumes.

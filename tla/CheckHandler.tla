---------------------------- MODULE CheckHandler ----------------------------
(***************************************************************************)
(* GET /api/v1/check (CheckJwt and checkHandler, internal/httpserver.go),  *)
(* for several requests that share the cache and the metrics.              *)
(*                                                                         *)
(* A request that is let in and misses the cache asks the address list and *)
(* Nominatim at the same time, and takes the first reply on which all five *)
(* flags are true; failing that it combines what the two found.  Where no  *)
(* list exists for the country it waits for Nominatim alone.  An error of  *)
(* Nominatim is a 500; anything else is added to the cache, and then sent  *)
(* with a 200.                                                             *)
(*                                                                         *)
(* The sources are PairLookups, each with the request's context.  Two      *)
(* clocks run: the server's write timeout, since the request was read, and *)
(* the deadline of the context, which the handler sets later.              *)
(***************************************************************************)
EXTENDS Integers, FiniteSets

Pairs == {"cityStreet", "postalCity", "postalStreet"}

CONSTANTS
    Requests,   \* the HTTP requests
    Users,      \* subjects of valid tokens
    UserOf,     \* the subject of each request's token, should it be valid
    UseJWT,     \* the server asks for tokens
    WriteTimeout, Deadline, \* in seconds
    Listed,     \* those whose country has an address list
    Keys,       \* cache keys: the hashes of normalized inputs
    KeyOf,      \* createHash of each request's input
    Countries,  \* the countries in which a match can lie
    Own,        \* the country of a request's input: its own, where they differ
    Matches     \* what a source can find: the countries of each pair's matches

ASSUME CheckHandlerAssumption ==
    /\ IsFiniteSet(Requests)
    /\ UserOf \in [Requests -> Users]
    /\ UseJWT \in BOOLEAN
    /\ WriteTimeout \in Nat /\ Deadline \in Nat
    /\ Listed \subseteq Requests
    /\ KeyOf \in [Requests -> Keys]
    /\ Own \in Countries
    /\ Matches \subseteq [Pairs -> SUBSET Countries]

Sources == {"list", "nominatim"}

VARIABLES
    pc,         \* where each request is in checkHandler
    lost,       \* requests whose client no longer hears the server
    expired,    \* those whose context has ended: by the client, or the deadline
    active,     \* the gauge activeRequests, by user
    served,     \* the counter processed_requests, by user
    reply,      \* what a source has replied to a request
    taken,      \* the sources whose reply a request has received
    details,    \* debugDude: the matches reported, by pair
    source,     \* the five flags reported
    failed,     \* NominatimError is set
    response,   \* what was sent to the client
    received,   \* the requests whose response has reached the client
    cache       \* memcached, by key

clocks == <<lost, expired>>
metrics == <<active, served>>
result == <<details, source, failed>>

vars == <<pc, lost, expired, active, served, reply, taken, details, source, failed,
          response, received, cache>>

Nothing == [none |-> TRUE]
NoMatches == [p \in Pairs |-> {}]

\* The handler calls cancel when it has what it needs, and at its end.
ContextDone(r) == r \in expired \/ pc[r] \notin {"new", "lookup", "collect"}

\* A source as the handler sees it.
Lookup(s, r) == INSTANCE PairLookup
    WITH MayFail <- (s = "nominatim"),
         ctxDone <- ContextDone(r),
         reply <- reply[s][r]

Replies == [match : Matches, error : BOOLEAN, whole : BOOLEAN]

Flag == {"street", "city", "postalCode", "cityToPostalCode", "countryCode"}

\* eval: the flags that a set of matches supports.
Eval(match) ==
    {f \in Flag :
        \/ f = "street" /\ match["cityStreet"] \cup match["postalStreet"] # {}
        \/ f = "city" /\ match["postalCity"] \cup match["cityStreet"] # {}
        \/ f = "postalCode" /\ match["postalStreet"] \cup match["postalCity"] # {}
        \/ f = "cityToPostalCode" /\ match["postalCity"] # {}
        \/ f = "countryCode" /\ Own \in UNION {match[p] : p \in Pairs}}

Perfect(match) == Eval(match) = Flag

Results == [details : [Pairs -> SUBSET Countries], source : SUBSET Flag]

Responses == {Nothing} \cup [status : {400, 401, 500}]
    \cup {[status |-> 200, cached |-> b, result |-> x] : b \in BOOLEAN, x \in Results}

TypeOK ==
    /\ pc \in [Requests ->
                {"new", "lookup", "collect", "evaluated", "stored", "done", "refused"}]
    /\ lost \subseteq Requests
    /\ expired \subseteq Requests
    /\ active \in [Users -> Int]
    /\ served \in [Users -> Nat]
    /\ reply \in [Sources -> [Requests -> Replies \cup {Nothing}]]
    /\ taken \in [Requests -> SUBSET Sources]
    /\ details \in [Requests -> [Pairs -> SUBSET Countries]]
    /\ source \in [Requests -> SUBSET Flag]
    /\ failed \subseteq Requests
    /\ response \in [Requests -> Responses]
    /\ received \subseteq Requests
    /\ cache \in [Keys -> Results \cup {Nothing}]

Init ==
    /\ pc = [r \in Requests |-> "new"]
    /\ lost = {}
    /\ expired = {}
    /\ active = [u \in Users |-> 0]
    /\ served = [u \in Users |-> 0]
    /\ reply = [s \in Sources |-> [r \in Requests |-> Nothing]]
    /\ taken = [r \in Requests |-> {}]
    /\ details = [r \in Requests |-> NoMatches]
    /\ source = [r \in Requests |-> {}]
    /\ failed = {}
    /\ response = [r \in Requests |-> Nothing]
    /\ received = {}
    /\ cache = [k \in Keys |-> Nothing]

-----------------------------------------------------------------------------
(***************************************************************************)
(* Responses.  What is written reaches the client if it still listens.     *)
(***************************************************************************)

Respond(r, x) ==
    /\ response' = [response EXCEPT ![r] = x]
    /\ received' = IF r \in lost THEN received ELSE received \cup {r}

\* The deferred function: whatever way the handler is left.
Counted(r) ==
    IF UseJWT THEN /\ active' = [active EXCEPT ![UserOf[r]] = @ - 1]
                   /\ served' = [served EXCEPT ![UserOf[r]] = @ + 1]
              ELSE UNCHANGED metrics

Finish(r, x) ==
    /\ Respond(r, x)
    /\ Counted(r)
    /\ pc' = [pc EXCEPT ![r] = "done"]
    /\ UNCHANGED <<clocks, reply, taken, result>>

-----------------------------------------------------------------------------
(***************************************************************************)
(* Arrival: the token, the lengths of the parameters.                      *)
(***************************************************************************)

\* CheckJwt: what a token that is not good enough is answered with.
Refusal ==
    [absent |-> 401, malformed |-> 400, badSignature |-> 401, expired |-> 401,
     badSubject |-> 400, unverifiable |-> 500]

TooLong == 400

Refusals == {TooLong} \cup (IF UseJWT THEN {Refusal[t] : t \in DOMAIN Refusal} ELSE {})

RefuseInside(r, x) ==                       \* mutant: counted before it is checked
    /\ pc[r] = "new"
    /\ Respond(r, x)
    /\ pc' = [pc EXCEPT ![r] = "refused"]
    /\ active' = [active EXCEPT ![UserOf[r]] = @ + 1]
    /\ UNCHANGED <<clocks, served, reply, taken, result, cache>>

\* No handler, no metrics: Abort, or a return before the defer.
Refuse(r, x) ==
    /\ pc[r] = "new"
    /\ Respond(r, x)
    /\ pc' = [pc EXCEPT ![r] = "refused"]
    /\ UNCHANGED <<clocks, metrics, reply, taken, result, cache>>

Admit(r) ==
    /\ pc[r] = "new"
    /\ pc' = [pc EXCEPT ![r] = "lookup"]
    /\ active' = IF UseJWT THEN [active EXCEPT ![UserOf[r]] = @ + 1] ELSE active
    /\ UNCHANGED <<clocks, served, reply, taken, result, response, received, cache>>

-----------------------------------------------------------------------------
(***************************************************************************)
(* The cache lookup.                                                       *)
(***************************************************************************)

Hit(r) ==
    /\ pc[r] = "lookup"
    /\ cache[KeyOf[r]] # Nothing
    /\ Finish(r, [status |-> 200, cached |-> TRUE, result |-> cache[KeyOf[r]]])
    /\ UNCHANGED cache

\* A cache that cannot be reached, or holds what cannot be decoded, is a miss.
Miss(r) ==
    /\ pc[r] = "lookup"
    /\ pc' = [pc EXCEPT ![r] = "collect"]
    /\ UNCHANGED <<clocks, metrics, reply, taken, result, response, received, cache>>

-----------------------------------------------------------------------------
(***************************************************************************)
(* The sources, which go on when the handler no longer listens.            *)
(***************************************************************************)

Asked(r) == IF r \in Listed THEN Sources ELSE {"nominatim"}

FromCache(r) == response[r] # Nothing /\ response[r].status = 200 /\ response[r].cached

\* The handler has called the source's Handle and there is no reply yet.
Working(s, r) ==
    /\ s \in Asked(r) /\ reply[s][r] = Nothing
    /\ pc[r] \notin {"new", "lookup", "refused"} /\ ~FromCache(r)

SourceReplies(s, r, x) ==
    /\ Working(s, r)
    /\ Lookup(s, r)!MayReply(x)
    /\ reply' = [reply EXCEPT ![s][r] = x]
    /\ UNCHANGED <<pc, clocks, metrics, taken, result, response, received, cache>>

-----------------------------------------------------------------------------
(***************************************************************************)
(* The client and the clocks.                                              *)
(***************************************************************************)

Underway(r) == pc[r] \in {"lookup", "collect", "evaluated", "stored"}

\* The server cancels the request's context when the client closes the connection.
Leave(r) ==
    /\ Underway(r) /\ r \notin expired
    /\ lost' = lost \cup {r}
    /\ expired' = expired \cup {r}
    /\ UNCHANGED <<pc, metrics, reply, taken, result, response, received, cache>>

\* The connection accepts no more writes.  The handler does not notice.
WriteTimesOut(r) ==
    /\ Underway(r) /\ r \notin lost
    /\ lost' = lost \cup {r}
    /\ UNCHANGED <<pc, expired, metrics, reply, taken, result, response, received, cache>>

AnyTime(r) == TRUE                          \* mutant: a deadline before the timeout

\* The deadline is set after the request was read.
AtDeadline(r) == WriteTimeout <= Deadline => r \in lost

TimeUp(r) ==
    /\ pc[r] = "collect" /\ r \notin expired
    /\ AtDeadline(r)
    /\ expired' = expired \cup {r}
    /\ UNCHANGED <<pc, lost, metrics, reply, taken, result, response, received, cache>>

-----------------------------------------------------------------------------
(***************************************************************************)
(* The race of the two sources.                                            *)
(***************************************************************************)

Arrived(s, r) ==
    /\ pc[r] = "collect" /\ r \in Listed
    /\ s \notin taken[r]
    /\ reply[s][r] # Nothing

Take(s, r) == taken' = [taken EXCEPT ![r] = @ \cup {s}]

Evaluated(r) == pc' = [pc EXCEPT ![r] = "evaluated"]

TakeError(r) ==
    /\ Arrived("nominatim", r)
    /\ reply["nominatim"][r].error
    /\ Take("nominatim", r)
    /\ failed' = failed \cup {r}
    /\ Evaluated(r)
    /\ UNCHANGED <<clocks, metrics, reply, details, source, response, received, cache>>

Report(r, match) ==
    /\ source' = [source EXCEPT ![r] = Eval(match)]
    /\ details' = [details EXCEPT ![r] = match]

\* The winner's flags and matches replace what the loser has contributed.
TakesPerfect(s, r) ==                       \* mutant: goes on listening
    /\ Arrived(s, r)
    /\ ~reply[s][r].error /\ Perfect(reply[s][r].match)
    /\ Take(s, r)
    /\ Report(r, reply[s][r].match)
    /\ IF taken'[r] = Sources THEN Evaluated(r) ELSE UNCHANGED pc
    /\ UNCHANGED <<clocks, metrics, reply, failed, response, received, cache>>

TakePerfect(s, r) ==
    /\ Arrived(s, r)
    /\ ~reply[s][r].error /\ Perfect(reply[s][r].match)
    /\ Take(s, r)
    /\ Report(r, reply[s][r].match)
    /\ Evaluated(r)
    /\ UNCHANGED <<clocks, metrics, reply, failed, response, received, cache>>

Overwritten(r, match) == match              \* mutant: = instead of append

Appended(r, match) == [p \in Pairs |-> details[r][p] \cup match[p]]

ThreeTaken(t) == Cardinality(t) = 3         \* mutant: counter < 3

AllTaken(t) == t = Sources

TakePartial(s, r) ==
    /\ Arrived(s, r)
    /\ ~reply[s][r].error /\ ~Perfect(reply[s][r].match)
    /\ Take(s, r)
    /\ details' = [details EXCEPT ![r] = Appended(r, reply[s][r].match)]
    /\ source' = [source EXCEPT ![r] = @ \cup Eval(reply[s][r].match)]
    /\ IF AllTaken(taken'[r]) THEN Evaluated(r) ELSE UNCHANGED pc
    /\ UNCHANGED <<clocks, metrics, reply, failed, response, received, cache>>

SeeExpiry(r) ==
    /\ pc[r] = "collect" /\ r \in Listed
    /\ r \in expired
    /\ Evaluated(r)
    /\ UNCHANGED <<clocks, metrics, reply, taken, result, response, received, cache>>

HeardInTime(r) ==                           \* mutant: gives up when expired
    reply["nominatim"][r] # Nothing /\ r \notin expired

Heard(r) == reply["nominatim"][r] # Nothing

\* Without a list the handler waits for Nominatim, whatever its context does.
TakeNominatim(r) ==
    /\ pc[r] = "collect" /\ r \notin Listed
    /\ Heard(r)
    /\ Take("nominatim", r)
    /\ failed' = IF reply["nominatim"][r].error THEN failed \cup {r} ELSE failed
    /\ Report(r, reply["nominatim"][r].match)
    /\ Evaluated(r)
    /\ UNCHANGED <<clocks, metrics, reply, response, received, cache>>

-----------------------------------------------------------------------------
(***************************************************************************)
(* The response.                                                           *)
(***************************************************************************)

Result(r) == [details |-> details[r], source |-> source[r]]

\* memcached's Add keeps an entry that is there.
AddEntry(k, x) == cache' = [cache EXCEPT ![k] = IF @ = Nothing THEN x ELSE @]

CachesFailure(r) ==                         \* mutant: putCache before the check
    /\ pc[r] = "evaluated"
    /\ r \in failed
    /\ Finish(r, [status |-> 500])
    /\ AddEntry(KeyOf[r], Result(r))

RespondError(r) ==
    /\ pc[r] = "evaluated"
    /\ r \in failed
    /\ Finish(r, [status |-> 500])
    /\ UNCHANGED cache

\* The result can be read from the cache before its own client has it.  A failure to
\* store is logged and changes nothing else.
Store(r) ==
    /\ pc[r] = "evaluated"
    /\ r \notin failed
    /\ AddEntry(KeyOf[r], Result(r)) \/ UNCHANGED cache
    /\ pc' = [pc EXCEPT ![r] = "stored"]
    /\ UNCHANGED <<clocks, metrics, reply, taken, result, response, received>>

RespondOK(r) ==
    /\ pc[r] = "stored"
    /\ Finish(r, [status |-> 200, cached |-> FALSE, result |-> Result(r)])
    /\ UNCHANGED cache

\* memcached drops entries when its memory is full, or is restarted.
Evict(k) ==
    /\ cache[k] # Nothing
    /\ cache' = [cache EXCEPT ![k] = Nothing]
    /\ UNCHANGED <<pc, clocks, metrics, reply, taken, result, response, received>>

-----------------------------------------------------------------------------
Handle(r) ==
    \/ Hit(r) \/ Miss(r)
    \/ TakeError(r) \/ SeeExpiry(r) \/ TakeNominatim(r)
    \/ \E s \in Sources : TakePerfect(s, r) \/ TakePartial(s, r)
    \/ RespondError(r) \/ Store(r) \/ RespondOK(r)

Arrive(r) == Admit(r) \/ \E x \in Refusals : Refuse(r, [status |-> x])

Reply(s, r) == Working(s, r) /\ \E x \in Replies : SourceReplies(s, r, x)

Next ==
    \/ \E r \in Requests : Arrive(r) \/ Handle(r)
    \/ \E r \in Requests : Leave(r) \/ WriteTimesOut(r) \/ TimeUp(r)
    \/ \E r \in Requests, s \in Sources : Reply(s, r)
    \/ \E k \in Keys : Evict(k)

Spec == Init /\ [][Next]_vars

\* The goroutine of a request runs, and a source that was asked replies, as both
\* kinds of lookup have been shown to do.
Fairness ==
    /\ \A r \in Requests : WF_vars(Handle(r))
    /\ \A r \in Requests, s \in Sources : WF_vars(Reply(s, r))

FairSpec == Spec /\ Fairness

-----------------------------------------------------------------------------
(***************************************************************************)
(* Properties.                                                             *)
(***************************************************************************)

Answered200(r) == response[r] # Nothing /\ response[r].status = 200

Computed200(r) == Answered200(r) /\ ~response[r].cached

\* Every flag of a 200, cached or not, is explained by the matches reported with
\* it, as usage.md:52-95 defines the flags, whatever the race took and combined
\* (httpserver.go:215-246, 258-263).
FlagsExplained ==
    \A r \in Requests : Answered200(r) =>
        response[r].result.source = Eval(response[r].result.details)

HeardInFull(r) == \A s \in Asked(r) : s \in taken[r] /\ reply[s][r].whole

\* A client that receives a freshly computed answer with a false flag receives one
\* for which every source that was asked has been heard in full: sources are cut
\* short only by a client that leaves, and at a deadline that falls after the
\* server's write timeout (httpserver.go:200-251, service.go:81-83).
FreshAnswersWhole ==
    \A r \in received :
        (Computed200(r) /\ response[r].result.source # Flag) => HeardInFull(r)

\* Once a perfect reply has been taken the request is a 200 with all flags,
\* whatever the other source contributed before or reports later, an error
\* included; and it is Nominatim's error that makes a 500 (httpserver.go:214-233).
PerfectWins ==
    \A r \in Requests : pc[r] = "done" =>
        /\ response[r].status = 500 => \E s \in taken[r] : reply[s][r].error
        /\ (\E s \in taken[r] : ~reply[s][r].error /\ Perfect(reply[s][r].match)) =>
                Answered200(r) /\ response[r].result.source = Flag

\* r's answer under its key k: what its client is sent, or about to be sent.
Answers(r, k, x) ==
    /\ KeyOf[r] = k
    /\ \/ pc[r] = "stored" /\ Result(r) = x
       \/ Computed200(r) /\ response[r].result = x

\* What is in the cache is the answer of a request with the same key, which is sent
\* with a 200: no failure is ever cached (httpserver.go:266-309).
CacheHoldsAnswers ==
    \A k \in Keys : cache[k] # Nothing => \E r \in Requests : Answers(r, k, cache[k])

\* A false flag from the cache was found by a request with the same key whose sources
\* had all been heard in full, or whose own client was gone: no answer that a deadline
\* has cut short is served from the cache, however often the entry is dropped and
\* stored again by one of several requests (httpserver.go:158-173, 200-251, 297-301,
\* 441-450; service.go:81-83).
CachedAnswersWhole ==
    \A r \in Requests : (FromCache(r) /\ response[r].result.source # Flag) =>
        \E q \in Requests : /\ Answers(q, KeyOf[r], response[r].result)
                            /\ HeardInFull(q) \/ q \in lost

\* The gauge counts the user's requests that are in the handler and the counter
\* those that have left it, on whatever way; a request that is refused counts in
\* neither (httpserver.go:108-154, 344-382).
MetricsRight ==
    \A u \in Users :
        LET mine == {r \in Requests : UseJWT /\ UserOf[r] = u}
        IN /\ active[u] = Cardinality({r \in mine : Underway(r)})
           /\ served[u] = Cardinality({r \in mine : pc[r] = "done"})

\* "unreachable Nominatim no longer returns HTTP 200 with false result values"
\* (docs/src/docs/changelog.md:43): if a client receives a false flag, then Nominatim
\* has had its full say in a request with the same key, its own or the one whose
\* answer was cached (httpserver.go:248-249, 297-301).
FalseOnlyIfNominatimAnswered ==
    \A r \in received :
        (Answered200(r) /\ response[r].result.source # Flag) =>
            \E q \in Requests : /\ KeyOf[q] = KeyOf[r]
                                /\ "nominatim" \in taken[q]
                                /\ reply["nominatim"][q].whole

\* Every request that is let in gets its response, whoever is slow, fails or leaves.
EveryRequestAnswered ==
    \A r \in Requests : pc[r] = "lookup" ~> response[r] # Nothing
=============================================================================

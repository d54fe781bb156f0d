------------------------- MODULE CheckHandlerProofs -------------------------
(***************************************************************************)
(* Proofs about the check handler, for any number of requests, users, keys *)
(* and countries, and whatever the sources can find.                       *)
(***************************************************************************)
EXTENDS CheckHandler, FiniteSetTheorems, TLAPS

-----------------------------------------------------------------------------
(***************************************************************************)
(* Types.                                                                  *)
(***************************************************************************)

LEMMA InitTypeOK == Init => TypeOK
BY DEF Init, TypeOK, Sources, Responses, NoMatches

\* What Finish sets has its type.
LEMMA FinishTypes ==
    ASSUME TypeOK, NEW r \in Requests, NEW x \in Responses, Finish(r, x)
    PROVE  cache' \in [Keys -> Results \cup {Nothing}] => TypeOK'
<1>1. UserOf[r] \in Users
    BY CheckHandlerAssumption DEF CheckHandlerAssumption
<1>2. active' \in [Users -> Int] /\ served' \in [Users -> Nat]
    <2>1. active \in [Users -> Int] /\ served \in [Users -> Nat] /\ Counted(r)
        BY DEF TypeOK, Finish
    <2> QED
        BY <1>1, <2>1 DEF Counted, metrics
<1> QED
    BY <1>2 DEF TypeOK, Finish, Respond, clocks, result

\* What is reported has its type.
LEMMA EvalType == \A m : Eval(m) \subseteq Flag
BY DEF Eval

LEMMA ReplyTypes ==
    ASSUME TypeOK, NEW s \in Sources, NEW r \in Requests, reply[s][r] # Nothing
    PROVE  /\ reply[s][r].match \in [Pairs -> SUBSET Countries]
           /\ reply[s][r].error \in BOOLEAN /\ reply[s][r].whole \in BOOLEAN
<1>1. reply[s][r] \in Replies
    BY DEF TypeOK
<1>2. Matches \subseteq [Pairs -> SUBSET Countries]
    BY CheckHandlerAssumption DEF CheckHandlerAssumption
<1> QED
    BY <1>1, <1>2 DEF Replies

LEMMA ResponseType ==
    ASSUME NEW b \in BOOLEAN, NEW x \in Results
    PROVE  [status |-> 200, cached |-> b, result |-> x] \in Responses
BY DEF Responses

LEMMA ResultType ==
    ASSUME TypeOK, NEW r \in Requests
    PROVE  Result(r) \in Results
BY DEF TypeOK, Result, Results

LEMMA EntryType ==
    ASSUME TypeOK, NEW r \in Requests, AddEntry(KeyOf[r], Result(r))
    PROVE  cache' \in [Keys -> Results \cup {Nothing}]
<1>1. KeyOf[r] \in Keys
    BY CheckHandlerAssumption DEF CheckHandlerAssumption
<1>2. Result(r) \in Results
    BY ResultType
<1> QED
    BY <1>1, <1>2 DEF TypeOK, AddEntry

LEMMA ArriveTypeOK ==
    ASSUME TypeOK, NEW r \in Requests, Arrive(r)
    PROVE  TypeOK'
<1>1. CASE Admit(r)
    <2>1. UserOf[r] \in Users
        BY CheckHandlerAssumption DEF CheckHandlerAssumption
    <2> QED
        BY <1>1, <2>1 DEF TypeOK, Admit, clocks, result
<1>2. ASSUME NEW x \in Refusals, Refuse(r, [status |-> x])
      PROVE  TypeOK'
    <2>1. [status |-> x] \in Responses
        BY DEF Responses, Refusals, Refusal, TooLong
    <2> QED
        BY <1>2, <2>1 DEF TypeOK, Refuse, Respond, clocks, metrics, result
<1> QED
    BY <1>1, <1>2 DEF Arrive

LEMMA TakeTypeOK ==
    ASSUME TypeOK, NEW r \in Requests, NEW s \in Sources,
           TakePerfect(s, r) \/ TakePartial(s, r)
    PROVE  TypeOK'
<1>1. reply[s][r].match \in [Pairs -> SUBSET Countries]
    BY ReplyTypes DEF TakePerfect, TakePartial, Arrived
<1>2. CASE TakePerfect(s, r)
    BY <1>1, <1>2, EvalType
    DEF TypeOK, TakePerfect, Arrived, Take, Report, Evaluated, clocks, metrics
<1>3. CASE TakePartial(s, r)
    <2>1. Appended(r, reply[s][r].match) \in [Pairs -> SUBSET Countries]
        BY <1>1 DEF TypeOK, Appended
    <2> QED
        BY <1>3, <2>1, EvalType
        DEF TypeOK, TakePartial, Arrived, Take, Evaluated, clocks, metrics
<1> QED
    BY <1>2, <1>3

LEMMA HandleTypeOK ==
    ASSUME TypeOK, NEW r \in Requests, Handle(r)
    PROVE  TypeOK'
<1>1. CASE Hit(r)
    <2>1. KeyOf[r] \in Keys
        BY CheckHandlerAssumption DEF CheckHandlerAssumption
    <2>2. cache[KeyOf[r]] \in Results
        BY <1>1, <2>1 DEF TypeOK, Hit
    <2>3. [status |-> 200, cached |-> TRUE, result |-> cache[KeyOf[r]]] \in Responses
        BY <2>2, ResponseType
    <2> QED
        BY <1>1, <2>3, FinishTypes DEF Hit, TypeOK
<1>2. CASE Miss(r)
    BY <1>2 DEF TypeOK, Miss, clocks, metrics, result
<1>3. CASE TakeError(r)
    BY <1>3 DEF TypeOK, TakeError, Arrived, Take, Evaluated, Sources, clocks, metrics
<1>4. CASE SeeExpiry(r)
    BY <1>4 DEF TypeOK, SeeExpiry, Evaluated, clocks, metrics, result
<1>5. CASE TakeNominatim(r)
    <2>1. reply["nominatim"][r].match \in [Pairs -> SUBSET Countries]
        BY <1>5, ReplyTypes DEF TakeNominatim, Heard, Sources
    <2> QED
        BY <1>5, <2>1, EvalType
        DEF TypeOK, TakeNominatim, Take, Report, Evaluated, Sources, clocks, metrics
<1>6. ASSUME NEW s \in Sources, TakePerfect(s, r) \/ TakePartial(s, r)
      PROVE  TypeOK'
    BY <1>6, TakeTypeOK
<1>7. CASE RespondError(r)
    <2>1. [status |-> 500] \in Responses
        BY DEF Responses
    <2> QED
        BY <1>7, <2>1, FinishTypes DEF RespondError, TypeOK
<1>8. CASE Store(r)
    <2>1. cache' \in [Keys -> Results \cup {Nothing}]
        BY <1>8, EntryType DEF Store, TypeOK
    <2> QED
        BY <1>8, <2>1 DEF TypeOK, Store, clocks, metrics, result
<1>9. CASE RespondOK(r)
    BY <1>9, ResultType, ResponseType, FinishTypes DEF RespondOK, TypeOK
<1> QED
    BY <1>1, <1>2, <1>3, <1>4, <1>5, <1>6, <1>7, <1>8, <1>9 DEF Handle

\* The client, the clocks, the sources and memcached.
LEMMA AroundTypeOK ==
    ASSUME TypeOK,
           \/ \E r \in Requests : Leave(r) \/ WriteTimesOut(r) \/ TimeUp(r)
           \/ \E r \in Requests, s \in Sources : Reply(s, r)
           \/ \E k \in Keys : Evict(k)
    PROVE  TypeOK'
<1>1. ASSUME NEW r \in Requests, Leave(r) \/ WriteTimesOut(r) \/ TimeUp(r)
      PROVE  TypeOK'
    BY <1>1 DEF TypeOK, Leave, WriteTimesOut, TimeUp, metrics, result
<1>2. ASSUME NEW r \in Requests, NEW s \in Sources, NEW x \in Replies, SourceReplies(s, r, x)
      PROVE  TypeOK'
    BY <1>2 DEF TypeOK, SourceReplies, clocks, metrics, result
<1>3. ASSUME NEW k \in Keys, Evict(k)
      PROVE  TypeOK'
    BY <1>3 DEF TypeOK, Evict, clocks, metrics, result
<1> QED
    BY <1>1, <1>2, <1>3 DEF Reply

LEMMA StepTypeOK == TypeOK /\ [Next]_vars => TypeOK'
<1>1. TypeOK /\ Next => TypeOK'
    BY ArriveTypeOK, HandleTypeOK, AroundTypeOK DEF Next
<1>2. TypeOK /\ UNCHANGED vars => TypeOK'
    BY DEF TypeOK, vars, clocks, metrics, result
<1> QED
    BY <1>1, <1>2

\* The handler's state, the responses and the cache keep their types.
THEOREM TypeCorrect == Spec => []TypeOK
BY InitTypeOK, StepTypeOK, PTL DEF Spec

-----------------------------------------------------------------------------
(***************************************************************************)
(* The flags.                                                              *)
(***************************************************************************)

\* The flags of no matches, and of two sources' matches together.
LEMMA EvalNothing == Eval(NoMatches) = {}
BY DEF Eval, NoMatches, Pairs

LEMMA EvalTogether ==
    ASSUME NEW d \in [Pairs -> SUBSET Countries], NEW m \in [Pairs -> SUBSET Countries]
    PROVE  Eval([p \in Pairs |-> d[p] \cup m[p]]) = Eval(d) \cup Eval(m)
<1> DEFINE both == [p \in Pairs |-> d[p] \cup m[p]]
<1>1. /\ both["cityStreet"] = d["cityStreet"] \cup m["cityStreet"]
      /\ both["postalCity"] = d["postalCity"] \cup m["postalCity"]
      /\ both["postalStreet"] = d["postalStreet"] \cup m["postalStreet"]
    BY DEF Pairs
<1>2. UNION {both[p] : p \in Pairs}
        = (UNION {d[p] : p \in Pairs}) \cup (UNION {m[p] : p \in Pairs})
    OBVIOUS
<1> HIDE DEF both
<1>3. ASSUME NEW f
      PROVE  f \in Eval(both) <=> f \in Eval(d) \cup Eval(m)
    <2>1. CASE f = "street"
        BY <1>1, <2>1 DEF Eval
    <2>2. CASE f = "city"
        BY <1>1, <2>2 DEF Eval
    <2>3. CASE f = "postalCode"
        BY <1>1, <2>3 DEF Eval
    <2>4. CASE f = "cityToPostalCode"
        BY <1>1, <2>4 DEF Eval
    <2>5. CASE f = "countryCode"
        BY <1>2, <2>5 DEF Eval
    <2>6. CASE f \notin {"street", "city", "postalCode", "cityToPostalCode", "countryCode"}
        BY <2>6 DEF Eval
    <2> QED
        BY <2>1, <2>2, <2>3, <2>4, <2>5, <2>6
<1>4. Eval(both) = Eval(d) \cup Eval(m)
    BY <1>3
<1> QED
    BY <1>4 DEF both

Agree(x) == x.source = Eval(x.details)

FlagsInv ==
    /\ FlagsExplained
    /\ \A r \in Requests : source[r] = Eval(details[r])
    /\ \A k \in Keys : cache[k] # Nothing => Agree(cache[k])

LEMMA InitFlags == Init => FlagsInv
BY EvalNothing DEF Init, FlagsInv, FlagsExplained, Answered200

\* A response that is no 200, or one whose flags agree.
LEMMA RespondFlags ==
    ASSUME TypeOK, FlagsExplained, NEW r \in Requests, NEW x, Respond(r, x),
           x.status = 200 => Agree(x.result)
    PROVE  FlagsExplained'
BY DEF TypeOK, FlagsExplained, Respond, Answered200, Agree

LEMMA ArriveFlags ==
    ASSUME TypeOK, FlagsInv, NEW r \in Requests, Arrive(r)
    PROVE  FlagsInv'
<1>1. CASE Admit(r)
    BY <1>1 DEF FlagsInv, FlagsExplained, Answered200, Admit, result
<1>2. ASSUME NEW x \in Refusals, Refuse(r, [status |-> x])
      PROVE  FlagsInv'
    <2>1. x # 200
        BY DEF Refusals, Refusal, TooLong
    <2> QED
        BY <1>2, <2>1, RespondFlags DEF FlagsInv, Refuse, result
<1> QED
    BY <1>1, <1>2 DEF Arrive

LEMMA TakeFlags ==
    ASSUME TypeOK, FlagsInv, NEW r \in Requests, NEW s \in Sources,
           TakePerfect(s, r) \/ TakePartial(s, r)
    PROVE  FlagsInv'
<1>1. reply[s][r].match \in [Pairs -> SUBSET Countries]
    BY ReplyTypes DEF TakePerfect, TakePartial, Arrived
<1>2. UNCHANGED <<response, cache>>
    BY DEF TakePerfect, TakePartial
<1>3. \A q \in Requests : source'[q] = Eval(details'[q])
    <2>1. CASE TakePerfect(s, r)
        BY <1>1, <2>1 DEF TypeOK, FlagsInv, TakePerfect, Report
    <2>2. CASE TakePartial(s, r)
        <3>1. Eval(Appended(r, reply[s][r].match)) = source[r] \cup Eval(reply[s][r].match)
            <4>1. details[r] \in [Pairs -> SUBSET Countries]
                BY DEF TypeOK
            <4>2. Eval(Appended(r, reply[s][r].match))
                    = Eval(details[r]) \cup Eval(reply[s][r].match)
                BY <1>1, <4>1, EvalTogether DEF Appended
            <4> QED
                BY <4>2 DEF FlagsInv
        <3> QED
            BY <2>2, <3>1 DEF TypeOK, FlagsInv, TakePartial
    <2> QED
        BY <2>1, <2>2
<1> QED
    BY <1>2, <1>3 DEF FlagsInv, FlagsExplained, Answered200

LEMMA HandleFlags ==
    ASSUME TypeOK, FlagsInv, NEW r \in Requests, Handle(r)
    PROVE  FlagsInv'
<1>1. KeyOf[r] \in Keys
    BY CheckHandlerAssumption DEF CheckHandlerAssumption
<1>2. CASE Hit(r)
    <2>1. Agree(cache[KeyOf[r]])
        BY <1>1, <1>2 DEF FlagsInv, Hit
    <2> QED
        BY <1>2, <2>1, RespondFlags DEF FlagsInv, Hit, Finish, result
<1>3. CASE Miss(r) \/ TakeError(r) \/ SeeExpiry(r)
    BY <1>3 DEF FlagsInv, FlagsExplained, Answered200, Miss, TakeError, SeeExpiry, result
<1>4. CASE TakeNominatim(r)
    BY <1>4 DEF TypeOK, FlagsInv, FlagsExplained, Answered200, TakeNominatim, Report
<1>5. ASSUME NEW s \in Sources, TakePerfect(s, r) \/ TakePartial(s, r)
      PROVE  FlagsInv'
    BY <1>5, TakeFlags
<1>6. CASE RespondError(r)
    BY <1>6, RespondFlags DEF FlagsInv, RespondError, Finish, result
<1>7. Agree(Result(r))
    BY DEF FlagsInv, Agree, Result
<1>8. CASE Store(r)
    <2>1. \A k \in Keys : cache'[k] # Nothing => Agree(cache'[k])
        BY <1>1, <1>7, <1>8 DEF TypeOK, FlagsInv, Store, AddEntry
    <2> QED
        BY <1>8, <2>1 DEF FlagsInv, FlagsExplained, Answered200, Agree, Store, result
<1>9. CASE RespondOK(r)
    <2>1. FlagsExplained'
        BY <1>7, <1>9, RespondFlags DEF FlagsInv, RespondOK, Finish
    <2> QED
        BY <1>9, <2>1 DEF FlagsInv, Agree, RespondOK, Finish, result
<1> QED
    BY <1>2, <1>3, <1>4, <1>5, <1>6, <1>8, <1>9 DEF Handle

LEMMA AroundFlags ==
    ASSUME TypeOK, FlagsInv,
           \/ \E r \in Requests : Leave(r) \/ WriteTimesOut(r) \/ TimeUp(r)
           \/ \E r \in Requests, s \in Sources : Reply(s, r)
           \/ \E k \in Keys : Evict(k)
    PROVE  FlagsInv'
<1>1. UNCHANGED <<details, source, response>>
    BY DEF Leave, WriteTimesOut, TimeUp, Reply, SourceReplies, Evict, result
<1>2. \A k \in Keys : cache'[k] \in {cache[k], Nothing}
    BY DEF TypeOK, Leave, WriteTimesOut, TimeUp, Reply, SourceReplies, Evict
<1> QED
    BY <1>1, <1>2 DEF FlagsInv, FlagsExplained, Answered200, Agree

LEMMA StepFlags == TypeOK /\ FlagsInv /\ [Next]_vars => FlagsInv'
<1>1. TypeOK /\ FlagsInv /\ Next => FlagsInv'
    BY ArriveFlags, HandleFlags, AroundFlags DEF Next
<1>2. FlagsInv /\ UNCHANGED vars => FlagsInv'
    BY DEF FlagsInv, FlagsExplained, Answered200, Agree, vars, result
<1> QED
    BY <1>1, <1>2

\* Every flag of every 200, also of one from the cache, is explained by the matches
\* reported with it (httpserver.go:215-246, 258-263).
THEOREM FlagsAlwaysExplained == Spec => []FlagsExplained
<1>1. FlagsInv => FlagsExplained
    BY DEF FlagsInv
<1> QED
    BY InitTypeOK, StepTypeOK, InitFlags, StepFlags, <1>1, PTL DEF Spec

-----------------------------------------------------------------------------
(***************************************************************************)
(* The race.  What can be said of a request at each point of the handler:  *)
(* nothing has been heard before it listens; while it listens nothing      *)
(* decisive has been taken; then an error it has taken makes it fail, and  *)
(* a perfect reply makes all flags true.                                   *)
(***************************************************************************)

Wins(s, r) == ~reply[s][r].error /\ Perfect(reply[s][r].match)

Unheard(r) ==
    (pc[r] \in {"new", "lookup", "refused"} \/ FromCache(r)) =>
        /\ taken[r] = {} /\ r \notin failed
        /\ \A s \in Sources : reply[s][r] = Nothing

Listening(r) ==
    pc[r] = "collect" =>
        /\ r \notin failed
        /\ r \notin Listed => taken[r] = {}
        /\ \A s \in taken[r] : ~reply[s][r].error /\ ~Wins(s, r)
        /\ r \notin expired => \A s \in Sources : reply[s][r] # Nothing =>
                                    reply[s][r].whole \/ reply[s][r].error

Verdict(r) ==
    /\ \A s \in taken[r] : reply[s][r] # Nothing
    /\ r \in failed => \E s \in taken[r] : reply[s][r].error
    /\ (\E s \in taken[r] : Wins(s, r)) => r \notin failed /\ source[r] = Flag

InFull(r) ==
    (pc[r] \in {"evaluated", "stored"} /\ r \notin failed /\ r \notin expired /\ source[r] # Flag) =>
        HeardInFull(r)

Concluded(r) ==
    /\ response[r] # Nothing => pc[r] \in {"done", "refused"}
    /\ r \in received => pc[r] \in {"done", "refused"}
    /\ pc[r] = "refused" => ~Answered200(r)
    /\ pc[r] = "stored" => r \notin failed
    /\ pc[r] = "done" =>
        \/ response[r].status = 500 /\ r \in failed
        \/ FromCache(r)
        \/ /\ Computed200(r) /\ response[r].result.source = source[r] /\ r \notin failed
           /\ (WriteTimeout <= Deadline /\ source[r] # Flag) => HeardInFull(r) \/ r \in lost
           /\ r \in received => r \notin lost

Lasts(r) == WriteTimeout <= Deadline /\ r \in expired => r \in lost

RaceInv(r) ==
    /\ Unheard(r) /\ Listening(r) /\ Verdict(r) /\ InFull(r) /\ Concluded(r) /\ Lasts(r)

\* What a step does not concern keeps its invariant.
Same(r) ==
    /\ pc'[r] = pc[r] /\ taken'[r] = taken[r] /\ source'[r] = source[r]
    /\ response'[r] = response[r]
    /\ \A s \in Sources : reply'[s][r] = reply[s][r]
    /\ r \in failed' <=> r \in failed
    /\ r \in expired' <=> r \in expired
    /\ r \in lost' <=> r \in lost
    /\ r \in received' <=> r \in received

LEMMA SameKeeps ==
    ASSUME TypeOK, NEW r \in Requests, RaceInv(r), Same(r)
    PROVE  RaceInv(r)'
<1> taken[r] \subseteq Sources /\ Asked(r) \subseteq Sources
    BY DEF TypeOK, Asked, Sources
<1>0. /\ \A s \in Sources : Wins(s, r)' = Wins(s, r)
      /\ HeardInFull(r)' = HeardInFull(r)
      /\ FromCache(r)' = FromCache(r) /\ Answered200(r)' = Answered200(r)
      /\ Computed200(r)' = Computed200(r)
    BY DEF Same, Wins, HeardInFull, FromCache, Answered200, Computed200, Asked, Perfect, Eval
<1>1. Unheard(r)' /\ Listening(r)'
    BY <1>0 DEF RaceInv, Unheard, Listening, Same
<1>2. Verdict(r)' /\ InFull(r)'
    BY <1>0 DEF RaceInv, Verdict, InFull, Same
<1>3. Concluded(r)' /\ Lasts(r)'
    BY <1>0 DEF RaceInv, Concluded, Lasts, Same
<1> QED
    BY <1>1, <1>2, <1>3 DEF RaceInv

\* A step of a request does not concern the others.
LEMMA OthersSame ==
    ASSUME TypeOK, NEW q \in Requests, NEW r \in Requests, r # q,
           \/ Arrive(q) \/ Handle(q)
           \/ Leave(q) \/ WriteTimesOut(q) \/ TimeUp(q)
           \/ \E s \in Sources : Reply(s, q)
    PROVE  Same(r)
<1>1. CASE Arrive(q)
    BY <1>1 DEF TypeOK, Same, Arrive, Admit, Refuse, Respond, clocks, result
<1>2. CASE Leave(q) \/ WriteTimesOut(q) \/ TimeUp(q)
    BY <1>2 DEF TypeOK, Same, Leave, WriteTimesOut, TimeUp, result
<1>3. ASSUME NEW s \in Sources, Reply(s, q)
      PROVE  Same(r)
    BY <1>3 DEF TypeOK, Same, Reply, SourceReplies, clocks, result
<1>4. CASE Hit(q) \/ RespondError(q) \/ Store(q) \/ RespondOK(q)
    BY <1>4 DEF TypeOK, Same, Hit, RespondError, Store, RespondOK, Finish, Respond, clocks,
                result
<1>5. CASE Miss(q) \/ TakeError(q) \/ SeeExpiry(q) \/ TakeNominatim(q)
    BY <1>5 DEF TypeOK, Same, Miss, TakeError, SeeExpiry, TakeNominatim, Take, Report,
                Evaluated, clocks, result
<1>6. ASSUME NEW s \in Sources, TakePerfect(s, q) \/ TakePartial(s, q)
      PROVE  Same(r)
    BY <1>6 DEF TypeOK, Same, TakePerfect, TakePartial, Take, Report, Evaluated, clocks
<1> QED
    BY <1>1, <1>2, <1>3, <1>4, <1>5, <1>6 DEF Handle

LEMMA InitRace == Init => \A r \in Requests : RaceInv(r)
BY DEF Init, RaceInv, Unheard, Listening, Verdict, InFull, Concluded, Lasts, FromCache,
       Sources

LEMMA ArriveRace ==
    ASSUME TypeOK, NEW r \in Requests, RaceInv(r), Arrive(r)
    PROVE  RaceInv(r)'
<1>1. CASE Admit(r)
    <2>1. pc[r] = "new" /\ pc'[r] = "lookup" /\ response' = response
        BY <1>1 DEF TypeOK, Admit
    <2> QED
        BY <1>1, <2>1 DEF RaceInv, Unheard, Listening, Verdict, InFull, Concluded, Lasts,
                         Admit, FromCache, Answered200, clocks, result, Sources, TypeOK
<1>2. ASSUME NEW x \in Refusals, Refuse(r, [status |-> x])
      PROVE  RaceInv(r)'
    <2>1. pc[r] = "new" /\ pc'[r] = "refused" /\ response'[r] = [status |-> x]
        BY <1>2 DEF TypeOK, Refuse, Respond
    <2>2. x # 200
        BY DEF Refusals, Refusal, TooLong
    <2>3. ~Answered200(r)'
        BY <2>1, <2>2 DEF Answered200
    <2> QED
        BY <1>2, <2>1, <2>3 DEF RaceInv, Unheard, Listening, Verdict, InFull, Concluded, Lasts,
                         Refuse, FromCache, clocks, result, Sources, TypeOK
<1> QED
    BY <1>1, <1>2 DEF Arrive

\* The client and the clocks: what runs out of time is not fresh any more.
LEMMA ClockRace ==
    ASSUME TypeOK, NEW r \in Requests, RaceInv(r),
           Leave(r) \/ WriteTimesOut(r) \/ TimeUp(r)
    PROVE  RaceInv(r)'
<1>1. /\ UNCHANGED <<pc, reply, taken, source, failed, response, received>>
      /\ r \in expired => r \in expired'
      /\ r \in lost => r \in lost'
      /\ r \in lost' => r \in lost \/ Underway(r)
      /\ Lasts(r)'
    BY DEF RaceInv, Lasts, Leave, WriteTimesOut, TimeUp, AtDeadline, result
<1>2. /\ \A s \in Sources : Wins(s, r)' = Wins(s, r)
      /\ HeardInFull(r)' = HeardInFull(r)
      /\ FromCache(r)' = FromCache(r) /\ Answered200(r)' = Answered200(r)
      /\ Computed200(r)' = Computed200(r)
    BY <1>1 DEF Wins, HeardInFull, FromCache, Answered200, Computed200, Asked, Perfect, Eval
<1>3. taken[r] \subseteq Sources
    BY DEF TypeOK
<1> QED
    BY <1>1, <1>2, <1>3 DEF RaceInv, Unheard, Listening, Verdict, InFull, Concluded, Underway

\* A reply changes nothing that has been heard, and is whole as long as the context
\* lives.
LEMMA ReplyRace ==
    ASSUME TypeOK, NEW r \in Requests, RaceInv(r), NEW s \in Sources, Reply(s, r)
    PROVE  RaceInv(r)'
<1> PICK x \in Replies : SourceReplies(s, r, x)
    BY DEF Reply
<1>1. /\ UNCHANGED <<pc, expired, lost, taken, source, failed, response, received>>
      /\ reply[s][r] = Nothing /\ reply'[s][r] = x
      /\ \A t \in Sources : t # s => reply'[t][r] = reply[t][r]
    BY DEF TypeOK, SourceReplies, Working, clocks, result
<1>2. pc[r] \notin {"new", "lookup", "refused"} /\ ~FromCache(r)
    BY DEF SourceReplies, Working
<1>3. pc[r] = "collect" /\ r \notin expired => x.whole \/ x.error
    BY DEF SourceReplies, Lookup!MayReply, ContextDone
<1>4. taken[r] \subseteq Sources /\ s \notin taken[r]
    BY <1>1 DEF TypeOK, RaceInv, Verdict
<1>5. \A t \in taken[r] : reply'[t][r] = reply[t][r] /\ Wins(t, r)' = Wins(t, r)
    BY <1>1, <1>4 DEF Wins, Perfect, Eval
<1>6. /\ HeardInFull(r) => HeardInFull(r)'
      /\ FromCache(r)' = FromCache(r) /\ Answered200(r)' = Answered200(r)
      /\ Computed200(r)' = Computed200(r)
    BY <1>1, <1>5 DEF HeardInFull, FromCache, Answered200, Computed200, Asked
<1>7. Unheard(r)'
    BY <1>1, <1>2, <1>6 DEF Unheard
<1>8. Listening(r)'
    BY <1>1, <1>3, <1>5 DEF RaceInv, Listening
<1>9. Verdict(r)'
    BY <1>1, <1>5 DEF RaceInv, Verdict
<1> QED
    BY <1>1, <1>6, <1>7, <1>8, <1>9 DEF RaceInv, InFull, Concluded, Lasts

\* Before and at the end of the race.
LEMMA EndsRace ==
    ASSUME TypeOK, NEW r \in Requests, RaceInv(r),
           Hit(r) \/ Miss(r) \/ RespondError(r) \/ Store(r) \/ RespondOK(r)
    PROVE  RaceInv(r)'
<1>1. /\ UNCHANGED <<reply, taken, source, failed, expired, lost>>
      /\ HeardInFull(r)' = HeardInFull(r)
      /\ Verdict(r)' /\ Lasts(r)'
    BY DEF RaceInv, Verdict, Lasts, HeardInFull, Asked, Wins, Perfect, Eval,
           Hit, Miss, RespondError, Store, RespondOK, Finish, clocks, result
<1>2. CASE Miss(r)
    <2>1. pc[r] = "lookup" /\ pc'[r] = "collect" /\ UNCHANGED <<response, received>>
        BY <1>2 DEF TypeOK, Miss
    <2>2. response[r] = Nothing
        BY <2>1 DEF RaceInv, Concluded
    <2> QED
        BY <1>1, <2>1, <2>2 DEF RaceInv, Unheard, Listening, InFull, Concluded, FromCache
<1>3. CASE Hit(r)
    <2>1. /\ pc[r] = "lookup" /\ pc'[r] = "done"
          /\ response'[r].status = 200 /\ response'[r].cached = TRUE
          /\ response'[r] # Nothing
        BY <1>3 DEF TypeOK, Hit, Finish, Respond, Nothing
    <2>2. FromCache(r)'
        BY <2>1 DEF FromCache
    <2> QED
        BY <1>1, <2>1, <2>2 DEF RaceInv, Unheard, Listening, InFull, Concluded
<1>4. CASE RespondError(r)
    <2>1. pc[r] = "evaluated" /\ pc'[r] = "done" /\ r \in failed
        BY <1>4 DEF TypeOK, RespondError, Finish
    <2>2. response'[r].status = 500
        BY <1>4 DEF TypeOK, RespondError, Finish, Respond
    <2>3. ~FromCache(r)'
        BY <2>2 DEF FromCache
    <2> QED
        BY <1>1, <2>1, <2>2, <2>3 DEF Unheard, Listening, InFull, Concluded, RaceInv
<1>5. CASE Store(r)
    <2>1. /\ pc[r] = "evaluated" /\ pc'[r] = "stored" /\ r \notin failed
          /\ UNCHANGED <<response, received>>
        BY <1>5 DEF TypeOK, Store
    <2>2. response[r] = Nothing
        BY <2>1 DEF RaceInv, Concluded
    <2> QED
        BY <1>1, <2>1, <2>2 DEF RaceInv, Unheard, Listening, InFull, Concluded, FromCache
<1>6. CASE RespondOK(r)
    <2>1. pc[r] = "stored" /\ pc'[r] = "done" /\ r \notin failed
        BY <1>6 DEF TypeOK, RaceInv, Concluded, RespondOK, Finish
    <2>2. response'[r] = [status |-> 200, cached |-> FALSE, result |-> Result(r)]
        BY <1>6 DEF TypeOK, RespondOK, Finish, Respond
    <2>3. Computed200(r)' /\ ~FromCache(r)' /\ response'[r].result.source = source[r]
        BY <2>2 DEF Computed200, Answered200, FromCache, Result, Nothing
    <2>4. r \in received' => r \notin lost
        BY <1>6, <2>1 DEF RespondOK, Finish, Respond, RaceInv, Concluded
    <2>5. (WriteTimeout <= Deadline /\ source[r] # Flag) => HeardInFull(r) \/ r \in lost
        BY <2>1 DEF RaceInv, InFull, Lasts
    <2>6. Concluded(r)'
        BY <1>1, <2>1, <2>3, <2>4, <2>5 DEF Concluded
    <2> QED
        BY <1>1, <2>1, <2>3, <2>6 DEF Unheard, Listening, InFull, RaceInv
<1> QED
    BY <1>2, <1>3, <1>4, <1>5, <1>6

\* What is taken from the sources.
LEMMA TakesRace ==
    ASSUME TypeOK, NEW r \in Requests, RaceInv(r),
           \/ TakeError(r) \/ SeeExpiry(r) \/ TakeNominatim(r)
           \/ \E s \in Sources : TakePerfect(s, r) \/ TakePartial(s, r)
    PROVE  RaceInv(r)'
<1>1. /\ pc[r] = "collect"
      /\ UNCHANGED <<reply, response, received, expired, lost>>
    BY DEF TakeError, SeeExpiry, TakeNominatim, TakePerfect, TakePartial, Arrived, clocks
<1>2. /\ \A s \in Sources : Wins(s, r)' = Wins(s, r)
      /\ response[r] = Nothing /\ r \notin received /\ ~FromCache(r)'
    BY <1>1 DEF RaceInv, Concluded, Wins, Perfect, Eval, FromCache
<1>3. pc'[r] \in {"collect", "evaluated"}
    BY <1>1 DEF TypeOK, TakeError, SeeExpiry, TakeNominatim, TakePerfect, TakePartial, Evaluated
<1>4. Unheard(r)' /\ Concluded(r)' /\ Lasts(r)'
    BY <1>1, <1>2, <1>3 DEF RaceInv, Unheard, Concluded, Lasts
<1>5. /\ r \notin failed /\ taken[r] \subseteq Sources
      /\ \A s \in taken[r] : ~reply[s][r].error /\ ~Wins(s, r) /\ reply[s][r] # Nothing
      /\ r \notin expired => \A s \in Sources : reply[s][r] # Nothing =>
                                reply[s][r].whole \/ reply[s][r].error
    BY <1>1 DEF TypeOK, RaceInv, Listening, Verdict
<1>6. SUFFICES Listening(r)' /\ Verdict(r)' /\ InFull(r)'
    BY <1>4 DEF RaceInv
<1>7. CASE TakeError(r)
    <2>1. /\ pc'[r] = "evaluated" /\ taken'[r] = taken[r] \cup {"nominatim"}
          /\ failed' = failed \cup {r}
          /\ reply["nominatim"][r].error /\ reply["nominatim"][r] # Nothing
        BY <1>7 DEF TypeOK, TakeError, Arrived, Take, Evaluated
    <2>2. ~Wins("nominatim", r)
        BY <2>1 DEF Wins
    <2> QED
        BY <1>1, <1>2, <1>5, <2>1, <2>2 DEF Listening, Verdict, InFull, Sources
<1>8. CASE SeeExpiry(r)
    <2>1. /\ pc'[r] = "evaluated" /\ r \in expired
          /\ UNCHANGED <<taken, source, failed>>
        BY <1>8 DEF TypeOK, SeeExpiry, Evaluated, result
    <2> QED
        BY <1>1, <1>2, <1>5, <2>1 DEF Listening, Verdict, InFull
<1>9. CASE TakeNominatim(r)
    <2>1. /\ pc'[r] = "evaluated" /\ taken'[r] = {"nominatim"} /\ r \notin Listed
          /\ source'[r] = Eval(reply["nominatim"][r].match)
          /\ reply["nominatim"][r] # Nothing
          /\ r \in failed' <=> reply["nominatim"][r].error
        BY <1>1, <1>5, <1>9
        DEF TypeOK, RaceInv, Listening, TakeNominatim, Take, Report, Evaluated, Heard
    <2>2. Verdict(r)'
        BY <1>1, <1>2, <2>1 DEF Verdict, Wins, Perfect, Sources
    <2>3. InFull(r)'
        BY <1>1, <1>5, <2>1 DEF InFull, HeardInFull, Asked, Sources
    <2> QED
        BY <2>1, <2>2, <2>3 DEF Listening
<1>10. ASSUME NEW s \in Sources, TakePerfect(s, r)
       PROVE  Listening(r)' /\ Verdict(r)' /\ InFull(r)'
    <2>1. /\ pc'[r] = "evaluated" /\ taken'[r] = taken[r] \cup {s}
          /\ source'[r] = Flag /\ reply[s][r] # Nothing
          /\ failed' = failed
        BY <1>10 DEF TypeOK, TakePerfect, Arrived, Take, Report, Evaluated, Perfect
    <2> QED
        BY <1>1, <1>2, <1>5, <2>1 DEF Listening, Verdict, InFull
<1>11. ASSUME NEW s \in Sources, TakePartial(s, r)
       PROVE  Listening(r)' /\ Verdict(r)' /\ InFull(r)'
    <2>1. /\ taken'[r] = taken[r] \cup {s} /\ r \in Listed
          /\ reply[s][r] # Nothing /\ ~reply[s][r].error /\ ~Wins(s, r)
          /\ failed' = failed
          /\ pc'[r] = "evaluated" => taken'[r] = Sources
        BY <1>1, <1>11 DEF TypeOK, TakePartial, Arrived, Take, Evaluated, AllTaken, Wins
    <2>2. \A t \in taken'[r] : t \in Sources /\ ~reply[t][r].error /\ ~Wins(t, r)
                                   /\ reply[t][r] # Nothing
        BY <1>5, <2>1
    <2>3. Listening(r)'
        BY <1>1, <1>2, <1>5, <2>1, <2>2 DEF Listening
    <2>4. Verdict(r)'
        BY <1>1, <1>2, <1>5, <2>1, <2>2 DEF Verdict
    <2>5. InFull(r)'
        BY <1>1, <1>3, <1>5, <2>1, <2>2 DEF InFull, HeardInFull, Asked
    <2> QED
        BY <2>3, <2>4, <2>5
<1> QED
    BY <1>7, <1>8, <1>9, <1>10, <1>11

LEMMA StepRace ==
    TypeOK /\ (\A r \in Requests : RaceInv(r)) /\ [Next]_vars
        => \A r \in Requests : RaceInv(r)'
<1> SUFFICES ASSUME TypeOK, [Next]_vars, NEW r \in Requests, \A q \in Requests : RaceInv(q)
             PROVE  RaceInv(r)'
    OBVIOUS
<1>1. ASSUME NEW q \in Requests,
             \/ Arrive(q) \/ Handle(q)
             \/ Leave(q) \/ WriteTimesOut(q) \/ TimeUp(q)
             \/ \E s \in Sources : Reply(s, q)
      PROVE  RaceInv(r)'
    <2>1. CASE q = r
        BY <1>1, <2>1, ArriveRace, ClockRace, ReplyRace, EndsRace, TakesRace DEF Handle
    <2>2. CASE q # r
        BY <1>1, <2>2, OthersSame, SameKeeps
    <2> QED
        BY <2>1, <2>2
<1>2. ASSUME \/ \E k \in Keys : Evict(k)
             \/ UNCHANGED vars
      PROVE  RaceInv(r)'
    <2>1. Same(r)
        BY <1>2 DEF Same, Evict, vars, clocks, result
    <2> QED
        BY <2>1, SameKeeps
<1> QED
    BY <1>1, <1>2 DEF Next

\* After a perfect reply has been taken the request is a 200 with all flags, and only
\* an error of a source makes a 500 (httpserver.go:214-233).
THEOREM PerfectAlwaysWins == Spec => []PerfectWins
<1> DEFINE Inv == \A r \in Requests : RaceInv(r)
<1>1. TypeOK /\ Inv => PerfectWins
    <2> SUFFICES ASSUME TypeOK, NEW r \in Requests, RaceInv(r), pc[r] = "done"
                 PROVE  /\ response[r].status = 500 => \E s \in taken[r] : reply[s][r].error
                        /\ (\E s \in taken[r] : Wins(s, r)) =>
                                Answered200(r) /\ response[r].result.source = Flag
        BY DEF PerfectWins, Wins
    <2> QED
        BY DEF RaceInv, Unheard, Verdict, Concluded, FromCache, Computed200, Answered200
<1>2. Init => Inv
    BY InitRace
<1>3. TypeOK /\ Inv /\ [Next]_vars => Inv'
    BY StepRace
<1> QED
    BY InitTypeOK, StepTypeOK, <1>1, <1>2, <1>3, PTL DEF Spec

\* If the server's write timeout is not longer than the handler's deadline, a fresh
\* answer with a false flag that reaches a client rests on all that the sources had
\* to say (httpserver.go:200-251, service.go:81-83).
THEOREM FreshAnswersAreWhole == WriteTimeout <= Deadline => (Spec => []FreshAnswersWhole)
<1> DEFINE Inv == \A r \in Requests : RaceInv(r)
<1> SUFFICES ASSUME WriteTimeout <= Deadline
             PROVE  Spec => []FreshAnswersWhole
    OBVIOUS
<1>1. TypeOK /\ Inv => FreshAnswersWhole
    <2> SUFFICES ASSUME TypeOK, NEW r \in received, RaceInv(r), Computed200(r),
                        response[r].result.source # Flag
                 PROVE  HeardInFull(r)
        BY DEF FreshAnswersWhole, TypeOK
    <2> QED
        BY DEF RaceInv, Concluded, FromCache, Computed200, Answered200
<1>2. Init => Inv
    BY InitRace
<1>3. TypeOK /\ Inv /\ [Next]_vars => Inv'
    BY StepRace
<1> QED
    BY InitTypeOK, StepTypeOK, <1>1, <1>2, <1>3, PTL DEF Spec

-----------------------------------------------------------------------------
(***************************************************************************)
(* The matches reported: a winner's alone, or those of all sources heard.  *)
(***************************************************************************)

Together(r) == [p \in Pairs |-> UNION {reply[s][r].match[p] : s \in taken[r]}]

HeardFrom(r, d) ==
    \/ \E s \in taken[r] : Wins(s, r) /\ d = reply[s][r].match
    \/ d = Together(r)

DetailsFromSources ==
    \A r \in Requests : Computed200(r) => HeardFrom(r, response[r].result.details)

DetailsInv(r) ==
    /\ pc[r] \in {"new", "lookup", "collect"} => details[r] = Together(r)
    /\ pc[r] \in {"evaluated", "stored"} => r \in failed \/ HeardFrom(r, details[r])
    /\ Computed200(r) => HeardFrom(r, response[r].result.details)

LEMMA InitDetails == Init => \A r \in Requests : DetailsInv(r)
BY DEF Init, DetailsInv, Together, NoMatches, Computed200, Answered200, Nothing

\* What has been taken stays as it is.
SameDetails(r) ==
    /\ taken'[r] = taken[r] /\ \A s \in taken[r] : reply'[s][r] = reply[s][r]
    /\ pc'[r] = pc[r] /\ details'[r] = details[r] /\ response'[r] = response[r]
    /\ r \in failed' <=> r \in failed

LEMMA TakenKeep ==
    ASSUME NEW r, taken'[r] = taken[r], \A s \in taken[r] : reply'[s][r] = reply[s][r]
    PROVE  /\ Together(r)' = Together(r)
           /\ \A d : HeardFrom(r, d) => HeardFrom(r, d)'
<1>1. Together(r)' = Together(r)
    BY DEF Together
<1>2. \A s \in taken[r] : Wins(s, r)' = Wins(s, r)
    BY DEF Wins, Perfect, Eval
<1> QED
    BY <1>1, <1>2 DEF HeardFrom

LEMMA SameDetailsKeep ==
    ASSUME NEW r \in Requests, DetailsInv(r), SameDetails(r)
    PROVE  DetailsInv(r)'
<1>1. /\ Together(r)' = Together(r)
      /\ \A d : HeardFrom(r, d) => HeardFrom(r, d)'
    BY TakenKeep DEF SameDetails
<1>2. Computed200(r)' = Computed200(r)
    BY DEF SameDetails, Computed200, Answered200
<1> QED
    BY <1>1, <1>2 DEF DetailsInv, SameDetails

LEMMA OthersDetails ==
    ASSUME TypeOK, NEW q \in Requests, NEW r \in Requests, r # q,
           \/ Arrive(q) \/ Handle(q)
           \/ Leave(q) \/ WriteTimesOut(q) \/ TimeUp(q)
           \/ \E s \in Sources : Reply(s, q)
    PROVE  SameDetails(r)
<1>1. Same(r)
    BY OthersSame
<1>2. details'[r] = details[r]
    BY DEF TypeOK, Arrive, Admit, Refuse, Handle, Hit, Miss, TakeError, SeeExpiry,
           TakeNominatim, TakePerfect, TakePartial, RespondError, Store, RespondOK, Finish, Report,
           Leave, WriteTimesOut, TimeUp, Reply, SourceReplies, result
<1>3. taken[r] \subseteq Sources
    BY DEF TypeOK
<1> QED
    BY <1>1, <1>2, <1>3 DEF Same, SameDetails

\* The steps that take nothing.
LEMMA RestDetails ==
    ASSUME TypeOK, NEW r \in Requests, RaceInv(r), DetailsInv(r),
           \/ Leave(r) \/ WriteTimesOut(r) \/ TimeUp(r)
           \/ \E s \in Sources : Reply(s, r)
    PROVE  SameDetails(r)
<1>1. CASE Leave(r) \/ WriteTimesOut(r) \/ TimeUp(r)
    BY <1>1 DEF SameDetails, Leave, WriteTimesOut, TimeUp, result
<1>2. ASSUME NEW s \in Sources, Reply(s, r)
      PROVE  SameDetails(r)
    <2>1. PICK x \in Replies : SourceReplies(s, r, x)
        BY <1>2 DEF Reply
    <2>2. /\ UNCHANGED <<pc, taken, details, failed, response>>
          /\ reply[s][r] = Nothing
          /\ \A t \in Sources : t # s => reply'[t][r] = reply[t][r]
        BY <1>2, <2>1 DEF TypeOK, Reply, SourceReplies, Working, clocks, result
    <2>3. taken[r] \subseteq Sources /\ s \notin taken[r]
        BY <2>2 DEF TypeOK, RaceInv, Verdict
    <2> QED
        BY <2>2, <2>3 DEF SameDetails
<1> QED
    BY <1>1, <1>2

LEMMA ArriveDetails ==
    ASSUME TypeOK, NEW r \in Requests, DetailsInv(r), Arrive(r)
    PROVE  DetailsInv(r)'
<1>1. CASE Admit(r)
    <2>1. /\ pc[r] = "new" /\ pc'[r] = "lookup"
          /\ UNCHANGED <<reply, taken, details, failed, response>>
        BY <1>1 DEF TypeOK, Admit, result
    <2>2. Together(r)' = Together(r) /\ Computed200(r)' = Computed200(r)
          /\ \A d : HeardFrom(r, d) => HeardFrom(r, d)'
        BY <2>1, TakenKeep DEF Computed200, Answered200
    <2> QED
        BY <2>1, <2>2 DEF DetailsInv
<1>2. ASSUME NEW x \in Refusals, Refuse(r, [status |-> x])
      PROVE  DetailsInv(r)'
    <2>1. pc'[r] = "refused" /\ response'[r] = [status |-> x]
        BY <1>2 DEF TypeOK, Refuse, Respond
    <2>2. x # 200
        BY DEF Refusals, Refusal, TooLong
    <2>3. ~Computed200(r)'
        BY <2>1, <2>2 DEF Computed200, Answered200
    <2> QED
        BY <2>1, <2>3 DEF DetailsInv
<1> QED
    BY <1>1, <1>2 DEF Arrive

\* Before and at the end of the race.
LEMMA EndsDetails ==
    ASSUME TypeOK, NEW r \in Requests, RaceInv(r), DetailsInv(r),
           Hit(r) \/ Miss(r) \/ RespondError(r) \/ Store(r) \/ RespondOK(r)
    PROVE  DetailsInv(r)'
<1>1. UNCHANGED <<reply, taken, details, failed>>
    BY DEF Hit, Miss, RespondError, Store, RespondOK, Finish, result
<1>2. Together(r)' = Together(r) /\ \A d : HeardFrom(r, d) => HeardFrom(r, d)'
    BY <1>1, TakenKeep
<1>3. CASE Miss(r)
    <2>1. pc[r] = "lookup" /\ pc'[r] = "collect" /\ UNCHANGED response
        BY <1>3 DEF TypeOK, Miss
    <2>2. Computed200(r)' = Computed200(r)
        BY <2>1 DEF Computed200, Answered200
    <2> QED
        BY <1>1, <1>2, <2>1, <2>2 DEF DetailsInv
<1>4. CASE Hit(r)
    <2>1. pc'[r] = "done" /\ response'[r].cached = TRUE
        BY <1>4 DEF TypeOK, Hit, Finish, Respond
    <2>2. ~Computed200(r)'
        BY <2>1 DEF Computed200
    <2> QED
        BY <2>1, <2>2 DEF DetailsInv
<1>5. CASE RespondError(r)
    <2>1. pc'[r] = "done" /\ response'[r].status = 500
        BY <1>5 DEF TypeOK, RespondError, Finish, Respond
    <2>2. ~Computed200(r)'
        BY <2>1 DEF Computed200, Answered200
    <2> QED
        BY <2>1, <2>2 DEF DetailsInv
<1>6. CASE Store(r)
    <2>1. pc[r] = "evaluated" /\ pc'[r] = "stored" /\ UNCHANGED response
        BY <1>6 DEF TypeOK, Store
    <2>2. Computed200(r)' = Computed200(r)
        BY <2>1 DEF Computed200, Answered200
    <2> QED
        BY <1>1, <1>2, <2>1, <2>2 DEF DetailsInv
<1>7. CASE RespondOK(r)
    <2>1. pc[r] = "stored" /\ pc'[r] = "done" /\ r \notin failed
        BY <1>7 DEF TypeOK, RaceInv, Concluded, RespondOK, Finish
    <2>2. response'[r].result.details = details[r]
        BY <1>7 DEF TypeOK, RespondOK, Finish, Respond, Result
    <2>3. HeardFrom(r, details[r])
        BY <2>1 DEF DetailsInv
    <2> QED
        BY <1>2, <2>1, <2>2, <2>3 DEF DetailsInv
<1> QED
    BY <1>3, <1>4, <1>5, <1>6, <1>7

\* What is taken from the sources.
LEMMA TakesDetails ==
    ASSUME TypeOK, NEW r \in Requests, RaceInv(r), DetailsInv(r),
           \/ TakeError(r) \/ SeeExpiry(r) \/ TakeNominatim(r)
           \/ \E s \in Sources : TakePerfect(s, r) \/ TakePartial(s, r)
    PROVE  DetailsInv(r)'
<1>1. pc[r] = "collect" /\ UNCHANGED <<reply, response>>
    BY DEF TakeError, SeeExpiry, TakeNominatim, TakePerfect, TakePartial, Arrived
<1>2. ~Computed200(r)'
    <2>1. response[r] = Nothing
        BY <1>1 DEF RaceInv, Concluded
    <2> QED
        BY <1>1, <2>1 DEF Computed200, Answered200, Nothing
<1>3. details[r] = Together(r)
    BY <1>1 DEF DetailsInv
<1>4. CASE TakeError(r)
    <2>1. pc'[r] = "evaluated" /\ r \in failed'
        BY <1>4 DEF TypeOK, TakeError, Evaluated
    <2> QED
        BY <1>2, <2>1 DEF DetailsInv
<1>5. CASE SeeExpiry(r)
    <2>1. pc'[r] = "evaluated" /\ UNCHANGED <<taken, details>>
        BY <1>5 DEF TypeOK, SeeExpiry, Evaluated, result
    <2>2. Together(r)' = Together(r)
        BY <1>1, <2>1 DEF Together
    <2> QED
        BY <1>2, <1>3, <2>1, <2>2 DEF DetailsInv, HeardFrom
<1>6. CASE TakeNominatim(r)
    <2>1. /\ pc'[r] = "evaluated" /\ taken'[r] = {"nominatim"}
          /\ details'[r] = reply["nominatim"][r].match
          /\ reply["nominatim"][r] # Nothing
        BY <1>1, <1>6 DEF TypeOK, RaceInv, Listening, TakeNominatim, Take, Report, Evaluated, Heard
    <2>2. reply["nominatim"][r].match \in [Pairs -> SUBSET Countries]
        BY <2>1, ReplyTypes DEF Sources
    <2>3. Together(r)' = [p \in Pairs |-> UNION {reply["nominatim"][r].match[p]}]
        BY <1>1, <2>1 DEF Together
    <2>4. Together(r)' = details'[r]
        <3> DEFINE m == reply["nominatim"][r].match
        <3>1. m = [p \in Pairs |-> m[p]]
            BY <2>2
        <3>2. [p \in Pairs |-> UNION {m[p]}] = [p \in Pairs |-> m[p]]
            OBVIOUS
        <3> QED
            BY <2>1, <2>3, <3>1, <3>2
    <2> QED
        BY <1>2, <2>1, <2>4 DEF DetailsInv, HeardFrom
<1>7. ASSUME NEW s \in Sources, TakePerfect(s, r)
      PROVE  DetailsInv(r)'
    <2>1. /\ pc'[r] = "evaluated" /\ taken'[r] = taken[r] \cup {s}
          /\ details'[r] = reply[s][r].match
          /\ Wins(s, r)
        BY <1>7 DEF TypeOK, TakePerfect, Take, Report, Evaluated, Wins
    <2>2. Wins(s, r)'
        BY <1>1, <2>1 DEF Wins, Perfect, Eval
    <2> QED
        BY <1>1, <1>2, <2>1, <2>2 DEF DetailsInv, HeardFrom
<1>8. ASSUME NEW s \in Sources, TakePartial(s, r)
      PROVE  DetailsInv(r)'
    <2>1. /\ pc'[r] \in {"collect", "evaluated"} /\ taken'[r] = taken[r] \cup {s}
          /\ details'[r] = [p \in Pairs |-> details[r][p] \cup reply[s][r].match[p]]
        BY <1>1, <1>8 DEF TypeOK, TakePartial, Take, Evaluated, Appended
    <2>2. Together(r)' =
            [p \in Pairs |-> UNION {reply[t][r].match[p] : t \in taken[r] \cup {s}}]
        BY <1>1, <2>1 DEF Together
    <2>3. \A p \in Pairs : details[r][p] = UNION {reply[t][r].match[p] : t \in taken[r]}
        BY <1>3 DEF Together
    <2>4. ASSUME NEW p \in Pairs
          PROVE  details[r][p] \cup reply[s][r].match[p]
                    = UNION {reply[t][r].match[p] : t \in taken[r] \cup {s}}
        BY <2>3
    <2>5. Together(r)' = details'[r]
        BY <2>1, <2>2, <2>4
    <2> QED
        BY <1>2, <2>1, <2>5 DEF DetailsInv, HeardFrom
<1> QED
    BY <1>4, <1>5, <1>6, <1>7, <1>8

LEMMA StepDetails ==
    TypeOK /\ [Next]_vars /\ (\A r \in Requests : RaceInv(r) /\ DetailsInv(r))
        => \A r \in Requests : DetailsInv(r)'
<1> SUFFICES ASSUME TypeOK, [Next]_vars, NEW r \in Requests,
                    \A q \in Requests : RaceInv(q) /\ DetailsInv(q)
             PROVE  DetailsInv(r)'
    OBVIOUS
<1>1. ASSUME NEW q \in Requests,
             \/ Arrive(q) \/ Handle(q)
             \/ Leave(q) \/ WriteTimesOut(q) \/ TimeUp(q)
             \/ \E s \in Sources : Reply(s, q)
      PROVE  DetailsInv(r)'
    <2>1. CASE q = r
        BY <1>1, <2>1, ArriveDetails, EndsDetails, TakesDetails, RestDetails, SameDetailsKeep
        DEF Handle
    <2>2. CASE q # r
        BY <1>1, <2>2, OthersDetails, SameDetailsKeep
    <2> QED
        BY <2>1, <2>2
<1>2. ASSUME \/ \E k \in Keys : Evict(k)
             \/ UNCHANGED vars
      PROVE  DetailsInv(r)'
    <2>1. SameDetails(r)
        BY <1>2 DEF SameDetails, Evict, vars, clocks, result
    <2> QED
        BY <2>1, SameDetailsKeep
<1> QED
    BY <1>1, <1>2 DEF Next

\* The matches a fresh answer reports are those of one source that had all flags, and
\* nothing of the other, or exactly those of all the sources heard
\* (httpserver.go:215-246, 253-263).
THEOREM DetailsAlwaysFromSources == Spec => []DetailsFromSources
<1> DEFINE Race == \A r \in Requests : RaceInv(r)
           Details == \A r \in Requests : DetailsInv(r)
<1>1. Details => DetailsFromSources
    BY DEF DetailsInv, DetailsFromSources
<1>2. Init => Race /\ Details
    BY InitRace, InitDetails
<1>3. TypeOK /\ Race /\ [Next]_vars => Race'
    BY StepRace
<1>4. TypeOK /\ Race /\ Details /\ [Next]_vars => Details'
    BY StepDetails
<1> QED
    BY InitTypeOK, StepTypeOK, <1>1, <1>2, <1>3, <1>4, PTL DEF Spec

\* What has been taken from a source was sent by it.
LEMMA TakenWasSent == Spec => [](\A r \in Requests : \A s \in taken[r] : reply[s][r] # Nothing)
<1> DEFINE Race == \A r \in Requests : RaceInv(r)
           Sent == \A r \in Requests : \A s \in taken[r] : reply[s][r] # Nothing
<1>1. Race => Sent
    BY DEF RaceInv, Verdict
<1>2. Init => Race
    BY InitRace
<1>3. TypeOK /\ Race /\ [Next]_vars => Race'
    BY StepRace
<1> QED
    BY InitTypeOK, StepTypeOK, <1>1, <1>2, <1>3, PTL DEF Spec

-----------------------------------------------------------------------------
(***************************************************************************)
(* The cache.  An entry, and an answer served from one, is the answer of a *)
(* request with the same key; that request has heard its sources in full,  *)
(* or its client is gone.                                                  *)
(***************************************************************************)

CacheInv ==
    /\ CacheHoldsAnswers
    /\ \A r \in Requests : FromCache(r) =>
            \E q \in Requests : Answers(q, KeyOf[r], response[r].result)

LEMMA InitCache == Init => CacheInv
BY DEF Init, CacheInv, CacheHoldsAnswers, FromCache

\* A step leaves an entry alone, drops it, or stores a request's result.
LEMMA CacheStep ==
    ASSUME TypeOK, [Next]_vars, NEW k \in Keys
    PROVE  \/ cache'[k] \in {cache[k], Nothing}
           \/ \E r \in Requests : Store(r) /\ KeyOf[r] = k /\ cache'[k] = Result(r)
<1>1. ASSUME NEW r \in Requests, Store(r)
      PROVE  \/ cache'[k] \in {cache[k], Nothing}
             \/ KeyOf[r] = k /\ cache'[k] = Result(r)
    BY <1>1, CheckHandlerAssumption
    DEF TypeOK, Store, AddEntry, CheckHandlerAssumption
<1>2. ASSUME NEW r \in Requests, NEW s \in Sources, TakePerfect(s, r) \/ TakePartial(s, r)
      PROVE  cache' = cache
    BY <1>2 DEF TakePerfect, TakePartial
<1>3. ASSUME NEW r \in Requests, Handle(r), ~Store(r)
      PROVE  cache' = cache
    BY <1>2, <1>3
    DEF Handle, Hit, Miss, TakeError, SeeExpiry, TakeNominatim, RespondError, RespondOK
<1>4. ASSUME NEW r \in Requests, Arrive(r) \/ Leave(r) \/ WriteTimesOut(r) \/ TimeUp(r)
      PROVE  cache' = cache
    BY <1>4 DEF Arrive, Admit, Refuse, Leave, WriteTimesOut, TimeUp
<1>5. ASSUME NEW r \in Requests, NEW s \in Sources, Reply(s, r)
      PROVE  cache' = cache
    BY <1>5 DEF Reply, SourceReplies
<1>6. ASSUME NEW j \in Keys, Evict(j)
      PROVE  cache'[k] \in {cache[k], Nothing}
    BY <1>6 DEF TypeOK, Evict
<1>7. CASE UNCHANGED vars
    BY <1>7 DEF vars
<1> QED
    BY <1>1, <1>3, <1>4, <1>5, <1>6, <1>7 DEF Next

\* A request that has its result, or its response, keeps it; sending the result is all
\* it does after storing it.
LEMMA EndStays ==
    ASSUME TypeOK, [Next]_vars, NEW q \in Requests, RaceInv(q),
           pc[q] \in {"stored", "done", "refused"}
    PROVE  \/ /\ pc'[q] = pc[q] /\ response'[q] = response[q]
              /\ source'[q] = source[q] /\ details'[q] = details[q]
           \/ RespondOK(q)
<1>1. ASSUME NEW r \in Requests, r # q,
             \/ Arrive(r) \/ Handle(r)
             \/ Leave(r) \/ WriteTimesOut(r) \/ TimeUp(r)
             \/ \E s \in Sources : Reply(s, r)
      PROVE  Same(q) /\ SameDetails(q)
    BY <1>1, OthersSame, OthersDetails
<1>2. ASSUME Handle(q)
      PROVE  RespondOK(q)
    BY <1>2 DEF Handle, Hit, Miss, TakeError, SeeExpiry, TakeNominatim, TakePerfect,
                TakePartial, RespondError, Store, Arrived
<1>3. ~Arrive(q)
    BY DEF Arrive, Admit, Refuse
<1>4. CASE \/ Leave(q) \/ WriteTimesOut(q) \/ TimeUp(q)
           \/ \E s \in Sources : Reply(s, q)
           \/ \E k \in Keys : Evict(k)
           \/ UNCHANGED vars
    BY <1>4 DEF Leave, WriteTimesOut, TimeUp, Reply, SourceReplies, Evict, vars, result
<1> QED
    BY <1>1, <1>2, <1>3, <1>4 DEF Next, Same, SameDetails

\* x is q's answer under k after the step.
AnswersThen(q, k, x) ==
    /\ KeyOf[q] = k
    /\ \/ pc'[q] = "stored" /\ Result(q)' = x
       \/ Computed200(q)' /\ response'[q].result = x

LEMMA AnswerStays ==
    ASSUME TypeOK, [Next]_vars, NEW q \in Requests, RaceInv(q), NEW k, NEW x, Answers(q, k, x)
    PROVE  AnswersThen(q, k, x)
<1>1. pc[q] \in {"stored", "done", "refused"}
    BY DEF Answers, RaceInv, Concluded, Computed200, Answered200
<1>2. CASE /\ pc'[q] = pc[q] /\ response'[q] = response[q]
           /\ source'[q] = source[q] /\ details'[q] = details[q]
    BY <1>2 DEF Answers, AnswersThen, Result, Computed200, Answered200
<1>3. CASE RespondOK(q)
    <2>1. /\ pc[q] = "stored"
          /\ response'[q] = [status |-> 200, cached |-> FALSE, result |-> Result(q)]
        BY <1>3 DEF TypeOK, RespondOK, Finish, Respond
    <2>2. ~Computed200(q)
        BY <2>1 DEF RaceInv, Concluded, Computed200, Answered200
    <2> QED
        BY <2>1, <2>2 DEF Answers, AnswersThen, Computed200, Answered200, Nothing
<1> QED
    BY <1>1, <1>2, <1>3, EndStays

\* Who is answered from the cache is answered with the entry of its key, then and for good.
LEMMA HitStep ==
    ASSUME TypeOK, [Next]_vars, NEW r \in Requests, RaceInv(r), FromCache(r)'
    PROVE  \/ FromCache(r) /\ response'[r] = response[r]
           \/ cache[KeyOf[r]] # Nothing /\ response'[r].result = cache[KeyOf[r]]
<1>1. ASSUME NEW q \in Requests, Arrive(q)
      PROVE  response'[r] = response[r]
    <2>1. CASE q = r
        <3>1. ASSUME NEW x \in Refusals, Refuse(r, [status |-> x])
              PROVE  FALSE
            <4>1. x # 200
                BY DEF Refusals, Refusal, TooLong
            <4>2. response'[r] = [status |-> x]
                BY <3>1 DEF TypeOK, Refuse, Respond
            <4> QED
                BY <4>1, <4>2 DEF FromCache
        <3> QED
            BY <1>1, <2>1, <3>1 DEF Arrive, Admit
    <2> QED
        BY <1>1, <2>1, OthersSame DEF Same
<1>2. ASSUME NEW q \in Requests, Handle(q), ~(q = r /\ Hit(r))
      PROVE  response'[r] = response[r]
    <2>1. CASE q # r
        BY <1>2, <2>1, OthersSame DEF Same
    <2>2. ~RespondError(r) /\ ~RespondOK(r)
        <3>1. RespondError(r) => response'[r] = [status |-> 500]
            BY DEF TypeOK, RespondError, Finish, Respond
        <3>2. RespondOK(r) =>
                response'[r] = [status |-> 200, cached |-> FALSE, result |-> Result(r)]
            BY DEF TypeOK, RespondOK, Finish, Respond
        <3> QED
            BY <3>1, <3>2 DEF FromCache
    <2>3. CASE q = r
        BY <1>2, <2>2, <2>3 DEF Handle, Miss, TakeError, SeeExpiry, TakeNominatim, TakePerfect,
                               TakePartial, Store
    <2> QED
        BY <2>1, <2>3
<1>3. CASE Hit(r)
    BY <1>3 DEF TypeOK, Hit, Finish, Respond
<1>4. CASE \/ \E q \in Requests : Leave(q) \/ WriteTimesOut(q) \/ TimeUp(q)
           \/ \E q \in Requests, s \in Sources : Reply(s, q)
           \/ \E k \in Keys : Evict(k)
           \/ UNCHANGED vars
    <2>1. UNCHANGED response
        BY <1>4 DEF Leave, WriteTimesOut, TimeUp, Reply, SourceReplies, Evict, vars
    <2> QED
        BY <2>1 DEF FromCache
<1> QED
    BY <1>1, <1>2, <1>3, <1>4 DEF Next, FromCache

LEMMA StepCache ==
    TypeOK /\ (\A r \in Requests : RaceInv(r)) /\ CacheInv /\ [Next]_vars => CacheInv'
<1> SUFFICES ASSUME TypeOK, \A r \in Requests : RaceInv(r), CacheInv, [Next]_vars
             PROVE  CacheInv'
    OBVIOUS
<1>1. ASSUME NEW k \in Keys, cache'[k] # Nothing
      PROVE  \E q \in Requests : AnswersThen(q, k, cache'[k])
    <2>1. CASE cache'[k] \in {cache[k], Nothing}
        <3>1. PICK q \in Requests : Answers(q, k, cache[k])
            BY <1>1, <2>1 DEF CacheInv, CacheHoldsAnswers
        <3>2. AnswersThen(q, k, cache[k])
            BY <3>1, AnswerStays
        <3> QED
            BY <1>1, <2>1, <3>2
    <2>2. ASSUME NEW r \in Requests, Store(r), KeyOf[r] = k, cache'[k] = Result(r)
          PROVE  AnswersThen(r, k, cache'[k])
        <3>1. pc'[r] = "stored" /\ Result(r)' = Result(r)
            BY <2>2 DEF TypeOK, Store, Result, result
        <3> QED
            BY <2>2, <3>1 DEF AnswersThen
    <2> QED
        BY <2>1, <2>2, CacheStep
<1>2. ASSUME NEW r \in Requests, FromCache(r)'
      PROVE  \E q \in Requests : AnswersThen(q, KeyOf[r], response'[r].result)
    <2>1. KeyOf[r] \in Keys
        BY CheckHandlerAssumption DEF CheckHandlerAssumption
    <2>2. \E q \in Requests : Answers(q, KeyOf[r], response'[r].result)
        <3>1. CASE FromCache(r) /\ response'[r] = response[r]
            BY <3>1 DEF CacheInv
        <3>2. CASE cache[KeyOf[r]] # Nothing /\ response'[r].result = cache[KeyOf[r]]
            BY <2>1, <3>2 DEF CacheInv, CacheHoldsAnswers
        <3> QED
            BY <1>2, <3>1, <3>2, HitStep
    <2>3. PICK q \in Requests : Answers(q, KeyOf[r], response'[r].result)
        BY <2>2
    <2> QED
        BY <2>3, AnswerStays
<1> QED
    BY <1>1, <1>2 DEF CacheInv, CacheHoldsAnswers, Answers, AnswersThen

\* What is in the cache is the answer of a request with the same key, which is sent
\* with a 200; no failure is ever cached (httpserver.go:266-309).
THEOREM CacheHoldsOnlyAnswers == Spec => []CacheHoldsAnswers
<1> DEFINE Race == \A r \in Requests : RaceInv(r)
<1>1. CacheInv => CacheHoldsAnswers
    BY DEF CacheInv
<1>2. Init => Race
    BY InitRace
<1>3. TypeOK /\ Race /\ [Next]_vars => Race'
    BY StepRace
<1>4. TypeOK /\ Race /\ CacheInv /\ [Next]_vars => CacheInv'
    BY StepCache
<1> QED
    BY InitTypeOK, StepTypeOK, InitCache, <1>1, <1>2, <1>3, <1>4, PTL DEF Spec

\* If the server's write timeout is not longer than the handler's deadline, a false flag
\* from the cache was found by a request that had heard its sources in full, or whose own
\* client was gone, whatever requests store and whatever memcached drops
\* (httpserver.go:158-173, 200-251, 297-301, 441-450; service.go:81-83).
THEOREM CachedAnswersAreWhole == WriteTimeout <= Deadline => (Spec => []CachedAnswersWhole)
<1> DEFINE Race == \A r \in Requests : RaceInv(r)
<1> SUFFICES ASSUME WriteTimeout <= Deadline
             PROVE  Spec => []CachedAnswersWhole
    OBVIOUS
<1>1. TypeOK /\ Race /\ CacheInv => CachedAnswersWhole
    <2> SUFFICES ASSUME TypeOK, Race, CacheInv, NEW r \in Requests, FromCache(r),
                        response[r].result.source # Flag
                 PROVE  \E q \in Requests : /\ Answers(q, KeyOf[r], response[r].result)
                                            /\ HeardInFull(q) \/ q \in lost
        BY DEF CachedAnswersWhole
    <2>1. PICK q \in Requests : Answers(q, KeyOf[r], response[r].result)
        BY DEF CacheInv
    <2>2. CASE pc[q] = "stored" /\ Result(q) = response[r].result
        <3>1. source[q] # Flag
            BY <2>2 DEF Result
        <3> QED
            BY <2>1, <2>2, <3>1 DEF RaceInv, InFull, Lasts, Concluded
    <2>3. CASE Computed200(q) /\ response[q].result = response[r].result
        <3>1. pc[q] = "done" /\ ~FromCache(q) /\ response[q].status = 200
            BY <2>3 DEF RaceInv, Concluded, Computed200, Answered200, FromCache
        <3> QED
            BY <2>1, <2>3, <3>1 DEF RaceInv, Concluded
    <2> QED
        BY <2>1, <2>2, <2>3 DEF Answers
<1>2. Init => Race
    BY InitRace
<1>3. TypeOK /\ Race /\ [Next]_vars => Race'
    BY StepRace
<1>4. TypeOK /\ Race /\ CacheInv /\ [Next]_vars => CacheInv'
    BY StepCache
<1> QED
    BY InitTypeOK, StepTypeOK, InitCache, <1>1, <1>2, <1>3, <1>4, PTL DEF Spec

-----------------------------------------------------------------------------
(***************************************************************************)
(* The metrics.                                                            *)
(***************************************************************************)

\* The requests of a user that are in the handler, and those that have left it.
In(u) == {r \in {q \in Requests : UseJWT /\ UserOf[q] = u} : Underway(r)}
Out(u) == {r \in {q \in Requests : UseJWT /\ UserOf[q] = u} : pc[r] = "done"}

LEMMA InOutFinite == \A u : /\ IsFiniteSet(In(u)) /\ IsFiniteSet(Out(u))
                           /\ Cardinality(In(u)) \in Nat /\ Cardinality(Out(u)) \in Nat
<1>1. \A u : In(u) \subseteq Requests /\ Out(u) \subseteq Requests
    BY DEF In, Out
<1>2. IsFiniteSet(Requests)
    BY CheckHandlerAssumption DEF CheckHandlerAssumption
<1>3. \A u : IsFiniteSet(In(u)) /\ IsFiniteSet(Out(u))
    BY <1>1, <1>2, FS_Subset
<1> QED
    BY <1>3, FS_CardinalityType

\* A step lets a request in, lets one out, or does neither.
LetIn(r) ==
    /\ pc[r] = "new" /\ pc' = [pc EXCEPT ![r] = "lookup"]
    /\ active' = IF UseJWT THEN [active EXCEPT ![UserOf[r]] = @ + 1] ELSE active
    /\ UNCHANGED served

LetOut(r) == Underway(r) /\ pc' = [pc EXCEPT ![r] = "done"] /\ Counted(r)

Neither ==
    /\ UNCHANGED metrics
    /\ \A r \in Requests : /\ Underway(r)' <=> Underway(r)
                           /\ pc'[r] = "done" <=> pc[r] = "done"

LEMMA MetricsStep ==
    ASSUME TypeOK, [Next]_vars
    PROVE  (\E r \in Requests : LetIn(r) \/ LetOut(r)) \/ Neither
<1>1. ASSUME NEW r \in Requests, Arrive(r)
      PROVE  LetIn(r) \/ Neither
    BY <1>1 DEF TypeOK, LetIn, Neither, Underway, Arrive, Admit, Refuse, metrics
<1>2. ASSUME NEW r \in Requests, Hit(r) \/ RespondError(r) \/ RespondOK(r)
      PROVE  LetOut(r)
    BY <1>2 DEF LetOut, Underway, Hit, RespondError, RespondOK, Finish
<1>3. ASSUME NEW r \in Requests,
             Miss(r) \/ TakeError(r) \/ SeeExpiry(r) \/ TakeNominatim(r) \/ Store(r)
      PROVE  Neither
    BY <1>3 DEF TypeOK, Neither, Underway, Miss, TakeError, SeeExpiry, TakeNominatim, Store,
                Arrived, Evaluated
<1>4. ASSUME NEW r \in Requests, NEW s \in Sources, TakePerfect(s, r) \/ TakePartial(s, r)
      PROVE  Neither
    BY <1>4 DEF TypeOK, Neither, Underway, TakePerfect, TakePartial, Arrived, Evaluated
<1>5. CASE \/ \E r \in Requests : Leave(r) \/ WriteTimesOut(r) \/ TimeUp(r)
           \/ \E r \in Requests, s \in Sources : Reply(s, r)
           \/ \E k \in Keys : Evict(k)
           \/ UNCHANGED vars
    BY <1>5 DEF Neither, Underway, Leave, WriteTimesOut, TimeUp, Reply, SourceReplies,
                Evict, vars, metrics
<1> QED
    BY <1>1, <1>2, <1>3, <1>4, <1>5 DEF Next, Handle

Counts == \A u \in Users : active[u] = Cardinality(In(u)) /\ served[u] = Cardinality(Out(u))

LEMMA InitCounts == Init => Counts
<1> SUFFICES ASSUME Init, NEW u \in Users
             PROVE  active[u] = Cardinality(In(u)) /\ served[u] = Cardinality(Out(u))
    BY DEF Counts
<1>1. In(u) = {} /\ Out(u) = {}
    BY DEF Init, In, Out, Underway
<1> QED
    BY <1>1, FS_EmptySet DEF Init

LEMMA StepCounts == TypeOK /\ Counts /\ [Next]_vars => Counts'
<1> SUFFICES ASSUME TypeOK, Counts, [Next]_vars, NEW u \in Users
             PROVE  active'[u] = Cardinality(In(u)') /\ served'[u] = Cardinality(Out(u)')
    BY DEF Counts
<1> DEFINE counted(r) == UseJWT /\ UserOf[r] = u
<1>1. ASSUME NEW r \in Requests, LetIn(r)
      PROVE  active'[u] = Cardinality(In(u)') /\ served'[u] = Cardinality(Out(u)')
    <2>1. Out(u)' = Out(u) /\ r \notin In(u)
        BY <1>1 DEF TypeOK, LetIn, In, Out, Underway
    <2>2. CASE counted(r)
        <3>1. In(u)' = In(u) \cup {r}
            BY <1>1, <2>2 DEF TypeOK, LetIn, In, Underway
        <3>2. active'[u] = active[u] + 1 /\ served' = served
            BY <1>1, <2>2 DEF TypeOK, LetIn
        <3> QED
            BY <2>1, <3>1, <3>2, InOutFinite, FS_AddElement, ZenonT(20) DEF Counts
    <2>3. CASE ~counted(r)
        <3>1. In(u)' = In(u)
            BY <1>1, <2>3 DEF TypeOK, LetIn, In, Underway
        <3>2. active'[u] = active[u] /\ served' = served
            BY <1>1, <2>3 DEF TypeOK, LetIn
        <3> QED
            BY <2>1, <3>1, <3>2 DEF Counts
    <2> QED
        BY <2>2, <2>3
<1>2. ASSUME NEW r \in Requests, LetOut(r)
      PROVE  active'[u] = Cardinality(In(u)') /\ served'[u] = Cardinality(Out(u)')
    <2>1. CASE counted(r)
        <3>1. /\ In(u)' = In(u) \ {r} /\ r \in In(u)
              /\ Out(u)' = Out(u) \cup {r} /\ r \notin Out(u)
            BY <1>2, <2>1 DEF TypeOK, LetOut, In, Out, Underway
        <3>2. active'[u] = active[u] - 1 /\ served'[u] = served[u] + 1
            BY <1>2, <2>1 DEF TypeOK, LetOut, Counted
        <3>3. Cardinality(In(u) \ {r}) = Cardinality(In(u)) - 1
            BY <3>1, InOutFinite, FS_RemoveElement
        <3>4. Cardinality(Out(u) \cup {r}) = Cardinality(Out(u)) + 1
            BY <3>1, InOutFinite, FS_AddElement
        <3> QED
            BY <3>1, <3>2, <3>3, <3>4 DEF Counts
    <2>2. CASE ~counted(r)
        <3>1. In(u)' = In(u) /\ Out(u)' = Out(u)
            BY <1>2, <2>2 DEF TypeOK, LetOut, In, Out, Underway
        <3>2. active'[u] = active[u] /\ served'[u] = served[u]
            BY <1>2, <2>2 DEF TypeOK, LetOut, Counted, metrics
        <3> QED
            BY <3>1, <3>2 DEF Counts
    <2> QED
        BY <2>1, <2>2
<1>3. CASE Neither
    <2>1. In(u)' = In(u) /\ Out(u)' = Out(u)
        BY <1>3 DEF Neither, In, Out
    <2> QED
        BY <1>3, <2>1 DEF Neither, Counts, metrics
<1> QED
    BY <1>1, <1>2, <1>3, MetricsStep

\* The gauge and the counter of a user are right on whatever way requests are refused,
\* answered, or left by their clients (httpserver.go:145-154).
THEOREM MetricsAreRight == Spec => []MetricsRight
<1>1. Counts => MetricsRight
    BY DEF Counts, MetricsRight, In, Out
<1> QED
    BY InitTypeOK, StepTypeOK, InitCounts, StepCounts, <1>1, PTL DEF Spec
=============================================================================

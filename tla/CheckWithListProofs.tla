------------------------ MODULE CheckWithListProofs ------------------------
(***************************************************************************)
(* Proof that the handler with the concrete lookup of the address list in  *)
(* it takes no step that CheckHandler, where the list is just a source,    *)
(* does not allow; so what is proved of CheckHandler holds of it.          *)
(***************************************************************************)
EXTENDS CheckWithList, CheckHandlerProofs

-----------------------------------------------------------------------------
\* The lookup, and the channel on which it gives the handler its result.
ListInv ==
    /\ answered \subseteq Pairs /\ open \subseteq Pairs
    /\ Pairs \ open \subseteq answered
    /\ answer \in Listable /\ found \in Listable
    /\ \A k \in Pairs \ open : found[k] = answer[k]
    /\ sent \in BOOLEAN
    /\ sent <=> reply["list"][It] # Nothing

SystemInv == TypeOK /\ ListInv

LEMMA TheRequest == Requests = {It} /\ Asked(It) = Sources /\ Listable \subseteq Matches
BY CheckWithListAssumption DEF CheckWithListAssumption, Asked

LEMMA InitSystem == SystemInit => SystemInv
<1>1. NoMatches \in Listable
    BY DEF NoMatches, Listable
<1> QED
    BY <1>1, InitTypeOK, TheRequest
    DEF SystemInit, Init, ListInit, SystemInv, ListInv, Sources

\* A step of the handler is one of CheckHandler and leaves the list's reply alone.
LEMMA HandlerSteps ==
    ASSUME SystemInv, HandlerStep, UNCHANGED listVars
    PROVE  Next /\ reply'["list"][It] = reply["list"][It]
<1>1. Next
    BY TheRequest DEF HandlerStep, Next, Sources
<1>2. CASE Reply("nominatim", It)
    BY <1>1, <1>2, TheRequest DEF Reply, SourceReplies, SystemInv, TypeOK, Sources
<1>3. ASSUME NEW s \in Sources, TakePerfect(s, It) \/ TakePartial(s, It)
      PROVE  reply' = reply
    BY <1>3 DEF TakePerfect, TakePartial
<1>4. CASE Arrive(It) \/ Handle(It)
    BY <1>1, <1>3, <1>4
    DEF Arrive, Admit, Refuse, Handle, Hit, Miss, TakeError, SeeExpiry, TakeNominatim,
        RespondError, Store, RespondOK, Finish
<1>5. CASE \/ Leave(It) \/ WriteTimesOut(It) \/ TimeUp(It)
           \/ \E k \in Keys : Evict(k)
    BY <1>1, <1>5 DEF Leave, WriteTimesOut, TimeUp, Evict
<1> QED
    BY <1>2, <1>4, <1>5 DEF HandlerStep

\* What Handle would send.
Sending == [match |-> found', error |-> FALSE, whole |-> open' = {}]

\* A step of Handle keeps what it has combined.
LEMMA HandleCombines ==
    ASSUME SystemInv, ListHandles
    PROVE  /\ ~sent /\ sent' \in BOOLEAN
           /\ sent' => open' = {} \/ ContextDone(It)
           /\ open' \subseteq open /\ Pairs \ open' \subseteq answered
           /\ found' \in Listable
           /\ \A k \in Pairs \ open' : found'[k] = answer[k]
           /\ UNCHANGED <<answered, answer>>
<1>1. CASE List!GiveUp
    BY <1>1 DEF List!GiveUp, SystemInv, ListInv
<1>2. ASSUME NEW k \in Pairs, List!TakeAnswer(k)
      PROVE  /\ ~sent /\ sent' \in BOOLEAN
             /\ sent' => open' = {} \/ ContextDone(It)
             /\ open' \subseteq open /\ Pairs \ open' \subseteq answered
             /\ found' \in Listable
             /\ \A j \in Pairs \ open' : found'[j] = answer[j]
             /\ UNCHANGED <<answered, answer>>
    BY <1>2 DEF List!TakeAnswer, List!Combine, SystemInv, ListInv, Listable
<1> QED
    BY <1>1, <1>2 DEF ListHandles, List!Handle, List!Checks, Pairs

\* Sending is a reply of the source "list"; everything else Handle does, the handler
\* does not see.
LEMMA HandleSteps ==
    ASSUME SystemInv, ListHandles
    PROVE  [Next]_vars /\ ListInv'
<1>1. ~sent /\ reply["list"][It] = Nothing
    BY HandleCombines DEF SystemInv, ListInv
<1>2. CASE ~sent'
    <2>1. UNCHANGED vars
        BY <1>2 DEF ListHandles, HandlerUnchanged, vars, clocks, metrics, result
    <2> QED
        BY <1>1, <1>2, <2>1, HandleCombines DEF SystemInv, ListInv, vars
<1>3. CASE sent'
    <2>1. Sending \in Replies
        BY HandleCombines, TheRequest DEF Sending, Replies
    <2>2. /\ HandlerUnchanged /\ Called
          /\ reply' = [reply EXCEPT !["list"][It] = Sending]
        BY <1>3 DEF ListHandles, Sending
    <2>3. Working("list", It)
        BY <1>1, <2>2, TheRequest DEF Working, Called, Sources
    <2>4. SourceReplies("list", It, Sending)
        <3>1. Lookup("list", It)!MayReply(Sending)
            BY <1>1, <1>3, HandleCombines DEF Lookup!MayReply, Lookup!Pending, Nothing, Sending
        <3> QED
            BY <2>2, <2>3, <3>1 DEF SourceReplies, HandlerUnchanged
    <2>5. Next
        BY <2>1, <2>3, <2>4, TheRequest DEF Next, Reply, Sources
    <2>6. reply'["list"][It] # Nothing
        BY <2>2, TheRequest DEF SystemInv, TypeOK, Sources, Sending, Nothing
    <2> QED
        BY <1>3, <2>5, <2>6, HandleCombines DEF SystemInv, ListInv
<1> QED
    BY <1>2, <1>3

\* An answer of a check that had none.
LEMMA AnswerSteps ==
    ASSUME SystemInv, NEW k \in Pairs, ListAnswers(k)
    PROVE  UNCHANGED vars /\ ListInv'
<1>1. UNCHANGED vars
    BY DEF ListAnswers, HandlerUnchanged, vars, clocks, metrics, result
<1>2. /\ k \notin answered /\ answered' = answered \cup {k}
      /\ UNCHANGED <<open, sent, found>>
      /\ answer' \in Listable
      /\ \A j \in Pairs : j # k => answer'[j] = answer[j]
    BY DEF ListAnswers, List!Answer, SystemInv, ListInv, Listable
<1> QED
    BY <1>1, <1>2 DEF SystemInv, ListInv, vars

LEMMA SystemStep == SystemInv /\ [SystemNext]_systemVars => SystemInv' /\ [Next]_vars
<1> SUFFICES ASSUME SystemInv, [SystemNext]_systemVars
             PROVE  SystemInv' /\ [Next]_vars
    OBVIOUS
<1>1. ListInv' /\ [Next]_vars
    <2>1. CASE HandlerStep /\ UNCHANGED listVars
        BY <2>1, HandlerSteps DEF SystemInv, ListInv, listVars
    <2>2. CASE ListHandles
        BY <2>2, HandleSteps
    <2>3. CASE \E k \in Pairs : ListAnswers(k)
        BY <2>3, AnswerSteps
    <2>4. CASE UNCHANGED systemVars
        BY <2>4 DEF SystemInv, ListInv, systemVars, listVars, vars
    <2> QED
        BY <2>1, <2>2, <2>3, <2>4 DEF SystemNext
<1>2. TypeOK'
    BY <1>1, StepTypeOK DEF SystemInv
<1> QED
    BY <1>1, <1>2 DEF SystemInv

-----------------------------------------------------------------------------
\* The reply of the list holds what each check has found, in whatever order they
\* answered, unless the handler has stopped listening (listmatcher/handler.go:97-116).
THEOREM ListAnswersCombined == SystemSpec => []AnswersCombined
<1>1. SystemInv => AnswersCombined
    <2> SUFFICES ASSUME SystemInv, open = {}
                 PROVE  found = answer
        BY DEF AnswersCombined, List!AnswersCombined
    <2> QED
        BY DEF SystemInv, ListInv, Listable
<1> QED
    BY InitSystem, SystemStep, <1>1, PTL DEF SystemSpec

\* The handler with the list's lookup in it implements CheckHandler: its safety part,
\* liveness is left to TLC (listmatcher/handler.go:79-119).
THEOREM SystemImplementsHandler == SystemSpec => Spec
<1>1. SystemInit => Init
    BY DEF SystemInit
<1> QED
    BY InitSystem, SystemStep, <1>1, PTL DEF SystemSpec, Spec

\* So a perfect reply wins in the composed system, too (httpserver.go:214-233).
THEOREM SystemPerfectWins == SystemSpec => []PerfectWins
BY SystemImplementsHandler, PerfectAlwaysWins

\* The flags of every 200 of the composed system, computed or cached, are those its
\* matches support (httpserver.go:253-264).
THEOREM SystemFlagsExplained == SystemSpec => []FlagsExplained
BY SystemImplementsHandler, FlagsAlwaysExplained

\* A client of the composed system receives a fresh false flag only when the list and
\* Nominatim were heard in full, if the write timeout is no longer than the deadline
\* (httpserver.go:200-251, service.go:81-83).
THEOREM SystemFreshAnswersAreWhole ==
    WriteTimeout <= Deadline => (SystemSpec => []FreshAnswersWhole)
BY SystemImplementsHandler, FreshAnswersAreWhole

-----------------------------------------------------------------------------
(***************************************************************************)
(* From the three checks of the list to what the client receives.          *)
(***************************************************************************)

\* A whole reply of the list holds what its checks have found, for good.
WholeReplyKept ==
    (reply["list"][It] # Nothing /\ reply["list"][It].whole) =>
        answered = Pairs /\ reply["list"][It].match = answer

LEMMA InitReply == SystemInit => WholeReplyKept
BY TheRequest DEF SystemInit, Init, WholeReplyKept, Sources

LEMMA StepReply ==
    ASSUME SystemInv, WholeReplyKept, [SystemNext]_systemVars
    PROVE  WholeReplyKept'
<1>1. CASE HandlerStep /\ UNCHANGED listVars
    BY <1>1, HandlerSteps DEF WholeReplyKept, listVars
<1>2. CASE ListHandles
    <2>1. /\ ~sent /\ reply["list"][It] = Nothing
          /\ open' \subseteq open /\ Pairs \ open' \subseteq answered
          /\ found' \in Listable
          /\ \A k \in Pairs \ open' : found'[k] = answer[k]
          /\ UNCHANGED <<answered, answer>>
        BY <1>2, HandleCombines DEF SystemInv, ListInv
    <2>2. CASE ~sent'
        <3>1. reply' = reply
            BY <1>2, <2>2 DEF ListHandles
        <3> QED
            BY <2>1, <3>1 DEF WholeReplyKept
    <2>3. CASE sent'
        <3>1. reply'["list"][It] = Sending
            BY <1>2, <2>3, TheRequest DEF ListHandles, Sending, SystemInv, TypeOK, Sources
        <3>2. reply'["list"][It].whole = (open' = {}) /\ reply'["list"][It].match = found'
            BY <3>1 DEF Sending
        <3>3. ASSUME open' = {}
              PROVE  answered = Pairs /\ found' = answer
            BY <2>1, <3>3 DEF SystemInv, ListInv, Listable
        <3>4. reply'["list"][It].whole => open' = {}
            BY <3>2
        <3> QED
            BY <2>1, <3>2, <3>3, <3>4 DEF WholeReplyKept
    <2> QED
        BY <2>2, <2>3
<1>3. ASSUME NEW k \in Pairs, ListAnswers(k)
      PROVE  WholeReplyKept'
    <2>1. k \notin answered /\ UNCHANGED reply
        BY <1>3 DEF ListAnswers, List!Answer
    <2> QED
        BY <2>1 DEF WholeReplyKept
<1>4. CASE UNCHANGED systemVars
    BY <1>4 DEF WholeReplyKept, systemVars, listVars, vars
<1> QED
    BY <1>1, <1>2, <1>3, <1>4 DEF SystemNext

LEMMA ReplyKept == SystemSpec => []WholeReplyKept
<1>1. SystemInv /\ WholeReplyKept /\ [SystemNext]_systemVars => WholeReplyKept'
    BY StepReply
<1>2. SystemInv /\ [SystemNext]_systemVars => SystemInv'
    BY SystemStep
<1> QED
    BY InitSystem, InitReply, <1>1, <1>2, PTL DEF SystemSpec

\* The state of an answer that was heard in full.
LEMMA HeardMeansDelivered ==
    ASSUME TypeOK, FlagsExplained, FreshAnswersWhole, DetailsFromSources, WholeReplyKept,
           \A r \in Requests : \A s \in taken[r] : reply[s][r] # Nothing
    PROVE  DeliveredFromChecks
<1> SUFFICES ASSUME It \in received, Computed200(It), response[It].result.source # Flag
             PROVE  /\ answered = Pairs
                    /\ response[It].result.details =
                            [p \in Pairs |-> answer[p] \cup reply["nominatim"][It].match[p]]
    BY TheRequest DEF DeliveredFromChecks, TypeOK
<1>1. HeardInFull(It)
    BY DEF FreshAnswersWhole
<1>2. taken[It] = Sources /\ reply["list"][It].whole
    BY <1>1, TheRequest DEF HeardInFull, TypeOK, Sources
<1>3. reply["list"][It] # Nothing
    BY <1>2, TheRequest DEF Sources
<1>4. answered = Pairs /\ reply["list"][It].match = answer
    BY <1>2, <1>3 DEF WholeReplyKept
<1>5. HeardFrom(It, response[It].result.details)
    BY TheRequest DEF DetailsFromSources
<1>6. ASSUME NEW s \in taken[It], Wins(s, It), response[It].result.details = reply[s][It].match
      PROVE  FALSE
    <2>1. response[It].result.source = Eval(response[It].result.details)
        BY TheRequest DEF FlagsExplained, Computed200
    <2> QED
        BY <1>6, <2>1 DEF Wins, Perfect
<1>7. response[It].result.details = Together(It)
    BY <1>5, <1>6 DEF HeardFrom
<1>8. Together(It) = [p \in Pairs |-> answer[p] \cup reply["nominatim"][It].match[p]]
    <2>1. \A p \in Pairs : UNION {reply[s][It].match[p] : s \in Sources}
                = reply["list"][It].match[p] \cup reply["nominatim"][It].match[p]
        BY DEF Sources
    <2> QED
        BY <1>2, <1>4, <2>1 DEF Together
<1> QED
    BY <1>4, <1>7, <1>8

\* With a false flag a client of the composed system receives exactly what each check of
\* the list has found, together with what Nominatim has found, if the write timeout is no
\* longer than the deadline (listmatcher/handler.go:97-116, httpserver.go:200-251).
THEOREM SystemDeliversFromChecks ==
    WriteTimeout <= Deadline => (SystemSpec => []DeliveredFromChecks)
<1> SUFFICES ASSUME WriteTimeout <= Deadline
             PROVE  SystemSpec => []DeliveredFromChecks
    OBVIOUS
<1> DEFINE Sent == \A r \in Requests : \A s \in taken[r] : reply[s][r] # Nothing
<1>1. TypeOK /\ FlagsExplained /\ FreshAnswersWhole /\ DetailsFromSources /\ WholeReplyKept
        /\ Sent => DeliveredFromChecks
    BY HeardMeansDelivered
<1>2. Spec => []FreshAnswersWhole
    BY FreshAnswersAreWhole
<1>3. Spec => []Sent
    BY TakenWasSent
<1> HIDE DEF Sent
<1> QED
    BY SystemImplementsHandler, TypeCorrect, FlagsAlwaysExplained, DetailsAlwaysFromSources,
       ReplyKept, <1>1, <1>2, <1>3, PTL
=============================================================================

---------------------------- MODULE CheckWithList ----------------------------
(***************************************************************************)
(* The HTTP handler together with the lookup in the address list that it   *)
(* starts: CheckHandler, with ListLookup in the place of the "list" source *)
(* (checkHandler in internal/httpserver.go, Handle in internal/listmatcher/*)
(* handler.go).  Nominatim stays a source.                                 *)
(*                                                                         *)
(* The two share the channel Handle returns, on which the lookup sends and *)
(* the handler receives, and the context, which the handler cancels when   *)
(* it has what it needs.  One request, in a country that has a list.       *)
(***************************************************************************)
EXTENDS CheckHandler

CONSTANT It     \* the request

\* The list of a country only has addresses of that country.
Listable == [Pairs -> SUBSET {Own}]

ASSUME CheckWithListAssumption ==
    Requests = {It} /\ Listed = {It} /\ Listable \subseteq Matches

VARIABLES
    answered,   \* the lookup: see ListLookup
    answer,
    open,
    sent,
    found

listVars == <<answered, answer, open, sent, found>>

List == INSTANCE ListLookup
    WITH Countries <- {Own}, result <- found, ctxDone <- ContextDone(It)

ListInit ==
    /\ answered = {}
    /\ answer = NoMatches
    /\ open = Pairs
    /\ sent = FALSE
    /\ found = NoMatches

\* The handler has called Handle.
Called == pc[It] \notin {"new", "lookup", "refused"} /\ ~FromCache(It)

HandlerUnchanged ==
    UNCHANGED <<pc, clocks, metrics, taken, result, response, received, cache>>

ListAnswers(k) ==
    /\ Called
    /\ HandlerUnchanged /\ UNCHANGED reply
    /\ List!Answer(k)

\* What Handle sends is what the handler will receive.
ListHandles ==
    /\ Called
    /\ HandlerUnchanged
    /\ List!Handle
    /\ reply' = IF sent'
                THEN [reply EXCEPT !["list"][It] =
                        [match |-> found', error |-> FALSE, whole |-> open' = {}]]
                ELSE reply

HandlerStep ==
    \/ Arrive(It) \/ Handle(It)
    \/ Leave(It) \/ WriteTimesOut(It) \/ TimeUp(It)
    \/ Reply("nominatim", It)
    \/ \E k \in Keys : Evict(k)

SystemInit == Init /\ ListInit

SystemNext ==
    \/ HandlerStep /\ UNCHANGED listVars
    \/ ListHandles
    \/ \E k \in Pairs : ListAnswers(k)

systemVars == <<vars, listVars>>

\* Every goroutine that can run is run; Nominatim replies.
SystemSpec ==
    /\ SystemInit /\ [][SystemNext]_systemVars
    /\ WF_systemVars(Handle(It) /\ UNCHANGED listVars)
    /\ WF_systemVars(Reply("nominatim", It) /\ UNCHANGED listVars)
    /\ WF_systemVars(ListHandles)
    /\ \A k \in Pairs : WF_systemVars(ListAnswers(k))

-----------------------------------------------------------------------------
\* The lookup's reply holds what each check has found, in whatever order they
\* answered, unless the handler has stopped listening (listmatcher/handler.go:97-116).
AnswersCombined == List!AnswersCombined

\* With a false flag, a client receives what each of the list's three checks found, in
\* whatever order they answered, put together with what Nominatim found
\* (listmatcher/handler.go:97-116, httpserver.go:234-246).
DeliveredFromChecks ==
    \A r \in received : (Computed200(r) /\ response[r].result.source # Flag) =>
        /\ answered = Pairs
        /\ response[r].result.details =
                [p \in Pairs |-> answer[p] \cup reply["nominatim"][r].match[p]]

\* No goroutine of a check is left behind, also when the handler has its answer
\* and the lookup has given up (listmatcher/handler.go:111-113).
NoGoroutineLeft == Called ~> answered = Pairs

\* With the lookup in it the handler is what CheckHandler says, where the list is a
\* source that always replies, with all three answers unless the context has ended
\* (listmatcher/handler.go:79-119).
HandlerImplemented == FairSpec
=============================================================================

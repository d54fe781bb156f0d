----------------------------- MODULE ListLookup -----------------------------
(***************************************************************************)
(* One lookup in a country's address list (internal/listmatcher/           *)
(* handler.go).  The three checks work on indexes in memory, side by side, *)
(* and cannot fail; Handle collects their answers unless the request's     *)
(* context ends first.  The matcher exists: checkHandler asked Possible.   *)
(***************************************************************************)
CONSTANT Countries      \* the countries in which a match can lie

Checks == {"cityStreet", "postalCity", "postalStreet"}

VARIABLES
    answered,   \* checks that have sent their answer
    answer,     \* the countries of their matches
    open,       \* the channels among rC, pC and qC that are not nil
    sent,       \* Handle has sent its result
    result,     \* what Handle has put together
    ctxDone     \* the request's context has ended

vars == <<answered, answer, open, sent, result, ctxDone>>

TypeOK ==
    /\ answered \subseteq Checks
    /\ answer \in [Checks -> SUBSET Countries]
    /\ open \subseteq Checks /\ Checks \ open \subseteq answered
    /\ sent \in BOOLEAN
    /\ result \in [Checks -> SUBSET Countries]
    /\ ctxDone \in BOOLEAN

NoMatches == [k \in Checks |-> {}]

Init ==
    /\ answered = {}
    /\ answer = NoMatches
    /\ open = Checks
    /\ sent = FALSE
    /\ result = NoMatches
    /\ ctxDone = FALSE

AnswerIfRead(k) ==                          \* mutant: a channel without room
    /\ k \notin answered
    /\ ~sent
    /\ \E match \in SUBSET Countries : answer' = [answer EXCEPT ![k] = match]
    /\ answered' = answered \cup {k}
    /\ UNCHANGED <<open, sent, result, ctxDone>>

\* The channel has room: the check ends even if nobody listens any more.
Answer(k) ==
    /\ k \notin answered
    /\ \E match \in SUBSET Countries : answer' = [answer EXCEPT ![k] = match]
    /\ answered' = answered \cup {k}
    /\ UNCHANGED <<open, sent, result, ctxDone>>

OnlyThisAnswer(k) == [NoMatches EXCEPT ![k] = answer[k]]     \* mutant: starts afresh

Combine(k) == [result EXCEPT ![k] = answer[k]]

WaitsForFour(k) ==                          \* mutant: counter < 4
    /\ ~sent
    /\ k \in open \cap answered
    /\ open' = open \ {k}
    /\ result' = Combine(k)
    /\ UNCHANGED <<answered, answer, sent, ctxDone>>

TakeAnswer(k) ==
    /\ ~sent
    /\ k \in open \cap answered
    /\ open' = open \ {k}
    /\ result' = Combine(k)
    /\ sent' = (open' = {})
    /\ UNCHANGED <<answered, answer, ctxDone>>

\* The select may also see the end of the context, and send what there is.
GiveUp ==
    /\ ~sent
    /\ ctxDone
    /\ sent' = TRUE
    /\ UNCHANGED <<answered, answer, open, result, ctxDone>>

ContextDone ==
    /\ ~ctxDone
    /\ ctxDone' = TRUE
    /\ UNCHANGED <<answered, answer, open, sent, result>>

Handle == GiveUp \/ \E k \in Checks : TakeAnswer(k)

Next == Handle \/ ContextDone \/ \E k \in Checks : Answer(k)

Spec == Init /\ [][Next]_vars

\* Every goroutine that can run is run.
FairSpec ==
    /\ Spec
    /\ \A k \in Checks : WF_vars(Answer(k))
    /\ WF_vars(Handle)

-----------------------------------------------------------------------------
\* The reply holds what each check has found, in whatever order they answered
\* (handler.go:97-116).
AnswersCombined == (sent /\ open = {}) => result = answer

\* No goroutine of a check is left behind, also when Handle has given up
\* (handler.go:111-113).
NoGoroutineLeft == <>(answered = Checks)
=============================================================================

--------------------------- MODULE OutboundLimiter ---------------------------
(***************************************************************************)
(* The limiter in front of Nominatim (internal/nominatim/limiter.go).      *)
(*                                                                         *)
(* Every outbound HTTP request first calls Wait, on its own goroutine.     *)
(* Wait queues a waiter under the mutex, pokes the run loop through a      *)
(* one-place channel, and parks in a select on "granted" and "context      *)
(* done".  The run loop hands out at most Capacity grants per Window, in   *)
(* order of arrival, and sleeps either on the channel or on a timer.       *)
(*                                                                         *)
(* A critical section of the mutex is one action.  Time is discrete and    *)
(* kept as the age of each grant, so no clock has to be bounded; an age    *)
(* stops at Window, where the code can no longer tell it from older ones.  *)
(***************************************************************************)
EXTENDS Naturals, FiniteSets

CONSTANTS
    Calls,      \* the calls of Wait, each with the limiterWaiter it creates
    Capacity,   \* grants allowed per window
    Window      \* the window, in ticks

ASSUME CallsAssumption == IsFiniteSet(Calls)

\* newOutboundRateLimiter builds no limiter unless both are positive.
ASSUME BudgetAssumption == /\ Capacity \in Nat \ {0}
                           /\ Window \in Nat \ {0}

VARIABLES
    pc,         \* where each call is in Wait
    ctxDone,    \* calls whose context has been cancelled or has timed out
    arrival,    \* position of each call in the order of the appends to waiters
    waiters,    \* l.waiters; their order is the order of arrival
    granted,    \* calls with waiter.granted set and waiter.ready closed
    grants,     \* l.grants: the calls whose grant time is still remembered
    age,        \* ticks since the call was granted, at most Window
    wake,       \* l.wake holds its one token
    loop,       \* where the goroutine of run() is
    timer       \* ticks until the timer fires while loop = "armed"

vars == <<pc, ctxDone, arrival, waiters, granted, grants, age, wake, loop, timer>>

CallState == {"idle", "signal", "select", "cancel", "nil", "err"}
LoopState == {"process", "armed", "blocked"}

TypeOK ==
    /\ pc \in [Calls -> CallState]
    /\ ctxDone \subseteq Calls
    /\ arrival \in [Calls -> Nat]
    /\ waiters \subseteq Calls
    /\ granted \subseteq Calls
    /\ grants \subseteq Calls
    /\ age \in [Calls -> 0..Window]
    /\ wake \in BOOLEAN
    /\ loop \in LoopState
    /\ timer \in 0..Window

Init ==
    /\ pc = [c \in Calls |-> "idle"]
    /\ ctxDone = {}
    /\ arrival = [c \in Calls |-> 0]
    /\ waiters = {}
    /\ granted = {}
    /\ grants = {}
    /\ age = [c \in Calls |-> 0]
    /\ wake = FALSE
    /\ loop = "process"
    /\ timer = 0

-----------------------------------------------------------------------------
(***************************************************************************)
(* The caller's side: Wait, signal and cancel.                             *)
(***************************************************************************)

Arrived == {c \in Calls : pc[c] # "idle"}

\* waiter.canceled is set by cancel alone, just before Wait returns an error.
Canceled == {c \in Calls : pc[c] = "err"}

Enqueue(c) ==
    /\ pc[c] = "idle"
    /\ pc' = [pc EXCEPT ![c] = "signal"]
    /\ arrival' = [arrival EXCEPT ![c] = Cardinality(Arrived)]
    /\ waiters' = waiters \cup {c}
    /\ UNCHANGED <<ctxDone, granted, grants, age, wake, loop, timer>>

SignalIfAlone(c) ==                         \* mutant: only into an empty queue
    /\ pc[c] = "signal"
    /\ pc' = [pc EXCEPT ![c] = "select"]
    /\ wake' = (wake \/ waiters = {c})
    /\ UNCHANGED <<ctxDone, arrival, waiters, granted, grants, age, loop, timer>>

\* A send that finds the token already there is dropped.
Signal(c) ==
    /\ pc[c] = "signal"
    /\ pc' = [pc EXCEPT ![c] = "select"]
    /\ wake' = TRUE
    /\ UNCHANGED <<ctxDone, arrival, waiters, granted, grants, age, loop, timer>>

\* The caller gives up, or the request's deadline passes, at any moment.
ContextDone(c) ==
    /\ pc[c] \notin {"nil", "err"}
    /\ c \notin ctxDone
    /\ ctxDone' = ctxDone \cup {c}
    /\ UNCHANGED <<pc, arrival, waiters, granted, grants, age, wake, loop, timer>>

ReturnReady(c) ==
    /\ pc[c] = "select"
    /\ c \in granted
    /\ pc' = [pc EXCEPT ![c] = "nil"]
    /\ UNCHANGED <<ctxDone, arrival, waiters, granted, grants, age, wake, loop, timer>>

\* select is free to take this case although ready is closed as well.
SelectDone(c) ==
    /\ pc[c] = "select"
    /\ c \in ctxDone
    /\ pc' = [pc EXCEPT ![c] = "cancel"]
    /\ UNCHANGED <<ctxDone, arrival, waiters, granted, grants, age, wake, loop, timer>>

ErrorAlthoughGranted(c) ==                  \* mutant: granted is not looked at
    /\ pc[c] = "cancel"
    /\ c \in granted
    /\ pc' = [pc EXCEPT ![c] = "err"]
    /\ UNCHANGED <<ctxDone, arrival, waiters, granted, grants, age, wake, loop, timer>>

CancelGranted(c) ==
    /\ pc[c] = "cancel"
    /\ c \in granted
    /\ pc' = [pc EXCEPT ![c] = "nil"]
    /\ UNCHANGED <<ctxDone, arrival, waiters, granted, grants, age, wake, loop, timer>>

CancelWithdrawsHead(c) ==                   \* mutant: removes the oldest waiter
    /\ pc[c] = "cancel"
    /\ c \notin granted
    /\ pc' = [pc EXCEPT ![c] = "err"]
    /\ waiters' = {w \in waiters : \E v \in waiters : arrival[v] < arrival[w]}
    /\ wake' = TRUE
    /\ UNCHANGED <<ctxDone, arrival, granted, grants, age, loop, timer>>

\* Filtering the queue also drops other waiters whose context is done.
CancelWaiting(c) ==
    /\ pc[c] = "cancel"
    /\ c \notin granted
    /\ pc' = [pc EXCEPT ![c] = "err"]
    /\ waiters' = waiters \ (Canceled \cup {c} \cup ctxDone)
    /\ wake' = TRUE
    /\ UNCHANGED <<ctxDone, arrival, granted, grants, age, loop, timer>>

-----------------------------------------------------------------------------
(***************************************************************************)
(* The run loop.  A token sent before the loop reaches its receive stays   *)
(* in the channel, so process() and what run() does with its result are    *)
(* one action.                                                             *)
(***************************************************************************)

PrunedEarly == {c \in grants : age[c] + 1 < Window}          \* mutant: one early
NeverPruned == {c \in grants : age[c] <= Window}             \* mutant: <= for <

\* pruneGrantedLocked: a grant is forgotten once a whole window has passed.
Kept == {c \in grants : age[c] < Window}

\* removeCanceledLocked, and the same test again when a waiter is popped.
Live == waiters \ (Canceled \cup ctxDone)

AnyOrder(G) == TRUE                                          \* mutant: not FIFO

\* G is popped from the front of the queue.
OldestFirst(G) == \A g \in G, w \in Live \ G : arrival[g] < arrival[w]

\* The loop of process() ends when the queue is empty or the budget is spent.
Drains(G) ==
    /\ G \subseteq Live
    /\ OldestFirst(G)
    /\ Cardinality(Kept \cup G) <= Capacity
    /\ G = Live \/ Cardinality(Kept \cup G) = Capacity

TimerOnNewest(slots, since) ==              \* mutant: l.grants[len-1]
    \E g \in slots : /\ \A h \in slots : since[g] <= since[h]
                     /\ timer' = Window - since[g]

\* l.grants[0] is the oldest remembered grant.
TimerOnOldest(slots, since) ==
    \E g \in slots : /\ \A h \in slots : since[h] <= since[g]
                     /\ timer' = Window - since[g]

Process ==
    /\ loop = "process"
    /\ \E G \in SUBSET Live :
        /\ Drains(G)
        /\ waiters' = Live \ G
        /\ granted' = granted \cup G
        /\ grants' = Kept \cup G
        /\ age' = [c \in Calls |-> IF c \in G THEN 0 ELSE age[c]]
        /\ IF waiters' = {}
           THEN loop' = "blocked" /\ timer' = 0
           ELSE loop' = "armed" /\ TimerOnOldest(grants', age')
    /\ UNCHANGED <<pc, ctxDone, arrival, wake>>

\* From either receive; an armed timer is stopped and drained.
TakeWake ==
    /\ loop \in {"armed", "blocked"}
    /\ wake
    /\ wake' = FALSE
    /\ loop' = "process"
    /\ timer' = 0
    /\ UNCHANGED <<pc, ctxDone, arrival, waiters, granted, grants, age>>

TimerFires ==
    /\ loop = "armed"
    /\ timer = 0
    /\ loop' = "process"
    /\ UNCHANGED <<pc, ctxDone, arrival, waiters, granted, grants, age, wake, timer>>

Aged(c) == IF c \in granted /\ age[c] < Window THEN age[c] + 1 ELSE age[c]

\* Goroutines may be late: time passes whatever they have left to do.
Tick ==
    /\ age' = [c \in Calls |-> Aged(c)]
    /\ timer' = IF timer > 0 THEN timer - 1 ELSE 0
    /\ UNCHANGED <<pc, ctxDone, arrival, waiters, granted, grants, wake, loop>>

-----------------------------------------------------------------------------
Call(c) ==
    \/ Enqueue(c)
    \/ Signal(c)
    \/ ReturnReady(c)
    \/ SelectDone(c)
    \/ CancelGranted(c)
    \/ CancelWaiting(c)

Run == Process \/ TakeWake \/ TimerFires

Next ==
    \/ \E c \in Calls : Call(c) \/ ContextDone(c)
    \/ Run
    \/ Tick

Spec == Init /\ [][Next]_vars

\* Goroutines that can run are run, and the clock advances.  No call has to be
\* made and no context has to end.
Fairness ==
    /\ \A c \in Calls : WF_vars(Call(c) /\ pc[c] # "idle")
    /\ WF_vars(Run)
    /\ WF_vars(Tick)

FairSpec == Spec /\ Fairness

-----------------------------------------------------------------------------
(***************************************************************************)
(* Properties.                                                             *)
(***************************************************************************)

\* Grants younger than a window, remembered by the limiter or not.
Recent == {c \in granted : age[c] < Window}

\* However calls, cancellations and the loop interleave, no more than Capacity
\* requests are let through in any window (limiter.go:168, 201-212).
WindowBound == Cardinality(Recent) <= Capacity

\* A call that reports an error never holds a grant: a grant that races the end
\* of the context is used, not leaked (limiter.go:100-103, 111-113).
ErrNeverGranted == \A c \in granted : pc[c] # "err"

\* Filtering the queue never loses a call that still wants its turn: one that is
\* parked with a live context is queued or granted (limiter.go:214-224).
NoLostWaiter ==
    \A c \in Arrived \ (granted \cup ctxDone) : c \in waiters

\* The loop never parks on the channel with nobody left to wake it: every call
\* queued behind its back has yet to signal (limiter.go:94, 137, 226-231).
NoLostWakeup ==
    (loop = "blocked" /\ ~wake) => \A c \in waiters : pc[c] = "signal"

\* The loop never sleeps on its timer while a call could go: until the timer is
\* due the budget of the window really is spent (limiter.go:193-198).
WorkConserving ==
    (loop = "armed" /\ timer > 0) => Cardinality(Recent) = Capacity

\* Calls are served in order of arrival, those that gave up aside
\* (limiter.go:168-181).
ServedInOrder ==
    [][\A c \in granted' \ granted, d \in Arrived \ (granted' \cup ctxDone) :
            arrival[c] < arrival[d]]_vars

\* Every Wait that has been entered returns, even if its context never ends: as
\* each call is made once, this is to say that nobody is left inside for good.
EveryWaitReturns ==
    []<>(\A c \in Calls : pc[c] \in {"idle", "nil", "err"})

-----------------------------------------------------------------------------
(***************************************************************************)
(* The limiter implements the gate its callers rely on: a grant is the     *)
(* admission, the end of a context the abandonment, and queue, channel,    *)
(* timer and loop are invisible.                                           *)
(***************************************************************************)
Gate == INSTANCE RateGate
    WITH position <- arrival, arrived <- Arrived, abandoned <- ctxDone,
         admitted <- granted

\* Every step of the limiter is a step of the gate or invisible to its callers
\* (limiter.go:82-231).
ImplementsGate == Gate!Spec

\* The limiter also serves as reliably as the gate: a call that stays is let
\* through, and no cancellation of others or timing of the loop starves it.
ImplementsFairGate == Gate!FairSpec
=============================================================================

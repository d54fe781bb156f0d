------------------------ MODULE OutboundLimiterProofs ------------------------
(***************************************************************************)
(* Proofs about OutboundLimiter, for any finite set of calls, any budget   *)
(* and any window.                                                         *)
(***************************************************************************)
EXTENDS OutboundLimiter, FiniteSetTheorems, TLAPS

USE CallsAssumption, BudgetAssumption DEF CallsAssumption, BudgetAssumption

\* Type correctness of the limiter's state (limiter.go:45-61).
THEOREM TypeCorrect == Spec => []TypeOK
<1>1. Init => TypeOK
  <2> SUFFICES ASSUME Init PROVE TypeOK
    OBVIOUS
  <2>1. wake \in BOOLEAN
    BY Zenon DEF Init
  <2>2. 0 \in 0..Window
    OBVIOUS
  <2>3. QED BY <2>1, <2>2 DEF Init, TypeOK, CallState, LoopState
<1>2. TypeOK /\ [Next]_vars => TypeOK'
  <2> SUFFICES ASSUME TypeOK, [Next]_vars PROVE TypeOK'
    OBVIOUS
  <2> USE DEF TypeOK, CallState, LoopState
  <2>1. ASSUME NEW c \in Calls, Call(c) \/ ContextDone(c) PROVE TypeOK'
    <3>1. Cardinality(Arrived) \in Nat
      BY FS_Subset, FS_CardinalityType DEF Arrived
    <3>2. CASE Enqueue(c)
      BY <3>1, <3>2 DEF Enqueue
    <3>3. CASE Signal(c)
      BY <3>3 DEF Signal
    <3>4. CASE ReturnReady(c)
      BY <3>4 DEF ReturnReady
    <3>5. CASE SelectDone(c)
      BY <3>5 DEF SelectDone
    <3>6. CASE CancelGranted(c)
      BY <3>6 DEF CancelGranted
    <3>7. CASE CancelWaiting(c)
      BY <3>7 DEF CancelWaiting
    <3>8. CASE ContextDone(c)
      BY <3>8 DEF ContextDone
    <3>9. QED BY <2>1, <3>2, <3>3, <3>4, <3>5, <3>6, <3>7, <3>8 DEF Call
  <2>2. CASE Process
    <3>1. PICK G \in SUBSET Live :
            /\ waiters' = Live \ G
            /\ granted' = granted \cup G
            /\ grants' = Kept \cup G
            /\ age' = [c \in Calls |-> IF c \in G THEN 0 ELSE age[c]]
            /\ IF waiters' = {} THEN loop' = "blocked" /\ timer' = 0
               ELSE loop' = "armed" /\ TimerOnOldest(grants', age')
      BY <2>2 DEF Process
    <3>2. G \subseteq Calls /\ Live \subseteq Calls /\ Kept \subseteq Calls
      BY DEF Live, Kept
    <3>3. age' \in [Calls -> 0..Window] /\ grants' \subseteq Calls
      BY <3>1, <3>2
    <3>4. loop' \in LoopState /\ timer' \in 0..Window
      BY <3>1, <3>3 DEF TimerOnOldest
    <3>5. UNCHANGED <<pc, ctxDone, arrival, wake>>
      BY <2>2 DEF Process
    <3>6. QED BY <3>1, <3>2, <3>3, <3>4, <3>5
  <2>3. CASE TakeWake
    <3>1. wake' \in BOOLEAN
      BY <2>3, Zenon DEF TakeWake
    <3>2. 0 \in 0..Window
      OBVIOUS
    <3>3. QED BY <2>3, <3>1, <3>2 DEF TakeWake
  <2>4. CASE TimerFires
    BY <2>4 DEF TimerFires
  <2>5. CASE Tick
    BY <2>5 DEF Tick, Aged
  <2>6. CASE UNCHANGED vars
    BY <2>6 DEF vars
  <2>7. QED BY <2>1, <2>2, <2>3, <2>4, <2>5, <2>6 DEF Next, Run
<1>3. QED BY <1>1, <1>2, PTL DEF Spec

-----------------------------------------------------------------------------
(***************************************************************************)
(* The budget.  WindowBound alone is not inductive: the code bounds the    *)
(* grants it remembers, so the invariant must say that it remembers every  *)
(* recent one.                                                             *)
(***************************************************************************)

Remembered == /\ Recent \subseteq grants
              /\ grants \subseteq granted
              /\ Cardinality(grants) <= Capacity

\* What is remembered is within the budget, so what is recent is.
LEMMA RememberedBounds == TypeOK /\ Remembered => WindowBound
<1> SUFFICES ASSUME TypeOK, Remembered PROVE WindowBound
  OBVIOUS
<1>1. IsFiniteSet(grants)
  BY FS_Subset DEF TypeOK
<1>2. Cardinality(Recent) <= Cardinality(grants)
  BY <1>1, FS_Subset DEF Remembered
<1>3. IsFiniteSet(Recent) /\ Cardinality(Recent) \in Nat /\ Cardinality(grants) \in Nat
  BY <1>1, FS_Subset, FS_CardinalityType DEF Remembered
<1>4. QED BY <1>2, <1>3 DEF Remembered, WindowBound

\* pruneGrantedLocked forgets only grants that are a window old, and process
\* appends only while the list is below Capacity (limiter.go:165-177, 201-212).
LEMMA RememberedHolds == Spec => []Remembered
<1>1. Init => Remembered
  BY FS_EmptySet DEF Init, Remembered, Recent
<1>2. TypeOK /\ TypeOK' /\ Remembered /\ [Next]_vars => Remembered'
  <2> SUFFICES ASSUME TypeOK, TypeOK', Remembered, [Next]_vars PROVE Remembered'
    OBVIOUS
  <2>1. ASSUME NEW c \in Calls, Call(c) \/ ContextDone(c) PROVE Remembered'
    <3>1. UNCHANGED <<granted, grants, age>>
      BY <2>1 DEF Call, Enqueue, Signal, ReturnReady, SelectDone, CancelGranted,
                  CancelWaiting, ContextDone
    <3>2. QED BY <3>1 DEF Remembered, Recent
  <2>2. CASE Process
    <3>1. PICK G \in SUBSET Live :
            /\ Drains(G)
            /\ granted' = granted \cup G
            /\ grants' = Kept \cup G
            /\ age' = [c \in Calls |-> IF c \in G THEN 0 ELSE age[c]]
      BY <2>2 DEF Process
    <3>2. Cardinality(grants') <= Capacity
      BY <3>1 DEF Drains
    <3>3. grants' \subseteq granted'
      BY <3>1 DEF Remembered, Kept
    <3>4. ASSUME NEW c \in Recent' PROVE c \in grants'
      <4>1. CASE c \in G
        BY <3>1, <4>1
      <4>2. CASE c \notin G
        <5>1. c \in granted /\ c \in Calls
          BY <3>1, <3>4, <4>2 DEF Recent, TypeOK
        <5>2. age'[c] = age[c]
          BY <3>1, <4>2, <5>1
        <5>3. age[c] < Window
          BY <3>4, <5>2 DEF Recent
        <5>4. QED BY <3>1, <5>1, <5>3 DEF Recent, Remembered, Kept
      <4>3. QED BY <4>1, <4>2
    <3>5. QED BY <3>2, <3>3, <3>4 DEF Remembered
  <2>3. CASE TakeWake \/ TimerFires
    BY <2>3 DEF TakeWake, TimerFires, Remembered, Recent
  <2>4. CASE Tick
    <3>1. UNCHANGED <<granted, grants>> /\ \A c \in Calls : age'[c] = Aged(c)
      BY <2>4 DEF Tick
    <3>2. \A c \in granted : age'[c] < Window => age[c] < Window
      BY <3>1 DEF Aged, TypeOK
    <3>3. Recent' \subseteq Recent
      BY <3>1, <3>2 DEF Recent
    <3>4. QED BY <3>1, <3>3 DEF Remembered
  <2>5. CASE UNCHANGED vars
    BY <2>5 DEF vars, Remembered, Recent
  <2>6. QED BY <2>1, <2>2, <2>3, <2>4, <2>5 DEF Next, Run
<1>3. QED BY <1>1, <1>2, TypeCorrect, PTL DEF Spec

\* No window ever sees more grants than the budget, whatever the interleaving of
\* calls, cancellations, timers and the loop (limiter.go:160-212).
THEOREM BudgetKept == Spec => []WindowBound
  BY TypeCorrect, RememberedHolds, RememberedBounds, PTL

-----------------------------------------------------------------------------
(***************************************************************************)
(* Cancellation and the queue.                                             *)
(***************************************************************************)

\* A grant is never reported as an error: cancel and process both look at the
\* waiter under the mutex (limiter.go:100-103, 111-113, 172-176).
THEOREM GrantNotLeaked == Spec => []ErrNeverGranted
<1>1. Init => ErrNeverGranted
  BY DEF Init, ErrNeverGranted
<1>2. TypeOK /\ ErrNeverGranted /\ [Next]_vars => ErrNeverGranted'
  <2> SUFFICES ASSUME TypeOK, ErrNeverGranted, [Next]_vars PROVE ErrNeverGranted'
    OBVIOUS
  <2> USE DEF TypeOK, ErrNeverGranted
  <2>1. ASSUME NEW c \in Calls, Call(c) \/ ContextDone(c) PROVE ErrNeverGranted'
    <3>1. granted' = granted
      BY <2>1 DEF Call, Enqueue, Signal, ReturnReady, SelectDone, CancelGranted,
                  CancelWaiting, ContextDone
    <3>2. CASE CancelWaiting(c)
      BY <3>1, <3>2 DEF CancelWaiting
    <3>3. CASE ~CancelWaiting(c)
      BY <2>1, <3>1, <3>3 DEF Call, Enqueue, Signal, ReturnReady, SelectDone,
                              CancelGranted, ContextDone
    <3>4. QED BY <3>2, <3>3
  <2>2. CASE Process
    <3>1. \A c \in granted' : c \in granted \/ c \in Live
      BY <2>2 DEF Process
    <3>2. pc' = pc
      BY <2>2 DEF Process
    <3>3. QED BY <3>1, <3>2 DEF Live, Canceled
  <2>3. CASE TakeWake \/ TimerFires \/ Tick \/ UNCHANGED vars
    BY <2>3 DEF TakeWake, TimerFires, Tick, vars
  <2>4. QED BY <2>1, <2>2, <2>3 DEF Next, Run
<1>3. QED BY <1>1, <1>2, TypeCorrect, PTL DEF Spec

\* The loop is never left asleep with a call queued that has already signalled
\* (limiter.go:94, 123-126, 136-138, 226-231).
THEOREM WakeupKept == Spec => []NoLostWakeup
<1>1. Init => NoLostWakeup
  BY DEF Init, NoLostWakeup
<1>2. TypeOK /\ NoLostWakeup /\ [Next]_vars => NoLostWakeup'
  <2> SUFFICES ASSUME TypeOK, NoLostWakeup, [Next]_vars PROVE NoLostWakeup'
    OBVIOUS
  <2> USE DEF TypeOK, NoLostWakeup
  <2>1. ASSUME NEW c \in Calls, Call(c) \/ ContextDone(c) PROVE NoLostWakeup'
    <3>1. loop' = loop
      BY <2>1 DEF Call, Enqueue, Signal, ReturnReady, SelectDone, CancelGranted,
                  CancelWaiting, ContextDone
    <3>2. CASE Signal(c) \/ CancelWaiting(c)
      <4>1. wake'
        BY <3>2 DEF Signal, CancelWaiting
      <4>2. QED BY <4>1
    <3>3. CASE Enqueue(c)
      BY <3>1, <3>3 DEF Enqueue
    <3>4. CASE ReturnReady(c) \/ SelectDone(c) \/ CancelGranted(c) \/ ContextDone(c)
      <4>1. wake' = wake /\ waiters' = waiters
        BY <3>4 DEF ReturnReady, SelectDone, CancelGranted, ContextDone
      <4>2. \A d \in Calls : pc[d] = "signal" => pc'[d] = "signal"
        BY <3>4 DEF ReturnReady, SelectDone, CancelGranted, ContextDone
      <4>3. QED BY <3>1, <4>1, <4>2
    <3>5. QED BY <2>1, <3>2, <3>3, <3>4 DEF Call
  <2>2. CASE Process
    <3>1. loop' = "blocked" => waiters' = {}
      BY <2>2 DEF Process
    <3>2. QED BY <3>1
  <2>3. CASE TakeWake \/ TimerFires
    <3>1. loop' = "process"
      BY <2>3 DEF TakeWake, TimerFires
    <3>2. QED BY <3>1
  <2>4. CASE Tick \/ UNCHANGED vars
    BY <2>4 DEF Tick, vars
  <2>5. QED BY <2>1, <2>2, <2>3, <2>4 DEF Next, Run
<1>3. QED BY <1>1, <1>2, TypeCorrect, PTL DEF Spec

\* Only a call whose context is done enters cancel.  Needed to know that a
\* canceled waiter is one the caller abandoned.
GaveUp == \A c \in Calls : pc[c] \in {"cancel", "err"} => c \in ctxDone

LEMMA OnlyDoneCancel == Spec => []GaveUp
<1>1. Init => GaveUp
  BY DEF Init, GaveUp
<1>2. TypeOK /\ GaveUp /\ [Next]_vars => GaveUp'
  BY DEF TypeOK, GaveUp, Next, Call, Run, Enqueue, Signal, ReturnReady, SelectDone,
         CancelGranted, CancelWaiting, ContextDone, Process, TakeWake, TimerFires,
         Tick, vars
<1>3. QED BY <1>1, <1>2, TypeCorrect, PTL DEF Spec

\* No filtering of the queue, by cancel or by process, loses a waiter that still
\* wants its turn (limiter.go:120, 166-174, 214-224).
THEOREM WaitersKept == Spec => []NoLostWaiter
<1>1. Init => NoLostWaiter
  BY DEF Init, NoLostWaiter, Arrived
<1>2. TypeOK /\ GaveUp /\ GaveUp' /\ NoLostWaiter /\ [Next]_vars => NoLostWaiter'
  <2> SUFFICES ASSUME TypeOK, GaveUp, GaveUp', NoLostWaiter, [Next]_vars
               PROVE NoLostWaiter'
    OBVIOUS
  <2> USE DEF TypeOK, NoLostWaiter, Arrived
  <2>1. ASSUME NEW c \in Calls, Call(c) \/ ContextDone(c) PROVE NoLostWaiter'
    <3>1. CASE CancelWaiting(c)
      BY <3>1 DEF CancelWaiting, GaveUp, Canceled
    <3>2. CASE Enqueue(c)
      BY <3>2 DEF Enqueue
    <3>3. CASE ~CancelWaiting(c) /\ ~Enqueue(c)
      BY <2>1, <3>3 DEF Call, Signal, ReturnReady, SelectDone, CancelGranted, ContextDone
    <3>4. QED BY <3>1, <3>2, <3>3
  <2>2. CASE Process
    <3>1. PICK G \in SUBSET Live : waiters' = Live \ G /\ granted' = granted \cup G
      BY <2>2 DEF Process
    <3>2. UNCHANGED <<pc, ctxDone>>
      BY <2>2 DEF Process
    <3>3. Canceled \subseteq ctxDone
      BY DEF Canceled, GaveUp
    <3>4. QED BY <3>1, <3>2, <3>3 DEF Live
  <2>3. CASE TakeWake \/ TimerFires \/ Tick \/ UNCHANGED vars
    BY <2>3 DEF TakeWake, TimerFires, Tick, vars
  <2>4. QED BY <2>1, <2>2, <2>3 DEF Next, Run
<1>3. QED BY <1>1, <1>2, TypeCorrect, OnlyDoneCancel, PTL DEF Spec

-----------------------------------------------------------------------------
(***************************************************************************)
(* Order, and the timer.                                                   *)
(***************************************************************************)

\* A call that stays is not overtaken: it is in the queue (NoLostWaiter), no filter
\* takes it out (GaveUp), and the queue is popped from the front (limiter.go:168-181).
THEOREM OrderKept == Spec => ServedInOrder
<1>1. TypeOK /\ GaveUp /\ NoLostWaiter /\ [Next]_vars =>
        [\A c \in granted' \ granted, d \in Arrived \ (granted' \cup ctxDone) :
            arrival[c] < arrival[d]]_vars
  <2> SUFFICES ASSUME TypeOK, GaveUp, NoLostWaiter, [Next]_vars,
                      NEW c \in granted' \ granted,
                      NEW d \in Arrived \ (granted' \cup ctxDone)
               PROVE arrival[c] < arrival[d]
    OBVIOUS
  <2>1. CASE Process
    <3>1. PICK G \in SUBSET Live : OldestFirst(G) /\ granted' = granted \cup G
      BY <2>1 DEF Process, Drains
    <3>2. d \in waiters
      BY <3>1 DEF NoLostWaiter
    <3>3. d \in Live \ G
      BY <3>1, <3>2 DEF Live, Canceled, GaveUp
    <3>4. QED BY <3>1, <3>3 DEF OldestFirst
  <2>2. CASE ~Process
    <3>1. granted' = granted
      BY <2>2 DEF Next, Run, Call, Enqueue, Signal, ReturnReady, SelectDone,
                  CancelGranted, CancelWaiting, ContextDone, TakeWake, TimerFires,
                  Tick, vars
    <3>2. QED BY <3>1
  <2>3. QED BY <2>1, <2>2
<1>2. QED BY <1>1, TypeCorrect, OnlyDoneCancel, WaitersKept, PTL DEF Spec, ServedInOrder

\* The loop arms its timer only when the budget is spent, and never to go off later
\* than the moment at which the first of the remembered grants leaves the window.
TimerInv ==
    loop = "armed" =>
        /\ Cardinality(grants) = Capacity
        /\ \A c \in grants : age[c] + timer <= Window

LEMMA TimerOnTime == Spec => []TimerInv
<1>1. Init => TimerInv
  BY DEF Init, TimerInv
<1>2. TypeOK /\ TypeOK' /\ TimerInv /\ [Next]_vars => TimerInv'
  <2> SUFFICES ASSUME TypeOK, TypeOK', TimerInv, [Next]_vars PROVE TimerInv'
    OBVIOUS
  <2>1. ASSUME NEW c \in Calls, Call(c) \/ ContextDone(c) PROVE TimerInv'
    <3>1. UNCHANGED <<loop, grants, age, timer>>
      BY <2>1 DEF Call, Enqueue, Signal, ReturnReady, SelectDone, CancelGranted,
                  CancelWaiting, ContextDone
    <3>2. QED BY <3>1 DEF TimerInv
  <2>2. CASE Process
    <3>1. PICK G \in SUBSET Live :
            /\ Drains(G)
            /\ waiters' = Live \ G
            /\ grants' = Kept \cup G
            /\ IF waiters' = {} THEN loop' = "blocked" /\ timer' = 0
               ELSE loop' = "armed" /\ TimerOnOldest(grants', age')
      BY <2>2 DEF Process
    <3>2. CASE waiters' = {}
      BY <3>1, <3>2 DEF TimerInv
    <3>3. CASE waiters' # {}
      <4>1. Cardinality(grants') = Capacity
        BY <3>1, <3>3 DEF Drains
      <4>2. PICK g \in grants' : /\ \A h \in grants' : age'[h] <= age'[g]
                                 /\ timer' = Window - age'[g]
        BY <3>1, <3>3 DEF TimerOnOldest
      <4>3. \A c \in grants' : age'[c] \in 0..Window
        BY DEF TypeOK
      <4>4. \A c \in grants' : age'[c] + timer' <= Window
        BY <4>2, <4>3
      <4>5. QED BY <4>1, <4>4 DEF TimerInv
    <3>4. QED BY <3>2, <3>3
  <2>3. CASE TakeWake \/ TimerFires
    BY <2>3 DEF TakeWake, TimerFires, TimerInv
  <2>4. CASE Tick
    <3>1. /\ UNCHANGED <<loop, grants>>
          /\ timer' = IF timer > 0 THEN timer - 1 ELSE 0
          /\ \A c \in grants : age'[c] <= age[c] + 1
      BY <2>4 DEF Tick, Aged, TypeOK
    <3>2. \A c \in grants : age[c] \in 0..Window /\ age'[c] \in 0..Window
      BY <3>1 DEF TypeOK
    <3>3. timer \in 0..Window
      BY DEF TypeOK
    <3>4. QED BY <3>1, <3>2, <3>3 DEF TimerInv
  <2>5. CASE UNCHANGED vars
    BY <2>5 DEF vars, TimerInv
  <2>6. QED BY <2>1, <2>2, <2>3, <2>4, <2>5 DEF Next, Run
<1>3. QED BY <1>1, <1>2, TypeCorrect, PTL DEF Spec

\* The loop never sleeps while a call could go (limiter.go:193-198): until the timer is
\* due every remembered grant is recent, and they spend the budget.
THEOREM NoBudgetWasted == Spec => []WorkConserving
<1>1. TypeOK /\ Remembered /\ TimerInv => WorkConserving
  <2> SUFFICES ASSUME TypeOK, Remembered, TimerInv, loop = "armed", timer > 0
               PROVE Cardinality(Recent) = Capacity
    BY DEF WorkConserving
  <2>1. \A c \in grants : age[c] \in 0..Window /\ timer \in 0..Window
    BY DEF TypeOK
  <2>2. grants \subseteq Recent
    BY <2>1 DEF TimerInv, Remembered, Recent
  <2>3. Recent = grants
    BY <2>2 DEF Remembered
  <2>4. QED BY <2>3 DEF TimerInv
<1>2. QED BY <1>1, TypeCorrect, RememberedHolds, TimerOnTime, PTL

-----------------------------------------------------------------------------
(***************************************************************************)
(* Refinement.  A process step admits G at the gate, which needs the       *)
(* invariants: what is kept is what is recent, the queue holds whoever     *)
(* waits at the gate and nobody else, and it is drained oldest first.      *)
(***************************************************************************)

\* The gate counts with its own instance of FiniteSets.
LEMMA SameCardinality == \A S : Gate!Cardinality(S) = Cardinality(S)
  BY DEF Gate!Cardinality, Cardinality, Gate!IsFiniteSet, IsFiniteSet

\* A waiter is queued or granted, never both, and only once its call has arrived.
Queued == waiters \subseteq Arrived \ granted /\ granted \subseteq Arrived

LEMMA QueueSeparate == Spec => []Queued
<1>1. Init => Queued
  BY DEF Init, Queued
<1>2. TypeOK /\ Queued /\ [Next]_vars => Queued'
  <2> SUFFICES ASSUME TypeOK, Queued, [Next]_vars PROVE Queued'
    OBVIOUS
  <2> USE DEF TypeOK, Queued, Arrived
  <2>1. ASSUME NEW c \in Calls, Call(c) \/ ContextDone(c) PROVE Queued'
    <3>1. CASE CancelWaiting(c)
      BY <3>1 DEF CancelWaiting
    <3>2. CASE Enqueue(c)
      BY <3>2 DEF Enqueue
    <3>3. CASE ~CancelWaiting(c) /\ ~Enqueue(c)
      BY <2>1, <3>3 DEF Call, Signal, ReturnReady, SelectDone, CancelGranted, ContextDone
    <3>4. QED BY <3>1, <3>2, <3>3
  <2>2. CASE Process
    BY <2>2 DEF Process, Live
  <2>3. CASE TakeWake \/ TimerFires \/ Tick \/ UNCHANGED vars
    BY <2>3 DEF TakeWake, TimerFires, Tick, vars
  <2>4. QED BY <2>1, <2>2, <2>3 DEF Next, Run
<1>3. QED BY <1>1, <1>2, TypeCorrect, PTL DEF Spec

LEMMA InitRefines == Init => Gate!Init
  BY DEF Init, Gate!Init, Arrived

LEMMA StepRefines ==
    ASSUME TypeOK, Remembered, NoLostWaiter, Queued, GaveUp, [Next]_vars
    PROVE  [Gate!Next]_(Gate!vars)
<1> USE DEF Gate!vars
<1>1. ASSUME NEW c \in Calls, Call(c) \/ ContextDone(c)
      PROVE  [Gate!Next]_(Gate!vars)
  <2>1. CASE Enqueue(c)
    <3>1. c \notin Arrived /\ Arrived' = Arrived \cup {c}
      BY <2>1 DEF Enqueue, Arrived, TypeOK
    <3>2. Gate!Arrive(c)
      BY <2>1, <3>1, SameCardinality DEF Enqueue, Gate!Arrive
    <3>3. QED BY <3>2 DEF Gate!Next
  <2>2. CASE ContextDone(c)
    <3>1. Gate!Abandon(c)
      BY <2>2 DEF ContextDone, Gate!Abandon, Arrived
    <3>2. QED BY <3>1 DEF Gate!Next
  <2>3. CASE ~Enqueue(c) /\ ~ContextDone(c)
    <3>1. UNCHANGED <<arrival, ctxDone, granted, age>>
      BY <1>1, <2>3 DEF Call, Signal, ReturnReady, SelectDone, CancelGranted, CancelWaiting
    <3>2. Arrived' = Arrived
      BY <1>1, <2>3 DEF Call, Signal, ReturnReady, SelectDone, CancelGranted,
                        CancelWaiting, Arrived, TypeOK
    <3>3. QED BY <3>1, <3>2
  <2>4. QED BY <2>1, <2>2, <2>3
<1>2. CASE Process
  <2>1. PICK G \in SUBSET Live :
          /\ Drains(G)
          /\ waiters' = Live \ G
          /\ granted' = granted \cup G
          /\ age' = [c \in Calls |-> IF c \in G THEN 0 ELSE age[c]]
    BY <1>2 DEF Process
  <2>2. UNCHANGED <<pc, arrival, ctxDone>> /\ Arrived' = Arrived
    BY <1>2 DEF Process, Arrived
  <2>3. Gate!Recent = Kept
    BY DEF Gate!Recent, Kept, Remembered, Recent
  <2>4. Cardinality(Gate!Recent \cup G) <= Capacity
    BY <2>1, <2>3 DEF Drains
  <2>5. Gate!Waiting = Live
    <3>1. Canceled \subseteq ctxDone
      BY DEF Canceled, GaveUp
    <3>2. QED BY <3>1 DEF Gate!Waiting, NoLostWaiter, Live, Queued
  <2>6. \A g \in G, w \in Gate!Waiting \ G : arrival[g] < arrival[w]
    BY <2>1, <2>5 DEF Drains, OldestFirst
  <2>7. Gate!Admit(G)
    BY <2>1, <2>2, <2>4, <2>6, SameCardinality DEF Gate!Admit
  <2>8. QED BY <2>5, <2>7 DEF Gate!Next
<1>3. CASE Tick
  <2>1. Gate!Tick
    BY <1>3 DEF Tick, Aged, Gate!Tick, Gate!Recent, Arrived
  <2>2. QED BY <2>1 DEF Gate!Next
<1>4. CASE TakeWake \/ TimerFires \/ UNCHANGED vars
  BY <1>4 DEF TakeWake, TimerFires, vars, Arrived
<1>5. QED BY <1>1, <1>2, <1>3, <1>4 DEF Next, Run

\* The limiter implements RateGate for every set of calls, budget and window:
\* callers may reason about the gate alone (limiter.go:82-231).
THEOREM GateImplemented == Spec => ImplementsGate
  BY InitRefines, StepRefines, TypeCorrect, RememberedHolds, WaitersKept,
     QueueSeparate, OnlyDoneCancel, PTL DEF Spec, ImplementsGate, Gate!Spec
=============================================================================

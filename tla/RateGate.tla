------------------------------ MODULE RateGate ------------------------------
(***************************************************************************)
(* What a caller may rely on from a rate limiter: a gate that admits calls *)
(* in order of arrival, at most Capacity in any window, and forgets those  *)
(* that were abandoned.  It has no queue, no loop, no channel and no       *)
(* timer; OutboundLimiter is shown to implement it.                        *)
(***************************************************************************)
EXTENDS Naturals, FiniteSets

CONSTANTS Calls, Capacity, Window

VARIABLES
    position,   \* position of each call that has arrived
    arrived,
    abandoned,  \* calls whose caller no longer waits
    admitted,
    age         \* ticks since admission, at most Window

vars == <<position, arrived, abandoned, admitted, age>>

Init ==
    /\ position = [c \in Calls |-> 0]
    /\ arrived = {}
    /\ abandoned = {}
    /\ admitted = {}
    /\ age = [c \in Calls |-> 0]

Waiting == arrived \ (admitted \cup abandoned)

Recent == {c \in admitted : age[c] < Window}

Arrive(c) ==
    /\ c \notin arrived
    /\ arrived' = arrived \cup {c}
    /\ position' = [position EXCEPT ![c] = Cardinality(arrived)]
    /\ UNCHANGED <<abandoned, admitted, age>>

Abandon(c) ==
    /\ c \notin abandoned
    /\ abandoned' = abandoned \cup {c}
    /\ UNCHANGED <<position, arrived, admitted, age>>

Admit(G) ==
    /\ \A g \in G, w \in Waiting \ G : position[g] < position[w]
    /\ Cardinality(Recent \cup G) <= Capacity
    /\ admitted' = admitted \cup G
    /\ age' = [c \in Calls |-> IF c \in G THEN 0 ELSE age[c]]
    /\ UNCHANGED <<position, arrived, abandoned>>

Tick ==
    /\ age' = [c \in Calls |-> IF c \in Recent THEN age[c] + 1 ELSE age[c]]
    /\ UNCHANGED <<position, arrived, abandoned, admitted>>

Next ==
    \/ \E c \in Calls : Arrive(c) \/ Abandon(c)
    \/ \E G \in SUBSET Waiting : Admit(G)
    \/ Tick

Spec == Init /\ [][Next]_vars

\* The gate opens for calls that stay, and time passes.
FairSpec ==
    /\ Spec
    /\ WF_vars(\E G \in SUBSET Waiting \ {{}} : Admit(G))
    /\ WF_vars(Tick)
=============================================================================

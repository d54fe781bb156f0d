----------------------------- MODULE PairLookup -----------------------------
(***************************************************************************)
(* What the HTTP handler relies on when it asks a source, the address list *)
(* or Nominatim, about an input: one reply, that never changes; a partial  *)
(* one only after the request's context has ended.                         *)
(***************************************************************************)
CONSTANTS
    Matches,    \* what the three checks can find: the countries of each pair's matches
    MayFail     \* the source can report an error

VARIABLES
    ctxDone,    \* the context given to Handle has ended
    reply       \* what was sent on the channel Handle returned

vars == <<ctxDone, reply>>

\* types.PairMatching: a pair's flag is that it has matches.  whole notes that all
\* three checks had their say.
Reply == [match : Matches, error : BOOLEAN, whole : BOOLEAN]

Pending == [none |-> TRUE]

Init == ctxDone = FALSE /\ reply = Pending

End == ~ctxDone /\ ctxDone' = TRUE /\ UNCHANGED reply

MayReply(r) ==
    /\ reply = Pending
    /\ r.error => MayFail
    /\ r.whole \/ r.error \/ ctxDone

ReplyWith(r) == MayReply(r) /\ reply' = r /\ UNCHANGED ctxDone

Next == End \/ \E r \in Reply : ReplyWith(r)

Spec == Init /\ [][Next]_vars

\* A source always replies, whether or not the context ends.
FairSpec == Spec /\ WF_vars(\E r \in Reply : ReplyWith(r))
=============================================================================

------------------------- MODULE AddressUpdateProofs -------------------------
(***************************************************************************)
(* Proofs about the update script and the services started next to it,     *)
(* for any number of runs and any files.                                   *)
(*                                                                         *)
(* With all faults no run loses an address that no file replaces.  A       *)
(* DELETE takes its feature_ids from staging when it is executed, which    *)
(* may be long after it was issued and with the rows of other runs; what   *)
(* makes it harmless is that all rows that are ever in staging come from   *)
(* files.                                                                  *)
(*                                                                         *)
(* Without restarts and overlap a run that ends well has landed its file   *)
(* (LandInv), and nothing is missing that no run is about to insert        *)
(* (MissingInv).                                                           *)
(*                                                                         *)
(* A service that builds its indexes meanwhile is one of ListIndex, on a    *)
(* table that changes; it finds every address that no file replaces: none  *)
(* is lost, and so each of its queries sees them all (SeenInv).            *)
(***************************************************************************)
EXTENDS AddressService, ListIndexProofs, TLAPS

InFile(f) == \E r \in Runs : \E i \in DOMAIN file[r] : file[r][i] = f

StagedFromFiles == \A x \in staging : InFile(x.feature)

IInv == StagedFromFiles /\ UntouchedKept

-----------------------------------------------------------------------------
\* A batch holds rows of the file it is taken from.
LEMMA BatchFromFile ==
    ASSUME NEW r \in Runs, NEW x \in Batch(r)
    PROVE  InFile(x.feature)
BY DEF Batch, RowsOf, InFile

\* What is deleted replaces an address: it has a feature_id, that of a row in
\* staging (update_slovenian_addresses.py:242-245).
LEMMA ReplacedInFile ==
    ASSUME StagedFromFiles, NEW rows, NEW m \in Replaced(rows)
    PROVE  ~Untouched(m.row)
BY DEF Replaced, StagedFromFiles, InFile, Untouched

\* So a DELETE, whatever rows it is issued for, leaves the others.
LEMMA DeleteKeeps ==
    ASSUME IInv, UNCHANGED file, NEW rows, main' = main \ Replaced(rows)
    PROVE  UntouchedKept'
<1>1. \A x : Untouched(x)' = Untouched(x)
    BY DEF Untouched
<1>2. RowsOf(0, DOMAIN Initial)' = RowsOf(0, DOMAIN Initial)
    BY DEF RowsOf
<1>3. SUFFICES ASSUME NEW x \in RowsOf(0, DOMAIN Initial), Untouched(x)
               PROVE  [row |-> x, by |-> 0] \in main'
    BY <1>1, <1>2 DEF UntouchedKept
<1>4. [row |-> x, by |-> 0] \in main
    BY <1>3 DEF IInv, UntouchedKept
<1>5. [row |-> x, by |-> 0] \notin Replaced(rows)
    BY <1>3, ReplacedInFile DEF IInv
<1> QED
    BY <1>4, <1>5

\* Steps that delete nothing.
LEMMA MoreKeeps ==
    ASSUME UntouchedKept, UNCHANGED file, main \subseteq main'
    PROVE  UntouchedKept'
<1>1. \A x : Untouched(x)' = Untouched(x)
    BY DEF Untouched
<1>2. RowsOf(0, DOMAIN Initial)' = RowsOf(0, DOMAIN Initial)
    BY DEF RowsOf
<1> QED
    BY <1>1, <1>2 DEF UntouchedKept

-----------------------------------------------------------------------------
\* The initial addresses are all there, and staging is empty.
LEMMA InitKept == Init => IInv
BY DEF Init, IInv, StagedFromFiles, UntouchedKept, InsertedBy

\* No step disturbs the invariant.
LEMMA StepKept == IInv /\ [Next]_vars => IInv'
<1> SUFFICES ASSUME IInv, [Next]_vars
             PROVE  IInv'
    OBVIOUS
<1>1. file' = file
    BY DEF Next, Run, Start, Create, CreateFails, LoadBatch, LoadFails, Delete,
           DeleteFails, Insert, InsertFails, Cleanup, Crash, Mutate, Restart, vars
<1>2. \A f : InFile(f)' = InFile(f)
    BY <1>1 DEF InFile
<1>3. ASSUME staging' \subseteq staging
      PROVE  StagedFromFiles'
    BY <1>2, <1>3 DEF IInv, StagedFromFiles
<1>4. ASSUME NEW r \in Runs, staging' \subseteq staging \cup Batch(r)
      PROVE  StagedFromFiles'
    BY <1>2, <1>4, BatchFromFile DEF IInv, StagedFromFiles
<1>5. ASSUME main \subseteq main'
      PROVE  UntouchedKept'
    BY <1>1, <1>5, MoreKeeps DEF IInv
<1>6. ASSUME DeletesNow \/ DeletesLater
      PROVE  UntouchedKept'
    BY <1>1, <1>5, <1>6, DeleteKeeps DEF DeletesNow, DeletesLater
<1>7. ASSUME NEW r \in Runs, Run(r)
      PROVE  IInv'
    <2>1. CASE Start(r) \/ Create(r) \/ CreateFails(r)
        BY <1>3, <1>5, <2>1 DEF Start, Create, CreateFails, IInv
    <2>2. CASE LoadBatch(r) \/ LoadFails(r)
        BY <1>4, <1>5, <2>2 DEF LoadBatch, LoadFails, IInv
    <2>3. CASE Delete(r)
        BY <1>3, <1>6, <2>3 DEF Delete, IInv
    <2>4. CASE DeleteFails(r)
        BY <1>3, <1>5, <1>6, <2>4 DEF DeleteFails, IInv
    <2>5. CASE Insert(r) \/ InsertFails(r)
        BY <1>3, <1>5, <2>5 DEF Insert, InsertFails, IInv
    <2>6. CASE Cleanup(r)
        BY <1>3, <1>5, <2>6 DEF Cleanup, IInv
    <2> QED
        BY <1>7, <2>1, <2>2, <2>3, <2>4, <2>5, <2>6 DEF Run
<1>8. ASSUME NEW r \in Runs, Crash(r)
      PROVE  IInv'
    BY <1>3, <1>5, <1>8 DEF Crash, IInv
<1>9. CASE Mutate
    <2>1. main' = main \ Replaced(Head(mutations))
        BY <1>9 DEF Mutate
    <2>2. UntouchedKept'
        BY <1>1, <2>1, DeleteKeeps
    <2> QED
        BY <1>3, <1>9, <2>2 DEF Mutate, IInv
<1>10. CASE Restart
    BY <1>3, <1>5, <1>10 DEF Restart, IInv
<1>11. CASE UNCHANGED vars
    BY <1>3, <1>5, <1>11 DEF vars, IInv
<1> QED
    BY <1>7, <1>8, <1>9, <1>10, <1>11 DEF Next

\* An address that no file replaces is never lost, whatever fails, restarts or
\* overlaps (update_slovenian_addresses.py:242-245).
THEOREM AddressesKept == Spec => []UntouchedKept
<1>1. IInv => UntouchedKept
    BY DEF IInv
<1> QED
    BY InitKept, StepKept, <1>1, PTL DEF Spec

-----------------------------------------------------------------------------
(***************************************************************************)
(* Types.                                                                  *)
(***************************************************************************)

LEMMA RowsType ==
    ASSUME TypeOK, NEW r \in 0..NumRuns, NEW places \in SUBSET DOMAIN file[r]
    PROVE  RowsOf(r, places) \subseteq Row
<1>1. file[r] \in Seq(Feature)
    BY DEF TypeOK
<1>2. \A i \in places : i \in Nat /\ file[r][i] \in Feature
    BY <1>1
<1> QED
    BY <1>2 DEF RowsOf, Row

LEMMA BatchType == ASSUME TypeOK, NEW r \in Runs PROVE Batch(r) \subseteq Row
BY RowsType, AddressUpdateAssumption DEF Batch, Runs, AddressUpdateAssumption

LEMMA InitUpdateType == Init => TypeOK
<1> SUFFICES ASSUME Init PROVE TypeOK
    OBVIOUS
<1>1. file \in [0..NumRuns -> Seq(Feature)]
    BY AddressUpdateAssumption DEF Init, Runs, AddressUpdateAssumption
<1>2. /\ file[0] = Initial
      /\ \A i \in DOMAIN Initial : i \in Nat /\ Initial[i] \in Feature
    BY AddressUpdateAssumption DEF Init, AddressUpdateAssumption
<1>3. InsertedBy(RowsOf(0, DOMAIN Initial), 0) \subseteq [row : Row, by : 0..NumRuns]
    <2>1. RowsOf(0, DOMAIN Initial) \subseteq Row
        BY <1>2, AddressUpdateAssumption DEF RowsOf, Row, AddressUpdateAssumption
    <2> QED
        BY <2>1, AddressUpdateAssumption DEF InsertedBy, AddressUpdateAssumption
<1>4. loaded \in [Runs -> Nat] /\ \A r \in Runs : loaded[r] <= Len(file[r])
    BY <1>1 DEF Init, Runs
<1>5. pc \in [Runs -> Active \cup Ended \cup {"idle"}]
    BY DEF Init
<1>6. staging \subseteq Row /\ hasStaging \in BOOLEAN /\ (~hasStaging => staging = {})
    BY DEF Init
<1>7. mutations \in Seq(SUBSET main)
    BY DEF Init
<1>8. main \subseteq [row : Row, by : 0..NumRuns]
    BY <1>3 DEF Init
<1> QED
    BY <1>1, <1>4, <1>5, <1>6, <1>7, <1>8 DEF TypeOK

\* A DELETE leaves queued ones that concern rows of the table.
LEMMA DeleteTypes ==
    ASSUME TypeOK, DeletesNow \/ DeletesLater
    PROVE  main' \subseteq main /\ mutations' \in Seq(SUBSET main')
<1>1. CASE DeletesNow
    <2>1. mutations' = <<>> /\ main' \subseteq main
        BY <1>1 DEF DeletesNow
    <2> QED
        BY <2>1
<1>2. CASE DeletesLater
    <2>1. mutations' = Append(mutations, main) /\ main' = main
        BY <1>2 DEF DeletesLater
    <2>2. mutations \in Seq(SUBSET main) /\ main \in SUBSET main
        BY DEF TypeOK
    <2> QED
        BY <2>1, <2>2
<1> QED
    BY <1>1, <1>2

LEMMA IsSequence ==
    ASSUME NEW n \in Nat, NEW S, NEW s \in [1..n -> S]
    PROVE  s \in Seq(S)
OBVIOUS

LEMMA MutateTypes ==
    ASSUME TypeOK, Mutate
    PROVE  main' \subseteq main /\ mutations' \in Seq(SUBSET main')
<1> DEFINE gone == Replaced(Head(mutations))
<1>1. main' = main \ gone
    BY DEF Mutate
<1>2. /\ mutations' = [i \in 1..(Len(mutations) - 1) |-> mutations[i + 1] \ gone]
      /\ Len(mutations) - 1 \in Nat
    BY DEF TypeOK, Mutate
<1>3. \A i \in 1..(Len(mutations) - 1) : mutations[i + 1] \subseteq main
    BY <1>2 DEF TypeOK
<1> HIDE DEF gone
<1>4. \A i \in 1..(Len(mutations) - 1) : mutations[i + 1] \ gone \in SUBSET main'
    BY <1>1, <1>3
<1>5. mutations' \in Seq(SUBSET main')
    <2>1. mutations' \in [1..(Len(mutations) - 1) -> SUBSET main']
        BY <1>2, <1>4
    <2> QED
        BY <1>2, <2>1, IsSequence
<1> QED
    BY <1>1, <1>5

LEMMA RunType ==
    ASSUME TypeOK, NEW r \in Runs, Run(r)
    PROVE  TypeOK'
<1>1. CASE Start(r) \/ Create(r) \/ CreateFails(r) \/ Cleanup(r)
    BY <1>1 DEF TypeOK, Start, Create, CreateFails, Cleanup, Goes, Active, Ended
<1>2. CASE LoadBatch(r)
    <2>1. BatchEnd(r) \in Nat /\ BatchEnd(r) <= Len(file[r])
        BY AddressUpdateAssumption DEF TypeOK, BatchEnd, Runs, AddressUpdateAssumption
    <2> QED
        BY <1>2, <2>1, BatchType DEF TypeOK, LoadBatch, Goes, Active, Ended
<1>3. CASE LoadFails(r)
    BY <1>3, BatchType DEF TypeOK, LoadFails, Goes, Active, Ended
<1>4. CASE Delete(r) \/ DeleteFails(r)
    BY <1>4, DeleteTypes DEF TypeOK, Delete, DeleteFails, Goes, Active, Ended
<1>5. CASE Insert(r) \/ InsertFails(r)
    <2>1. PICK some \in SUBSET staging : main' = main \cup InsertedBy(some, r)
        BY <1>5 DEF Insert, InsertFails
    <2>2. InsertedBy(some, r) \subseteq [row : Row, by : 0..NumRuns]
        BY AddressUpdateAssumption DEF InsertedBy, TypeOK, Runs, AddressUpdateAssumption
    <2>3. mutations' \in Seq(SUBSET main')
        BY <1>5, <2>1 DEF TypeOK, Insert, InsertFails
    <2> QED
        BY <1>5, <2>1, <2>2, <2>3 DEF TypeOK, Insert, InsertFails, Goes, Active, Ended
<1> QED
    BY <1>1, <1>2, <1>3, <1>4, <1>5 DEF Run

LEMMA StepUpdateType == TypeOK /\ [Next]_vars => TypeOK'
<1> SUFFICES ASSUME TypeOK, [Next]_vars
             PROVE  TypeOK'
    OBVIOUS
<1>1. ASSUME NEW r \in Runs, Crash(r)
      PROVE  TypeOK'
    BY <1>1 DEF TypeOK, Crash, Goes, Active, Ended
<1>2. CASE Mutate
    BY <1>2, MutateTypes DEF TypeOK, Mutate
<1>3. CASE Restart \/ UNCHANGED vars
    BY <1>3 DEF TypeOK, Restart, vars
<1> QED
    BY <1>1, <1>2, <1>3, RunType DEF Next

\* The script's progress and the two tables keep their types.
THEOREM UpdateTypeCorrect == Spec => []TypeOK
BY InitUpdateType, StepUpdateType, PTL DEF Spec

-----------------------------------------------------------------------------
(***************************************************************************)
(* What a successful run has landed, if runs do not overlap and the server *)
(* is not restarted during one.                                            *)
(***************************************************************************)

Undisturbed == Faults \cap {"overlap", "restart"} = {}

\* A run starts when all earlier ones have ended.
OneAtATime == \A q, r \in Runs : (q < r /\ pc[r] # "idle") => pc[q] \in Ended

Last(r) == \A q \in Runs : q > r => pc[q] = "idle"

\* A run's rows are in staging before they are in the table, where none has been
\* before; so no DELETE that is queued by then concerns them.
Landing(r) ==
    /\ pc[r] \in {"idle", "create", "load", "delete", "insert"} => \A m \in main : m.by # r
    /\ pc[r] \in {"idle", "create"} => loaded[r] = 0
    /\ pc[r] = "load" => RowsOf(r, 1..loaded[r]) \subseteq staging
    /\ pc[r] \in {"delete", "insert"} => RowsOf(r, DOMAIN file[r]) \subseteq staging
    /\ (pc[r] \in {"cleanup", "ok"} /\ Last(r)) =>
        /\ InsertedBy(RowsOf(r, DOMAIN file[r]), r) \subseteq main
        /\ \A i \in DOMAIN mutations : \A m \in mutations[i] : m.by # r

LandInv == OneAtATime /\ \A r \in Runs : Landing(r)

LEMMA InitLand == Init => LandInv
BY DEF Init, LandInv, OneAtATime, Landing, InsertedBy, Runs

\* A run's own step: it has not ended before, and no later run has started.
LEMMA RunStep ==
    ASSUME TypeOK, NEW q \in Runs, Run(q) \/ Crash(q)
    PROVE  /\ pc[q] \notin Ended /\ pc'[q] # "idle" /\ UNCHANGED file
           /\ \A r \in Runs : r # q => pc'[r] = pc[r] /\ loaded'[r] = loaded[r]
           /\ \A m \in main' : m \in main \/ m.by = q
<1>1. CASE Start(q) \/ Create(q) \/ CreateFails(q) \/ Cleanup(q) \/ Crash(q)
    BY <1>1 DEF TypeOK, Start, Create, CreateFails, Cleanup, Crash, Goes, Ended, Active
<1>2. CASE LoadBatch(q) \/ LoadFails(q)
    BY <1>2 DEF TypeOK, LoadBatch, LoadFails, Goes, Ended
<1>3. CASE Delete(q) \/ DeleteFails(q)
    BY <1>3, DeleteTypes DEF TypeOK, Delete, DeleteFails, Goes, Ended
<1>4. CASE Insert(q) \/ InsertFails(q)
    BY <1>4 DEF TypeOK, Insert, InsertFails, InsertedBy, Goes, Ended
<1> QED
    BY <1>1, <1>2, <1>3, <1>4 DEF Run

LEMMA StepOrder ==
    ASSUME Undisturbed, TypeOK, OneAtATime, [Next]_vars
    PROVE  OneAtATime'
<1>1. ASSUME NEW q \in Runs, Run(q) \/ Crash(q)
      PROVE  OneAtATime'
    <2>1. \A r \in Runs : r < q => pc[r] \in Ended
        <3>1. CASE pc[q] # "idle"
            BY <3>1 DEF OneAtATime
        <3>2. CASE pc[q] = "idle"
            <4>1. Start(q)
                BY <1>1, <3>2 DEF Run, Create, CreateFails, LoadBatch, LoadFails, Delete,
                                  DeleteFails, Insert, InsertFails, Cleanup, Crash, Active
            <4> QED
                BY <4>1 DEF TypeOK, Undisturbed, Start, Runs
        <3> QED
            BY <3>1, <3>2
    <2>2. \A r \in Runs : r # q => pc'[r] = pc[r]
        BY <1>1, RunStep
    <2>3. \A r \in Runs : r > q => pc[r] = "idle"
        BY <1>1, RunStep DEF OneAtATime
    <2> QED
        BY <2>1, <2>2, <2>3 DEF OneAtATime, Runs
<1>2. CASE Mutate \/ Restart \/ UNCHANGED vars
    BY <1>2 DEF Mutate, Restart, OneAtATime, vars
<1> QED
    BY <1>1, <1>2 DEF Next

\* The rows of the batches loaded so far, and of the next.
LEMMA BatchLoaded ==
    ASSUME TypeOK, NEW r \in Runs, RowsOf(r, 1..loaded[r]) \subseteq staging
    PROVE  RowsOf(r, 1..BatchEnd(r)) \subseteq staging \cup Batch(r)
<1>1. /\ loaded[r] \in Nat /\ loaded[r] <= Len(file[r])
      /\ Len(file[r]) \in Nat /\ DOMAIN file[r] = 1..Len(file[r])
      /\ BatchSize \in Nat
    BY AddressUpdateAssumption DEF TypeOK, Runs, AddressUpdateAssumption
<1>2. ASSUME NEW i \in 1..BatchEnd(r)
      PROVE  i \in 1..loaded[r] \/
             i \in {j \in DOMAIN file[r] : loaded[r] < j /\ j <= loaded[r] + BatchSize}
    BY <1>1, <1>2 DEF BatchEnd
<1> QED
    BY <1>2 DEF RowsOf, Batch

LEMMA OwnStep ==
    ASSUME TypeOK, LandInv, NEW r \in Runs, Run(r) \/ Crash(r)
    PROVE  Landing(r)'
<1>1. UNCHANGED file /\ Landing(r)
    BY RunStep DEF LandInv
<1>2. \A places : RowsOf(r, places)' = RowsOf(r, places)
    BY <1>1 DEF RowsOf
<1>3. CASE Start(r) \/ CreateFails(r) \/ LoadFails(r) \/ InsertFails(r) \/ Crash(r)
    BY <1>1, <1>3 DEF TypeOK, Landing, Start, CreateFails, LoadFails, InsertFails, Crash, Goes
<1>4. CASE Create(r)
    <2>1. RowsOf(r, 1..0) = {}
        BY DEF RowsOf
    <2> QED
        BY <1>1, <1>2, <1>4, <2>1 DEF TypeOK, Landing, Create, Goes
<1>5. CASE LoadBatch(r)
    <2>1. RowsOf(r, 1..BatchEnd(r)) \subseteq staging'
        BY <1>1, <1>5, BatchLoaded DEF LoadBatch, Landing
    <2>2. BatchEnd(r) >= Len(file[r]) => 1..BatchEnd(r) = DOMAIN file[r]
        <3>1. Len(file[r]) \in Nat /\ DOMAIN file[r] = 1..Len(file[r])
            BY DEF TypeOK, Runs
        <3>2. BatchSize \in Nat /\ loaded[r] \in Nat
            BY AddressUpdateAssumption DEF TypeOK, AddressUpdateAssumption
        <3> QED
            BY <3>1, <3>2 DEF BatchEnd
    <2>3. /\ main' = main /\ loaded'[r] = BatchEnd(r)
          /\ pc[r] = "load" /\ pc'[r] \in {"load", "delete"}
          /\ pc'[r] = "delete" => BatchEnd(r) >= Len(file[r])
        BY <1>5 DEF TypeOK, LoadBatch, Goes
    <2> QED
        BY <1>1, <1>2, <2>1, <2>2, <2>3 DEF Landing
<1>6. CASE Delete(r) \/ DeleteFails(r)
    <2>1. /\ main' \subseteq main /\ staging' = staging
          /\ pc[r] = "delete" /\ pc'[r] = "insert"
        BY <1>6, DeleteTypes DEF TypeOK, Delete, DeleteFails, Goes
    <2> QED
        BY <1>1, <1>2, <2>1 DEF Landing
<1>7. CASE Insert(r)
    <2>1. /\ main' = main \cup InsertedBy(staging, r) /\ mutations' = mutations
          /\ pc[r] = "insert" /\ pc'[r] = "cleanup"
        BY <1>7 DEF TypeOK, Insert, Goes
    <2>2. InsertedBy(RowsOf(r, DOMAIN file[r]), r) \subseteq main'
        BY <1>1, <2>1 DEF Landing, InsertedBy
    <2>3. \A i \in DOMAIN mutations : mutations[i] \subseteq main
        BY DEF TypeOK
    <2> QED
        BY <1>1, <1>2, <2>1, <2>2, <2>3 DEF Landing, InsertedBy
<1>8. CASE Cleanup(r)
    <2>1. /\ main' = main /\ mutations' = mutations
          /\ \/ pc[r] = "cleanup" /\ pc'[r] = "ok"
             \/ pc[r] = "abandon" /\ pc'[r] = "failed"
          /\ Last(r)' => Last(r)
        BY <1>8 DEF TypeOK, Cleanup, Goes, Last, Runs
    <2> QED
        BY <1>1, <1>2, <2>1 DEF Landing, InsertedBy
<1> QED
    BY <1>3, <1>4, <1>5, <1>6, <1>7, <1>8 DEF Run

\* A step of another run: if it is a later one, this one has ended and is not the last
\* any more; if an earlier one, this one has not started.
LEMMA OtherStep ==
    ASSUME TypeOK, LandInv, OneAtATime', NEW q \in Runs, NEW r \in Runs, q # r,
           Run(q) \/ Crash(q)
    PROVE  Landing(r)'
<1>1. /\ pc[q] \notin Ended /\ pc'[q] # "idle" /\ UNCHANGED file
      /\ pc'[r] = pc[r] /\ loaded'[r] = loaded[r]
      /\ \A m \in main' : m \in main \/ m.by = q
    BY RunStep
<1>2. CASE r < q
    <2>1. pc'[r] \in Ended /\ ~Last(r)'
        BY <1>1, <1>2 DEF OneAtATime, Last, Runs
    <2> QED
        BY <2>1 DEF Landing, Ended
<1>3. CASE r > q
    <2>1. pc'[r] = "idle" /\ pc[r] = "idle"
        BY <1>1, <1>3 DEF LandInv, OneAtATime
    <2> QED
        BY <1>1, <2>1 DEF LandInv, Landing
<1> QED
    BY <1>2, <1>3 DEF Runs

LEMMA MutateLand ==
    ASSUME TypeOK, NEW r \in Runs, Landing(r), Mutate
    PROVE  Landing(r)'
<1>1. UNCHANGED <<pc, file, loaded, staging>>
    BY DEF Mutate
<1>2. /\ \A places : RowsOf(r, places)' = RowsOf(r, places)
      /\ Last(r)' = Last(r)
    BY <1>1 DEF RowsOf, Last
<1>3. main' \subseteq main
    BY MutateTypes
<1>4. ASSUME \A i \in DOMAIN mutations : \A m \in mutations[i] : m.by # r
      PROVE  /\ \A m \in main : m.by = r => m \in main'
             /\ \A i \in DOMAIN mutations' : \A m \in mutations'[i] : m.by # r
    <2> DEFINE gone == Replaced(Head(mutations))
    <2>1. /\ main' = main \ gone
          /\ mutations' = [i \in 1..(Len(mutations) - 1) |-> mutations[i + 1] \ gone]
          /\ gone \subseteq Head(mutations)
        BY DEF Mutate, Replaced
    <2>2. /\ Head(mutations) = mutations[1] /\ 1 \in DOMAIN mutations
          /\ \A i \in 1..(Len(mutations) - 1) : i + 1 \in DOMAIN mutations
        BY DEF TypeOK, Mutate
    <2> HIDE DEF gone
    <2> QED
        BY <1>4, <2>1, <2>2
<1> QED
    BY <1>1, <1>2, <1>3, <1>4 DEF Landing, InsertedBy

LEMMA StepLand == Undisturbed /\ TypeOK /\ LandInv /\ [Next]_vars => LandInv'
<1> SUFFICES ASSUME Undisturbed, TypeOK, LandInv, [Next]_vars
             PROVE  LandInv'
    OBVIOUS
<1>1. OneAtATime'
    BY StepOrder DEF LandInv
<1>2. ASSUME NEW r \in Runs
      PROVE  Landing(r)'
    <2>1. ASSUME NEW q \in Runs, Run(q) \/ Crash(q)
          PROVE  Landing(r)'
        <3>1. CASE q = r
            BY <2>1, <3>1, OwnStep
        <3>2. CASE q # r
            BY <1>1, <2>1, <3>2, OtherStep
        <3> QED
            BY <3>1, <3>2
    <2>2. CASE Mutate
        BY <2>2, MutateLand DEF LandInv
    <2>3. CASE Restart
        BY <2>3 DEF Restart, Undisturbed
    <2>4. CASE UNCHANGED vars
        BY <2>4 DEF LandInv, Landing, Last, RowsOf, vars
    <2> QED
        BY <2>1, <2>2, <2>3, <2>4 DEF Next
<1> QED
    BY <1>1, <1>2 DEF LandInv

\* "Update Complete!" (update_slovenian_addresses.py:377): if runs do not overlap and
\* the server is not restarted, a run that ends well has every row of its file in the
\* table until the next run starts, whatever has failed or been left behind before,
\* and whenever the DELETEs are executed.
THEOREM CompleteMeansLanded == Undisturbed => (Spec => []FileLanded)
<1> SUFFICES ASSUME Undisturbed
             PROVE  Spec => []FileLanded
    OBVIOUS
<1>1. LandInv => FileLanded
    BY DEF LandInv, Landing, Last, FileLanded, Started
<1> QED
    BY InitUpdateType, StepUpdateType, InitLand, StepLand, <1>1, PTL DEF Spec

-----------------------------------------------------------------------------
(***************************************************************************)
(* Where addresses are while no run has failed.                            *)
(***************************************************************************)

NoFailure == \A r \in Runs : pc[r] \notin {"abandon", "failed", "crashed"}

UnderWay == \E r \in Runs : pc[r] \in {"load", "delete", "insert"}

\* Once its run has inserted it, a row that is still in staging is in the table as one
\* that no queued DELETE concerns.
Covered ==
    \A x \in staging : UnderWay \/
        \E m \in main : m.row = x /\ \A i \in DOMAIN mutations : m \notin mutations[i]

MissingInv ==
    NoFailure =>
        /\ Covered
        /\ \A r \in {q \in 0..NumRuns : Landed(q)} :
                \A i \in DOMAIN file[r] : InMain(file[r][i]) \/ Replacing(file[r][i])

LEMMA InitMissing == Init => MissingInv
<1> SUFFICES ASSUME Init
             PROVE  MissingInv
    OBVIOUS
<1>1. Covered
    BY DEF Init, Covered
<1>2. \A r \in 0..NumRuns : Landed(r) => r = 0
    BY DEF Init, Landed, Runs
<1>3. ASSUME NEW i \in DOMAIN file[0]
      PROVE  InMain(file[0][i])
    <2>1. file[0] = Initial
        BY AddressUpdateAssumption DEF Init, AddressUpdateAssumption
    <2>2. [row |-> [feature |-> file[0][i], from |-> 0, at |-> i], by |-> 0] \in main
        BY <1>3, <2>1 DEF Init, InsertedBy, RowsOf
    <2> QED
        BY <2>2 DEF InMain
<1> QED
    BY <1>1, <1>2, <1>3 DEF MissingInv

\* What a step may do to a feature that is in the table or about to be replaced.
LEMMA MissingStep ==
    ASSUME MissingInv, NoFailure, UNCHANGED file, Covered',
           \A r \in Runs : Landed(r)' => Landed(r) \/
                \A i \in DOMAIN file[r] : InMain(file[r][i])',
           \A f : InMain(f) \/ Replacing(f) => InMain(f)' \/ Replacing(f)'
    PROVE  MissingInv'
<1> SUFFICES ASSUME NEW r \in 0..NumRuns, Landed(r)', NEW i \in DOMAIN file[r]
             PROVE  InMain(file[r][i])' \/ Replacing(file[r][i])'
    BY DEF MissingInv
<1>1. CASE Landed(r)
    BY <1>1 DEF MissingInv
<1>2. CASE ~Landed(r)
    BY <1>2 DEF Landed, Runs
<1> QED
    BY <1>1, <1>2

LEMMA RunMissing ==
    ASSUME Undisturbed, TypeOK, LandInv, MissingInv, NEW q \in Runs, Run(q) \/ Crash(q)
    PROVE  MissingInv'
<1> SUFFICES ASSUME NoFailure'
             PROVE  MissingInv'
    BY DEF MissingInv
<1>1. /\ pc[q] \notin Ended /\ UNCHANGED file
      /\ \A r \in Runs : r # q => pc'[r] = pc[r]
      /\ pc'[q] \notin {"abandon", "failed", "crashed"}
    BY RunStep DEF NoFailure
<1>2. ASSUME NEW r \in Runs, r # q
      PROVE  pc[r] \in Ended \/ pc[r] = "idle"
    <2>1. CASE pc[q] # "idle"
        BY <1>1, <1>2, <2>1 DEF LandInv, OneAtATime, Runs
    <2>2. CASE pc[q] = "idle"
        <3>1. Start(q) /\ "overlap" \notin Faults
            BY <2>2 DEF Undisturbed, Run, Start, Create, CreateFails, LoadBatch, LoadFails,
                        Delete, DeleteFails, Insert, InsertFails, Cleanup, Crash, Active
        <3> QED
            BY <1>2, <3>1 DEF TypeOK, Start
    <2> QED
        BY <2>1, <2>2
<1>3. pc[q] # "abandon" /\ NoFailure
    <2>1. pc[q] # "abandon"
        BY <1>1 DEF TypeOK, Run, Start, Create, CreateFails, LoadBatch, LoadFails, Delete,
                    DeleteFails, Insert, InsertFails, Cleanup, Crash, Goes
    <2> QED
        BY <1>1, <2>1 DEF NoFailure, Ended
<1>4. CASE Start(q)
    <2>1. /\ UNCHANGED <<staging, main, mutations>>
          /\ pc[q] = "idle" /\ pc'[q] = "create"
        BY <1>4 DEF TypeOK, Start, Goes
    <2>2. \A r \in Runs : pc'[r] \in {"load", "delete", "insert"}
                            <=> pc[r] \in {"load", "delete", "insert"}
        BY <1>1, <2>1
    <2>3. \A f : Replacing(f) <=> Replacing(f)'
        BY <2>1, <2>2 DEF Replacing
    <2>4. Covered'
        BY <1>3, <2>1, <2>2 DEF MissingInv, Covered, UnderWay
    <2>5. \A r \in Runs : Landed(r)' => Landed(r)
        BY <1>1, <2>1 DEF Landed
    <2> QED
        BY <1>1, <1>3, <2>1, <2>3, <2>4, <2>5, MissingStep DEF InMain
<1>5. CASE Create(q) \/ LoadBatch(q)
    <2>1. /\ staging \subseteq staging' /\ UNCHANGED main
          /\ pc'[q] \in {"load", "delete"}
        BY <1>5 DEF TypeOK, Create, LoadBatch, Goes
    <2>2. Covered'
        BY <2>1 DEF Covered, UnderWay
    <2>3. \A f : InMain(f) \/ Replacing(f) => InMain(f)' \/ Replacing(f)'
        BY <2>1 DEF InMain, Replacing
    <2>4. \A r \in Runs : Landed(r)' => Landed(r)
        BY <1>1, <2>1 DEF Landed
    <2> QED
        BY <1>1, <1>3, <2>2, <2>3, <2>4, MissingStep
<1>6. CASE Delete(q) \/ DeleteFails(q)
    <2>1. /\ UNCHANGED staging /\ pc'[q] = "insert"
          /\ main' = main \/ main' = main \ Replaced(main)
        BY <1>6 DEF TypeOK, Delete, DeleteFails, DeletesNow, DeletesLater, Goes
    <2>2. Covered'
        BY <2>1 DEF Covered, UnderWay
    <2>3. \A f : InMain(f) \/ Replacing(f) => InMain(f)' \/ Replacing(f)'
        BY <2>1 DEF InMain, Replacing, Replaced
    <2>4. \A r \in Runs : Landed(r)' => Landed(r)
        BY <1>1, <2>1 DEF Landed
    <2> QED
        BY <1>1, <1>3, <2>2, <2>3, <2>4, MissingStep
<1>7. CASE Insert(q)
    <2>1. /\ UNCHANGED <<staging, mutations>>
          /\ main' = main \cup InsertedBy(staging, q) /\ pc[q] = "insert"
        BY <1>7 DEF Insert
    <2>2. \A x \in staging : [row |-> x, by |-> q] \in main'
        BY <2>1 DEF InsertedBy
    <2>3. \A m \in main : m.by # q
        BY <2>1 DEF LandInv, Landing
    <2>4. \A i \in DOMAIN mutations : mutations[i] \subseteq main
        BY DEF TypeOK
    <2>5. Covered'
        <3>1. ASSUME NEW x \in staging
              PROVE  \E m \in main' : m.row = x /\ \A i \in DOMAIN mutations : m \notin mutations[i]
            <4> DEFINE m == [row |-> x, by |-> q]
            <4>1. m.row = x /\ m.by = q
                OBVIOUS
            <4>2. m \in main'
                BY <2>2
            <4>3. \A i \in DOMAIN mutations : m \notin mutations[i]
                BY <2>3, <2>4, <4>1
            <4> QED
                BY <4>1, <4>2, <4>3
        <3> QED
            BY <2>1, <3>1 DEF Covered
    <2>6. \A f : (\E x \in staging : x.feature = f) => InMain(f)'
        BY <2>2 DEF InMain
    <2>7. \A f : InMain(f) \/ Replacing(f) => InMain(f)' \/ Replacing(f)'
        BY <2>1, <2>6 DEF InMain, Replacing
    <2>8. \A i \in DOMAIN file[q] : InMain(file[q][i])'
        <3>1. \A i \in DOMAIN file[q] :
                [feature |-> file[q][i], from |-> q, at |-> i] \in staging
            BY <2>1 DEF LandInv, Landing, RowsOf
        <3> QED
            BY <1>1, <2>1, <2>6, <3>1
    <2>9. \A r \in Runs : r # q => (Landed(r)' <=> Landed(r))
        BY <1>1 DEF Landed
    <2> QED
        BY <1>1, <1>3, <2>5, <2>7, <2>8, <2>9, MissingStep
<1>8. CASE Cleanup(q)
    <2>1. /\ UNCHANGED <<main, mutations>> /\ staging' \subseteq staging
          /\ pc[q] = "cleanup" /\ pc'[q] = "ok"
        BY <1>3, <1>8 DEF TypeOK, Cleanup, Goes
    <2>2. ~UnderWay
        BY <1>2, <2>1 DEF UnderWay, Ended
    <2>3. Covered'
        BY <1>3, <2>1, <2>2 DEF MissingInv, Covered
    <2>4. \A f : InMain(f) \/ Replacing(f) => InMain(f)' \/ Replacing(f)'
        BY <2>1, <2>2 DEF InMain, Replacing, UnderWay
    <2>5. \A r \in Runs : Landed(r)' => Landed(r)
        BY <1>1, <2>1 DEF Landed
    <2> QED
        BY <1>1, <1>3, <2>3, <2>4, <2>5, MissingStep
<1>9. CASE CreateFails(q) \/ LoadFails(q) \/ InsertFails(q) \/ Crash(q)
    BY <1>1, <1>9 DEF TypeOK, CreateFails, LoadFails, InsertFails, Crash, Goes
<1> QED
    BY <1>4, <1>5, <1>6, <1>7, <1>8, <1>9 DEF Run

LEMMA MutateMissing ==
    ASSUME TypeOK, MissingInv, Mutate
    PROVE  MissingInv'
<1> SUFFICES ASSUME NoFailure'
             PROVE  MissingInv'
    BY DEF MissingInv
<1> DEFINE gone == Replaced(Head(mutations))
<1>1. /\ UNCHANGED <<pc, file, staging>>
      /\ main' = main \ gone
      /\ mutations' = [i \in 1..(Len(mutations) - 1) |-> mutations[i + 1] \ gone]
      /\ gone \subseteq Head(mutations)
      /\ \A m \in gone : \E x \in staging : x.feature = m.row.feature
    BY DEF Mutate, Replaced
<1>2. /\ Head(mutations) = mutations[1] /\ 1 \in DOMAIN mutations
      /\ \A i \in 1..(Len(mutations) - 1) : i + 1 \in DOMAIN mutations
    BY DEF TypeOK, Mutate
<1> HIDE DEF gone
<1>3. NoFailure /\ (UnderWay <=> UnderWay')
    BY <1>1 DEF NoFailure, UnderWay
<1>4. ASSUME NEW m \in main, \A i \in DOMAIN mutations : m \notin mutations[i]
      PROVE  m \in main' /\ \A i \in DOMAIN mutations' : m \notin mutations'[i]
    BY <1>1, <1>2, <1>4
<1>5. Covered'
    <2> SUFFICES ASSUME NEW x \in staging, ~UnderWay
                 PROVE  \E m \in main' : m.row = x /\ \A i \in DOMAIN mutations' : m \notin mutations'[i]
        BY <1>1, <1>3 DEF Covered
    <2>1. PICK m \in main : m.row = x /\ \A i \in DOMAIN mutations : m \notin mutations[i]
        BY <1>3 DEF MissingInv, Covered
    <2> QED
        BY <1>4, <2>1
<1>6. \A f : Replacing(f)' <=> Replacing(f)
    BY <1>1 DEF Replacing
<1>7. ASSUME NEW f, InMain(f)
      PROVE  InMain(f)' \/ Replacing(f)
    <2>1. CASE \E x \in staging : x.feature = f
        <3>1. PICK x \in staging : x.feature = f
            BY <2>1
        <3>2. CASE UnderWay
            BY <3>1, <3>2 DEF Replacing, UnderWay
        <3>3. CASE ~UnderWay
            <4>1. PICK m \in main : m.row = x /\ \A i \in DOMAIN mutations : m \notin mutations[i]
                BY <1>3, <3>3 DEF MissingInv, Covered
            <4>2. m \in main' /\ m.row.feature = f
                BY <1>4, <3>1, <4>1
            <4> QED
                BY <4>2 DEF InMain
        <3> QED
            BY <3>2, <3>3
    <2>2. CASE ~\E x \in staging : x.feature = f
        BY <1>1, <1>7, <2>2 DEF InMain
    <2> QED
        BY <2>1, <2>2
<1>8. \A r \in Runs : Landed(r)' => Landed(r)
    BY <1>1 DEF Landed
<1> QED
    BY <1>1, <1>3, <1>5, <1>6, <1>7, <1>8, MissingStep

LEMMA StepMissing == Undisturbed /\ TypeOK /\ LandInv /\ MissingInv /\ [Next]_vars => MissingInv'
<1> SUFFICES ASSUME Undisturbed, TypeOK, LandInv, MissingInv, [Next]_vars
             PROVE  MissingInv'
    OBVIOUS
<1>1. CASE Restart
    BY <1>1 DEF Restart, Undisturbed
<1>2. CASE UNCHANGED vars
    BY <1>2 DEF MissingInv, NoFailure, Covered, UnderWay, Landed, InMain, Replacing, vars
<1> QED
    BY <1>1, <1>2, RunMissing, MutateMissing DEF Next

\* Under the same conditions an address that has ever been in the table is missing only
\* while a run that has it in staging is about to insert it, until some run fails
\* (update_slovenian_addresses.py:76, 243-263, 269-272).
THEOREM NothingMissing == Undisturbed => (Spec => []MissingOnlyWhileStaged)
<1> SUFFICES ASSUME Undisturbed
             PROVE  Spec => []MissingOnlyWhileStaged
    OBVIOUS
<1>1. MissingInv => MissingOnlyWhileStaged
    BY DEF MissingInv, NoFailure, MissingOnlyWhileStaged
<1> QED
    BY InitUpdateType, StepUpdateType, InitLand, StepLand, InitMissing, StepMissing, <1>1, PTL
       DEF Spec

-----------------------------------------------------------------------------
(***************************************************************************)
(* A service next to the runs.                                             *)
(***************************************************************************)

InPlace(x) == x.from \in 0..NumRuns /\ x.at \in DOMAIN file[x.from]

\* Files are given, and every row in one of the two tables is in its place in one.
FromFiles ==
    /\ file[0] = Initial /\ \A r \in Runs : file[r] \in Files
    /\ \A x \in staging : InPlace(x)
    /\ \A m \in main : InPlace(m.row)

TableInv == TypeOK /\ IInv /\ FromFiles /\ table = Columns(main)

\* The runs of the update script keep their file.
LEMMA FilesGiven == [Next]_vars => UNCHANGED file
BY DEF Next, Run, Start, Create, CreateFails, LoadBatch, LoadFails, Delete,
       DeleteFails, Insert, InsertFails, Cleanup, Crash, Mutate, Restart, vars

LEMMA InitFromFiles == Init => FromFiles
<1> SUFFICES ASSUME Init PROVE FromFiles
    OBVIOUS
<1>1. file[0] = Initial /\ \A r \in Runs : file[r] \in Files
    BY AddressUpdateAssumption DEF Init, Runs, AddressUpdateAssumption
<1>2. \A m \in main : m.row.from = 0 /\ m.row.at \in DOMAIN Initial
    BY DEF Init, InsertedBy, RowsOf
<1> QED
    BY <1>1, <1>2, AddressUpdateAssumption DEF Init, FromFiles, InPlace, AddressUpdateAssumption

\* Where the rows of either table come from in a step.
LEMMA RowsMove ==
    ASSUME [Next]_vars
    PROVE  /\ \/ staging' \subseteq staging
              \/ \E r \in Runs : staging' \subseteq staging \cup Batch(r)
           /\ \/ main' \subseteq main
              \/ \E r \in Runs : main' \subseteq main \cup InsertedBy(staging, r)
<1>1. ASSUME NEW r \in Runs, Run(r) \/ Crash(r)
      PROVE  /\ staging' \subseteq staging \/ staging' \subseteq staging \cup Batch(r)
             /\ main' \subseteq main \/ main' \subseteq main \cup InsertedBy(staging, r)
    <2>1. CASE Start(r) \/ Create(r) \/ CreateFails(r) \/ Cleanup(r) \/ Crash(r)
        BY <2>1 DEF Start, Create, CreateFails, Cleanup, Crash
    <2>2. CASE LoadBatch(r) \/ LoadFails(r)
        BY <2>2 DEF LoadBatch, LoadFails
    <2>3. CASE Delete(r) \/ DeleteFails(r)
        BY <2>3 DEF Delete, DeleteFails, DeletesNow, DeletesLater
    <2>4. CASE Insert(r) \/ InsertFails(r)
        BY <2>4 DEF Insert, InsertFails, InsertedBy
    <2> QED
        BY <1>1, <2>1, <2>2, <2>3, <2>4 DEF Run
<1>2. CASE Mutate \/ Restart \/ UNCHANGED vars
    BY <1>2 DEF Mutate, Restart, vars
<1> QED
    BY <1>1, <1>2 DEF Next

LEMMA StepFromFiles == FromFiles /\ [Next]_vars => FromFiles'
<1> SUFFICES ASSUME FromFiles, [Next]_vars PROVE FromFiles'
    OBVIOUS
<1>1. /\ file' = file /\ file[0] = Initial /\ \A r \in Runs : file[r] \in Files
      /\ \A x : InPlace(x)' <=> InPlace(x)
    BY FilesGiven DEF FromFiles, InPlace
<1>2. \A r \in Runs : \A x \in Batch(r) : InPlace(x)
    BY AddressUpdateAssumption DEF Batch, RowsOf, InPlace, Runs, AddressUpdateAssumption
<1>3. \A x \in staging' : InPlace(x)
    BY <1>2, RowsMove DEF FromFiles
<1>4. \A m \in main' : InPlace(m.row)
    BY RowsMove DEF FromFiles, InsertedBy
<1> QED
    BY <1>1, <1>3, <1>4 DEF FromFiles

\* The index builder can read the table.
LEMMA TableReadable == TypeOK /\ FromFiles => Columns(main) \in Tables
<1> SUFFICES ASSUME TypeOK, FromFiles PROVE Columns(main) \in Tables
    OBVIOUS
<1> DEFINE some == {<<m.row.from, m.row.at>> : m \in main}
<1>1. ASSUME NEW m \in main
      PROVE  <<m.row.from, m.row.at>> \in Places
    <2>1. m.row.from \in 0..NumRuns /\ m.row.at \in DOMAIN file[m.row.from]
        BY DEF FromFiles, InPlace
    <2>2. file[m.row.from] \in Seq(Feature) /\ Len(file[m.row.from]) <= MaxRows
        <3>1. m.row.from = 0 \/ m.row.from \in Runs
            BY <2>1, AddressUpdateAssumption DEF Runs, AddressUpdateAssumption
        <3>2. file[m.row.from] = Initial \/ file[m.row.from] \in Files
            BY <3>1 DEF FromFiles
        <3> QED
            BY <3>2, AddressUpdateAssumption, AddressServiceAssumption
               DEF AddressUpdateAssumption, AddressServiceAssumption
    <2>3. m.row.at \in 1..MaxRows
        BY <2>1, <2>2, AddressServiceAssumption DEF AddressServiceAssumption
    <2> QED
        BY <2>1, <2>3 DEF Places
<1>2. some \in SUBSET Places
    BY <1>1
<1>3. Columns(main) = {AddressOf[p] : p \in some}
    BY DEF Columns
<1> QED
    BY <1>2, <1>3, AddressServiceAssumption DEF AddressServiceAssumption

LEMMA InitTable == ServiceInit => TableInv
BY InitUpdateType, InitKept, InitFromFiles DEF ServiceInit, TableInv

LEMMA StepTable == TableInv /\ [ServiceNext]_<<vars, listVars>> => TableInv'
<1> SUFFICES ASSUME TableInv, [ServiceNext]_<<vars, listVars>>
             PROVE  TableInv'
    OBVIOUS
<1>1. [Next]_vars
    BY DEF ServiceNext
<1>2. TypeOK' /\ IInv' /\ FromFiles'
    BY <1>1, StepUpdateType, StepKept, StepFromFiles DEF TableInv
<1>3. table' = Columns(main')
    <2>1. CASE Build /\ UNCHANGED vars
        <3>1. UNCHANGED <<table, main>>
            BY <2>1 DEF Build, QueryStreets, QueryCities, QueryFails, AddStreet, AddCity,
                        BuildLetters, RestartService, vars
        <3> QED
            BY <3>1 DEF TableInv
    <2>2. CASE UNCHANGED <<vars, listVars>>
        BY <2>2 DEF TableInv, vars, listVars
    <2> QED
        BY <2>1, <2>2 DEF ServiceNext
<1> QED
    BY <1>2, <1>3 DEF TableInv

LEMMA StepBuilds == TableInv /\ TableInv' /\ [ServiceNext]_<<vars, listVars>>
                        => [IndexNext]_listVars
<1> SUFFICES ASSUME TableInv', ServiceNext \/ UNCHANGED listVars
             PROVE  [IndexNext]_listVars
    BY DEF listVars
<1>1. table' \in Tables
    <2>1. (TypeOK /\ FromFiles => Columns(main) \in Tables)'
        BY TableReadable, PTL
    <2> QED
        BY <2>1 DEF TableInv
<1> QED
    BY <1>1 DEF ServiceNext, IndexNext, TableChanges

\* What the service does next to the runs of the script is what ListIndex says for any
\* changes of the table: all that is proved of the indexes there holds here
\* (si/si.go:50-76).
THEOREM ServiceBuildsIndexes == ServiceSpec => IndexSpec
<1>1. ServiceInit => IndexInit
    BY DEF ServiceInit
<1> QED
    BY InitTable, StepTable, StepBuilds, <1>1, PTL DEF ServiceSpec, IndexSpec

\* Script, table and index builder keep the types of their variables
\* (update_slovenian_addresses.py:321-381, si/database.go:49-197).
THEOREM ServiceTypeCorrect == ServiceSpec => []ServiceTypeOK
<1>1. TableInv /\ IndexTypeOK => ServiceTypeOK
    BY DEF TableInv, ServiceTypeOK
<1> QED
    BY ServiceBuildsIndexes, IndexTypeCorrect, InitTable, StepTable, <1>1, PTL
       DEF ServiceSpec

\* The addresses a query has seen are those of places in files, and all that no file
\* replaces are among them.
Shown(rows) ==
    /\ \A a \in rows : \E r \in 0..NumRuns : \E i \in DOMAIN file[r] : a = AddressOf[<<r, i>>]
    /\ \A x \in RowsOf(0, DOMAIN Initial) : Untouched(x) => AddressOf[<<0, x.at>>] \in rows

SeenInv ==
    /\ phase \in {"streets", "cities", "ready"} => Shown(streetTable)
    /\ phase \in {"cities", "ready"} => Shown(cityTable)

LEMMA TableShown == TableInv => Shown(table)
<1> SUFFICES ASSUME TableInv PROVE Shown(table)
    OBVIOUS
<1>1. table = {AddressOf[<<m.row.from, m.row.at>>] : m \in main}
    BY DEF TableInv, Columns
<1>2. \A m \in main : m.row.from \in 0..NumRuns /\ m.row.at \in DOMAIN file[m.row.from]
    BY DEF TableInv, FromFiles, InPlace
<1>3. ASSUME NEW x \in RowsOf(0, DOMAIN Initial), Untouched(x)
      PROVE  AddressOf[<<0, x.at>>] \in table
    <2>1. [row |-> x, by |-> 0] \in main /\ x.from = 0
        BY <1>3 DEF TableInv, IInv, UntouchedKept, RowsOf
    <2> DEFINE m == [row |-> x, by |-> 0]
    <2>2. m.row.from = 0 /\ m.row.at = x.at
        BY <2>1
    <2> HIDE DEF m
    <2> QED
        BY <1>1, <2>1, <2>2 DEF m
<1> QED
    BY <1>1, <1>2, <1>3 DEF Shown

LEMMA StepSeen == TableInv /\ SeenInv /\ [ServiceNext]_<<vars, listVars>> => SeenInv'
<1> SUFFICES ASSUME TableInv, SeenInv, [ServiceNext]_<<vars, listVars>>
             PROVE  SeenInv'
    OBVIOUS
<1>1. UNCHANGED file
    BY FilesGiven DEF ServiceNext
<1>2. \A rows : Shown(rows) => /\ \A a \in rows : \E r \in 0..NumRuns :
                                    \E i \in DOMAIN file'[r] : a = AddressOf[<<r, i>>]
                               /\ \A x \in RowsOf(0, DOMAIN Initial)' : Untouched(x)' =>
                                    AddressOf[<<0, x.at>>] \in rows
    BY <1>1 DEF Shown, Untouched, RowsOf
<1>3. CASE QueryStreets
    BY <1>2, <1>3, TableShown DEF QueryStreets, SeenInv, Shown
<1>4. CASE QueryCities
    BY <1>2, <1>4, TableShown, ZenonT(20) DEF QueryCities, SeenInv, Shown
<1>5. ASSUME \/ QueryFails \/ BuildLetters \/ RestartService \/ UNCHANGED indexVars
             \/ \E e \in todo : AddStreet(e) \/ AddCity(e)
      PROVE  SeenInv'
    <2>1. \/ phase' \in {"down", "panic"}
          \/ UNCHANGED <<phase, seen>>
          \/ phase = "cities" /\ phase' = "ready" /\ UNCHANGED seen
        BY <1>5 DEF QueryFails, BuildLetters, RestartService, AddStreet, AddCity, indexVars,
                    seen
    <2>2. ASSUME NEW rows, Shown(rows)
          PROVE  Shown(rows)'
        BY <1>2, <2>2 DEF Shown
    <2> QED
        BY <2>1, <2>2 DEF SeenInv, seen
<1> QED
    BY <1>3, <1>4, <1>5 DEF ServiceNext, Build, listVars

LEMMA FindsUntouched == TypeInv /\ StreetsInv /\ CodesInv /\ SeenInv => UntouchedFound
<1> SUFFICES ASSUME TypeInv, StreetsInv, CodesInv, SeenInv, phase = "ready",
                    NEW x \in RowsOf(0, DOMAIN Initial), Untouched(x)
             PROVE  LET there == {AddressOf[<<0, x.at>>]}
                    IN /\ \A e \in StreetEntries(there) :
                            (Norm[e.code] = e.code /\ SpelledNormally(e.code))
                                => FormsOf[e.street] \subseteq streetsOf[e.code]
                       /\ \A e \in CityEntries(there) :
                            Usable(e) => Norm[e.code] \in Range(codesOf[NameOf[e.city]])
    BY DEF UntouchedFound
<1> DEFINE there == {AddressOf[<<0, x.at>>]}
<1>1. there \subseteq streetTable \cap cityTable
    BY DEF SeenInv, Shown
<1>2. ASSUME NEW e \in StreetEntries(there), Norm[e.code] = e.code, SpelledNormally(e.code)
      PROVE  FormsOf[e.street] \subseteq streetsOf[e.code]
    <2>1. e \in StreetEntries(streetTable)
        BY <1>1 DEF StreetEntries
    <2>2. ASSUME NEW f \in StreetEntries(streetTable), Norm[f.code] = e.code
          PROVE  f.code = e.code
        <3>1. PICK a \in streetTable : f.code = a.code
            BY DEF StreetEntries
        <3>2. PICK r \in 0..NumRuns : \E i \in DOMAIN file[r] : a = AddressOf[<<r, i>>]
            BY DEF SeenInv, Shown
        <3> QED
            BY <1>2, <2>2, <3>1, <3>2 DEF SpelledNormally
    <2> QED
        BY <1>2, <2>1, <2>2 DEF StreetsInv, Queried, OneSpelling
<1>3. ASSUME NEW e \in CityEntries(there), Usable(e)
      PROVE  Norm[e.code] \in Range(codesOf[NameOf[e.city]])
    <2>1. e \in CityEntries(cityTable) /\ todo = {} /\ cityTable \in SUBSET Address
        BY <1>1 DEF CityEntries, TypeInv, IndexTypeOK, Reading
    <2>2. Puts(e, NameOf[e.city], Norm[e.code])
        BY <1>3 DEF Puts
    <2>3. NameOf[e.city] \in Names /\ Norm[e.code] \in Codes
        BY <1>3, <2>1, CityEntryType, ListIndexAssumption DEF Usable, ListIndexAssumption
    <2> QED
        BY <2>1, <2>2, <2>3 DEF CodesInv
<1> QED
    BY <1>2, <1>3

\* An address that no file replaces can be found in every service that is up, in
\* whatever step of a run, or between which two, either of its queries was answered,
\* as long as no row spells its code in another way (si/si.go:50-76,
\* si/database.go:64-118, 134-193, update_slovenian_addresses.py:242-263).
THEOREM UntouchedAlwaysFound == ServiceSpec => []UntouchedFound
<1>1. ServiceInit => SeenInv
    BY DEF ServiceInit, IndexInit, SeenInv
<1> QED
    BY ServiceBuildsIndexes, InitTypeInv, StepTypeInv, InitStreets, StepStreets, InitCodes,
       StepCodes, InitTable, StepTable, <1>1, StepSeen, FindsUntouched, PTL
       DEF ServiceSpec, IndexSpec
=============================================================================

---------------------------- MODULE AddressUpdate ----------------------------
(***************************************************************************)
(* scripts/update_slovenian_addresses.py: runs of the script that brings   *)
(* the table of Slovenian addresses up to date from a CSV file.            *)
(*                                                                         *)
(* A run creates the staging table if there is none, loads the file into   *)
(* it batch by batch, deletes from the main table what staging replaces,   *)
(* inserts all of staging there, and drops staging.  Each of these is one  *)
(* query on a connection of its own, without a transaction around them.    *)
(*                                                                         *)
(* A row is identified by the file and the place it was loaded from; of    *)
(* its columns only feature_id matters.  Initial addresses are those of    *)
(* "file" 0.                                                               *)
(***************************************************************************)
EXTENDS Naturals, Sequences, FiniteSets

CONSTANTS
    NumRuns,    \* runs of the script, numbered in the order they start
    Feature,    \* values of feature_id
    NoFeature,  \* the empty feature_id
    Files,      \* what a run can be given: sequences of feature_ids
    Initial,    \* the feature_ids of the addresses that are there
    BatchSize,  \* rows per INSERT into staging
    Faults      \* what can go wrong, see below

Runs == 1..NumRuns

\* "query": a query reports an error, and may have had its effect;
\* "crash": a run ends between two queries; "late": a DELETE is queued by the
\* server and executed later; "restart": the server loses what is in memory;
\* "overlap": a run starts while another is going on.
ASSUME AddressUpdateAssumption ==
    /\ NumRuns \in Nat
    /\ NoFeature \in Feature
    /\ Files \subseteq Seq(Feature)
    /\ Initial \in Seq(Feature)
    /\ BatchSize \in Nat \ {0}
    /\ Faults \subseteq {"query", "crash", "late", "restart", "overlap"}

VARIABLES
    pc,         \* of each run: the query it makes next, or how it ended
    file,       \* the CSV file of each run, and the initial addresses
    loaded,     \* rows of its file that a run has loaded
    hasStaging, \* the staging table exists
    staging,    \* its rows
    main,       \* the rows of the main table, each with the run that inserted it
    mutations   \* queued DELETEs: the rows each was issued for

vars == <<pc, file, loaded, hasStaging, staging, main, mutations>>

Row == [feature : Feature, from : 0..NumRuns, at : Nat]

Active == {"create", "load", "delete", "insert", "cleanup", "abandon"}
Ended == {"ok", "failed", "crashed"}

TypeOK ==
    /\ pc \in [Runs -> Active \cup Ended \cup {"idle"}]
    /\ file \in [0..NumRuns -> Seq(Feature)]
    /\ loaded \in [Runs -> Nat] /\ \A r \in Runs : loaded[r] <= Len(file[r])
    /\ hasStaging \in BOOLEAN
    /\ staging \subseteq Row /\ (~hasStaging => staging = {})
    /\ main \subseteq [row : Row, by : 0..NumRuns]
    /\ mutations \in Seq(SUBSET main)

RowsOf(r, places) == {[feature |-> file[r][i], from |-> r, at |-> i] : i \in places}

InsertedBy(rows, r) == {[row |-> x, by |-> r] : x \in rows}

Init ==
    /\ pc = [r \in Runs |-> "idle"]
    /\ \E given \in [Runs -> Files] :
        file = [r \in 0..NumRuns |-> IF r = 0 THEN Initial ELSE given[r]]
    /\ loaded = [r \in Runs |-> 0]
    /\ hasStaging = FALSE
    /\ staging = {}
    /\ main = InsertedBy(RowsOf(0, DOMAIN Initial), 0)
    /\ mutations = <<>>

Goes(r, to) == pc' = [pc EXCEPT ![r] = to]

\* A query that needs staging fails without it.
Fails == "query" \in Faults \/ ~hasStaging

-----------------------------------------------------------------------------
(***************************************************************************)
(* The steps of a run.                                                     *)
(***************************************************************************)

Start(r) ==
    /\ pc[r] = "idle"
    /\ \A q \in 1..(r - 1) : pc[q] # "idle"
    /\ "overlap" \in Faults \/ \A q \in Runs : pc[q] \notin Active
    /\ Goes(r, "create")
    /\ UNCHANGED <<file, loaded, hasStaging, staging, main, mutations>>

\* CREATE TABLE IF NOT EXISTS: what an earlier run has left in staging stays.
Create(r) ==
    /\ pc[r] = "create"
    /\ hasStaging' = TRUE
    /\ Goes(r, "load")
    /\ UNCHANGED <<file, loaded, staging, main, mutations>>

\* The run ends without a cleanup.
CreateFails(r) ==
    /\ pc[r] = "create"
    /\ "query" \in Faults
    /\ hasStaging' \in {hasStaging, TRUE}
    /\ Goes(r, "failed")
    /\ UNCHANGED <<file, loaded, staging, main, mutations>>

\* total_inserted, after the batch.
BatchEnd(r) == LET end == loaded[r] + BatchSize
               IN IF end < Len(file[r]) THEN end ELSE Len(file[r])

Batch(r) == RowsOf(r, {i \in DOMAIN file[r] : loaded[r] < i /\ i <= loaded[r] + BatchSize})

LoadBatch(r) ==
    /\ pc[r] = "load"
    /\ file[r] # <<>>
    /\ hasStaging
    /\ staging' = staging \cup Batch(r)
    /\ loaded' = [loaded EXCEPT ![r] = BatchEnd(r)]
    /\ IF BatchEnd(r) >= Len(file[r]) THEN Goes(r, "delete") ELSE UNCHANGED pc
    /\ UNCHANGED <<file, hasStaging, main, mutations>>

SkipsBatch(r) ==                            \* mutant: goes on after an error
    /\ pc[r] = "load"
    /\ Fails
    /\ loaded' = [loaded EXCEPT ![r] = BatchEnd(r)]
    /\ IF BatchEnd(r) >= Len(file[r]) THEN Goes(r, "delete") ELSE UNCHANGED pc
    /\ UNCHANGED <<file, hasStaging, staging, main, mutations>>

\* A file without rows, or that cannot be read, ends the run like an error.
LoadFails(r) ==
    /\ pc[r] = "load"
    /\ Fails \/ file[r] = <<>>
    /\ UNCHANGED staging \/ (hasStaging /\ staging' = staging \cup Batch(r))
    /\ Goes(r, "abandon")
    /\ UNCHANGED <<file, loaded, hasStaging, main, mutations>>

DeletedAll(rows) ==                         \* mutant: without feature_id != ''
    {m \in rows : \E x \in staging : x.feature = m.row.feature}

\* The rows among these that are in the DELETE's subquery on staging.
Replaced(rows) ==
    {m \in rows : /\ m.row.feature # NoFeature
                   /\ \E x \in staging : x.feature = m.row.feature}

DeletesNow ==
    /\ mutations = <<>>
    /\ main' = main \ Replaced(main)
    /\ UNCHANGED mutations

DeletesLater ==
    /\ "late" \in Faults
    /\ mutations' = Append(mutations, main)
    /\ UNCHANGED main

Delete(r) ==
    /\ pc[r] = "delete"
    /\ hasStaging
    /\ DeletesNow \/ DeletesLater
    /\ Goes(r, "insert")
    /\ UNCHANGED <<file, loaded, hasStaging, staging>>

\* "Warning: ... (this is OK if table is empty)": the run goes on all the same.
DeleteFails(r) ==
    /\ pc[r] = "delete"
    /\ Fails
    /\ \/ UNCHANGED <<main, mutations>>
       \/ hasStaging /\ (DeletesNow \/ DeletesLater)
    /\ Goes(r, "insert")
    /\ UNCHANGED <<file, loaded, hasStaging, staging>>

Insert(r) ==
    /\ pc[r] = "insert"
    /\ hasStaging
    /\ main' = main \cup InsertedBy(staging, r)
    /\ Goes(r, "cleanup")
    /\ UNCHANGED <<file, loaded, hasStaging, staging, mutations>>

IgnoresInsertError(r) ==                    \* mutant: a warning, as for DELETE
    /\ pc[r] = "insert"
    /\ Fails
    /\ Goes(r, "cleanup")
    /\ UNCHANGED <<file, loaded, hasStaging, staging, main, mutations>>

\* An INSERT that fails may have inserted some blocks.
InsertFails(r) ==
    /\ pc[r] = "insert"
    /\ Fails
    /\ \E some \in SUBSET staging : main' = main \cup InsertedBy(some, r)
    /\ Goes(r, "abandon")
    /\ UNCHANGED <<file, loaded, hasStaging, staging, mutations>>

\* Whether staging could be dropped is not looked at.
Cleanup(r) ==
    /\ pc[r] \in {"cleanup", "abandon"}
    /\ \/ hasStaging' = FALSE /\ staging' = {}
       \/ "query" \in Faults /\ UNCHANGED <<hasStaging, staging>>
    /\ Goes(r, IF pc[r] = "cleanup" THEN "ok" ELSE "failed")
    /\ UNCHANGED <<file, loaded, main, mutations>>

-----------------------------------------------------------------------------
(***************************************************************************)
(* What happens around the runs.                                           *)
(***************************************************************************)

Crash(r) ==
    /\ "crash" \in Faults
    /\ pc[r] \in Active
    /\ Goes(r, "crashed")
    /\ UNCHANGED <<file, loaded, hasStaging, staging, main, mutations>>

\* The server takes up the first DELETE in its queue, which concerns the rows it
\* was issued for, and reads staging only now; without staging it tries again.
Mutate ==
    /\ mutations # <<>>
    /\ hasStaging
    /\ LET gone == Replaced(Head(mutations))
       IN /\ main' = main \ gone
          /\ mutations' = [i \in 1..(Len(mutations) - 1) |-> mutations[i + 1] \ gone]
    /\ UNCHANGED <<pc, file, loaded, hasStaging, staging>>

\* ENGINE = Memory: the table survives a restart of the server, its rows do not.
Restart ==
    /\ "restart" \in Faults
    /\ staging # {}
    /\ staging' = {}
    /\ UNCHANGED <<pc, file, loaded, hasStaging, main, mutations>>

-----------------------------------------------------------------------------
Run(r) ==
    \/ Start(r) \/ Create(r) \/ CreateFails(r)
    \/ LoadBatch(r) \/ LoadFails(r)
    \/ Delete(r) \/ DeleteFails(r) \/ Insert(r) \/ InsertFails(r)
    \/ Cleanup(r)

Next ==
    \/ \E r \in Runs : Run(r) \/ Crash(r)
    \/ Mutate
    \/ Restart

Spec == Init /\ [][Next]_vars

-----------------------------------------------------------------------------
(***************************************************************************)
(* Properties.                                                             *)
(***************************************************************************)

Started(r) == pc[r] # "idle"

Untouched(x) ==
    x.feature = NoFeature
        \/ \A r \in Runs : \A i \in DOMAIN file[r] : file[r][i] # x.feature

\* An address that no file replaces, one without a feature_id included, is never
\* lost: whatever fails, restarts or overlaps, and whenever the server executes
\* a DELETE (update_slovenian_addresses.py:242-245).
UntouchedKept ==
    \A x \in RowsOf(0, DOMAIN Initial) :
        Untouched(x) => [row |-> x, by |-> 0] \in main

\* "Update Complete!" (update_slovenian_addresses.py:377): when a run ends well,
\* every row of its file is in the table, until the next run starts.
FileLanded ==
    \A r \in Runs :
        (pc[r] = "ok" /\ \A q \in Runs : q > r => ~Started(q)) =>
            InsertedBy(RowsOf(r, DOMAIN file[r]), r) \subseteq main

InMain(f) == \E m \in main : m.row.feature = f

\* A run is going to insert f, or has it in staging to do so.
Replacing(f) ==
    /\ \E x \in staging : x.feature = f
    /\ \E r \in Runs : pc[r] \in {"load", "delete", "insert"}

Landed(r) == r = 0 \/ pc[r] \in {"cleanup", "ok"}

\* As long as no run has failed, every address that was ever in the table is there,
\* or in staging with a run on its way to insert it: over several runs that find
\* what others have left in staging, and whenever a DELETE is executed
\* (update_slovenian_addresses.py:76, 243-263, 269-272).
MissingOnlyWhileStaged ==
    (\A r \in Runs : pc[r] \notin {"abandon", "failed", "crashed"}) =>
        \A r \in {q \in 0..NumRuns : Landed(q)} :
            \A i \in DOMAIN file[r] : InMain(file[r][i]) \/ Replacing(file[r][i])
=============================================================================

----------------------------- MODULE ProcessRuns -----------------------------
(* Runs of a process configuration (processes/router.py): the background task  *)
(* of a run, which loads the configuration from MongoDB or from its copy in    *)
(* GCS, the handlers that save a result to GCS and load it back, and what they *)
(* share with the rest: the configuration and its copies (ProcessConfigs), the *)
(* semaphore with the query engine's tasks, and the result store.  A result's  *)
(* key is a fresh id; it is abstracted to the run.                             *)
EXTENDS ProcessConfigs, QuerySemaphore, ResultStore, FiniteSets

CONSTANTS
    Guests,             \* tasks of the query engine that want the semaphore
    RowCounts,          \* bound: sizes a computed table may have
    MaxResultRows       \* settings.max_result_rows

ASSUME ProcessRunAssumption ==
    /\ RowCounts \subseteq Nat
    /\ MaxResultRows \in Nat
    /\ Runs \cap Guests = {}

VARIABLES
    task,               \* where the task of a run stands
    option,             \* per run: config_source and save_results_to_gcp
    asked,              \* history: version of the document at the request
    used,               \* the version a run executes, and where it came from
    frame,              \* rows of the computed table
    rstatus, rcount, rerror,        \* the process_runs document
    resultId, resultPath,           \* runs whose document has these fields
    missing,            \* history: runs that failed for want of the document
    parquet,            \* rows of results.parquet in GCS, or NoRows
    copied,             \* runs whose task has just saved its table there
    client,             \* saves and reloads in progress, with the tables they hold
    guest               \* where a guest stands

runDocVars == <<rstatus, rcount, rerror, resultId, resultPath>>
loadVars   == <<option, asked, used, missing>>
saveVars   == <<parquet, copied, client>>
vars       == <<confVars, task, guest, semVars, loadVars, frame, runDocVars, saveVars, storeVars>>

NoRows  == -1
Sources == {"auto", "mongodb", "gcp"}
NotUsed == [from |-> "nowhere", version |-> 0]

InSlot  == {"starting", "loading", "executing", "closing", "computed", "stored", "saved"}
Working == InSlot \cup {"created", "queued", "failing"}
Places  == Working \cup {"absent", "done", "abandoned"}

RunHolders   == {r \in Runs : task[r] \in InSlot}
GuestHolders == {g \in Guests : guest[g] = "inside"}

\* A plausible error: a copy is preferred wherever a path is recorded.
PrefersCopyByPath(r) == doc.path # NoPath

\* "auto" takes the copy only of a configuration that is kept in GCS.
PrefersCopy(r) == doc.path # NoPath /\ doc.dest = "gcp"

TriesCopy(r) == option[r].source = "gcp" \/ (option[r].source = "auto" /\ PrefersCopy(r))

-----------------------------------------------------------------------------
(* The semaphore, with the query engine's tasks in it.                         *)

MoveTask(r, place) == task' = [task EXCEPT ![r] = place] /\ UNCHANGED guest

\* A plausible error: a release of its own beside the one of "async with".
WakeOthersTwice(t, place) ==
    /\ slots' = slots + 1
    /\ waiters' = IF waiters = <<>> THEN waiters ELSE Tail(waiters)
    /\ task' = [r \in Runs |-> IF r = t THEN place
                               ELSE IF r \in Woken THEN "starting" ELSE task[r]]
    /\ guest' = [g \in Guests |-> IF g = t THEN place
                                  ELSE IF g \in Woken THEN "inside" ELSE guest[g]]

\* A release wakes the oldest waiter, whichever engine it belongs to.
WakeOthers(t, place) ==
    /\ Release
    /\ task' = [r \in Runs |-> IF r = t THEN place
                               ELSE IF r \in Woken THEN "starting" ELSE task[r]]
    /\ guest' = [g \in Guests |-> IF g = t THEN place
                                  ELSE IF g \in Woken THEN "inside" ELSE guest[g]]

\* A plausible error: an exception that keeps its slot.
RaiseKeepsSlot(r) == MoveTask(r, "failing") /\ UNCHANGED semVars

\* Any exception leaves the semaphore's block before it is caught.
Raise(r) == WakeOthers(r, "failing")

GuestEnters(g) ==
    /\ guest[g] = "away"
    /\ \/ Acquire /\ guest' = [guest EXCEPT ![g] = "inside"]
       \/ Wait(g) /\ guest' = [guest EXCEPT ![g] = "queued"]
    /\ UNCHANGED <<task, loadVars, frame, runDocVars, saveVars, confVars, storeVars>>

GuestLeaves(g) ==
    /\ guest[g] = "inside"
    /\ WakeOthers(g, "away")
    /\ UNCHANGED <<loadVars, frame, runDocVars, saveVars, confVars, storeVars>>

-----------------------------------------------------------------------------
(* The process_runs document.                                                  *)

SetStatus(r, st) ==
    /\ rstatus' = [rstatus EXCEPT ![r] = st]
    /\ rerror' = IF st = "failed" THEN rerror \cup {r} ELSE rerror
    /\ UNCHANGED <<rcount, resultId, resultPath>>

\* One $set of the status, the row count, the result's id and, if the table has
\* been saved, its path.
SetCompleted(r) ==
    /\ rstatus' = [rstatus EXCEPT ![r] = "completed"]
    /\ rcount' = [rcount EXCEPT ![r] = frame[r]]
    /\ resultId' = resultId \cup {r}
    /\ resultPath' = IF r \in copied THEN resultPath \cup {r} ELSE resultPath
    /\ UNCHANGED rerror

-----------------------------------------------------------------------------
(* POST /{config_id}/run and the background task.                              *)

\* The configuration exists when it is asked for; the task is started once the
\* run has been inserted.
run_process(r) ==
    /\ task[r] = "absent"
    /\ present
    /\ \E src \in Sources, save \in BOOLEAN :
         option' = [option EXCEPT ![r] = [source |-> src, save |-> save]]
    /\ asked' = [asked EXCEPT ![r] = doc.version]
    /\ \/ MoveTask(r, "created")
       \/ faults /\ MoveTask(r, "abandoned")
    /\ SetStatus(r, "pending")
    /\ UNCHANGED <<used, missing, frame, saveVars, confVars, semVars, storeVars>>

EnterBlock(r) ==
    /\ task[r] = "created"
    /\ \/ Acquire /\ MoveTask(r, "starting")
       \/ Wait(r) /\ MoveTask(r, "queued")
    /\ UNCHANGED <<loadVars, frame, runDocVars, saveVars, confVars, storeVars>>

WriteRunning(r) ==
    /\ task[r] = "starting"
    /\ \/ SetStatus(r, "running") /\ MoveTask(r, "loading") /\ UNCHANGED semVars
       \/ /\ faults
          /\ Raise(r)
          /\ SetStatus(r, "running") \/ UNCHANGED runDocVars
    /\ UNCHANGED <<loadVars, frame, saveVars, confVars, storeVars>>

Executes(r, from, v) ==
    /\ used' = [used EXCEPT ![r] = [from |-> from, version |-> v]]
    /\ MoveTask(r, "executing")
    /\ UNCHANGED semVars

\* The document is read first, whatever the source of the configuration.
MissingDocument(r) ==
    /\ ~present
    /\ Raise(r)
    /\ missing' = missing \cup {r}
    /\ UNCHANGED used

\* A plausible error: the copy of the version just read is loaded, whether or
\* not it has been made.
FromCopyOfCurrent(r) ==
    /\ present /\ TriesCopy(r)
    /\ Executes(r, "gcp", doc.version)
    /\ UNCHANGED missing

\* load_config_from_gcp of the recorded path; a path the user made up may hold
\* anything.
FromCopy(r) ==
    /\ present /\ TriesCopy(r)
    /\ doc.path \in DOMAIN copies \cup {Foreign}
    /\ Executes(r, "gcp", doc.path)
    /\ UNCHANGED missing

\* No copy can be loaded: "gcp" insists on it, "auto" falls back.
NoCopy(r) ==
    /\ present /\ TriesCopy(r)
    /\ faults \/ doc.path \notin DOMAIN copies
    /\ \/ option[r].source = "gcp" /\ Raise(r) /\ UNCHANGED used
       \/ option[r].source = "auto" /\ Executes(r, "mongodb", doc.version)
    /\ UNCHANGED missing

FromDocument(r) ==
    /\ present /\ ~TriesCopy(r)
    /\ Executes(r, "mongodb", doc.version)
    /\ UNCHANGED missing

LoadConfig(r) ==
    /\ task[r] = "loading"
    /\ \/ MissingDocument(r) \/ FromCopy(r) \/ NoCopy(r) \/ FromDocument(r)
       \/ faults /\ Raise(r) /\ UNCHANGED <<used, missing>>
    /\ UNCHANGED <<option, asked, frame, runDocVars, saveVars, confVars, storeVars>>

\* Every query needs credentials: the embedded ones, or, when the configuration
\* came from MongoDB, those its source has now.
HasCredentials(r) ==
    \/ used[r].version = Foreign
    \/ used[r].version # Foreign /\ written[used[r].version].creds # NoCreds
    \/ used[r].from = "mongodb" /\ source # NoCreds

Cap(n) == IF n > MaxResultRows THEN MaxResultRows ELSE n

\* execute_process and the row limit.
Execute(r) ==
    /\ task[r] = "executing"
    /\ HasCredentials(r)
    /\ \E n \in RowCounts : frame' = [frame EXCEPT ![r] = Cap(n)]
    /\ MoveTask(r, "computed")
    /\ UNCHANGED <<loadVars, runDocVars, saveVars, confVars, semVars, storeVars>>

\* A query or an operation fails; gather waits for all of the queries before it
\* tells.
ExecuteFails(r) ==
    /\ task[r] = "executing"
    /\ Raise(r)
    /\ UNCHANGED <<loadVars, frame, runDocVars, saveVars, confVars, storeVars>>

\* A plausible error: wait_for guards the loading and not the execution.
TimeoutLoading(r) ==
    /\ task[r] = "loading"
    /\ Raise(r)
    /\ UNCHANGED <<loadVars, frame, runDocVars, saveVars, confVars, storeVars>>

\* wait_for cancels the queries and then waits for them to end: those that have a
\* connection first close it (BaseConnector.__aexit__).
Timeout(r) ==
    /\ task[r] = "executing"
    /\ \/ Raise(r)
       \/ MoveTask(r, "closing") /\ UNCHANGED semVars
    /\ UNCHANGED <<loadVars, frame, runDocVars, saveVars, confVars, storeVars>>

\* Every disconnect has returned.
Closed(r) ==
    /\ task[r] = "closing"
    /\ Raise(r)
    /\ UNCHANGED <<loadVars, frame, runDocVars, saveVars, confVars, storeVars>>

StoreResult(r) ==
    /\ task[r] = "computed"
    /\ \/ store_result(r, frame[r]) /\ MoveTask(r, "stored") /\ UNCHANGED semVars
       \/ Raise(r) /\ (store_result(r, frame[r]) \/ UNCHANGED storeVars)
    /\ UNCHANGED <<loadVars, frame, runDocVars, saveVars, confVars>>

\* results.parquet under the process and the run.
upload_parquet(r, n) == parquet' = [parquet EXCEPT ![r] = n]

\* A plausible error: the path is noted whether or not the upload succeeded.
SaveResultOrNot(r) ==
    /\ task[r] = "stored" /\ option[r].save
    /\ upload_parquet(r, frame[r]) \/ UNCHANGED parquet
    /\ copied' = copied \cup {r}
    /\ MoveTask(r, "saved")
    /\ UNCHANGED <<loadVars, frame, runDocVars, client, confVars, semVars, storeVars>>

\* save_results_to_gcp, if it was asked for; its failure is swallowed, and may
\* come after the file has been written.
SaveResult(r) ==
    /\ task[r] = "stored" /\ option[r].save
    /\ \/ upload_parquet(r, frame[r]) /\ copied' = copied \cup {r}
       \/ faults /\ (upload_parquet(r, frame[r]) \/ UNCHANGED parquet) /\ UNCHANGED copied
    /\ MoveTask(r, "saved")
    /\ UNCHANGED <<loadVars, frame, runDocVars, client, confVars, semVars, storeVars>>

\* A plausible error: the document is written before the table.
WriteCompletedFirst(r) ==
    /\ task[r] = "computed"
    /\ SetCompleted(r) /\ WakeOthers(r, "done")
    /\ UNCHANGED <<loadVars, frame, saveVars, confVars, storeVars>>

WriteCompleted(r) ==
    /\ task[r] = (IF option[r].save THEN "saved" ELSE "stored")
    /\ \/ SetCompleted(r) /\ WakeOthers(r, "done")
       \/ faults /\ Raise(r) /\ (SetCompleted(r) \/ UNCHANGED runDocVars)
    /\ UNCHANGED <<loadVars, frame, saveVars, confVars, storeVars>>

WriteFailed(r) ==
    /\ task[r] = "failing"
    /\ \/ SetStatus(r, "failed") /\ MoveTask(r, "done")
       \/ faults /\ UNCHANGED runDocVars /\ MoveTask(r, "abandoned")
    /\ UNCHANGED <<loadVars, frame, saveVars, confVars, semVars, storeVars>>

-----------------------------------------------------------------------------
(* POST /runs/{run_id}/save-results and /reload: any number of them at a time.  *)

\* Requests for the same run that hold the same table and are at the same point
\* are one element of client[r]: a step of one of them leaves others there or not.
StepClient(r, done, next) ==
    /\ \E others \in SUBSET done : client' = [client EXCEPT ![r] = (@ \ done) \cup others \cup next]
    /\ UNCHANGED <<task, guest, loadVars, frame, copied, confVars, semVars>>

\* The table is read by the id in the document.
save_results_to_gcp(r) ==
    /\ r \in resultId /\ Found(r)
    /\ StepClient(r, {}, {[next |-> "upload", table |-> rows[r]]})
    /\ UNCHANGED <<runDocVars, parquet, storeVars>>

\* It is uploaded as it was read; a failure may come after the file is written.
UploadTable(r) ==
    /\ \E c \in client[r] :
         /\ c.next = "upload"
         /\ \/ upload_parquet(r, c.table) /\ StepClient(r, {c}, {[c EXCEPT !.next = "record"]})
            \/ /\ faults /\ StepClient(r, {c}, {})
               /\ upload_parquet(r, c.table) \/ UNCHANGED parquet
    /\ UNCHANGED <<runDocVars, storeVars>>

RecordResultPath(r) ==
    /\ \E c \in client[r] : c.next = "record" /\ StepClient(r, {c}, {})
    /\ \/ resultPath' = resultPath \cup {r}
       \/ faults /\ UNCHANGED resultPath
    /\ UNCHANGED <<rstatus, rcount, rerror, resultId, parquet, storeVars>>

\* The table is downloaded from the path in the document.
reload_results_from_gcp(r) ==
    /\ r \in resultPath
    /\ StepClient(r, {}, {[next |-> "store", table |-> parquet[r]]})
    /\ UNCHANGED <<runDocVars, parquet, storeVars>>

StoreReloaded(r) ==
    /\ \E c \in client[r] :
         /\ c.next = "store" /\ StepClient(r, {c}, {})
         /\ \/ store_result(r, c.table)
            \/ faults /\ UNCHANGED storeVars
    /\ UNCHANGED <<runDocVars, parquet>>

ExpireResult(r) ==
    /\ Expire(r)
    /\ UNCHANGED <<confVars, task, guest, semVars, loadVars, frame, runDocVars, saveVars>>

-----------------------------------------------------------------------------
\* A restart ends everything in progress and nothing resumes it.
RestartServer ==
    /\ Restart /\ UNCHANGED faults
    /\ task' = [r \in Runs |-> IF task[r] \in Working THEN "abandoned" ELSE task[r]]
    /\ client' = [r \in Runs |-> {}]
    /\ guest' = [g \in Guests |-> "away"]
    /\ slots' = MaxConcurrent
    /\ waiters' = <<>>
    /\ UNCHANGED <<loadVars, frame, runDocVars, parquet, copied, storeVars>>

Init ==
    /\ ConfigInit
    /\ SemaphoreInit
    /\ StoreInit
    /\ task = [r \in Runs |-> "absent"]
    /\ guest = [g \in Guests |-> "away"]
    /\ option = [r \in Runs |-> [source |-> "auto", save |-> FALSE]]
    /\ asked = [r \in Runs |-> 0]
    /\ used = [r \in Runs |-> NotUsed]
    /\ missing = {}
    /\ frame = [r \in Runs |-> 0]
    /\ rstatus = [r \in Runs |-> "none"]
    /\ rcount = [r \in Runs |-> NoRows]
    /\ rerror = {}
    /\ resultId = {}
    /\ resultPath = {}
    /\ parquet = [r \in Runs |-> NoRows]
    /\ copied = {}
    /\ client = [r \in Runs |-> {}]

\* A step of the requests on the configuration, or of its source.
Configure ==
    /\ \/ \E u \in Requests : Request(u) \/ Progress(u)
       \/ update_source \/ delete_source
    /\ UNCHANGED faults
    /\ UNCHANGED <<task, guest, semVars, loadVars, frame, runDocVars, saveVars, storeVars>>

\* What the event loop and the clock bring about.
Task(r) ==
    \/ EnterBlock(r) \/ WriteRunning(r) \/ LoadConfig(r) \/ Timeout(r)
    \/ StoreResult(r) \/ SaveResult(r) \/ WriteCompleted(r) \/ WriteFailed(r)

\* What the data sources of a run decide.
Source(r) == Execute(r) \/ ExecuteFails(r) \/ Closed(r)

Client(r) ==
    \/ run_process(r)
    \/ save_results_to_gcp(r) \/ UploadTable(r) \/ RecordResultPath(r)
    \/ reload_results_from_gcp(r) \/ StoreReloaded(r)

Next ==
    \/ Configure
    \/ \E r \in Runs : Client(r) \/ Task(r) \/ Source(r) \/ ExpireResult(r)
    \/ \E g \in Guests : GuestEnters(g) \/ GuestLeaves(g)
    \/ RestartServer

Spec == Init /\ [][Next]_vars

FairSpec == Spec /\ \A r \in Runs : WF_vars(Task(r))

-----------------------------------------------------------------------------
(* What is promised about the runs of a process.                               *)

\* Every variable has its type.
RunTypeOK ==
    /\ task \in [Runs -> Places]
    /\ guest \in [Guests -> {"away", "queued", "inside"}]
    /\ slots \in 0..MaxConcurrent
    /\ waiters \in Seq(Runs \cup Guests)
    /\ option \in [Runs -> [source : Sources, save : BOOLEAN]]
    /\ asked \in [Runs -> Nat]
    /\ used \in [Runs -> [from : {"nowhere", "mongodb", "gcp"}, version : Paths]]
    /\ missing \subseteq Runs
    /\ frame \in [Runs -> Nat]
    /\ rstatus \in [Runs -> {"none", "pending", "running", "completed", "failed"}]
    /\ rcount \in [Runs -> Nat \cup {NoRows}]
    /\ rerror \subseteq Runs /\ resultId \subseteq Runs /\ resultPath \subseteq Runs
    /\ parquet \in [Runs -> Nat \cup {NoRows}]
    /\ copied \subseteq Runs
    /\ client \in [Runs -> SUBSET [next : {"upload", "record", "store"}, table : Nat \cup {NoRows}]]
    /\ live \subseteq Runs /\ stored \subseteq Runs
    /\ rows \in [Runs -> Nat]

\* Process runs and the query engine's tasks share the slots: free ones and
\* those in use by either make up the limit, on every exit of the block.
SlotsShared == slots + Cardinality(RunHolders) + Cardinality(GuestHolders) = MaxConcurrent

\* A completed run has its id, its table stored under it with the row count the
\* document tells, within the limit, and no error.
CompletedHasResult ==
    \A r \in Runs : rstatus[r] = "completed" =>
        /\ r \in resultId /\ r \in stored
        /\ rcount[r] = rows[r] /\ rows[r] <= MaxResultRows
        /\ r \notin rerror

\* The table in Redis is the one the run computed, whether the task stored it or
\* a reload brought it back after it had expired, and the path in the document
\* names a file with that table, however many saves and reloads overlap.
SavedTableMatches ==
    \A r \in Runs :
        /\ r \in stored => rows[r] = frame[r]
        /\ r \in resultPath => parquet[r] = frame[r]

\* What a run executes is a version that was written: no older than the one its
\* client saw when it comes from MongoDB, and with the content that version had
\* when it comes from a copy.
ExecutesWrittenVersion ==
    \A r \in Runs :
        /\ used[r].from = "mongodb" => used[r].version \in asked[r]..Len(written)
        /\ used[r].from = "gcp" /\ used[r].version # Foreign =>
             /\ used[r].version \in DOMAIN copies
             /\ copies[used[r].version] = written[used[r].version]

\* With nothing failing, an "auto" run that loads while no request on the
\* configuration is in progress, none having overlapped another, executes the
\* current version, wherever the destination and the path have been before.
AutoUsesCurrentVersion ==
    [][\A r \in Runs :
         /\ task[r] = "loading" /\ task'[r] = "executing"
         /\ option[r].source = "auto"
         /\ ~faults /\ Quiescent /\ ~overlapped
         => used'[r].version = doc.version]_vars

\* disconnect returns, sooner or later, here and in the query engine's tasks, which
\* otherwise leave their slots at the timeout.
ConnectionsClose ==
    /\ \A r \in Runs : []<>(task[r] # "closing")
    /\ \A g \in Guests : []<>(guest[g] # "inside")

\* With nothing failing but the data sources, a run settles for good, whether or
\* not its sources ever answer and whoever else wants a slot.
EveryRunSettles ==
    ConnectionsClose =>
        \A r \in Runs :
            ~faults /\ rstatus[r] = "pending" ~> [](rstatus[r] \in {"completed", "failed"})

\* A process run lives as a query run does that nobody cancels, whether or not
\* MongoDB, GCS and the server fail; saving and reloading its table is no part of
\* that life.
Lifecycle == INSTANCE RunLifecycle WITH
    status     <- rstatus,
    rowCount   <- rcount,
    table      <- [r \in Runs |-> IF r \in stored THEN rows[r] ELSE NoRows],
    settled    <- {r \in Runs : task[r] = "done"},
    unreliable <- faults

ImplementsLifecycle == Lifecycle!Spec

\* processes/router.py, config_source "gcp": load directly from GCS
\* (self-sufficient, no MongoDB needed for execution).  A run that asks for the
\* copy does not fail for want of the document when there is a recorded copy.
GcpNeedsNoDocument ==
    \A r \in missing : option[r].source = "gcp" => doc.path \notin DOMAIN copies
=============================================================================

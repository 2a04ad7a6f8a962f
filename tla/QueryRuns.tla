------------------------------ MODULE QueryRuns ------------------------------
(* The query engine: the handlers of queries/router.py that create, join and   *)
(* cancel runs, the background task each run executes in, the query_runs       *)
(* documents in MongoDB the two share, the concurrency semaphore and the       *)
(* result store.  Tasks interleave at every await.                             *)
EXTENDS QuerySemaphore, ResultStore, FiniteSets

CONSTANTS
    MaxRefs,            \* bound: value_from references of one query
    RowCounts,          \* bound: sizes a computed table may have
    MaxResultRows,      \* settings.max_result_rows
    MongoFaults,        \* whether writes to MongoDB may fail
    MaxCrashes          \* bound: restarts of the server

ASSUME QueryAssumption ==
    /\ MaxRefs \in Nat
    /\ RowCounts \subseteq Nat
    /\ MaxResultRows \in Nat
    /\ MongoFaults \in BOOLEAN
    /\ MaxCrashes \in Nat

VARIABLES
    pc,                 \* where the run's handler, then its task, stands
    kind,               \* "single", "join" or "join_results"
    inputs,             \* runs whose results the query reads, in reading order
    unread,             \* those not read yet
    active,             \* sides whose connector is executing
    df,                 \* rows of the computed table
    status, rowCount, error,    \* the query_runs document
    crashes

docVars  == <<status, rowCount, error>>
taskVars == <<kind, inputs, unread, active, df>>
vars     == <<pc, taskVars, docVars, semVars, storeVars, crashes>>

NoRows == -1            \* row_count is null
Sides  == {"left", "right"}
Kinds  == {"single", "join", "join_results"}

Handling == {"checkLeft", "checkRight", "insert"}       \* POST /join-results
InSlot   == {"starting", "reading", "fetching", "closing", "computed", "stored"}
Working  == InSlot \cup {"created", "queued", "failing"}
Over     == {"done", "abandoned", "dead"}
PCs      == {"absent", "rejected"} \cup Handling \cup Working \cup Over

Terminal == {"completed", "failed", "cancelled"}
Statuses == {"none", "pending", "running"} \cup Terminal

Holders    == {r \in Runs : pc[r] \in InSlot}
Documented == {r \in Runs : status[r] # "none"}
SidesOf(k) == IF k = "join" THEN Sides ELSE {"left"}
Refs       == UNION {[1..n -> Documented] : n \in 0..MaxRefs}

\* A plausible error: the row limit is not applied.
CapForgotten(n) == n

Cap(n) == IF n > MaxResultRows THEN MaxResultRows ELSE n

-----------------------------------------------------------------------------
(* The query_runs documents.                                                   *)

\* insert_one of a fresh run with status "pending".
InsertRun(r) ==
    /\ status' = [status EXCEPT ![r] = "pending"]
    /\ UNCHANGED <<rowCount, error>>

\* $set of the status and of the row count and the error that are given.
update_query_run(r, st, n, failed) ==
    /\ status' = [status EXCEPT ![r] = st]
    /\ rowCount' = IF n = NoRows THEN rowCount ELSE [rowCount EXCEPT ![r] = n]
    /\ error' = IF failed THEN error \cup {r} ELSE error

-----------------------------------------------------------------------------
(* POST /execute and POST /join-results.                                       *)

\* The handler inserts the document, then starts the task.  When MongoDB has
\* the document but the insert still raises, no task is ever started.
Submit(r) ==
    /\ pc[r] = "absent"
    /\ \E k \in Kinds \ {"join_results"}, refs \in Refs :
         /\ kind' = [kind EXCEPT ![r] = k]
         /\ inputs' = [inputs EXCEPT ![r] = refs]
         /\ unread' = [unread EXCEPT ![r] = refs]
    /\ \/ pc' = [pc EXCEPT ![r] = "created"]
       \/ MongoFaults /\ pc' = [pc EXCEPT ![r] = "abandoned"]
    /\ InsertRun(r)
    /\ UNCHANGED <<active, df, semVars, storeVars, crashes>>

\* A request to join the stored results of two runs.
RequestJoin(r) ==
    /\ pc[r] = "absent"
    /\ \E left, right \in Documented :
         /\ inputs' = [inputs EXCEPT ![r] = <<left, right>>]
         /\ unread' = [unread EXCEPT ![r] = <<left, right>>]
    /\ kind' = [kind EXCEPT ![r] = "join_results"]
    /\ pc' = [pc EXCEPT ![r] = "checkLeft"]
    /\ UNCHANGED <<active, df, docVars, semVars, storeVars, crashes>>

\* The two runs are read one after the other and the new document is inserted
\* later still: what was read first may have changed by then.
CheckInput(r, i, here, next) ==
    /\ pc[r] = here
    /\ pc' = [pc EXCEPT ![r] = IF status[inputs[r][i]] = "completed"
                                 THEN next ELSE "rejected"]
    /\ UNCHANGED <<taskVars, docVars, semVars, storeVars, crashes>>

CheckLeft(r)  == CheckInput(r, 1, "checkLeft", "checkRight")
CheckRight(r) == CheckInput(r, 2, "checkRight", "insert")

InsertJoin(r) ==
    /\ pc[r] = "insert"
    /\ \/ pc' = [pc EXCEPT ![r] = "created"]
       \/ MongoFaults /\ pc' = [pc EXCEPT ![r] = "abandoned"]
    /\ InsertRun(r)
    /\ UNCHANGED <<taskVars, semVars, storeVars, crashes>>

\* POST /runs/{id}/cancel writes the status; the task is not told.
cancel_query(r) ==
    /\ r \in Documented
    /\ update_query_run(r, "cancelled", NoRows, FALSE)
    /\ UNCHANGED <<pc, taskVars, semVars, storeVars, crashes>>

-----------------------------------------------------------------------------
(* The background task, _execute_inline or _execute_join_results_inline.       *)

\* A plausible error: a release of its own beside the one of "async with".
LeaveSlotTwice(r, next) ==
    /\ slots' = slots + 1
    /\ waiters' = IF waiters = <<>> THEN waiters ELSE Tail(waiters)
    /\ pc' = [t \in Runs |-> IF t = r THEN next
                             ELSE IF t \in Woken THEN "starting" ELSE pc[t]]

\* Leaving "async with semaphore", normally or by an exception, releases the
\* slot in the same step and may hand it to the oldest waiter.
LeaveSlot(r, next) ==
    /\ Release
    /\ pc' = [t \in Runs |-> IF t = r THEN next
                             ELSE IF t \in Woken THEN "starting" ELSE pc[t]]

\* Plausible errors: an exception that keeps its slot, and one nobody catches.
RaiseKeepsSlot(r) ==
    /\ pc' = [pc EXCEPT ![r] = "failing"]
    /\ UNCHANGED semVars

RaiseUncaught(r) == LeaveSlot(r, "done")

\* Any exception is caught outside the semaphore's block.
Raise(r) == LeaveSlot(r, "failing")

EnterSlot(r) ==
    /\ pc[r] = "created"
    /\ Acquire
    /\ pc' = [pc EXCEPT ![r] = "starting"]
    /\ UNCHANGED <<taskVars, docVars, storeVars, crashes>>

EnterQueue(r) ==
    /\ pc[r] = "created"
    /\ Wait(r)
    /\ pc' = [pc EXCEPT ![r] = "queued"]
    /\ UNCHANGED <<taskVars, docVars, storeVars, crashes>>

\* update_query_run is one update_one and one find_one: with MongoDB failing,
\* it raises either before or after the document has changed.
WriteRunning(r) ==
    /\ pc[r] = "starting"
    /\ \/ /\ update_query_run(r, "running", NoRows, FALSE)
          /\ pc' = [pc EXCEPT ![r] = "reading"]
          /\ UNCHANGED semVars
       \/ /\ MongoFaults
          /\ Raise(r)
          /\ \/ update_query_run(r, "running", NoRows, FALSE)
             \/ UNCHANGED docVars
    /\ UNCHANGED <<taskVars, storeVars, crashes>>

\* store.get_result of the next referenced run; a missing one raises.  A join of
\* results reads both tables before it raises, which nobody can tell.
ReadInput(r) ==
    /\ pc[r] = "reading"
    /\ unread[r] # <<>>
    /\ IF Found(Head(unread[r]))
         THEN /\ unread' = [unread EXCEPT ![r] = Tail(@)]
              /\ UNCHANGED <<pc, semVars>>
         ELSE /\ Raise(r)
              /\ UNCHANGED unread
    /\ UNCHANGED <<kind, inputs, active, df, docVars, storeVars, crashes>>

\* Both sides of a join are fetched at once by asyncio.gather.
StartFetch(r) ==
    /\ pc[r] = "reading"
    /\ unread[r] = <<>>
    /\ kind[r] # "join_results"
    /\ active' = [active EXCEPT ![r] = SidesOf(kind[r])]
    /\ pc' = [pc EXCEPT ![r] = "fetching"]
    /\ UNCHANGED <<kind, inputs, unread, df, docVars, semVars, storeVars, crashes>>

FetchDone(r, side) ==
    /\ pc[r] = "fetching"
    /\ side \in active[r]
    /\ active' = [active EXCEPT ![r] = @ \ {side}]
    /\ UNCHANGED <<pc, kind, inputs, unread, df, docVars, semVars, storeVars, crashes>>

\* gather raises as soon as one side does and leaves the other one running.
FetchFails(r, side) ==
    /\ pc[r] = "fetching"
    /\ side \in active[r]
    /\ active' = [active EXCEPT ![r] = @ \ {side}]
    /\ Raise(r)
    /\ UNCHANGED <<kind, inputs, unread, df, docVars, storeVars, crashes>>

\* A side that outlived its run comes to its end.
OrphanEnds(r, side) ==
    /\ pc[r] \in {"failing"} \cup Over
    /\ side \in active[r]
    /\ active' = [active EXCEPT ![r] = @ \ {side}]
    /\ UNCHANGED <<pc, kind, inputs, unread, df, docVars, semVars, storeVars, crashes>>

\* A plausible error: the fetch is outside wait_for.
TimeoutReadingOnly(r) ==
    /\ pc[r] = "reading"
    /\ Raise(r)
    /\ UNCHANGED <<taskVars, docVars, storeVars, crashes>>

\* wait_for cancels the query and then waits for it to end: a side that is being
\* fetched first closes its connection (BaseConnector.__aexit__).
Timeout(r) ==
    /\ pc[r] \in {"reading", "fetching"}
    /\ \/ active[r] = {} /\ Raise(r)
       \/ active[r] # {} /\ pc' = [pc EXCEPT ![r] = "closing"] /\ UNCHANGED semVars
    /\ UNCHANGED <<taskVars, docVars, storeVars, crashes>>

\* disconnect has returned.  A connector that works in a thread (to_thread) cannot
\* be stopped, and gather ends with the first side that does: any may stay active.
Closed(r) ==
    /\ pc[r] = "closing"
    /\ \E others \in SUBSET active[r] : active' = [active EXCEPT ![r] = others]
    /\ Raise(r)
    /\ UNCHANGED <<kind, inputs, unread, df, docVars, storeVars, crashes>>

\* An unknown source, Redis failing, a column that is not there, an operation
\* that raises: whatever else fails while no side is being fetched.
ComputeFails(r) ==
    /\ pc[r] \in {"reading", "fetching"}
    /\ active[r] = {}
    /\ Raise(r)
    /\ UNCHANGED <<taskVars, docVars, storeVars, crashes>>

Fetched(r) ==
    \/ pc[r] = "fetching" /\ active[r] = {}
    \/ pc[r] = "reading" /\ kind[r] = "join_results" /\ unread[r] = <<>>

\* Join, operations, sort and the row limit: no await, so one step.
ComputeFrame(r) ==
    /\ Fetched(r)
    /\ \E n \in RowCounts : df' = [df EXCEPT ![r] = Cap(n)]
    /\ pc' = [pc EXCEPT ![r] = "computed"]
    /\ UNCHANGED <<kind, inputs, unread, active, docVars, semVars, storeVars, crashes>>

\* A plausible error: the table is written again after a reply that was lost.
StoreResultAgain(r) ==
    /\ pc[r] \in {"computed", "stored"}
    /\ store_result(r, df[r])
    /\ pc' = [pc EXCEPT ![r] = "stored"]
    /\ UNCHANGED <<taskVars, docVars, semVars, crashes>>

\* SETEX may raise before or after Redis has the table.
StoreResult(r) ==
    /\ pc[r] = "computed"
    /\ \/ /\ store_result(r, df[r])
          /\ pc' = [pc EXCEPT ![r] = "stored"]
          /\ UNCHANGED semVars
       \/ /\ Raise(r)
          /\ store_result(r, df[r]) \/ UNCHANGED storeVars
    /\ UNCHANGED <<taskVars, docVars, crashes>>

\* Plausible errors: the document is written before the table; a read-back that
\* fails after the write makes the run fail.
WriteCompletedFirst(r) ==
    /\ pc[r] \in {"computed", "stored"}
    /\ update_query_run(r, "completed", df[r], FALSE)
    /\ LeaveSlot(r, "done")
    /\ UNCHANGED <<taskVars, storeVars, crashes>>

WriteCompletedThenRaise(r) ==
    /\ pc[r] = "stored"
    /\ update_query_run(r, "completed", df[r], FALSE)
    /\ LeaveSlot(r, "done") \/ Raise(r)
    /\ UNCHANGED <<taskVars, storeVars, crashes>>

WriteCompleted(r) ==
    /\ pc[r] = "stored"
    /\ \/ /\ update_query_run(r, "completed", df[r], FALSE)
          /\ LeaveSlot(r, "done")
       \/ /\ MongoFaults
          /\ Raise(r)
          /\ \/ update_query_run(r, "completed", df[r], FALSE)
             \/ UNCHANGED docVars
    /\ UNCHANGED <<taskVars, storeVars, crashes>>

\* The except clauses; when this write fails too, nothing else records it.
WriteFailed(r) ==
    /\ pc[r] = "failing"
    /\ \/ /\ update_query_run(r, "failed", NoRows, TRUE)
          /\ pc' = [pc EXCEPT ![r] = "done"]
       \/ /\ MongoFaults
          /\ pc' = [pc EXCEPT ![r] = "abandoned"]
          /\ UNCHANGED docVars
    /\ UNCHANGED <<taskVars, semVars, storeVars, crashes>>

ExpireResult(r) ==
    /\ Expire(r)
    /\ UNCHANGED <<pc, taskVars, docVars, semVars, crashes>>

\* The server restarts: handlers, tasks, threads and the semaphore are gone,
\* MongoDB and Redis are not, and nothing resumes or closes the runs.
Crash ==
    /\ crashes < MaxCrashes
    /\ crashes' = crashes + 1
    /\ pc' = [r \in Runs |-> IF pc[r] \in Handling THEN "rejected"
                             ELSE IF pc[r] \in Working THEN "dead" ELSE pc[r]]
    /\ active' = [r \in Runs |-> {}]
    /\ slots' = MaxConcurrent
    /\ waiters' = <<>>
    /\ UNCHANGED <<kind, inputs, unread, df, docVars, storeVars>>

-----------------------------------------------------------------------------
Init ==
    /\ pc = [r \in Runs |-> "absent"]
    /\ kind = [r \in Runs |-> "single"]
    /\ inputs = [r \in Runs |-> <<>>]
    /\ unread = [r \in Runs |-> <<>>]
    /\ active = [r \in Runs |-> {}]
    /\ df = [r \in Runs |-> 0]
    /\ status = [r \in Runs |-> "none"]
    /\ rowCount = [r \in Runs |-> NoRows]
    /\ error = {}
    /\ crashes = 0
    /\ SemaphoreInit
    /\ StoreInit

Request(r) == Submit(r) \/ RequestJoin(r) \/ cancel_query(r)

Handler(r) == CheckLeft(r) \/ CheckRight(r) \/ InsertJoin(r)

\* What the event loop and the clock bring about by themselves.
Task(r) ==
    \/ EnterSlot(r) \/ EnterQueue(r)
    \/ WriteRunning(r) \/ ReadInput(r) \/ StartFetch(r)
    \/ Timeout(r) \/ ComputeFails(r) \/ ComputeFrame(r)
    \/ StoreResult(r) \/ WriteCompleted(r) \/ WriteFailed(r)

\* What a data source decides.
Source(r) ==
    \/ \E side \in Sides : FetchDone(r, side) \/ FetchFails(r, side) \/ OrphanEnds(r, side)
    \/ Closed(r)

Next ==
    \/ \E r \in Runs : Request(r) \/ Handler(r) \/ Task(r) \/ Source(r) \/ ExpireResult(r)
    \/ Crash

Spec == Init /\ [][Next]_vars

FairSpec == Spec /\ \A r \in Runs : WF_vars(Task(r))

-----------------------------------------------------------------------------
(* What the engine promises.                                                   *)

\* Every variable has its type.
TypeOK ==
    /\ pc \in [Runs -> PCs]
    /\ kind \in [Runs -> Kinds]
    /\ inputs \in [Runs -> Seq(Runs)]
    /\ unread \in [Runs -> Seq(Runs)]
    /\ active \in [Runs -> SUBSET Sides]
    /\ df \in [Runs -> Nat]
    /\ status \in [Runs -> Statuses]
    /\ rowCount \in [Runs -> Nat \cup {NoRows}]
    /\ error \subseteq Runs
    /\ crashes \in 0..MaxCrashes
    /\ slots \in 0..MaxConcurrent
    /\ waiters \in Seq(Runs)
    /\ live \subseteq Runs
    /\ stored \subseteq Runs
    /\ rows \in [Runs -> Nat]

\* No slot is lost or given twice, on any of the exits of the semaphore's block:
\* the free slots and the tasks inside the block always make up the limit.
SlotAccounting == slots + Cardinality(Holders) = MaxConcurrent

\* The queue holds each waiting task once and nothing else, and no slot is free
\* while a task waits for one: every waiting task will be woken by some release.
QueueSound ==
    /\ \A i, j \in 1..Len(waiters) : waiters[i] = waiters[j] => i = j
    /\ {waiters[i] : i \in 1..Len(waiters)} = {r \in Runs : pc[r] = "queued"}
    /\ waiters # <<>> => slots = 0

\* A client that polls until "completed" finds a run whose table has been
\* stored, with the row count the document tells, no error beside it, and no
\* more rows than the limit: the document is written after the table.
CompletedHasResult ==
    \A r \in Runs : status[r] = "completed" =>
        /\ r \in stored
        /\ rowCount[r] = rows[r]
        /\ rows[r] <= MaxResultRows
        /\ r \notin error

\* A stored table is computed from tables that were stored before it, however
\* statuses changed and tables expired between the handler's checks, the
\* reading of the references and the end of the run.
DerivedFromStored ==
    \A r \in stored : \A i \in 1..Len(inputs[r]) : inputs[r][i] \in stored \ {r}

\* While the server stays up and MongoDB answers, no run is left pending or
\* running by a task that has ended, and a document that says so has a task.
NoRunLeftBehind ==
    crashes = 0 /\ ~MongoFaults =>
        \A r \in Documented :
            /\ status[r] \in {"pending", "running"} => pc[r] \in Working
            /\ pc[r] = "done" => status[r] \in Terminal
            /\ ~(r \in error /\ rowCount[r] # NoRows)

\* Once a table is in Redis no later step changes it, and one that has expired
\* does not come back: two reads of a run never show two tables.
ResultsNeverChange ==
    [][\A r \in stored :
         /\ r \in stored' /\ rows'[r] = rows[r]
         /\ r \in live' => r \in live]_vars

\* While MongoDB answers, what a run came to is final: after "completed" or
\* "failed" only a user's cancel changes the status, and nothing changes the
\* row count or the error.
OutcomeFinal ==
    [][\A r \in Runs : status[r] \in {"completed", "failed"} =>
         /\ status'[r] \in {status[r], "cancelled"}
         /\ rowCount'[r] = rowCount[r]
         /\ (r \in error') = (r \in error)]_vars

\* disconnect returns, sooner or later: all that is asked of a data source.
ConnectionsClose == \A r \in Runs : []<>(pc[r] # "closing")

\* Every run that was accepted settles for good, whether or not its sources ever
\* answer: the query timeout ends what it fetches, its slot is free once the
\* connections are closed, and the queue is served in order.
EveryRunSettles ==
    ConnectionsClose =>
        \A r \in Runs : status[r] = "pending" ~> [](status[r] \in Terminal)

\* The engine refines the life of a run as a client sees it, whatever fails and
\* across restarts: the document and the table are written in that order, once
\* each, a cancelled run may still complete or fail, and a completed one fails
\* only where MongoDB may have written "completed" and still raised.
Lifecycle == INSTANCE RunLifecycle WITH
    table      <- [r \in Runs |-> IF r \in stored THEN rows[r] ELSE NoRows],
    settled    <- {r \in Runs : pc[r] = "done"},
    unreliable <- MongoFaults

ImplementsLifecycle == Lifecycle!Spec

\* dependencies.py: "Semaphore to limit concurrent query executions".
ExecutionsBounded == Cardinality({r \in Runs : active[r] # {}}) <= MaxConcurrent
=============================================================================

# EasyWeaver API: TLA+ specifications and proofs

EasyWeaver is a FastAPI service that queries and joins tables of external data
sources. This directory holds TLA+ models of it, the TLC configurations that
check them and TLAPS proofs about them. The models are written from the code
under `src/easyweaver`; file names below are relative to that directory.

## 1. Inventory

| Component | State it keeps | Operations | Interacts with |
|---|---|---|---|
| Query runs (`queries/router.py`, `queries/service.py`, `queries/executor.py`) | `query_runs` documents in MongoDB: status, row count, error; one asyncio task per run | execute, join two stored results, cancel, read a page of results, export | semaphore, result store, data sources, connectors |
| Concurrency limit (`dependencies.py`) | one `asyncio.Semaphore` per process | `async with` in the three background tasks | query runs, process runs |
| Result store (`results/redis_store.py`) | Parquet blobs in Redis under `query_result:<id>` with a time to live | store, get | query runs, process runs |
| Progress channel and Celery task (`tasks/`, the websocket of `queries/router.py`) | Redis publish/subscribe | publish, subscribe | nothing enqueues the task |
| Table operations (`queries/operations/`) | none | filter, derive, group, distinct, transform, sort | query and process runs |
| Connectors (`connectors/`) | one connection each | connect, execute, schema, preview | event loop or worker threads (DB2, files) |
| Process configurations (`processes/service.py`, `storage/gcs_client.py`) | versioned documents in MongoDB, one JSON copy per version in GCS, the path of the last copy | create, update, delete, refresh credentials | data sources |
| Process runs (`processes/router.py`, `processes/executor.py`) | `process_runs` documents, result tables in Redis and GCS | run, page, save, reload | semaphore, result store, configurations |
| Dashboards (`dashboard/`) | configurations and per-table snapshots in MongoDB | CRUD, capture, current statistics, history | data sources, connectors |
| Data sources (`sources/`) | documents in MongoDB, a schema cache in Redis | CRUD, test, schema, preview, upload | GCS, connectors |
| Authentication (`auth/`) | users in MongoDB | register, login, refresh, me | unique index created at start-up |
| Rate limiter (`core/middleware.py`) | admission times per client | admit or refuse | every request |

The behaviour that is hard to get right, component by component, is the list
`hazards` of `PROJECT.json`, each at its line. What makes each component correct:

* query runs: no slot leaks on any exit; "completed" is told only of a table
  that is stored, with its row count; outcomes are final; every run settles;
  tables are written once and derived from stored tables only;
* process configurations: every copy is the copy of the version it is filed
  under, the recorded path names one that exists, and once all requests are over
  the current version has one;
* process runs: as query runs, over the same slots, and the configuration that is
  executed is one that was written, no older than it must be;
* dashboards: no snapshot without its configuration; a fresh answer is fresh for
  every table;
* schema cache: a schema that is no longer true goes one time to live after the
  last change at the latest; a request closes what it opened;
* authentication: one user per address, with and without the index;
* rate limiter: at most the limit in any window, and no refusal below it;
* table operations and connectors: a process gives the table that the queries it was
  built from gave; rows are lost only where an operation drops them; the parser of
  formulas reads them as the grammar says; schemas name the columns that reads return;
  the pages of a result are the result.

## 2. Modules

| Module | What it is |
|---|---|
| `QuerySemaphore` | the semaphore: free slots and a first-in first-out queue; asyncio's part of it is external and modelled by what `async with` gets |
| `ResultStore` | the tables Redis holds (`live`), a history of those ever written (`stored`), their row counts (`rows`) |
| `QueryRuns` | the query engine, over those two: handlers, background tasks, documents, faults, restarts; its properties |
| `RunLifecycle` | the abstract specification: what a run promises to a client that polls it, whether or not the database of the runs is `unreliable` |
| `MCQueryRuns` | the instances TLC checks |
| `QueryRunsProofs` | the theorems about `QueryRuns` |
| `ProcessConfigs` | one process configuration, its copies in GCS and the source it embeds: requests, uploads, faults, restarts |
| `ProcessRuns` | the process engine, over `ProcessConfigs`, `QuerySemaphore` and `ResultStore`: handlers, task, saving and reloading; refines `RunLifecycle` too |
| `MCProcessConfigs`, `MCProcessRuns` | their instances |
| `ProcessConfigsProofs`, `ProcessRunsProofs` | the theorems about each |
| `Dashboards`, `MCDashboards` | one dashboard configuration, its snapshots and the requests for its statistics; their instance |
| `DashboardsProofs` | its theorems |
| `RateLimiter`, `RateLimiterProofs` | the sliding window of `core/middleware.py`, its theorems |
| `Sources` | one data source: its document, the cached schema, and the connections requests open |
| `Accounts` | registrations, logins and starts of the server, with and without the unique index |
| `TableStats` | the figures of one monitored table, read one after the other |
| `ServicesProofs` | the theorems about the last three |
| `MCServices` | the instance of `RateLimiter`, `Sources`, `Accounts` and `TableStats`, of which a behaviour explores one (`part`) |
| `Filters` | what a list of filters keeps: in SQL, in MongoDB, in Polars |
| `Fetches` | over `Filters`: what each connector returns, and one source read by either engine |
| `TableOps` | over `Fetches`: joins, derived columns, group by, distinct, sort, transforms |
| `Pipelines` | over `TableOps`: one request carried out by the query engine and by the process engine |
| `PipelinesProofs` | the theorems about the last four |
| `MathExpressions` | the parser of formulas and its grammar |
| `Documents` | the names of the columns of nested MongoDB documents, inferred and read |
| `ResultPages` | the pages of one stored result, and that they make it up |
| `TablesProofs` | the theorems about the last three |
| `MCTables` | the instance of `Pipelines`, `MathExpressions`, `Documents` and `ResultPages`, of which a behaviour explores one (`part`) |

### How QueryRuns corresponds to the code

`pc[r]` is the place of run `r`, first in its handler and then in its task. The
task is `_execute_inline` (kinds `single` and `join`) or
`_execute_join_results_inline` (kind `join_results`); the two have the same
skeleton and differ in what they read and fetch.

| `pc` | Place in the code |
|---|---|
| `absent`, `rejected` | no document: not requested, or refused by `join_results` |
| `checkLeft`, `checkRight`, `insert` | `join_results` before each of its three awaits |
| `created` | document inserted, task created |
| `queued` | waiting in `async with semaphore` |
| `starting` | in the block, before the status is `running` |
| `reading` | in `wait_for`: reading the tables of `value_from` references (left filters, then right) or the two tables to join |
| `fetching` | in `wait_for`: the connectors of `active[r]` execute |
| `closing` | still in `wait_for`, after the timeout: a cancelled side closes its connection in `BaseConnector.__aexit__` |
| `computed` | after the sort and the row limit, before `store_result` |
| `stored` | before the status is `completed` |
| `failing` | in an `except` clause, the slot already released |
| `done`, `abandoned`, `dead` | the task ended; its last write raised; the server stopped |

One action is one stretch of code between awaits, together with the effect of
the await it ends at:

* `Submit`, `RequestJoin`, `CheckLeft`, `CheckRight`, `InsertJoin` and
  `cancel_query` are the handlers. `join_results` reads its two runs one after the
  other; a run that is not completed is refused, and refusing at the first read
  or after the second is the same to every other actor.
* `LeaveSlot` is the exit of the semaphore's block and is part of every action
  that leaves it. An exception is caught outside the block, so the slot is free
  before `failed` is written (`Raise`, `WriteFailed`).
* `FetchFails` raises out of `asyncio.gather` at once; the other side stays in
  `active`. `Timeout` cancels what runs in the event loop, and `wait_for` returns only
  when that has ended: a side that has a connection awaits `disconnect()` first. `Closed`
  is its return, and gives the slot back; which sides run in a worker thread and go
  on is its choice of `others`. `OrphanEnds` ends them.
* `update_query_run` is an `update_one` and a `find_one`. With `MongoFaults` a
  write may raise before it took effect or after (the read-back failed); the same
  holds for SETEX in `StoreResult`, in every instance. An insert that took effect
  and still raised leaves a document no task belongs to (`abandoned`).
* `Crash` is a restart: tasks, threads and the semaphore are gone, MongoDB and
  Redis keep what they have, and the code resumes nothing.

Abstractions: a table is its number of rows; a computed table has any number of
rows of `RowCounts` before the limit; the document's `updated_at` and messages
are left out; `error` is the set of runs whose error is set. The place of a
waiting task changes to `starting` in the step that releases the slot, which is
what a first-in first-out semaphore amounts to. `GET /results` and `GET /export`
change nothing; what they rely on is `CompletedHasResult`.

### How ProcessConfigs corresponds to the code

A request `u` of `processes/service.py` is at `pc[u]`:

| `pc` | Place in the code |
|---|---|
| `embedding` | in `embed_source_details`, about to read the source |
| `writing` | before `insert_one` or the `update_one` that increments the version |
| `reading` | before the read-back with `get_configuration` |
| `uploading` | before `save_config_to_gcp`, which is synchronous |
| `recording` | before the `update_one` of `gcp_path` |

`update_configuration` and `refresh_process_credentials` differ in what they write
and are one sequence of actions; `create_configuration` has `Insert` instead of
`Write` and `ReadBack`. An update without a new `config` awaits no source. Each
`update_one` is one step; one that matches no document changes nothing and does
not fail, and then the read-back answers 404. Where `faults` is TRUE, which
is fixed for each behaviour, a write may raise before or after it took effect, and a
failed upload may have left its copy; what the code swallows leads to `over` just as
success does.

Abstractions: a configuration is the request that wrote its text and the
credentials embedded for one source (0 when there are none, as a higher number
newer ones). Name, description, tags and parameters belong to the text. The
destination "both" is kept in GCS as "gcp" is. The path of version `v` is `v`;
`gcp_path` can also be sent by the user, who may send back the path of the last
document or one the service did not make (`Foreign`). What a client sends never
holds credentials: the responses strip them. A create makes a new configuration
under a fresh id, so one instance has one create. `written` is a history of every
version's content and `overlapped` tells whether two requests ever were in
progress at once.

### How ProcessRuns corresponds to the code

`task[r]` is the place of `_execute_process_inline`:

| `task` | Place in the code |
|---|---|
| `created`, `queued` | before and in the queue of `async with semaphore` |
| `starting`, `loading` | before the status is `running`; before the configuration is read |
| `executing` | in `wait_for(execute_process(...))` |
| `closing` | still in `wait_for`, after the timeout: cancelled queries close their connections |
| `computed`, `stored`, `saved` | before `store_result`; before the save to GCS, if asked for; before the last write |
| `failing` | in an `except` clause, the slot already released |
| `done`, `abandoned` | the task ended; its last write raised, or the server stopped |

`LoadConfig` is one step because the code awaits only the document: the download
is synchronous. Its disjuncts are the outcomes: no document, a copy, no copy, or
the document. `used[r]` is the version that is executed and where it came from;
`HasCredentials` is the choice in `_execute_query` between embedded credentials and
a lookup of the source, which a run loaded from a copy cannot make. `Guests` are
tasks of the query engine, which hold and want slots of the same semaphore;
`WakeOthers` hands a slot on to whoever is first, of either kind. The table of a run
is the number of its rows, computed after the row limit. `client[r]` are the saves
and reloads of the run in progress, any number of them at a time: each reads the table
(`save_results_to_gcp`, `reload_results_from_gcp`), holds it, and writes it later
(`UploadTable` and `RecordResultPath`, `StoreReloaded`). Nothing in the code keeps two
of them apart. Requests at the same point with the same table are one element of the set, and
`StepClient` leaves open whether one remains when another goes on.

### How Dashboards corresponds to the code

`pc[u]` is the place of client `u`'s request in `get_current_stats` (`reading` the
source, `checking` the newest snapshot, `showing` table by table) or in the
`capture_snapshot` it awaits (`capturing`: before the configuration is read a second
time; `connecting`: before the time is taken; `gathering`). A client whose request
is `answered` or `refused` may make another. `CaptureFails` is any exception out of
the capture, also between two tables, whose snapshots then stay. `ReadLatest`
leaves open whether a fresh snapshot is used or, with POST `.../refresh`, not.
`delete_config` deletes the configuration, `CleanUp` then its snapshots; in between the
server may stop (`cut`). Mongo failures elsewhere end a request and change nothing.

A snapshot is its table and `captured_at`; the figures in it are left out. Two
captures of one table at the same instant are one snapshot, since only times are
compared. `overlapped` and `disturbed` are history and say under which circumstances
the code promises less.

### How RateLimiter corresponds to the code

`dispatch` decides before its first await, so a request is one step, `Refuse` or
`Admit`, and both clean the client's list first (`Recent`). The list `_requests` is
`log`: positions in the history `admitted` of admission times, so that what the
list has forgotten can be compared with what happened. Time is discrete; several
requests may arrive in one tick, also at the two ends of a window.

### How Pipelines, TableOps, Fetches and Filters correspond to the code

| Definition | Place in the code |
|---|---|
| `SqlKeeps`, `MongoKeeps` | the WHERE clause of the three SQL connectors, `_build_filter` of MongoDB |
| `PolarsKeeps`, `Skipped`, `Raises` | `apply_filters` and `_build_filter_expr`, and what Polars refuses to compare |
| `Coerce`; `PostgresPair`, `Db2Pair`, `MySqlPair` | `_coerce_value` of Polars; what a cell and a value are compared as in a database |
| `SqlRaises` | what asyncpg and DB2 refuse: a number for a text (asyncpg), a word for a number (both) |
| `FrameOf` | `pl.DataFrame(rows) if rows else pl.DataFrame()`: columns and types come from the first rows |
| `PostgresQuery` ... `RestQuery` | `execute_query` of the six connectors |
| `execute_single_source`, `ProcessQuery` | one source read by `queries/executor.py` and by `_execute_query` of `processes/executor.py` |
| `JoinFrames`, `JoinInputs`, `NamesClash` | `execute_join_from_results`, and the join step of `execute_process`; `_coerce_join_keys`; the names that Polars refuses |
| `DeriveOne`, `apply_group_by`, `apply_distinct`, `apply_sort`, `TransformOne` | the functions of those names |
| `Read`, `Join`, `Derive`, ... `Finish`, `Fail` | the steps of `_run_join` (lines 231-268 of `queries/router.py`) and of `execute_process` |

A table is its columns, their types, its rows, and the names that its documents may lack
(`sparse`; documents have their `_id`). A cell is missing or a number. In a text column a number
is a text: below 100 the numeral that writes it, from 100 a word, 100..109 in small letters
and 110..119 the same in capitals; the order of texts is that of the numbers. A value of a
filter has the form it has in the request, number, text or Boolean, since that decides what is
coerced, compared or refused:

* PostgreSQL, DB2 and Polars coerce a value to the type of its column where they can
  (`Coerce`), and what is not comparable afterwards (`Comparable`) raises: in Polars and asyncpg a
  number or a Boolean on a text column and a word on a column of numbers, in DB2 the word only.
  MySQL raises on neither: it compares a text with a number as numbers, and texts
  without regard to capitals; its Booleans arrive as 0 and 1. MongoDB compares values of
  one type only.
* A frame has the columns and types that its first `InferLength` rows show (100 in
  Polars): a column whose values come later raises, a key of documents that comes later is
  dropped, a column without values has no type.
* A join raises when a column of the right side is to be named as another one, also when the
  name with `_right` is taken. Join keys of two types are cast to text, Booleans as words.
* A missing value compares as unknown in SQL and in Polars and is a value in MongoDB, an empty
  frame has no columns, and a process reads all rows of the selected columns and then filters.

An operation that leaves an order or a choice open (a group by, a distinct that keeps any row, a
sort with ties, `head`) gives every result Polars may give, one disjunct of the step each, where
it matters. `Failure` is an exception. Both engines cut the table at `MaxRows` (`Finish`),
and the query engine also what it stores to be joined (`Fetched`); one source alone is only sorted.
Left out: `like`; lists of values of several forms, and nulls inside lists, which validation
lets through; a formula of numbers and texts together, which here leaves its column out.

### How MathExpressions, Documents and ResultPages correspond to the code

`_parse_additive`, `_parse_multiplicative` and `_parse_primary` are the functions of
`queries/operations/derived.py`, their loops `Terms` and `Factors`; `Raised` stands for
IndexError and ValueError. The code's functions call each other; here `Parser[n]`, a
function over the natural numbers, is the parser for places with at most `n` tokens left,
and every definition takes as `below` the parser for what is behind one token
more. Every call and every turn of a loop consumes a token, so `Parser[Len(tokens)]` is
the whole of it. `Derivations` is the reference: the rules of the grammar (an additive expression is
a multiplicative one, or an additive one, an operator and a multiplicative one, and so
on), as the set of trees of every stretch of the formula. Trees are written in postfix.

`InferredNames` and `FlatNames` are the recursions of `_infer_columns` and `_flatten_doc`,
functions of the levels that are left of `max_depth`; names are relative to the value,
where the code carries a prefix. A name is a sequence of keys, so that a dot in a key is
not told from a dot between two. `Compounds` bounds the values a field may hold.

`ResultPages` is `get_query_results`: every request sorts the stored
table anew, so two requests may see different orders of equal keys (`Orders`).

### How Sources corresponds to the code

`place[r]` is where a request is: `looking` in Redis, `reading` the document,
`connecting`, `using` and `closing` in `async with connector` or in
`test_connection`, `caching`, `writing`. `client[r]` is the connection it has:
MongoDB and HTTP clients exist before `connect()` first waits, pools only when they
are open, and a connection to DB2 is `opening` in a thread. `ConnectFails`, `UseFails`
and `Cancel` are the exits: `__aexit__` runs only after `__aenter__` has returned, a
failing test returns its message and closes nothing (a REST API's does), and
`wait_for` cancels a query anywhere. `whole` is FALSE for a schema of a REST API with
an endpoint that failed, which is listed without columns. The version of a document
is how often its credentials changed. `disturbed` is the time of the last event
that makes a cached schema wrong.

### How Accounts and TableStats correspond to the code

`Check` and `Insert` are the two awaits of `register_user`; `Insert` fails if the
index exists and the address is taken. `Restart` is `lifespan` with `init_db`: if
MongoDB is out of reach the service starts without, and later requests reach it
although the index was never made. `Login` is `authenticate_user`, which compares the
password with the one account `find_one` returns.

`ReadFigure` is one statement of `_gather_pg_table_stats` or
`_gather_mongo_table_stats`, between which rows come, change and go and hours pass.
PostgreSQL takes the time of each statement, MongoDB the time `started`. A figure that
fails is left out, but for a MongoDB collection's count, which becomes 0.

## 3. What the runs check

| Run | Instance | Question |
|---|---|---|
| `query_faults` | 2 runs, 1 slot, 1 reference, table sizes 0 and 2 against a limit of 1, MongoDB failing, 1 restart | Do slots, documents and tables stay consistent under every fault, and does the engine implement `RunLifecycle`? |
| `query_outcomes` | 3 runs, 1 slot, MongoDB answering, 1 restart | Is the queue sound, are outcomes final, and is every run looked after? |
| `query_liveness` | 2 runs, 1 slot, 1 reference, no faults | Does every accepted run settle for good? |
| `services` | rate limiter: 2 clients, 2 requests per 3 ticks, 7 ticks; source: 3 requests, 5 kinds of source; accounts: 3 people, 2 addresses, 3 starts; figures: 2 rows, 7 hours | Does the cleaned list limit every window, and refuse nobody below the limit? How long does a wrong schema stay, and which connections stay open? Where can duplicate accounts come from? Which relations of the figures survive a table that changes? |
| `tables` | 14,450 requests on tables of at most 3 rows (5 in two of them), a limit of 4, columns inferred from the first 2 rows; formulas of at most 7 tokens; documents up to 4 levels deep, of which 2 are read; results of at most 4 rows | Do the engines agree, what becomes of the rows of outer joins and of empty tables, does the parser follow its grammar, do schemas name the columns of reads, do pages make up the result? |
| `config_requests` | 3 requests, 1 generation of credentials, with and without failures of MongoDB, GCS and server | Does every copy match its version, does every recorded path name a copy, do refreshes keep credentials, and what is left when the requests are over? |
| `config_refresh` | 3 requests, nothing failing | Does a refresh change only credentials, as `processes/service.py:228` says? It does not. |
| `process_engine` | 1 process run, 1 query task, 1 slot, 1 request, with and without failures, tables of 0 and 2 rows against a limit of 1 | Are slots shared without loss, do completed runs have their tables, do save, expiry and reload keep them, does every accepted run settle, and does the engine implement `RunLifecycle` whatever fails? |
| `process_loads` | 1 process run, 2 requests, nothing failing but Redis | Which version does a run execute? |
| `process_gcp` | 1 process run, 2 requests | Does a run from the copy need no document, as `processes/router.py:269` says? It does. |
| `dashboards` | 2 clients, 2 tables, 3 configurations, 2 instants, captures failing, restarts | Is a capture shown, is a healthy answer fresh, does a deletion leave nothing? |
| `query_executions` | 2 runs, 1 slot | Does the semaphore limit executions, as `dependencies.py:14` says? It does not. |

Properties of `RateLimiter`: `WindowBounded` (any window, wherever it starts, not
only the one that ends now; its mutant admits one request too many) and
`VerdictExact` (its mutant counts entries exactly one window old).

Properties of `QueryRuns`:

* `SlotAccounting`: free slots plus tasks in the block is the limit. Its mutant
  forgets the release on the exceptional exits.
* `QueueSound`: the queue is exactly the waiting tasks, and no slot is free while
  one waits. Its mutant releases a second time beside `async with`.
* `CompletedHasResult`: "completed" implies a stored table with the row count of
  the document, within the limit, and no error. Its mutant writes the document
  first.
* `DerivedFromStored`: a stored table was computed from stored tables, although
  statuses change and tables expire between request and reading. Its mutant takes
  a missing table for an empty one.
* `ResultsNeverChange`: a table is written once and never comes back after it has
  expired. Its mutant repeats the write after a lost reply.
* `NoRunLeftBehind`: with the server up and MongoDB answering, a pending or
  running document has a task. Its mutant lets an exception end the task.
* `OutcomeFinal`: after "completed" or "failed" only a cancellation changes the
  status. Its mutant treats a failed read-back as a failed run, which is what the
  code does when MongoDB fails: hence the restriction to a MongoDB that answers.
* `ImplementsLifecycle`: refinement of `RunLifecycle`, with the published table
  read from the store and "settled" from the end of the task. In particular a
  cancelled run may still become running, completed or failed: `cancel_query`
  writes the status and stops nothing, and the abstract specification says so. Where
  MongoDB fails, a write may take effect although the server is told it did not:
  a run can show "completed" and then "failed" (`CompleteUnheard`, then `Fail`), or fail
  before it runs. Nothing else changes: even then a run begins once, its table is published
  once and before "completed", the row count is that of the table, and a run the
  server knows to be settled is only ever cancelled.
* `EveryRunSettles`: liveness, below. Its mutant has the fetch outside `wait_for`.
* `ExecutionsBounded` is violated: a finding. The shortest behaviour is a timeout
  of a connector that works in a thread, after which the next run enters the slot
  and fetches; the other is a join whose first side fails.

Properties of `ProcessConfigs`:

* `CopyMatchesVersion`: what is filed as version `v` is what the document held at
  version `v`. The uploader files what it has read back, under the version it has
  read; the mutant files it under the version it expects to have written.
* `RecordedCopyExists`: its mutant records a path although the upload failed.
* `CurrentVersionCopied`: nobody but the last writer needs to upload the last
  version, and it does, since nobody can change the destination after it without
  becoming the last writer. Its mutant looks at the request's destination only.
* `PathCurrentUnlessOverlapped`: the condition says where the code does not keep the
  path current: of two overlapping updates the earlier may record last. Its mutant
  records a path only where there was none.
* `RefreshKeepsCredentials`: a refresh loses the credentials of a configuration in one
  way only: an update that found them just before the source was deleted is written
  after the refresh has read an earlier text without credentials and found no source.
  Its mutant clears the credentials of a source that is gone. The property is about
  the credentials a configuration has, not about which ones: an overlapping refresh may
  bring back older ones.
* `RefreshKeepsText` is violated: a finding. The refresh reads the whole
  configuration, an update is written, and the refresh writes the old text back as
  a newer version.

Properties of `ProcessRuns`:

* `SlotsShared`, `CompletedHasResult`, `EveryRunSettles`, `ImplementsLifecycle`: as for
  query runs, with tasks of the other engine in the queue, GCS among the faults and
  reloads after expiry. A process run is not cancelled by anybody. The mutant of
  `EveryRunSettles` has the timeout guard the loading and not the execution.
* `SavedTableMatches`: the table in Redis, and the file whose path is recorded, is the
  table the run computed, however saves, expiries and reloads overlap: a reload may
  write what it has downloaded after the table expired, while another saves. Its mutant
  notes the path of a file whether or not it could be uploaded.
* `ExecutesWrittenVersion`: a run executes a version that was written, at least as
  new as the one its client saw if it comes from MongoDB, unchanged if it comes from
  a copy. Its mutant loads the copy of the version it has just read, which may not
  have been uploaded.
* `AutoUsesCurrentVersion`: "auto" may use a copy rather than the document because
  the two agree when nobody is busy: where nothing fails, no request on the configuration is in
  progress while the run loads, and no two have overlapped before. After an overlap the
  path may be that of an older version for good, and so may be what "auto" executes. Its mutant trusts a recorded path although the
  configuration is no longer kept in GCS: then the copy is old.
* `GcpNeedsNoDocument` is violated: a finding.

Properties of `Dashboards`:

* `NoOrphansUnlessOverlapped`: a capture that has read the configuration goes on
  inserting after the deletion; without one nothing is left or comes. Its mutant
  removes only the snapshots of tables that are monitored when it runs.
* `CaptureIsShown`: another request's capture, older or newer, never hides what this
  one captured. Its mutant shows the oldest snapshot.
* `FreshUnlessDisturbed`: whether to capture is decided from one snapshot of any
  table. That says something about every table as long as captures are
  complete and do not overlap, and the configuration is not changed: otherwise a table
  without a fresh snapshot, or without any, is shown as healthy until the
  interval has passed. The condition is where the code does not do what its
  docstring says ("refreshing if stale"). Its mutant never refreshes.

Properties of `Sources`, `Accounts` and `TableStats`:

* `StaleAtMostOneTtl`: nothing invalidates the cache, so how long a wrong schema is
  answered depends on the time to live alone, counted from the last change of the
  source or from the last request that, slower than the change, wrote what it had read
  before it. Its mutant writes the entry without a time to live.
* `LeftOpenExplained` lists the four ways in which a request leaves a connection behind;
  there is no fifth, in spite of cancellations at every await. Its mutant skips
  `disconnect` after an exception.
* `DuplicatesOnlyByOverlap`: the check alone or the index alone is enough against
  duplicates, and only owners of duplicates are ever refused their password. Its mutant
  drops the check.
* `FiguresOrdered`: that a shorter span never shows more changes than a longer one holds
  while rows are only added and changed, because the spans are read from the shortest
  to the longest; its mutant reads them in another order. With deletions, or with a
  clock per statement, it does not, and the condition says so.

Properties of `Pipelines`, `MathExpressions`, `Documents` and `ResultPages`:

* `ProcessMatchesQuery`: the engines give the same rows, or both fail. `Portable`,
  `TypesKept` and `OrderFree` name every case where they do not. The engines differ for files
  and REST APIs (whose connectors ignore filters), filters by columns that are not selected, an
  empty `not_in` under "or", lists on Boolean columns, values that Polars does not compare with
  the type of the column (a word for a Boolean of MySQL, a number for a text), values missing in a
  table longer than what columns are inferred from, words that differ in capitals in MySQL,
  values of another type in MongoDB, missing values under `neq` and `not_in` there, a key that
  no document has, its limit on documents, a table the row limit cuts on its way to the
  result, a sort of an empty table, and columns that only the rows a filter drops have a value
  in: the query engine then sees a column without a type, or none, and a formula fails. The
  mutant hands no filters to the connector.
* `OuterKeepsRows`: an outer join keeps every row of its left side, except that it keeps
  none if the right side is empty. A key may arrive cast to text. Its mutant drops unmatched rows.
* `EmptyTableOutcomes`: an empty table has no columns, and what follows either does
  without them or fails; a constant (a literal, or a formula of numbers) makes a row of
  nothing, and nothing else does. The causes of failure it lists are all there are, for a
  request that keeps its columns: a table that is empty or could not be read, a key that was not
  selected or does not exist, a sort by a name that no table, join or constant provides, a
  name that the join gives twice, and a filter whose value Polars does not compare with
  a type that the column may have once keys are cast and columns derived (`TypesAt`: the
  concatenation `d` with the filter `d = 1`). Its mutant lets a column that cannot be computed
  fail the run.
* `ParserFollowsGrammar`: over all formulas of five tokens, and seven without "+" and
  "/", well-formed or not: the parser accepts what the grammar derives and nothing else,
  and gives the one tree it has (so the grammar is unambiguous too). Its mutant makes
  subtraction associate to the right.
* `NamesMatchUnlessNested`: an equivalence: it also says that names do differ for every
  document with an irregular array of documents. Its mutant takes the keys of the first element
  only. `AllCompounds` are the values that take up to three enclosures of a plain one, in a
  document or an array, alone or beside another value; `max_depth` is 2, so
  that they reach both sides of it.
* `PagesPartition`: its mutant counts pages from zero.

**Bounds.** One slot and two runs give every order of two tasks around the block
and at most one waiter; three runs give two waiters and a join of two different
results. Table sizes on both sides of the limit decide `Cap`. One reference is
enough for a run to depend on another; chains come from three runs. One restart
leaves a dead run beside live ones. Three requests give a create and two others that
overlap in every order and with the create's own upload;
the proofs cover any number of generations of credentials. Process runs
are checked with one or two requests, since what requests do to each other is the
subject of the configuration's own runs: one request is the create, the second an
update, a refresh or a delete. Two clients and two
instants let a capture overlap another, a deletion and an update, and let snapshots be
as old as the interval and older; the intervals 1 and 2 put the second instant on both
sides of the limit. The proofs below do not depend on any bound.
A wrong schema in the cache takes a change and two schema requests at most; a ttl of 2
in 5 ticks lets an entry expire and be written again. MySQL has the connections of
PostgreSQL and is left out of `Types`. Two people are needed for a duplicate, a third for
one who is refused by either of them; three starts give one with MongoDB, one without,
and one that finds duplicates. `MCTables` enumerates requests that differ in one
operation (filters: up to two) on tables that have missing values, ties, duplicates,
unmatched keys and no rows; every connector reads every one of the left tables with
every filter. `TextRequests` have numerals and words in both cases, values of every form, and
columns whose values come after the rows that columns are inferred from (`InferLength` is 2, so that
three rows are enough) or not at all. `EmptiedRequests` have columns that a filter
empties, `KeyedRequests` keys that are missing, words for booleans and a formula of
numbers, `ClashRequests` names that a join gives twice and keys of two types. Types of numbers
and texts are one each, since coercion is by type.
The components in `MCServices` and `MCTables` share no state: a behaviour explores one
while the others wait in an initial state, so a run is the sum of four runs and not their
product.
Deadlock is checked in the runs of the query engine, where a user
can always do something more. An instance of the others has a
bounded number of requests and stops when they are used up, so there it is not.

**Fairness.** `FairSpec` asks weak fairness of `Task(r)` only: the event loop runs
a task that is ready, MongoDB and Redis answer or raise, and the query timeout
fires (`settings.query_timeout_seconds` is finite). `FairSpec` of `ProcessRuns` asks the
same of a process run's `Task(r)`. Nothing is asked of the answers of data sources
(`FetchDone`, `Execute`), users, requests, clients or expiry. One thing is, as the premise
`ConnectionsClose` of both `EveryRunSettles`: a `disconnect()` that a timeout waits for
returns (`pool.close()` of PostgreSQL, `wait_closed()` of MySQL, a thread for DB2). The code does not
guarantee it, and no fairness is claimed for it: `wait_for` has no second timeout, so a connection
that never closes holds its slot for good, and TLC finds that run when the premise is left
out. For a process run the premise also says that the query engine's tasks leave
the slot in the end, which is what `EveryRunSettles` of `QueryRuns` says of them. A run in the queue needs no fairness of its
own: the run that holds the slot leaves it and hands it on.

## 4. What is proved

`QueryRunsProofs` proves, for every set of runs (finite or not), every limit and
every value of the other constants, from the named assumptions that the limits
are natural numbers:

| Theorem | Statement |
|---|---|
| `TypeCorrect` | `Spec => []TypeOK` |
| `SlotsAccounted` | `Spec => []SlotAccounting` |
| `QueueIsSound` | `Spec => []QueueSound` |
| `CompletedRunsHaveResults` | `Spec => []CompletedHasResult` |
| `ResultsDeriveFromResults` | `Spec => []DerivedFromStored` |
| `StoredResultsNeverChange` | `Spec => ResultsNeverChange` |
| `NoRunIsLeftBehind` | `Spec => []NoRunLeftBehind` |
| `OutcomesAreFinal` | `~MongoFaults => (Spec => OutcomeFinal)` |
| `EngineImplementsLifecycle` | `Spec => ImplementsLifecycle` |

The argument has three layers.

1. `SlotInv` (slots): `SlotAccounting` alone is not inductive, because a release
   hands the slot to the head of the queue, which must be a waiting task and be
   in the queue once: `QueueSound`. Conversely `QueueSound` needs the count to know
   that a slot handed on was not free. `SlotLeft`, `SlotEntered`, `SlotQueued` and
   `SlotCrash` are the four ways the slots change, `SlotKept` is everything else.
2. `IInv` (results) adds one invariant per run, `RunInv`: what a task has not read
   yet (`unread`) and how far it is. A run's inputs are stored or still to be read,
   nothing is left to read once it computes, only a task past `computed` has a
   table, and a document says "completed" only then. A step concerns one run;
   `BystanderKeeps` deals with all the others at once, and `ActorKeeps` with the one
   that acts, action by action.
3. Documents. `DocStep` lists what a step can do to a document when the reply comes,
   `LostReply` the one case in which the document says "completed" and the task goes on
   to fail. `FaultFreeInv`, which holds while MongoDB answers, says that the place
   of the task determines what its document can say; outcomes are final by it.
   `LifeInv` is what is left of it when MongoDB fails: before the last write the
   place still determines the status, behind a task that fails the document may say
   "completed" or still "pending", but only if a write has raised. With it every case of
   `DocStep` is a step of `RunLifecycle` or a stutter, and `LostReply` is `CompleteUnheard`.

`OutcomesAreFinal` keeps its hypothesis because the code does not have the property without
it; the refinement says what holds instead.

`RateLimiterProofs` proves `LimiterTypeCorrect`, `NoWindowOverflows` and
`VerdictsAreExact`, for every limit, window and set of clients. `LogInv` says that
the list holds every admission still in the window and that times never decrease;
`OldestIsOut` is the counting argument: if the admission `MaxRequests` before the
new one were inside the window, so were all after it, and the list would be full.

`ProcessConfigsProofs` proves, for every set of requests and any number of
credentials, with and without faults: `ConfigTypeCorrect`, `CopiesMatchVersions`,
`RecordedCopiesExist` and `CurrentVersionIsCopied`. The invariants build on each
other. `HistoryInv`: the document is the last entry of `written`. `HeldInv`: what a
request has read back is an entry of `written` under its version, and a request that
is about to record a path has uploaded that copy; every copy was made from such a
read, which gives `CopyMatchesVersion`. `PathInv`: the recorded path is one of the
copies, none, or the user's own. `CopyInv`, which holds while nothing fails: if the configuration
is kept in GCS and the current version has no copy, a request that will upload it is
still on its way. That is why `CurrentVersionCopied` holds although the uploads race.

In the refresh, `RefreshInv` keeps what a refresh has read until it writes: an earlier version
of the document and, if it found no source, that there is none any more, since a deleted
source does not come back. `RefreshesKeepCredentials` follows for the writing step.
`PathsCurrent` needs `AloneInv`: as long as requests do not overlap, one is in progress at
most, what it has read back is the document, and the path is current or about to be.

`ProcessRunsProofs` proves, for any sets of runs, guests and requests, and whatever fails:
`RunsRespectConfig` (a step of the process engine is a step of `ProcessConfigs` or leaves
it alone, so that everything above holds beside the runs), `SlotsAreShared`,
`RunTypesCorrect`, `CompletedHasItsResult`, `SavedTablesMatch`, `RunsExecuteWrittenVersions`,
`AutoRunsUseCurrentVersion` and `RunsImplementLifecycle`. Two say less than their names may
suggest: `SlotsAreShared` is the count of slots alone, and `AutoRunsUseCurrentVersion` has the
conditions of its property (nothing fails, no request in progress, none overlapped before).

* `SemInv`: the slots as for query runs. The holders are tasks of two engines, so the count
  is the cardinality of a set that changes by one element; a slot is handed on to whichever
  engine's task is first. That needs the two kinds of tasks to have different names
  (`Runs \cap Guests = {}`: both are fresh UUIDs).
* `ResultInv`: all tables of a run, in Redis, in GCS, and held by clients that save or reload,
  have the number of rows the run computed, and a path is noted only of a file that exists;
  it is about every element of `client[r]`, so it does not matter how many there are.
* `LoadInv`: a version loaded from MongoDB is at least the one its client saw, a copy is one
  that was uploaded; with `CopyMatchesVersion` both are versions that were written.
* `LifeInv`: the place of a task determines the status, up to what a write that raised leaves
  behind, as for queries; `LostReplyStep` is the lost reply, `SettledStep` what
  a step does to the set of settled runs.

`DashboardsProofs` proves `DashTypesCorrect`, `DeletionLeavesNoOrphans`, `CapturesAreShown` and
`AnswersAreFresh`, for any clients, tables, configurations and instants. `OrphanInv`: a
deletion that no capture overlaps finds none at work, and one that starts later does not find
the configuration. `CaptureInv`: a capture has inserted the snapshots of the tables it is
done with, and no table is then shown older. `FreshInv` is what "undisturbed" amounts to:
one request works at a time, on the configuration as it is, and captures are
complete but for the one in progress; so one snapshot stands for all tables. That instants
have a maximum (`NewestExists`) is an induction. Intervals are at least 1, as
`dashboard/schemas.py` has it.

`ServicesProofs` proves `StaleForOneTtl` (`CacheInv`: a wrong entry lives at most one time to
live from the last disturbance), `OpenConnectionsExplained` (`ClientsInv`: what a request has open
at each place, and how one that is over has come to keep it), `DuplicatesExplained`
(`AccountsInv`: accounts of one address were inserted by registrations that overlapped
without the index, and one who has passed the check has seen no account of an address unless
it was inserted since) and `FiguresAgree` (`StatsInv`: a figure read earlier, of a shorter
span, is at most the count that a longer span has now, because counts only grow; it needs a
finite table, `IsFiniteSet(RowNames)`).

`TablesProofs` proves `PagesMakeUpTheTable`: for tables of any length and any page size, the
arithmetic of offset, limit and number of pages (`PagesInv` says only that every page was
an answer about the same table). It assumes that rows have identities, which are of the
model: they tell equal rows apart.

It proves `SchemaNamesMatch` and `NamesMatch`: for any set of keys, any `max_depth` and any set
of values that is closed under what their fields and items hold, so for documents of any depth.
`InferredNames`, `FlatNames` and `Arrays` are functions on the natural numbers that
are defined by what they are one level below; that such functions exist is `RecursionExists`, from
`NatsReached` (a set of natural numbers that contains 0 and the successor of each of its members
contains them all, from the well-founded order of the numbers). The theorem is then by levels
(`SameOneLevelUp`): a value without names below it (`LeafNames`), a document (`DictNames`:
names that begin with different keys cannot make up for each other, so its columns match
exactly if those of each field do), and an array (`ArrayNames`: the columns of a read are one
key long, those of the schema as long as the first element is deep). It assumes that no key is
`"[]"`, the mark the code puts behind the key of an array.

It proves `ParserMatchesGrammar` and `FormulasParsed`: for formulas of any length, over any
set of operands. Nothing counts parentheses. `ParserSound`: what a function of the parser
returns is derived by the grammar for the stretch it has consumed, where a loop extends a
derivation it is given (`FactorsExtend`, `TermsExtend`). `ParserComplete`: for any
derivation of a stretch the parser, started in front of it, arrives behind it with the same tree, and
a loop goes on from there (`LoopsGoOn`) or ends if no operator follows (`LoopsEnd`). The
two together give the equality of the sets, and that the derivation is unique. Both are inductions on
the number of tokens. It assumes that operands are no operators or parentheses.

`PipelinesProofs` proves of every table, every list of filters and every request within
`RequestsAssumption`:

* `EnginesReadAlike`: for every source and every portable request the two ways of reading it give
  the same rows, and one fails exactly if the other does. The lemmas under it are about one
  filter and one cell (`SqlAgrees`, `MongoAgrees`), a list of filters
  (`SqlKeepsWhatPolarsKeeps`), then rows and the columns that are inferred from them.
* `ExecutionInvHolds`, the invariant of the two executions: at every place the frame is what
  the steps so far make of what was read (`Follows`), and an answer is an outcome of the whole
  (`Outcome`). The theorems that follow are about `Outcome` only.
* `OuterJoinsKeepTheLeft`, from `PolarsJoinKeeps`.
* `ProcessesMatchQueries`. The tables read are the same, or both empty; up to the distinct every
  step is a function of the frame; from there on two executions have frames that are
  permutations of each other (`Alike`), which every step keeps: a distinct that is
  order-free, any sort, every transform. Derived columns and transforms are chains, whose ends
  `ChainEnd` reaches by well-founded induction.
* `EmptyTablesExplained`: `Sound` (a frame that is no failure) is kept by every step when the keys
  and names are there and given once, `Rowless` by every step but a constant. For the filters it
  is followed which types a column may have: `SafeInputs` after the join, `SafeDerived`
  after the derived columns.

`RequestsAssumption` says what validation and the model's reading of a request guarantee: a
request has one source or two, lists are finite, tables have the shape of tables, no
column is called what the model calls a missing value, documents have their key, and a request
for one source only sorts. The other assumptions are that limits and numbers of rows are natural
numbers, that a missing value is no integer (`NullAssumption`), that `to_list` has a limit,
and that columns are inferred from at least one row (`LimitsAssumption`).

Attempts to prove corrected the model in these places: `RefreshKeepsCredentials` was false for a
refresh that read before an update and wrote after it; the values of MySQL were coerced as
those of PostgreSQL are; `TypesKept` and a condition of `OrderFree` were missing
from `ProcessMatchesQuery`; `EmptyTableOutcomes` did not name missing keys, keys that a join drops,
formulas of numbers and the words for booleans; several CASE expressions had overlapping arms.
In each case the instance of TLC was extended so that it reaches the case.

**Only model-checked.** `EveryRunSettles` of both engines, because liveness under fairness is
out of the prover's reach. The three properties that are expected to be violated are refuted by
a behaviour, not proved. Every other property that a run checks has a theorem.

## 5. Plan

What was planned is modelled, checked and, where the prover reaches, proved. Still open:

1. the findings as theorems where a positive statement is possible: how many executions there
   can be beside the semaphore, and what a refresh does keep of the text;
2. liveness in pieces: that a step of a task brings it nearer to its end is a safety
   property and could be proved, so that only the fairness argument is left to TLC;
3. joins of more than two tables in one process, and the substitution of parameters.

## 6. Not modelled

* The wire protocols of connectors, their catalogue queries, the parsing of files and
  the flattening of REST answers: I/O and formats. Threads of connectors that go on after
  the timeout of a process run: what they mean for the semaphore is checked for query runs.
* `like` (each dialect has its own patterns, and MongoDB and Polars take regular
  expressions), `avg`, parts and formats of dates, rounding, trimming: data, not control.
* The substitution of parameters in a process, chains of more than one join, and the
  limit on the number of values of a reference (a failure like any other).
* The Celery task, which nothing enqueues and which imports a name that
  `dependencies.py` does not have, and the websocket, which waits for text that only the
  task would publish: neither takes part in any behaviour of the service.
* The upload of a file source (a blob is written, then the document), `GET /export`, the
  history of snapshots.
* Failures of Redis at `setex` of the schema and of a connector's `disconnect`: the
  request ends with an error and leaves the state `Sources` has before the step.
* Request validation (`schemas.py`), encryption and tokens (library calls), the error
  mapping and CORS (formatting), settings, the unused `core/pagination.py`,
  `operations/sort.py`, `operations/join.py` and `delete_result`, the Alembic migrations of a
  relational schema the service no longer uses, and the seed script. Shutdown is a
  restart.

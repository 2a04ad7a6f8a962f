------------------------------ MODULE Dashboards ------------------------------
(* One dashboard configuration, its snapshots in MongoDB, and the requests on  *)
(* it (dashboard/service.py).  A request for statistics decides from the       *)
(* newest snapshot of any table whether to capture new ones of all tables, and *)
(* then shows the newest of each.  Requests interleave at every await.  A      *)
(* snapshot is its table and its captured_at.                                  *)
EXTENDS Integers, Sequences

CONSTANTS
    Clients,            \* each makes one request after the other
    Tables,
    Configs,            \* bound: what a configuration may say
    Times               \* bound: the instants at which anything happens

ASSUME DashboardAssumption ==
    /\ Configs \subseteq [tables : Seq(Tables), interval : Nat \ {0}]
    /\ Times \subseteq Nat /\ 0 \in Times

VARIABLES
    now,
    present, config,    \* the dashboard_configs document
    snapshots,          \* the data_snapshots documents
    deletion,           \* how far the deletion is
    pc,
    own,                \* of a client's request: the configuration it read first
    since,              \* what is older than this is stale
    plan, done,         \* the tables its capture gathers, and how many it has
    stamp,              \* captured_at of its capture, or Never
    healthy,            \* connection_healthy of its answer
    shown,              \* captured_at of the tables in its answer so far
    overlapped,         \* history: a capture was in progress at the deletion
    disturbed           \* history: a capture failed, two requests overlapped,
                        \* the configuration changed, or the server stopped

captureVars == <<plan, done, stamp>>
answerVars  == <<own, since>>
dbVars      == <<present, config, snapshots, deletion, overlapped>>
vars        == <<now, dbVars, pc, captureVars, answerVars, healthy, shown, disturbed>>

Never    == -1
NoConfig == [tables |-> <<>>, interval |-> 0]

Busy == {"reading", "checking", "capturing", "connecting", "gathering", "showing"}
PCs  == Busy \cup {"idle", "answered", "refused"}

Names(list) == {list[i] : i \in DOMAIN list}

Goto(u, place) == pc' = [pc EXCEPT ![u] = place]

\* captured_at of the newest of some snapshots.
Newest(set) ==
    IF set = {} THEN Never
    ELSE CHOOSE at \in {s.at : s \in set} : \A s \in set : s.at <= at

\* A plausible error: the oldest snapshot of the table is shown.
OldestOf(t) ==
    LET set == {s \in snapshots : s.table = t} IN
    IF set = {} THEN Never
    ELSE CHOOSE at \in {s.at : s \in set} : \A s \in set : at <= s.at

NewestOf(t) == Newest({s \in snapshots : s.table = t})

-----------------------------------------------------------------------------
(* The configuration.                                                          *)

create_config ==
    /\ config = NoConfig
    /\ config' \in {c \in Configs : c.tables # <<>>}
    /\ present' = TRUE
    /\ UNCHANGED <<now, snapshots, deletion, overlapped, pc, captureVars,
                   answerVars, healthy, shown, disturbed>>

\* One update_one of what is given, once the configuration has been found; the
\* list of tables may become empty.
update_config ==
    /\ present
    /\ config' \in Configs \ {config}
    /\ disturbed' = TRUE
    /\ UNCHANGED <<now, present, snapshots, deletion, overlapped, pc, captureVars,
                   answerVars, healthy, shown>>

delete_config ==
    /\ present
    /\ present' = FALSE
    /\ deletion' = "half"
    /\ overlapped' = \E u \in Clients : pc[u] \in {"connecting", "gathering"}
    /\ disturbed' = TRUE
    /\ UNCHANGED <<now, config, snapshots, pc, captureVars, answerVars, healthy, shown>>

\* A plausible error: only the snapshots of the tables monitored now are removed.
CleanUpMonitored ==
    /\ deletion = "half"
    /\ snapshots' = {s \in snapshots : s.table \notin Names(config.tables)}
    /\ deletion' = "done"
    /\ UNCHANGED <<now, present, config, overlapped, pc, captureVars,
                   answerVars, healthy, shown, disturbed>>

\* delete_many of the configuration's snapshots, or its failure.
CleanUp ==
    /\ deletion = "half"
    /\ \/ snapshots' = {} /\ deletion' = "done"
       \/ UNCHANGED snapshots /\ deletion' = "cut"
    /\ UNCHANGED <<now, present, config, overlapped, pc, captureVars,
                   answerVars, healthy, shown, disturbed>>

-----------------------------------------------------------------------------
(* GET .../stats and POST .../refresh: get_current_stats.                      *)

BeginStats(u) ==
    /\ pc[u] \notin Busy
    /\ present
    /\ Goto(u, "reading")
    /\ own' = [own EXCEPT ![u] = config]
    /\ since' = [since EXCEPT ![u] = 0]
    /\ plan' = [plan EXCEPT ![u] = <<>>]
    /\ done' = [done EXCEPT ![u] = 0]
    /\ stamp' = [stamp EXCEPT ![u] = Never]
    /\ healthy' = [healthy EXCEPT ![u] = FALSE]
    /\ shown' = [shown EXCEPT ![u] = <<>>]
    /\ disturbed' = (disturbed \/ \E v \in Clients : pc[v] \in Busy)
    /\ UNCHANGED <<now, dbVars>>

\* The source is read, and then the threshold is taken from the clock.  A source
\* that has been deleted is a 404.
ReadSource(u) ==
    /\ pc[u] = "reading"
    /\ \/ /\ Goto(u, "checking")
          /\ since' = [since EXCEPT ![u] = now - own[u].interval]
       \/ Goto(u, "refused") /\ UNCHANGED since
    /\ UNCHANGED <<now, dbVars, captureVars, own, healthy, shown, disturbed>>

\* A plausible error: a snapshot is never too old.
StaleNever(u) == snapshots = {}

Stale(u) == snapshots = {} \/ Newest(snapshots) < since[u]

\* A refresh captures in any case, a question only what is stale.
ReadLatest(u) ==
    /\ pc[u] = "checking"
    /\ \/ Goto(u, "capturing") /\ UNCHANGED healthy
       \/ ~Stale(u) /\ Goto(u, "showing") /\ healthy' = [healthy EXCEPT ![u] = TRUE]
    /\ UNCHANGED <<now, dbVars, captureVars, answerVars, shown, disturbed>>

\* The newest snapshot of each table of the configuration the request read
\* first, one after the other.
ShowTable(u) ==
    /\ pc[u] = "showing"
    /\ Len(shown[u]) < Len(own[u].tables)
    /\ LET t == own[u].tables[Len(shown[u]) + 1] IN
         shown' = [shown EXCEPT ![u] = Append(@, NewestOf(t))]
    /\ UNCHANGED <<now, dbVars, pc, captureVars, answerVars, healthy, disturbed>>

Answer(u) ==
    /\ pc[u] = "showing"
    /\ Len(shown[u]) = Len(own[u].tables)
    /\ Goto(u, "answered")
    /\ UNCHANGED <<now, dbVars, captureVars, answerVars, healthy, shown, disturbed>>

-----------------------------------------------------------------------------
(* capture_snapshot.  Any exception out of it makes the answer unhealthy.      *)

CaptureFails(u) ==
    /\ pc[u] \in {"capturing", "connecting", "gathering"}
    /\ Goto(u, "showing")
    /\ plan' = [plan EXCEPT ![u] = <<>>]
    /\ done' = [done EXCEPT ![u] = 0]
    /\ stamp' = [stamp EXCEPT ![u] = Never]
    /\ disturbed' = TRUE
    /\ UNCHANGED <<now, dbVars, answerVars, healthy, shown>>

\* The configuration is read a second time.
ReadForCapture(u) ==
    /\ pc[u] = "capturing"
    /\ present
    /\ plan' = [plan EXCEPT ![u] = config.tables]
    /\ Goto(u, "connecting")
    /\ UNCHANGED <<now, dbVars, done, stamp, answerVars, healthy, shown, disturbed>>

\* The source is read again; all snapshots of a capture get the time from before the
\* connection is made.
Connect(u) ==
    /\ pc[u] = "connecting"
    /\ stamp' = [stamp EXCEPT ![u] = now]
    /\ Goto(u, "gathering")
    /\ UNCHANGED <<now, dbVars, plan, done, answerVars, healthy, shown, disturbed>>

\* A plausible error: a table that cannot be gathered is passed over.
CaptureOrSkip(u) ==
    /\ pc[u] = "gathering"
    /\ done[u] < Len(plan[u])
    /\ \/ snapshots' = snapshots \cup
            {[table |-> plan[u][done[u] + 1], at |-> stamp[u]]}
       \/ UNCHANGED snapshots
    /\ done' = [done EXCEPT ![u] = @ + 1]
    /\ UNCHANGED <<now, present, config, deletion, overlapped, pc, plan, stamp,
                   answerVars, healthy, shown, disturbed>>

\* The statistics of the next table are gathered and inserted.  A figure that
\* cannot be had is left out; what else fails is CaptureFails.
CaptureTable(u) ==
    /\ pc[u] = "gathering"
    /\ done[u] < Len(plan[u])
    /\ snapshots' = snapshots \cup
         {[table |-> plan[u][done[u] + 1], at |-> stamp[u]]}
    /\ done' = [done EXCEPT ![u] = @ + 1]
    /\ UNCHANGED <<now, present, config, deletion, overlapped, pc, plan, stamp,
                   answerVars, healthy, shown, disturbed>>

CaptureDone(u) ==
    /\ pc[u] = "gathering"
    /\ done[u] = Len(plan[u])
    /\ healthy' = [healthy EXCEPT ![u] = TRUE]
    /\ Goto(u, "showing")
    /\ UNCHANGED <<now, dbVars, captureVars, answerVars, shown, disturbed>>

-----------------------------------------------------------------------------
Tick ==
    /\ now' \in {t \in Times : t > now}
    /\ UNCHANGED <<dbVars, pc, captureVars, answerVars, healthy, shown, disturbed>>

\* What a restart leaves of the variables of a request.
Lost(f, nothing) == [u \in Clients |-> IF pc[u] \in Busy THEN nothing ELSE f[u]]

\* A restart ends the requests in progress, a deletion between its two steps too.
Restart ==
    /\ pc' = Lost(pc, "refused")
    /\ own' = Lost(own, NoConfig) /\ since' = Lost(since, 0)
    /\ plan' = Lost(plan, <<>>) /\ done' = Lost(done, 0) /\ stamp' = Lost(stamp, Never)
    /\ shown' = Lost(shown, <<>>) /\ healthy' = Lost(healthy, FALSE)
    /\ deletion' = IF deletion = "half" THEN "cut" ELSE deletion
    /\ disturbed' = TRUE
    /\ UNCHANGED <<now, present, config, snapshots, overlapped>>

Init ==
    /\ now = 0
    /\ present = FALSE
    /\ config = NoConfig
    /\ snapshots = {}
    /\ deletion = "none"
    /\ overlapped = FALSE
    /\ pc = [u \in Clients |-> "idle"]
    /\ own = [u \in Clients |-> NoConfig]
    /\ since = [u \in Clients |-> 0]
    /\ plan = [u \in Clients |-> <<>>]
    /\ done = [u \in Clients |-> 0]
    /\ stamp = [u \in Clients |-> Never]
    /\ healthy = [u \in Clients |-> FALSE]
    /\ shown = [u \in Clients |-> <<>>]
    /\ disturbed = FALSE

Stats(u) ==
    \/ BeginStats(u) \/ ReadSource(u) \/ ReadLatest(u) \/ ShowTable(u) \/ Answer(u)
    \/ ReadForCapture(u) \/ Connect(u) \/ CaptureTable(u) \/ CaptureDone(u) \/ CaptureFails(u)

Next ==
    \/ create_config \/ update_config \/ delete_config \/ CleanUp
    \/ \E u \in Clients : Stats(u)
    \/ Tick \/ Restart

Spec == Init /\ [][Next]_vars

-----------------------------------------------------------------------------
(* What is promised about a dashboard.                                         *)

\* Every variable has its type; no snapshot is from the future.
DashTypeOK ==
    /\ now \in Times
    /\ present \in BOOLEAN /\ disturbed \in BOOLEAN
    /\ config \in Configs \cup {NoConfig}
    /\ \A s \in snapshots : s.table \in Tables /\ s.at \in 0..now
    /\ deletion \in {"none", "half", "cut", "done"}
    /\ overlapped \in BOOLEAN
    /\ pc \in [Clients -> PCs]
    /\ healthy \in [Clients -> BOOLEAN]
    /\ own \in [Clients -> Configs \cup {NoConfig}]
    /\ since \in [Clients -> Int]
    /\ plan \in [Clients -> Seq(Tables)]
    /\ \A u \in Clients : done[u] \in 0..Len(plan[u])
    /\ stamp \in [Clients -> {Never} \cup 0..now]
    /\ shown \in [Clients -> Seq(Int)]
    /\ \A u \in Clients : Len(shown[u]) <= Len(own[u].tables)

\* Once a configuration and its snapshots have been deleted, no snapshot of it
\* is left and none comes, unless a capture was in progress: that one had read
\* the configuration and goes on inserting.
NoOrphansUnlessOverlapped ==
    deletion = "done" /\ ~overlapped => snapshots = {}

\* A healthy answer after a capture shows no table it captured older than the
\* capture, whatever other captures are in progress.
CaptureIsShown ==
    \A u \in Clients :
        pc[u] = "answered" /\ stamp[u] # Never /\ deletion = "none" =>
            \A i \in DOMAIN shown[u] :
                own[u].tables[i] \in Names(plan[u]) => shown[u][i] >= stamp[u]

\* A healthy answer without a capture shows no table older than the interval,
\* unless a capture failed, requests overlapped or it was reconfigured: the
\* one snapshot it looks at then says nothing about the other tables.
FreshUnlessDisturbed ==
    \A u \in Clients :
        pc[u] = "answered" /\ healthy[u] /\ ~disturbed =>
            \A i \in DOMAIN shown[u] : shown[u][i] >= since[u]
=============================================================================

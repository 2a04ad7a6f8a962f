--------------------------- MODULE DashboardsProofs ---------------------------
(* Proofs about Dashboards, for every set of clients, any tables and           *)
(* configurations, and any instants.                                           *)
EXTENDS Dashboards, WellFoundedInduction, SequenceTheorems, TLAPS

-----------------------------------------------------------------------------
(* The newest of some snapshots.                                               *)

\* Instants are numbers up to now, so that a set of snapshots has a newest one.
LEMMA NewestExists ==
    ASSUME NEW set, NEW n \in Nat, \A s \in set : s.at \in 0..n
    PROVE  /\ Newest(set) \in {Never} \cup 0..n
           /\ \A s \in set : s.at <= Newest(set)
           /\ set # {} => \E s \in set : s.at = Newest(set)
<1>1. CASE set = {}
  BY <1>1 DEF Newest
<1>2. CASE set # {}
  <2> DEFINE Ages == {n - s.at : s \in set}
  <2>1. Ages \in SUBSET Nat /\ Ages # {}
    BY <1>2
  <2>2. PICK age \in Ages : \A a \in Ages : ~(<<a, age>> \in OpToRel(<, Nat))
    BY <2>1, NatLessThanWellFounded, WFMin
  <2>3. PICK old \in set : age = n - old.at
    BY <2>2
  <2>4. ASSUME NEW s \in set PROVE s.at <= old.at
    <3>1. n - s.at \in Ages /\ n - s.at \in Nat /\ n - old.at \in Nat
      BY <2>1, <2>3
    <3>2. ~(n - s.at < n - old.at)
      BY <2>2, <2>3, <3>1 DEF OpToRel
    <3> QED BY <3>2
  <2>5. Newest(set) = CHOOSE at \in {s.at : s \in set} : \A s \in set : s.at <= at
    BY <1>2 DEF Newest
  <2>6. Newest(set) \in {s.at : s \in set} /\ \A s \in set : s.at <= Newest(set)
    BY <2>4, <2>5
  <2> QED BY <2>6
<1> QED BY <1>1, <1>2

-----------------------------------------------------------------------------
(* Types, and what a request holds at each place.                              *)

Shape(u) ==
    /\ pc[u] \in {"idle", "reading", "checking", "capturing", "connecting"} =>
         done[u] = 0 /\ stamp[u] = Never /\ shown[u] = <<>>
    /\ pc[u] = "gathering" => stamp[u] # Never /\ shown[u] = <<>>

DashTypes ==
    /\ DashTypeOK
    /\ done \in [Clients -> Nat]
    /\ present => config \in Configs
    /\ \A u \in Clients : Shape(u)

LEMMA TableLists ==
    /\ \A c \in Configs \cup {NoConfig} : c.tables \in Seq(Tables) /\ Len(c.tables) \in Nat
    /\ NoConfig \notin Configs
    /\ \A c \in Configs : c.interval \in Int /\ c.interval > 0
<1>1. NoConfig.tables = <<>> /\ <<>> \in Seq(Tables) /\ NoConfig.interval = 0
  BY EmptySeq DEF NoConfig
<1>2. \A c \in Configs : c.tables \in Seq(Tables) /\ c.interval \in Int /\ c.interval > 0
  BY DashboardAssumption
<1>3. \A c \in Configs \cup {NoConfig} : c.tables \in Seq(Tables)
  BY <1>1, <1>2
<1>4. \A c \in Configs \cup {NoConfig} : Len(c.tables) \in Nat
  BY <1>3, LenProperties
<1>5. NoConfig \notin Configs
  BY <1>1, <1>2
<1> QED BY <1>2, <1>3, <1>4, <1>5

LEMMA NewestTypes ==
    ASSUME DashTypes, NEW t
    PROVE  /\ now \in Nat
           /\ NewestOf(t) \in Int /\ Newest(snapshots) \in Int
           /\ \A s \in snapshots : s.at <= Newest(snapshots) /\ s.at \in Int
           /\ \A s \in snapshots : s.table = t => s.at <= NewestOf(t)
           /\ snapshots # {} => \E s \in snapshots : s.at = Newest(snapshots)
<1>1. now \in Nat /\ \A s \in snapshots : s.at \in 0..now
  BY DashboardAssumption DEF DashTypes, DashTypeOK
<1>2. \A s \in {s \in snapshots : s.table = t} : s.at \in 0..now
  BY <1>1
<1> QED BY <1>1, <1>2, NewestExists DEF NewestOf, Never

LEMMA DashTypesInit == Init => DashTypes
<1> SUFFICES ASSUME Init PROVE DashTypes
  OBVIOUS
<1>1. Len(<<>>) = 0 /\ <<>> \in Seq(Tables) /\ <<>> \in Seq(Int)
  BY EmptySeq
<1>2. \A u \in Clients : shown[u] = <<>> /\ plan[u] = <<>> /\ own[u].tables = <<>>
  BY DEF Init, NoConfig
<1>3. /\ now \in Times /\ present \in BOOLEAN /\ disturbed \in BOOLEAN /\ snapshots = {}
      /\ config \in Configs \cup {NoConfig} /\ overlapped \in BOOLEAN
      /\ deletion \in {"none", "half", "cut", "done"}
  BY DashboardAssumption DEF Init
<1>4. /\ pc \in [Clients -> PCs] /\ healthy \in [Clients -> BOOLEAN]
      /\ own \in [Clients -> Configs \cup {NoConfig}] /\ since \in [Clients -> Int]
      /\ plan \in [Clients -> Seq(Tables)] /\ stamp \in [Clients -> {Never} \cup 0..now]
      /\ shown \in [Clients -> Seq(Int)] /\ done \in [Clients -> Nat]
  BY <1>1 DEF Init, PCs
<1>5. \A u \in Clients : done[u] \in 0..Len(plan[u]) /\ Len(shown[u]) <= Len(own[u].tables)
  <2>1. \A u \in Clients : done[u] = 0 /\ Len(plan[u]) = 0 /\ Len(shown[u]) = 0
                           /\ Len(own[u].tables) = 0
    BY <1>1, <1>2 DEF Init
  <2>2. 0 \in 0..0 /\ 0 <= 0
    OBVIOUS
  <2> QED BY <2>1, <2>2, Zenon
<1>6. DashTypeOK
  BY <1>3, <1>4, <1>5 DEF DashTypeOK
<1> QED BY <1>4, <1>6 DEF Init, DashTypes, Shape

\* A step of a request that touches neither the configuration nor the clock.
LEMMA DashTypesStats ==
    ASSUME DashTypes, NEW u \in Clients, Stats(u)
    PROVE  DashTypes'
<1> USE DEF DashTypes, DashTypeOK, Shape
<1>0. now \in Nat /\ Len(<<>>) = 0 /\ <<>> \in Seq(Tables) /\ <<>> \in Seq(Int)
  BY DashboardAssumption, EmptySeq
<1>1. CASE BeginStats(u)
  <2>1. \A v \in Clients : Len(own[v].tables) \in Nat
    BY TableLists
  <2>2. Len(config.tables) \in Nat /\ disturbed' \in BOOLEAN
    BY <1>1, TableLists, Zenon DEF BeginStats
  <2>3. \A v \in Clients \ {u} :
          /\ pc'[v] = pc[v] /\ own'[v] = own[v] /\ plan'[v] = plan[v] /\ done'[v] = done[v]
          /\ stamp'[v] = stamp[v] /\ shown'[v] = shown[v]
    BY <1>1 DEF BeginStats, Goto
  <2>4. /\ pc'[u] = "reading" /\ own'[u] = config /\ plan'[u] = <<>> /\ done'[u] = 0
        /\ stamp'[u] = Never /\ shown'[u] = <<>>
    BY <1>1 DEF BeginStats, Goto
  <2>5. UNCHANGED <<now, present, config, snapshots, deletion, overlapped>>
    BY <1>1 DEF BeginStats, dbVars
  <2>6. /\ pc' \in [Clients -> PCs] /\ healthy' \in [Clients -> BOOLEAN]
        /\ own' \in [Clients -> Configs \cup {NoConfig}] /\ since' \in [Clients -> Int]
        /\ plan' \in [Clients -> Seq(Tables)] /\ stamp' \in [Clients -> {Never} \cup 0..now]
        /\ shown' \in [Clients -> Seq(Int)] /\ done' \in [Clients -> Nat]
    BY <1>0, <1>1 DEF BeginStats, Goto, PCs, Busy
  <2>7. \A v \in Clients : /\ done'[v] \in 0..Len(plan'[v])
                           /\ Len(shown'[v]) <= Len(own'[v].tables)
                           /\ Shape(v)'
    <3>1. /\ done'[u] \in 0..Len(plan'[u]) /\ Len(shown'[u]) <= Len(own'[u].tables)
          /\ Shape(u)'
      BY <1>0, <2>2, <2>4
    <3>2. ASSUME NEW v \in Clients \ {u}
          PROVE  /\ done'[v] \in 0..Len(plan'[v]) /\ Len(shown'[v]) <= Len(own'[v].tables)
                 /\ Shape(v)'
      BY <2>3
    <3> QED BY <3>1, <3>2
  <2> HIDE DEF Shape
  <2> QED BY <2>2, <2>5, <2>6, <2>7
<1>2. CASE ReadSource(u)
  <2>1. \A v \in Clients : own[v].interval \in Int
    BY TableLists DEF NoConfig
  <2>2. since' \in [Clients -> Int] /\ pc' \in [Clients -> PCs]
    <3>1. now - own[u].interval \in Int
      BY <1>0, <2>1
    <3>2. since' = since \/ since' = [since EXCEPT ![u] = now - own[u].interval]
      BY <1>2 DEF ReadSource
    <3>3. pc' \in [Clients -> PCs]
      BY <1>2 DEF ReadSource, Goto, PCs, Busy
    <3> QED BY <3>1, <3>2, <3>3
  <2>3. \A v \in Clients : Shape(v)'
    BY <1>2 DEF ReadSource, Goto, captureVars
  <2> HIDE DEF Shape
  <2> QED BY <1>2, <2>2, <2>3 DEF ReadSource, dbVars, captureVars
<1>3. CASE ReadLatest(u)
  BY <1>3 DEF ReadLatest, Goto, PCs, Busy, dbVars, captureVars, answerVars
<1>4. CASE ShowTable(u)
  <2>1. /\ Len(own[u].tables) \in Nat /\ shown[u] \in Seq(Int) /\ Len(shown[u]) \in Nat
        /\ \A t : NewestOf(t) \in Int
    BY TableLists, NewestTypes, LenProperties
  <2>2. PICK at \in Int : shown' = [shown EXCEPT ![u] = Append(@, at)]
    BY <1>4, <2>1 DEF ShowTable
  <2>3. Append(shown[u], at) \in Seq(Int) /\ Len(Append(shown[u], at)) = Len(shown[u]) + 1
    BY <2>1, AppendProperties
  <2> QED BY <1>4, <2>1, <2>2, <2>3 DEF ShowTable, dbVars, captureVars, answerVars
<1>5. CASE Answer(u) \/ CaptureDone(u)
  <2>1. pc' \in [Clients -> PCs] /\ healthy' \in [Clients -> BOOLEAN]
    BY <1>5 DEF Answer, CaptureDone, Goto, PCs, Busy
  <2>2. \A v \in Clients : Shape(v)'
    BY <1>5 DEF Answer, CaptureDone, Goto, captureVars
  <2> HIDE DEF Shape
  <2> QED BY <1>5, <2>1, <2>2 DEF Answer, CaptureDone, dbVars, captureVars, answerVars
<1>6. CASE ReadForCapture(u)
  <2>1. config.tables \in Seq(Tables) /\ Len(config.tables) \in Nat
    BY TableLists
  <2> QED BY <1>6, <2>1 DEF ReadForCapture, Goto, PCs, Busy, dbVars, answerVars
<1>7. CASE Connect(u)
  BY <1>0, <1>7 DEF Connect, Goto, PCs, Busy, Never, dbVars, answerVars
<1>8. CASE CaptureTable(u)
  <2>1. done[u] + 1 \in 1..Len(plan[u]) /\ plan[u] \in Seq(Tables) /\ Len(plan[u]) \in Nat
    BY <1>8, LenProperties DEF CaptureTable
  <2>2. plan[u][done[u] + 1] \in Tables /\ stamp[u] \in 0..now
    BY <1>8, <2>1, ElementOfSeq DEF CaptureTable
  <2>3. snapshots' = snapshots \cup {[table |-> plan[u][done[u] + 1], at |-> stamp[u]]}
    BY <1>8 DEF CaptureTable
  <2>4. \A s \in snapshots' : s.table \in Tables /\ s.at \in 0..now
    BY <2>2, <2>3
  <2>5. /\ done' = [done EXCEPT ![u] = done[u] + 1] /\ pc[u] = "gathering"
        /\ UNCHANGED <<now, present, config, deletion, overlapped, pc, plan, stamp,
                       answerVars, healthy, shown, disturbed>>
    BY <1>8 DEF CaptureTable
  <2> QED BY <2>1, <2>4, <2>5 DEF answerVars
<1>9. CASE CaptureFails(u)
  BY <1>0, <1>9 DEF CaptureFails, Goto, PCs, Busy, dbVars, answerVars
<1> QED BY <1>1, <1>2, <1>3, <1>4, <1>5, <1>6, <1>7, <1>8, <1>9 DEF Stats

LEMMA DashTypesStep == DashTypes /\ [Next]_vars => DashTypes'
<1> SUFFICES ASSUME DashTypes, [Next]_vars PROVE DashTypes'
  OBVIOUS
<1> USE DEF DashTypes, DashTypeOK
<1>0. now \in Nat /\ \A t \in Times : t \in Nat
  BY DashboardAssumption
<1>1. ASSUME UNCHANGED <<pc, captureVars, answerVars, healthy, shown>>
      PROVE  \A u \in Clients : Shape(u)'
  BY <1>1 DEF Shape, captureVars
<1>2. CASE create_config \/ update_config \/ delete_config
  <2>1. /\ config' \in Configs \cup {NoConfig} /\ present' \in BOOLEAN
        /\ present' => config' \in Configs
        /\ overlapped' \in BOOLEAN /\ disturbed' \in BOOLEAN
        /\ deletion' \in {"none", "half", "cut", "done"}
    BY <1>2 DEF create_config, update_config, delete_config
  <2>2. UNCHANGED <<now, snapshots, pc, captureVars, answerVars, healthy, shown>>
    BY <1>2 DEF create_config, update_config, delete_config
  <2> QED BY <1>1, <2>1, <2>2 DEF captureVars, answerVars
<1>3. CASE CleanUp
  BY <1>1, <1>3 DEF CleanUp, captureVars, answerVars
<1>4. CASE Tick
  <2>1. now' \in Times /\ now' > now /\ 0..now \subseteq 0..now'
    BY <1>0, <1>4 DEF Tick
  <2>2. UNCHANGED <<dbVars, pc, captureVars, answerVars, healthy, shown, disturbed>>
    BY <1>4 DEF Tick
  <2>3. \A s \in snapshots' : s.table \in Tables /\ s.at \in 0..now'
    BY <2>1, <2>2 DEF dbVars
  <2>4. stamp' \in [Clients -> {Never} \cup 0..now']
    <3>1. {Never} \cup 0..now \subseteq {Never} \cup 0..now'
      BY <2>1
    <3>2. stamp' = stamp
      BY <2>2 DEF captureVars
    <3> QED BY <3>1, <3>2
  <2> QED BY <1>1, <2>1, <2>2, <2>3, <2>4 DEF dbVars, captureVars, answerVars
<1>5. CASE Restart
  <2>0. Len(<<>>) = 0 /\ <<>> \in Seq(Tables) /\ <<>> \in Seq(Int)
    BY EmptySeq
  <2>1. /\ pc' \in [Clients -> PCs] /\ healthy' \in [Clients -> BOOLEAN]
        /\ own' \in [Clients -> Configs \cup {NoConfig}] /\ since' \in [Clients -> Int]
        /\ plan' \in [Clients -> Seq(Tables)] /\ stamp' \in [Clients -> {Never} \cup 0..now]
        /\ shown' \in [Clients -> Seq(Int)] /\ done' \in [Clients -> Nat]
    <3>1. NoConfig \in Configs \cup {NoConfig} /\ Never \in {Never} \cup 0..now
      OBVIOUS
    <3>2. pc' \in [Clients -> PCs] /\ healthy' \in [Clients -> BOOLEAN]
      BY <1>5 DEF Restart, Lost, PCs
    <3>3. own' \in [Clients -> Configs \cup {NoConfig}] /\ since' \in [Clients -> Int]
      BY <1>5, <3>1 DEF Restart, Lost
    <3>4. plan' \in [Clients -> Seq(Tables)] /\ stamp' \in [Clients -> {Never} \cup 0..now]
      BY <1>5, <2>0, <3>1 DEF Restart, Lost
    <3>5. shown' \in [Clients -> Seq(Int)] /\ done' \in [Clients -> Nat]
      BY <1>5, <2>0 DEF Restart, Lost
    <3> QED BY <3>2, <3>3, <3>4, <3>5
  <2>2. ASSUME NEW u \in Clients
        PROVE  /\ done'[u] \in 0..Len(plan'[u]) /\ Len(shown'[u]) <= Len(own'[u].tables)
               /\ Shape(u)'
    <3>1. CASE pc[u] \in Busy
      <4>1. /\ pc'[u] = "refused" /\ done'[u] = 0 /\ Len(plan'[u]) = 0
            /\ Len(shown'[u]) = 0 /\ Len(own'[u].tables) = 0
        BY <1>5, <2>0, <3>1 DEF Restart, Lost, NoConfig
      <4>2. 0 \in 0..0 /\ 0 <= 0
        OBVIOUS
      <4>3. done'[u] \in 0..Len(plan'[u]) /\ Len(shown'[u]) <= Len(own'[u].tables)
        BY <4>1, <4>2, Zenon
      <4> QED BY <4>1, <4>3 DEF Shape
    <3>2. CASE pc[u] \notin Busy
      <4>1. /\ pc'[u] = pc[u] /\ done'[u] = done[u] /\ plan'[u] = plan[u]
            /\ shown'[u] = shown[u] /\ own'[u] = own[u] /\ stamp'[u] = stamp[u]
        BY <1>5, <3>2 DEF Restart, Lost
      <4> QED BY <4>1 DEF Shape
    <3> QED BY <3>1, <3>2
  <2>3. deletion' \in {"none", "half", "cut", "done"} /\ disturbed' \in BOOLEAN
    BY <1>5 DEF Restart
  <2> QED BY <1>5, <2>1, <2>2, <2>3 DEF Restart
<1>6. CASE UNCHANGED vars
  <2>1. \A u \in Clients : Shape(u)'
    BY <1>1, <1>6 DEF vars
  <2> QED BY <1>6, <2>1 DEF vars, dbVars, captureVars, answerVars
<1> QED BY <1>2, <1>3, <1>4, <1>5, <1>6, DashTypesStats DEF Next

\* Every variable has its type, and no snapshot is from the future.
THEOREM DashTypesCorrect == Spec => []DashTypeOK
<1>1. DashTypes => DashTypeOK
  BY DEF DashTypes
<1> QED BY <1>1, DashTypesInit, DashTypesStep, PTL DEF Spec

-----------------------------------------------------------------------------
(* Deletion.                                                                   *)

\* A deletion is of a configuration that is not there any more and never comes
\* back, and no capture outlives it that was not in progress then.
OrphanInv ==
    /\ present => config # NoConfig
    /\ deletion # "none" => ~present /\ config # NoConfig
    /\ deletion # "none" /\ ~overlapped =>
         \A u \in Clients : pc[u] \notin {"connecting", "gathering"}
    /\ deletion = "done" /\ ~overlapped => snapshots = {}

LEMMA OrphanInvStep == DashTypes /\ OrphanInv /\ [Next]_vars => OrphanInv'
<1> SUFFICES ASSUME DashTypes, OrphanInv, [Next]_vars PROVE OrphanInv'
  OBVIOUS
<1> USE DEF OrphanInv
<1>0. pc \in [Clients -> PCs]
  BY DEF DashTypes, DashTypeOK
<1>1. CASE create_config \/ update_config
  <2>1. NoConfig \notin Configs
    BY TableLists
  <2>2. /\ present' /\ config' # NoConfig /\ deletion = "none"
        /\ UNCHANGED <<snapshots, deletion, overlapped, pc>>
    <3>1. CASE create_config
      <4>1. config'.tables # <<>> /\ NoConfig.tables = <<>>
        BY <3>1 DEF create_config, NoConfig
      <4> QED BY <3>1, <4>1 DEF create_config
    <3>2. CASE update_config
      BY <2>1, <3>2 DEF update_config
    <3> QED BY <1>1, <3>1, <3>2
  <2> QED BY <2>2
<1>2. CASE delete_config
  <2>1. /\ ~present' /\ config' = config /\ config # NoConfig /\ deletion' = "half" /\ pc' = pc
        /\ overlapped' = \E u \in Clients : pc[u] \in {"connecting", "gathering"}
    BY <1>2 DEF delete_config
  <2>2. ~overlapped' => \A u \in Clients : pc'[u] \notin {"connecting", "gathering"}
    BY <2>1, Zenon
  <2> QED BY <2>1, <2>2
<1>3. CASE CleanUp \/ Tick \/ UNCHANGED vars
  BY <1>3 DEF CleanUp, Tick, vars, dbVars
<1>4. CASE Restart
  <2>1. \A u \in Clients : pc'[u] \in {"connecting", "gathering"} => pc'[u] = pc[u]
    BY <1>4 DEF Restart, Lost
  <2>2. /\ deletion' = (IF deletion = "half" THEN "cut" ELSE deletion)
        /\ UNCHANGED <<present, config, snapshots, overlapped>>
    BY <1>4 DEF Restart
  <2> QED BY <2>1, <2>2
<1>5. ASSUME NEW u \in Clients, Stats(u) PROVE OrphanInv'
  <2>1. UNCHANGED <<present, config, deletion, overlapped>>
    BY <1>5 DEF Stats, BeginStats, ReadSource, ReadLatest, ShowTable, Answer, ReadForCapture,
                Connect, CaptureTable, CaptureDone, CaptureFails, dbVars
  <2>2. \A v \in Clients \ {u} : pc'[v] = pc[v]
    BY <1>0, <1>5 DEF Stats, BeginStats, ReadSource, ReadLatest, ShowTable, Answer,
                ReadForCapture, Connect, CaptureTable, CaptureDone, CaptureFails, Goto
  <2>3. pc'[u] \in {"connecting", "gathering"} =>
          pc[u] \in {"connecting", "gathering"} \/ present
    BY <1>0, <1>5 DEF Stats, BeginStats, ReadSource, ReadLatest, ShowTable, Answer,
                ReadForCapture, Connect, CaptureTable, CaptureDone, CaptureFails, Goto
  <2>4. snapshots' = snapshots \/ pc[u] = "gathering"
    BY <1>5 DEF Stats, BeginStats, ReadSource, ReadLatest, ShowTable, Answer, ReadForCapture,
                Connect, CaptureTable, CaptureDone, CaptureFails, dbVars
  <2> QED BY <2>1, <2>2, <2>3, <2>4
<1> QED BY <1>1, <1>2, <1>3, <1>4, <1>5 DEF Next

\* After a deletion that no capture overlapped no snapshot is left and none
\* comes, whatever requests there are and wherever the server stops.
THEOREM DeletionLeavesNoOrphans == Spec => []NoOrphansUnlessOverlapped
<1>1. Init => OrphanInv
  BY DEF Init, OrphanInv
<1>2. OrphanInv => NoOrphansUnlessOverlapped
  BY DEF OrphanInv, NoOrphansUnlessOverlapped
<1> QED BY <1>1, <1>2, OrphanInvStep, DashTypesInit, DashTypesStep, PTL DEF Spec

-----------------------------------------------------------------------------
(* What a capture leaves for its answer.                                       *)

Snapshot(t, at) == [table |-> t, at |-> at]

\* A capture has inserted the snapshots of its tables so far, all with its own
\* time; an answer after it shows none of them older.
CaptureInv(u) ==
    /\ pc[u] = "gathering" =>
         \A i \in 1..done[u] : Snapshot(plan[u][i], stamp[u]) \in snapshots
    /\ pc[u] \in {"showing", "answered"} /\ stamp[u] # Never =>
         /\ \A t \in Names(plan[u]) : Snapshot(t, stamp[u]) \in snapshots
         /\ \A i \in DOMAIN shown[u] :
              own[u].tables[i] \in Names(plan[u]) => shown[u][i] >= stamp[u]

\* What a request holds.
Kept(u) ==
    /\ pc'[u] = pc[u] /\ own'[u] = own[u] /\ since'[u] = since[u] /\ plan'[u] = plan[u]
    /\ done'[u] = done[u] /\ stamp'[u] = stamp[u] /\ healthy'[u] = healthy[u]
    /\ shown'[u] = shown[u]

LEMMA OthersKept ==
    ASSUME DashTypes, NEW u \in Clients, Stats(u)
    PROVE  \A v \in Clients \ {u} : Kept(v)
<1> USE DEF DashTypes, DashTypeOK, Kept, Goto
<1>1. CASE BeginStats(u) \/ ReadSource(u) \/ ReadLatest(u)
  BY <1>1 DEF BeginStats, ReadSource, ReadLatest, captureVars, answerVars
<1>2. CASE ShowTable(u) \/ Answer(u) \/ ReadForCapture(u) \/ Connect(u)
  BY <1>2 DEF ShowTable, Answer, ReadForCapture, Connect, captureVars, answerVars
<1>3. CASE CaptureTable(u) \/ CaptureDone(u) \/ CaptureFails(u)
  BY <1>3 DEF CaptureTable, CaptureDone, CaptureFails, captureVars, answerVars
<1> QED BY <1>1, <1>2, <1>3 DEF Stats

LEMMA SnapshotsGrow ==
    ASSUME DashTypes, NEW u \in Clients, Stats(u)
    PROVE  snapshots \subseteq snapshots'
  BY DEF Stats, BeginStats, ReadSource, ReadLatest, ShowTable, Answer, ReadForCapture,
         Connect, CaptureTable, CaptureDone, CaptureFails, dbVars

LEMMA CaptureInvKept ==
    ASSUME NEW u \in Clients, CaptureInv(u), Kept(u), snapshots \subseteq snapshots'
    PROVE  CaptureInv(u)'
  BY DEF CaptureInv, Kept, Names, Snapshot

LEMMA CaptureInvStats ==
    ASSUME DashTypes, NEW u \in Clients, CaptureInv(u), Stats(u)
    PROVE  CaptureInv(u)'
<1>0. /\ pc \in [Clients -> PCs] /\ done \in [Clients -> Nat] /\ stamp[u] \in Int
      /\ shown[u] \in Seq(Int) /\ Shape(u) /\ plan[u] \in Seq(Tables) /\ done[u] \in 0..Len(plan[u])
      /\ stamp \in [Clients -> {Never} \cup 0..now]
  BY DashboardAssumption DEF DashTypes, DashTypeOK, Never
<1>1. CASE BeginStats(u) \/ ReadSource(u) \/ ReadForCapture(u)
  <2>1. pc'[u] \notin {"gathering", "showing", "answered"}
    BY <1>0, <1>1 DEF BeginStats, ReadSource, ReadForCapture, Goto
  <2> QED BY <2>1 DEF CaptureInv
<1>2. CASE ReadLatest(u)
  <2>1. stamp'[u] = Never /\ pc'[u] # "gathering"
    BY <1>0, <1>2 DEF ReadLatest, Goto, captureVars, Shape
  <2> QED BY <2>1 DEF CaptureInv
<1>3. CASE ShowTable(u)
  <2> DEFINE t == own[u].tables[Len(shown[u]) + 1]
  <2>1. /\ pc[u] = "showing" /\ UNCHANGED <<pc, plan, stamp, own, snapshots>>
        /\ shown'[u] = Append(shown[u], NewestOf(t))
    BY <1>3 DEF ShowTable, captureVars, answerVars, dbVars, DashTypes, DashTypeOK
  <2>2. /\ NewestOf(t) \in Int
        /\ \A s \in snapshots : s.table = t => s.at <= NewestOf(t)
    BY NewestTypes
  <2>3. /\ Len(shown[u]) \in Nat
        /\ DOMAIN shown[u] = 1..Len(shown[u])
        /\ DOMAIN Append(shown[u], NewestOf(t)) = 1..(Len(shown[u]) + 1)
        /\ \A i \in 1..Len(shown[u]) : Append(shown[u], NewestOf(t))[i] = shown[u][i]
        /\ Append(shown[u], NewestOf(t))[Len(shown[u]) + 1] = NewestOf(t)
    BY <1>0, <2>2, AppendProperties, LenProperties
  <2> SUFFICES ASSUME stamp[u] # Never, NEW i \in 1..(Len(shown[u]) + 1),
                      own[u].tables[i] \in Names(plan[u])
               PROVE  Append(shown[u], NewestOf(t))[i] >= stamp[u]
    BY <2>1, <2>3 DEF CaptureInv, Names
  <2>4. CASE i \in 1..Len(shown[u])
    BY <2>1, <2>3, <2>4 DEF CaptureInv
  <2>5. CASE i = Len(shown[u]) + 1
    <3>1. Snapshot(t, stamp[u]) \in snapshots
      BY <2>1, <2>5 DEF CaptureInv
    <3>2. stamp[u] <= NewestOf(t)
      BY <2>2, <3>1 DEF Snapshot
    <3> QED BY <1>0, <2>2, <2>3, <2>5, <3>2
  <2> QED BY <2>3, <2>4, <2>5
<1>4. CASE Answer(u)
  BY <1>0, <1>4 DEF Answer, Goto, captureVars, answerVars, dbVars, CaptureInv, Names, Snapshot
<1>5. CASE Connect(u)
  <2>1. pc'[u] = "gathering" /\ done'[u] = 0
    BY <1>0, <1>5 DEF Connect, Goto, Shape
  <2> QED BY <2>1 DEF CaptureInv
<1>6. CASE CaptureTable(u)
  <2>1. /\ pc[u] = "gathering" /\ UNCHANGED <<pc, plan, stamp>> /\ done'[u] = done[u] + 1
        /\ snapshots' = snapshots \cup {Snapshot(plan[u][done[u] + 1], stamp[u])}
    BY <1>0, <1>6 DEF CaptureTable, Snapshot
  <2>2. \A i \in 1..done'[u] : i \in 1..done[u] \/ i = done[u] + 1
    BY <1>0, <2>1
  <2> QED BY <2>1, <2>2 DEF CaptureInv, Snapshot
<1>7. CASE CaptureDone(u)
  <2>1. /\ pc[u] = "gathering" /\ done[u] = Len(plan[u]) /\ pc'[u] = "showing"
        /\ UNCHANGED <<plan, stamp, snapshots, shown, own>>
    BY <1>0, <1>7 DEF CaptureDone, Goto, captureVars, answerVars, dbVars
  <2>2. DOMAIN plan[u] = 1..done[u] /\ shown[u] = <<>> /\ DOMAIN shown[u] = {}
    BY <1>0, <2>1, LenProperties, EmptySeq DEF Shape
  <2> QED BY <2>1, <2>2 DEF CaptureInv, Names, Snapshot
<1>8. CASE CaptureFails(u)
  <2>1. pc'[u] = "showing" /\ stamp'[u] = Never
    BY <1>0, <1>8 DEF CaptureFails, Goto
  <2> QED BY <2>1 DEF CaptureInv
<1> QED BY <1>1, <1>2, <1>3, <1>4, <1>5, <1>6, <1>7, <1>8 DEF Stats

CapturesInv == deletion = "none" => \A u \in Clients : CaptureInv(u)

LEMMA CapturesInvStep == DashTypes /\ OrphanInv /\ CapturesInv /\ [Next]_vars => CapturesInv'
<1> SUFFICES ASSUME DashTypes, OrphanInv, CapturesInv, [Next]_vars, deletion' = "none"
             PROVE  \A u \in Clients : CaptureInv(u)'
  BY DEF CapturesInv
<1>1. CASE Restart
  <2>1. deletion = "none" /\ snapshots' = snapshots
    BY <1>1 DEF Restart
  <2>2. ASSUME NEW u \in Clients PROVE CaptureInv(u)'
    <3>1. CASE pc[u] \in Busy
      <4>1. pc'[u] = "refused"
        BY <1>1, <3>1 DEF Restart, Lost
      <4> QED BY <4>1 DEF CaptureInv
    <3>2. CASE pc[u] \notin Busy
      <4>1. Kept(u)
        BY <1>1, <3>2 DEF Restart, Lost, Kept
      <4> QED BY <2>1, <4>1, CaptureInvKept DEF CapturesInv
    <3> QED BY <3>1, <3>2
  <2> QED BY <2>2
<1>2. CASE create_config \/ update_config \/ delete_config \/ CleanUp \/ Tick \/ UNCHANGED vars
  <2>1. /\ deletion = "none" /\ snapshots' = snapshots
        /\ UNCHANGED <<pc, captureVars, answerVars, healthy, shown>>
    BY <1>2 DEF create_config, update_config, delete_config, CleanUp, Tick, vars, dbVars
  <2>2. \A u \in Clients : Kept(u)
    BY <2>1 DEF captureVars, answerVars, Kept
  <2> QED BY <2>1, <2>2, CaptureInvKept DEF CapturesInv
<1>3. ASSUME NEW u \in Clients, Stats(u) PROVE \A v \in Clients : CaptureInv(v)'
  <2>1. deletion = "none"
    BY <1>3 DEF Stats, BeginStats, ReadSource, ReadLatest, ShowTable, Answer, ReadForCapture,
                Connect, CaptureTable, CaptureDone, CaptureFails, dbVars
  <2> QED BY <1>3, <2>1, OthersKept, SnapshotsGrow, CaptureInvKept, CaptureInvStats
          DEF CapturesInv
<1> QED BY <1>1, <1>2, <1>3 DEF Next

\* The answer after a capture shows what it captured or something newer,
\* whatever other captures are in progress.
THEOREM CapturesAreShown == Spec => []CaptureIsShown
<1>1. Init => OrphanInv /\ CapturesInv
  BY DEF Init, OrphanInv, CapturesInv, CaptureInv
<1>2. CapturesInv => CaptureIsShown
  BY DEF CapturesInv, CaptureInv, CaptureIsShown
<1> QED BY <1>1, <1>2, CapturesInvStep, OrphanInvStep, DashTypesInit, DashTypesStep, PTL
        DEF Spec

-----------------------------------------------------------------------------
(* How old an answer without a capture may be.                                 *)

\* Every table monitored now has a snapshot as new as this.
Complete(at) == \A t \in Names(config.tables) : \E s \in snapshots : s.table = t /\ s.at >= at

\* While nothing disturbs it, one request at a time works on the configuration
\* as it is; the one snapshot it looks at stands for all tables, but for those
\* of a capture that is not over.
FreshInv ==
    /\ deletion = "none"
    /\ config = NoConfig => snapshots = {}
    /\ \A u, v \in Clients : pc[u] \in Busy /\ pc[v] \in Busy => u = v
    /\ \A u \in Clients : pc[u] \in Busy => own[u] = config /\ present
    /\ \A s \in snapshots :
         Complete(s.at) \/ \E u \in Clients : pc[u] = "gathering" /\ stamp[u] = s.at

\* What it means for one request.
FreshFor(u) ==
    /\ pc[u] \in Busy \ {"reading"} => since[u] <= now
    /\ pc[u] \in {"connecting", "gathering"} => plan[u] = config.tables
    /\ pc[u] = "gathering" => since[u] <= stamp[u]
    /\ pc[u] = "showing" /\ healthy[u] => Complete(since[u])
    /\ pc[u] \in {"showing", "answered"} /\ healthy[u] =>
         \A i \in DOMAIN shown[u] : shown[u][i] >= since[u]

LEMMA CompleteGrows ==
    ASSUME NEW at, Complete(at), config' = config, snapshots \subseteq snapshots'
    PROVE  Complete(at)'
  BY DEF Complete

LEMMA CompleteOlder ==
    ASSUME DashTypes, NEW a \in Int, NEW b \in Int, b <= a, Complete(a)
    PROVE  Complete(b)
<1> SUFFICES ASSUME NEW t \in Names(config.tables)
             PROVE  \E s \in snapshots : s.table = t /\ s.at >= b
  BY DEF Complete
<1>1. PICK s \in snapshots : s.table = t /\ s.at >= a
  BY DEF Complete
<1>2. s.at \in Int
  BY NewestTypes
<1>3. s.at >= b
  BY <1>1, <1>2
<1> QED BY <1>1, <1>3

LEMMA CaptureCompletes ==
    ASSUME NEW at \in Int,
           \A i \in DOMAIN config.tables : Snapshot(config.tables[i], at) \in snapshots
    PROVE  Complete(at)
<1> SUFFICES ASSUME NEW t \in Names(config.tables)
             PROVE  \E s \in snapshots : s.table = t /\ s.at >= at
  BY DEF Complete
<1>1. Snapshot(t, at) \in snapshots
  BY DEF Names
<1>2. Snapshot(t, at).table = t /\ Snapshot(t, at).at = at /\ at >= at
  BY DEF Snapshot
<1> QED BY <1>1, <1>2, Zenon

LEMMA FreshForKept ==
    ASSUME NEW u \in Clients, FreshFor(u), Kept(u), UNCHANGED config,
           snapshots \subseteq snapshots', now' = now
    PROVE  FreshFor(u)'
  BY CompleteGrows DEF FreshFor, Kept

LEMMA StatsKeep ==
    ASSUME NEW u \in Clients, Stats(u)
    PROVE  UNCHANGED <<now, present, config, deletion, overlapped>>
  BY DEF Stats, BeginStats, ReadSource, ReadLatest, ShowTable, Answer, ReadForCapture,
         Connect, CaptureTable, CaptureDone, CaptureFails, dbVars

LEMMA FreshForStats ==
    ASSUME DashTypes, CapturesInv, FreshInv, NEW u \in Clients, FreshFor(u), Stats(u),
           ~CaptureFails(u)
    PROVE  FreshFor(u)'
<1>0. /\ pc \in [Clients -> PCs] /\ healthy \in [Clients -> BOOLEAN] /\ now \in Nat
      /\ since \in [Clients -> Int] /\ stamp \in [Clients -> {Never} \cup 0..now]
      /\ plan \in [Clients -> Seq(Tables)] /\ shown \in [Clients -> Seq(Int)]
      /\ own \in [Clients -> Configs \cup {NoConfig}] /\ stamp[u] \in Int
  BY DashboardAssumption DEF DashTypes, DashTypeOK, Never
<1>1. /\ UNCHANGED <<now, present, config>>
      /\ \A at : Complete(at) => Complete(at)'
  BY StatsKeep, SnapshotsGrow, CompleteGrows
<1>2. CASE BeginStats(u)
  <2>1. pc'[u] = "reading"
    BY <1>0, <1>2 DEF BeginStats, Goto
  <2> QED BY <2>1 DEF FreshFor
<1>3. CASE ReadSource(u)
  <2>1. own[u] = config /\ config \in Configs
    BY <1>3 DEF ReadSource, FreshInv, Busy, DashTypes
  <2>2. config.interval \in Int /\ config.interval > 0
    BY <2>1, TableLists
  <2>3. pc'[u] = "refused" \/ (pc'[u] = "checking" /\ since'[u] = now - config.interval)
    BY <1>0, <1>3, <2>1 DEF ReadSource, Goto
  <2> QED BY <1>0, <1>1, <2>2, <2>3 DEF FreshFor, Busy
<1>4. CASE ReadLatest(u)
  <2>1. /\ pc[u] = "checking" /\ since' = since /\ shown' = shown /\ since[u] <= now
        /\ shown[u] = <<>> /\ DOMAIN shown[u] = {}
    BY <1>4, EmptySeq DEF ReadLatest, answerVars, FreshFor, Busy, DashTypes, Shape
  <2>2. pc'[u] = "capturing" \/ (pc'[u] = "showing" /\ ~Stale(u))
    BY <1>0, <1>4 DEF ReadLatest, Goto
  <2>3. ASSUME ~Stale(u) PROVE Complete(since[u])
    <3>1. PICK s \in snapshots : s.at = Newest(snapshots) /\ s.at \in Int
      BY <2>3, NewestTypes DEF Stale
    <3>2. s.at >= since[u]
      BY <1>0, <2>3, <3>1 DEF Stale
    <3>3. \A v \in Clients : pc[v] # "gathering"
      BY <2>1 DEF FreshInv, Busy
    <3>4. Complete(s.at)
      BY <3>3 DEF FreshInv
    <3> QED BY <1>0, <3>1, <3>2, <3>4, CompleteOlder
  <2> QED BY <1>1, <2>1, <2>2, <2>3 DEF FreshFor
<1>5. CASE ShowTable(u)
  <2> DEFINE t == own[u].tables[Len(shown[u]) + 1]
  <2>1. /\ pc[u] = "showing" /\ UNCHANGED <<pc, since, healthy, stamp, plan>>
        /\ shown'[u] = Append(shown[u], NewestOf(t))
        /\ own[u] = config /\ config \in Configs
        /\ Len(shown[u]) < Len(own[u].tables)
    BY <1>0, <1>5 DEF ShowTable, captureVars, answerVars, FreshInv, Busy, DashTypes
  <2>2. /\ NewestOf(t) \in Int
        /\ \A s \in snapshots : (s.table = t => s.at <= NewestOf(t)) /\ s.at \in Int
    BY NewestTypes
  <2>3. /\ Len(shown[u]) \in Nat
        /\ DOMAIN shown[u] = 1..Len(shown[u])
        /\ DOMAIN Append(shown[u], NewestOf(t)) = 1..(Len(shown[u]) + 1)
        /\ \A i \in 1..Len(shown[u]) : Append(shown[u], NewestOf(t))[i] = shown[u][i]
        /\ Append(shown[u], NewestOf(t))[Len(shown[u]) + 1] = NewestOf(t)
    BY <1>0, <2>2, AppendProperties, LenProperties
  <2>4. ASSUME healthy[u] PROVE NewestOf(t) >= since[u]
    <3>1. config.tables \in Seq(Tables) /\ Len(config.tables) \in Nat
      BY <2>1, TableLists
    <3>2. Len(shown[u]) + 1 \in DOMAIN config.tables
      BY <2>1, <2>3, <3>1, LenProperties
    <3>3. t \in Names(config.tables)
      BY <2>1, <3>2 DEF Names
    <3>4. PICK s \in snapshots : s.table = t /\ s.at >= since[u]
      BY <2>1, <2>4, <3>3 DEF FreshFor, Complete
    <3> QED BY <1>0, <2>2, <3>4
  <2>5. ASSUME healthy[u], NEW i \in 1..(Len(shown[u]) + 1)
        PROVE  Append(shown[u], NewestOf(t))[i] >= since[u]
    <3>1. i \in 1..Len(shown[u]) \/ i = Len(shown[u]) + 1
      BY <2>3
    <3> QED BY <2>1, <2>3, <2>4, <2>5, <3>1 DEF FreshFor
  <2> QED BY <1>1, <2>1, <2>3, <2>5 DEF FreshFor
<1>6. CASE Answer(u)
  <2>1. /\ pc[u] = "showing" /\ pc'[u] = "answered" /\ UNCHANGED <<since, healthy, shown>>
    BY <1>0, <1>6 DEF Answer, Goto, answerVars
  <2> QED BY <2>1 DEF FreshFor, Busy
<1>7. CASE ReadForCapture(u)
  <2>1. /\ pc[u] = "capturing" /\ pc'[u] = "connecting" /\ since' = since
        /\ plan'[u] = config.tables
    BY <1>0, <1>7 DEF ReadForCapture, Goto, answerVars
  <2> QED BY <1>1, <2>1 DEF FreshFor, Busy
<1>8. CASE Connect(u)
  <2>1. /\ pc[u] = "connecting" /\ pc'[u] = "gathering" /\ since' = since /\ plan' = plan
        /\ stamp'[u] = now
    BY <1>0, <1>8 DEF Connect, Goto, answerVars
  <2> QED BY <1>1, <2>1 DEF FreshFor, Busy
<1>9. CASE CaptureTable(u)
  <2>1. /\ pc[u] = "gathering" /\ UNCHANGED <<pc, since, plan, stamp>>
    BY <1>9 DEF CaptureTable, answerVars
  <2> QED BY <1>1, <2>1 DEF FreshFor, Busy
<1>10. CASE CaptureDone(u)
  <2>1. /\ pc[u] = "gathering" /\ pc'[u] = "showing" /\ done[u] = Len(plan[u])
        /\ UNCHANGED <<since, shown>>
        /\ shown[u] = <<>> /\ DOMAIN shown[u] = {}
        /\ since[u] <= now /\ since[u] <= stamp[u] /\ plan[u] = config.tables
    BY <1>0, <1>10, EmptySeq DEF CaptureDone, Goto, captureVars, answerVars, FreshFor, Busy,
                                 DashTypes, Shape
  <2>2. Complete(since[u])
    <3>1. DOMAIN plan[u] = 1..done[u]
      BY <1>0, <2>1, LenProperties
    <3>2. \A i \in DOMAIN plan[u] : Snapshot(plan[u][i], stamp[u]) \in snapshots
      BY <2>1, <3>1 DEF CapturesInv, FreshInv, CaptureInv
    <3>3. Complete(stamp[u])
      BY <1>0, <2>1, <3>2, CaptureCompletes
    <3> QED BY <1>0, <2>1, <3>3, CompleteOlder
  <2> QED BY <1>1, <2>1, <2>2 DEF FreshFor
<1> QED BY <1>2, <1>3, <1>4, <1>5, <1>6, <1>7, <1>8, <1>9, <1>10 DEF Stats

LEMMA FreshInvStats ==
    ASSUME DashTypes, CapturesInv, FreshInv, NEW u \in Clients, FreshFor(u), Stats(u), ~disturbed'
    PROVE  FreshInv'
<1>0. /\ pc \in [Clients -> PCs] /\ stamp \in [Clients -> {Never} \cup 0..now]
      /\ own \in [Clients -> Configs \cup {NoConfig}] /\ now \in Nat
      /\ plan \in [Clients -> Seq(Tables)] /\ stamp[u] \in Int
  BY DashboardAssumption DEF DashTypes, DashTypeOK, Never
<1>1. /\ UNCHANGED <<now, present, config, deletion>>
      /\ \A at : Complete(at) => Complete(at)'
  BY StatsKeep, SnapshotsGrow, CompleteGrows
<1>2. \A v \in Clients \ {u} : Kept(v)
  BY OthersKept
<1>3. \A v \in Clients \ {u} : pc[v] \notin Busy
  <2>1. CASE BeginStats(u)
    <3>1. ~(disturbed \/ \E v \in Clients : pc[v] \in Busy)
      BY <2>1, Zenon DEF BeginStats
    <3> QED BY <3>1
  <2>2. CASE ~BeginStats(u)
    <3>1. pc[u] \in Busy
      BY <2>2 DEF Stats, ReadSource, ReadLatest, ShowTable, Answer, ReadForCapture,
                  Connect, CaptureTable, CaptureDone, CaptureFails, Busy
    <3> QED BY <3>1 DEF FreshInv
  <2> QED BY <2>1, <2>2
<1>4. \A v, w \in Clients : pc'[v] \in Busy /\ pc'[w] \in Busy => v = w
  BY <1>2, <1>3 DEF Kept
<1>5. pc'[u] \in Busy => own'[u] = config /\ present
  <2>1. CASE BeginStats(u)
    BY <1>0, <2>1 DEF BeginStats
  <2>2. CASE ~BeginStats(u)
    <3>1. pc[u] \in Busy /\ own' = own
      BY <2>2 DEF Stats, ReadSource, ReadLatest, ShowTable, Answer, ReadForCapture,
                  Connect, CaptureTable, CaptureDone, CaptureFails, Busy, answerVars
    <3> QED BY <3>1 DEF FreshInv
  <2> QED BY <2>1, <2>2
<1>6. config = NoConfig => snapshots' = {}
  <2>1. CASE CaptureTable(u)
    <3>1. present
      BY <2>1 DEF CaptureTable, FreshInv, Busy
    <3> QED BY <3>1, TableLists DEF DashTypes
  <2>2. CASE ~CaptureTable(u)
    BY <2>2 DEF Stats, BeginStats, ReadSource, ReadLatest, ShowTable, Answer, ReadForCapture,
                Connect, CaptureDone, CaptureFails, dbVars, FreshInv
  <2> QED BY <2>1, <2>2
<1>7. ASSUME NEW s \in snapshots'
      PROVE  Complete(s.at)' \/ \E v \in Clients : pc'[v] = "gathering" /\ stamp'[v] = s.at
  <2>1. \A v \in Clients \ {u} : pc[v] # "gathering"
    BY <1>3 DEF Busy
  <2>2. CASE s \in snapshots /\ Complete(s.at)
    BY <1>1, <2>2
  <2>3. CASE s \in snapshots /\ ~Complete(s.at)
    <3>1. pc[u] = "gathering" /\ stamp[u] = s.at
      BY <2>1, <2>3 DEF FreshInv
    <3>2. CASE CaptureDone(u)
      <4>1. done[u] = Len(plan[u]) /\ plan[u] = config.tables
        BY <3>1, <3>2 DEF CaptureDone, FreshFor
      <4>2. DOMAIN plan[u] = 1..done[u]
        BY <1>0, <4>1, LenProperties
      <4>3. \A i \in DOMAIN plan[u] : Snapshot(plan[u][i], stamp[u]) \in snapshots
        BY <3>1, <4>2 DEF CapturesInv, FreshInv, CaptureInv
      <4> QED BY <1>0, <2>3, <3>1, <4>1, <4>3, CaptureCompletes
    <3>3. CASE CaptureTable(u)
      <4>1. pc' = pc /\ stamp' = stamp
        BY <3>3 DEF CaptureTable
      <4> QED BY <3>1, <4>1
    <3>4. ~CaptureFails(u)
      BY DEF CaptureFails
    <3> QED BY <3>1, <3>2, <3>3, <3>4 DEF Stats, BeginStats, ReadSource, ReadLatest, ShowTable,
                Answer, ReadForCapture, Connect, Busy
  <2>4. CASE s \notin snapshots
    <3>1. CaptureTable(u)
      BY <2>4 DEF Stats, BeginStats, ReadSource, ReadLatest, ShowTable, Answer, ReadForCapture,
                  Connect, CaptureDone, CaptureFails, dbVars
    <3>2. /\ pc[u] = "gathering" /\ pc' = pc /\ stamp' = stamp
          /\ s = [table |-> plan[u][done[u] + 1], at |-> stamp[u]]
      BY <2>4, <3>1 DEF CaptureTable
    <3> QED BY <3>2
  <2> QED BY <2>2, <2>3, <2>4
<1>8. \A v \in Clients : pc'[v] \in Busy => own'[v] = config /\ present
  BY <1>2, <1>3, <1>5 DEF Kept
<1> QED BY <1>1, <1>4, <1>6, <1>7, <1>8 DEF FreshInv

Freshness == ~disturbed => FreshInv /\ \A u \in Clients : FreshFor(u)

LEMMA FreshnessStep ==
    DashTypes /\ CapturesInv /\ Freshness /\ [Next]_vars => Freshness'
<1> SUFFICES ASSUME DashTypes, CapturesInv, Freshness, [Next]_vars, ~disturbed'
             PROVE  FreshInv' /\ \A u \in Clients : FreshFor(u)'
  BY DEF Freshness
<1>1. CASE create_config
  <2>1. /\ ~disturbed /\ config = NoConfig
        /\ UNCHANGED <<now, snapshots, deletion, pc, captureVars, answerVars, healthy, shown>>
    BY <1>1 DEF create_config
  <2>2. FreshInv /\ \A u \in Clients : FreshFor(u)
    BY <2>1 DEF Freshness
  <2>3. snapshots = {} /\ \A u \in Clients : pc[u] \notin Busy
    BY <2>1, <2>2, TableLists DEF FreshInv, DashTypes
  <2>4. FreshInv'
    BY <2>1, <2>2, <2>3 DEF FreshInv
  <2>5. \A u \in Clients : FreshFor(u)'
    BY <2>1, <2>2, <2>3 DEF FreshFor, Busy, captureVars, answerVars
  <2> QED BY <2>4, <2>5
<1>2. CASE Tick
  <2>1. ~disturbed /\ now' > now /\ now' \in Int /\ now \in Int
        /\ UNCHANGED <<dbVars, pc, captureVars, answerVars, healthy, shown>>
        /\ since \in [Clients -> Int]
    BY <1>2, DashboardAssumption DEF Tick, DashTypes, DashTypeOK
  <2>2. FreshInv /\ \A u \in Clients : FreshFor(u)
    BY <2>1 DEF Freshness
  <2>3. \A at : Complete(at) => Complete(at)'
    BY <2>1 DEF Complete, dbVars
  <2>4. FreshInv'
    BY <2>1, <2>2, <2>3 DEF FreshInv, dbVars, captureVars, answerVars
  <2>5. \A u \in Clients : FreshFor(u)'
    BY <2>1, <2>2, <2>3 DEF FreshFor, dbVars, captureVars, answerVars
  <2> QED BY <2>4, <2>5
<1>3. ASSUME NEW u \in Clients, Stats(u)
      PROVE  FreshInv' /\ \A v \in Clients : FreshFor(v)'
  <2>1. ~CaptureFails(u)
    BY DEF CaptureFails
  <2>2. ~disturbed
    <3>1. CASE BeginStats(u)
      <4>1. disturbed' = (disturbed \/ \E v \in Clients : pc[v] \in Busy)
        BY <3>1 DEF BeginStats
      <4> QED BY <4>1, Zenon
    <3>2. CASE ~BeginStats(u)
      BY <1>3, <2>1, <3>2 DEF Stats, ReadSource, ReadLatest, ShowTable, Answer, ReadForCapture,
                  Connect, CaptureTable, CaptureDone
    <3> QED BY <3>1, <3>2
  <2>3. FreshInv /\ \A v \in Clients : FreshFor(v)
    BY <2>2 DEF Freshness
  <2>4. \A v \in Clients \ {u} : FreshFor(v)'
    BY <1>3, <2>3, OthersKept, StatsKeep, SnapshotsGrow, FreshForKept
  <2>5. FreshFor(u)'
    BY <1>3, <2>1, <2>3, FreshForStats
  <2>6. FreshInv'
    BY <1>3, <2>3, FreshInvStats
  <2> QED BY <2>4, <2>5, <2>6
<1>4. CASE CleanUp
  <2>1. ~disturbed /\ deletion = "half"
    BY <1>4 DEF CleanUp
  <2> QED BY <2>1 DEF Freshness, FreshInv
<1>5. ~(update_config \/ delete_config \/ Restart)
  BY DEF update_config, delete_config, Restart
<1>6. CASE UNCHANGED vars
  <2>1. FreshInv /\ \A u \in Clients : FreshFor(u)
    BY <1>6 DEF Freshness, vars
  <2>2. \A at : Complete(at) => Complete(at)'
    BY <1>6 DEF Complete, vars, dbVars
  <2>3. FreshInv'
    BY <1>6, <2>1, <2>2 DEF FreshInv, vars, dbVars, captureVars, answerVars
  <2>4. \A u \in Clients : FreshFor(u)'
    BY <1>6, <2>1, <2>2 DEF FreshFor, vars, dbVars, captureVars, answerVars
  <2> QED BY <2>3, <2>4
<1> QED BY <1>1, <1>2, <1>3, <1>4, <1>5, <1>6 DEF Next

\* While no capture fails, no request overlaps another, nothing is reconfigured
\* and the server stays up, a healthy answer shows no table older than the
\* interval: the newest snapshot of any table then vouches for all of them.
THEOREM AnswersAreFresh == Spec => []FreshUnlessDisturbed
<1>1. Init => OrphanInv /\ CapturesInv /\ Freshness
  BY DEF Init, OrphanInv, CapturesInv, CaptureInv, Freshness, FreshInv, FreshFor, Busy
<1>2. Freshness => FreshUnlessDisturbed
  BY DEF Freshness, FreshFor, FreshUnlessDisturbed
<1> QED BY <1>1, <1>2, FreshnessStep, CapturesInvStep, OrphanInvStep, DashTypesInit,
           DashTypesStep, PTL DEF Spec
===============================================================================

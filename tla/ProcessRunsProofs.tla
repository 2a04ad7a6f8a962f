-------------------------- MODULE ProcessRunsProofs --------------------------
(* Proofs about ProcessRuns, for every set of runs, guests and requests, any   *)
(* limit, and every failure the model has.                                     *)
EXTENDS ProcessRuns, ProcessConfigsProofs, FiniteSetTheorems

-----------------------------------------------------------------------------
(* The configuration under the runs behaves as ProcessConfigs says.            *)

LEMMA StepsConfigure == [Next]_vars => [ConfigNext]_confVars
<1> SUFFICES ASSUME [Next]_vars PROVE [ConfigNext]_confVars
  OBVIOUS
<1>1. CASE Configure
  BY <1>1 DEF Configure, ConfigNext
<1>2. CASE RestartServer
  BY <1>2 DEF RestartServer, ConfigNext
<1>3. CASE UNCHANGED vars
  BY <1>3 DEF vars
<1>4. ASSUME NEW r \in Runs, Client(r) PROVE UNCHANGED confVars
  BY <1>4 DEF Client, run_process, save_results_to_gcp, UploadTable, RecordResultPath,
              reload_results_from_gcp, StoreReloaded, StepClient
<1>5. ASSUME NEW r \in Runs, Task(r) PROVE UNCHANGED confVars
  BY <1>5 DEF Task, EnterBlock, WriteRunning, LoadConfig, Timeout, StoreResult,
              SaveResult, WriteCompleted, WriteFailed
<1>6. ASSUME NEW r \in Runs, Source(r) \/ ExpireResult(r) PROVE UNCHANGED confVars
  BY <1>6 DEF Source, Execute, ExecuteFails, Closed, ExpireResult
<1>7. ASSUME NEW g \in Guests, GuestEnters(g) \/ GuestLeaves(g) PROVE UNCHANGED confVars
  BY <1>7 DEF GuestEnters, GuestLeaves
<1> QED BY <1>1, <1>2, <1>3, <1>4, <1>5, <1>6, <1>7 DEF Next

\* A run's steps leave the configuration to its requests: whatever holds of the
\* configuration by itself holds of it under the runs.
THEOREM RunsRespectConfig == Spec => ConfigSpec
<1>1. Init => ConfigInit
  BY DEF Init
<1> QED BY <1>1, StepsConfigure, PTL DEF Spec, ConfigSpec

-----------------------------------------------------------------------------
(* The semaphore.                                                              *)

Holders == RunHolders \cup GuestHolders

Queued == {r \in Runs : task[r] = "queued"} \cup {g \in Guests : guest[g] = "queued"}

GuestPlaces == {"away", "queued", "inside"}

PlaceTypes ==
    /\ task \in [Runs -> Places]
    /\ guest \in [Guests -> GuestPlaces]

\* The holders and the free slots make up the limit, and those who wait in the
\* queue are queued, each once.
SemInv ==
    /\ PlaceTypes
    /\ slots \in 0..MaxConcurrent
    /\ waiters \in Seq(Runs \cup Guests)
    /\ IsFiniteSet(Holders)
    /\ slots + Cardinality(Holders) = MaxConcurrent
    /\ \A i \in 1..Len(waiters) : waiters[i] \in Queued
    /\ \A i, j \in 1..Len(waiters) : waiters[i] = waiters[j] => i = j

LEMMA HoldersWait ==
    ASSUME PlaceTypes
    PROVE  Holders \cap Queued = {}
  BY ProcessRunAssumption DEF PlaceTypes, Holders, RunHolders, GuestHolders, Queued, InSlot

\* A step that leaves the semaphore, its holders and those who wait alone.
LEMMA SemKept ==
    ASSUME SemInv, UNCHANGED semVars, PlaceTypes', Holders' = Holders, Queued \subseteq Queued'
    PROVE  SemInv'
  BY DEF SemInv, semVars

LEMMA SemAcquired ==
    ASSUME SemInv, Acquire, PlaceTypes', NEW t, t \notin Holders, Holders' = Holders \cup {t}
    PROVE  SemInv'
<1>1. /\ slots > 0 /\ slots' = slots - 1 /\ waiters' = waiters /\ waiters = <<>>
      /\ Len(waiters) = 0
  BY EmptySeq DEF Acquire, CanAcquire
<1>2. IsFiniteSet(Holders') /\ Cardinality(Holders') = Cardinality(Holders) + 1
  BY FS_AddElement DEF SemInv
<1>3. Cardinality(Holders) \in Nat /\ MaxConcurrent \in Nat
  BY FS_CardinalityType, MaxConcurrentAssumption DEF SemInv
<1> QED BY <1>1, <1>2, <1>3 DEF SemInv

LEMMA SemWaited ==
    ASSUME SemInv, NEW t \in Runs \cup Guests, Wait(t), PlaceTypes', t \notin Queued,
           Holders' = Holders, Queued' = Queued \cup {t}
    PROVE  SemInv'
<1>1. waiters' = Append(waiters, t) /\ slots' = slots
  BY DEF Wait
<1>2. /\ waiters' \in Seq(Runs \cup Guests) /\ Len(waiters) \in Nat
      /\ Len(waiters') = Len(waiters) + 1
      /\ \A i \in 1..Len(waiters) : waiters'[i] = waiters[i]
      /\ waiters'[Len(waiters) + 1] = t
  BY <1>1, AppendProperties, LenProperties DEF SemInv
<1>3. \A i \in 1..Len(waiters') :
         \/ i \in 1..Len(waiters)
         \/ i = Len(waiters) + 1
  BY <1>2
<1>4. \A i \in 1..Len(waiters') : waiters'[i] \in Queued'
  BY <1>2, <1>3 DEF SemInv
<1>5. \A i, j \in 1..Len(waiters') : waiters'[i] = waiters'[j] => i = j
  BY <1>2, <1>3 DEF SemInv
<1> QED BY <1>1, <1>2, <1>4, <1>5 DEF SemInv

LEMMA SemReleased ==
    ASSUME SemInv, Release, PlaceTypes', NEW t \in Holders,
           Holders' = (Holders \ {t}) \cup Woken, Queued \ Woken \subseteq Queued'
    PROVE  SemInv'
<1>1. /\ IsFiniteSet(Holders \ {t})
      /\ Cardinality(Holders \ {t}) = Cardinality(Holders) - 1
      /\ Cardinality(Holders) \in Nat /\ Cardinality(Holders \ {t}) \in Nat
  BY FS_RemoveElement, FS_CardinalityType DEF SemInv
<1>2. MaxConcurrent \in Nat
  BY MaxConcurrentAssumption
<1>3. CASE waiters = <<>>
  <2>1. slots' = slots + 1 /\ waiters' = waiters /\ Woken = {} /\ Len(waiters) = 0
    BY <1>3, EmptySeq DEF Release, Woken
  <2>2. Holders' = Holders \ {t}
    BY <2>1
  <2> QED BY <1>1, <1>2, <2>1, <2>2 DEF SemInv
<1>4. CASE waiters # <<>>
  <2> DEFINE h == Head(waiters)
  <2>1. slots' = slots /\ waiters' = Tail(waiters) /\ Woken = {h}
    BY <1>4 DEF Release, Woken
  <2>2. /\ Len(waiters) \in Nat \ {0} /\ h = waiters[1]
        /\ Tail(waiters) \in Seq(Runs \cup Guests)
        /\ Len(Tail(waiters)) = Len(waiters) - 1
        /\ \A i \in 1..Len(Tail(waiters)) : Tail(waiters)[i] = waiters[i + 1]
    BY <1>4, HeadTailProperties, EmptySeq, LenProperties DEF SemInv
  <2>3. h \in Queued
    BY <2>2 DEF SemInv
  <2>4. h \notin Holders \ {t}
    BY <2>3, HoldersWait DEF SemInv
  <2>5. IsFiniteSet(Holders') /\ Cardinality(Holders') = Cardinality(Holders)
    <3>1. /\ IsFiniteSet((Holders \ {t}) \cup {h})
          /\ Cardinality((Holders \ {t}) \cup {h}) = Cardinality(Holders \ {t}) + 1
      BY <1>1, <2>4, FS_AddElement
    <3> QED BY <1>1, <2>1, <3>1
  <2>6. \A i \in 1..Len(waiters') :
          i + 1 \in 1..Len(waiters) /\ i + 1 # 1 /\ waiters'[i] = waiters[i + 1]
    BY <2>1, <2>2
  <2>7. \A i \in 1..Len(waiters') : waiters'[i] \in Queued'
    <3> SUFFICES ASSUME NEW i \in 1..Len(waiters') PROVE waiters[i + 1] \in Queued'
      BY <2>6
    <3>1. waiters[i + 1] \in Queued /\ waiters[i + 1] # waiters[1]
      BY <2>2, <2>6 DEF SemInv
    <3> QED BY <2>1, <2>2, <3>1
  <2>8. \A i, j \in 1..Len(waiters') : waiters'[i] = waiters'[j] => i = j
    <3> SUFFICES ASSUME NEW i \in 1..Len(waiters'), NEW j \in 1..Len(waiters'),
                        waiters'[i] = waiters'[j]
                 PROVE  i = j
      OBVIOUS
    <3>1. i + 1 = j + 1
      BY <2>6 DEF SemInv
    <3> QED BY <2>1, <2>2, <3>1
  <2> QED BY <2>1, <2>2, <2>5, <2>7, <2>8 DEF SemInv
<1> QED BY <1>3, <1>4

\* Whoever leaves the block, the oldest waiter enters it.
LEMMA LeaveStep ==
    ASSUME SemInv, NEW t \in Holders, NEW place, WakeOthers(t, place),
           t \in Runs => place \in {"failing", "done"}, t \in Guests => place = "away"
    PROVE  SemInv'
<1>1. /\ Release
      /\ task' = [r \in Runs |-> IF r = t THEN place
                                 ELSE IF r \in Woken THEN "starting" ELSE task[r]]
      /\ guest' = [g \in Guests |-> IF g = t THEN place
                                    ELSE IF g \in Woken THEN "inside" ELSE guest[g]]
  BY DEF WakeOthers
<1>2. Woken \subseteq Queued
  BY HeadTailProperties, EmptySeq, LenProperties DEF SemInv, Woken
<1>3. t \notin Woken
  BY <1>2, HoldersWait DEF SemInv
<1>4. PlaceTypes'
  BY <1>1 DEF SemInv, PlaceTypes, Places, Working, InSlot, GuestPlaces
<1>5. Holders' = (Holders \ {t}) \cup Woken
  <2>1. RunHolders' = (RunHolders \ {t}) \cup (Woken \cap Runs)
    BY <1>1, <1>3 DEF RunHolders, InSlot
  <2>2. GuestHolders' = (GuestHolders \ {t}) \cup (Woken \cap Guests)
    BY <1>1, <1>3 DEF GuestHolders
  <2>3. Woken \subseteq Runs \cup Guests
    BY <1>2 DEF Queued
  <2> QED BY <2>1, <2>2, <2>3 DEF Holders
<1>6. Queued \ Woken \subseteq Queued'
  <2>1. t \notin Queued
    BY HoldersWait DEF SemInv
  <2>2. ASSUME NEW q \in Queued, q \notin Woken PROVE q \in Queued'
    BY <1>1, <2>1, <2>2 DEF Queued
  <2> QED BY <2>2
<1> QED BY <1>1, <1>4, <1>5, <1>6, SemReleased

\* A task that moves on without entering or leaving the block.
LEMMA MoveStep ==
    ASSUME SemInv, NEW r \in Runs, NEW place \in Places, MoveTask(r, place),
           UNCHANGED semVars, task[r] \in InSlot <=> place \in InSlot, task[r] # "queued"
    PROVE  SemInv'
<1>1. task' = [task EXCEPT ![r] = place] /\ guest' = guest
  BY DEF MoveTask
<1>2. PlaceTypes'
  BY <1>1 DEF SemInv, PlaceTypes
<1>3. Holders' = Holders
  BY <1>1 DEF SemInv, PlaceTypes, Holders, RunHolders, GuestHolders
<1>4. Queued \subseteq Queued'
  BY <1>1 DEF SemInv, PlaceTypes, Queued
<1> QED BY <1>2, <1>3, <1>4, SemKept

LEMMA SemInit == Init => SemInv
<1> SUFFICES ASSUME Init PROVE SemInv
  OBVIOUS
<1>1. PlaceTypes
  BY DEF Init, PlaceTypes, Places, GuestPlaces
<1>2. Holders = {}
  BY DEF Init, Holders, RunHolders, GuestHolders, InSlot
<1>3. IsFiniteSet(Holders) /\ Cardinality(Holders) = 0
  BY <1>2, FS_EmptySet
<1>4. slots = MaxConcurrent /\ waiters = <<>> /\ Len(waiters) = 0 /\ MaxConcurrent \in Nat
  BY EmptySeq, MaxConcurrentAssumption DEF Init, SemaphoreInit
<1>5. waiters \in Seq(Runs \cup Guests)
  BY <1>4, EmptySeq
<1> QED BY <1>1, <1>3, <1>4, <1>5 DEF SemInv

LEMMA SemTaskStep ==
    ASSUME SemInv, NEW r \in Runs, Task(r) \/ Source(r)
    PROVE  SemInv'
<1> USE DEF Places, Working, InSlot
<1>0. r \notin Guests
  BY ProcessRunAssumption
<1>1. ASSUME task[r] \in InSlot, NEW place \in {"failing", "done"}, WakeOthers(r, place)
      PROVE  SemInv'
  <2>1. r \in Holders
    BY <1>1 DEF Holders, RunHolders
  <2> QED BY <1>0, <1>1, <2>1, LeaveStep
<1>2. CASE EnterBlock(r)
  <2>1. task[r] = "created"
    BY <1>2 DEF EnterBlock
  <2>2. CASE Acquire /\ MoveTask(r, "starting")
    <3>1. task' = [task EXCEPT ![r] = "starting"] /\ guest' = guest
      BY <2>2 DEF MoveTask
    <3>2. PlaceTypes'
      BY <3>1 DEF SemInv, PlaceTypes
    <3>3. r \notin Holders /\ Holders' = Holders \cup {r}
      BY <1>0, <2>1, <3>1 DEF SemInv, PlaceTypes, Holders, RunHolders, GuestHolders
    <3> QED BY <2>2, <3>2, <3>3, SemAcquired
  <2>3. CASE Wait(r) /\ MoveTask(r, "queued")
    <3>1. task' = [task EXCEPT ![r] = "queued"] /\ guest' = guest
      BY <2>3 DEF MoveTask
    <3>2. PlaceTypes'
      BY <3>1 DEF SemInv, PlaceTypes
    <3>3. Holders' = Holders
      BY <2>1, <3>1 DEF SemInv, PlaceTypes, Holders, RunHolders, GuestHolders
    <3>4. r \notin Queued /\ Queued' = Queued \cup {r}
      BY <1>0, <2>1, <3>1 DEF SemInv, PlaceTypes, Queued
    <3> QED BY <2>3, <3>2, <3>3, <3>4, SemWaited
  <2> QED BY <1>2, <2>2, <2>3 DEF EnterBlock
<1>3. CASE WriteRunning(r)
  <2>1. task[r] = "starting"
    BY <1>3 DEF WriteRunning
  <2>2. CASE MoveTask(r, "loading") /\ UNCHANGED semVars
    BY <2>1, <2>2, MoveStep
  <2>3. CASE Raise(r)
    BY <1>1, <2>1, <2>3 DEF Raise
  <2> QED BY <1>3, <2>2, <2>3 DEF WriteRunning
<1>4. CASE LoadConfig(r)
  <2>1. task[r] = "loading"
    BY <1>4 DEF LoadConfig
  <2>2. CASE MoveTask(r, "executing") /\ UNCHANGED semVars
    BY <2>1, <2>2, MoveStep
  <2>3. CASE Raise(r)
    BY <1>1, <2>1, <2>3 DEF Raise
  <2> QED BY <1>4, <2>2, <2>3
          DEF LoadConfig, MissingDocument, FromCopy, NoCopy, FromDocument, Executes
<1>5. CASE Timeout(r) \/ ExecuteFails(r) \/ Closed(r)
  <2>1. /\ task[r] \in InSlot
        /\ \/ MoveTask(r, "closing") /\ UNCHANGED semVars
           \/ Raise(r)
    BY <1>5 DEF Timeout, ExecuteFails, Closed
  <2>2. CASE MoveTask(r, "closing") /\ UNCHANGED semVars
    BY <2>1, <2>2, MoveStep
  <2>3. CASE Raise(r)
    BY <1>1, <2>1, <2>3 DEF Raise
  <2> QED BY <2>1, <2>2, <2>3
<1>6. CASE Execute(r)
  <2>1. task[r] = "executing" /\ MoveTask(r, "computed") /\ UNCHANGED semVars
    BY <1>6 DEF Execute
  <2> QED BY <2>1, MoveStep
<1>7. CASE StoreResult(r)
  <2>1. task[r] = "computed"
    BY <1>7 DEF StoreResult
  <2>2. CASE MoveTask(r, "stored") /\ UNCHANGED semVars
    BY <2>1, <2>2, MoveStep
  <2>3. CASE Raise(r)
    BY <1>1, <2>1, <2>3 DEF Raise
  <2> QED BY <1>7, <2>2, <2>3 DEF StoreResult
<1>8. CASE SaveResult(r)
  <2>1. task[r] = "stored" /\ MoveTask(r, "saved") /\ UNCHANGED semVars
    BY <1>8 DEF SaveResult
  <2> QED BY <2>1, MoveStep
<1>9. CASE WriteCompleted(r)
  <2>1. task[r] \in InSlot
    BY <1>9 DEF WriteCompleted
  <2>2. WakeOthers(r, "done") \/ WakeOthers(r, "failing")
    BY <1>9 DEF WriteCompleted, Raise
  <2> QED BY <1>1, <2>1, <2>2
<1>10. CASE WriteFailed(r)
  <2>1. /\ task[r] = "failing" /\ UNCHANGED semVars
        /\ MoveTask(r, "done") \/ MoveTask(r, "abandoned")
    BY <1>10 DEF WriteFailed
  <2> QED BY <2>1, MoveStep
<1> QED BY <1>2, <1>3, <1>4, <1>5, <1>6, <1>7, <1>8, <1>9, <1>10 DEF Task, Source

LEMMA SemGuestStep ==
    ASSUME SemInv, NEW g \in Guests, GuestEnters(g) \/ GuestLeaves(g)
    PROVE  SemInv'
<1>0. g \notin Runs
  BY ProcessRunAssumption
<1>1. CASE guest[g] = "away" /\ task' = task /\ Acquire /\ guest' = [guest EXCEPT ![g] = "inside"]
  <2>1. PlaceTypes'
    BY <1>1 DEF SemInv, PlaceTypes, GuestPlaces
  <2>2. g \notin Holders /\ Holders' = Holders \cup {g}
    BY <1>0, <1>1 DEF SemInv, PlaceTypes, Holders, RunHolders, GuestHolders
  <2> QED BY <1>1, <2>1, <2>2, SemAcquired
<1>2. CASE guest[g] = "away" /\ task' = task /\ Wait(g) /\ guest' = [guest EXCEPT ![g] = "queued"]
  <2>1. PlaceTypes'
    BY <1>2 DEF SemInv, PlaceTypes, GuestPlaces
  <2>2. Holders' = Holders
    BY <1>2 DEF SemInv, PlaceTypes, Holders, RunHolders, GuestHolders
  <2>3. g \notin Queued /\ Queued' = Queued \cup {g}
    BY <1>0, <1>2 DEF SemInv, PlaceTypes, Queued
  <2> QED BY <1>2, <2>1, <2>2, <2>3, SemWaited
<1>3. CASE GuestLeaves(g)
  <2>1. g \in Holders /\ WakeOthers(g, "away")
    BY <1>3 DEF GuestLeaves, Holders, GuestHolders
  <2> QED BY <1>0, <2>1, LeaveStep
<1> QED BY <1>1, <1>2, <1>3 DEF GuestEnters

LEMMA SemStep == SemInv /\ [Next]_vars => SemInv'
<1> SUFFICES ASSUME SemInv, [Next]_vars PROVE SemInv'
  OBVIOUS
<1>1. CASE UNCHANGED <<task, guest, semVars>>
  <2>1. PlaceTypes' /\ Holders' = Holders /\ Queued' = Queued
    BY <1>1 DEF SemInv, PlaceTypes, Holders, RunHolders, GuestHolders, Queued
  <2> QED BY <1>1, <2>1, SemKept
<1>2. ASSUME NEW r \in Runs, Client(r) PROVE SemInv'
  <2>1. CASE run_process(r)
    <3>1. /\ task[r] = "absent" /\ UNCHANGED semVars
          /\ MoveTask(r, "created") \/ MoveTask(r, "abandoned")
      BY <2>1 DEF run_process
    <3> QED BY <3>1, MoveStep DEF Places, Working, InSlot
  <2>2. CASE ~run_process(r)
    BY <1>1, <1>2, <2>2 DEF Client, save_results_to_gcp, UploadTable, RecordResultPath,
       reload_results_from_gcp, StoreReloaded, StepClient
  <2> QED BY <2>1, <2>2
<1>3. CASE Configure \/ (\E r \in Runs : ExpireResult(r)) \/ UNCHANGED vars
  BY <1>1, <1>3 DEF Configure, ExpireResult, vars
<1>4. CASE RestartServer
  <2>1. /\ task' = [r \in Runs |-> IF task[r] \in Working THEN "abandoned" ELSE task[r]]
        /\ guest' = [g \in Guests |-> "away"]
        /\ slots' = MaxConcurrent /\ waiters' = <<>>
    BY <1>4 DEF RestartServer
  <2>2. PlaceTypes'
    BY <2>1 DEF SemInv, PlaceTypes, Places, GuestPlaces
  <2>3. Holders' = {}
    BY <2>1 DEF SemInv, PlaceTypes, Places, Working, Holders, RunHolders, GuestHolders, InSlot
  <2>4. IsFiniteSet(Holders') /\ Cardinality(Holders') = 0
    BY <2>3, FS_EmptySet
  <2>5. waiters' \in Seq(Runs \cup Guests) /\ Len(waiters') = 0
    BY <2>1, EmptySeq
  <2> QED BY <2>1, <2>2, <2>4, <2>5, MaxConcurrentAssumption DEF SemInv
<1> QED BY <1>2, <1>3, <1>4, SemTaskStep, SemGuestStep DEF Next

\* The free slots and those the two engines hold make up the limit, on whatever
\* exit of the block.
THEOREM SlotsAreShared == Spec => []SlotsShared
<1>1. SemInv => SlotsShared
  <2> SUFFICES ASSUME SemInv PROVE SlotsShared
    OBVIOUS
  <2>1. RunHolders \cap GuestHolders = {}
    BY ProcessRunAssumption DEF RunHolders, GuestHolders
  <2>2. IsFiniteSet(RunHolders) /\ IsFiniteSet(GuestHolders)
    BY FS_Subset DEF SemInv, Holders
  <2>3. Cardinality(Holders) = Cardinality(RunHolders) + Cardinality(GuestHolders)
    <3>1. Cardinality(RunHolders) \in Nat /\ Cardinality(GuestHolders) \in Nat
      BY <2>2, FS_CardinalityType
    <3>2. Cardinality(RunHolders \cap GuestHolders) = 0
      BY <2>1, FS_EmptySet
    <3>3. Cardinality(Holders) = Cardinality(RunHolders) + Cardinality(GuestHolders)
                                   - Cardinality(RunHolders \cap GuestHolders)
      BY <2>2, FS_Union DEF Holders
    <3> QED BY <3>1, <3>2, <3>3
  <2>4. Cardinality(RunHolders) \in Nat /\ Cardinality(GuestHolders) \in Nat
    BY <2>2, FS_CardinalityType
  <2> QED BY <2>3, <2>4, MaxConcurrentAssumption DEF SemInv, SlotsShared
<1> QED BY <1>1, SemInit, SemStep, PTL DEF Spec

-----------------------------------------------------------------------------
(* What a step of one run leaves alone.                                        *)

\* A release moves its own task on, and whoever it wakes.
LEMMA WakeEffect ==
    ASSUME SemInv, NEW x \in Runs \cup Guests, NEW place, WakeOthers(x, place)
    PROVE  /\ \A t \in Runs \ {x} :
                task'[t] = task[t] \/ (task[t] = "queued" /\ task'[t] = "starting")
           /\ x \in Runs => task'[x] = place
<1>1. task' = [r \in Runs |-> IF r = x THEN place
                              ELSE IF r \in Woken THEN "starting" ELSE task[r]]
  BY DEF WakeOthers
<1>2. Woken \subseteq Queued
  BY HeadTailProperties, EmptySeq, LenProperties DEF SemInv, Woken
<1>3. \A t \in Runs : t \in Queued => task[t] = "queued"
  BY ProcessRunAssumption DEF Queued
<1> QED BY <1>1, <1>2, <1>3

\* What belongs to a run besides its task's place.
SameData(t) ==
    /\ option'[t] = option[t] /\ asked'[t] = asked[t] /\ used'[t] = used[t]
    /\ frame'[t] = frame[t] /\ rstatus'[t] = rstatus[t] /\ rcount'[t] = rcount[t]
    /\ parquet'[t] = parquet[t] /\ rows'[t] = rows[t]
    /\ t \in rerror' <=> t \in rerror
    /\ t \in resultId' <=> t \in resultId
    /\ t \in resultPath' <=> t \in resultPath
    /\ t \in copied' <=> t \in copied
    /\ t \in live' => t \in live
    /\ t \in stored' <=> t \in stored

Bystander(t) ==
    /\ SameData(t)
    /\ client'[t] = client[t]
    /\ task'[t] = task[t] \/ (task[t] = "queued" /\ task'[t] = "starting")

ClientSteps == [next : {"upload", "record", "store"}, table : Nat \cup {NoRows}]

\* The types of what is not a place or the semaphore.
DataTypes ==
    /\ option \in [Runs -> [source : Sources, save : BOOLEAN]]
    /\ asked \in [Runs -> Nat]
    /\ used \in [Runs -> [from : {"nowhere", "mongodb", "gcp"}, version : Paths]]
    /\ missing \subseteq Runs
    /\ frame \in [Runs -> Nat]
    /\ rstatus \in [Runs -> {"none", "pending", "running", "completed", "failed"}]
    /\ rcount \in [Runs -> Nat \cup {NoRows}]
    /\ rerror \subseteq Runs /\ resultId \subseteq Runs /\ resultPath \subseteq Runs
    /\ parquet \in [Runs -> Nat \cup {NoRows}]
    /\ copied \subseteq Runs
    /\ client \in [Runs -> SUBSET ClientSteps]
    /\ live \subseteq Runs /\ stored \subseteq Runs
    /\ rows \in [Runs -> Nat]

LEMMA TaskLeavesOthers ==
    ASSUME SemInv, NEW r \in Runs,
           Client(r) \/ Task(r) \/ Source(r) \/ ExpireResult(r)
    PROVE  \A t \in Runs \ {r} :
             task'[t] = task[t] \/ (task[t] = "queued" /\ task'[t] = "starting")
<1>1. \/ task' = task
      \/ \E place \in Places : MoveTask(r, place) \/ WakeOthers(r, place)
  <2> USE DEF Places, Working, InSlot
  <2>1. CASE Client(r)
    BY <2>1 DEF Client, run_process, save_results_to_gcp, UploadTable, RecordResultPath,
                reload_results_from_gcp, StoreReloaded, StepClient
  <2>2. CASE EnterBlock(r) \/ WriteRunning(r)
    BY <2>2 DEF EnterBlock, WriteRunning, Raise
  <2>3. CASE LoadConfig(r)
    BY <2>3 DEF LoadConfig, MissingDocument, FromCopy, NoCopy, FromDocument, Executes, Raise
  <2>4. CASE Timeout(r) \/ StoreResult(r) \/ SaveResult(r) \/ WriteCompleted(r)
             \/ WriteFailed(r)
    BY <2>4 DEF Timeout, StoreResult, SaveResult, WriteCompleted, WriteFailed, Raise
  <2>5. CASE Source(r) \/ ExpireResult(r)
    BY <2>5 DEF Source, Execute, ExecuteFails, Closed, ExpireResult, Raise
  <2> QED BY <2>1, <2>2, <2>3, <2>4, <2>5 DEF Task
<1>2. ASSUME NEW place, MoveTask(r, place)
      PROVE  \A t \in Runs \ {r} : task'[t] = task[t]
  BY <1>2 DEF MoveTask, SemInv, PlaceTypes
<1> QED BY <1>1, <1>2, WakeEffect

\* A save or reload that goes on leaves the other runs' alone, and its own run's
\* where they were.
LEMMA ClientStep ==
    ASSUME DataTypes, NEW r \in Runs, NEW done, NEW next \in SUBSET ClientSteps,
           done \subseteq client[r], StepClient(r, done, next)
    PROVE  /\ client' \in [Runs -> SUBSET ClientSteps]
           /\ client'[r] \subseteq client[r] \cup next
           /\ \A t \in Runs \ {r} : client'[t] = client[t]
<1>1. PICK others \in SUBSET done :
         client' = [client EXCEPT ![r] = (@ \ done) \cup others \cup next]
  BY DEF StepClient
<1>2. (client[r] \ done) \cup others \cup next \subseteq client[r] \cup next
  OBVIOUS
<1> QED BY <1>1, <1>2 DEF DataTypes

\* What each of their steps does.
LEMMA ClientEffect ==
    ASSUME DataTypes, NEW r \in Runs,
           \/ save_results_to_gcp(r) \/ UploadTable(r) \/ RecordResultPath(r)
           \/ reload_results_from_gcp(r) \/ StoreReloaded(r)
    PROVE  /\ client' \in [Runs -> SUBSET ClientSteps]
           /\ \A t \in Runs \ {r} : client'[t] = client[t]
           /\ \A c \in client'[r] :
                \/ c \in client[r]
                \/ c.next = "upload" /\ Found(r) /\ c.table = rows[r]
                \/ c.next = "store" /\ r \in resultPath /\ c.table = parquet[r]
                \/ /\ c.next = "record" /\ parquet'[r] = c.table
                   /\ \E d \in client[r] : d.next = "upload" /\ d.table = c.table
           /\ \/ parquet' = parquet
              \/ \E c \in client[r] : upload_parquet(r, c.table)
           /\ \/ UNCHANGED storeVars
              \/ \E c \in client[r] : store_result(r, c.table)
           /\ \/ resultPath' = resultPath
              \/ /\ resultPath' = resultPath \cup {r}
                 /\ \E c \in client[r] : c.next = "record"
           /\ UNCHANGED <<task, guest, semVars, loadVars, frame, copied, rstatus, rcount, rerror, resultId>>
<1> USE DEF DataTypes
<1>1. CASE save_results_to_gcp(r)
  <2> DEFINE c == [next |-> "upload", table |-> rows[r]]
  <2>1. c \in ClientSteps /\ c.next = "upload" /\ c.table = rows[r]
    BY DEF ClientSteps
  <2>2. StepClient(r, {}, {c}) /\ Found(r)
    BY <1>1 DEF save_results_to_gcp
  <2>3. /\ client' \in [Runs -> SUBSET ClientSteps] /\ client'[r] \subseteq client[r] \cup {c}
        /\ \A t \in Runs \ {r} : client'[t] = client[t]
    BY <2>1, <2>2, ClientStep
  <2> HIDE DEF c
  <2> QED BY <1>1, <2>1, <2>2, <2>3 DEF save_results_to_gcp, StepClient, runDocVars
<1>2. CASE UploadTable(r)
  <2>1. PICK c \in client[r] :
          /\ c.next = "upload"
          /\ \/ upload_parquet(r, c.table) /\ StepClient(r, {c}, {[c EXCEPT !.next = "record"]})
             \/ /\ StepClient(r, {c}, {})
                /\ upload_parquet(r, c.table) \/ UNCHANGED parquet
    BY <1>2 DEF UploadTable
  <2> DEFINE d == [c EXCEPT !.next = "record"]
  <2>2. c \in ClientSteps /\ d \in ClientSteps /\ d.next = "record" /\ d.table = c.table
    BY DEF ClientSteps
  <2>3. UNCHANGED <<runDocVars, storeVars>> /\ UNCHANGED <<task, guest, semVars, loadVars, frame, copied>>
    BY <1>2 DEF UploadTable, StepClient
  <2> HIDE DEF d
  <2>4. CASE upload_parquet(r, c.table) /\ StepClient(r, {c}, {d})
    <3>1. /\ client' \in [Runs -> SUBSET ClientSteps] /\ client'[r] \subseteq client[r] \cup {d}
          /\ \A t \in Runs \ {r} : client'[t] = client[t]
      BY <2>2, <2>4, ClientStep
    <3>2. parquet'[r] = c.table
      BY <2>4 DEF upload_parquet
    <3> QED BY <2>1, <2>2, <2>3, <2>4, <3>1, <3>2 DEF runDocVars
  <2>5. CASE StepClient(r, {c}, {}) /\ (upload_parquet(r, c.table) \/ UNCHANGED parquet)
    <3>1. /\ client' \in [Runs -> SUBSET ClientSteps] /\ client'[r] \subseteq client[r] \cup {}
          /\ \A t \in Runs \ {r} : client'[t] = client[t]
      BY <2>2, <2>5, ClientStep
    <3> QED BY <2>1, <2>3, <2>5, <3>1 DEF runDocVars
  <2> QED BY <2>1, <2>4, <2>5 DEF d
<1>3. CASE RecordResultPath(r)
  <2>1. PICK c \in client[r] : c.next = "record" /\ StepClient(r, {c}, {})
    BY <1>3 DEF RecordResultPath
  <2>2. /\ client' \in [Runs -> SUBSET ClientSteps] /\ client'[r] \subseteq client[r] \cup {}
        /\ \A t \in Runs \ {r} : client'[t] = client[t]
    BY <2>1, ClientStep
  <2> QED BY <1>3, <2>1, <2>2 DEF RecordResultPath, StepClient
<1>4. CASE reload_results_from_gcp(r)
  <2> DEFINE c == [next |-> "store", table |-> parquet[r]]
  <2>1. c \in ClientSteps /\ c.next = "store" /\ c.table = parquet[r]
    BY DEF ClientSteps
  <2>2. StepClient(r, {}, {c}) /\ r \in resultPath
    BY <1>4 DEF reload_results_from_gcp
  <2>3. /\ client' \in [Runs -> SUBSET ClientSteps] /\ client'[r] \subseteq client[r] \cup {c}
        /\ \A t \in Runs \ {r} : client'[t] = client[t]
    BY <2>1, <2>2, ClientStep
  <2> HIDE DEF c
  <2> QED BY <1>4, <2>1, <2>2, <2>3 DEF reload_results_from_gcp, StepClient, runDocVars
<1>5. CASE StoreReloaded(r)
  <2>1. PICK c \in client[r] : /\ c.next = "store" /\ StepClient(r, {c}, {})
                               /\ store_result(r, c.table) \/ UNCHANGED storeVars
    BY <1>5 DEF StoreReloaded
  <2>2. /\ client' \in [Runs -> SUBSET ClientSteps] /\ client'[r] \subseteq client[r] \cup {}
        /\ \A t \in Runs \ {r} : client'[t] = client[t]
    <3>1. StepClient(r, {c}, {}) /\ {c} \subseteq client[r]
      BY <2>1
    <3> QED BY <3>1, ClientStep
  <2> QED BY <1>5, <2>1, <2>2 DEF StoreReloaded, StepClient, runDocVars
<1> QED BY <1>1, <1>2, <1>3, <1>4, <1>5

LEMMA Bystanders ==
    ASSUME SemInv, DataTypes, NEW r \in Runs,
           Client(r) \/ Task(r) \/ Source(r) \/ ExpireResult(r)
    PROVE  \A t \in Runs \ {r} : Bystander(t)
<1> SUFFICES ASSUME NEW t \in Runs, t # r
             PROVE  SameData(t) /\ client'[t] = client[t]
  BY TaskLeavesOthers DEF Bystander
<1> USE DEF DataTypes, SameData
<1>1. CASE run_process(r)
  BY <1>1 DEF run_process, SetStatus, saveVars, storeVars
<1>2. CASE \/ save_results_to_gcp(r) \/ UploadTable(r) \/ RecordResultPath(r)
           \/ reload_results_from_gcp(r) \/ StoreReloaded(r)
  <2>1. /\ client'[t] = client[t] /\ resultPath' \in {resultPath, resultPath \cup {r}}
        /\ UNCHANGED <<loadVars, frame, copied, rstatus, rcount, rerror, resultId>>
    BY <1>2, ClientEffect
  <2>2. parquet'[t] = parquet[t]
    BY <1>2, ClientEffect DEF upload_parquet
  <2>3. rows'[t] = rows[t] /\ (t \in stored' <=> t \in stored) /\ (t \in live' => t \in live)
    BY <1>2, ClientEffect DEF store_result, storeVars
  <2> QED BY <2>1, <2>2, <2>3 DEF loadVars
<1>4. CASE EnterBlock(r) \/ WriteRunning(r)
  BY <1>4 DEF EnterBlock, WriteRunning, SetStatus, loadVars, runDocVars, saveVars, storeVars
<1>5. CASE LoadConfig(r)
  BY <1>5 DEF LoadConfig, MissingDocument, FromCopy, NoCopy, FromDocument, Executes,
              runDocVars, saveVars, storeVars
<1>6. CASE Execute(r) \/ ExecuteFails(r) \/ Timeout(r) \/ Closed(r)
  BY <1>6 DEF Execute, ExecuteFails, Timeout, Closed, loadVars, runDocVars, saveVars, storeVars
<1>7. CASE StoreResult(r)
  BY <1>7 DEF StoreResult, store_result, loadVars, runDocVars, saveVars, storeVars
<1>8. CASE SaveResult(r)
  BY <1>8 DEF SaveResult, upload_parquet, loadVars, runDocVars, storeVars
<1>9. CASE WriteCompleted(r)
  BY <1>9 DEF WriteCompleted, SetCompleted, loadVars, runDocVars, saveVars, storeVars
<1>10. CASE WriteFailed(r)
  BY <1>10 DEF WriteFailed, SetStatus, loadVars, runDocVars, saveVars, storeVars
<1>11. CASE ExpireResult(r)
  BY <1>11 DEF ExpireResult, Expire, loadVars, runDocVars, saveVars
<1> QED BY <1>1, <1>2, <1>4, <1>5, <1>6, <1>7, <1>8, <1>9, <1>10, <1>11
        DEF Client, Task, Source

-----------------------------------------------------------------------------
(* The table of a run, wherever it is kept.                                    *)

\* Redis, GCS, a save and a reload hold the table the run computed, if any; the
\* document has an id only of a table that was stored, and a path only of a file
\* that was written; an error is the last thing written to it.
ResultInv(r) ==
    /\ frame[r] <= MaxResultRows
    /\ r \in stored =>
         /\ rows[r] = frame[r]
         /\ task[r] \in {"stored", "saved", "failing", "done", "abandoned"}
    /\ task[r] \in {"stored", "saved"} => r \in stored
    /\ r \in live \cup resultId => r \in stored
    /\ parquet[r] # NoRows => r \in stored /\ parquet[r] = frame[r]
    /\ r \in copied \cup resultPath => parquet[r] # NoRows
    /\ \A c \in client[r] : /\ r \in stored /\ c.table = frame[r]
                            /\ c.next = "record" => parquet[r] # NoRows
    /\ rstatus[r] = "completed" => r \in resultId /\ rcount[r] = frame[r] /\ r \notin rerror
    /\ r \in rerror => rstatus[r] = "failed" /\ task[r] = "done"

LEMMA ResultBystander ==
    ASSUME NEW t \in Runs, ResultInv(t), Bystander(t)
    PROVE  ResultInv(t)'
  BY DEF ResultInv, Bystander, SameData

LEMMA CapType == \A n \in Nat : Cap(n) \in Nat /\ Cap(n) <= MaxResultRows
  BY ProcessRunAssumption DEF Cap

LEMMA DataTypesStep ==
    ASSUME Inv, SemInv, DataTypes, \A r \in Runs : ResultInv(r), [Next]_vars
    PROVE  DataTypes'
<1>0. doc.version \in Nat /\ doc.path \in Paths /\ doc.version \in Paths
  BY DEF Inv, ConfigTypeOK, Docs, Paths
<1>1. ASSUME UNCHANGED <<loadVars, frame, runDocVars, storeVars, parquet, copied>>,
             client' \in [Runs -> SUBSET ClientSteps]
      PROVE  DataTypes'
  BY <1>1 DEF DataTypes, loadVars, runDocVars, storeVars
<1>2. ASSUME NEW r \in Runs, Client(r) PROVE DataTypes'
  <2>1. CASE run_process(r)
    BY <1>0, <2>1 DEF DataTypes, run_process, SetStatus, saveVars, storeVars
  <2>2. CASE \/ save_results_to_gcp(r) \/ UploadTable(r) \/ RecordResultPath(r)
             \/ reload_results_from_gcp(r) \/ StoreReloaded(r)
    <3>1. \A c \in client[r] : c.table \in Nat
      BY DEF ResultInv, DataTypes
    <3>2. /\ client' \in [Runs -> SUBSET ClientSteps]
          /\ resultPath' \in {resultPath, resultPath \cup {r}}
          /\ UNCHANGED <<loadVars, frame, copied, rstatus, rcount, rerror, resultId>>
      BY <2>2, ClientEffect
    <3>3. parquet' \in [Runs -> Nat \cup {NoRows}]
      BY <2>2, <3>1, ClientEffect DEF DataTypes, upload_parquet
    <3>4. live' \subseteq Runs /\ stored' \subseteq Runs /\ rows' \in [Runs -> Nat]
      BY <2>2, <3>1, ClientEffect DEF DataTypes, store_result, storeVars
    <3> QED BY <3>2, <3>3, <3>4 DEF DataTypes, loadVars
  <2> QED BY <1>2, <2>1, <2>2 DEF Client
<1>3. ASSUME NEW r \in Runs, Task(r) \/ Source(r) \/ ExpireResult(r) PROVE DataTypes'
  <2>1. CASE EnterBlock(r) \/ WriteRunning(r)
    BY <2>1 DEF DataTypes, EnterBlock, WriteRunning, SetStatus, loadVars, runDocVars, saveVars,
                storeVars
  <2>2. CASE LoadConfig(r)
    <3>1. \/ used' = used
          \/ \E from \in {"mongodb", "gcp"}, v \in Paths :
               used' = [used EXCEPT ![r] = [from |-> from, version |-> v]]
      BY <1>0, <2>2 DEF LoadConfig, MissingDocument, FromCopy, NoCopy, FromDocument, Executes
    <3>2. missing' \subseteq Runs
      BY <2>2 DEF DataTypes, LoadConfig, MissingDocument, FromCopy, NoCopy, FromDocument
    <3>3. UNCHANGED <<option, asked, frame, runDocVars, saveVars, storeVars>>
      BY <2>2 DEF LoadConfig
    <3>4. used' \in [Runs -> [from : {"nowhere", "mongodb", "gcp"}, version : Paths]]
      <4>1. used \in [Runs -> [from : {"nowhere", "mongodb", "gcp"}, version : Paths]]
        BY DEF DataTypes
      <4> QED BY <3>1, <4>1
    <3> QED BY <3>2, <3>3, <3>4 DEF DataTypes, runDocVars, saveVars, storeVars
  <2>3. CASE Execute(r)
    <3>1. \E n \in RowCounts : frame' = [frame EXCEPT ![r] = Cap(n)]
      BY <2>3 DEF Execute
    <3>2. frame' \in [Runs -> Nat]
      BY <3>1, CapType, ProcessRunAssumption DEF DataTypes
    <3> QED BY <2>3, <3>2 DEF DataTypes, Execute, loadVars, runDocVars, saveVars, storeVars
  <2>4. CASE ExecuteFails(r) \/ Timeout(r) \/ Closed(r)
    BY <2>4 DEF DataTypes, ExecuteFails, Timeout, Closed, loadVars, runDocVars, saveVars, storeVars
  <2>5. CASE StoreResult(r)
    BY <2>5 DEF DataTypes, StoreResult, store_result, loadVars, runDocVars, saveVars, storeVars
  <2>6. CASE SaveResult(r)
    BY <2>6 DEF DataTypes, SaveResult, upload_parquet, loadVars, runDocVars, storeVars
  <2>7. CASE WriteCompleted(r)
    <3>1. SetCompleted(r) \/ UNCHANGED runDocVars
      BY <2>7 DEF WriteCompleted
    <3>2. /\ rstatus' \in [Runs -> {"none", "pending", "running", "completed", "failed"}]
          /\ rcount' \in [Runs -> Nat \cup {NoRows}]
      <4>1. CASE SetCompleted(r)
        <5>1. frame[r] \in Nat \cup {NoRows}
          BY DEF DataTypes
        <5> QED BY <4>1, <5>1 DEF DataTypes, SetCompleted
      <4>2. CASE UNCHANGED runDocVars
        BY <4>2 DEF DataTypes, runDocVars
      <4> QED BY <3>1, <4>1, <4>2
    <3>3. rerror' \subseteq Runs /\ resultId' \subseteq Runs /\ resultPath' \subseteq Runs
      BY <3>1 DEF DataTypes, SetCompleted, runDocVars
    <3> QED BY <2>7, <3>2, <3>3 DEF DataTypes, WriteCompleted, loadVars, saveVars, storeVars
  <2>8. CASE WriteFailed(r)
    BY <2>8 DEF DataTypes, WriteFailed, SetStatus, loadVars, runDocVars, saveVars, storeVars
  <2>9. CASE ExpireResult(r)
    BY <2>9 DEF DataTypes, ExpireResult, Expire, loadVars, runDocVars, saveVars
  <2> QED BY <1>3, <2>1, <2>2, <2>3, <2>4, <2>5, <2>6, <2>7, <2>8, <2>9 DEF Task, Source
<1>4. CASE Configure \/ (\E g \in Guests : GuestEnters(g) \/ GuestLeaves(g)) \/ UNCHANGED vars
  BY <1>1, <1>4 DEF DataTypes, Configure, GuestEnters, GuestLeaves, vars, saveVars
<1>5. CASE RestartServer
  BY <1>1, <1>5 DEF DataTypes, RestartServer
<1> QED BY <1>2, <1>3, <1>4, <1>5 DEF Next

\* The run whose step it is.
LEMMA ResultActor ==
    ASSUME SemInv, DataTypes, NEW r \in Runs, ResultInv(r),
           Client(r) \/ Task(r) \/ Source(r) \/ ExpireResult(r)
    PROVE  ResultInv(r)'
<1> USE DEF ResultInv, DataTypes, SemInv, PlaceTypes
<1>0. NoRows \notin Nat /\ \A n \in Nat : n # NoRows
  BY DEF NoRows
<1>1. ASSUME NEW place, Raise(r) \/ WakeOthers(r, place)
      PROVE  task'[r] \in {"failing", place}
  BY <1>1, WakeEffect DEF Raise
<1>2. CASE run_process(r)
  BY <1>2 DEF run_process, MoveTask, SetStatus, saveVars, storeVars
<1>3. CASE \/ save_results_to_gcp(r) \/ UploadTable(r) \/ RecordResultPath(r)
           \/ reload_results_from_gcp(r) \/ StoreReloaded(r)
  <2>1. /\ UNCHANGED <<task, frame, copied, rstatus, rcount, rerror, resultId>>
        /\ \/ parquet' = parquet
           \/ \E c \in client[r] : upload_parquet(r, c.table)
        /\ \/ UNCHANGED storeVars
           \/ \E c \in client[r] : store_result(r, c.table)
    BY <1>3, ClientEffect
  <2>2. frame[r] # NoRows
    BY <1>0
  <2>3. /\ parquet'[r] = parquet[r] \/ (r \in stored /\ parquet'[r] = frame[r])
        /\ parquet[r] # NoRows => parquet'[r] # NoRows
    BY <2>1, <2>2 DEF upload_parquet
  <2>4. \/ UNCHANGED storeVars
        \/ /\ r \in stored /\ rows'[r] = frame[r] /\ stored' = stored
           /\ live' = live \cup {r}
    <3>1. ASSUME NEW c \in client[r], store_result(r, c.table)
          PROVE  /\ r \in stored /\ rows'[r] = frame[r] /\ stored' = stored
                 /\ live' = live \cup {r}
      BY <3>1 DEF store_result
    <3> QED BY <2>1, <3>1
  <2>5. r \in resultPath' => parquet[r] # NoRows
    BY <1>3, ClientEffect
  <2>6. ASSUME NEW c \in client'[r]
        PROVE  r \in stored /\ c.table = frame[r] /\ (c.next = "record" => parquet'[r] # NoRows)
    <3>1. CASE c \in client[r]
      BY <2>3, <3>1
    <3>2. CASE c.next = "upload" /\ Found(r) /\ c.table = rows[r]
      BY <3>2 DEF Found
    <3>3. CASE c.next = "store" /\ r \in resultPath /\ c.table = parquet[r]
      BY <3>3
    <3>4. CASE /\ c.next = "record" /\ parquet'[r] = c.table
               /\ \E d \in client[r] : d.next = "upload" /\ d.table = c.table
      BY <2>2, <3>4
    <3> QED BY <1>3, <3>1, <3>2, <3>3, <3>4, ClientEffect
  <2> QED BY <2>1, <2>2, <2>3, <2>4, <2>5, <2>6 DEF storeVars
<1>7. CASE EnterBlock(r)
  BY <1>7 DEF EnterBlock, MoveTask, runDocVars, saveVars, storeVars
<1>8. CASE WriteRunning(r)
  <2>1. task[r] = "starting" /\ task'[r] \in {"loading", "failing"}
    BY <1>1, <1>8 DEF WriteRunning, MoveTask
  <2> QED BY <1>8, <2>1 DEF WriteRunning, SetStatus, runDocVars, saveVars, storeVars
<1>9. CASE LoadConfig(r)
  <2>1. task[r] = "loading" /\ task'[r] \in {"executing", "failing"}
    BY <1>1, <1>9 DEF LoadConfig, MissingDocument, FromCopy, NoCopy, FromDocument, Executes,
                      MoveTask
  <2> QED BY <1>9, <2>1 DEF LoadConfig, runDocVars, saveVars, storeVars
<1>10. CASE Execute(r)
  <2>1. task[r] = "executing" /\ task'[r] = "computed"
    BY <1>10 DEF Execute, MoveTask
  <2>2. frame'[r] <= MaxResultRows
    BY <1>10, CapType, ProcessRunAssumption DEF Execute
  <2> QED BY <1>10, <2>1, <2>2 DEF Execute, runDocVars, saveVars, storeVars
<1>11. CASE ExecuteFails(r) \/ Timeout(r) \/ Closed(r)
  <2>1. task[r] \in {"executing", "closing"} /\ task'[r] \in {"closing", "failing"}
    BY <1>1, <1>11 DEF ExecuteFails, Timeout, Closed, MoveTask
  <2> QED BY <1>11, <2>1 DEF ExecuteFails, Timeout, Closed, runDocVars, saveVars, storeVars
<1>12. CASE StoreResult(r)
  <2>1. /\ task[r] = "computed"
        /\ \/ task'[r] = "stored" /\ store_result(r, frame[r])
           \/ task'[r] = "failing" /\ (store_result(r, frame[r]) \/ UNCHANGED storeVars)
    BY <1>1, <1>12 DEF StoreResult, MoveTask
  <2> QED BY <1>12, <2>1 DEF StoreResult, store_result, runDocVars, saveVars, storeVars
<1>13. CASE SaveResult(r)
  <2>1. task[r] = "stored" /\ task'[r] = "saved"
    BY <1>13 DEF SaveResult, MoveTask
  <2> QED BY <1>0, <1>13, <2>1 DEF SaveResult, upload_parquet, runDocVars, storeVars
<1>14. CASE WriteCompleted(r)
  <2>1. task[r] \in {"stored", "saved"} /\ task'[r] \in {"done", "failing"}
    BY <1>1, <1>14 DEF WriteCompleted
  <2> QED BY <1>14, <2>1 DEF WriteCompleted, SetCompleted, runDocVars, saveVars, storeVars
<1>15. CASE WriteFailed(r)
  <2>1. /\ task[r] = "failing"
        /\ \/ task'[r] = "done" /\ SetStatus(r, "failed")
           \/ task'[r] = "abandoned" /\ UNCHANGED runDocVars
    BY <1>15 DEF WriteFailed, MoveTask
  <2> QED BY <1>15, <2>1 DEF WriteFailed, SetStatus, runDocVars, saveVars, storeVars
<1>16. CASE ExpireResult(r)
  BY <1>16 DEF ExpireResult, Expire, runDocVars, saveVars
<1> QED BY <1>2, <1>3, <1>7, <1>8, <1>9, <1>10, <1>11, <1>12, <1>13, <1>14,
           <1>15, <1>16 DEF Client, Task, Source

LEMMA ResultInvStep ==
    ASSUME SemInv, DataTypes, \A r \in Runs : ResultInv(r), [Next]_vars
    PROVE  \A r \in Runs : ResultInv(r)'
<1>1. ASSUME NEW r \in Runs, Client(r) \/ Task(r) \/ Source(r) \/ ExpireResult(r)
      PROVE  \A t \in Runs : ResultInv(t)'
  BY <1>1, Bystanders, ResultBystander, ResultActor
<1>2. CASE Configure \/ UNCHANGED vars
  BY <1>2 DEF Configure, vars, ResultInv, runDocVars, saveVars, storeVars
<1>3. ASSUME NEW g \in Guests, GuestEnters(g) \/ GuestLeaves(g)
      PROVE  \A t \in Runs : ResultInv(t)'
  <2> SUFFICES ASSUME NEW t \in Runs PROVE Bystander(t)
    BY ResultBystander
  <2>1. UNCHANGED <<loadVars, frame, runDocVars, saveVars, storeVars>>
    BY <1>3 DEF GuestEnters, GuestLeaves
  <2>2. t # g
    BY ProcessRunAssumption
  <2>3. task'[t] = task[t] \/ (task[t] = "queued" /\ task'[t] = "starting")
    BY <1>3, <2>2, WakeEffect DEF GuestEnters, GuestLeaves
  <2> QED BY <2>1, <2>3 DEF Bystander, SameData, loadVars, runDocVars, saveVars, storeVars
<1>4. CASE RestartServer
  <2>1. /\ UNCHANGED <<frame, runDocVars, parquet, copied, storeVars>>
        /\ \A t \in Runs : /\ task'[t] = IF task[t] \in Working THEN "abandoned" ELSE task[t]
                           /\ client'[t] = {}
    BY <1>4 DEF RestartServer
  <2>2. \A t \in Runs : task'[t] # task[t] => task[t] \in Working /\ task'[t] = "abandoned"
    BY <2>1
  <2> QED BY <2>1, <2>2 DEF ResultInv, runDocVars, storeVars, Working, InSlot
<1> QED BY <1>1, <1>2, <1>3, <1>4 DEF Next

\* The invariant of the whole.
RunsInv ==
    /\ Inv
    /\ SemInv
    /\ DataTypes
    /\ \A r \in Runs : ResultInv(r)

LEMMA RunsInvInit == Init => RunsInv
<1> SUFFICES ASSUME Init PROVE RunsInv
  OBVIOUS
<1>1. Inv /\ SemInv
  BY InvInit, SemInit DEF Init
<1>2. DataTypes
  BY DEF Init, DataTypes, StoreInit, NotUsed, Paths, NoRows, Sources
<1>3. ASSUME NEW r \in Runs PROVE ResultInv(r)
  <2>1. frame[r] <= MaxResultRows
    BY ProcessRunAssumption DEF Init
  <2> QED BY <2>1 DEF Init, StoreInit, ResultInv
<1> QED BY <1>1, <1>2, <1>3 DEF RunsInv

LEMMA RunsInvStep == RunsInv /\ [Next]_vars => RunsInv'
<1> SUFFICES ASSUME RunsInv, [Next]_vars PROVE RunsInv'
  OBVIOUS
<1>1. Inv'
  BY StepsConfigure, InvStep DEF RunsInv
<1> QED BY <1>1, SemStep, DataTypesStep, ResultInvStep DEF RunsInv

LEMMA RunsInvAlways == Spec => []RunsInv
  BY RunsInvInit, RunsInvStep, PTL DEF Spec

\* Every variable of the runs has its type.
THEOREM RunTypesCorrect == Spec => []RunTypeOK
<1>1. RunsInv => RunTypeOK
  BY DEF RunsInv, SemInv, PlaceTypes, GuestPlaces, DataTypes, ClientSteps, RunTypeOK
<1> QED BY <1>1, RunsInvAlways, PTL

\* A completed run has its table under its id, with the row count it tells and
\* within the limit, and never an error.
THEOREM CompletedHasItsResult == Spec => []CompletedHasResult
<1>1. RunsInv => CompletedHasResult
  BY DEF RunsInv, ResultInv, CompletedHasResult
<1> QED BY <1>1, RunsInvAlways, PTL

\* Redis and GCS hold the table the run computed, whatever the order of the
\* task's own save, the expiries, and any number of clients' saves and reloads,
\* which may overlap one another.
THEOREM SavedTablesMatch == Spec => []SavedTableMatches
<1>1. RunsInv => SavedTableMatches
  BY DEF RunsInv, ResultInv, SavedTableMatches
<1> QED BY <1>1, RunsInvAlways, PTL

-----------------------------------------------------------------------------
(* The version a run executes.                                                 *)

LoadInv(r) ==
    /\ asked[r] <= Len(written)
    /\ task[r] = "absent" => used[r] = NotUsed
    /\ used[r].from = "mongodb" => used[r].version \in asked[r]..Len(written)
    /\ used[r].from = "gcp" /\ used[r].version # Foreign => used[r].version \in DOMAIN copies

LEMMA LoadKept ==
    ASSUME RunsInv, [ConfigNext]_confVars, NEW t \in Runs, LoadInv(t),
           asked'[t] = asked[t], used'[t] = used[t], task'[t] = "absent" => task[t] = "absent"
    PROVE  LoadInv(t)'
<1>1. /\ Len(written) \in Nat /\ Len(written') \in Nat /\ Len(written) <= Len(written')
      /\ DOMAIN copies \subseteq DOMAIN copies'
  BY HistoryGrows DEF RunsInv
<1>2. asked[t] \in Nat
  BY DEF RunsInv, DataTypes
<1> QED BY <1>1, <1>2 DEF LoadInv

LEMMA LoadInvStep ==
    ASSUME RunsInv, \A r \in Runs : LoadInv(r), [Next]_vars
    PROVE  \A r \in Runs : LoadInv(r)'
<1>0. [ConfigNext]_confVars
  BY StepsConfigure
<1>1. ASSUME UNCHANGED <<asked, used>>, \A t \in Runs : task'[t] = "absent" => task[t] = "absent"
      PROVE  \A r \in Runs : LoadInv(r)'
  BY <1>0, <1>1, LoadKept
<1>2. ASSUME NEW r \in Runs, Client(r) \/ Task(r) \/ Source(r) \/ ExpireResult(r),
             NEW t \in Runs, t # r
      PROVE  LoadInv(t)'
  <2>1. Bystander(t)
    BY <1>2, Bystanders DEF RunsInv
  <2> QED BY <1>0, <2>1, LoadKept DEF Bystander, SameData
<1>3. ASSUME NEW r \in Runs, Client(r) \/ Task(r) \/ Source(r) \/ ExpireResult(r)
      PROVE  LoadInv(r)'
  <2>0. /\ doc.version = Len(written) /\ doc.version \in Nat
        /\ asked \in [Runs -> Nat]
        /\ used \in [Runs -> [from : {"nowhere", "mongodb", "gcp"}, version : Paths]]
        /\ task \in [Runs -> Places]
    BY DEF RunsInv, Inv, HistoryInv, ConfigTypeOK, Docs, DataTypes, SemInv, PlaceTypes
  <2>1. CASE run_process(r)
    <3>1. /\ task[r] = "absent" /\ asked'[r] = doc.version /\ UNCHANGED <<used, confVars>>
          /\ task'[r] # "absent"
      BY <2>0, <2>1 DEF run_process, MoveTask
    <3>2. used[r] = NotUsed
      BY <3>1 DEF LoadInv
    <3> QED BY <2>0, <3>1, <3>2 DEF LoadInv, NotUsed, confVars
  <2>2. CASE LoadConfig(r)
    <3>1. /\ task[r] = "loading" /\ UNCHANGED <<asked, confVars>>
      BY <2>2 DEF LoadConfig
    <3>2. task'[r] # "absent"
      BY <2>0, <2>2, WakeEffect DEF LoadConfig, MissingDocument, FromCopy, NoCopy,
         FromDocument, Executes, MoveTask, Raise, RunsInv
    <3>3. \/ used'[r] = used[r]
          \/ used'[r] = [from |-> "mongodb", version |-> doc.version]
          \/ /\ doc.path \in DOMAIN copies \cup {Foreign}
             /\ used'[r] = [from |-> "gcp", version |-> doc.path]
      BY <2>0, <2>2 DEF LoadConfig, MissingDocument, FromCopy, NoCopy, FromDocument, Executes
    <3>4. asked[r] <= doc.version /\ asked[r] \in Nat
      BY <2>0 DEF LoadInv
    <3> QED BY <2>0, <3>1, <3>2, <3>3, <3>4 DEF LoadInv, confVars
  <2>3. CASE ~run_process(r) /\ ~LoadConfig(r)
    <3>1. asked' = asked /\ used' = used
      BY <1>3, <2>3 DEF Client, save_results_to_gcp, UploadTable, RecordResultPath,
         reload_results_from_gcp, StoreReloaded, StepClient, Task, EnterBlock, WriteRunning,
         Timeout, StoreResult, SaveResult, WriteCompleted, WriteFailed, Source, Execute,
         ExecuteFails, Closed, ExpireResult, loadVars
    <3>2. task'[r] = "absent" => task[r] = "absent"
      <4>1. task' = task \/ task'[r] # "absent"
        <5>1. CASE Client(r) \/ ExpireResult(r)
          BY <2>0, <2>3, <5>1 DEF Client, save_results_to_gcp, UploadTable, RecordResultPath,
             reload_results_from_gcp, StoreReloaded, StepClient, ExpireResult
        <5>2. CASE Task(r) \/ Source(r)
          BY <2>0, <2>3, <5>2, WakeEffect DEF Task, EnterBlock, WriteRunning, Timeout,
             StoreResult, SaveResult, WriteCompleted, WriteFailed, Source, Execute,
             ExecuteFails, Closed, MoveTask, Raise, RunsInv
        <5> QED BY <1>3, <5>1, <5>2
      <4> QED BY <4>1
    <3> QED BY <1>0, <3>1, <3>2, LoadKept
  <2> QED BY <2>1, <2>2, <2>3
<1>4. ASSUME NEW g \in Guests, GuestEnters(g) \/ GuestLeaves(g)
      PROVE  \A r \in Runs : LoadInv(r)'
  <2>1. UNCHANGED <<asked, used>>
    BY <1>4 DEF GuestEnters, GuestLeaves, loadVars
  <2>2. \A t \in Runs : t # g
    BY ProcessRunAssumption
  <2>3. \A t \in Runs : task'[t] = "absent" => task[t] = "absent"
    BY <1>4, <2>2, WakeEffect DEF GuestEnters, GuestLeaves, RunsInv
  <2> QED BY <1>1, <2>1, <2>3
<1>5. CASE Configure \/ RestartServer \/ UNCHANGED vars
  <2>1. UNCHANGED <<asked, used>>
    BY <1>5 DEF Configure, RestartServer, vars, loadVars
  <2>2. \A t \in Runs : task'[t] = "absent" => task[t] = "absent"
    BY <1>5 DEF Configure, RestartServer, vars
  <2> QED BY <1>1, <2>1, <2>2
<1> QED BY <1>2, <1>3, <1>4, <1>5 DEF Next

\* A run executes a version that was written, no older than the one its client
\* saw unless it comes from a copy, and a copy has the content of its version.
THEOREM RunsExecuteWrittenVersions == Spec => []ExecutesWrittenVersion
<1> DEFINE LInv == \A r \in Runs : LoadInv(r)
<1>1. Init => LInv
  <2>1. Init => Len(written) = 0
    BY EmptySeq DEF Init, ConfigInit
  <2> QED BY <2>1 DEF Init, LoadInv, NotUsed
<1>2. RunsInv /\ LInv => ExecutesWrittenVersion
  BY DEF RunsInv, Inv, CopyMatchesVersion, LoadInv, ExecutesWrittenVersion
<1>3. RunsInv /\ LInv /\ [Next]_vars => LInv'
  BY LoadInvStep
<1> QED BY <1>1, <1>2, <1>3, RunsInvAlways, PTL DEF Spec

\* Where nothing fails and no two requests on the configuration have overlapped,
\* an "auto" run that loads between requests executes the current version, from
\* the document or from its copy.
THEOREM AutoRunsUseCurrentVersion == Spec => AutoUsesCurrentVersion
<1> DEFINE Current == \A r \in Runs :
             /\ task[r] = "loading" /\ task'[r] = "executing"
             /\ option[r].source = "auto"
             /\ ~faults /\ Quiescent /\ ~overlapped
             => used'[r].version = doc.version
<1>1. ASSUME RunsInv, PathCurrentUnlessOverlapped, Next PROVE Current
  <2> SUFFICES ASSUME NEW r \in Runs, task[r] = "loading", task'[r] = "executing",
                      option[r].source = "auto", ~faults, Quiescent, ~overlapped
               PROVE  used'[r].version = doc.version
    OBVIOUS
  <2>1. LoadConfig(r)
    <3>1. ASSUME NEW t \in Runs, Client(t) \/ Task(t) \/ Source(t) \/ ExpireResult(t)
          PROVE  t = r
      BY <1>1, <3>1, TaskLeavesOthers DEF RunsInv
    <3>2. ASSUME NEW g \in Guests, GuestEnters(g) \/ GuestLeaves(g)
          PROVE  task'[r] # "executing"
      <4>1. r # g
        BY ProcessRunAssumption
      <4> QED BY <1>1, <3>2, <4>1, WakeEffect DEF GuestEnters, GuestLeaves, RunsInv
    <3>3. ~(Configure \/ RestartServer)
      BY DEF Configure, RestartServer
    <3>4. Client(r) \/ Task(r) \/ Source(r) \/ ExpireResult(r)
      BY <1>1, <3>1, <3>2, <3>3 DEF Next
    <3> QED BY <3>4 DEF Client, run_process, save_results_to_gcp, UploadTable, RecordResultPath,
           reload_results_from_gcp, StoreReloaded, StepClient, Task, EnterBlock, WriteRunning,
           Timeout, StoreResult, SaveResult, WriteCompleted, WriteFailed, Source, Execute,
           ExecuteFails, Closed, ExpireResult
  <2>2. used \in [Runs -> [from : {"nowhere", "mongodb", "gcp"}, version : Paths]]
    BY <1>1 DEF RunsInv, DataTypes
  <2>3. ~Raise(r)
    BY <1>1, WakeEffect DEF Raise, RunsInv
  <2>4. FromCopy(r) \/ NoCopy(r) \/ FromDocument(r)
    BY <2>1, <2>3 DEF LoadConfig, MissingDocument
  <2>5. CASE FromCopy(r)
    <3>1. present /\ doc.dest = "gcp" /\ used'[r].version = doc.path
      BY <2>2, <2>5 DEF FromCopy, TriesCopy, PrefersCopy, Executes
    <3> QED BY <1>1, <3>1 DEF PathCurrentUnlessOverlapped
  <2>6. CASE NoCopy(r) \/ FromDocument(r)
    BY <2>2, <2>3, <2>6 DEF NoCopy, FromDocument, Executes
  <2> QED BY <2>4, <2>5, <2>6
<1>2. RunsInv /\ PathCurrentUnlessOverlapped /\ [Next]_vars => [Current]_vars
  BY <1>1
<1>3. Spec => [][Current]_vars
  BY <1>2, RunsInvAlways, RunsRespectConfig, PathsCurrent, PTL DEF Spec
<1> QED BY <1>3 DEF AutoUsesCurrentVersion

-----------------------------------------------------------------------------
(* The life of a run.                                                          *)

\* The status in the document follows the task; behind a task that failed it
\* may say more, or less, than the task knows, if a write has raised.
LifeInv(r) ==
    /\ task[r] = "absent" => rstatus[r] = "none"
    /\ task[r] \in {"created", "queued", "starting"} => rstatus[r] = "pending"
    /\ task[r] \in InSlot \ {"starting"} => rstatus[r] = "running"
    /\ task[r] = "failing" =>
         rstatus[r] = "running" \/ (faults /\ rstatus[r] \in {"pending", "completed"})
    /\ rcount[r] # NoRows => task[r] \in {"failing", "done", "abandoned"}

Table == [r \in Runs |-> IF r \in stored THEN rows[r] ELSE NoRows]

Settled == {r \in Runs : task[r] = "done"}

\* What a step of a run does to its life: it stutters, as far as RunLifecycle
\* tells, or is one of its steps.
LifeStep(r) ==
    \/ /\ \/ task'[r] = task[r]
          \/ task[r] = "created" /\ task'[r] \in {"queued", "starting"}
          \/ /\ task[r] \in {"loading", "executing", "closing", "computed", "stored"}
             /\ task'[r] \in {"executing", "closing", "computed", "saved", "failing"}
       /\ rstatus' = rstatus /\ rcount' = rcount /\ Table' = Table
    \/ /\ task[r] = "absent" /\ task'[r] = "created"
       /\ rstatus' = [rstatus EXCEPT ![r] = "pending"] /\ rcount' = rcount /\ Table' = Table
    \/ /\ task[r] = "starting" /\ task'[r] = "loading"
       /\ rstatus' = [rstatus EXCEPT ![r] = "running"] /\ rcount' = rcount /\ Table' = Table
    \/ /\ task[r] = "computed" /\ task'[r] \in {"stored", "failing"}
       /\ rstatus' = rstatus /\ rcount' = rcount /\ Table' = [Table EXCEPT ![r] = frame[r]]
    \/ /\ task[r] \in {"stored", "saved"} /\ task'[r] = "done"
       /\ rstatus' = [rstatus EXCEPT ![r] = "completed"]
       /\ rcount' = [rcount EXCEPT ![r] = frame[r]] /\ Table' = Table
    \/ /\ task[r] = "failing" /\ task'[r] = "done"
       /\ rstatus' = [rstatus EXCEPT ![r] = "failed"] /\ rcount' = rcount /\ Table' = Table

\* What it may do besides where MongoDB fails: the task goes on as if the write
\* that raised had not been made, whether or not it has.
LostReply(r) ==
    /\ faults
    /\ Table' = Table
    /\ \/ /\ task[r] = "absent" /\ task'[r] = "abandoned"
          /\ rstatus' = [rstatus EXCEPT ![r] = "pending"] /\ rcount' = rcount
       \/ /\ task[r] \in {"starting", "stored", "saved"} /\ task'[r] = "failing"
          /\ rstatus' = rstatus /\ rcount' = rcount
       \/ /\ task[r] = "starting" /\ task'[r] = "failing"
          /\ rstatus' = [rstatus EXCEPT ![r] = "running"] /\ rcount' = rcount
       \/ /\ task[r] \in {"stored", "saved"} /\ task'[r] = "failing"
          /\ rstatus' = [rstatus EXCEPT ![r] = "completed"]
          /\ rcount' = [rcount EXCEPT ![r] = frame[r]]
       \/ /\ task[r] = "failing" /\ task'[r] = "abandoned"
          /\ rstatus' = rstatus /\ rcount' = rcount

\* Only the first store of a table, by the task, shows: a reload brings the same
\* table back.
LEMMA StoreShows ==
    ASSUME RunsInv, NEW r \in Runs, NEW n, store_result(r, n)
    PROVE  /\ Table' = [Table EXCEPT ![r] = n]
           /\ r \in stored /\ n = frame[r] => Table' = Table
<1>1. rows' = [rows EXCEPT ![r] = n] /\ stored' = stored \cup {r} /\ rows \in [Runs -> Nat]
  BY DEF store_result, RunsInv, DataTypes
<1>2. r \in stored => rows[r] = frame[r]
  BY DEF RunsInv, ResultInv
<1> QED BY <1>1, <1>2 DEF Table

LEMMA LifeActor ==
    ASSUME RunsInv, NEW r \in Runs,
           Client(r) \/ Task(r) \/ Source(r) \/ ExpireResult(r)
    PROVE  LifeStep(r) \/ LostReply(r)
<1>0. task \in [Runs -> Places] /\ ResultInv(r) /\ SemInv
  BY DEF RunsInv, SemInv, PlaceTypes
<1>1. ASSUME NEW place, WakeOthers(r, place) PROVE task'[r] = place
  BY <1>0, <1>1, WakeEffect
<1>2. ASSUME UNCHANGED storeVars PROVE Table' = Table
  BY <1>2 DEF Table, storeVars
<1>3. CASE run_process(r)
  BY <1>0, <1>2, <1>3 DEF run_process, MoveTask, SetStatus, LifeStep, LostReply
<1>4. CASE \/ save_results_to_gcp(r) \/ UploadTable(r) \/ RecordResultPath(r)
           \/ reload_results_from_gcp(r) \/ StoreReloaded(r)
  <2>1. /\ UNCHANGED <<task, rstatus, rcount>>
        /\ \/ UNCHANGED storeVars
           \/ \E c \in client[r] : store_result(r, c.table)
    BY <1>4, ClientEffect DEF RunsInv
  <2>2. \A c \in client[r] : r \in stored /\ c.table = frame[r]
    BY <1>0 DEF ResultInv
  <2>3. Table' = Table
    BY <1>2, <2>1, <2>2, StoreShows
  <2> QED BY <2>1, <2>3 DEF LifeStep
<1>6. CASE EnterBlock(r) \/ Execute(r)
  BY <1>0, <1>2, <1>6 DEF EnterBlock, Execute, MoveTask, runDocVars, LifeStep
<1>7. CASE WriteRunning(r)
  <2>1. CASE SetStatus(r, "running") /\ MoveTask(r, "loading")
    BY <1>0, <1>2, <1>7, <2>1 DEF WriteRunning, MoveTask, SetStatus, LifeStep
  <2>2. CASE faults /\ Raise(r) /\ (SetStatus(r, "running") \/ UNCHANGED runDocVars)
    BY <1>1, <1>2, <1>7, <2>2 DEF WriteRunning, SetStatus, Raise, runDocVars, LostReply
  <2> QED BY <1>7, <2>1, <2>2 DEF WriteRunning
<1>8. CASE LoadConfig(r)
  <2>1. task[r] = "loading" /\ task'[r] \in {"executing", "failing"}
    BY <1>0, <1>1, <1>8 DEF LoadConfig, MissingDocument, FromCopy, NoCopy, FromDocument,
                            Executes, MoveTask, Raise
  <2> QED BY <1>2, <1>8, <2>1 DEF LoadConfig, runDocVars, LifeStep
<1>9. CASE ExecuteFails(r) \/ Timeout(r) \/ Closed(r)
  <2>1. task[r] \in {"executing", "closing"} /\ task'[r] \in {"closing", "failing"}
    BY <1>0, <1>1, <1>9 DEF ExecuteFails, Timeout, Closed, MoveTask, Raise
  <2> QED BY <1>2, <1>9, <2>1 DEF ExecuteFails, Timeout, Closed, runDocVars, LifeStep
<1>10. CASE StoreResult(r)
  <2>1. task[r] = "computed" /\ task'[r] \in {"stored", "failing"}
    BY <1>0, <1>1, <1>10 DEF StoreResult, MoveTask, Raise
  <2>2. Table' = [Table EXCEPT ![r] = frame[r]] \/ (Table' = Table /\ task'[r] = "failing")
    BY <1>0, <1>1, <1>2, <1>10, StoreShows DEF StoreResult, Raise
  <2> QED BY <1>10, <2>1, <2>2 DEF StoreResult, runDocVars, LifeStep
<1>11. CASE SaveResult(r)
  BY <1>0, <1>2, <1>11 DEF SaveResult, MoveTask, runDocVars, LifeStep
<1>12. CASE WriteCompleted(r)
  <2>1. task[r] \in {"stored", "saved"} /\ Table' = Table
    BY <1>2, <1>12 DEF WriteCompleted
  <2>2. \/ task'[r] = "done" /\ SetCompleted(r)
        \/ faults /\ task'[r] = "failing" /\ (SetCompleted(r) \/ UNCHANGED runDocVars)
    BY <1>1, <1>12 DEF WriteCompleted, Raise
  <2> QED BY <2>1, <2>2 DEF SetCompleted, runDocVars, LifeStep, LostReply
<1>13. CASE WriteFailed(r)
  BY <1>0, <1>2, <1>13 DEF WriteFailed, MoveTask, SetStatus, runDocVars, LifeStep, LostReply
<1>14. CASE ExpireResult(r)
  BY <1>14 DEF ExpireResult, Expire, runDocVars, Table, LifeStep
<1> QED BY <1>3, <1>4, <1>6, <1>7, <1>8, <1>9, <1>10, <1>11, <1>12, <1>13, <1>14
        DEF Client, Task, Source

\* Whether anything may fail does not change.
LEMMA FaultsKept == [Next]_vars => faults' = faults
<1>1. [ConfigNext]_confVars => faults' = faults
  BY DEF ConfigNext, confVars
<1> QED BY <1>1, StepsConfigure

LEMMA LifeInvStep ==
    ASSUME RunsInv, \A r \in Runs : LifeInv(r), [Next]_vars
    PROVE  \A r \in Runs : LifeInv(r)'
<1>0. /\ rstatus \in [Runs -> {"none", "pending", "running", "completed", "failed"}]
      /\ rcount \in [Runs -> Nat \cup {NoRows}]
  BY DEF RunsInv, DataTypes
<1>1. ASSUME NEW t \in Runs, rstatus'[t] = rstatus[t], rcount'[t] = rcount[t],
             \/ task'[t] = task[t]
             \/ task[t] = "queued" /\ task'[t] = "starting"
             \/ task'[t] = "abandoned"
      PROVE  LifeInv(t)'
  BY <1>1, FaultsKept DEF LifeInv, InSlot
<1>2. ASSUME NEW r \in Runs, Client(r) \/ Task(r) \/ Source(r) \/ ExpireResult(r),
             NEW t \in Runs
      PROVE  LifeInv(t)'
  <2>1. CASE t # r
    <3>1. Bystander(t)
      BY <1>2, <2>1, Bystanders DEF RunsInv
    <3> QED BY <1>1, <3>1 DEF Bystander, SameData
  <2>2. CASE t = r
    <3>1. LifeStep(r) \/ LostReply(r)
      BY <1>2, LifeActor
    <3>2. CASE LifeStep(r)
      BY <1>0, <2>2, <3>2, FaultsKept DEF LifeStep, LifeInv, InSlot
    <3>3. CASE LostReply(r)
      BY <1>0, <2>2, <3>3, FaultsKept DEF LostReply, LifeInv, InSlot
    <3> QED BY <3>1, <3>2, <3>3
  <2> QED BY <2>1, <2>2
<1>3. ASSUME NEW g \in Guests, GuestEnters(g) \/ GuestLeaves(g), NEW t \in Runs
      PROVE  LifeInv(t)'
  <2>1. t # g /\ rstatus' = rstatus /\ rcount' = rcount
    BY <1>3, ProcessRunAssumption DEF GuestEnters, GuestLeaves, runDocVars
  <2>2. task'[t] = task[t] \/ (task[t] = "queued" /\ task'[t] = "starting")
    BY <1>3, <2>1, WakeEffect DEF GuestEnters, GuestLeaves, RunsInv
  <2> QED BY <1>1, <2>1, <2>2
<1>4. CASE Configure \/ UNCHANGED vars
  BY <1>1, <1>4 DEF Configure, vars, runDocVars
<1>5. CASE RestartServer
  <2>1. rstatus' = rstatus /\ rcount' = rcount
        /\ \A t \in Runs : task'[t] = task[t] \/ task'[t] = "abandoned"
    BY <1>5 DEF RestartServer, runDocVars
  <2> QED BY <1>1, <2>1
<1> QED BY <1>2, <1>3, <1>4, <1>5 DEF Next

\* A step of one run settles at most that run.
LEMMA SettledStep ==
    ASSUME NEW r \in Runs, \A t \in Runs \ {r} : Bystander(t)
    PROVE  Settled' = IF task'[r] = "done" THEN Settled \cup {r} ELSE Settled \ {r}
<1>1. \A t \in Runs \ {r} : t \in Settled' <=> t \in Settled
  BY DEF Bystander, Settled
<1> QED BY <1>1 DEF Settled

LEMMA LifecycleStep ==
    ASSUME RunsInv, NEW r \in Runs, LifeInv(r), LifeStep(r), faults' = faults,
           \A t \in Runs \ {r} : Bystander(t)
    PROVE  \/ \/ Lifecycle!Create(r) \/ Lifecycle!Begin(r) \/ Lifecycle!Publish(r)
              \/ Lifecycle!Complete(r) \/ Lifecycle!Fail(r)
           \/ UNCHANGED <<rstatus, rcount, Table, Settled, faults>>
<1>0. /\ ResultInv(r) /\ frame[r] \in Nat /\ frame[r] # NoRows /\ MaxResultRows \in Nat
  BY ProcessRunAssumption DEF RunsInv, DataTypes, NoRows
<1>2. r \in Settled <=> task[r] = "done"
  BY DEF Settled
<1>3. Settled' = IF task'[r] = "done" THEN Settled \cup {r} ELSE Settled \ {r}
  BY SettledStep
<1>4. Table[r] = IF r \in stored THEN rows[r] ELSE NoRows
  BY DEF Table
<1>5. CASE /\ \/ task'[r] = task[r]
              \/ task[r] = "created" /\ task'[r] \in {"queued", "starting"}
              \/ /\ task[r] \in {"loading", "executing", "closing", "computed", "stored"}
                 /\ task'[r] \in {"executing", "closing", "computed", "saved", "failing"}
           /\ rstatus' = rstatus /\ rcount' = rcount /\ Table' = Table
  <2>1. Settled' = Settled
    BY <1>2, <1>3, <1>5
  <2> QED BY <1>5, <2>1
<1>6. CASE /\ task[r] = "absent" /\ task'[r] = "created"
           /\ rstatus' = [rstatus EXCEPT ![r] = "pending"] /\ rcount' = rcount /\ Table' = Table
  <2>1. Settled' = Settled /\ rstatus[r] = "none"
    BY <1>2, <1>3, <1>6 DEF LifeInv
  <2> QED BY <1>6, <2>1 DEF Lifecycle!Create, Settled, Table
<1>7. CASE /\ task[r] = "starting" /\ task'[r] = "loading"
           /\ rstatus' = [rstatus EXCEPT ![r] = "running"] /\ rcount' = rcount /\ Table' = Table
  <2>1. Settled' = Settled /\ r \notin Settled /\ rstatus[r] = "pending" /\ Table[r] = NoRows
    BY <1>0, <1>2, <1>3, <1>4, <1>7 DEF LifeInv, ResultInv
  <2> QED BY <1>7, <2>1 DEF Lifecycle!Begin, Settled, Table
<1>8. CASE /\ task[r] = "computed" /\ task'[r] \in {"stored", "failing"}
           /\ rstatus' = rstatus /\ rcount' = rcount /\ Table' = [Table EXCEPT ![r] = frame[r]]
  <2>1. Settled' = Settled /\ r \notin Settled /\ rstatus[r] = "running" /\ Table[r] = NoRows
    BY <1>0, <1>2, <1>3, <1>4, <1>8 DEF LifeInv, ResultInv, InSlot
  <2>2. frame[r] \in 0..MaxResultRows
    BY <1>0 DEF ResultInv
  <2> QED BY <1>8, <2>1, <2>2 DEF Lifecycle!Publish, Settled, Table
<1>9. CASE /\ task[r] \in {"stored", "saved"} /\ task'[r] = "done"
           /\ rstatus' = [rstatus EXCEPT ![r] = "completed"]
           /\ rcount' = [rcount EXCEPT ![r] = frame[r]] /\ Table' = Table
  <2>1. Settled' = Settled \cup {r} /\ r \notin Settled /\ rstatus[r] = "running"
    BY <1>2, <1>3, <1>9 DEF LifeInv, InSlot
  <2>2. Table[r] = frame[r] /\ Table[r] # NoRows /\ rcount[r] = NoRows
    BY <1>0, <1>4, <1>9 DEF ResultInv, LifeInv
  <2> QED BY <1>9, <2>1, <2>2 DEF Lifecycle!Complete, Lifecycle!TellCompleted, Settled, Table
<1>10. CASE /\ task[r] = "failing" /\ task'[r] = "done"
            /\ rstatus' = [rstatus EXCEPT ![r] = "failed"] /\ rcount' = rcount /\ Table' = Table
  <2>1. /\ Settled' = Settled \cup {r} /\ r \notin Settled
        /\ rstatus[r] = "running" \/ (faults /\ rstatus[r] \in {"pending", "completed"})
    BY <1>2, <1>3, <1>10 DEF LifeInv
  <2> QED BY <1>10, <2>1 DEF Lifecycle!Fail, Settled, Table
<1> QED BY <1>5, <1>6, <1>7, <1>8, <1>9, <1>10 DEF LifeStep

\* What the task does not hear of still is a step of RunLifecycle.
LEMMA LostReplyStep ==
    ASSUME RunsInv, NEW r \in Runs, LifeInv(r), LostReply(r), faults' = faults,
           \A t \in Runs \ {r} : Bystander(t)
    PROVE  \/ Lifecycle!Create(r) \/ Lifecycle!Begin(r) \/ Lifecycle!CompleteUnheard(r)
           \/ UNCHANGED <<rstatus, rcount, Table, Settled, faults>>
<1>0. /\ ResultInv(r) /\ frame[r] \in Nat /\ frame[r] # NoRows
  BY DEF RunsInv, DataTypes, NoRows
<1>1. faults /\ Table' = Table /\ Settled' = Settled /\ r \notin Settled
  <2>1. task[r] # "done" /\ task'[r] # "done"
    BY DEF LostReply
  <2> QED BY <2>1, SettledStep DEF LostReply, Settled
<1>2. Table[r] = IF r \in stored THEN rows[r] ELSE NoRows
  BY DEF Table
<1>3. CASE /\ task[r] = "absent"
           /\ rstatus' = [rstatus EXCEPT ![r] = "pending"] /\ rcount' = rcount
  <2>1. rstatus[r] = "none"
    BY <1>3 DEF LifeInv
  <2> QED BY <1>1, <1>3, <2>1 DEF Lifecycle!Create, Settled, Table
<1>4. CASE /\ task[r] = "starting"
           /\ rstatus' = [rstatus EXCEPT ![r] = "running"] /\ rcount' = rcount
  <2>1. rstatus[r] = "pending" /\ Table[r] = NoRows
    BY <1>0, <1>2, <1>4 DEF LifeInv, ResultInv
  <2> QED BY <1>1, <1>4, <2>1 DEF Lifecycle!Begin, Settled, Table
<1>5. CASE /\ task[r] \in {"stored", "saved"}
           /\ rstatus' = [rstatus EXCEPT ![r] = "completed"]
           /\ rcount' = [rcount EXCEPT ![r] = frame[r]]
  <2>1. rstatus[r] = "running" /\ rcount[r] = NoRows /\ Table[r] = frame[r] /\ Table[r] # NoRows
    BY <1>0, <1>2, <1>5 DEF LifeInv, ResultInv, InSlot
  <2> QED BY <1>1, <1>5, <2>1
          DEF Lifecycle!CompleteUnheard, Lifecycle!TellCompleted, Settled, Table
<1> QED BY <1>1, <1>3, <1>4, <1>5 DEF LostReply

\* Process runs behave as RunLifecycle says, whatever fails: one table, then one
\* outcome, for each run; saving and reloading a table, and all that happens to
\* the configuration, do not show.
THEOREM RunsImplementLifecycle == Spec => ImplementsLifecycle
<1> DEFINE LInv == \A r \in Runs : LifeInv(r)
<1>1. Init => Lifecycle!Init
  <2>1. Init => faults \in BOOLEAN
    BY ConfigAssumption DEF Init, ConfigInit
  <2> QED BY <2>1 DEF Init, StoreInit, Lifecycle!Init
<1>2. Init => LInv
  BY DEF Init, LifeInv, InSlot
<1>3. ASSUME RunsInv, LInv, [Next]_vars
      PROVE  [Lifecycle!Next]_(Lifecycle!lifecycleVars)
  <2>0. faults' = faults
    BY <1>3, FaultsKept
  <2>1. ASSUME NEW r \in Runs, Client(r) \/ Task(r) \/ Source(r) \/ ExpireResult(r)
        PROVE  [Lifecycle!Next]_(Lifecycle!lifecycleVars)
    <3>1. (LifeStep(r) \/ LostReply(r)) /\ \A t \in Runs \ {r} : Bystander(t)
      BY <1>3, <2>1, LifeActor, Bystanders DEF RunsInv
    <3> QED BY <1>3, <2>0, <3>1, LifecycleStep, LostReplyStep
            DEF Lifecycle!Next, Lifecycle!lifecycleVars, Table, Settled
  <2>2. ASSUME NEW g \in Guests, GuestEnters(g) \/ GuestLeaves(g)
        PROVE  UNCHANGED Lifecycle!lifecycleVars
    <3>1. \A t \in Runs : t # g
      BY ProcessRunAssumption
    <3>2. \A t \in Runs : (task'[t] = "done") <=> (task[t] = "done")
      BY <1>3, <2>2, <3>1, WakeEffect DEF GuestEnters, GuestLeaves, RunsInv
    <3> QED BY <2>0, <2>2, <3>2 DEF GuestEnters, GuestLeaves, runDocVars, storeVars,
                                    Lifecycle!lifecycleVars
  <2>3. CASE Configure \/ UNCHANGED vars
    BY <2>0, <2>3 DEF Configure, vars, runDocVars, storeVars, Lifecycle!lifecycleVars
  <2>4. CASE RestartServer
    <3>1. \A t \in Runs : (task'[t] = "done") <=> (task[t] = "done")
      BY <2>4 DEF RestartServer, Working, InSlot
    <3> QED BY <2>0, <2>4, <3>1 DEF RestartServer, runDocVars, storeVars, Lifecycle!lifecycleVars
  <2> QED BY <1>3, <2>1, <2>2, <2>3, <2>4 DEF Next
<1>4. RunsInv /\ LInv /\ [Next]_vars
        => LInv' /\ [Lifecycle!Next]_(Lifecycle!lifecycleVars)
  BY <1>3, LifeInvStep
<1> QED BY <1>1, <1>2, <1>4, RunsInvAlways, PTL
        DEF Spec, ImplementsLifecycle, Lifecycle!Spec
=============================================================================

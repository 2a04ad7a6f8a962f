--------------------------- MODULE QueryRunsProofs ---------------------------
(* Proofs about QueryRuns, for every set of runs and every value of the        *)
(* constants.                                                                  *)
EXTENDS QueryRuns, FiniteSetTheorems, SequenceTheorems, TLAPS

-----------------------------------------------------------------------------
(* The semaphore.                                                              *)

\* The part of the state the slots depend on.  Holders is finite because every
\* holder was added by one step, not because Runs is.
SlotInv ==
    /\ pc \in [Runs -> PCs]
    /\ slots \in 0..MaxConcurrent
    /\ waiters \in Seq(Runs)
    /\ IsFiniteSet(Holders)
    /\ SlotAccounting
    /\ QueueSound

\* The oldest waiter is a queued task, and the rest of the queue is the queue
\* without it.
LEMMA QueueHead ==
    ASSUME SlotInv, waiters # <<>>
    PROVE  /\ Head(waiters) \in Runs
           /\ pc[Head(waiters)] = "queued"
           /\ Tail(waiters) \in Seq(Runs)
           /\ \A i, j \in 1..Len(Tail(waiters)) :
                 Tail(waiters)[i] = Tail(waiters)[j] => i = j
           /\ {Tail(waiters)[i] : i \in 1..Len(Tail(waiters))}
                 = {t \in Runs : pc[t] = "queued"} \ {Head(waiters)}
<1>1. /\ Len(waiters) \in Nat \ {0}
      /\ Head(waiters) = waiters[1]
      /\ Head(waiters) \in Runs
      /\ Tail(waiters) \in Seq(Runs)
      /\ Len(Tail(waiters)) = Len(waiters) - 1
      /\ \A i \in 1..Len(Tail(waiters)) : Tail(waiters)[i] = waiters[i + 1]
  BY HeadTailProperties, EmptySeq, LenProperties DEF SlotInv
<1>2. pc[Head(waiters)] = "queued"
  BY <1>1 DEF SlotInv, QueueSound
<1>3. \A i, j \in 1..Len(Tail(waiters)) :
         Tail(waiters)[i] = Tail(waiters)[j] => i = j
  BY <1>1 DEF SlotInv, QueueSound
<1>4. {Tail(waiters)[i] : i \in 1..Len(Tail(waiters))}
        = {waiters[i] : i \in 1..Len(waiters)} \ {Head(waiters)}
  <2>1. ASSUME NEW i \in 1..Len(Tail(waiters))
        PROVE  Tail(waiters)[i] \in
                 {waiters[k] : k \in 1..Len(waiters)} \ {Head(waiters)}
    <3>1. i + 1 \in 1..Len(waiters) /\ i + 1 # 1 /\ 1 \in 1..Len(waiters)
      BY <1>1
    <3>2. waiters[i + 1] # waiters[1]
      BY <3>1 DEF SlotInv, QueueSound
    <3> QED BY <1>1, <3>1, <3>2
  <2>2. ASSUME NEW k \in 1..Len(waiters), waiters[k] # Head(waiters)
        PROVE  waiters[k] \in {Tail(waiters)[i] : i \in 1..Len(Tail(waiters))}
    <3>1. k - 1 \in 1..Len(Tail(waiters)) /\ Tail(waiters)[k - 1] = waiters[k]
      BY <1>1, <2>2
    <3> QED BY <3>1
  <2> QED BY <2>1, <2>2
<1> QED BY <1>1, <1>2, <1>3, <1>4 DEF SlotInv, QueueSound

\* A step that leaves the semaphore alone and moves no task into or out of a
\* slot or the queue.
LEMMA SlotKept ==
    ASSUME SlotInv, UNCHANGED semVars, pc' \in [Runs -> PCs],
           \A t \in Runs : /\ pc'[t] \in InSlot <=> pc[t] \in InSlot
                           /\ pc'[t] = "queued" <=> pc[t] = "queued"
    PROVE  SlotInv'
<1>1. Holders' = Holders /\ {t \in Runs : pc'[t] = "queued"} = {t \in Runs : pc[t] = "queued"}
  BY DEF Holders
<1> QED BY <1>1 DEF SlotInv, SlotAccounting, QueueSound, semVars

\* A task that leaves the semaphore's block either frees a slot nobody waits
\* for or passes it on to the oldest waiter.
LEMMA SlotLeft ==
    ASSUME SlotInv, NEW r \in Runs, pc[r] \in InSlot,
           NEW next \in {"failing", "done"}, LeaveSlot(r, next)
    PROVE  SlotInv'
<1> USE DEF InSlot
<1>1. /\ IsFiniteSet(Holders \ {r})
      /\ Cardinality(Holders \ {r}) = Cardinality(Holders) - 1
      /\ Cardinality(Holders) \in Nat
  BY FS_RemoveElement, FS_CardinalityType DEF SlotInv, Holders
<1>2. slots \in Int /\ MaxConcurrent \in Nat
  BY MaxConcurrentAssumption DEF SlotInv
<1>3. CASE waiters = <<>>
  <2>1. /\ slots' = slots + 1 /\ waiters' = waiters
        /\ pc' = [t \in Runs |-> IF t = r THEN next ELSE pc[t]]
    BY <1>3 DEF LeaveSlot, Release, Woken
  <2>2. pc' \in [Runs -> PCs]
    BY <2>1 DEF SlotInv, PCs, Working, Over
  <2>3. Holders' = Holders \ {r}
    BY <2>1 DEF Holders
  <2>4. SlotAccounting'
    BY <1>1, <1>2, <2>1, <2>3 DEF SlotInv, SlotAccounting
  <2>5. slots' \in 0..MaxConcurrent
    <3>1. Cardinality(Holders') \in Nat
      BY <1>1, <2>3, FS_CardinalityType
    <3>2. slots + Cardinality(Holders) = MaxConcurrent /\ slots >= 0
      BY DEF SlotInv, SlotAccounting
    <3> QED BY <1>1, <1>2, <2>1, <2>3, <3>1, <3>2
  <2>6. QueueSound'
    <3>1. {t \in Runs : pc'[t] = "queued"} = {t \in Runs : pc[t] = "queued"}
      BY <2>1
    <3> QED BY <1>3, <2>1, <3>1 DEF SlotInv, QueueSound
  <2> QED BY <1>1, <2>1, <2>2, <2>3, <2>4, <2>5, <2>6 DEF SlotInv
<1>4. CASE waiters # <<>>
  <2> DEFINE h == Head(waiters)
  <2>1. h \in Runs /\ pc[h] = "queued" /\ h # r
    BY <1>4, QueueHead
  <2>2. /\ slots' = slots /\ waiters' = Tail(waiters)
        /\ pc' = [t \in Runs |-> IF t = r THEN next
                                 ELSE IF t = h THEN "starting" ELSE pc[t]]
    BY <1>4 DEF LeaveSlot, Release, Woken
  <2>3. pc' \in [Runs -> PCs]
    BY <2>2 DEF SlotInv, PCs, Working, Over
  <2>4. Holders' = (Holders \ {r}) \cup {h}
    BY <2>1, <2>2 DEF Holders
  <2>5. h \notin Holders
    BY <2>1 DEF Holders
  <2>6. IsFiniteSet(Holders') /\ Cardinality(Holders') = Cardinality(Holders)
    <3>1. /\ IsFiniteSet((Holders \ {r}) \cup {h})
          /\ Cardinality((Holders \ {r}) \cup {h}) = Cardinality(Holders \ {r}) + 1
      BY <1>1, <2>5, FS_AddElement
    <3> QED BY <1>1, <2>4, <3>1
  <2>7. QueueSound'
    <3>1. {t \in Runs : pc'[t] = "queued"} = {t \in Runs : pc[t] = "queued"} \ {h}
      BY <2>1, <2>2
    <3>2. slots' = 0
      BY <1>4, <2>2 DEF SlotInv, QueueSound
    <3> QED BY <1>4, <2>2, <3>1, <3>2, QueueHead DEF QueueSound
  <2>8. waiters' \in Seq(Runs)
    BY <1>4, <2>2, QueueHead
  <2> QED BY <2>2, <2>3, <2>6, <2>7, <2>8 DEF SlotInv, SlotAccounting
<1> QED BY <1>3, <1>4

LEMMA SlotInit == Init => SlotInv
<1> SUFFICES ASSUME Init PROVE SlotInv
  OBVIOUS
<1>1. Holders = {} /\ {r \in Runs : pc[r] = "queued"} = {}
  BY DEF Init, Holders, InSlot
<1>2. waiters = <<>> /\ Len(waiters) = 0 /\ slots = MaxConcurrent
  BY DEF Init, SemaphoreInit
<1>3. pc \in [Runs -> PCs] /\ waiters \in Seq(Runs)
  BY <1>2 DEF Init, PCs
<1>4. SlotAccounting
  BY <1>1, <1>2, FS_EmptySet, MaxConcurrentAssumption DEF SlotAccounting
<1>5. QueueSound
  BY <1>1, <1>2 DEF QueueSound
<1> QED BY <1>1, <1>2, <1>3, <1>4, <1>5, FS_EmptySet, MaxConcurrentAssumption DEF SlotInv

\* A task that finds a free slot and no queue takes the slot.
LEMMA SlotEntered ==
    ASSUME SlotInv, NEW r \in Runs, EnterSlot(r)
    PROVE  SlotInv'
<1>1. /\ slots > 0 /\ waiters = <<>> /\ slots' = slots - 1 /\ waiters' = waiters
      /\ pc[r] = "created" /\ pc' = [pc EXCEPT ![r] = "starting"]
  BY DEF EnterSlot, Acquire, CanAcquire
<1>2. pc' \in [Runs -> PCs]
  BY <1>1 DEF SlotInv, PCs, Working, InSlot
<1>3. Holders' = Holders \cup {r} /\ r \notin Holders
  BY <1>1, <1>2 DEF Holders, InSlot, SlotInv
<1>4. IsFiniteSet(Holders') /\ Cardinality(Holders') = Cardinality(Holders) + 1
  BY <1>3, FS_AddElement DEF SlotInv
<1>5. Cardinality(Holders) \in Nat /\ MaxConcurrent \in Nat
  BY FS_CardinalityType, MaxConcurrentAssumption DEF SlotInv
<1>6. slots' \in 0..MaxConcurrent /\ SlotAccounting'
  BY <1>1, <1>4, <1>5 DEF SlotInv, SlotAccounting
<1>7. QueueSound'
  <2>1. {t \in Runs : pc'[t] = "queued"} = {t \in Runs : pc[t] = "queued"}
    BY <1>1 DEF SlotInv
  <2> QED BY <1>1, <2>1 DEF SlotInv, QueueSound
<1> QED BY <1>1, <1>2, <1>4, <1>6, <1>7 DEF SlotInv

\* A task that finds none goes to the end of the queue, where it is not yet.
LEMMA SlotQueued ==
    ASSUME SlotInv, NEW r \in Runs, EnterQueue(r)
    PROVE  SlotInv'
<1>1. /\ ~(slots > 0 /\ waiters = <<>>) /\ slots' = slots
      /\ waiters' = Append(waiters, r)
      /\ pc[r] = "created" /\ pc' = [pc EXCEPT ![r] = "queued"]
  BY DEF EnterQueue, Wait, CanAcquire
<1>2. pc' \in [Runs -> PCs]
  BY <1>1 DEF SlotInv, PCs, Working
<1>3. Holders' = Holders
  BY <1>1 DEF SlotInv, Holders, InSlot
<1>4. /\ waiters' \in Seq(Runs) /\ Len(waiters') = Len(waiters) + 1
      /\ \A i \in 1..Len(waiters) : waiters'[i] = waiters[i]
      /\ waiters'[Len(waiters) + 1] = r
      /\ Len(waiters) \in Nat
  BY <1>1, AppendProperties, LenProperties DEF SlotInv
<1>5. \A i \in 1..Len(waiters) : waiters[i] # r
  BY <1>1 DEF SlotInv, QueueSound
<1>6. \A i, j \in 1..Len(waiters') : waiters'[i] = waiters'[j] => i = j
  BY <1>4, <1>5 DEF SlotInv, QueueSound
<1>7. {waiters'[i] : i \in 1..Len(waiters')} = {t \in Runs : pc'[t] = "queued"}
  <2>1. {waiters'[i] : i \in 1..Len(waiters')} = {waiters[i] : i \in 1..Len(waiters)} \cup {r}
    BY <1>4
  <2>2. {t \in Runs : pc'[t] = "queued"} = {t \in Runs : pc[t] = "queued"} \cup {r}
    BY <1>1 DEF SlotInv
  <2> QED BY <2>1, <2>2 DEF SlotInv, QueueSound
<1>8. slots' = 0
  BY <1>1 DEF SlotInv, QueueSound
<1>9. QueueSound'
  BY <1>6, <1>7, <1>8 DEF QueueSound
<1> QED BY <1>1, <1>2, <1>3, <1>4, <1>9 DEF SlotInv, SlotAccounting

\* A restart empties the slots and the queue together.
LEMMA SlotCrash ==
    ASSUME SlotInv, Crash
    PROVE  SlotInv'
<1>1. /\ slots' = MaxConcurrent /\ waiters' = <<>>
      /\ pc' = [r \in Runs |-> IF pc[r] \in Handling THEN "rejected"
                               ELSE IF pc[r] \in Working THEN "dead" ELSE pc[r]]
  BY DEF Crash
<1>2. pc' \in [Runs -> PCs]
  BY <1>1 DEF SlotInv, PCs, Over
<1>3. Holders' = {} /\ {t \in Runs : pc'[t] = "queued"} = {}
  BY <1>1 DEF Holders, Working, InSlot
<1>4. SlotAccounting' /\ slots' \in 0..MaxConcurrent
  BY <1>1, <1>3, FS_EmptySet, MaxConcurrentAssumption DEF SlotAccounting
<1>5. QueueSound' /\ waiters' \in Seq(Runs)
  BY <1>1, <1>3 DEF QueueSound
<1> QED BY <1>2, <1>3, <1>4, <1>5, FS_EmptySet DEF SlotInv

LEMMA SlotStep == SlotInv /\ [Next]_vars => SlotInv'
<1> SUFFICES ASSUME SlotInv, [Next]_vars PROVE SlotInv'
  OBVIOUS
<1> USE DEF InSlot
<1>1. ASSUME NEW r \in Runs, Request(r) PROVE SlotInv'
  <2>1. UNCHANGED semVars /\ pc' \in [Runs -> PCs]
    BY <1>1 DEF Request, Submit, RequestJoin, cancel_query, taskVars, docVars,
                SlotInv, PCs, Handling, Working, Over
  <2>2. \A t \in Runs : /\ pc'[t] \in InSlot <=> pc[t] \in InSlot
                        /\ pc'[t] = "queued" <=> pc[t] = "queued"
    BY <1>1 DEF Request, Submit, RequestJoin, cancel_query, SlotInv
  <2> QED BY <2>1, <2>2, SlotKept
<1>2. ASSUME NEW r \in Runs, Handler(r) PROVE SlotInv'
  <2>1. UNCHANGED semVars /\ pc' \in [Runs -> PCs]
    BY <1>2 DEF Handler, CheckLeft, CheckRight, CheckInput, InsertJoin,
                SlotInv, PCs, Handling, Working, Over
  <2>2. \A t \in Runs : /\ pc'[t] \in InSlot <=> pc[t] \in InSlot
                        /\ pc'[t] = "queued" <=> pc[t] = "queued"
    BY <1>2 DEF Handler, CheckLeft, CheckRight, CheckInput, InsertJoin, SlotInv
  <2> QED BY <2>1, <2>2, SlotKept
<1>3. ASSUME NEW r \in Runs, Task(r) PROVE SlotInv'
  <2>1. CASE EnterSlot(r)
    BY <2>1, SlotEntered
  <2>2. CASE EnterQueue(r)
    BY <2>2, SlotQueued
  <2>3. CASE UNCHANGED semVars /\ pc[r] \in InSlot
               /\ \E p \in InSlot : pc' = [pc EXCEPT ![r] = p]
    <3>1. pc' \in [Runs -> PCs]
      BY <2>3 DEF SlotInv, PCs, Working
    <3> QED BY <2>3, <3>1, SlotKept DEF SlotInv
  <2>4. CASE pc[r] \in InSlot /\ \E next \in {"failing", "done"} : LeaveSlot(r, next)
    BY <2>4, SlotLeft
  <2>5. CASE WriteFailed(r)
    <3>1. /\ UNCHANGED semVars /\ pc[r] = "failing"
          /\ \E p \in {"done", "abandoned"} : pc' = [pc EXCEPT ![r] = p]
      BY <2>5 DEF WriteFailed
    <3>2. pc' \in [Runs -> PCs]
      BY <3>1 DEF SlotInv, PCs, Over
    <3> QED BY <3>1, <3>2, SlotKept DEF SlotInv
  <2>6. \/ UNCHANGED semVars /\ pc[r] \in InSlot
             /\ \E p \in InSlot : pc' = [pc EXCEPT ![r] = p]
        \/ pc[r] \in InSlot /\ \E next \in {"failing", "done"} : LeaveSlot(r, next)
        \/ EnterSlot(r) \/ EnterQueue(r) \/ WriteFailed(r)
    <3>1. CASE WriteRunning(r)
      BY <3>1 DEF WriteRunning, Raise
    <3>2. CASE ReadInput(r)
      <4>1. CASE Found(Head(unread[r]))
        <5>1. pc' = pc /\ UNCHANGED semVars /\ pc[r] = "reading"
          BY <3>2, <4>1 DEF ReadInput
        <5> QED BY <5>1 DEF SlotInv
      <4>2. CASE ~Found(Head(unread[r]))
        BY <3>2, <4>2 DEF ReadInput, Raise
      <4> QED BY <4>1, <4>2
    <3>3. CASE StartFetch(r) \/ ComputeFrame(r)
      BY <3>3 DEF StartFetch, ComputeFrame, Fetched
    <3>4. CASE Timeout(r) \/ ComputeFails(r)
      BY <3>4 DEF Timeout, ComputeFails, Raise
    <3>5. CASE StoreResult(r)
      BY <3>5 DEF StoreResult, Raise
    <3>6. CASE WriteCompleted(r)
      BY <3>6 DEF WriteCompleted, Raise
    <3> QED BY <1>3, <3>1, <3>2, <3>3, <3>4, <3>5, <3>6 DEF Task
  <2> QED BY <2>1, <2>2, <2>3, <2>4, <2>5, <2>6
<1>4. ASSUME NEW r \in Runs, Source(r) PROVE SlotInv'
  <2>1. CASE Closed(r)
    BY <2>1, SlotLeft DEF Closed, Raise
  <2>2. ASSUME NEW side \in Sides, FetchFails(r, side) PROVE SlotInv'
    BY <2>2, SlotLeft DEF FetchFails, Raise
  <2>3. ASSUME NEW side \in Sides, FetchDone(r, side) \/ OrphanEnds(r, side)
        PROVE  SlotInv'
    <3>1. UNCHANGED <<pc, semVars>>
      BY <2>3 DEF FetchDone, OrphanEnds
    <3> QED BY <3>1, SlotKept DEF SlotInv
  <2> QED BY <1>4, <2>1, <2>2, <2>3 DEF Source
<1>5. CASE Crash
  BY <1>5, SlotCrash
<1>6. CASE UNCHANGED vars \/ \E r \in Runs : ExpireResult(r)
  <2>1. UNCHANGED <<pc, semVars>>
    BY <1>6 DEF vars, ExpireResult
  <2> QED BY <2>1, SlotKept DEF SlotInv
<1> QED BY <1>1, <1>2, <1>3, <1>4, <1>5, <1>6 DEF Next

\* Every exit of the semaphore's block gives back exactly one slot: the free
\* slots and the tasks inside the block make up the limit at all times.
THEOREM SlotsAccounted == Spec => []SlotAccounting
<1>1. SlotInv => SlotAccounting
  BY DEF SlotInv
<1> QED BY SlotInit, SlotStep, <1>1, PTL DEF Spec

\* No waiting task is ever lost, woken twice or passed over by a free slot.
THEOREM QueueIsSound == Spec => []QueueSound
<1>1. SlotInv => QueueSound
  BY DEF SlotInv
<1> QED BY SlotInit, SlotStep, <1>1, PTL DEF Spec

-----------------------------------------------------------------------------
(* Types.                                                                      *)

\* What TypeOK says beyond SlotInv.
DataTypes ==
    /\ kind \in [Runs -> Kinds]
    /\ inputs \in [Runs -> Seq(Runs)]
    /\ unread \in [Runs -> Seq(Runs)]
    /\ active \in [Runs -> SUBSET Sides]
    /\ df \in [Runs -> Nat]
    /\ status \in [Runs -> Statuses]
    /\ rowCount \in [Runs -> Nat \cup {NoRows}]
    /\ error \subseteq Runs
    /\ crashes \in 0..MaxCrashes
    /\ live \subseteq Runs
    /\ stored \subseteq Runs
    /\ rows \in [Runs -> Nat]

LEMMA RefsAreSequences ==
    ASSUME NEW refs \in Refs
    PROVE  /\ refs \in Seq(Runs)
           /\ \A i \in 1..Len(refs) : refs[i] \in Documented
<1>1. PICK n \in 0..MaxRefs : refs \in [1..n -> Documented]
  BY DEF Refs
<1>2. n \in Nat
  BY QueryAssumption
<1>3. refs \in Seq(Documented) /\ Len(refs) = n
  BY <1>1, <1>2
<1>4. Documented \subseteq Runs
  BY DEF Documented
<1> QED BY <1>1, <1>2, <1>3, <1>4

LEMMA DataTypesInit == Init => DataTypes
  BY QueryAssumption DEF Init, StoreInit, DataTypes, Kinds, Statuses, NoRows, Sides

LEMMA DataTypesStep == SlotInv /\ DataTypes /\ [Next]_vars => DataTypes'
<1> SUFFICES ASSUME SlotInv, DataTypes, [Next]_vars PROVE DataTypes'
  OBVIOUS
<1> USE DEF DataTypes
<1>1. ASSUME NEW r \in Runs, Request(r) PROVE DataTypes'
  <2>1. CASE Submit(r)
    <3>1. PICK k \in Kinds, refs \in Refs :
            /\ kind' = [kind EXCEPT ![r] = k]
            /\ inputs' = [inputs EXCEPT ![r] = refs]
            /\ unread' = [unread EXCEPT ![r] = refs]
      BY <2>1 DEF Submit
    <3>2. refs \in Seq(Runs)
      BY RefsAreSequences
    <3>3. /\ status' = [status EXCEPT ![r] = "pending"]
          /\ UNCHANGED <<active, df, rowCount, error, crashes, live, stored, rows>>
      BY <2>1 DEF Submit, InsertRun, storeVars
    <3>4. "pending" \in Statuses
      BY DEF Statuses
    <3> QED BY <3>1, <3>2, <3>3, <3>4
  <2>2. CASE RequestJoin(r)
    <3>1. PICK left, right \in Documented :
            /\ inputs' = [inputs EXCEPT ![r] = <<left, right>>]
            /\ unread' = [unread EXCEPT ![r] = <<left, right>>]
      BY <2>2 DEF RequestJoin
    <3>2. <<left, right>> \in Seq(Runs)
      BY DEF Documented
    <3>3. /\ kind' = [kind EXCEPT ![r] = "join_results"]
          /\ UNCHANGED <<active, df, status, rowCount, error, crashes, live, stored, rows>>
      BY <2>2 DEF RequestJoin, docVars, storeVars
    <3>4. "join_results" \in Kinds
      BY DEF Kinds
    <3> QED BY <3>1, <3>2, <3>3, <3>4
  <2>3. CASE cancel_query(r)
    BY <2>3 DEF cancel_query, update_query_run, Statuses, Terminal, taskVars, storeVars
  <2> QED BY <1>1, <2>1, <2>2, <2>3 DEF Request
<1>2. ASSUME NEW r \in Runs, Handler(r) PROVE DataTypes'
  <2>1. CASE CheckLeft(r) \/ CheckRight(r)
    BY <2>1 DEF CheckLeft, CheckRight, CheckInput, taskVars, docVars, storeVars
  <2>2. CASE InsertJoin(r)
    BY <2>2 DEF InsertJoin, InsertRun, Statuses, taskVars, storeVars
  <2> QED BY <1>2, <2>1, <2>2 DEF Handler
<1>3. ASSUME NEW r \in Runs, Task(r) PROVE DataTypes'
  <2>1. CASE EnterSlot(r) \/ EnterQueue(r)
    BY <2>1 DEF EnterSlot, EnterQueue, taskVars, docVars, storeVars
  <2>2. CASE WriteRunning(r)
    BY <2>2 DEF WriteRunning, update_query_run, Statuses, taskVars, docVars, storeVars
  <2>3. CASE ReadInput(r)
    <3>1. Tail(unread[r]) \in Seq(Runs)
      BY <2>3, HeadTailProperties DEF ReadInput
    <3>2. \/ unread' = [unread EXCEPT ![r] = Tail(@)]
          \/ UNCHANGED unread
      BY <2>3 DEF ReadInput
    <3> QED BY <2>3, <3>1, <3>2 DEF ReadInput, docVars, storeVars
  <2>4. CASE StartFetch(r)
    BY <2>4 DEF StartFetch, SidesOf, Sides, docVars, storeVars
  <2>5. CASE Timeout(r) \/ ComputeFails(r)
    BY <2>5 DEF Timeout, ComputeFails, taskVars, docVars, storeVars
  <2>6. CASE ComputeFrame(r)
    BY <2>6, QueryAssumption DEF ComputeFrame, Cap, docVars, storeVars
  <2>7. CASE StoreResult(r)
    BY <2>7 DEF StoreResult, store_result, taskVars, docVars, storeVars
  <2>8. CASE WriteCompleted(r)
    BY <2>8 DEF WriteCompleted, update_query_run, Statuses, Terminal, taskVars, docVars, storeVars
  <2>9. CASE WriteFailed(r)
    BY <2>9 DEF WriteFailed, update_query_run, Statuses, Terminal, taskVars, docVars, storeVars
  <2> QED BY <1>3, <2>1, <2>2, <2>3, <2>4, <2>5, <2>6, <2>7, <2>8, <2>9 DEF Task
<1>4. ASSUME NEW r \in Runs, Source(r) PROVE DataTypes'
  BY <1>4 DEF Source, FetchDone, FetchFails, OrphanEnds, Closed, docVars, storeVars
<1>5. CASE Crash
  BY <1>5, QueryAssumption DEF Crash, docVars, storeVars
<1>6. ASSUME NEW r \in Runs, ExpireResult(r) PROVE DataTypes'
  BY <1>6 DEF ExpireResult, Expire, taskVars, docVars
<1>7. CASE UNCHANGED vars
  BY <1>7 DEF vars, taskVars, docVars, storeVars
<1> QED BY <1>1, <1>2, <1>3, <1>4, <1>5, <1>6, <1>7 DEF Next

\* Every variable has its type in every reachable state.
THEOREM TypeCorrect == Spec => []TypeOK
<1>1. SlotInv /\ DataTypes => TypeOK
  BY DEF SlotInv, DataTypes, TypeOK
<1> QED BY SlotInit, SlotStep, DataTypesInit, DataTypesStep, <1>1, PTL DEF Spec

-----------------------------------------------------------------------------
(* The document and the result of one run.                                     *)

Unborn == {"absent", "rejected"} \cup Handling

\* The strengthening of CompletedHasResult and DerivedFromStored: what a run's
\* task still has to read, and how far it is, bound what can be in the document
\* and in the store.
RunInv(t) ==
    /\ status[t] = "none" <=> pc[t] \in Unborn
    /\ \A i \in 1..Len(inputs[t]) :
         /\ inputs[t][i] # t
         /\ \/ inputs[t][i] \in stored
            \/ \E j \in 1..Len(unread[t]) : unread[t][j] = inputs[t][i]
    /\ pc[t] \in {"fetching", "computed", "stored"} => unread[t] = <<>>
    /\ t \in stored => pc[t] \in {"stored", "failing"} \cup Over /\ unread[t] = <<>>
    /\ pc[t] = "stored" => t \in stored /\ rows[t] = df[t]
    /\ df[t] <= MaxResultRows /\ rows[t] <= MaxResultRows
    /\ t \in error => pc[t] = "done" /\ status[t] # "completed"
    /\ status[t] = "completed" => t \in stored /\ rowCount[t] = rows[t]

IInv ==
    /\ SlotInv
    /\ DataTypes
    /\ live \subseteq stored
    /\ \A t \in Runs : RunInv(t)

\* What a step of another run may do to run t: at most hand it a slot.
Bystander(t) ==
    /\ pc'[t] = pc[t] \/ (pc[t] = "queued" /\ pc'[t] = "starting")
    /\ inputs'[t] = inputs[t] /\ unread'[t] = unread[t] /\ df'[t] = df[t]
    /\ status'[t] = status[t] /\ rowCount'[t] = rowCount[t]
    /\ t \in error' <=> t \in error
    /\ t \in stored' <=> t \in stored
    /\ rows'[t] = rows[t]
    /\ stored \subseteq stored'

LEMMA BystanderKeeps ==
    ASSUME NEW t \in Runs, RunInv(t), Bystander(t)
    PROVE  RunInv(t)'
  BY DEF RunInv, Bystander, Unborn, Handling, Over

\* Leaving the slot changes the place of the run itself and at most wakes one
\* that is queued.
LEMMA LeaveEffect ==
    ASSUME SlotInv, NEW r \in Runs, NEW next, LeaveSlot(r, next)
    PROVE  /\ pc'[r] = next
           /\ \A t \in Runs \ {r} :
                pc'[t] = pc[t] \/ (pc[t] = "queued" /\ pc'[t] = "starting")
<1>1. \A t \in Woken : pc[t] = "queued"
  BY QueueHead DEF Woken
<1> QED BY <1>1 DEF LeaveSlot

LEMMA Bystanders ==
    ASSUME SlotInv, DataTypes, NEW r \in Runs,
           Request(r) \/ Handler(r) \/ Task(r) \/ Source(r) \/ ExpireResult(r),
           NEW t \in Runs, t # r
    PROVE  Bystander(t)
<1> USE DEF Bystander, taskVars, docVars, storeVars
<1>1. CASE Request(r)
  BY <1>1 DEF Request, Submit, RequestJoin, cancel_query, InsertRun, update_query_run,
              SlotInv, DataTypes
<1>2. CASE Handler(r)
  BY <1>2 DEF Handler, CheckLeft, CheckRight, CheckInput, InsertJoin, InsertRun,
              SlotInv, DataTypes
<1>3. CASE Task(r)
  <2>1. CASE EnterSlot(r) \/ EnterQueue(r)
    BY <2>1 DEF EnterSlot, EnterQueue, SlotInv, DataTypes
  <2>2. CASE WriteRunning(r)
    BY <2>2, LeaveEffect DEF WriteRunning, Raise, update_query_run, SlotInv, DataTypes
  <2>3. CASE ReadInput(r)
    <3>1. \/ unread' = [unread EXCEPT ![r] = Tail(@)] /\ pc' = pc
          \/ unread' = unread /\ LeaveSlot(r, "failing")
      BY <2>3 DEF ReadInput, Raise
    <3>2. UNCHANGED <<inputs, df, status, rowCount, error, stored, rows>>
      BY <2>3 DEF ReadInput
    <3> QED BY <3>1, <3>2, LeaveEffect DEF DataTypes
  <2>4. CASE StartFetch(r) \/ ComputeFrame(r)
    BY <2>4 DEF StartFetch, ComputeFrame, SlotInv, DataTypes
  <2>5. CASE Timeout(r) \/ ComputeFails(r)
    BY <2>5, LeaveEffect DEF Timeout, ComputeFails, Raise, SlotInv
  <2>6. CASE StoreResult(r)
    BY <2>6, LeaveEffect DEF StoreResult, Raise, store_result, SlotInv, DataTypes
  <2>7. CASE WriteCompleted(r)
    BY <2>7, LeaveEffect DEF WriteCompleted, Raise, update_query_run, SlotInv, DataTypes
  <2>8. CASE WriteFailed(r)
    BY <2>8 DEF WriteFailed, update_query_run, SlotInv, DataTypes
  <2> QED BY <1>3, <2>1, <2>2, <2>3, <2>4, <2>5, <2>6, <2>7, <2>8 DEF Task
<1>4. CASE Source(r)
  BY <1>4, LeaveEffect DEF Source, FetchDone, FetchFails, OrphanEnds, Closed, Raise
<1>5. CASE ExpireResult(r)
  BY <1>5 DEF ExpireResult, Expire
<1> QED BY <1>1, <1>2, <1>3, <1>4, <1>5

LEMMA IInvInit == Init => IInv
<1> SUFFICES ASSUME Init PROVE IInv
  OBVIOUS
<1>1. \A t \in Runs : RunInv(t)
  BY QueryAssumption DEF Init, StoreInit, RunInv, Unborn, Handling, NoRows
<1>2. live \subseteq stored
  BY DEF Init, StoreInit
<1> QED BY <1>1, <1>2, SlotInit, DataTypesInit DEF IInv

\* The run that makes the step keeps its own part of the invariant.
LEMMA ActorKeeps ==
    ASSUME IInv, NEW r \in Runs,
           Request(r) \/ Handler(r) \/ Task(r) \/ Source(r) \/ ExpireResult(r)
    PROVE  RunInv(r)'
<1> USE DEF taskVars, docVars, storeVars
<1>0. RunInv(r) /\ SlotInv /\ DataTypes
  BY DEF IInv
<1>1. CASE Request(r)
  <2>1. CASE Submit(r)
    <3>1. PICK refs \in Refs :
            /\ inputs' = [inputs EXCEPT ![r] = refs]
            /\ unread' = [unread EXCEPT ![r] = refs]
      BY <2>1 DEF Submit
    <3>2. \A i \in 1..Len(refs) : refs[i] \in Documented
      BY RefsAreSequences
    <3>3. status[r] = "none"
      BY <1>0, <2>1 DEF Submit, RunInv, Unborn
    <3>4. \A i \in 1..Len(refs) : refs[i] # r
      BY <3>2, <3>3 DEF Documented
    <3>5. /\ inputs'[r] = refs /\ unread'[r] = refs /\ status'[r] = "pending"
          /\ pc[r] = "absent" /\ pc'[r] \in {"created", "abandoned"}
          /\ UNCHANGED <<df, rowCount, error, live, stored, rows>>
      BY <1>0, <2>1, <3>1 DEF Submit, InsertRun, SlotInv, DataTypes
    <3> QED BY <1>0, <3>4, <3>5 DEF RunInv, Unborn, Handling, Over
  <2>2. CASE RequestJoin(r)
    <3>1. PICK left, right \in Documented :
            /\ inputs' = [inputs EXCEPT ![r] = <<left, right>>]
            /\ unread' = [unread EXCEPT ![r] = <<left, right>>]
      BY <2>2 DEF RequestJoin
    <3>2. status[r] = "none"
      BY <1>0, <2>2 DEF RequestJoin, RunInv, Unborn
    <3>3. left # r /\ right # r
      BY <3>2 DEF Documented
    <3>4. /\ inputs'[r] = <<left, right>> /\ unread'[r] = <<left, right>>
          /\ pc[r] = "absent" /\ pc'[r] = "checkLeft"
          /\ UNCHANGED <<df, status, rowCount, error, live, stored, rows>>
      BY <1>0, <2>2, <3>1 DEF RequestJoin, SlotInv, DataTypes
    <3> QED BY <1>0, <3>3, <3>4 DEF RunInv, Unborn, Handling, Over
  <2>3. CASE cancel_query(r)
    <3>1. /\ status[r] # "none" /\ status'[r] = "cancelled"
          /\ UNCHANGED <<pc, inputs, unread, df, rowCount, error, live, stored, rows>>
      BY <1>0, <2>3 DEF cancel_query, update_query_run, Documented, DataTypes, NoRows
    <3> QED BY <1>0, <3>1 DEF RunInv
  <2> QED BY <1>1, <2>1, <2>2, <2>3 DEF Request
<1>2. CASE Handler(r)
  <2>1. CASE CheckLeft(r) \/ CheckRight(r)
    <3>1. /\ pc[r] \in Handling /\ pc'[r] \in {"checkRight", "insert", "rejected"}
          /\ UNCHANGED <<inputs, unread, df, status, rowCount, error, live, stored, rows>>
      BY <1>0, <2>1 DEF CheckLeft, CheckRight, CheckInput, Handling, SlotInv
    <3> QED BY <1>0, <3>1 DEF RunInv, Unborn, Handling, Over
  <2>2. CASE InsertJoin(r)
    <3>1. /\ pc[r] = "insert" /\ pc'[r] \in {"created", "abandoned"}
          /\ status'[r] = "pending"
          /\ UNCHANGED <<inputs, unread, df, rowCount, error, live, stored, rows>>
      BY <1>0, <2>2 DEF InsertJoin, InsertRun, SlotInv, DataTypes
    <3> QED BY <1>0, <3>1 DEF RunInv, Unborn, Handling, Over
  <2> QED BY <1>2, <2>1, <2>2 DEF Handler
<1>3. CASE Task(r)
  <2>1. CASE EnterSlot(r) \/ EnterQueue(r)
    <3>1. /\ pc[r] = "created" /\ pc'[r] \in {"starting", "queued"}
          /\ UNCHANGED <<inputs, unread, df, status, rowCount, error, live, stored, rows>>
      BY <1>0, <2>1 DEF EnterSlot, EnterQueue, SlotInv
    <3> QED BY <1>0, <3>1 DEF RunInv, Unborn, Handling, Over
  <2>2. CASE WriteRunning(r)
    <3>1. /\ pc[r] = "starting" /\ pc'[r] \in {"reading", "failing"}
          /\ status'[r] \in {status[r], "running"}
          /\ UNCHANGED <<inputs, unread, df, rowCount, error, live, stored, rows>>
      BY <1>0, <2>2, LeaveEffect DEF WriteRunning, Raise, update_query_run, SlotInv,
                                    DataTypes, NoRows
    <3> QED BY <1>0, <3>1 DEF RunInv, Unborn, Handling, Over
  <2>3. CASE ReadInput(r)
    <3>1. /\ pc[r] = "reading" /\ unread[r] # <<>>
          /\ UNCHANGED <<inputs, df, status, rowCount, error, live, stored, rows>>
      BY <2>3 DEF ReadInput
    <3>2. CASE Found(Head(unread[r]))
      <4>1. pc' = pc /\ unread'[r] = Tail(unread[r])
        BY <1>0, <2>3, <3>2 DEF ReadInput, DataTypes
      <4>2. Head(unread[r]) \in stored
        BY <3>2 DEF Found, IInv
      <4>3. ASSUME NEW j \in 1..Len(unread[r]), unread[r][j] \notin stored
            PROVE  \E m \in 1..Len(Tail(unread[r])) : Tail(unread[r])[m] = unread[r][j]
        <5>1. /\ Len(unread[r]) \in Nat /\ Head(unread[r]) = unread[r][1]
              /\ Len(Tail(unread[r])) = Len(unread[r]) - 1
              /\ \A m \in 1..Len(Tail(unread[r])) : Tail(unread[r])[m] = unread[r][m + 1]
          BY <1>0, <3>1, HeadTailProperties, LenProperties DEF DataTypes
        <5>2. j # 1
          BY <4>2, <4>3, <5>1
        <5>3. j - 1 \in 1..Len(Tail(unread[r])) /\ Tail(unread[r])[j - 1] = unread[r][j]
          BY <5>1, <5>2
        <5> QED BY <5>3
      <4> QED BY <1>0, <3>1, <4>1, <4>3 DEF RunInv, Unborn, Over
    <3>3. CASE ~Found(Head(unread[r]))
      <4>1. pc'[r] = "failing" /\ unread' = unread
        BY <1>0, <2>3, <3>3, LeaveEffect DEF ReadInput, Raise
      <4> QED BY <1>0, <3>1, <4>1 DEF RunInv, Unborn, Handling, Over
    <3> QED BY <3>2, <3>3
  <2>4. CASE StartFetch(r)
    <3>1. /\ pc[r] = "reading" /\ unread[r] = <<>> /\ pc'[r] = "fetching"
          /\ UNCHANGED <<inputs, unread, df, status, rowCount, error, live, stored, rows>>
      BY <1>0, <2>4 DEF StartFetch, SlotInv
    <3> QED BY <1>0, <3>1 DEF RunInv, Unborn, Handling, Over
  <2>5. CASE Timeout(r) \/ ComputeFails(r)
    <3>1. /\ pc[r] \in {"reading", "fetching"} /\ pc'[r] \in {"closing", "failing"}
          /\ UNCHANGED <<inputs, unread, df, status, rowCount, error, live, stored, rows>>
      BY <1>0, <2>5, LeaveEffect DEF Timeout, ComputeFails, Raise, SlotInv
    <3> QED BY <1>0, <3>1 DEF RunInv, Unborn, Handling, Over
  <2>6. CASE ComputeFrame(r)
    <3>1. /\ pc[r] \in {"reading", "fetching"} /\ pc'[r] = "computed"
          /\ pc[r] = "reading" => unread[r] = <<>>
          /\ df'[r] <= MaxResultRows
          /\ UNCHANGED <<inputs, unread, status, rowCount, error, live, stored, rows>>
      BY <1>0, <2>6, QueryAssumption DEF ComputeFrame, Fetched, Cap, SlotInv, DataTypes
    <3> QED BY <1>0, <3>1 DEF RunInv, Unborn, Handling, Over
  <2>7. CASE StoreResult(r)
    <3>1. /\ pc[r] = "computed" /\ pc'[r] \in {"stored", "failing"}
          /\ \/ stored' = stored \cup {r} /\ rows'[r] = df[r]
             \/ stored' = stored /\ rows' = rows /\ pc'[r] = "failing"
          /\ UNCHANGED <<inputs, unread, df, status, rowCount, error>>
      BY <1>0, <2>7, LeaveEffect DEF StoreResult, Raise, store_result, SlotInv, DataTypes
    <3> QED BY <1>0, <3>1 DEF RunInv, Unborn, Handling, Over
  <2>8. CASE WriteCompleted(r)
    <3>1. /\ pc[r] = "stored" /\ pc'[r] \in {"done", "failing"}
          /\ \/ status'[r] = "completed" /\ rowCount'[r] = df[r]
             \/ status' = status /\ rowCount' = rowCount
          /\ UNCHANGED <<inputs, unread, df, error, live, stored, rows>>
      BY <1>0, <2>8, LeaveEffect DEF WriteCompleted, Raise, update_query_run, SlotInv,
                                    DataTypes, NoRows
    <3> QED BY <1>0, <3>1 DEF RunInv, Unborn, Handling, Over
  <2>9. CASE WriteFailed(r)
    <3>1. /\ pc[r] = "failing"
          /\ \/ status'[r] = "failed" /\ pc'[r] = "done" /\ rowCount' = rowCount
             \/ pc'[r] = "abandoned" /\ UNCHANGED <<status, rowCount, error>>
          /\ UNCHANGED <<inputs, unread, df, live, stored, rows>>
      BY <1>0, <2>9 DEF WriteFailed, update_query_run, SlotInv, DataTypes, NoRows
    <3> QED BY <1>0, <3>1 DEF RunInv, Unborn, Handling, Over
  <2> QED BY <1>3, <2>1, <2>2, <2>3, <2>4, <2>5, <2>6, <2>7, <2>8, <2>9 DEF Task
<1>4. CASE Source(r)
  <2>1. /\ \/ pc'[r] = pc[r]
           \/ pc[r] \in {"fetching", "closing"} /\ pc'[r] = "failing"
        /\ UNCHANGED <<inputs, unread, df, status, rowCount, error, live, stored, rows>>
    BY <1>0, <1>4, LeaveEffect DEF Source, FetchDone, FetchFails, OrphanEnds, Closed, Raise
  <2> QED BY <1>0, <2>1 DEF RunInv, Unborn, Handling, Over
<1>5. CASE ExpireResult(r)
  <2>1. UNCHANGED <<pc, inputs, unread, df, status, rowCount, error, stored, rows>>
    BY <1>5 DEF ExpireResult, Expire
  <2> QED BY <1>0, <2>1 DEF RunInv
<1> QED BY <1>1, <1>2, <1>3, <1>4, <1>5

LEMMA CrashKeeps ==
    ASSUME IInv, Crash, NEW t \in Runs
    PROVE  RunInv(t)'
<1>1. /\ pc'[t] = IF pc[t] \in Handling THEN "rejected"
                  ELSE IF pc[t] \in Working THEN "dead" ELSE pc[t]
      /\ UNCHANGED <<inputs, unread, df, status, rowCount, error, live, stored, rows>>
  BY DEF Crash, docVars, storeVars
<1>2. RunInv(t) /\ pc[t] \in PCs
  BY DEF IInv, SlotInv
<1> QED BY <1>1, <1>2 DEF RunInv, Unborn, Handling, Working, InSlot, Over, PCs

LEMMA IInvStep == IInv /\ [Next]_vars => IInv'
<1> SUFFICES ASSUME IInv, [Next]_vars PROVE IInv'
  OBVIOUS
<1>1. SlotInv' /\ DataTypes'
  BY SlotStep, DataTypesStep DEF IInv
<1>2. ASSUME NEW r \in Runs,
             Request(r) \/ Handler(r) \/ Task(r) \/ Source(r) \/ ExpireResult(r)
      PROVE  (live \subseteq stored)' /\ \A t \in Runs : RunInv(t)'
  <2>1. ASSUME NEW t \in Runs PROVE RunInv(t)'
    <3>1. CASE t = r
      BY <1>2, <3>1, ActorKeeps
    <3>2. CASE t # r
      <4>1. Bystander(t)
        BY <1>2, <3>2, Bystanders DEF IInv
      <4> QED BY <4>1, BystanderKeeps DEF IInv
    <3> QED BY <3>1, <3>2
  <2>2. (live \subseteq stored)'
    <3>1. CASE Request(r) \/ Handler(r) \/ Source(r)
      BY <3>1 DEF IInv, storeVars, Request, Submit, RequestJoin, cancel_query, Handler,
                  CheckLeft, CheckRight, CheckInput, InsertJoin,
                  Source, FetchDone, FetchFails, OrphanEnds, Closed
    <3>2. CASE Task(r)
      BY <3>2 DEF IInv, storeVars, Task, EnterSlot, EnterQueue, WriteRunning, ReadInput,
                  StartFetch, Timeout, ComputeFails, ComputeFrame, StoreResult,
                  store_result, WriteCompleted, WriteFailed
    <3>3. CASE ExpireResult(r)
      BY <3>3 DEF IInv, ExpireResult, Expire
    <3> QED BY <1>2, <3>1, <3>2, <3>3
  <2> QED BY <2>1, <2>2
<1>3. CASE Crash
  <2>1. (live \subseteq stored)'
    BY <1>3 DEF IInv, Crash, storeVars
  <2> QED BY <1>1, <1>3, <2>1, CrashKeeps DEF IInv
<1>4. CASE UNCHANGED vars
  <2>1. UNCHANGED <<pc, inputs, unread, df, status, rowCount, error, live, stored, rows>>
    BY <1>4 DEF vars, taskVars, docVars, storeVars
  <2> QED BY <1>1, <2>1 DEF IInv, RunInv
<1> QED BY <1>1, <1>2, <1>3, <1>4 DEF IInv, Next

\* A client never sees "completed" on a run whose table was not stored, or with
\* another row count than the table's, or above the row limit, whatever fails.
THEOREM CompletedRunsHaveResults == Spec => []CompletedHasResult
<1>1. IInv => CompletedHasResult
  BY DEF IInv, RunInv, CompletedHasResult
<1> QED BY IInvInit, IInvStep, <1>1, PTL DEF Spec

\* No table is ever stored by a run one of whose references was never stored.
THEOREM ResultsDeriveFromResults == Spec => []DerivedFromStored
<1>1. IInv => DerivedFromStored
  <2> SUFFICES ASSUME IInv, NEW r \in stored, NEW i \in 1..Len(inputs[r])
               PROVE  inputs[r][i] \in stored \ {r}
    BY DEF DerivedFromStored
  <2>1. r \in Runs /\ RunInv(r)
    BY DEF IInv, DataTypes
  <2>2. unread[r] = <<>> /\ Len(unread[r]) = 0
    BY <2>1 DEF RunInv
  <2> QED BY <2>1, <2>2 DEF RunInv
<1> QED BY IInvInit, IInvStep, <1>1, PTL DEF Spec

\* What is stored stays what it is, and nothing that expired comes back: a run
\* reaches the step that writes its table once in its life.
THEOREM StoredResultsNeverChange == Spec => ResultsNeverChange
<1> DEFINE Kept == \A r \in stored :
                     /\ r \in stored' /\ rows'[r] = rows[r]
                     /\ r \in live' => r \in live
<1>1. ASSUME IInv, [Next]_vars PROVE [Kept]_vars
  <2> SUFFICES ASSUME NEW r \in stored, Next
               PROVE  /\ r \in stored' /\ rows'[r] = rows[r]
                      /\ r \in live' => r \in live
    BY <1>1
  <2>1. r \in Runs
    BY <1>1 DEF IInv, DataTypes
  <2>2. CASE UNCHANGED storeVars
    BY <2>2 DEF storeVars
  <2>3. ASSUME NEW t \in Runs, ExpireResult(t)
        PROVE  r \in stored' /\ rows'[r] = rows[r] /\ (r \in live' => r \in live)
    BY <2>3 DEF ExpireResult, Expire
  <2>4. ASSUME NEW t \in Runs, pc[t] = "computed", store_result(t, df[t])
        PROVE  r \in stored' /\ rows'[r] = rows[r] /\ (r \in live' => r \in live)
    <3>1. t # r
      BY <1>1, <2>1, <2>4 DEF IInv, RunInv, Over
    <3> QED BY <1>1, <2>1, <2>4, <3>1 DEF store_result, IInv, DataTypes
  <2>5. \/ UNCHANGED storeVars
        \/ \E t \in Runs : ExpireResult(t)
        \/ \E t \in Runs : pc[t] = "computed" /\ store_result(t, df[t])
    <3>1. ASSUME NEW t \in Runs, Request(t) \/ Handler(t) \/ Source(t)
          PROVE  UNCHANGED storeVars
      BY <3>1 DEF Request, Submit, RequestJoin, cancel_query, Handler, CheckLeft, CheckRight,
                  CheckInput, InsertJoin, Source, FetchDone, FetchFails, OrphanEnds, Closed
    <3>2. ASSUME NEW t \in Runs, Task(t)
          PROVE  UNCHANGED storeVars \/ (pc[t] = "computed" /\ store_result(t, df[t]))
      BY <3>2 DEF Task, EnterSlot, EnterQueue, WriteRunning, ReadInput, StartFetch, Timeout,
                  ComputeFails, ComputeFrame, StoreResult, WriteCompleted, WriteFailed
    <3>3. Crash => UNCHANGED storeVars
      BY DEF Crash
    <3> QED BY <3>1, <3>2, <3>3 DEF Next
  <2> QED BY <2>2, <2>3, <2>4, <2>5
<1>2. Spec => [][Kept]_vars
  BY IInvInit, IInvStep, <1>1, PTL DEF Spec
<1> QED BY <1>2 DEF ResultsNeverChange

-----------------------------------------------------------------------------
(* While MongoDB answers.                                                      *)

\* Where the task is decides what its document can say.
DocInv(t) ==
    /\ pc[t] # "abandoned"
    /\ pc[t] \in {"created", "queued", "starting"} => status[t] \in {"pending", "cancelled"}
    /\ pc[t] \in {"reading", "fetching", "closing", "computed", "stored", "failing"} =>
          status[t] \in {"running", "cancelled"}
    /\ status[t] \in {"completed", "failed"} => pc[t] = "done"
    /\ pc[t] = "done" => status[t] \in Terminal
    /\ rowCount[t] # NoRows => pc[t] = "done" /\ t \notin error
    /\ crashes = 0 => pc[t] # "dead"

FaultFreeInv == \A t \in Runs : DocInv(t)

LEMMA FaultFreeInit == Init => FaultFreeInv
  BY DEF Init, FaultFreeInv, DocInv

LEMMA DocBystanderKeeps ==
    ASSUME NEW t \in Runs, DocInv(t), Bystander(t), crashes' = crashes
    PROVE  DocInv(t)'
  BY DEF DocInv, Bystander

LEMMA CrashesKept ==
    ASSUME NEW r \in Runs,
           Request(r) \/ Handler(r) \/ Task(r) \/ Source(r) \/ ExpireResult(r)
    PROVE  crashes' = crashes
<1>1. CASE Request(r) \/ Handler(r) \/ Source(r) \/ ExpireResult(r)
  BY <1>1 DEF Request, Submit, RequestJoin, cancel_query, Handler, CheckLeft, CheckRight,
              CheckInput, InsertJoin, Source, FetchDone, FetchFails, OrphanEnds, Closed, ExpireResult
<1>2. CASE Task(r)
  BY <1>2 DEF Task, EnterSlot, EnterQueue, WriteRunning, ReadInput, StartFetch, Timeout,
              ComputeFails, ComputeFrame, StoreResult, WriteCompleted, WriteFailed
<1> QED BY <1>1, <1>2

\* What one step of a run does to its own place and document, as a client can
\* tell: nothing, or one of the steps of its life.
DocStep(r) ==
    \/ /\ UNCHANGED <<status, rowCount, error, stored, rows>>
       /\ \/ pc'[r] = pc[r]
          \/ pc[r] = "absent" /\ pc'[r] = "checkLeft"
          \/ pc[r] \in Handling /\ pc'[r] \in {"checkRight", "insert", "rejected"}
          \/ pc[r] = "created" /\ pc'[r] \in {"queued", "starting"}
          \/ /\ pc[r] \in {"reading", "fetching", "closing", "computed"}
             /\ pc'[r] \in {"fetching", "closing", "computed", "failing"}
    \/ /\ pc[r] \in Unborn /\ pc'[r] = "created"
       /\ status' = [status EXCEPT ![r] = "pending"]
       /\ UNCHANGED <<rowCount, error, stored, rows>>
    \/ /\ pc[r] = "starting" /\ pc'[r] = "reading"
       /\ status' = [status EXCEPT ![r] = "running"]
       /\ UNCHANGED <<rowCount, error, stored, rows>>
    \/ /\ pc[r] = "computed" /\ pc'[r] \in {"stored", "failing"}
       /\ stored' = stored \cup {r}
       /\ rows' = [rows EXCEPT ![r] = df[r]]
       /\ UNCHANGED <<status, rowCount, error>>
    \/ /\ pc[r] = "stored" /\ pc'[r] = "done"
       /\ status' = [status EXCEPT ![r] = "completed"]
       /\ rowCount' = [rowCount EXCEPT ![r] = df[r]]
       /\ UNCHANGED <<error, stored, rows>>
    \/ /\ pc[r] = "failing" /\ pc'[r] = "done"
       /\ status' = [status EXCEPT ![r] = "failed"]
       /\ error' = error \cup {r}
       /\ UNCHANGED <<rowCount, stored, rows>>
    \/ /\ status[r] # "none" /\ pc'[r] = pc[r]
       /\ status' = [status EXCEPT ![r] = "cancelled"]
       /\ UNCHANGED <<rowCount, error, stored, rows>>

\* What it may do besides where MongoDB fails: the task goes on as if the write
\* that raised had not been made, whether or not it has.
LostReply(r) ==
    /\ MongoFaults
    /\ UNCHANGED <<error, stored, rows>>
    /\ \/ /\ pc[r] \in Unborn /\ pc'[r] = "abandoned"
          /\ status' = [status EXCEPT ![r] = "pending"] /\ rowCount' = rowCount
       \/ /\ pc[r] \in {"starting", "stored"} /\ pc'[r] = "failing"
          /\ UNCHANGED <<status, rowCount>>
       \/ /\ pc[r] = "starting" /\ pc'[r] = "failing"
          /\ status' = [status EXCEPT ![r] = "running"] /\ rowCount' = rowCount
       \/ /\ pc[r] = "stored" /\ pc'[r] = "failing"
          /\ status' = [status EXCEPT ![r] = "completed"]
          /\ rowCount' = [rowCount EXCEPT ![r] = df[r]]
       \/ /\ pc[r] = "failing" /\ pc'[r] = "abandoned"
          /\ UNCHANGED <<status, rowCount>>

LEMMA RunStep ==
    ASSUME IInv, NEW r \in Runs,
           Request(r) \/ Handler(r) \/ Task(r) \/ Source(r) \/ ExpireResult(r)
    PROVE  DocStep(r) \/ LostReply(r)
<1> USE DEF docVars, storeVars
<1>0. SlotInv /\ DataTypes
  BY DEF IInv
<1>1. CASE Request(r)
  <2>1. CASE Submit(r)
    BY <1>0, <2>1 DEF Submit, InsertRun, DocStep, LostReply, Unborn, SlotInv
  <2>2. CASE RequestJoin(r)
    BY <1>0, <2>2 DEF RequestJoin, DocStep, SlotInv
  <2>3. CASE cancel_query(r)
    BY <2>3 DEF cancel_query, update_query_run, Documented, DocStep, NoRows
  <2> QED BY <1>1, <2>1, <2>2, <2>3 DEF Request
<1>2. CASE Handler(r)
  <2>1. CASE CheckLeft(r) \/ CheckRight(r)
    BY <1>0, <2>1 DEF CheckLeft, CheckRight, CheckInput, DocStep, Handling, SlotInv
  <2>2. CASE InsertJoin(r)
    BY <1>0, <2>2 DEF InsertJoin, InsertRun, DocStep, LostReply, Unborn, Handling, SlotInv
  <2> QED BY <1>2, <2>1, <2>2 DEF Handler
<1>3. CASE Task(r)
  <2>1. CASE EnterSlot(r) \/ EnterQueue(r) \/ StartFetch(r) \/ ComputeFrame(r)
    BY <1>0, <2>1 DEF EnterSlot, EnterQueue, StartFetch, ComputeFrame, Fetched, DocStep, SlotInv
  <2>2. CASE WriteRunning(r)
    <3>1. /\ pc[r] = "starting" /\ UNCHANGED <<rowCount, error, stored, rows>>
          /\ \/ pc'[r] = "reading" /\ status' = [status EXCEPT ![r] = "running"]
             \/ /\ MongoFaults /\ pc'[r] = "failing"
                /\ status' \in {status, [status EXCEPT ![r] = "running"]}
      BY <1>0, <2>2, LeaveEffect DEF WriteRunning, Raise, update_query_run, SlotInv, NoRows
    <3> QED BY <3>1 DEF DocStep, LostReply
  <2>3. CASE ReadInput(r)
    <3>1. /\ pc[r] = "reading" /\ (pc' = pc \/ LeaveSlot(r, "failing"))
          /\ UNCHANGED <<status, rowCount, error, stored, rows>>
      BY <2>3 DEF ReadInput, Raise
    <3>2. pc'[r] = pc[r] \/ pc'[r] = "failing"
      BY <1>0, <3>1, LeaveEffect
    <3> QED BY <3>1, <3>2 DEF DocStep
  <2>4. CASE Timeout(r) \/ ComputeFails(r)
    <3>1. /\ pc[r] \in {"reading", "fetching"} /\ pc'[r] \in {"closing", "failing"}
          /\ UNCHANGED <<status, rowCount, error, stored, rows>>
      BY <1>0, <2>4, LeaveEffect DEF Timeout, ComputeFails, Raise, SlotInv
    <3> QED BY <3>1 DEF DocStep
  <2>5. CASE StoreResult(r)
    <3>1. /\ pc[r] = "computed" /\ pc'[r] \in {"stored", "failing"}
          /\ \/ store_result(r, df[r])
             \/ UNCHANGED storeVars /\ pc'[r] = "failing"
          /\ UNCHANGED <<status, rowCount, error>>
      BY <1>0, <2>5, LeaveEffect DEF StoreResult, Raise, SlotInv
    <3> QED BY <3>1 DEF DocStep, store_result
  <2>6. CASE WriteCompleted(r)
    <3>1. df[r] # NoRows /\ pc[r] = "stored" /\ UNCHANGED <<stored, rows>>
      BY <1>0, <2>6 DEF WriteCompleted, DataTypes, NoRows
    <3>2. \/ pc'[r] = "done" /\ update_query_run(r, "completed", df[r], FALSE)
          \/ /\ MongoFaults /\ pc'[r] = "failing"
             /\ update_query_run(r, "completed", df[r], FALSE) \/ UNCHANGED docVars
      BY <1>0, <2>6, LeaveEffect DEF WriteCompleted, Raise
    <3> QED BY <3>1, <3>2 DEF DocStep, LostReply, update_query_run
  <2>7. CASE WriteFailed(r)
    BY <1>0, <2>7 DEF WriteFailed, update_query_run, DocStep, LostReply, SlotInv, NoRows
  <2> QED BY <1>3, <2>1, <2>2, <2>3, <2>4, <2>5, <2>6, <2>7 DEF Task
<1>4. CASE Source(r)
  <2>1. /\ \/ pc'[r] = pc[r]
           \/ pc[r] \in {"fetching", "closing"} /\ pc'[r] = "failing"
        /\ UNCHANGED <<status, rowCount, error, stored, rows>>
    BY <1>0, <1>4, LeaveEffect DEF Source, FetchDone, FetchFails, OrphanEnds, Closed, Raise
  <2> QED BY <2>1 DEF DocStep
<1>5. CASE ExpireResult(r)
  BY <1>5 DEF ExpireResult, Expire, DocStep
<1> QED BY <1>1, <1>2, <1>3, <1>4, <1>5

LEMMA FaultFreeStep ==
    ASSUME ~MongoFaults, IInv, NEW r \in Runs,
           Request(r) \/ Handler(r) \/ Task(r) \/ Source(r) \/ ExpireResult(r)
    PROVE  DocStep(r)
  BY RunStep DEF LostReply

LEMMA DocActorKeeps ==
    ASSUME IInv, NEW r \in Runs, DocInv(r), DocStep(r), crashes' = crashes
    PROVE  DocInv(r)'
<1>1. /\ pc[r] \in PCs /\ status \in [Runs -> Statuses]
      /\ rowCount \in [Runs -> Nat \cup {NoRows}]
      /\ r \in error => pc[r] = "done"
      /\ status[r] = "none" <=> pc[r] \in Unborn
  BY DEF IInv, SlotInv, DataTypes, RunInv
<1> QED BY <1>1 DEF DocStep, DocInv, Unborn, Handling, Terminal, Statuses

LEMMA FaultFreeInvStep ==
    ~MongoFaults /\ IInv /\ FaultFreeInv /\ [Next]_vars => FaultFreeInv'
<1> SUFFICES ASSUME ~MongoFaults, IInv, FaultFreeInv, [Next]_vars, NEW t \in Runs
             PROVE  DocInv(t)'
  BY DEF FaultFreeInv
<1>0. DocInv(t) /\ RunInv(t) /\ SlotInv /\ DataTypes
  BY DEF FaultFreeInv, IInv
<1>1. ASSUME NEW r \in Runs,
             Request(r) \/ Handler(r) \/ Task(r) \/ Source(r) \/ ExpireResult(r)
      PROVE  DocInv(t)'
  <2>1. crashes' = crashes
    BY <1>1, CrashesKept
  <2>2. CASE t = r
    BY <1>0, <1>1, <2>1, <2>2, FaultFreeStep, DocActorKeeps
  <2>3. CASE t # r
    BY <1>0, <1>1, <2>1, <2>3, Bystanders, DocBystanderKeeps
  <2> QED BY <2>2, <2>3
<1>2. CASE Crash
  <2>1. /\ pc'[t] = IF pc[t] \in Handling THEN "rejected"
                    ELSE IF pc[t] \in Working THEN "dead" ELSE pc[t]
        /\ crashes' # 0
        /\ UNCHANGED <<status, rowCount, error>>
    BY <1>0, <1>2 DEF Crash, docVars, DataTypes
  <2> QED BY <1>0, <2>1 DEF DocInv, Handling, Working, InSlot
<1>3. CASE UNCHANGED vars
  <2>1. UNCHANGED <<pc, status, rowCount, error, crashes>>
    BY <1>3 DEF vars, docVars
  <2> QED BY <1>0, <2>1 DEF DocInv
<1> QED BY <1>1, <1>2, <1>3 DEF Next

\* While the server stays up and MongoDB answers, every accepted run has a task
\* that works on it or a final status: no path through the task forgets it.
THEOREM NoRunIsLeftBehind == Spec => []NoRunLeftBehind
<1>1. CASE MongoFaults
  <2>1. NoRunLeftBehind
    BY <1>1 DEF NoRunLeftBehind
  <2> QED BY <2>1, PTL
<1>2. CASE ~MongoFaults
  <2>1. ~MongoFaults /\ IInv /\ FaultFreeInv => NoRunLeftBehind
    <3> SUFFICES ASSUME IInv, FaultFreeInv, crashes = 0, NEW r \in Documented
                 PROVE  /\ status[r] \in {"pending", "running"} => pc[r] \in Working
                        /\ pc[r] = "done" => status[r] \in Terminal
                        /\ ~(r \in error /\ rowCount[r] # NoRows)
      BY DEF NoRunLeftBehind
    <3>1. r \in Runs /\ DocInv(r) /\ RunInv(r) /\ pc[r] \in PCs /\ status[r] # "none"
      BY DEF FaultFreeInv, IInv, SlotInv, Documented
    <3> QED BY <3>1 DEF DocInv, RunInv, PCs, Unborn, Over, Terminal
  <2> QED BY <1>2, <2>1, IInvInit, IInvStep, FaultFreeInit, FaultFreeInvStep, PTL DEF Spec
<1> QED BY <1>1, <1>2

\* While MongoDB answers, a client that has seen "completed" or "failed" has
\* seen the end: only a cancellation changes the status afterwards, and nothing
\* changes the row count or the error.
THEOREM OutcomesAreFinal == ~MongoFaults => (Spec => OutcomeFinal)
<1> SUFFICES ASSUME ~MongoFaults PROVE Spec => OutcomeFinal
  OBVIOUS
<1> DEFINE Final == \A r \in Runs : status[r] \in {"completed", "failed"} =>
                      /\ status'[r] \in {status[r], "cancelled"}
                      /\ rowCount'[r] = rowCount[r]
                      /\ (r \in error') = (r \in error)
<1>1. ASSUME IInv, FaultFreeInv, Next PROVE Final
  <2> SUFFICES ASSUME NEW r \in Runs, status[r] \in {"completed", "failed"}
               PROVE  /\ status'[r] \in {status[r], "cancelled"}
                      /\ rowCount'[r] = rowCount[r]
                      /\ r \in error' <=> r \in error
    OBVIOUS
  <2>1. pc[r] = "done" /\ status \in [Runs -> Statuses]
    BY <1>1 DEF FaultFreeInv, DocInv, IInv, DataTypes
  <2>2. ASSUME NEW t \in Runs,
               Request(t) \/ Handler(t) \/ Task(t) \/ Source(t) \/ ExpireResult(t)
        PROVE  /\ status'[r] \in {status[r], "cancelled"}
               /\ rowCount'[r] = rowCount[r]
               /\ r \in error' <=> r \in error
    <3>1. CASE t = r
      <4>1. DocStep(r)
        BY <1>1, <2>2, <3>1, FaultFreeStep
      <4> QED BY <2>1, <4>1 DEF DocStep, Unborn, Handling
    <3>2. CASE t # r
      <4>1. Bystander(r)
        BY <1>1, <2>2, <3>2, Bystanders DEF IInv
      <4> QED BY <4>1 DEF Bystander
    <3> QED BY <3>1, <3>2
  <2>3. CASE Crash
    BY <2>3 DEF Crash, docVars
  <2> QED BY <1>1, <2>2, <2>3 DEF Next
<1>2. ASSUME IInv, FaultFreeInv, [Next]_vars PROVE [Final]_vars
  BY <1>1, <1>2
<1>3. Spec => [][Final]_vars
  <2>1. ~MongoFaults /\ IInv /\ FaultFreeInv /\ [Next]_vars => FaultFreeInv' /\ [Final]_vars
    BY <1>2, FaultFreeInvStep
  <2> QED BY <2>1, IInvInit, IInvStep, FaultFreeInit, PTL DEF Spec
<1> QED BY <1>3 DEF OutcomeFinal

-----------------------------------------------------------------------------
(* The engine implements RunLifecycle.                                         *)

Table   == [r \in Runs |-> IF r \in stored THEN rows[r] ELSE NoRows]
Settled == {r \in Runs : pc[r] = "done"}

\* The runs that have settled are those before, and perhaps the acting one.
LEMMA SettledStep ==
    ASSUME NEW r \in Runs, \A t \in Runs \ {r} : Bystander(t)
    PROVE  Settled' = IF pc'[r] = "done" THEN Settled \cup {r} ELSE Settled \ {r}
<1>1. \A t \in Runs \ {r} : (pc'[t] = "done") <=> (pc[t] = "done")
  BY DEF Bystander
<1> QED BY <1>1 DEF Settled

\* Where the task is decides what its document can say; behind a task that
\* failed it may say more, or less, than the task knows, if a write has raised.
LifeInv(t) ==
    /\ pc[t] \in {"created", "queued", "starting"} => status[t] \in {"pending", "cancelled"}
    /\ pc[t] \in {"reading", "fetching", "closing", "computed", "stored"} =>
          status[t] \in {"running", "cancelled"}
    /\ pc[t] = "failing" =>
          \/ status[t] \in {"running", "cancelled"}
          \/ MongoFaults /\ status[t] \in {"pending", "completed"}
    /\ rowCount[t] # NoRows => pc[t] \in {"failing"} \cup Over

LEMMA LifeInvStep ==
    ASSUME IInv, \A t \in Runs : LifeInv(t), [Next]_vars
    PROVE  \A t \in Runs : LifeInv(t)'
<1> SUFFICES ASSUME NEW t \in Runs PROVE LifeInv(t)'
  OBVIOUS
<1>0. /\ LifeInv(t) /\ RunInv(t) /\ SlotInv /\ pc[t] \in PCs
      /\ status \in [Runs -> Statuses] /\ rowCount \in [Runs -> Nat \cup {NoRows}]
  BY DEF IInv, SlotInv, DataTypes
<1>1. ASSUME NEW r \in Runs,
             Request(r) \/ Handler(r) \/ Task(r) \/ Source(r) \/ ExpireResult(r)
      PROVE  LifeInv(t)'
  <2>1. CASE t # r
    <3>1. Bystander(t)
      BY <1>1, <2>1, Bystanders DEF IInv
    <3> QED BY <1>0, <3>1 DEF LifeInv, Bystander, Over
  <2>2. CASE t = r
    <3>1. DocStep(t) \/ LostReply(t)
      BY <1>1, <2>2, RunStep
    <3>2. CASE DocStep(t)
      BY <1>0, <3>2 DEF DocStep, LifeInv, RunInv, Unborn, Handling, Over
    <3>3. CASE LostReply(t)
      BY <1>0, <3>3 DEF LostReply, LifeInv, RunInv, Unborn, Handling, Over
    <3> QED BY <3>1, <3>2, <3>3
  <2> QED BY <2>1, <2>2
<1>2. CASE Crash
  <2>1. /\ pc'[t] = IF pc[t] \in Handling THEN "rejected"
                    ELSE IF pc[t] \in Working THEN "dead" ELSE pc[t]
        /\ UNCHANGED <<status, rowCount>>
    BY <1>0, <1>2 DEF Crash, docVars
  <2> QED BY <1>0, <2>1 DEF LifeInv, Handling, Working, InSlot, Over
<1>3. CASE UNCHANGED vars
  BY <1>0, <1>3 DEF vars, docVars, LifeInv
<1> QED BY <1>1, <1>2, <1>3 DEF Next

LEMMA LifecycleStep ==
    ASSUME IInv, NEW r \in Runs, LifeInv(r), DocStep(r),
           \A t \in Runs \ {r} : Bystander(t)
    PROVE  \/ \/ Lifecycle!Create(r) \/ Lifecycle!Begin(r) \/ Lifecycle!Publish(r)
              \/ Lifecycle!Complete(r) \/ Lifecycle!Fail(r) \/ Lifecycle!Cancel(r)
           \/ UNCHANGED <<status, rowCount, Table, Settled>>
<1> USE DEF NoRows
<1>2. Settled' = IF pc'[r] = "done" THEN Settled \cup {r} ELSE Settled \ {r}
  BY SettledStep
<1>3. /\ LifeInv(r) /\ RunInv(r) /\ DataTypes /\ pc[r] \in PCs
      /\ r \in Settled <=> pc[r] = "done"
  BY DEF IInv, SlotInv, Settled
<1>4. CASE /\ UNCHANGED <<status, rowCount, error, stored, rows>>
           /\ \/ pc'[r] = pc[r]
              \/ /\ pc[r] \in Handling \cup {"absent", "created", "reading", "fetching",
                                          "closing", "computed"}
                 /\ pc'[r] # "done"
  <2>1. Settled' = Settled
    BY <1>2, <1>3, <1>4 DEF Handling
  <2>2. Table' = Table
    BY <1>4 DEF Table
  <2> QED BY <1>4, <2>1, <2>2
<1>5. CASE /\ pc[r] \in Unborn /\ pc'[r] = "created"
           /\ status' = [status EXCEPT ![r] = "pending"]
           /\ UNCHANGED <<rowCount, error, stored, rows>>
  <2>1. Settled' = Settled /\ Table' = Table /\ status[r] = "none"
    BY <1>2, <1>3, <1>5 DEF Unborn, Handling, Table, RunInv
  <2> QED BY <1>5, <2>1 DEF Lifecycle!Create, Settled, Table
<1>6. CASE /\ pc[r] = "starting" /\ pc'[r] = "reading"
           /\ status' = [status EXCEPT ![r] = "running"]
           /\ UNCHANGED <<rowCount, error, stored, rows>>
  <2>1. Settled' = Settled /\ Table' = Table /\ r \notin Settled
    BY <1>2, <1>3, <1>6 DEF Table
  <2>2. Table[r] = NoRows /\ status[r] \in {"pending", "cancelled"}
    BY <1>3, <1>6 DEF Table, RunInv, LifeInv, Over
  <2> QED BY <1>6, <2>1, <2>2 DEF Lifecycle!Begin, Settled, Table
<1>7. CASE /\ pc[r] = "computed" /\ pc'[r] \in {"stored", "failing"}
           /\ stored' = stored \cup {r}
           /\ rows' = [rows EXCEPT ![r] = df[r]]
           /\ UNCHANGED <<status, rowCount, error>>
  <2>1. Settled' = Settled /\ r \notin Settled
    BY <1>2, <1>3, <1>7
  <2>2. Table[r] = NoRows /\ status[r] \in {"running", "cancelled"} /\ r \notin stored
    BY <1>3, <1>7 DEF Table, RunInv, LifeInv, Over
  <2>3. df[r] \in 0..MaxResultRows
    BY <1>3, QueryAssumption DEF RunInv, DataTypes
  <2>4. Table' = [Table EXCEPT ![r] = df[r]]
    BY <1>3, <1>7, <2>2 DEF Table, DataTypes
  <2> QED BY <1>7, <2>1, <2>2, <2>3, <2>4 DEF Lifecycle!Publish, Settled, Table
<1>8. CASE /\ pc[r] = "stored" /\ pc'[r] = "done"
           /\ status' = [status EXCEPT ![r] = "completed"]
           /\ rowCount' = [rowCount EXCEPT ![r] = df[r]]
           /\ UNCHANGED <<error, stored, rows>>
  <2>1. Settled' = Settled \cup {r} /\ r \notin Settled /\ Table' = Table
    BY <1>2, <1>3, <1>8 DEF Table
  <2>2. /\ Table[r] = df[r] /\ Table[r] # NoRows /\ rowCount[r] = NoRows
        /\ status[r] \in {"running", "cancelled"}
    BY <1>3, <1>8 DEF Table, RunInv, LifeInv, DataTypes, Over
  <2> QED BY <1>8, <2>1, <2>2 DEF Lifecycle!Complete, Lifecycle!TellCompleted, Settled, Table
<1>9. CASE /\ pc[r] = "failing" /\ pc'[r] = "done"
           /\ status' = [status EXCEPT ![r] = "failed"]
           /\ error' = error \cup {r}
           /\ UNCHANGED <<rowCount, stored, rows>>
  <2>1. Settled' = Settled \cup {r} /\ r \notin Settled /\ Table' = Table
    BY <1>2, <1>3, <1>9 DEF Table
  <2>2. \/ status[r] \in {"running", "cancelled"}
        \/ MongoFaults /\ status[r] \in {"pending", "completed"}
    BY <1>3, <1>9 DEF LifeInv
  <2> QED BY <1>9, <2>1, <2>2 DEF Lifecycle!Fail, Settled, Table
<1>10. CASE /\ status[r] # "none" /\ pc'[r] = pc[r]
            /\ status' = [status EXCEPT ![r] = "cancelled"]
            /\ UNCHANGED <<rowCount, error, stored, rows>>
  <2>1. Settled' = Settled /\ Table' = Table
    BY <1>2, <1>3, <1>10 DEF Table
  <2> QED BY <1>10, <2>1 DEF Lifecycle!Cancel, Settled, Table
<1> QED BY <1>4, <1>5, <1>6, <1>7, <1>8, <1>9, <1>10 DEF DocStep

\* What the task does not hear of still is a step of RunLifecycle.
LEMMA LostReplyStep ==
    ASSUME IInv, NEW r \in Runs, LifeInv(r), LostReply(r),
           \A t \in Runs \ {r} : Bystander(t)
    PROVE  \/ Lifecycle!Create(r) \/ Lifecycle!Begin(r) \/ Lifecycle!CompleteUnheard(r)
           \/ UNCHANGED <<status, rowCount, Table, Settled>>
<1> USE DEF NoRows
<1>1. MongoFaults /\ Table' = Table /\ Settled' = Settled /\ r \notin Settled
  <2>1. pc[r] # "done" /\ pc'[r] # "done"
    BY DEF LostReply, Unborn, Handling
  <2> QED BY <2>1, SettledStep DEF LostReply, Settled, Table
<1>2. /\ RunInv(r) /\ DataTypes
      /\ Table[r] = IF r \in stored THEN rows[r] ELSE NoRows
  BY DEF IInv, Table
<1>3. CASE /\ pc[r] \in Unborn
           /\ status' = [status EXCEPT ![r] = "pending"] /\ rowCount' = rowCount
  <2>1. status[r] = "none"
    BY <1>2, <1>3 DEF RunInv
  <2> QED BY <1>1, <1>3, <2>1 DEF Lifecycle!Create, Settled, Table
<1>4. CASE /\ pc[r] = "starting"
           /\ status' = [status EXCEPT ![r] = "running"] /\ rowCount' = rowCount
  <2>1. status[r] \in {"pending", "cancelled"} /\ Table[r] = NoRows
    BY <1>2, <1>4 DEF LifeInv, RunInv, Over
  <2> QED BY <1>1, <1>4, <2>1 DEF Lifecycle!Begin, Settled, Table
<1>5. CASE /\ pc[r] = "stored"
           /\ status' = [status EXCEPT ![r] = "completed"]
           /\ rowCount' = [rowCount EXCEPT ![r] = df[r]]
  <2>1. /\ status[r] \in {"running", "cancelled"} /\ rowCount[r] = NoRows
        /\ Table[r] = df[r] /\ Table[r] # NoRows
    BY <1>2, <1>5 DEF LifeInv, RunInv, DataTypes, Over
  <2> QED BY <1>1, <1>5, <2>1
          DEF Lifecycle!CompleteUnheard, Lifecycle!TellCompleted, Settled, Table
<1> QED BY <1>1, <1>3, <1>4, <1>5 DEF LostReply

\* Whatever fails and across restarts, the engine behaves as RunLifecycle says:
\* one table, then one outcome, for each run.
THEOREM EngineImplementsLifecycle == Spec => ImplementsLifecycle
<1> DEFINE LInv == \A t \in Runs : LifeInv(t)
<1>1. Init => Lifecycle!Init
  BY QueryAssumption DEF Init, StoreInit, Lifecycle!Init
<1>2. Init => LInv
  BY DEF Init, LifeInv
<1>3. ASSUME IInv, LInv, [Next]_vars
      PROVE  [Lifecycle!Next]_(Lifecycle!lifecycleVars)
  <2>1. ASSUME NEW r \in Runs,
               Request(r) \/ Handler(r) \/ Task(r) \/ Source(r) \/ ExpireResult(r)
        PROVE  [Lifecycle!Next]_(Lifecycle!lifecycleVars)
    <3>1. (DocStep(r) \/ LostReply(r)) /\ \A t \in Runs \ {r} : Bystander(t)
      BY <1>3, <2>1, RunStep, Bystanders DEF IInv
    <3> QED BY <1>3, <3>1, LifecycleStep, LostReplyStep
            DEF Lifecycle!Next, Lifecycle!lifecycleVars, Table, Settled
  <2>2. CASE Crash
    <3>1. \A t \in Runs : (pc'[t] = "done") <=> (pc[t] = "done")
      BY <2>2 DEF Crash, Handling, Working, InSlot
    <3>2. Settled' = Settled
      BY <3>1 DEF Settled
    <3> QED BY <2>2, <3>2 DEF Crash, docVars, storeVars, Lifecycle!lifecycleVars, Settled
  <2>3. CASE UNCHANGED vars
    BY <2>3 DEF vars, docVars, storeVars, Lifecycle!lifecycleVars
  <2> QED BY <1>3, <2>1, <2>2, <2>3 DEF Next
<1>4. IInv /\ LInv /\ [Next]_vars => LInv' /\ [Lifecycle!Next]_(Lifecycle!lifecycleVars)
  BY <1>3, LifeInvStep
<1> QED BY <1>1, <1>2, <1>4, IInvInit, IInvStep, PTL
        DEF Spec, ImplementsLifecycle, Lifecycle!Spec
=============================================================================

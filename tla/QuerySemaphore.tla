--------------------------- MODULE QuerySemaphore ---------------------------
(* The asyncio.Semaphore that get_query_semaphore creates once per process and *)
(* that every background query, join and process run holds while it works.    *)
(* asyncio is a library: its semaphore is modelled by what "async with" gets   *)
(* from it, a counter and a first-in first-out queue.  Waking the head of the  *)
(* queue hands it the slot, so a task that arrives in between cannot overtake. *)
EXTENDS Integers, Sequences

CONSTANT MaxConcurrent          \* settings.max_concurrent_queries

ASSUME MaxConcurrentAssumption == MaxConcurrent \in Nat

VARIABLES
    slots,                      \* the semaphore's counter
    waiters                     \* the tasks waiting for a slot, oldest first

semVars == <<slots, waiters>>

SemaphoreInit ==
    /\ slots = MaxConcurrent
    /\ waiters = <<>>

CanAcquire == slots > 0 /\ waiters = <<>>

Acquire ==
    /\ CanAcquire
    /\ slots' = slots - 1
    /\ UNCHANGED waiters

Wait(task) ==
    /\ ~CanAcquire
    /\ waiters' = Append(waiters, task)
    /\ UNCHANGED slots

Woken == IF waiters = <<>> THEN {} ELSE {Head(waiters)}

\* A release hands the slot to the oldest waiter; only an empty queue lets it
\* go back to the counter.
Release ==
    IF waiters = <<>>
      THEN slots' = slots + 1 /\ UNCHANGED waiters
      ELSE waiters' = Tail(waiters) /\ UNCHANGED slots

=============================================================================

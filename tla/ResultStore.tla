----------------------------- MODULE ResultStore -----------------------------
(* RedisResultStore: one Parquet blob per run under query_result:<run id>,     *)
(* written by SETEX with a time to live.  A result table is abstracted to its  *)
(* number of rows.                                                             *)
EXTENDS Integers

CONSTANT Runs                   \* run ids, the keys of the store

VARIABLES
    live,                       \* keys Redis holds now
    stored,                     \* history: keys ever written
    rows                        \* rows[k]: rows of the table last written at k

storeVars == <<live, stored, rows>>

StoreInit ==
    /\ live = {}
    /\ stored = {}
    /\ rows = [k \in Runs |-> 0]

store_result(k, n) ==
    /\ live' = live \cup {k}
    /\ stored' = stored \cup {k}
    /\ rows' = [rows EXCEPT ![k] = n]

\* A plausible error: a missing table is taken for an empty one.
FoundAlways(k) == TRUE

Found(k) == k \in live

Expire(k) ==
    /\ k \in live
    /\ live' = live \ {k}
    /\ UNCHANGED <<stored, rows>>
=============================================================================

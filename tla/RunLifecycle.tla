---------------------------- MODULE RunLifecycle ----------------------------
(* What a run promises to a client that polls it, without the tasks, slots,    *)
(* data sources and restarts behind it: one outcome, written once, and a       *)
(* "completed" that is always preceded by its table.  Where the database of    *)
(* the runs is unreliable, an outcome may be written without the server        *)
(* hearing of it; a run that shows "completed" may then still fail.            *)
EXTENDS Integers

CONSTANTS
    Runs,
    MaxResultRows,
    NoRows              \* no table, or no row count

VARIABLES
    status,
    rowCount,           \* the row count the client is told
    table,              \* rows of the table that was published, or NoRows
    settled,            \* runs whose outcome the server knows to be written
    unreliable          \* whether a write may raise, before or after its effect

lifecycleVars == <<status, rowCount, table, settled, unreliable>>

Init ==
    /\ status = [r \in Runs |-> "none"]
    /\ rowCount = [r \in Runs |-> NoRows]
    /\ table = [r \in Runs |-> NoRows]
    /\ settled = {}
    /\ unreliable \in BOOLEAN

Create(r) ==
    /\ status[r] = "none"
    /\ status' = [status EXCEPT ![r] = "pending"]
    /\ UNCHANGED <<rowCount, table, settled, unreliable>>

Begin(r) ==
    /\ status[r] \in {"pending", "cancelled"}
    /\ r \notin settled
    /\ table[r] = NoRows
    /\ status' = [status EXCEPT ![r] = "running"]
    /\ UNCHANGED <<rowCount, table, settled, unreliable>>

Publish(r) ==
    /\ status[r] \in {"running", "cancelled"}
    /\ r \notin settled
    /\ table[r] = NoRows
    /\ \E n \in 0..MaxResultRows : table' = [table EXCEPT ![r] = n]
    /\ UNCHANGED <<status, rowCount, settled, unreliable>>

\* The row count is that of the table, and told at most once.
TellCompleted(r) ==
    /\ status[r] \in {"running", "cancelled"}
    /\ r \notin settled
    /\ table[r] # NoRows /\ rowCount[r] = NoRows
    /\ status' = [status EXCEPT ![r] = "completed"]
    /\ rowCount' = [rowCount EXCEPT ![r] = table[r]]

Complete(r) ==
    /\ TellCompleted(r)
    /\ settled' = settled \cup {r}
    /\ UNCHANGED <<table, unreliable>>

CompleteUnheard(r) ==
    /\ unreliable
    /\ TellCompleted(r)
    /\ UNCHANGED <<table, settled, unreliable>>

\* Before it runs, or after "completed", only because a write has raised.
Fail(r) ==
    /\ r \notin settled
    /\ \/ status[r] \in {"running", "cancelled"}
       \/ unreliable /\ status[r] \in {"pending", "completed"}
    /\ status' = [status EXCEPT ![r] = "failed"]
    /\ settled' = settled \cup {r}
    /\ UNCHANGED <<rowCount, table, unreliable>>

\* A cancellation is a remark on the document: it does not settle the run.
Cancel(r) ==
    /\ status[r] # "none"
    /\ status' = [status EXCEPT ![r] = "cancelled"]
    /\ UNCHANGED <<rowCount, table, settled, unreliable>>

Next == \E r \in Runs :
    \/ Create(r) \/ Begin(r) \/ Publish(r)
    \/ Complete(r) \/ CompleteUnheard(r) \/ Fail(r) \/ Cancel(r)

Spec == Init /\ [][Next]_lifecycleVars
=============================================================================

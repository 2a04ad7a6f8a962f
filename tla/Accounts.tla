------------------------------- MODULE Accounts -------------------------------
(* User accounts (auth/service.py): registrations that look for the address    *)
(* and then insert, logins, and the unique index that only a start-up with     *)
(* MongoDB within reach creates (dependencies.py, main.py).                    *)
EXTENDS Integers, FiniteSets

CONSTANTS
    People,             \* each registers once, with a password of its own
    Addresses,
    MaxStarts           \* bound: starts of the server

ASSUME AccountAssumption == MaxStarts \in Nat

VARIABLES
    users,              \* the documents: [owner, email]
    unique,             \* users has its unique index
    starts,
    address,            \* the email a person registers with
    stage,              \* of a person: "new", "inserting", "registered", "refused" or
                        \* "dropped" when the server stopped
    lockedOut,          \* history: people with an account whose login was refused
    blind,              \* history: the server started without MongoDB
    overlapped          \* history: addresses checked while another insert was due

accountVars == <<users, unique, starts, address, stage, lockedOut, blind, overlapped>>

AccountsOf(email) == {u \in users : u.email = email}
Duplicates == {e \in Addresses : Cardinality(AccountsOf(e)) > 1}

\* init_db: the first failure ends it, and lifespan goes on without.  The index
\* cannot be created over duplicates.
IndexAfterStart(reachable) == unique \/ (reachable /\ Duplicates = {})

AccountsInit ==
    /\ users = {}
    /\ unique \in BOOLEAN
    /\ blind = ~unique
    /\ starts = 1
    /\ address \in [People -> Addresses]
    /\ stage = [p \in People |-> "new"]
    /\ lockedOut = {}
    /\ overlapped = {}

\* A plausible error: the address is not looked for.
KnownNever(p) == FALSE

\* find_one({"email": ...}).
Known(p) == AccountsOf(address[p]) # {}

Check(p) ==
    /\ stage[p] = "new"
    /\ stage' = [stage EXCEPT ![p] = IF Known(p) THEN "refused" ELSE "inserting"]
    /\ overlapped' = IF \E q \in People : stage[q] = "inserting" /\ address[q] = address[p]
                     THEN overlapped \cup {address[p]} ELSE overlapped
    /\ UNCHANGED <<users, unique, starts, address, lockedOut, blind>>

\* insert_one: the index refuses a second account with DuplicateKeyError.
Insert(p) ==
    /\ stage[p] = "inserting"
    /\ IF unique /\ Known(p)
       THEN users' = users /\ stage' = [stage EXCEPT ![p] = "refused"]
       ELSE /\ users' = users \cup {[owner |-> p, email |-> address[p]]}
            /\ stage' = [stage EXCEPT ![p] = "registered"]
    /\ UNCHANGED <<unique, starts, address, lockedOut, blind, overlapped>>

\* authenticate_user: find_one gives any account with the address, and the
\* password is compared with that one only.
Login(p) ==
    /\ stage[p] = "registered"
    /\ \E u \in AccountsOf(address[p]) :
            lockedOut' = IF u.owner = p THEN lockedOut ELSE lockedOut \cup {p}
    /\ UNCHANGED <<users, unique, starts, address, stage, blind, overlapped>>

\* The requests in progress are dropped, wherever they are.
Restart(reachable) ==
    /\ starts < MaxStarts
    /\ starts' = starts + 1
    /\ stage' = [p \in People |-> IF stage[p] = "inserting" THEN "dropped" ELSE stage[p]]
    /\ unique' = IndexAfterStart(reachable)
    /\ blind' = (blind \/ ~reachable)
    /\ UNCHANGED <<users, address, lockedOut, overlapped>>

AccountsNext ==
    \/ \E p \in People : Check(p) \/ Insert(p) \/ Login(p)
    \/ \E reachable \in BOOLEAN : Restart(reachable)

AccountsSpec == AccountsInit /\ [][AccountsNext]_accountVars

-----------------------------------------------------------------------------
\* Two accounts of one address come only from registrations that overlapped on
\* a server started without MongoDB, since when the index can no longer be
\* made; and only the owner of such an account can fail to log in to it.
DuplicatesOnlyByOverlap ==
    /\ Duplicates # {} => ~unique /\ blind
    /\ Duplicates \subseteq overlapped
    /\ \A p \in lockedOut : address[p] \in Duplicates
=============================================================================

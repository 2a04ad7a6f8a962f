----------------------------- MODULE RateLimiter -----------------------------
(* RateLimitMiddleware: a sliding window of admission times per client         *)
(* address, in the memory of one server process.  dispatch decides before its  *)
(* first await, so a decision is one step.                                     *)
EXTENDS Integers, Sequences, FiniteSets

CONSTANTS
    Clients,
    MaxRequests,        \* settings.rate_limit_per_minute
    Window,             \* window_seconds, in ticks of the clock
    MaxTime             \* bound: the clock stops here

\* setup_middleware installs the limiter only for a positive limit.
ASSUME LimiterAssumption ==
    /\ MaxRequests \in Nat \ {0}
    /\ Window \in Nat
    /\ MaxTime \in Nat

VARIABLES
    now,                \* time.monotonic()
    admitted,           \* history: times of the requests let through, per client
    log                 \* _requests: which of those the list still holds

vars == <<now, admitted, log>>

Init ==
    /\ now = 0
    /\ admitted = [c \in Clients |-> <<>>]
    /\ log = [c \in Clients |-> {}]

\* A plausible error: an entry exactly one window old still counts.
RecentInclusive(c) == {i \in log[c] : admitted[c][i] >= now - Window}

\* "Clean old entries".
Recent(c) == {i \in log[c] : admitted[c][i] > now - Window}

\* A plausible error: one request more than the limit.
FullTooLate(c) == Cardinality(Recent(c)) > MaxRequests

Full(c) == Cardinality(Recent(c)) >= MaxRequests

\* Status 429: the cleaned list is kept, the refused request is not counted.
Refuse(c) ==
    /\ Full(c)
    /\ log' = [log EXCEPT ![c] = Recent(c)]
    /\ UNCHANGED <<now, admitted>>

\* A plausible error: the note is of the admission before this one.
AdmitNotedLate(c) ==
    /\ ~Full(c)
    /\ admitted' = [admitted EXCEPT ![c] = Append(@, now)]
    /\ log' = [log EXCEPT ![c] = Recent(c) \cup {Len(admitted[c])}]
    /\ UNCHANGED now

Admit(c) ==
    /\ ~Full(c)
    /\ admitted' = [admitted EXCEPT ![c] = Append(@, now)]
    /\ log' = [log EXCEPT ![c] = Recent(c) \cup {Len(admitted[c]) + 1}]
    /\ UNCHANGED now

Tick ==
    /\ now < MaxTime
    /\ now' = now + 1
    /\ UNCHANGED <<admitted, log>>

Next == Tick \/ \E c \in Clients : Refuse(c) \/ Admit(c)

Spec == Init /\ [][Next]_vars

-----------------------------------------------------------------------------
\* Every variable has its type.
TypeOK ==
    /\ now \in 0..MaxTime
    /\ admitted \in [Clients -> Seq(0..MaxTime)]
    /\ log \in [Clients -> SUBSET (Nat \ {0})]

\* No window of the given length, wherever it starts, holds more admissions of
\* one client than the limit, although the list has been cleaned many times.
WindowBounded ==
    \A c \in Clients : \A i \in 1..(Len(admitted[c]) - MaxRequests) :
        admitted[c][i + MaxRequests] - admitted[c][i] >= Window

\* The list gives the verdict the whole history would give: what was cleaned
\* away is never missed, and what is kept never refuses a client too long.
VerdictExact ==
    \A c \in Clients :
        Full(c) <=> Cardinality({i \in 1..Len(admitted[c]) :
                                    now - admitted[c][i] < Window}) >= MaxRequests
=============================================================================

-------------------------- MODULE RateLimiterProofs --------------------------
(* Proofs about RateLimiter, for every limit, window and number of clients.    *)
EXTENDS RateLimiter, FiniteSetTheorems, SequenceTheorems, TLAPS

Positions(c) == 1..Len(admitted[c])

InWindow(c) == {i \in Positions(c) : now - admitted[c][i] < Window}

\* The list holds only admissions, and every admission that may still count.
\* Times never decrease, so the last MaxRequests admissions decide.
LogInv ==
    \A c \in Clients :
        /\ log[c] \subseteq Positions(c)
        /\ InWindow(c) \subseteq log[c]
        /\ \A i, j \in Positions(c) : i <= j => admitted[c][i] <= admitted[c][j]
        /\ \A i \in Positions(c) : admitted[c][i] <= now

Inv == TypeOK /\ LogInv /\ WindowBounded

\* After the cleaning the list is exactly what the window holds.
LEMMA RecentIsInWindow ==
    ASSUME TypeOK, LogInv, NEW c \in Clients
    PROVE  /\ Recent(c) = InWindow(c)
           /\ IsFiniteSet(Recent(c))
           /\ Cardinality(Recent(c)) \in Nat
<1>1. /\ now \in Int /\ Window \in Int /\ Len(admitted[c]) \in Nat
      /\ \A i \in Positions(c) : admitted[c][i] \in Int
  BY LimiterAssumption, ElementOfSeq, LenProperties DEF TypeOK, Positions
<1>2. Recent(c) = InWindow(c)
  BY <1>1 DEF LogInv, Recent, InWindow
<1>3. IsFiniteSet(Positions(c))
  BY <1>1, FS_Interval DEF Positions
<1>4. Recent(c) \subseteq Positions(c)
  BY DEF LogInv, Recent
<1> QED BY <1>2, <1>3, <1>4, FS_Subset, FS_CardinalityType

LEMMA InvInit == Init => Inv
<1> SUFFICES ASSUME Init PROVE Inv
  OBVIOUS
<1>1. \A c \in Clients : Len(admitted[c]) = 0 /\ admitted[c] = <<>> /\ log[c] = {}
  BY DEF Init
<1>2. TypeOK
  BY LimiterAssumption, EmptySeq DEF Init, TypeOK
<1>3. LogInv
  BY <1>1 DEF LogInv, Positions, InWindow
<1>4. WindowBounded
  BY <1>1, LimiterAssumption DEF WindowBounded
<1> QED BY <1>2, <1>3, <1>4 DEF Inv

\* With fewer than MaxRequests admissions in the window, the one MaxRequests
\* before the new one is outside it: otherwise all between them were inside.
LEMMA OldestIsOut ==
    ASSUME TypeOK, LogInv, NEW c \in Clients, ~Full(c),
           NEW i \in Positions(c), i + MaxRequests = Len(admitted[c]) + 1
    PROVE  now - admitted[c][i] >= Window
<1> DEFINE n == Len(admitted[c])
<1>1. /\ now \in Int /\ Window \in Int /\ n \in Nat /\ MaxRequests \in Nat
      /\ \A k \in Positions(c) : admitted[c][k] \in Int
  BY LimiterAssumption, ElementOfSeq, LenProperties DEF TypeOK, Positions
<1> SUFFICES ASSUME now - admitted[c][i] < Window PROVE FALSE
  BY <1>1
<1>2. i..n \subseteq InWindow(c)
  <2> SUFFICES ASSUME NEW k \in i..n PROVE k \in InWindow(c)
    OBVIOUS
  <2>1. k \in Positions(c) /\ i <= k
    BY <1>1 DEF Positions
  <2>2. admitted[c][i] <= admitted[c][k]
    BY <2>1 DEF LogInv
    <2>3. admitted[c][i] \in Int /\ admitted[c][k] \in Int
    BY <1>1, <2>1
  <2>4. now - admitted[c][k] < Window
    BY <1>1, <2>2, <2>3
  <2> QED BY <2>1, <2>4 DEF InWindow
<1>3. Cardinality(i..n) = MaxRequests
  <2>1. i \in Int /\ n \in Int /\ i <= n /\ n - i + 1 = MaxRequests
    BY <1>1 DEF Positions
  <2>2. Cardinality(i..n) = IF i > n THEN 0 ELSE n - i + 1
    BY <2>1, FS_Interval
  <2> HIDE DEF n
  <2> QED BY <2>1, <2>2
<1>4. Cardinality(i..n) <= Cardinality(Recent(c))
  BY <1>2, RecentIsInWindow, FS_Subset
<1> QED BY <1>1, <1>3, <1>4, RecentIsInWindow DEF Full

LEMMA InvStep == Inv /\ [Next]_vars => Inv'
<1> SUFFICES ASSUME Inv, [Next]_vars PROVE Inv'
  OBVIOUS
<1> USE DEF Inv
<1>0. /\ now \in Nat /\ Window \in Nat /\ MaxRequests \in Nat \ {0} /\ MaxTime \in Nat
      /\ \A c \in Clients : /\ Len(admitted[c]) \in Nat
                            /\ \A i \in Positions(c) : admitted[c][i] \in 0..MaxTime
  BY LimiterAssumption, ElementOfSeq, LenProperties DEF TypeOK, Positions
<1>1. CASE Tick
  <2>1. now' = now + 1 /\ now' \in 0..MaxTime /\ admitted' = admitted /\ log' = log
    BY <1>0, <1>1 DEF Tick
  <2>2. TypeOK'
    BY <2>1 DEF TypeOK
  <2>3. LogInv'
    <3> SUFFICES ASSUME NEW c \in Clients
                 PROVE  /\ InWindow(c)' \subseteq InWindow(c)
                        /\ \A i \in Positions(c) : admitted[c][i] <= now'
      BY <2>1 DEF LogInv, Positions
    <3> QED BY <1>0, <2>1 DEF LogInv, Positions, InWindow
  <2> QED BY <2>1, <2>2, <2>3 DEF WindowBounded
<1>2. ASSUME NEW c \in Clients, Refuse(c) PROVE Inv'
  <2>1. now' = now /\ admitted' = admitted /\ log' = [log EXCEPT ![c] = Recent(c)]
    BY <1>2 DEF Refuse
  <2>2. Recent(c) = InWindow(c) /\ Recent(c) \subseteq Positions(c)
    BY RecentIsInWindow DEF InWindow
  <2>3. TypeOK'
    BY <1>0, <2>1, <2>2 DEF TypeOK, Positions
  <2>4. LogInv'
    <3> SUFFICES ASSUME NEW d \in Clients
                 PROVE  log'[d] \subseteq Positions(d) /\ InWindow(d) \subseteq log'[d]
      BY <2>1 DEF LogInv, Positions, InWindow
    <3> QED BY <2>1, <2>2 DEF LogInv, TypeOK
  <2> QED BY <2>1, <2>3, <2>4 DEF WindowBounded
<1>3. ASSUME NEW c \in Clients, Admit(c) PROVE Inv'
  <2> DEFINE n == Len(admitted[c])
  <2>1. /\ ~Full(c) /\ now' = now
        /\ admitted' = [admitted EXCEPT ![c] = Append(admitted[c], now)]
        /\ log' = [log EXCEPT ![c] = Recent(c) \cup {n + 1}]
    BY <1>3 DEF Admit
  <2>2. now \in 0..MaxTime /\ admitted[c] \in Seq(0..MaxTime)
    BY DEF TypeOK
  <2>3. /\ admitted'[c] \in Seq(0..MaxTime) /\ Len(admitted'[c]) = n + 1
        /\ \A i \in 1..n : admitted'[c][i] = admitted[c][i]
        /\ admitted'[c][n + 1] = now
    BY <2>1, <2>2, AppendProperties DEF TypeOK
  <2>4. \A d \in Clients \ {c} : admitted'[d] = admitted[d] /\ log'[d] = log[d]
    BY <2>1 DEF TypeOK
  <2>5. log'[c] = InWindow(c) \cup {n + 1}
    BY <2>1, RecentIsInWindow DEF TypeOK
  <2>6. TypeOK'
    <3>1. log'[c] \subseteq Nat \ {0}
      BY <1>0, <2>5 DEF InWindow, Positions
    <3>2. log' \in [Clients -> SUBSET (Nat \ {0})]
      BY <2>1, <3>1 DEF TypeOK
    <3>3. admitted' \in [Clients -> Seq(0..MaxTime)]
      BY <2>1, <2>3 DEF TypeOK
    <3> QED BY <2>1, <2>2, <3>2, <3>3 DEF TypeOK
  <2>7. LogInv'
    <3>1. ASSUME NEW d \in Clients \ {c}
          PROVE  /\ log'[d] \subseteq Positions(d)'
                 /\ InWindow(d)' \subseteq log'[d]
                 /\ \A i, j \in Positions(d)' : i <= j => admitted'[d][i] <= admitted'[d][j]
                 /\ \A i \in Positions(d)' : admitted'[d][i] <= now'
      BY <2>1, <2>4, <3>1 DEF LogInv, Positions, InWindow
    <3>2. /\ Positions(c)' = Positions(c) \cup {n + 1}
          /\ \A i \in Positions(c) : admitted'[c][i] = admitted[c][i] /\ i < n + 1
      BY <1>0, <2>3 DEF Positions
    <3>3. log'[c] \subseteq Positions(c)'
      BY <2>5, <3>2 DEF InWindow
    <3>4. InWindow(c)' \subseteq log'[c]
      BY <2>1, <2>5, <3>2 DEF InWindow
    <3>5. \A i, j \in Positions(c)' : i <= j => admitted'[c][i] <= admitted'[c][j]
      <4> SUFFICES ASSUME NEW i \in Positions(c)', NEW j \in Positions(c)', i <= j
                   PROVE  admitted'[c][i] <= admitted'[c][j]
        OBVIOUS
      <4>1. CASE i \in Positions(c) /\ j \in Positions(c)
        BY <3>2, <4>1 DEF LogInv
      <4>2. CASE i \in Positions(c) /\ j = n + 1
        BY <2>3, <3>2, <4>2 DEF LogInv
      <4>3. CASE i = n + 1
        <5>1. j = n + 1
          BY <1>0, <3>2, <4>3 DEF Positions
        <5> QED BY <1>0, <2>2, <2>3, <4>3, <5>1
      <4> QED BY <3>2, <4>1, <4>2, <4>3
    <3>6. \A i \in Positions(c)' : admitted'[c][i] <= now'
      <4> SUFFICES ASSUME NEW i \in Positions(c)' PROVE admitted'[c][i] <= now
        BY <2>1
      <4>1. CASE i \in Positions(c)
        BY <3>2, <4>1 DEF LogInv
      <4>2. CASE i = n + 1
        BY <1>0, <2>3, <4>2
      <4> QED BY <3>2, <4>1, <4>2
    <3> QED BY <3>1, <3>3, <3>4, <3>5, <3>6 DEF LogInv
  <2>8. WindowBounded'
    <3>1. ASSUME NEW d \in Clients \ {c}, NEW i \in 1..(Len(admitted'[d]) - MaxRequests)
          PROVE  admitted'[d][i + MaxRequests] - admitted'[d][i] >= Window
      BY <2>4 DEF WindowBounded
    <3>2. ASSUME NEW i \in 1..(n - MaxRequests)
          PROVE  admitted'[c][i + MaxRequests] - admitted'[c][i] >= Window
      <4>1. i \in 1..n /\ i + MaxRequests \in 1..n
        BY <1>0
      <4> QED BY <2>3, <4>1 DEF WindowBounded
    <3>3. ASSUME NEW i \in 1..(n + 1 - MaxRequests), i + MaxRequests = n + 1
          PROVE  admitted'[c][i + MaxRequests] - admitted'[c][i] >= Window
      <4>1. i \in Positions(c) /\ i \in 1..n
        BY <1>0, <3>3 DEF Positions
      <4>2. now - admitted[c][i] >= Window
        BY <2>1, <3>3, <4>1, OldestIsOut
      <4> QED BY <2>3, <3>3, <4>1, <4>2
    <3>4. \A i \in 1..(n + 1 - MaxRequests) :
             i \in 1..(n - MaxRequests) \/ i + MaxRequests = n + 1
      BY <1>0
    <3>5. ASSUME NEW i \in 1..(Len(admitted'[c]) - MaxRequests)
          PROVE  admitted'[c][i + MaxRequests] - admitted'[c][i] >= Window
      <4>0. Len(admitted'[c]) = n + 1 /\ n \in Nat /\ MaxRequests \in Nat
        BY <1>0, <2>3
      <4> HIDE DEF n
      <4>1. i \in 1..(n + 1 - MaxRequests)
        BY <4>0
      <4>2. CASE i \in 1..(n - MaxRequests)
        BY <3>2, <4>2
      <4>3. CASE i + MaxRequests = n + 1
        BY <3>3, <4>1, <4>3
      <4> QED BY <3>4, <4>1, <4>2, <4>3
    <3> QED BY <3>1, <3>5 DEF WindowBounded
  <2> QED BY <2>6, <2>7, <2>8
<1>4. CASE UNCHANGED vars
  BY <1>4 DEF vars, TypeOK, LogInv, WindowBounded, Positions, InWindow
<1> QED BY <1>1, <1>2, <1>3, <1>4 DEF Next

\* Every variable has its type.
THEOREM LimiterTypeCorrect == Spec => []TypeOK
  BY InvInit, InvStep, PTL DEF Spec, Inv

\* No client is ever let through more often than the limit in any window.
THEOREM NoWindowOverflows == Spec => []WindowBounded
  BY InvInit, InvStep, PTL DEF Spec, Inv

\* A client is refused exactly when the window before the request is full, by
\* the whole history of its admissions.
THEOREM VerdictsAreExact == Spec => []VerdictExact
<1>1. Inv => VerdictExact
  BY RecentIsInWindow DEF Inv, VerdictExact, Full, InWindow, Positions
<1> QED BY InvInit, InvStep, <1>1, PTL DEF Spec
=============================================================================

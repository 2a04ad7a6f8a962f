--------------------------- MODULE ServicesProofs ---------------------------
(* Proofs about Sources, Accounts and TableStats: for any number of requests,  *)
(* any time to live and every type of source; for any number of people,        *)
(* addresses and starts of the server; for a table of any number of rows.      *)
EXTENDS Sources, Accounts, TableStats, FiniteSetTheorems, WellFoundedInduction, TLAPS

-----------------------------------------------------------------------------
(* Sources: the cached schema.                                                 *)

\* An entry lives for one time to live from when it was written; a wrong one,
\* for one from the change that made it wrong, or wrote it.
CacheInv ==
    /\ clock \in Nat /\ disturbed \in Nat
    /\ cache.until \in Nat
    /\ cache.until <= clock + Ttl
    /\ cache.version # Missing /\ Wrong(cache.version, cache.whole) =>
         cache.until <= disturbed + Ttl

LEMMA CacheInvStep == CacheInv /\ [SourcesNext]_sourceVars => CacheInv'
<1> SUFFICES ASSUME CacheInv, [SourcesNext]_sourceVars PROVE CacheInv'
  OBVIOUS
<1> USE SourceAssumption DEF CacheInv, Wrong
<1>1. CASE UNCHANGED <<clock, source, cache, disturbed>>
  BY <1>1
<1>2. CASE Wait
  BY <1>2 DEF Wait
<1>3. ASSUME NEW r \in Callers, Update(r) PROVE CacheInv'
  BY <1>3 DEF Update
<1>4. ASSUME NEW r \in Callers, Delete(r) PROVE CacheInv'
  <2>1. CASE source.present
    BY <1>4, <2>1 DEF Delete
  <2>2. CASE ~source.present
    <3>1. UNCHANGED <<clock, cache, disturbed>> /\ Wrong(cache.version, cache.whole)
      BY <1>4, <2>2 DEF Delete
    <3> QED BY <3>1
  <2> QED BY <2>1, <2>2
<1>5. ASSUME NEW r \in Callers, Cache(r) PROVE CacheInv'
  <2>1. /\ UNCHANGED <<clock, source>>
        /\ cache' = [version |-> seen[r], whole |-> whole[r], until |-> clock + Ttl]
        /\ disturbed' = IF Wrong(seen[r], whole[r]) THEN clock ELSE disturbed
    BY <1>5 DEF Cache, Entry
  <2> QED BY <2>1
<1>6. ASSUME NEW r \in Callers,
             \/ Begin(r) \/ Look(r) \/ ReadDocument(r) \/ Connected(r) \/ ConnectFails(r)
             \/ Used(r) \/ UseFails(r) \/ Closed(r) \/ Cancel(r) \/ ThreadConnects(r)
      PROVE  UNCHANGED <<clock, source, cache, disturbed>>
  BY <1>6 DEF Begin, Look, ReadDocument, Connected, ConnectFails, Used, UseFails, Closed, Cancel,
              ThreadConnects
<1> QED BY <1>1, <1>2, <1>3, <1>4, <1>5, <1>6 DEF SourcesNext, sourceVars

\* A wrong schema is answered for less than one time to live after the source
\* changed or a slow request wrote it, whatever requests overlap.
THEOREM StaleForOneTtl == SourcesSpec => []StaleAtMostOneTtl
<1>1. SourcesInit => CacheInv
  BY SourceAssumption DEF SourcesInit, CacheInv, NoCache
<1>2. CacheInv => StaleAtMostOneTtl
  BY SourceAssumption DEF CacheInv, StaleAtMostOneTtl, Cached
<1> QED BY <1>1, <1>2, CacheInvStep, PTL DEF SourcesSpec

-----------------------------------------------------------------------------
(* Sources: connections.                                                       *)

Stages == {"idle", "looking", "reading", "connecting", "using", "closing", "caching",
           "writing", "ended"}

Explained(r) ==
    \/ /\ kind[r] = "test" /\ fate[r].how = "failed"
       /\ \/ fate[r].at = "using" /\ source.type \in {"postgres", "mysql", "db2", "mongodb"}
          \/ fate[r].at = "connecting" /\ source.type = "mongodb"
    \/ fate[r].at = "connecting" /\ source.type \in EarlyClients /\ kind[r] # "test"
    \/ fate[r] = [how |-> "cancelled", at |-> "connecting"] /\ source.type = "db2"
    \/ fate[r] = [how |-> "cancelled", at |-> "closing"] /\ source.type = "rest_api"

\* The connection a request has at each place, and how one that is over has
\* come to keep it.
ClientInv(r) ==
    /\ place[r] \in {"idle", "looking", "reading", "caching", "writing"} => client[r] = "none"
    /\ place[r] = "connecting" => client[r] = FirstClient
    /\ place[r] = "using" => (client[r] = "none" <=> source.type = "file")
    /\ place[r] = "ended" /\ client[r] # "none" => Explained(r)

ClientsInv ==
    /\ source \in [type : Types, present : BOOLEAN, version : Nat]
    /\ place \in [Callers -> Stages]
    /\ kind \in [Callers -> Kinds]
    /\ fate \in [Callers -> [how : {"fine", "failed", "cancelled"}, at : Stages]]
    /\ client \in [Callers -> {"none", "open", "opening"}]
    /\ \A r \in Callers : ClientInv(r)

\* What another request does, and what happens to the document and the cache,
\* leaves a request as it is.
LEMMA ClientKept ==
    ASSUME NEW r \in Callers, ClientInv(r), source'.type = source.type, kind'[r] = kind[r],
           place'[r] = place[r], client'[r] = client[r], fate'[r] = fate[r]
    PROVE  ClientInv(r)'
  BY DEF ClientInv, Explained, FirstClient

LEMMA ClientsInvStep == ClientsInv /\ [SourcesNext]_sourceVars => ClientsInv'
<1> SUFFICES ASSUME ClientsInv, [SourcesNext]_sourceVars PROVE ClientsInv'
  OBVIOUS
<1>0. /\ source.type \in {"postgres", "mysql", "db2", "mongodb", "rest_api", "file"}
      /\ FirstClient \in {"none", "open", "opening"}
  BY SourceAssumption DEF ClientsInv, FirstClient
<1>1. /\ source' \in [type : Types, present : BOOLEAN, version : Nat]
      /\ source'.type = source.type /\ kind' = kind
  <2>1. ASSUME NEW r \in Callers, Update(r) \/ Delete(r)
        PROVE  /\ source' \in [type : Types, present : BOOLEAN, version : Nat]
               /\ source'.type = source.type /\ kind' = kind
    <3>1. source \in [type : Types, present : BOOLEAN, version : Nat]
      BY DEF ClientsInv
    <3>2. \/ source' = [source EXCEPT !.version = @ + 1]
          \/ source' = [source EXCEPT !.present = FALSE]
          \/ source' = source
      BY <2>1 DEF Update, Delete
    <3>3. kind' = kind
      BY <2>1 DEF Update, Delete
    <3>4. CASE source' = [source EXCEPT !.version = @ + 1]
      <4>1. PICK t \in Types, b \in BOOLEAN, v \in Nat :
              source = [type |-> t, present |-> b, version |-> v]
        BY <3>1
      <4>2. source' = [type |-> t, present |-> b, version |-> v + 1] /\ v + 1 \in Nat
        BY <3>4, <4>1
      <4> QED BY <3>3, <4>1, <4>2
    <3>5. CASE source' = [source EXCEPT !.present = FALSE] \/ source' = source
      BY <3>1, <3>3, <3>5
    <3> QED BY <3>2, <3>4, <3>5
  <2>2. ASSUME NEW r \in Callers, ~Update(r), ~Delete(r),
               \/ Begin(r) \/ Look(r) \/ ReadDocument(r) \/ Update(r) \/ Delete(r) \/ Cache(r)
               \/ Connected(r) \/ ConnectFails(r) \/ Used(r) \/ UseFails(r) \/ Closed(r)
               \/ Cancel(r) \/ ThreadConnects(r)
        PROVE  UNCHANGED <<source, kind>>
    BY <2>2 DEF Begin, Look, ReadDocument, Cache, Connected, ConnectFails, Used, UseFails,
                Closed, Cancel, ThreadConnects
  <2>3. CASE Wait \/ UNCHANGED sourceVars
    <3>1. source \in [type : Types, present : BOOLEAN, version : Nat]
      BY DEF ClientsInv
    <3>2. source' = source /\ kind' = kind
      BY <2>3 DEF Wait, sourceVars, requestVars
    <3> QED BY <3>1, <3>2
  <2> QED BY <2>1, <2>2, <2>3 DEF SourcesNext, ClientsInv
<1>2. ASSUME UNCHANGED <<place, client, fate>> PROVE ClientsInv'
  BY <1>1, <1>2, ClientKept DEF ClientsInv
<1>3. ASSUME NEW r \in Callers,
             NEW p \in Stages, place' = [place EXCEPT ![r] = p],
             NEW c \in {"none", "open", "opening"}, client' = [client EXCEPT ![r] = c],
             NEW f \in [how : {"fine", "failed", "cancelled"}, at : Stages],
             fate' = [fate EXCEPT ![r] = f],
             p \in {"idle", "looking", "reading", "caching", "writing"} => c = "none",
             p = "connecting" => c = FirstClient,
             p = "using" => (c = "none" <=> source.type = "file"),
             p = "ended" /\ c # "none" => Explained(r)'
      PROVE  ClientsInv'
  <2>1. /\ place' \in [Callers -> Stages] /\ kind' \in [Callers -> Kinds]
        /\ fate' \in [Callers -> [how : {"fine", "failed", "cancelled"}, at : Stages]]
        /\ client' \in [Callers -> {"none", "open", "opening"}]
    BY <1>1, <1>3 DEF ClientsInv
  <2>2. ASSUME NEW t \in Callers, t # r PROVE ClientInv(t)'
    <3>1. place'[t] = place[t] /\ client'[t] = client[t] /\ fate'[t] = fate[t] /\ kind'[t] = kind[t]
      BY <1>1, <1>3, <2>2 DEF ClientsInv
    <3> QED BY <1>1, <3>1, ClientKept DEF ClientsInv
  <2>3. ClientInv(r)'
    <3>1. place'[r] = p /\ client'[r] = c /\ FirstClient' = FirstClient
      BY <1>1, <1>3 DEF ClientsInv, FirstClient
    <3> QED BY <1>1, <1>3, <3>1 DEF ClientInv
  <2> QED BY <1>1, <2>1, <2>2, <2>3 DEF ClientsInv
<1>4. ASSUME NEW r \in Callers
      PROVE  /\ ClientInv(r) /\ place[r] \in Stages /\ kind[r] \in Kinds
             /\ client[r] \in {"none", "open", "opening"}
             /\ fate[r] \in [how : {"fine", "failed", "cancelled"}, at : Stages]
             /\ place = [place EXCEPT ![r] = place[r]]
             /\ client = [client EXCEPT ![r] = client[r]]
             /\ fate = [fate EXCEPT ![r] = fate[r]]
             /\ \A how \in {"failed", "cancelled"} :
                  [how |-> how, at |-> place[r]] \in
                    [how : {"fine", "failed", "cancelled"}, at : Stages]
  BY <1>4 DEF ClientsInv
<1>3a. ASSUME NEW r \in Callers,
              NEW p \in Stages, place' = [place EXCEPT ![r] = p],
              NEW c \in {"none", "open", "opening"}, client' = [client EXCEPT ![r] = c],
              fate' = fate,
              p \in {"idle", "looking", "reading", "caching", "writing"} => c = "none",
              p = "connecting" => c = FirstClient,
              p = "using" => (c = "none" <=> source.type = "file"),
              p = "ended" /\ c # "none" => Explained(r)'
       PROVE  ClientsInv'
  <2> DEFINE f == fate[r]
  <2>1. f \in [how : {"fine", "failed", "cancelled"}, at : Stages] /\ fate' = [fate EXCEPT ![r] = f]
    BY <1>3a, <1>4
  <2> HIDE DEF f
  <2> QED BY <1>3, <1>3a, <2>1
<1>3b. ASSUME NEW r \in Callers, client[r] = "none",
              NEW p \in Stages \ {"connecting", "using"}, place' = [place EXCEPT ![r] = p],
              UNCHANGED <<client, fate>>
       PROVE  ClientsInv'
  <2>1. client' = [client EXCEPT ![r] = "none"] /\ fate' = fate
    BY <1>3b, <1>4
  <2> QED BY <1>3a, <1>3b, <2>1
<1>5. ASSUME NEW r \in Callers, Begin(r) PROVE ClientsInv'
  <2>1. PICK p \in {"looking", "writing", "reading"} :
          place[r] = "idle" /\ place' = [place EXCEPT ![r] = p]
    BY <1>5 DEF Begin, At
  <2>2. UNCHANGED <<client, fate>>
    BY <1>5 DEF Begin
  <2>3. client[r] = "none"
    BY <1>4, <2>1 DEF ClientInv
  <2> QED BY <1>3b, <2>1, <2>2, <2>3 DEF Stages
<1>6. ASSUME NEW r \in Callers, Look(r) PROVE ClientsInv'
  <2>1. PICK p \in {"ended", "reading"} :
          place[r] = "looking" /\ place' = [place EXCEPT ![r] = p]
    BY <1>6 DEF Look, At
  <2>2. UNCHANGED <<client, fate>>
    BY <1>6 DEF Look
  <2>3. client[r] = "none"
    BY <1>4, <2>1 DEF ClientInv
  <2> QED BY <1>3b, <2>1, <2>2, <2>3 DEF Stages
<1>7. ASSUME NEW r \in Callers, ReadDocument(r) PROVE ClientsInv'
  <2>1. /\ place[r] = "reading" /\ fate' = fate
        /\ \/ \E p \in {"ended", "writing"} :
                place' = [place EXCEPT ![r] = p] /\ UNCHANGED client
           \/ /\ place' = [place EXCEPT ![r] = "connecting"]
              /\ client' = [client EXCEPT ![r] = FirstClient]
    BY <1>7 DEF ReadDocument, At, Becomes
  <2>2. client[r] = "none"
    BY <1>4, <2>1 DEF ClientInv
  <2>3. CASE \E p \in {"ended", "writing"} : place' = [place EXCEPT ![r] = p] /\ UNCHANGED client
    <3>1. PICK p \in {"ended", "writing"} : place' = [place EXCEPT ![r] = p] /\ UNCHANGED client
      BY <2>3
    <3> QED BY <1>3b, <2>1, <2>2, <3>1 DEF Stages
  <2>4. CASE /\ place' = [place EXCEPT ![r] = "connecting"]
             /\ client' = [client EXCEPT ![r] = FirstClient]
    BY <1>0, <1>3a, <2>1, <2>4 DEF Stages
  <2> QED BY <2>1, <2>3, <2>4
<1>8. ASSUME NEW r \in Callers, Update(r) \/ Delete(r) \/ Cache(r) PROVE ClientsInv'
  <2>1. /\ place[r] \in {"writing", "caching"} /\ place' = [place EXCEPT ![r] = "ended"]
        /\ UNCHANGED <<client, fate>>
    BY <1>8 DEF Update, Delete, Cache, At
  <2>2. client[r] = "none"
    BY <1>4, <2>1 DEF ClientInv
  <2> QED BY <1>3b, <2>1, <2>2 DEF Stages
<1>9. ASSUME NEW r \in Callers, Connected(r) PROVE ClientsInv'
  <2>1. /\ place' = [place EXCEPT ![r] = "using"] /\ fate' = fate
        /\ client' = [client EXCEPT ![r] = IF source.type = "file" THEN "none" ELSE "open"]
    BY <1>9 DEF Connected, At, Becomes
  <2>2. PICK c \in {"none", "open", "opening"} :
          /\ client' = [client EXCEPT ![r] = c]
          /\ c = "none" <=> source.type = "file"
    BY <2>1
  <2> QED BY <1>3a, <2>1, <2>2 DEF Stages
<1>10. ASSUME NEW r \in Callers, ConnectFails(r) PROVE ClientsInv'
  <2> DEFINE c == IF source.type = "mongodb" \/ (source.type = "rest_api" /\ kind[r] # "test")
                    THEN "open" ELSE "none"
             f == [how |-> "failed", at |-> "connecting"]
  <2>1. /\ place[r] = "connecting" /\ place' = [place EXCEPT ![r] = "ended"]
        /\ client' = [client EXCEPT ![r] = c] /\ fate' = [fate EXCEPT ![r] = f]
    BY <1>10 DEF ConnectFails, At, Becomes, Suffers
  <2>2. fate'[r] = f
    BY <2>1 DEF ClientsInv
  <2>3. c # "none" => Explained(r)'
    BY <1>1, <2>2 DEF Explained, EarlyClients
  <2>4. f \in [how : {"fine", "failed", "cancelled"}, at : Stages] /\ c \in {"none", "open", "opening"}
    BY DEF Stages
  <2> HIDE DEF c, f
  <2> QED BY <1>3, <2>1, <2>3, <2>4 DEF Stages
<1>11. ASSUME NEW r \in Callers, Used(r) PROVE ClientsInv'
  <2> DEFINE c == client[r]
  <2>1. place' = [place EXCEPT ![r] = "closing"] /\ fate' = fate
    BY <1>11 DEF Used, At
  <2>2. c \in {"none", "open", "opening"} /\ client' = [client EXCEPT ![r] = c]
    BY <1>4, <1>11 DEF Used
  <2> HIDE DEF c
  <2> QED BY <1>3a, <2>1, <2>2 DEF Stages
<1>12. ASSUME NEW r \in Callers, UseFails(r) PROVE ClientsInv'
  <2> DEFINE f == [how |-> "failed", at |-> "using"]
  <2>1. /\ place[r] = "using" /\ fate' = [fate EXCEPT ![r] = f]
        /\ place' = [place EXCEPT ![r] = AfterFailure(r)]
        /\ \/ kind[r] = "test" /\ source.type = "rest_api" /\ client' = [client EXCEPT ![r] = "none"]
           \/ ~(kind[r] = "test" /\ source.type = "rest_api") /\ client' = client
    BY <1>12 DEF UseFails, At, Becomes, Suffers
  <2>2. PICK c \in {"none", "open", "opening"} :
          /\ client' = [client EXCEPT ![r] = c]
          /\ \/ c = "none"
             \/ ~(kind[r] = "test" /\ source.type = "rest_api") /\ c = client[r]
    BY <1>4, <2>1
  <2>3. fate'[r] = f
    BY <2>1 DEF ClientsInv
  <2>4. AfterFailure(r) = "ended" /\ c # "none" => Explained(r)'
    <3>1. c # "none" => source.type # "file"
      BY <1>4, <2>1, <2>2 DEF ClientInv
    <3> QED BY <1>0, <1>1, <2>2, <2>3, <3>1 DEF Explained, AfterFailure
  <2>5. f \in [how : {"fine", "failed", "cancelled"}, at : Stages] /\ AfterFailure(r) \in {"ended", "closing"}
    BY DEF Stages, AfterFailure
  <2> HIDE DEF f
  <2> QED BY <1>3, <2>1, <2>2, <2>4, <2>5 DEF Stages
<1>13. ASSUME NEW r \in Callers, Closed(r) PROVE ClientsInv'
  <2>1. PICK p \in {"caching", "ended"} : place' = [place EXCEPT ![r] = p]
    BY <1>13 DEF Closed, At
  <2>2. client' = [client EXCEPT ![r] = "none"] /\ fate' = fate
    BY <1>13 DEF Closed, Becomes
  <2>3. client' = [client EXCEPT ![r] = "none"] /\ p \in Stages
    BY <2>2 DEF Stages
  <2> QED BY <1>3a, <2>1, <2>2, <2>3
<1>14. ASSUME NEW r \in Callers, Cancel(r) PROVE ClientsInv'
  <2> DEFINE f == [how |-> "cancelled", at |-> place[r]]
             p == IF place[r] = "using" THEN AfterFailure(r) ELSE "ended"
  <2>1. /\ kind[r] = "query" /\ place[r] \in {"reading", "connecting", "using", "closing"}
        /\ place' = [place EXCEPT ![r] = p] /\ fate' = [fate EXCEPT ![r] = f]
    BY <1>14 DEF Cancel, Suffers
  <2>2. PICK c \in {"none", "open", "opening"} :
          /\ client' = [client EXCEPT ![r] = c]
          /\ place[r] # "closing" => c = client[r]
          /\ place[r] = "closing" /\ c # "none" => source.type = "rest_api"
    <3>1. CASE place[r] # "closing"
      BY <1>4, <1>14, <3>1 DEF Cancel
    <3>2. CASE place[r] = "closing"
      BY <1>14, <3>2 DEF Cancel, Becomes
    <3> QED BY <3>1, <3>2
  <2>3. fate'[r] = f /\ p \in {"closing", "ended"}
    BY <2>1 DEF ClientsInv, AfterFailure
  <2>4. p = "ended" => place[r] \in {"reading", "connecting", "closing"}
    BY <2>1 DEF AfterFailure
  <2>5. p = "ended" /\ c # "none" => Explained(r)'
    <3>1. place[r] = "reading" => c = "none"
      BY <1>4, <2>2 DEF ClientInv
    <3>2. place[r] = "connecting" /\ c # "none" => source.type \in EarlyClients \/ source.type = "db2"
      BY <1>4, <2>2 DEF ClientInv, FirstClient
    <3> QED BY <1>1, <2>1, <2>2, <2>3, <2>4, <3>1, <3>2 DEF Explained
  <2>6. f \in [how : {"fine", "failed", "cancelled"}, at : Stages]
    BY <1>4
  <2> HIDE DEF f, p
  <2> QED BY <1>3, <2>1, <2>2, <2>3, <2>5, <2>6 DEF Stages
<1>15. ASSUME NEW r \in Callers, ThreadConnects(r) PROVE ClientsInv'
  <2>1. PICK c \in {"none", "open", "opening"} :
          /\ place[r] = "ended" /\ client[r] = "opening"
          /\ client' = [client EXCEPT ![r] = c] /\ UNCHANGED <<place, fate>>
    BY <1>15 DEF ThreadConnects, Becomes
  <2>2. Explained(r)'
    BY <1>1, <1>4, <2>1 DEF ClientInv, Explained
  <2>3. place' = [place EXCEPT ![r] = "ended"] /\ fate' = fate
    BY <1>4, <2>1
  <2> QED BY <1>3a, <2>1, <2>2, <2>3 DEF Stages
<1>16. CASE Wait \/ UNCHANGED sourceVars
  BY <1>2, <1>16 DEF Wait, sourceVars, requestVars
<1> QED BY <1>5, <1>6, <1>7, <1>8, <1>9, <1>10, <1>11, <1>12, <1>13, <1>14, <1>15, <1>16
        DEF SourcesNext

\* A request leaves a connection behind only in the four ways that are listed,
\* wherever it fails or is cancelled.
THEOREM OpenConnectionsExplained == SourcesSpec => []LeftOpenExplained
<1>1. SourcesInit => ClientsInv
  <2> SUFFICES ASSUME SourcesInit PROVE ClientsInv
    OBVIOUS
  <2>1. Fine \in [how : {"fine", "failed", "cancelled"}, at : Stages]
    BY DEF Fine, Stages
  <2>2. source \in [type : Types, present : BOOLEAN, version : Nat]
    <3>1. PICK t \in Types : source = [type |-> t, present |-> TRUE, version |-> 0]
      BY DEF SourcesInit
    <3> QED BY <3>1
  <2>3. \A r \in Callers : ClientInv(r)
    BY DEF SourcesInit, ClientInv
  <2>4. place \in [Callers -> Stages] /\ client \in [Callers -> {"none", "open", "opening"}]
    BY DEF SourcesInit, Stages
  <2> QED BY <2>1, <2>2, <2>3, <2>4 DEF SourcesInit, ClientsInv
<1>2. ClientsInv => LeftOpenExplained
  BY DEF ClientsInv, ClientInv, Explained, LeftOpenExplained
<1> QED BY <1>1, <1>2, ClientsInvStep, PTL DEF SourcesSpec

-----------------------------------------------------------------------------
(* Accounts.                                                                   *)

PersonStages == {"new", "inserting", "registered", "refused", "dropped"}

AccountTypeOK ==
    /\ users \subseteq [owner : People, email : Addresses] /\ IsFiniteSet(users)
    /\ unique \in BOOLEAN /\ blind \in BOOLEAN
    /\ address \in [People -> Addresses] /\ stage \in [People -> PersonStages]
    /\ lockedOut \subseteq People /\ overlapped \subseteq Addresses

\* The registered, and nobody else, have an account: one of their own.
OwnAccounts ==
    /\ \A p \in People : stage[p] = "registered" => [owner |-> p, email |-> address[p]] \in users
    /\ \A u \in users : stage[u.owner] = "registered" /\ u.email = address[u.owner]

\* What the check of an address found is out of date only where it overlapped
\* another registration.
ChecksHold ==
    \A p \in People : stage[p] = "inserting" =>
        /\ AccountsOf(address[p]) # {} => address[p] \in overlapped
        /\ \A q \in People : q # p /\ stage[q] = "inserting" /\ address[q] = address[p] =>
                address[p] \in overlapped

Twins(e, u, v) == u # v /\ u.email = e /\ v.email = e

TwinsExplained ==
    /\ ~unique => blind
    /\ \A u, v \in users : Twins(u.email, u, v) => ~unique /\ u.email \in overlapped
    /\ \A p \in lockedOut : \E u, v \in users : Twins(address[p], u, v)

AccountsInv == AccountTypeOK /\ OwnAccounts /\ ChecksHold /\ TwinsExplained

\* An address is a duplicate exactly if two accounts have it.
LEMMA DuplicatesAreTwins ==
    ASSUME AccountTypeOK, NEW e \in Addresses
    PROVE  e \in Duplicates <=> \E u, v \in users : Twins(e, u, v)
<1> DEFINE S == AccountsOf(e)
<1>1. S \subseteq users /\ IsFiniteSet(S)
  BY FS_Subset DEF AccountTypeOK, AccountsOf
<1>2. Cardinality(S) \in Nat /\ (Cardinality(S) = 0 <=> S = {})
      /\ (Cardinality(S) = 1 <=> \E x : S = {x})
  BY <1>1, FS_CardinalityType, FS_EmptySet, FS_Singleton
<1>3. e \in Duplicates <=> Cardinality(S) > 1
  BY DEF Duplicates
<1>4. Cardinality(S) > 1 <=> S # {} /\ ~\E x : S = {x}
  <2> DEFINE n == Cardinality(S)
             empty == S = {}
             single == \E x : S = {x}
  <2>1. n \in Nat /\ (n = 0 <=> empty) /\ (n = 1 <=> single)
    BY <1>2
  <2> HIDE DEF n, empty, single
  <2>2. n > 1 <=> ~empty /\ ~single
    BY <2>1
  <2> QED BY <2>2 DEF n, empty, single
<1>5. S # {} /\ ~(\E x : S = {x}) <=> \E u, v \in S : u # v
  OBVIOUS
<1>6. (\E u, v \in S : u # v) <=> \E u, v \in users : Twins(e, u, v)
  BY DEF AccountsOf, Twins
<1> QED BY <1>3, <1>4, <1>5, <1>6

LEMMA AccountsInvInit == AccountsInit => AccountsInv
<1> SUFFICES ASSUME AccountsInit PROVE AccountsInv
  OBVIOUS
<1>1. users = {} /\ IsFiniteSet(users)
  BY FS_EmptySet DEF AccountsInit
<1>2. AccountTypeOK
  BY <1>1 DEF AccountsInit, AccountTypeOK, PersonStages
<1> QED BY <1>1, <1>2 DEF AccountsInit, AccountsInv, OwnAccounts, ChecksHold, TwinsExplained

LEMMA CheckKeeps == ASSUME AccountsInv, NEW p \in People, Check(p) PROVE AccountsInv'
<1> DEFINE s == IF Known(p) THEN "refused" ELSE "inserting"
           busy == \E q \in People : stage[q] = "inserting" /\ address[q] = address[p]
<1>1. /\ stage[p] = "new" /\ stage' = [stage EXCEPT ![p] = s]
      /\ overlapped' = IF busy THEN overlapped \cup {address[p]} ELSE overlapped
      /\ UNCHANGED <<users, unique, starts, address, lockedOut, blind>>
  BY DEF Check
<1>2. AccountTypeOK'
  BY <1>1 DEF AccountsInv, AccountTypeOK, PersonStages
<1>3. /\ \A q \in People : stage'[q] = IF q = p THEN s ELSE stage[q]
      /\ overlapped \subseteq overlapped' /\ \A e : AccountsOf(e)' = AccountsOf(e)
  BY <1>1 DEF AccountsInv, AccountTypeOK, AccountsOf
<1>4. OwnAccounts'
  <2>1. \A u \in users : u.owner \in People
    BY DEF AccountsInv, AccountTypeOK
  <2>2. s # "registered"
    OBVIOUS
  <2> HIDE DEF s
  <2> QED BY <1>1, <1>3, <2>1, <2>2 DEF AccountsInv, OwnAccounts
<1>5. ChecksHold'
  <2>1. s = "inserting" => AccountsOf(address[p]) = {}
    BY DEF Known
  <2>2. ASSUME NEW q \in People, q # p, stage'[q] = "inserting"
        PROVE  AccountsOf(address[q]) # {} => address[q] \in overlapped'
    BY <1>3, <2>2 DEF AccountsInv, ChecksHold
  <2>3. ASSUME NEW q \in People, NEW t \in People, t # q, address[t] = address[q],
               stage'[q] = "inserting", stage'[t] = "inserting"
        PROVE  address[q] \in overlapped'
    <3>1. CASE q # p /\ t # p
      BY <1>3, <2>3, <3>1 DEF AccountsInv, ChecksHold
    <3>2. CASE q = p \/ t = p
      <4>1. busy /\ address[q] = address[p]
        BY <1>3, <2>3, <3>2
      <4> QED BY <1>1, <4>1
    <3> QED BY <3>1, <3>2
  <2> HIDE DEF s
  <2> QED BY <1>1, <1>3, <2>1, <2>2, <2>3 DEF ChecksHold
<1>6. TwinsExplained'
  BY <1>1, <1>3 DEF AccountsInv, TwinsExplained, Twins
<1> QED BY <1>2, <1>4, <1>5, <1>6 DEF AccountsInv

LEMMA InsertKeeps == ASSUME AccountsInv, NEW p \in People, Insert(p) PROVE AccountsInv'
<1> DEFINE mine == [owner |-> p, email |-> address[p]]
<1>0. /\ stage[p] = "inserting" /\ mine \in [owner : People, email : Addresses]
      /\ mine.owner = p /\ mine.email = address[p]
      /\ UNCHANGED <<unique, address, lockedOut, blind, overlapped>>
      /\ \A u \in users : u.owner \in People
  BY DEF Insert, AccountsInv, AccountTypeOK
<1>1. CASE unique /\ Known(p)
  <2>1. users' = users /\ stage' = [stage EXCEPT ![p] = "refused"]
    BY <1>1 DEF Insert
  <2>2. \A q \in People : stage'[q] = IF q = p THEN "refused" ELSE stage[q]
    BY <2>1 DEF AccountsInv, AccountTypeOK
  <2>3. AccountTypeOK' /\ \A e : AccountsOf(e)' = AccountsOf(e)
    BY <1>0, <2>1 DEF AccountsInv, AccountTypeOK, PersonStages, AccountsOf
  <2>4. OwnAccounts'
    BY <1>0, <2>1, <2>2 DEF AccountsInv, OwnAccounts
  <2>5. ChecksHold'
    BY <1>0, <2>2, <2>3 DEF AccountsInv, ChecksHold
  <2>6. TwinsExplained'
    BY <1>0, <2>1 DEF AccountsInv, TwinsExplained, Twins
  <2> QED BY <2>3, <2>4, <2>5, <2>6 DEF AccountsInv
<1>2. CASE ~(unique /\ Known(p))
  <2> HIDE DEF mine
  <2>1. users' = users \cup {mine} /\ stage' = [stage EXCEPT ![p] = "registered"]
    BY <1>2 DEF Insert, mine
  <2>2. \A q \in People : stage'[q] = IF q = p THEN "registered" ELSE stage[q]
    BY <2>1 DEF AccountsInv, AccountTypeOK
  <2>3. AccountTypeOK'
    <3>1. IsFiniteSet(users')
      BY <2>1, FS_AddElement DEF AccountsInv, AccountTypeOK
    <3> QED BY <1>0, <2>1, <3>1 DEF AccountsInv, AccountTypeOK, PersonStages
  <2>4. OwnAccounts'
    <3>1. \A q \in People : stage'[q] = "registered" => [owner |-> q, email |-> address'[q]] \in users'
      BY <1>0, <2>1, <2>2 DEF AccountsInv, OwnAccounts, mine
    <3>2. \A u \in users' : stage'[u.owner] = "registered" /\ u.email = address'[u.owner]
      BY <1>0, <2>1, <2>2 DEF AccountsInv, OwnAccounts
    <3> QED BY <3>1, <3>2 DEF OwnAccounts
  <2>5. ChecksHold'
    <3>1. ASSUME NEW q \in People, stage'[q] = "inserting", AccountsOf(address[q])' # {}
          PROVE  address[q] \in overlapped
      <4>1. q # p /\ stage[q] = "inserting"
        BY <2>2, <3>1
      <4>2. CASE address[q] = address[p]
        BY <1>0, <4>1, <4>2 DEF AccountsInv, ChecksHold
      <4>3. CASE address[q] # address[p]
        <5>1. AccountsOf(address[q]) # {}
          BY <1>0, <2>1, <3>1, <4>3 DEF AccountsOf
        <5> QED BY <4>1, <5>1 DEF AccountsInv, ChecksHold
      <4> QED BY <4>2, <4>3
    <3>2. ASSUME NEW q \in People, NEW t \in People, t # q, address[t] = address[q],
                 stage'[q] = "inserting", stage'[t] = "inserting"
          PROVE  address[q] \in overlapped
      BY <2>2, <3>2 DEF AccountsInv, ChecksHold
    <3>3. address' = address /\ overlapped' = overlapped
      BY <1>0
    <3> QED BY <3>1, <3>2, <3>3 DEF ChecksHold
  <2>6. TwinsExplained'
    <3>1. ASSUME NEW u \in users, u.email = address[p]
          PROVE  ~unique /\ address[p] \in overlapped
      <4>1. Known(p)
        BY <3>1 DEF Known, AccountsOf
      <4> QED BY <1>0, <1>2, <4>1 DEF AccountsInv, ChecksHold, Known
    <3>2. ASSUME NEW u \in users', NEW v \in users', Twins(u.email, u, v)
          PROVE  ~unique' /\ u.email \in overlapped'
      <4>1. CASE u \in users /\ v \in users
        BY <1>0, <3>2, <4>1 DEF AccountsInv, TwinsExplained
      <4>2. CASE u = mine \/ v = mine
        BY <1>0, <2>1, <3>1, <3>2, <4>2 DEF Twins
      <4> QED BY <2>1, <4>1, <4>2
    <3>3. \A q \in lockedOut' : \E u, v \in users' : Twins(address'[q], u, v)
      BY <1>0, <2>1 DEF AccountsInv, TwinsExplained
    <3> QED BY <1>0, <3>2, <3>3 DEF AccountsInv, TwinsExplained
  <2> QED BY <2>3, <2>4, <2>5, <2>6 DEF AccountsInv
<1> QED BY <1>1, <1>2

LEMMA LoginKeeps == ASSUME AccountsInv, NEW p \in People, Login(p) PROVE AccountsInv'
<1> DEFINE mine == [owner |-> p, email |-> address[p]]
<1>1. PICK u \in AccountsOf(address[p]) :
        lockedOut' = IF u.owner = p THEN lockedOut ELSE lockedOut \cup {p}
  BY DEF Login
<1>2. UNCHANGED <<users, unique, address, stage, blind, overlapped>> /\ mine \in users
  BY DEF Login, AccountsInv, OwnAccounts
<1>3. u.owner # p => Twins(address[p], u, mine)
  BY <1>1 DEF AccountsOf, Twins
<1>4. u \in users
  BY <1>1 DEF AccountsOf
<1>5. AccountTypeOK' /\ OwnAccounts' /\ ChecksHold'
  BY <1>1, <1>2 DEF AccountsInv, AccountTypeOK, OwnAccounts, ChecksHold, AccountsOf
<1>6. \A q \in lockedOut' : \E v, w \in users : Twins(address[q], v, w)
  <2> HIDE DEF mine
  <2> QED BY <1>1, <1>2, <1>3, <1>4 DEF AccountsInv, TwinsExplained
<1>7. TwinsExplained'
  BY <1>2, <1>6 DEF AccountsInv, TwinsExplained, Twins
<1> QED BY <1>5, <1>7 DEF AccountsInv

LEMMA RestartKeeps ==
    ASSUME AccountsInv, NEW reachable \in BOOLEAN, Restart(reachable)
    PROVE  AccountsInv'
<1>1. /\ stage' = [p \in People |-> IF stage[p] = "inserting" THEN "dropped" ELSE stage[p]]
      /\ unique' = (unique \/ (reachable /\ Duplicates = {}))
      /\ blind' = (blind \/ ~reachable)
      /\ UNCHANGED <<users, address, lockedOut, overlapped>>
  BY DEF Restart, IndexAfterStart
<1>2. AccountTypeOK'
  <2>1. unique' \in BOOLEAN /\ blind' \in BOOLEAN
    BY <1>1
  <2>2. stage' \in [People -> PersonStages]
    BY <1>1 DEF AccountsInv, AccountTypeOK, PersonStages
  <2> QED BY <1>1, <2>1, <2>2 DEF AccountsInv, AccountTypeOK
<1>3. OwnAccounts'
  <2>1. \A u \in users : u.owner \in People
    BY DEF AccountsInv, AccountTypeOK
  <2> QED BY <1>1, <2>1 DEF AccountsInv, OwnAccounts
<1>4. ChecksHold'
  BY <1>1 DEF ChecksHold
<1>5. TwinsExplained'
  <2>1. ~unique' => blind'
    <3>1. ~unique => blind
      BY DEF AccountsInv, TwinsExplained
    <3> QED BY <1>1, <3>1
  <2>2. ASSUME NEW u \in users, NEW v \in users, Twins(u.email, u, v)
        PROVE  ~unique' /\ u.email \in overlapped
    <3>1. ~unique /\ u.email \in overlapped
      BY <2>2 DEF AccountsInv, TwinsExplained
    <3>2. u.email \in Addresses
      BY DEF AccountsInv, AccountTypeOK
    <3>3. u.email \in Duplicates
      BY <2>2, <3>2, DuplicatesAreTwins DEF AccountsInv
    <3> QED BY <1>1, <3>1, <3>3
  <2> QED BY <1>1, <2>1, <2>2 DEF AccountsInv, TwinsExplained, Twins
<1> QED BY <1>2, <1>3, <1>4, <1>5 DEF AccountsInv

LEMMA AccountsInvStep == AccountsInv /\ [AccountsNext]_accountVars => AccountsInv'
<1> SUFFICES ASSUME AccountsInv, [AccountsNext]_accountVars PROVE AccountsInv'
  OBVIOUS
<1>1. CASE UNCHANGED accountVars
  BY <1>1 DEF accountVars, AccountsInv, AccountTypeOK, OwnAccounts, ChecksHold, TwinsExplained,
              AccountsOf, Twins
<1>2. CASE AccountsNext
  BY <1>2, CheckKeeps, InsertKeeps, LoginKeeps, RestartKeeps DEF AccountsNext
<1> QED BY <1>1, <1>2

\* Two accounts of one address come only from registrations that overlapped on a
\* server without its index, which started without MongoDB; whoever cannot log in
\* to an account has such an address.
THEOREM DuplicatesExplained == AccountsSpec => []DuplicatesOnlyByOverlap
<1>1. AccountsInv => DuplicatesOnlyByOverlap
  <2> SUFFICES ASSUME AccountsInv PROVE DuplicatesOnlyByOverlap
    OBVIOUS
  <2>1. ASSUME NEW e \in Duplicates PROVE ~unique /\ blind /\ e \in overlapped
    <3>1. e \in Addresses
      BY DEF Duplicates
    <3>2. PICK u \in users, v \in users : Twins(e, u, v)
      BY <2>1, <3>1, DuplicatesAreTwins DEF AccountsInv
    <3>3. u.email = e
      BY <3>2 DEF Twins
    <3> QED BY <3>2, <3>3 DEF AccountsInv, TwinsExplained
  <2>2. ASSUME NEW p \in lockedOut PROVE address[p] \in Duplicates
    <3>1. address[p] \in Addresses /\ \E u, v \in users : Twins(address[p], u, v)
      BY DEF AccountsInv, AccountTypeOK, TwinsExplained
    <3> QED BY <3>1, DuplicatesAreTwins DEF AccountsInv
  <2> QED BY <2>1, <2>2 DEF DuplicatesOnlyByOverlap
<1> QED BY <1>1, AccountsInvInit, AccountsInvStep, PTL DEF AccountsSpec

-----------------------------------------------------------------------------
(* TableStats: the figures.                                                    *)

Recent(span) == {r \in DOMAIN changed : changed[r] > Now - span}
Read(n) == {Figures[i] : i \in 1..(n - 1)}

\* Everything but what the figures read so far say of the table.
StatTypeOK ==
    /\ hour \in Nat /\ started \in Nat /\ started <= hour
    /\ kindOfTable \in {"postgres", "mongodb"}
    /\ DOMAIN changed \subseteq RowNames /\ changed \in [DOMAIN changed -> 0..hour]
    /\ reading \in 1..6
    /\ stats \in [Read(reading) -> Nat \cup {Absent}]
    /\ deletions \in BOOLEAN /\ changes \in BOOLEAN /\ (deletions => changes)

LEMMA FigureNames ==
    /\ DOMAIN Figures = 1..5
    /\ \A i, j \in 1..5 : Figures[i] = Figures[j] => i = j
    /\ \A i \in 1..5 : Figures[i] = "row_count" <=> i = 1
    /\ \A i \in 1..5 : Figures[i] = "last_modified" <=> i = 2
    /\ Figures[1] = "row_count" /\ Figures[2] = "last_modified" /\ Figures[3] = "changes_1h"
<1>1. /\ Figures[1] = "row_count" /\ Figures[2] = "last_modified" /\ Figures[3] = "changes_1h"
      /\ Figures[4] = "changes_3h" /\ Figures[5] = "changes_24h" /\ DOMAIN Figures = 1..5
  BY DEF Figures
<1>2. \A i \in 1..5 : i = 1 \/ i = 2 \/ i = 3 \/ i = 4 \/ i = 5
  OBVIOUS
<1> QED BY <1>1, <1>2

\* A count is of the rows that changed within its span.
LEMMA CountOf ==
    ASSUME NEW i \in 3..5
    PROVE  Count(Figures[i]) = Cardinality(Recent(Spans[i - 2]))
<1>1. i - 2 \in 1..3 /\ Figures[(i - 2) + 2] = Figures[i]
  OBVIOUS
<1>2. \A k \in 1..3 : Figures[k + 2] = Figures[i] => k = i - 2
  BY FigureNames
<1>3. (CHOOSE k \in 1..3 : Figures[k + 2] = Figures[i]) = i - 2
  BY <1>1, <1>2
<1>4. Hours(Figures[i]) = Spans[i - 2]
  BY <1>3 DEF Hours
<1> QED BY <1>4 DEF Count, Recent

LEMMA NowIsNumber == ASSUME StatTypeOK PROVE Now \in Nat /\ Now <= hour
  BY DEF StatTypeOK, Now

\* The longer the span, the more rows changed within it.
LEMMA CountsNested ==
    ASSUME StatTypeOK
    PROVE  /\ IsFiniteSet(DOMAIN changed) /\ Cardinality(DOMAIN changed) \in Nat
           /\ \A i \in 3..5 : /\ Count(Figures[i]) \in Nat
                              /\ Count(Figures[i]) <= Cardinality(DOMAIN changed)
           /\ \A i, j \in 3..5 : i < j => Count(Figures[i]) <= Count(Figures[j])
<1>1. IsFiniteSet(DOMAIN changed) /\ Cardinality(DOMAIN changed) \in Nat
  BY StatsAssumption, FS_Subset, FS_CardinalityType DEF StatTypeOK
<1>2. \A span : Recent(span) \subseteq DOMAIN changed /\ IsFiniteSet(Recent(span))
  BY <1>1, FS_Subset DEF Recent
<1>3. ASSUME NEW i \in 3..5
      PROVE  Count(Figures[i]) \in Nat /\ Count(Figures[i]) <= Cardinality(DOMAIN changed)
  BY <1>1, <1>2, CountOf, FS_Subset, FS_CardinalityType
<1>4. ASSUME NEW i \in 3..5, NEW j \in 3..5, i < j
      PROVE  Count(Figures[i]) <= Count(Figures[j])
  <2>1. Spans[i - 2] \in Nat /\ Spans[j - 2] \in Nat /\ Spans[i - 2] <= Spans[j - 2]
    <3>1. Spans[1] \in Nat /\ Spans[2] \in Nat /\ Spans[3] \in Nat
      BY StatsAssumption
    <3>2. (i = 3 /\ j = 4) \/ (i = 3 /\ j = 5) \/ (i = 4 /\ j = 5)
      BY <1>4
    <3> QED BY <3>1, <3>2, StatsAssumption
  <2>2. Recent(Spans[i - 2]) \subseteq Recent(Spans[j - 2])
    <3>1. \A r \in DOMAIN changed : changed[r] \in Nat
      BY DEF StatTypeOK
    <3> QED BY <2>1, <3>1, NowIsNumber DEF Recent
  <2> QED BY <1>2, <2>2, CountOf, FS_Subset
<1> QED BY <1>1, <1>3, <1>4

\* Hours are numbers up to now, so that a table with rows has a last change.
LEMMA LastModifiedExists ==
    ASSUME StatTypeOK
    PROVE  /\ LastModified \in Nat \cup {Absent}
           /\ LastModified # Absent =>
                /\ \A r \in DOMAIN changed : changed[r] <= LastModified
                /\ \E r \in DOMAIN changed : changed[r] = LastModified
<1>0. \A r \in DOMAIN changed : changed[r] \in 0..hour
  BY DEF StatTypeOK
<1>1. CASE DOMAIN changed = {}
  BY <1>1 DEF LastModified
<1>2. CASE DOMAIN changed # {}
  <2> DEFINE Ages == {hour - changed[r] : r \in DOMAIN changed}
             Times == {changed[r] : r \in DOMAIN changed}
  <2>1. Ages \in SUBSET Nat /\ Ages # {}
    BY <1>0, <1>2 DEF StatTypeOK
  <2>2. PICK age \in Ages : \A a \in Ages : ~(<<a, age>> \in OpToRel(<, Nat))
    BY <2>1, NatLessThanWellFounded, WFMin
  <2>3. PICK last \in DOMAIN changed : age = hour - changed[last]
    BY <2>2
  <2>4. ASSUME NEW r \in DOMAIN changed PROVE changed[r] <= changed[last]
    <3>1. hour - changed[r] \in Ages /\ hour - changed[r] \in Nat /\ hour - changed[last] \in Nat
      BY <2>1, <2>3
    <3>2. ~(hour - changed[r] < hour - changed[last])
      BY <2>2, <2>3, <3>1 DEF OpToRel
    <3> QED BY <1>0, <3>2 DEF StatTypeOK
  <2>5. LastModified = CHOOSE t \in Times : \A r \in DOMAIN changed : changed[r] <= t
    BY <1>2 DEF LastModified
  <2>6. LastModified \in Times /\ \A r \in DOMAIN changed : changed[r] <= LastModified
    BY <2>4, <2>5
  <2> QED BY <1>0, <2>6
<1> QED BY <1>1, <1>2

\* Some row changed within a span exactly if the last change is within it.
LEMMA RecentHasLast ==
    ASSUME StatTypeOK, LastModified # Absent
    PROVE  Count("changes_1h") > 0 <=> LastModified > Now - Spans[1]
<1>1. /\ \A r \in DOMAIN changed : changed[r] \in Nat
      /\ Spans[1] \in Nat /\ Now \in Nat /\ LastModified \in Nat
  BY StatsAssumption, NowIsNumber, LastModifiedExists DEF StatTypeOK
<1>2. Recent(Spans[1]) # {} <=> LastModified > Now - Spans[1]
  BY <1>1, LastModifiedExists DEF Recent
<1>3. IsFiniteSet(Recent(Spans[1]))
  BY CountsNested, FS_Subset DEF Recent
<1>4. Count("changes_1h") = Cardinality(Recent(Spans[1]))
  BY CountOf, FigureNames
<1>5. Count("changes_1h") \in Nat /\ (Count("changes_1h") = 0 <=> Recent(Spans[1]) = {})
  BY <1>3, <1>4, FS_CardinalityType, FS_EmptySet
<1> QED BY <1>2, <1>5

LEMMA FigureIs ==
    ASSUME StatTypeOK, NEW i \in 1..5
    PROVE  /\ i = 1 => Figure(Figures[i]) = Cardinality(DOMAIN changed)
           /\ i = 2 => Figure(Figures[i]) = LastModified
           /\ i \in 3..5 => Figure(Figures[i]) = Count(Figures[i])
           /\ Figure(Figures[i]) \in Nat \cup {Absent}
<1>1. i = 1 => Figure(Figures[i]) = Cardinality(DOMAIN changed)
  BY FigureNames DEF Figure
<1>2. i = 2 => Figure(Figures[i]) = LastModified
  BY FigureNames DEF Figure
<1>3. i \in 3..5 => Figure(Figures[i]) = Count(Figures[i])
  BY FigureNames DEF Figure
<1>4. i = 1 \/ i = 2 \/ i \in 3..5
  OBVIOUS
<1> QED BY <1>1, <1>2, <1>3, <1>4, CountsNested, LastModifiedExists

-----------------------------------------------------------------------------
(* TableStats: the reading.                                                    *)

\* In a table at rest every figure that was read is still what it was; while
\* no rows go and no hours pass, a count can only have become too small.
Counted(i) == i < reading /\ stats[Figures[i]] # Absent

StatsInv ==
    /\ StatTypeOK
    /\ ~changes =>
        /\ hour = started
        /\ \A i \in 1..5 : Counted(i) =>
              \/ stats[Figures[i]] = Figure(Figures[i])
              \/ i = 1 /\ kindOfTable = "mongodb" /\ stats[Figures[i]] = 0
    /\ ~deletions =>
        /\ \A i \in 3..5 : Counted(i) => stats[Figures[i]] <= Count(Figures[i])
        /\ \A i, j \in 3..5 : i < j /\ Counted(i) /\ Counted(j) =>
              stats[Figures[i]] <= stats[Figures[j]]

LEMMA NoteKeeps ==
    ASSUME StatsInv, reading \in 1..5, NEW value \in Nat \cup {Absent}, Note(value),
           \/ value = Absent \/ value = Figure(Figures[reading])
           \/ reading = 1 /\ kindOfTable = "mongodb" /\ value = 0
    PROVE  StatsInv'
<1>1. /\ stats' = [x \in DOMAIN stats \cup {Figures[reading]} |->
                    IF x = Figures[reading] THEN value ELSE stats[x]]
      /\ reading' = reading + 1
      /\ UNCHANGED <<hour, kindOfTable, changed, started, deletions, changes>>
  BY DEF Note
<1>2. DOMAIN stats = Read(reading)
  BY DEF StatsInv, StatTypeOK
<1>3. Read(reading + 1) = Read(reading) \cup {Figures[reading]}
  <2>1. 1..((reading + 1) - 1) = 1..(reading - 1) \cup {reading}
    OBVIOUS
  <2> QED BY <2>1 DEF Read
<1>4. ASSUME NEW i \in 1..5, i <= reading
      PROVE  stats'[Figures[i]] = IF i = reading THEN value ELSE stats[Figures[i]]
  <2>1. Figures[i] \in Read(reading) \cup {Figures[reading]}
    BY <1>4 DEF Read
  <2>2. Figures[i] = Figures[reading] <=> i = reading
    BY FigureNames
  <2> QED BY <1>1, <1>2, <2>1, <2>2
<1>5. StatTypeOK'
  <2>1. stats' \in [Read(reading') -> Nat \cup {Absent}]
    BY <1>1, <1>2, <1>3 DEF StatsInv, StatTypeOK
  <2> QED BY <1>1, <2>1 DEF StatsInv, StatTypeOK
<1>6. /\ \A i \in 1..5 : Figure(Figures[i])' = Figure(Figures[i])
      /\ \A i \in 3..5 : Count(Figures[i])' = Count(Figures[i])
  BY <1>1 DEF Figure, LastModified, Count, Now
<1>7. ASSUME NEW i \in 1..5
      PROVE  /\ Counted(i)' => (i = reading /\ value # Absent) \/ Counted(i)
             /\ Counted(i)' /\ i # reading => i < reading
             /\ Counted(i)' => stats'[Figures[i]] = IF i = reading THEN value ELSE stats[Figures[i]]
  <2>1. Counted(i)' => i <= reading
    BY <1>1 DEF Counted
  <2> QED BY <1>1, <1>4, <2>1 DEF Counted
<1>8. ASSUME ~changes', NEW i \in 1..5, Counted(i)'
      PROVE  \/ stats'[Figures[i]] = Figure(Figures[i])'
             \/ i = 1 /\ kindOfTable' = "mongodb" /\ stats'[Figures[i]] = 0
  <2>1. CASE i = reading
    <3>1. stats'[Figures[i]] = value /\ value # Absent
      BY <1>7, <1>8, <2>1 DEF Counted
    <3> QED BY <1>1, <1>6, <2>1, <3>1
  <2>2. CASE i # reading
    BY <1>1, <1>6, <1>7, <1>8, <2>2 DEF StatsInv
  <2> QED BY <2>1, <2>2
<1>9. ASSUME reading \in 3..5, value # Absent PROVE value = Count(Figures[reading])
  BY <1>9, FigureIs DEF StatsInv
<1>10. ASSUME ~deletions', NEW i \in 3..5, Counted(i)'
       PROVE  stats'[Figures[i]] <= Count(Figures[i])'
  <2>1. i \in 1..5 /\ Count(Figures[i]) \in Nat
    BY CountsNested DEF StatsInv
  <2>2. CASE i = reading
    BY <1>6, <1>7, <1>9, <1>10, <2>1, <2>2 DEF Counted
  <2>3. CASE i # reading
    BY <1>1, <1>6, <1>7, <1>10, <2>1, <2>3 DEF StatsInv
  <2> QED BY <2>2, <2>3
<1>11. ASSUME ~deletions', NEW i \in 3..5, NEW j \in 3..5, i < j, Counted(i)', Counted(j)'
       PROVE  stats'[Figures[i]] <= stats'[Figures[j]]
  <2>1. i \in 1..5 /\ j \in 1..5 /\ j <= reading
    BY <1>1, <1>11 DEF Counted
  <2>2. i < reading /\ Counted(i) /\ stats'[Figures[i]] = stats[Figures[i]]
    BY <1>7, <1>11, <2>1
  <2>3. CASE j # reading
    BY <1>1, <1>7, <1>11, <2>1, <2>2, <2>3 DEF StatsInv
  <2>4. CASE j = reading
    <3>1. stats'[Figures[j]] = Count(Figures[j])
      BY <1>7, <1>9, <1>11, <2>1, <2>4 DEF Counted
    <3>2. stats[Figures[i]] <= Count(Figures[i])
      BY <1>1, <1>11, <2>2 DEF StatsInv
    <3>3. Count(Figures[i]) <= Count(Figures[j]) /\ Count(Figures[i]) \in Nat /\ Count(Figures[j]) \in Nat
      BY <1>11, CountsNested DEF StatsInv
    <3>4. stats[Figures[i]] \in Nat \cup {Absent}
      <4>1. Figures[i] \in Read(reading)
        BY <2>1, <2>2 DEF Read
      <4> QED BY <4>1 DEF StatsInv, StatTypeOK
    <3> QED BY <2>2, <3>1, <3>2, <3>3, <3>4 DEF Absent
  <2> QED BY <2>3, <2>4
<1>12. ~changes' => hour' = started'
  BY <1>1 DEF StatsInv
<1> QED BY <1>5, <1>8, <1>10, <1>11, <1>12 DEF StatsInv

\* A count does not become smaller while the rows it counts stay, as recent.
LEMMA CountGrows ==
    ASSUME StatTypeOK, DOMAIN changed' \subseteq RowNames, NEW i \in 3..5,
           \A span \in Nat \ {0} : \A r \in DOMAIN changed : changed[r] > Now - span =>
              r \in DOMAIN changed' /\ changed'[r] > Now' - span
    PROVE  Count(Figures[i])' \in Nat /\ Count(Figures[i]) <= Count(Figures[i])'
<1> DEFINE span == Hours(Figures[i])
           S == {r \in DOMAIN changed : changed[r] > Now - span}
           T == {r \in DOMAIN changed' : changed'[r] > Now' - span}
<1>1. span \in Nat \ {0}
  <2>1. i - 2 \in 1..3 /\ Figures[(i - 2) + 2] = Figures[i]
    OBVIOUS
  <2>2. \E k \in 1..3 : Figures[k + 2] = Figures[i]
    BY <2>1
  <2>3. (CHOOSE k \in 1..3 : Figures[k + 2] = Figures[i]) \in 1..3
    BY <2>2
  <2> QED BY <2>3, StatsAssumption DEF Hours
<1>2. S \subseteq T
  BY <1>1
<1>3. IsFiniteSet(T)
  <2>1. T \subseteq RowNames
    OBVIOUS
  <2> QED BY <2>1, StatsAssumption, FS_Subset
<1>4. Cardinality(S) <= Cardinality(T) /\ Cardinality(T) \in Nat
  BY <1>2, <1>3, FS_Subset, FS_CardinalityType
<1> QED BY <1>4 DEF Count

\* A step that leaves the figures alone and makes no count smaller keeps what
\* was read in order.
LEMMA TableKeeps ==
    ASSUME StatsInv, StatTypeOK', UNCHANGED <<reading, stats>>, changes',
           deletions => deletions',
           ~deletions' => \A i \in 3..5 : Count(Figures[i])' \in Nat /\
                                          Count(Figures[i]) <= Count(Figures[i])'
    PROVE  StatsInv'
<1>1. \A i \in 3..5 : (Counted(i)' <=> Counted(i)) /\ stats'[Figures[i]] = stats[Figures[i]]
  BY DEF Counted
<1>2. ASSUME ~deletions', NEW i \in 3..5, Counted(i) PROVE stats[Figures[i]] <= Count(Figures[i])'
  <2>1. Figures[i] \in Read(reading)
    BY <1>2 DEF Counted, Read, StatsInv, StatTypeOK
  <2>2. stats[Figures[i]] \in Int
    BY <2>1 DEF StatsInv, StatTypeOK, Absent
  <2>3. Count(Figures[i]) \in Nat /\ Count(Figures[i])' \in Nat
    BY <1>2, CountsNested DEF StatsInv
  <2>4. stats[Figures[i]] <= Count(Figures[i])
    BY <1>2 DEF StatsInv
  <2> QED BY <1>2, <2>2, <2>3, <2>4
<1> QED BY <1>1, <1>2 DEF StatsInv

LEMMA TouchKeeps == ASSUME StatsInv, NEW r \in RowNames, Touch(r) PROVE StatsInv'
<1>1. /\ changed' = [x \in DOMAIN changed \cup {r} |-> IF x = r THEN hour ELSE changed[x]]
      /\ changes' = TRUE
      /\ UNCHANGED <<hour, kindOfTable, reading, started, stats, deletions>>
  BY DEF Touch
<1>2. StatTypeOK'
  <2>1. DOMAIN changed' \subseteq RowNames /\ changed' \in [DOMAIN changed' -> 0..hour']
    BY <1>1 DEF StatsInv, StatTypeOK
  <2> QED BY <1>1, <2>1 DEF StatsInv, StatTypeOK
<1>3. ASSUME NEW span \in Nat \ {0}, NEW x \in DOMAIN changed, changed[x] > Now - span
      PROVE  x \in DOMAIN changed' /\ changed'[x] > Now' - span
  <2>1. Now' = Now /\ Now \in Nat /\ Now <= hour /\ hour \in Nat
    BY <1>1, NowIsNumber DEF Now, StatsInv, StatTypeOK
  <2> QED BY <1>1, <1>3, <2>1
<1>4. \A i \in 3..5 : Count(Figures[i])' \in Nat /\ Count(Figures[i]) <= Count(Figures[i])'
  <2>1. StatTypeOK /\ DOMAIN changed' \subseteq RowNames
    BY <1>2 DEF StatsInv, StatTypeOK
  <2> QED BY <1>3, <2>1, CountGrows
<1> QED BY <1>1, <1>2, <1>4, TableKeeps

LEMMA DeleteRowKeeps == ASSUME StatsInv, NEW r \in RowNames, DeleteRow(r) PROVE StatsInv'
<1>1. /\ changed' = [x \in DOMAIN changed \ {r} |-> changed[x]]
      /\ changes' = TRUE /\ deletions' = TRUE
      /\ UNCHANGED <<hour, kindOfTable, reading, started, stats>>
  BY DEF DeleteRow
<1>2. StatTypeOK'
  <2>1. DOMAIN changed' \subseteq RowNames /\ changed' \in [DOMAIN changed' -> 0..hour']
    BY <1>1 DEF StatsInv, StatTypeOK
  <2> QED BY <1>1, <2>1 DEF StatsInv, StatTypeOK
<1> QED BY <1>1, <1>2, TableKeeps

LEMMA HourPassesKeeps == ASSUME StatsInv, HourPasses PROVE StatsInv'
<1>1. /\ hour' = hour + 1 /\ changes' = TRUE
      /\ deletions' = (deletions \/ kindOfTable = "postgres")
      /\ UNCHANGED <<kindOfTable, changed, reading, started, stats>>
  BY DEF HourPasses
<1>2. StatTypeOK'
  <2>1. hour' \in Nat /\ started' <= hour' /\ changed' \in [DOMAIN changed' -> 0..hour']
    BY <1>1 DEF StatsInv, StatTypeOK
  <2>2. deletions' \in BOOLEAN
    BY <1>1
  <2> QED BY <1>1, <2>1, <2>2 DEF StatsInv, StatTypeOK
<1>3. ASSUME ~deletions' PROVE Now' = Now
  BY <1>1, <1>3 DEF Now
<1>4. ASSUME ~deletions', NEW i \in 3..5
      PROVE  Count(Figures[i])' \in Nat /\ Count(Figures[i]) <= Count(Figures[i])'
  <2>1. StatTypeOK /\ DOMAIN changed' \subseteq RowNames
    BY <1>2 DEF StatsInv, StatTypeOK
  <2>2. ASSUME NEW span \in Nat \ {0}, NEW x \in DOMAIN changed, changed[x] > Now - span
        PROVE  x \in DOMAIN changed' /\ changed'[x] > Now' - span
    BY <1>1, <1>3, <1>4, <2>2
  <2> QED BY <2>1, <2>2, CountGrows
<1> QED BY <1>1, <1>2, <1>4, TableKeeps

LEMMA StatsInvStep == StatsInv /\ [StatsNext]_statVars => StatsInv'
<1> SUFFICES ASSUME StatsInv, [StatsNext]_statVars PROVE StatsInv'
  OBVIOUS
<1>1. CASE UNCHANGED statVars
  BY <1>1 DEF statVars, StatsInv, StatTypeOK, Counted, Figure, LastModified, Count, Now
<1>2. CASE ReadFigure
  <2>1. reading \in 1..5 /\ Note(Figure(Figures[reading]))
    BY <1>2, FigureNames DEF ReadFigure
  <2>2. Figure(Figures[reading]) \in Nat \cup {Absent}
    BY <2>1, FigureIs DEF StatsInv
  <2> QED BY <2>1, <2>2, NoteKeeps
<1>3. CASE FigureFails
  <2>1. /\ reading \in 1..5
        /\ Figures[reading] = "row_count" <=> reading = 1
        /\ reading = 1 => kindOfTable = "mongodb"
        /\ Note(IF Figures[reading] = "row_count" THEN 0 ELSE Absent)
    BY <1>3, FigureNames DEF FigureFails
  <2>2. \/ reading = 1 /\ kindOfTable = "mongodb" /\ Note(0)
        \/ Note(Absent)
    BY <2>1
  <2>3. 0 \in Nat \cup {Absent} /\ Absent \in Nat \cup {Absent}
    OBVIOUS
  <2> QED BY <2>1, <2>2, <2>3, NoteKeeps
<1>4. CASE HourPasses
  BY <1>4, HourPassesKeeps
<1>5. CASE \E r \in RowNames : Touch(r) \/ DeleteRow(r)
  BY <1>5, TouchKeeps, DeleteRowKeeps
<1> QED BY <1>1, <1>2, <1>3, <1>4, <1>5 DEF StatsNext

LEMMA StatsInvInit == StatsInit => StatsInv
<1> SUFFICES ASSUME StatsInit PROVE StatsInv
  OBVIOUS
<1>1. hour \in Nat
  BY StatsAssumption DEF StatsInit
<1>2. DOMAIN changed \subseteq RowNames /\ changed \in [DOMAIN changed -> 0..hour]
  BY DEF StatsInit
<1>3. reading = 1 /\ stats \in [Read(reading) -> Nat \cup {Absent}]
  <2>1. Read(1) = {}
    BY DEF Read
  <2> QED BY <2>1 DEF StatsInit
<1>4. StatTypeOK
  <2>1. /\ started = hour /\ kindOfTable \in {"postgres", "mongodb"}
        /\ deletions = FALSE /\ changes = FALSE /\ reading \in 1..6
    BY <1>3 DEF StatsInit
  <2>2. deletions \in BOOLEAN /\ changes \in BOOLEAN /\ (deletions => changes)
    BY <2>1
  <2>3. started <= hour /\ started \in Nat
    BY <1>1, <2>1
  <2> QED BY <1>1, <1>2, <1>3, <2>1, <2>2, <2>3 DEF StatTypeOK
<1>5. \A i \in 1..5 : ~Counted(i)
  BY <1>3 DEF Counted
<1> QED BY <1>4, <1>5 DEF StatsInit, StatsInv

\* Shorter spans never show more changes than longer ones, and in a table at
\* rest all figures agree, for a table of any size.
THEOREM FiguresAgree == StatsSpec => []FiguresOrdered
<1>1. StatsInv => FiguresOrdered
  <2> SUFFICES ASSUME StatsInv PROVE FiguresOrdered
    OBVIOUS
  <2>1. ASSUME NEW i \in 1..5, Figures[i] \in DOMAIN stats, stats[Figures[i]] # Absent
        PROVE  Counted(i)
    <3>1. PICK k \in 1..(reading - 1) : Figures[k] = Figures[i]
      BY <2>1 DEF StatsInv, StatTypeOK, Read
    <3>2. k \in 1..5 /\ k < reading
      BY <3>1 DEF StatsInv, StatTypeOK
    <3>3. k = i
      BY <3>1, <3>2, FigureNames
    <3> QED BY <2>1, <3>2, <3>3 DEF Counted
  <2>2. ASSUME ~deletions, NEW i \in 3..5, NEW j \in 3..5, i < j, Shown({Figures[i], Figures[j]})
        PROVE  stats[Figures[i]] <= stats[Figures[j]]
    <3>1. Counted(i) /\ Counted(j)
      BY <2>1, <2>2 DEF Shown
    <3> QED BY <2>2, <3>1 DEF StatsInv
  <2>3. ASSUME ~changes PROVE ~deletions /\ hour = started /\ Now = hour
    BY <2>3 DEF StatsInv, StatTypeOK, Now
  <2>4. ASSUME ~changes, NEW i \in 3..5, Shown({Figures[i], "row_count"})
        PROVE  \/ stats[Figures[i]] <= stats["row_count"]
               \/ kindOfTable = "mongodb" /\ stats["row_count"] = 0
    <3>1. Counted(i) /\ Counted(1) /\ Figures[1] = "row_count"
      BY <2>1, <2>4, FigureNames DEF Shown
    <3>2. stats[Figures[i]] = Count(Figures[i])
      BY <2>4, <3>1, FigureIs DEF StatsInv
    <3>3. \/ stats["row_count"] = Cardinality(DOMAIN changed)
          \/ kindOfTable = "mongodb" /\ stats["row_count"] = 0
      BY <2>4, <3>1, FigureIs DEF StatsInv
    <3> QED BY <3>2, <3>3, CountsNested DEF StatsInv
  <2>5. ASSUME ~changes, Shown({"changes_1h", "last_modified"})
        PROVE  (stats["changes_1h"] > 0) = (stats["last_modified"] > hour - Spans[1])
    <3>1. Counted(3) /\ Counted(2) /\ Figures[3] = "changes_1h" /\ Figures[2] = "last_modified"
      BY <2>1, <2>5, FigureNames DEF Shown
    <3>2. stats["changes_1h"] = Count("changes_1h")
      BY <2>5, <3>1, FigureIs DEF StatsInv
    <3>3. stats["last_modified"] = LastModified /\ LastModified # Absent
      BY <2>5, <3>1, FigureIs DEF StatsInv, Counted
    <3> QED BY <2>3, <2>5, <3>2, <3>3, RecentHasLast DEF StatsInv
  <2> QED BY <2>2, <2>4, <2>5 DEF FiguresOrdered
<1> QED BY <1>1, StatsInvInit, StatsInvStep, PTL DEF StatsSpec
=============================================================================

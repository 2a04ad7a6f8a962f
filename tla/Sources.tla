------------------------------- MODULE Sources -------------------------------
(* One data source: its document in MongoDB, the cached schema in Redis        *)
(* (sources/router.py, sources/service.py), and the connections that requests  *)
(* open to the database behind it (connectors).  Requests interleave at every  *)
(* await.  version stands for the credentials.                                 *)
EXTENDS Integers

CONSTANTS
    Callers,            \* each makes one request
    Types,              \* bound: the types of source considered
    Ttl,                \* settings.schema_cache_ttl_seconds, in ticks of the clock
    EndOfTime,          \* bound: the clock stops here
    MaxVersion          \* bound: so often the credentials may change

ASSUME SourceAssumption ==
    /\ Types \subseteq {"postgres", "mysql", "db2", "mongodb", "rest_api", "file"}
    /\ Ttl \in Nat \ {0} /\ EndOfTime \in Nat /\ MaxVersion \in Nat

VARIABLES
    clock,
    source,             \* the document: [type, present, version]
    cache,              \* schema:{id}: [version, whole, until]; gone from until on
    disturbed,          \* history: last update, deletion or caching of a wrong schema
    kind,               \* what a caller asks for
    place,              \* where its request is: "idle", "looking" in the cache, "reading"
                        \* the document, "connecting", "using", "closing", "caching",
                        \* "writing" the document, or "ended"
    seen,               \* version of the document it read
    whole,              \* every endpoint of its schema answered
    client,             \* its connection: "none", "open", or "opening" in a thread
    fate                \* history: how its request went wrong, and where

requestVars == <<kind, place, seen, whole, client, fate>>
sourceVars  == <<clock, source, cache, disturbed, requestVars>>

Kinds    == {"schema", "table", "test", "query", "update", "delete"}
Fine     == [how |-> "fine", at |-> "ended"]
Missing  == -1
NoCache  == [version |-> Missing, whole |-> TRUE, until |-> 0]

SourcesInit ==
    /\ clock = 0
    /\ source \in {[type |-> t, present |-> TRUE, version |-> 0] : t \in Types}
    /\ cache = NoCache
    /\ disturbed = 0
    /\ kind \in [Callers -> Kinds]
    /\ place = [r \in Callers |-> "idle"]
    /\ seen = [r \in Callers |-> Missing]
    /\ whole = [r \in Callers |-> TRUE]
    /\ client = [r \in Callers |-> "none"]
    /\ fate = [r \in Callers |-> Fine]

At(r, from, to)  == place[r] = from /\ place' = [place EXCEPT ![r] = to]
Becomes(r, c)    == client' = [client EXCEPT ![r] = c]
Suffers(r, how)  == fate' = [fate EXCEPT ![r] = [how |-> how, at |-> place[r]]]
Cached           == cache.version # Missing /\ clock < cache.until
Wrong(v, w)      == v # source.version \/ ~source.present \/ ~w

-----------------------------------------------------------------------------
(* The schema cache and the document.                                          *)

Begin(r) ==
    /\ At(r, "idle", CASE kind[r] = "schema" -> "looking" [] kind[r] = "delete" -> "writing"
                       [] OTHER -> "reading")
    /\ UNCHANGED <<clock, source, cache, disturbed, kind, seen, whole, client, fate>>

\* redis.get: a hit is the answer.
Look(r) ==
    /\ At(r, "looking", IF Cached THEN "ended" ELSE "reading")
    /\ UNCHANGED <<clock, source, cache, disturbed, kind, seen, whole, client, fate>>

\* These connectors have a client before connect() first waits; that of DB2 is
\* opened by a thread; the pools of the others, until they are open, are the
\* library's to close.  A file has none: the connector keeps the parsed table.
EarlyClients == {"mongodb", "rest_api"}

FirstClient ==
    IF source.type \in EarlyClients THEN "open"
    ELSE IF source.type = "db2" THEN "opening" ELSE "none"

\* get_source: NotFoundError ends the request.
ReadDocument(r) ==
    /\ \/ /\ ~source.present
          /\ At(r, "reading", "ended")
          /\ UNCHANGED <<seen, client>>
       \/ /\ source.present /\ kind[r] = "update"
          /\ At(r, "reading", "writing")
          /\ seen' = [seen EXCEPT ![r] = source.version]
          /\ UNCHANGED client
       \/ /\ source.present /\ kind[r] # "update"
          /\ At(r, "reading", "connecting")
          /\ seen' = [seen EXCEPT ![r] = source.version]
          /\ Becomes(r, FirstClient)
    /\ UNCHANGED <<clock, source, cache, disturbed, kind, whole, fate>>

\* update_one changes nothing when the document has been deleted meanwhile.  The
\* cached schema stays.
Update(r) ==
    /\ kind[r] = "update" /\ At(r, "writing", "ended")
    /\ source.version < MaxVersion
    /\ IF source.present
       THEN source' = [source EXCEPT !.version = @ + 1] /\ disturbed' = clock
       ELSE UNCHANGED <<source, disturbed>>
    /\ UNCHANGED <<clock, cache, kind, seen, whole, client, fate>>

Delete(r) ==
    /\ kind[r] = "delete" /\ At(r, "writing", "ended")
    /\ source' = [source EXCEPT !.present = FALSE]
    /\ disturbed' = IF source.present THEN clock ELSE disturbed
    /\ UNCHANGED <<clock, cache, kind, seen, whole, client, fate>>

\* A plausible error: the entry is written without a time to live.
EntryForever(r) == [version |-> seen[r], whole |-> whole[r], until |-> EndOfTime + Ttl]

Entry(r) == [version |-> seen[r], whole |-> whole[r], until |-> clock + Ttl]

\* redis.setex, whatever has become of the source since it was read.
Cache(r) ==
    /\ At(r, "caching", "ended")
    /\ cache' = Entry(r)
    /\ disturbed' = IF Wrong(seen[r], whole[r]) THEN clock ELSE disturbed
    /\ UNCHANGED <<clock, source, kind, seen, whole, client, fate>>

-----------------------------------------------------------------------------
(* Connections: async with connector, or test_connection.                      *)

Connected(r) ==
    /\ At(r, "connecting", "using")
    /\ Becomes(r, IF source.type = "file" THEN "none" ELSE "open")
    /\ UNCHANGED <<clock, source, cache, disturbed, kind, seen, whole, fate>>

\* test_connection of a REST API closes its client when it fails.
ConnectFails(r) ==
    /\ At(r, "connecting", "ended")
    /\ Suffers(r, "failed")
    /\ Becomes(r, IF source.type = "mongodb" \/ (source.type = "rest_api" /\ kind[r] # "test")
                    THEN "open" ELSE "none")
    /\ UNCHANGED <<clock, source, cache, disturbed, kind, seen, whole>>

\* The schema of a REST API lists an endpoint that failed without columns.
Used(r) ==
    /\ At(r, "using", "closing")
    /\ \E w \in IF source.type = "rest_api" /\ kind[r] = "schema" THEN BOOLEAN ELSE {TRUE} :
            whole' = [whole EXCEPT ![r] = w]
    /\ UNCHANGED <<clock, source, cache, disturbed, kind, seen, client, fate>>

\* A plausible error: an exception leaves the connector as it is.
AfterFailureAtOnce(r) == "ended"

\* __aexit__ runs after an exception; a test only returns its message.
AfterFailure(r) == IF kind[r] = "test" THEN "ended" ELSE "closing"

UseFails(r) ==
    /\ source.type # "rest_api" \/ kind[r] # "schema"
    /\ At(r, "using", AfterFailure(r))
    /\ Suffers(r, "failed")
    /\ IF kind[r] = "test" /\ source.type = "rest_api" THEN Becomes(r, "none")
       ELSE UNCHANGED client
    /\ UNCHANGED <<clock, source, cache, disturbed, kind, seen, whole>>

Closed(r) ==
    /\ At(r, "closing", IF kind[r] = "schema" /\ fate[r] = Fine THEN "caching" ELSE "ended")
    /\ Becomes(r, "none")
    /\ UNCHANGED <<clock, source, cache, disturbed, kind, seen, whole, fate>>

\* wait_for cancels a query once.  Disconnecting from MongoDB and from a file
\* has no await; the libraries finish a close that is cancelled, but for HTTP.
Cancel(r) ==
    /\ kind[r] = "query" /\ fate[r] = Fine
    /\ place[r] \in {"reading", "connecting", "using", "closing"}
    /\ place[r] = "closing" => source.type \notin {"mongodb", "file"}
    /\ place' = [place EXCEPT ![r] = IF @ = "using" THEN AfterFailure(r) ELSE "ended"]
    /\ Suffers(r, "cancelled")
    /\ IF place[r] # "closing" THEN UNCHANGED client
       ELSE \E c \in IF source.type = "rest_api" THEN {"none", "open"} ELSE {"none"} : Becomes(r, c)
    /\ UNCHANGED <<clock, source, cache, disturbed, kind, seen, whole>>

\* The thread goes on after its request was cancelled.
ThreadConnects(r) ==
    /\ place[r] = "ended" /\ client[r] = "opening"
    /\ \E c \in {"none", "open"} : Becomes(r, c)
    /\ UNCHANGED <<clock, source, cache, disturbed, kind, place, seen, whole, fate>>

Wait ==
    /\ clock < EndOfTime
    /\ clock' = clock + 1
    /\ UNCHANGED <<source, cache, disturbed, requestVars>>

SourcesNext ==
    \/ Wait
    \/ \E r \in Callers :
        \/ Begin(r) \/ Look(r) \/ ReadDocument(r) \/ Update(r) \/ Delete(r) \/ Cache(r)
        \/ Connected(r) \/ ConnectFails(r) \/ Used(r) \/ UseFails(r) \/ Closed(r)
        \/ Cancel(r) \/ ThreadConnects(r)

SourcesSpec == SourcesInit /\ [][SourcesNext]_sourceVars

-----------------------------------------------------------------------------
\* A schema of other credentials, of a deleted source, or with endpoints
\* missing, is answered from the cache for one time to live after the last
\* change of the source, or after a request that was slower than the change
\* wrote it - not longer.
StaleAtMostOneTtl ==
    Cached /\ Wrong(cache.version, cache.whole) => clock - disturbed < Ttl

\* A request leaves a connection behind only in one of four ways: a test fails
\* that had connected; MongoDB or a REST API does not answer a client that was
\* made before __aexit__ could run; a query is cancelled while a thread connects
\* to DB2; or while the client of a REST API is being closed.
LeftOpenExplained ==
    \A r \in Callers : place[r] = "ended" /\ client[r] # "none" =>
        \/ /\ kind[r] = "test" /\ fate[r].how = "failed"
           /\ \/ fate[r].at = "using" /\ source.type \in {"postgres", "mysql", "db2", "mongodb"}
              \/ fate[r].at = "connecting" /\ source.type = "mongodb"
        \/ fate[r].at = "connecting" /\ source.type \in EarlyClients /\ kind[r] # "test"
        \/ fate[r] = [how |-> "cancelled", at |-> "connecting"] /\ source.type = "db2"
        \/ fate[r] = [how |-> "cancelled", at |-> "closing"] /\ source.type = "rest_api"
=============================================================================

--------------------------- MODULE ProcessConfigs ---------------------------
(* One process configuration: its document in MongoDB, the JSON copy of each   *)
(* version in GCS, and the requests that create, update, refresh and delete it *)
(* (processes/service.py).  Requests interleave at every await; an upload is   *)
(* synchronous.  A configuration is abstracted to who wrote its text and which *)
(* credentials of its one data source are embedded in it.                      *)
EXTENDS Integers, Sequences

CONSTANTS
    Requests,
    MaxCreds,           \* bound: credentials the source ever has
    FaultModes          \* of {FALSE, TRUE}: whether things may fail in a behaviour

ASSUME ConfigAssumption ==
    /\ MaxCreds \in Nat \ {0}
    /\ FaultModes \subseteq BOOLEAN

VARIABLES
    pc, op, arg,        \* per request: its place, operation and arguments
    emb,                \* credentials embed_source_details got for it
    seen,               \* the document it read last
    present, doc,       \* whether the document exists, and what it holds
    copies,             \* the copies in GCS, by version
    source,             \* credentials of the source now; NoCreds: deleted
    faults,             \* whether MongoDB, GCS and the server may fail
    written,            \* history: the content of each version of the document
    overlapped          \* history: two requests were in progress at once

reqVars  == <<pc, op, arg, emb, seen>>
confVars == <<reqVars, present, doc, copies, source, faults, written, overlapped>>

NoCreds  == 0
NoPath   == 0           \* gcp_path is ""
Foreign  == -1          \* a path the user made up
NotGiven == "not given"
SamePath == -2          \* no gcp_path in the request

Dests     == {"redis", "gcp"}        \* "both" is kept in GCS just as "gcp" is
Creds     == 0..MaxCreds
Contents  == [text : Requests, creds : Creds]
Paths     == Nat \cup {Foreign}         \* v: the copy of version v
Docs      == [version : Nat, content : Contents, dest : Dests, path : Paths]
Args      == [config : BOOLEAN, dest : Dests \cup {NotGiven}, path : Paths \cup {SamePath}]

Busy == {"embedding", "writing", "reading", "uploading", "recording"}
PCs  == Busy \cup {"idle", "over"}
Ops  == {"none", "create", "update", "refresh", "delete"}

Quiescent == \A u \in Requests : pc[u] \notin Busy

Goto(u, place) == pc' = [pc EXCEPT ![u] = place]

\* A 404 and an exception out of MongoDB end the request just as an answer does.
Abort(u) == Goto(u, "over") /\ UNCHANGED <<op, arg, emb, seen>>

GivenDest(u) == IF arg[u].dest = NotGiven THEN doc.dest ELSE arg[u].dest

\* A plausible error: a path that is not given is written too.
GivenPathAlways(u) == arg[u].path

GivenPath(u) == IF arg[u].path = SamePath THEN doc.path ELSE arg[u].path

-----------------------------------------------------------------------------
(* The requests.                                                               *)

Start(u, o, a, place) ==
    /\ pc[u] = "idle"
    /\ Goto(u, place)
    /\ op' = [op EXCEPT ![u] = o]
    /\ arg' = [arg EXCEPT ![u] = a]
    /\ overlapped' = (overlapped \/ ~Quiescent)
    /\ UNCHANGED <<emb, present, doc, copies, source, written>>

BeginCreate(u) ==
    /\ \A v \in Requests : op[v] # "create"
    /\ \E d \in Dests, p \in {NoPath, Foreign} :
         Start(u, "create", [config |-> TRUE, dest |-> d, path |-> p], "embedding")
    /\ UNCHANGED seen

\* get_configuration found the document.  A client may send back the path it
\* has read.
BeginUpdate(u) ==
    /\ present
    /\ \E c \in BOOLEAN, d \in Dests \cup {NotGiven}, p \in {SamePath, Foreign, doc.path} :
         Start(u, "update", [config |-> c, dest |-> d, path |-> p],
               IF c THEN "embedding" ELSE "writing")
    /\ UNCHANGED seen

\* The whole configuration is read, to be written back with new credentials.
BeginRefresh(u) ==
    /\ present
    /\ Start(u, "refresh", [config |-> FALSE, dest |-> NotGiven, path |-> SamePath], "embedding")
    /\ seen' = [seen EXCEPT ![u] = doc]

delete_configuration(u) ==
    /\ present
    /\ pc[u] = "idle"
    /\ Goto(u, "over")
    /\ op' = [op EXCEPT ![u] = "delete"]
    /\ present' = FALSE
    /\ overlapped' = (overlapped \/ ~Quiescent)
    /\ UNCHANGED <<arg, emb, seen, doc, copies, source, written>>

\* A plausible error: a source that is gone clears what was embedded.
EmbeddedOrNothing(u) == source

\* What a source that is gone leaves: nothing in the text a client sent, which
\* never holds credentials, and the old ones in what a refresh has read.
Embedded(u) ==
    IF source = NoCreds /\ op[u] = "refresh" THEN seen[u].content.creds ELSE source

embed_source_details(u) ==
    /\ pc[u] = "embedding"
    /\ \/ /\ emb' = [emb EXCEPT ![u] = Embedded(u)]
          /\ Goto(u, "writing")
          /\ UNCHANGED <<op, arg, seen>>
       \/ faults /\ Abort(u)
    /\ UNCHANGED <<present, doc, copies, source, written, overlapped>>

-----------------------------------------------------------------------------
(* The document.                                                               *)

\* The content a request writes.
NewContent(u) ==
    IF op[u] = "refresh" THEN [seen[u].content EXCEPT !.creds = emb[u]]
    ELSE IF arg[u].config THEN [text |-> u, creds |-> emb[u]]
    ELSE doc.content

Install(new) ==
    /\ doc' = new
    /\ written' = Append(written, new.content)

\* A request goes on to GCS only for a destination that is kept there.
AfterWrite(d) == IF d = "gcp" THEN "uploading" ELSE "over"

\* insert_one; the configuration that is uploaded next is the one just built.
Insert(u) ==
    LET new == [version |-> 1, content |-> NewContent(u),
                dest |-> arg[u].dest, path |-> arg[u].path] IN
    /\ pc[u] = "writing" /\ op[u] = "create"
    /\ \/ /\ Install(new)
          /\ present' = TRUE
          /\ seen' = [seen EXCEPT ![u] = new]
          /\ Goto(u, AfterWrite(new.dest))
          /\ UNCHANGED <<op, arg, emb>>
       \/ /\ faults
          /\ Abort(u)
          /\ \/ Install(new) /\ present' = TRUE
             \/ UNCHANGED <<present, doc, written>>
    /\ UNCHANGED <<copies, source, overlapped>>

\* One update_one: $set of what is given and $inc of the version.  It matches
\* nothing, and does not fail, when the document has been deleted.
Change(u) ==
    IF present
      THEN Install([version |-> doc.version + 1,
                    content |-> NewContent(u),
                    dest    |-> GivenDest(u),
                    path    |-> GivenPath(u)])
      ELSE UNCHANGED <<doc, written>>

Write(u) ==
    /\ pc[u] = "writing" /\ op[u] # "create"
    /\ \/ /\ Change(u)
          /\ Goto(u, "reading")
          /\ UNCHANGED <<op, arg, emb, seen>>
       \/ /\ faults
          /\ Abort(u)
          /\ Change(u) \/ UNCHANGED <<doc, written>>
    /\ UNCHANGED <<present, copies, source, overlapped>>

\* A plausible error: only a destination that is given leads to an upload.
ReadBackAsked(u) ==
    /\ pc[u] = "reading"
    /\ present
    /\ seen' = [seen EXCEPT ![u] = doc]
    /\ Goto(u, AfterWrite(arg[u].dest))
    /\ UNCHANGED <<op, arg, emb, present, doc, copies, source, written, overlapped>>

\* The read-back may find a later version than the one this request wrote.
ReadBack(u) ==
    /\ pc[u] = "reading"
    /\ \/ /\ present
          /\ seen' = [seen EXCEPT ![u] = doc]
          /\ Goto(u, AfterWrite(GivenDest(u)))
          /\ UNCHANGED <<op, arg, emb>>
       \/ ~present /\ Abort(u)
       \/ faults /\ Abort(u)
    /\ UNCHANGED <<present, doc, copies, source, written, overlapped>>

-----------------------------------------------------------------------------
(* The copies in GCS.                                                          *)

PutCopy(v, c) ==
    copies' = [w \in DOMAIN copies \cup {v} |-> IF w = v THEN c ELSE copies[w]]

\* Plausible errors: the copy is named after the version the request expects to
\* have written; an upload that failed is recorded all the same.
UploadAsNext(u) ==
    /\ pc[u] = "uploading"
    /\ PutCopy(seen[u].version + 1, seen[u].content)
    /\ Goto(u, "recording")
    /\ UNCHANGED <<op, arg, emb, seen, present, doc, source, written, overlapped>>

UploadOrNot(u) ==
    /\ pc[u] = "uploading"
    /\ PutCopy(seen[u].version, seen[u].content) \/ UNCHANGED copies
    /\ Goto(u, "recording")
    /\ UNCHANGED <<op, arg, emb, seen, present, doc, source, written, overlapped>>

\* A plausible error: a path is recorded only where there was none.
UploadFirstRecorded(u) ==
    /\ pc[u] = "uploading"
    /\ PutCopy(seen[u].version, seen[u].content)
    /\ Goto(u, IF seen[u].path # NoPath THEN "over" ELSE "recording")
    /\ UNCHANGED <<op, arg, emb, seen, present, doc, source, written, overlapped>>

\* save_config_to_gcp of what was read.  A failure is logged and swallowed.
Upload(u) ==
    /\ pc[u] = "uploading"
    /\ \/ /\ PutCopy(seen[u].version, seen[u].content)
          /\ Goto(u, IF op[u] # "create" /\ seen[u].path = seen[u].version
                       THEN "over" ELSE "recording")
       \/ /\ faults
          /\ PutCopy(seen[u].version, seen[u].content) \/ UNCHANGED copies
          /\ Goto(u, "over")
    /\ UNCHANGED <<op, arg, emb, seen, present, doc, source, written, overlapped>>

\* $set of gcp_path.  A failure is swallowed here too, and so is a document that
\* has been deleted.
RecordPath(u) ==
    /\ pc[u] = "recording"
    /\ \/ doc' = IF present THEN [doc EXCEPT !.path = seen[u].version] ELSE doc
       \/ faults /\ UNCHANGED doc
    /\ Goto(u, "over")
    /\ UNCHANGED <<op, arg, emb, seen, present, copies, source, written, overlapped>>

-----------------------------------------------------------------------------
(* The data source, and the server.                                            *)

update_source ==
    /\ source \in 1..(MaxCreds - 1)
    /\ source' = source + 1
    /\ UNCHANGED <<reqVars, present, doc, copies, written, overlapped>>

delete_source ==
    /\ source # NoCreds
    /\ source' = NoCreds
    /\ UNCHANGED <<reqVars, present, doc, copies, written, overlapped>>

\* A restart ends the requests in progress where they stand.
Restart ==
    /\ faults
    /\ pc' = [u \in Requests |-> IF pc[u] \in Busy THEN "over" ELSE pc[u]]
    /\ UNCHANGED <<op, arg, emb, seen, present, doc, copies, source, written, overlapped>>

-----------------------------------------------------------------------------
NoDoc(u) == [version |-> 0, content |-> [text |-> u, creds |-> NoCreds],
             dest |-> "redis", path |-> NoPath]

ConfigInit ==
    /\ pc = [u \in Requests |-> "idle"]
    /\ op = [u \in Requests |-> "none"]
    /\ arg = [u \in Requests |-> [config |-> FALSE, dest |-> NotGiven, path |-> SamePath]]
    /\ emb = [u \in Requests |-> NoCreds]
    /\ seen = [u \in Requests |-> NoDoc(u)]
    /\ present = FALSE
    /\ doc \in {NoDoc(u) : u \in Requests}
    /\ copies = <<>>
    /\ source = 1
    /\ faults \in FaultModes
    /\ written = <<>>
    /\ overlapped = FALSE

Request(u) ==
    BeginCreate(u) \/ BeginUpdate(u) \/ BeginRefresh(u) \/ delete_configuration(u)

Progress(u) ==
    \/ embed_source_details(u) \/ Insert(u) \/ Write(u) \/ ReadBack(u)
    \/ Upload(u) \/ RecordPath(u)

ConfigNext ==
    /\ \/ \E u \in Requests : Request(u) \/ Progress(u)
       \/ update_source \/ delete_source \/ Restart
    /\ UNCHANGED faults

ConfigSpec == ConfigInit /\ [][ConfigNext]_confVars

-----------------------------------------------------------------------------
(* What is promised about a configuration.                                     *)

\* Every variable has its type.
ConfigTypeOK ==
    /\ pc \in [Requests -> PCs]
    /\ op \in [Requests -> Ops]
    /\ arg \in [Requests -> Args]
    /\ emb \in [Requests -> Creds]
    /\ seen \in [Requests -> Docs]
    /\ present \in BOOLEAN
    /\ doc \in Docs
    /\ DOMAIN copies \subseteq Nat \ {0}
    /\ \A v \in DOMAIN copies : copies[v] \in Contents
    /\ source \in Creds
    /\ faults \in BOOLEAN
    /\ written \in Seq(Contents)
    /\ overlapped \in BOOLEAN

\* The copy of a version holds what the document held at that version, although
\* it is made from a later read and several requests may upload it.
CopyMatchesVersion ==
    \A v \in DOMAIN copies : v <= Len(written) /\ copies[v] = written[v]

\* A path the service recorded names a copy that has been uploaded, and never a
\* later version than the document's.
RecordedCopyExists ==
    doc.path \notin {NoPath, Foreign} => doc.path \in DOMAIN copies /\ doc.path <= doc.version

\* With nothing failing, once all requests are over a configuration kept in GCS
\* has a copy of its current version, whatever requests overlapped: the last
\* writer reads back what it wrote.
CurrentVersionCopied ==
    ~faults /\ present /\ Quiescent /\ doc.dest = "gcp" => doc.version \in DOMAIN copies

\* With nothing failing, the recorded path is that copy too, unless two requests
\* overlapped: then an older path may be recorded last.
PathCurrentUnlessOverlapped ==
    ~faults /\ present /\ Quiescent /\ doc.dest = "gcp" /\ ~overlapped
        => doc.path = doc.version

RefreshWrites(u) ==
    /\ op[u] = "refresh"
    /\ pc[u] = "writing" /\ pc'[u] # "writing"
    /\ doc'.version # doc.version

\* A refresh takes away the credentials of a configuration only after an update
\* that had embedded them before the source was deleted, and that wrote them
\* after the refresh had read a version without any; a refresh by itself keeps
\* them, whenever the source is deleted.
RefreshKeepsCredentials ==
    [][\A u \in Requests :
         RefreshWrites(u) /\ doc.content.creds # NoCreds /\ doc'.content.creds = NoCreds =>
            /\ source = NoCreds
            /\ seen[u].content.creds = NoCreds
            /\ seen[u].version < doc.version]_confVars

\* A refresh changes the credentials and nothing else of the configuration.
RefreshKeepsText ==
    [][\A u \in Requests : RefreshWrites(u) => doc'.content.text = doc.content.text]_confVars
=============================================================================

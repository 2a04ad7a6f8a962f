------------------------ MODULE ProcessConfigsProofs ------------------------
(* Proofs about ProcessConfigs, for every set of requests, any number of       *)
(* credentials, and every failure the model has.                               *)
EXTENDS ProcessConfigs, SequenceTheorems, TLAPS

\* The document is the last version written, and there is at most one creation.
HistoryInv ==
    /\ doc.version = Len(written)
    /\ written # <<>> => doc.content = written[Len(written)]
    /\ present => written # <<>>
    /\ written # <<>> => \E u \in Requests : op[u] = "create"
    /\ \A u, v \in Requests : op[u] = "create" /\ op[v] = "create" => u = v

\* What a request holds: a creation that has not inserted yet is the first
\* writer; what is uploaded or recorded was read at some version; a path that is
\* sent back had been recorded.
HeldInv(u) ==
    /\ pc[u] = "idle" => op[u] = "none"
    /\ op[u] = "create" /\ pc[u] \in {"embedding", "writing"} => written = <<>>
    /\ pc[u] \in {"uploading", "recording"} =>
         /\ seen[u].version \in 1..Len(written)
         /\ seen[u].content = written[seen[u].version]
    /\ pc[u] = "recording" => seen[u].version \in DOMAIN copies
    /\ arg[u].path \in {NoPath, Foreign, SamePath} \cup DOMAIN copies
    /\ op[u] = "create" => arg[u].dest \in Dests /\ arg[u].path \in {NoPath, Foreign}

PathInv == doc.path \in {NoPath, Foreign} \cup DOMAIN copies

Inv ==
    /\ ConfigTypeOK
    /\ CopyMatchesVersion
    /\ HistoryInv
    /\ PathInv
    /\ \A u \in Requests : HeldInv(u)

-----------------------------------------------------------------------------
LEMMA NewContentType ==
    ASSUME ConfigTypeOK, NEW u \in Requests
    PROVE  NewContent(u) \in Contents
<1>1. /\ seen[u].content \in Contents /\ doc.content \in Contents
      /\ emb[u] \in Creds
  BY DEF ConfigTypeOK, Docs
<1>2. [seen[u].content EXCEPT !.creds = emb[u]] \in Contents
  BY <1>1 DEF Contents
<1>3. [text |-> u, creds |-> emb[u]] \in Contents
  BY <1>1 DEF Contents
<1> QED BY <1>1, <1>2, <1>3 DEF NewContent

LEMMA GivenTypes ==
    ASSUME ConfigTypeOK, NEW u \in Requests
    PROVE  GivenDest(u) \in Dests /\ GivenPath(u) \in Paths
  BY DEF ConfigTypeOK, GivenDest, GivenPath, Args, Docs

\* A new version comes after all others and leaves them as they are.
LEMMA InstallStep ==
    ASSUME Inv, NEW new \in Docs, new.version = Len(written) + 1, Install(new)
    PROVE  /\ doc' = new
           /\ written' \in Seq(Contents)
           /\ Len(written') = Len(written) + 1
           /\ \A v \in 1..Len(written) : written'[v] = written[v]
           /\ written'[Len(written')] = new.content
           /\ Len(written) \in Nat
<1>1. written \in Seq(Contents) /\ new.content \in Contents
  BY DEF Inv, ConfigTypeOK, Docs
<1> QED BY <1>1, AppendProperties, LenProperties DEF Install

\* A copy made from what was read at a version is a copy of that version.
LEMMA PutStep ==
    ASSUME Inv, NEW v \in 1..Len(written), PutCopy(v, written[v]), written' = written
    PROVE  /\ DOMAIN copies' = DOMAIN copies \cup {v}
           /\ DOMAIN copies' \subseteq Nat \ {0}
           /\ \A w \in DOMAIN copies' : copies'[w] \in Contents
           /\ CopyMatchesVersion'
<1>1. Len(written) \in Nat /\ written[v] \in Contents /\ v \in Nat \ {0}
  BY LenProperties, ElementOfSeq DEF Inv, ConfigTypeOK
<1>2. DOMAIN copies' = DOMAIN copies \cup {v}
  BY DEF PutCopy
<1>3. \A w \in DOMAIN copies' : copies'[w] = IF w = v THEN written[v] ELSE copies[w]
  BY DEF PutCopy
<1>4. CopyMatchesVersion'
  BY <1>1, <1>2, <1>3 DEF CopyMatchesVersion, Inv
<1> QED BY <1>1, <1>2, <1>3, <1>4 DEF Inv, ConfigTypeOK

\* Install preserves what is said of versions, for a request that is past writing.
LEMMA InstallKeeps ==
    ASSUME Inv, NEW u \in Requests, NEW new \in Docs,
           new.version = Len(written) + 1, Install(new),
           pc[u] = "writing", op[u] = "create" \/ written # <<>>,
           new.path \in {NoPath, Foreign} \cup DOMAIN copies,
           UNCHANGED <<op, arg, copies>>,
           NEW next \in {"reading", "uploading", "over"}, pc' = [pc EXCEPT ![u] = next],
           \A v \in Requests \ {u} : seen'[v] = seen[v],
           next = "uploading" => seen'[u] = new
    PROVE  /\ CopyMatchesVersion'
           /\ HistoryInv'
           /\ PathInv'
           /\ \A v \in Requests : HeldInv(v)'
<1>1. /\ doc' = new /\ written' \in Seq(Contents) /\ written' # <<>>
      /\ Len(written') = Len(written) + 1 /\ Len(written) \in Nat
      /\ \A v \in 1..Len(written) : written'[v] = written[v]
      /\ written'[Len(written')] = new.content
  <2>1. written' # <<>>
    BY InstallStep, EmptySeq
  <2> QED BY <2>1, InstallStep
<1>2. CopyMatchesVersion'
  <2> SUFFICES ASSUME NEW v \in DOMAIN copies
               PROVE  v <= Len(written') /\ copies[v] = written'[v]
    BY DEF CopyMatchesVersion
  <2>1. v \in Nat \ {0} /\ v <= Len(written) /\ copies[v] = written[v]
    BY DEF Inv, ConfigTypeOK, CopyMatchesVersion
  <2>2. v \in 1..Len(written)
    BY <1>1, <2>1
  <2> QED BY <1>1, <2>1, <2>2
<1>3. HistoryInv'
  <2>1. \E v \in Requests : op[v] = "create"
    BY DEF Inv, HistoryInv
  <2> QED BY <1>1, <2>1 DEF Inv, HistoryInv
<1>4. PathInv'
  BY <1>1 DEF PathInv
<1>5. ASSUME NEW v \in Requests PROVE HeldInv(v)'
  <2>1. CASE v = u
    <3>1. pc'[u] = next /\ HeldInv(u)
      BY DEF Inv, ConfigTypeOK
    <3>2. next = "uploading" =>
            seen'[u].version \in 1..Len(written') /\ seen'[u].content = written'[seen'[u].version]
      BY <1>1
    <3> QED BY <2>1, <3>1, <3>2 DEF HeldInv
  <2>2. CASE v # u
    <3>1. HeldInv(v) /\ pc'[v] = pc[v] /\ seen'[v] = seen[v]
      BY <2>2 DEF Inv, ConfigTypeOK
    <3>2. ~(op[v] = "create" /\ pc[v] \in {"embedding", "writing"})
      BY <2>2, <3>1 DEF Inv, HistoryInv, HeldInv
    <3>3. ASSUME pc[v] \in {"uploading", "recording"}
          PROVE  /\ seen[v].version \in 1..Len(written')
                 /\ seen[v].content = written'[seen[v].version]
      <4>1. seen[v].version \in 1..Len(written) /\ seen[v].content = written[seen[v].version]
        BY <3>1, <3>3 DEF HeldInv
      <4> QED BY <1>1, <4>1
    <3> QED BY <3>1, <3>2, <3>3 DEF HeldInv
  <2> QED BY <2>1, <2>2
<1> QED BY <1>2, <1>3, <1>4, <1>5

-----------------------------------------------------------------------------
LEMMA InvInit == ConfigInit => Inv
<1> SUFFICES ASSUME ConfigInit PROVE Inv
  OBVIOUS
<1>1. PICK w \in Requests : doc = NoDoc(w)
  BY DEF ConfigInit
<1>2. \A u \in Requests : NoDoc(u) \in Docs
  BY ConfigAssumption DEF NoDoc, Docs, Contents, Creds, NoCreds, NoPath, Paths, Dests
<1>3. Len(written) = 0 /\ written = <<>> /\ written \in Seq(Contents) /\ DOMAIN copies = {}
  BY EmptySeq DEF ConfigInit
<1>4. ConfigTypeOK
  <2>1. /\ pc \in [Requests -> PCs] /\ op \in [Requests -> Ops]
        /\ present \in BOOLEAN /\ overlapped \in BOOLEAN
    BY DEF ConfigInit, PCs, Ops
  <2>2. source \in Creds /\ emb \in [Requests -> Creds] /\ faults \in BOOLEAN
    BY ConfigAssumption DEF ConfigInit, Creds, NoCreds
  <2>3. arg \in [Requests -> Args]
    BY DEF ConfigInit, Args
  <2>4. doc \in Docs /\ seen \in [Requests -> Docs]
    BY <1>1, <1>2, ConfigAssumption DEF ConfigInit
  <2> QED BY <1>3, <2>1, <2>2, <2>3, <2>4 DEF ConfigTypeOK
<1>5. HistoryInv
  BY <1>1, <1>3 DEF ConfigInit, HistoryInv, NoDoc
<1>6. CopyMatchesVersion /\ PathInv /\ \A u \in Requests : HeldInv(u)
  BY <1>1, <1>3 DEF ConfigInit, CopyMatchesVersion, PathInv, HeldInv, NoDoc
<1> QED BY <1>4, <1>5, <1>6 DEF Inv

\* A request begins, or deletes the document.
LEMMA RequestStep ==
    ASSUME Inv, NEW u \in Requests, Request(u), faults' = faults
    PROVE  Inv'
<1>1. /\ pc[u] = "idle" /\ op[u] = "none"
      /\ doc' = doc /\ copies' = copies /\ source' = source /\ written' = written /\ emb' = emb
      /\ overlapped' \in BOOLEAN /\ present' \in BOOLEAN /\ (present' => present)
  <2>1. /\ pc[u] = "idle"
        /\ doc' = doc /\ copies' = copies /\ source' = source /\ written' = written /\ emb' = emb
        /\ overlapped' = (overlapped \/ ~Quiescent)
        /\ present' = present \/ present' = FALSE
    BY DEF Request, BeginCreate, BeginUpdate, BeginRefresh, delete_configuration, Start
  <2>2. op[u] = "none" /\ present \in BOOLEAN /\ overlapped \in BOOLEAN
    BY <2>1 DEF Inv, ConfigTypeOK, HeldInv
  <2>3. overlapped' \in BOOLEAN
    BY <2>1, <2>2, Zenon
  <2>4. present' \in BOOLEAN /\ (present' => present)
    <3>1. CASE present' = present
      BY <2>2, <3>1
    <3>2. CASE present' = FALSE
      BY <3>2
    <3> QED BY <2>1, <3>1, <3>2
  <2> QED BY <2>1, <2>2, <2>3, <2>4
<1>2. /\ \E next \in {"embedding", "writing", "over"} : pc' = [pc EXCEPT ![u] = next]
      /\ \E o \in Ops : op' = [op EXCEPT ![u] = o] /\ (o = "create" =>
             \A v \in Requests : op[v] # "create")
      /\ arg' = arg \/ \E a \in Args : /\ arg' = [arg EXCEPT ![u] = a]
                                      /\ a.path \in {NoPath, Foreign, SamePath} \cup DOMAIN copies
      /\ op'[u] = "create" => arg'[u].dest \in Dests /\ arg'[u].path \in {NoPath, Foreign}
      /\ seen' = seen \/ seen' = [seen EXCEPT ![u] = doc]
  <2>1. CASE BeginCreate(u)
    <3>1. PICK d \in Dests, p \in {NoPath, Foreign} :
            Start(u, "create", [config |-> TRUE, dest |-> d, path |-> p], "embedding")
      BY <2>1 DEF BeginCreate
    <3>2. [config |-> TRUE, dest |-> d, path |-> p] \in Args
      BY DEF Args, Paths, NoPath
    <3> QED BY <2>1, <3>1, <3>2 DEF Inv, ConfigTypeOK, BeginCreate, Start, Goto, Ops
  <2>2. CASE BeginUpdate(u)
    <3>1. PICK c \in BOOLEAN, d \in Dests \cup {NotGiven}, p \in {SamePath, Foreign, doc.path} :
            Start(u, "update", [config |-> c, dest |-> d, path |-> p],
                  IF c THEN "embedding" ELSE "writing")
      BY <2>2 DEF BeginUpdate
    <3>2. doc.path \in Paths /\ doc.path \in {NoPath, Foreign} \cup DOMAIN copies
      BY DEF Inv, ConfigTypeOK, Docs, PathInv
    <3>3. [config |-> c, dest |-> d, path |-> p] \in Args
      BY <3>2 DEF Args, Paths
    <3> QED BY <2>2, <3>1, <3>2, <3>3 DEF Inv, ConfigTypeOK, BeginUpdate, Start, Goto, Ops
  <2>3. CASE BeginRefresh(u)
    <3>1. [config |-> FALSE, dest |-> NotGiven, path |-> SamePath] \in Args
      BY DEF Args
    <3> QED BY <2>3, <3>1 DEF Inv, ConfigTypeOK, BeginRefresh, Start, Goto, Ops
  <2>4. CASE delete_configuration(u)
    BY <2>4 DEF Inv, ConfigTypeOK, delete_configuration, Goto, Ops
  <2> QED BY <2>1, <2>2, <2>3, <2>4 DEF Request
<1>3. ConfigTypeOK'
  <2>1. doc \in Docs
    BY DEF Inv, ConfigTypeOK
  <2>2. pc' \in [Requests -> PCs] /\ op' \in [Requests -> Ops]
    BY <1>2 DEF Inv, ConfigTypeOK, PCs, Busy
  <2>3. arg' \in [Requests -> Args]
    BY <1>2 DEF Inv, ConfigTypeOK
  <2>4. seen' \in [Requests -> Docs]
    BY <1>2, <2>1 DEF Inv, ConfigTypeOK
  <2> QED BY <1>1, <2>2, <2>3, <2>4 DEF Inv, ConfigTypeOK
<1>4. CopyMatchesVersion' /\ PathInv'
  BY <1>1 DEF Inv, CopyMatchesVersion, PathInv
<1>5. HistoryInv'
  <2>1. \A v \in Requests : op[v] = "create" => op'[v] = "create"
    BY <1>1, <1>2 DEF Inv, ConfigTypeOK
  <2>2. \A v, w \in Requests : op'[v] = "create" /\ op'[w] = "create" => v = w
    BY <1>1, <1>2 DEF Inv, ConfigTypeOK, HistoryInv
  <2> QED BY <1>1, <2>1, <2>2 DEF Inv, HistoryInv
<1>6. ASSUME NEW v \in Requests PROVE HeldInv(v)'
  <2>1. CASE v = u
    <3>1. pc'[u] \in {"embedding", "writing", "over"}
      BY <1>2 DEF Inv, ConfigTypeOK
    <3>2. op'[u] = "create" => written = <<>>
      BY <1>2 DEF Inv, ConfigTypeOK, HistoryInv
    <3>3. arg'[u].path \in {NoPath, Foreign, SamePath} \cup DOMAIN copies
      BY <1>2 DEF Inv, ConfigTypeOK, HeldInv
    <3>4. op'[u] = "create" => arg'[u].dest \in Dests /\ arg'[u].path \in {NoPath, Foreign}
      BY <1>2
    <3> QED BY <1>1, <2>1, <3>1, <3>2, <3>3, <3>4 DEF HeldInv
  <2>2. CASE v # u
    <3>1. pc'[v] = pc[v] /\ op'[v] = op[v] /\ arg'[v] = arg[v] /\ seen'[v] = seen[v]
      BY <1>2, <2>2 DEF Inv, ConfigTypeOK
    <3> QED BY <1>1, <3>1 DEF Inv, HeldInv
  <2> QED BY <2>1, <2>2
<1> QED BY <1>3, <1>4, <1>5, <1>6 DEF Inv

\* A step of u that only moves u on, or only reads: nothing said of versions,
\* copies or the document changes.
LEMMA ReadStep ==
    ASSUME Inv, NEW u \in Requests,
           UNCHANGED <<op, arg, doc, copies, written, overlapped, present, faults>>,
           source' \in Creds, emb' \in [Requests -> Creds],
           NEW next \in PCs, pc' = [pc EXCEPT ![u] = next],
           next = "recording" => seen[u].version \in DOMAIN copies /\ pc[u] = "uploading",
           next = "uploading" => written # <<>> /\ seen' = [seen EXCEPT ![u] = doc],
           seen' = seen \/ (seen' = [seen EXCEPT ![u] = doc] /\ next # "recording"),
           next \notin {"idle", "embedding"},
           next = "writing" => pc[u] = "embedding"
    PROVE  Inv'
<1>1. doc \in Docs /\ Len(written) \in Nat
  BY LenProperties DEF Inv, ConfigTypeOK
<1>2. ConfigTypeOK'
  <2>1. seen' \in [Requests -> Docs]
    BY <1>1 DEF Inv, ConfigTypeOK
  <2>2. pc' \in [Requests -> PCs]
    BY DEF Inv, ConfigTypeOK
  <2> QED BY <2>1, <2>2 DEF Inv, ConfigTypeOK
<1>3. CopyMatchesVersion' /\ PathInv' /\ HistoryInv'
  BY DEF Inv, CopyMatchesVersion, PathInv, HistoryInv
<1>4. ASSUME NEW v \in Requests PROVE HeldInv(v)'
  <2>1. CASE v # u
    <3>1. pc'[v] = pc[v] /\ seen'[v] = seen[v]
      BY <2>1 DEF Inv, ConfigTypeOK
    <3> QED BY <3>1 DEF Inv, HeldInv
  <2>2. CASE v = u /\ next = "uploading"
    <3>1. pc'[u] = "uploading" /\ seen'[u] = doc
      BY <2>2 DEF Inv, ConfigTypeOK
    <3>2. doc.version \in 1..Len(written) /\ doc.content = written[doc.version]
      <4>1. doc.version = Len(written) /\ written # <<>> /\ doc.content = written[Len(written)]
        BY <2>2 DEF Inv, HistoryInv
      <4>2. Len(written) \in Nat \ {0}
        BY <4>1, EmptySeq DEF Inv, ConfigTypeOK
      <4> QED BY <4>1, <4>2
    <3> QED BY <2>2, <3>1, <3>2 DEF Inv, HeldInv
  <2>3. CASE v = u /\ next # "uploading"
    <3>1. pc'[u] = next /\ (next = "recording" => seen'[u] = seen[u])
      BY <2>3 DEF Inv, ConfigTypeOK
    <3> QED BY <2>3, <3>1 DEF Inv, HeldInv
  <2> QED BY <2>1, <2>2, <2>3
<1> QED BY <1>2, <1>3, <1>4 DEF Inv

LEMMA EmbedStep ==
    ASSUME Inv, NEW u \in Requests, embed_source_details(u), faults' = faults
    PROVE  Inv'
<1>1. Embedded(u) \in Creds
  BY DEF Inv, ConfigTypeOK, Embedded, Docs, Contents
<1>2. /\ pc[u] = "embedding" /\ seen' = seen
      /\ UNCHANGED <<op, arg, doc, copies, written, overlapped, present>>
  BY DEF embed_source_details, Abort
<1>3. emb' \in [Requests -> Creds] /\ source' \in Creds
  BY <1>1 DEF Inv, ConfigTypeOK, embed_source_details, Abort
<1>4. CASE Goto(u, "writing")
  <2>1. "writing" \in PCs /\ pc' = [pc EXCEPT ![u] = "writing"]
    BY <1>4 DEF Goto, PCs, Busy
  <2> QED BY <1>2, <1>3, <2>1, ReadStep
<1>5. CASE Goto(u, "over")
  BY <1>2, <1>3, <1>5, ReadStep DEF Goto, PCs, Busy
<1> QED BY <1>4, <1>5 DEF embed_source_details, Abort

LEMMA ReadBackStep ==
    ASSUME Inv, NEW u \in Requests, ReadBack(u), faults' = faults
    PROVE  Inv'
<1>1. UNCHANGED <<op, arg, emb, doc, copies, source, written, overlapped, present>>
  BY DEF ReadBack, Abort
<1>2. source' \in Creds /\ emb' \in [Requests -> Creds]
  BY <1>1 DEF Inv, ConfigTypeOK
<1>3. CASE present /\ seen' = [seen EXCEPT ![u] = doc] /\ Goto(u, AfterWrite(GivenDest(u)))
  <2>1. written # <<>>
    BY <1>3 DEF Inv, HistoryInv
  <2>2. AfterWrite(GivenDest(u)) \in {"uploading", "over"}
    BY DEF AfterWrite
  <2>3. CASE AfterWrite(GivenDest(u)) = "uploading"
    BY <1>1, <1>2, <1>3, <2>1, <2>3, ReadStep DEF Goto, PCs, Busy
  <2>4. CASE AfterWrite(GivenDest(u)) = "over"
    BY <1>1, <1>2, <1>3, <2>4, ReadStep DEF Goto, PCs, Busy
  <2> QED BY <2>2, <2>3, <2>4
<1>4. CASE Abort(u)
  BY <1>1, <1>2, <1>4, ReadStep DEF Abort, Goto, PCs, Busy
<1> QED BY <1>3, <1>4, Zenon DEF ReadBack

LEMMA InsertStep ==
    ASSUME Inv, NEW u \in Requests, Insert(u), faults' = faults
    PROVE  Inv'
<1> DEFINE new == [version |-> 1, content |-> NewContent(u),
                   dest |-> arg[u].dest, path |-> arg[u].path]
<1>1. /\ pc[u] = "writing" /\ op[u] = "create"
      /\ UNCHANGED <<op, arg, emb, copies, source, overlapped>>
  BY DEF Insert, Abort
<1>2. written = <<>> /\ Len(written) = 0
  BY <1>1, EmptySeq DEF Inv, HeldInv
<1>3. new \in Docs /\ new.path \in {NoPath, Foreign}
  <2>1. arg[u].dest \in Dests /\ arg[u].path \in {NoPath, Foreign}
    BY <1>1 DEF Inv, HeldInv
  <2> QED BY <2>1, NewContentType DEF Inv, Docs, Paths, NoPath
<1>4. ASSUME Install(new), NEW next \in {"uploading", "over"}, Goto(u, next),
             present' \in BOOLEAN,
             seen' = [seen EXCEPT ![u] = new] \/ (seen' = seen /\ next = "over")
      PROVE  Inv'
  <2> HIDE DEF new
  <2>0. new.version = Len(written) + 1
    BY <1>2 DEF new
  <2>1. pc' = [pc EXCEPT ![u] = next] /\ pc' \in [Requests -> PCs]
    BY <1>4 DEF Goto, Inv, ConfigTypeOK, PCs, Busy
  <2>2. seen' \in [Requests -> Docs] /\ \A v \in Requests \ {u} : seen'[v] = seen[v]
    BY <1>3, <1>4 DEF Inv, ConfigTypeOK
  <2>3. next = "uploading" => seen'[u] = new
    BY <1>4 DEF Inv, ConfigTypeOK
  <2>4. doc' \in Docs /\ written' \in Seq(Contents)
    BY <1>3, <1>4, <2>0, InstallStep
  <2>5. ConfigTypeOK'
    BY <1>1, <1>4, <2>1, <2>2, <2>4 DEF Inv, ConfigTypeOK
  <2>6. CopyMatchesVersion' /\ HistoryInv' /\ PathInv' /\ \A v \in Requests : HeldInv(v)'
    BY <1>1, <1>3, <1>4, <2>0, <2>1, <2>2, <2>3, InstallKeeps
  <2> QED BY <2>5, <2>6 DEF Inv
<1>5. CASE Install(new) /\ present' = TRUE /\ seen' = [seen EXCEPT ![u] = new]
           /\ Goto(u, AfterWrite(new.dest))
  <2>1. AfterWrite(new.dest) \in {"uploading", "over"}
    BY DEF AfterWrite
  <2> QED BY <1>4, <1>5, <2>1
<1>6. CASE Abort(u) /\ Install(new) /\ present' = TRUE
  BY <1>4, <1>6 DEF Abort
<1>7. CASE Abort(u) /\ UNCHANGED <<present, doc, written>>
  <2>1. source' \in Creds /\ emb' \in [Requests -> Creds]
    BY <1>1 DEF Inv, ConfigTypeOK
  <2> QED BY <1>1, <1>7, <2>1, ReadStep DEF Abort, Goto, PCs, Busy
<1> QED BY <1>5, <1>6, <1>7, Zenon DEF Insert

LEMMA WriteStep ==
    ASSUME Inv, NEW u \in Requests, Write(u), faults' = faults
    PROVE  Inv'
<1> DEFINE new == [version |-> doc.version + 1, content |-> NewContent(u),
                   dest |-> GivenDest(u), path |-> GivenPath(u)]
<1>1. /\ pc[u] = "writing" /\ op[u] # "create"
      /\ UNCHANGED <<op, arg, emb, seen, present, copies, source, overlapped>>
  BY DEF Write, Abort
<1>2. source' \in Creds /\ emb' \in [Requests -> Creds]
  BY <1>1 DEF Inv, ConfigTypeOK
<1>3. new \in Docs /\ new.path \in {NoPath, Foreign} \cup DOMAIN copies
  <2>1. doc.version + 1 \in Nat
    BY DEF Inv, ConfigTypeOK, Docs
  <2>2. GivenPath(u) \in {NoPath, Foreign} \cup DOMAIN copies
    BY DEF Inv, HeldInv, PathInv, GivenPath
  <2> QED BY <2>1, <2>2, NewContentType, GivenTypes DEF Inv, Docs
<1>4. ASSUME UNCHANGED <<doc, written>>, NEW next \in {"reading", "over"}, Goto(u, next)
      PROVE  Inv'
  <2>1. next \in PCs
    BY DEF PCs, Busy
  <2> QED BY <1>1, <1>2, <1>4, <2>1, ReadStep DEF Goto
<1>5. ASSUME Change(u), NEW next \in {"reading", "over"}, Goto(u, next)
      PROVE  Inv'
  <2>1. CASE ~present
    BY <1>4, <1>5, <2>1 DEF Change
  <2>2. CASE present
    <3>1. Install(new) /\ written # <<>>
      BY <1>5, <2>2 DEF Change, Inv, HistoryInv
    <3>2. new.version = Len(written) + 1
      BY DEF Inv, HistoryInv
    <3> HIDE DEF new
    <3>3. pc' = [pc EXCEPT ![u] = next] /\ pc' \in [Requests -> PCs]
      BY <1>5 DEF Goto, Inv, ConfigTypeOK, PCs, Busy
    <3>4. doc' \in Docs /\ written' \in Seq(Contents)
      BY <1>3, <3>1, <3>2, InstallStep
    <3>5. ConfigTypeOK'
      BY <1>1, <3>3, <3>4 DEF Inv, ConfigTypeOK
    <3>6. CopyMatchesVersion' /\ HistoryInv' /\ PathInv' /\ \A v \in Requests : HeldInv(v)'
      BY <1>1, <1>3, <3>1, <3>2, <3>3, InstallKeeps
    <3> QED BY <3>5, <3>6 DEF Inv
  <2> QED BY <2>1, <2>2
<1>6. CASE Change(u) /\ Goto(u, "reading")
  BY <1>5, <1>6
<1>7. CASE Abort(u) /\ (Change(u) \/ UNCHANGED <<doc, written>>)
  BY <1>4, <1>5, <1>7 DEF Abort
<1> QED BY <1>6, <1>7, Zenon DEF Write

LEMMA UploadStep ==
    ASSUME Inv, NEW u \in Requests, Upload(u), faults' = faults
    PROVE  Inv'
<1> DEFINE v == seen[u].version
<1>1. /\ pc[u] = "uploading" /\ v \in 1..Len(written) /\ seen[u].content = written[v]
      /\ UNCHANGED <<op, arg, emb, seen, present, doc, source, written, overlapped>>
  BY DEF Inv, HeldInv, Upload
<1>2. ASSUME PutCopy(v, seen[u].content), NEW next \in {"recording", "over"}, Goto(u, next)
      PROVE  Inv'
  <2>1. PutCopy(v, written[v])
    BY <1>1, <1>2
  <2>2. /\ DOMAIN copies' = DOMAIN copies \cup {v}
        /\ DOMAIN copies' \subseteq Nat \ {0}
        /\ \A w \in DOMAIN copies' : copies'[w] \in Contents
        /\ CopyMatchesVersion'
    <3> HIDE DEF v
    <3> QED BY <1>1, <2>1, PutStep
  <2>3. ConfigTypeOK'
    BY <1>1, <1>2, <2>2 DEF Inv, ConfigTypeOK, Goto, PCs, Busy
  <2>4. PathInv' /\ HistoryInv'
    BY <1>1, <2>2 DEF Inv, PathInv, HistoryInv
  <2>5. ASSUME NEW w \in Requests PROVE HeldInv(w)'
    <3>1. pc'[w] = IF w = u THEN next ELSE pc[w]
      BY <1>2 DEF Inv, ConfigTypeOK, Goto
    <3> QED BY <1>1, <2>2, <3>1 DEF Inv, HeldInv
  <2> QED BY <2>2, <2>3, <2>4, <2>5 DEF Inv
<1>3. CASE UNCHANGED copies /\ Goto(u, "over")
  <2>1. source' \in Creds /\ emb' \in [Requests -> Creds] /\ "over" \in PCs
    BY <1>1 DEF Inv, ConfigTypeOK, PCs
  <2> QED BY <1>1, <1>3, <2>1, ReadStep DEF Goto
<1> QED BY <1>2, <1>3 DEF Upload

LEMMA RecordStep ==
    ASSUME Inv, NEW u \in Requests, RecordPath(u), faults' = faults
    PROVE  Inv'
<1>1. /\ pc[u] = "recording" /\ Goto(u, "over")
      /\ UNCHANGED <<op, arg, emb, seen, present, copies, source, written, overlapped>>
      /\ doc' = doc \/ doc' = [doc EXCEPT !.path = seen[u].version]
  BY DEF RecordPath
<1>2. doc \in Docs /\ seen[u].version \in Nat /\ seen[u].version \in DOMAIN copies
  BY <1>1 DEF Inv, ConfigTypeOK, Docs, HeldInv
<1>3. /\ doc' \in Docs /\ doc'.version = doc.version /\ doc'.content = doc.content
      /\ doc'.path \in {doc.path, seen[u].version}
  BY <1>1, <1>2 DEF Docs, Paths
<1>4. ConfigTypeOK'
  BY <1>1, <1>3 DEF Inv, ConfigTypeOK, Goto, PCs, Busy
<1>5. CopyMatchesVersion' /\ HistoryInv' /\ PathInv'
  BY <1>1, <1>2, <1>3 DEF Inv, CopyMatchesVersion, HistoryInv, PathInv
<1>6. ASSUME NEW w \in Requests PROVE HeldInv(w)'
  <2>1. pc'[w] = IF w = u THEN "over" ELSE pc[w]
    BY <1>1 DEF Inv, ConfigTypeOK, Goto
  <2> QED BY <1>1, <2>1 DEF Inv, HeldInv
<1> QED BY <1>4, <1>5, <1>6 DEF Inv

\* The source changes, or the server restarts.
LEMMA OutsideStep ==
    ASSUME Inv, update_source \/ delete_source \/ Restart, faults' = faults
    PROVE  Inv'
<1>1. /\ UNCHANGED <<op, arg, emb, seen, present, doc, copies, written, overlapped>>
      /\ source' \in Creds
      /\ pc' \in [Requests -> PCs]
      /\ \A u \in Requests : pc'[u] \in {pc[u], "over"}
  <2>1. CASE update_source \/ delete_source
    BY <2>1, ConfigAssumption
       DEF Inv, ConfigTypeOK, update_source, delete_source, reqVars, Creds, NoCreds
  <2>2. CASE Restart
    BY <2>2 DEF Inv, ConfigTypeOK, Restart, PCs
  <2> QED BY <2>1, <2>2
<1>2. ConfigTypeOK' /\ CopyMatchesVersion' /\ HistoryInv' /\ PathInv'
  BY <1>1 DEF Inv, ConfigTypeOK, CopyMatchesVersion, HistoryInv, PathInv
<1>3. ASSUME NEW u \in Requests PROVE HeldInv(u)'
  BY <1>1 DEF Inv, HeldInv
<1> QED BY <1>2, <1>3 DEF Inv

LEMMA InvStep == Inv /\ [ConfigNext]_confVars => Inv'
<1> SUFFICES ASSUME Inv, [ConfigNext]_confVars PROVE Inv'
  OBVIOUS
<1>0. faults' = faults
  BY DEF ConfigNext, confVars
<1>1. ASSUME NEW u \in Requests, Request(u) PROVE Inv'
  BY <1>0, <1>1, RequestStep
<1>2. ASSUME NEW u \in Requests, Progress(u) PROVE Inv'
  BY <1>0, <1>2, EmbedStep, InsertStep, WriteStep, ReadBackStep, UploadStep, RecordStep DEF Progress
<1>3. CASE update_source \/ delete_source \/ Restart
  BY <1>0, <1>3, OutsideStep
<1>4. CASE UNCHANGED confVars
  BY <1>4 DEF confVars, reqVars, Inv, ConfigTypeOK, CopyMatchesVersion, HistoryInv, PathInv, HeldInv
<1> QED BY <1>1, <1>2, <1>3, <1>4 DEF ConfigNext

-----------------------------------------------------------------------------
\* Every variable has its type.
THEOREM ConfigTypeCorrect == ConfigSpec => []ConfigTypeOK
  BY InvInit, InvStep, PTL DEF ConfigSpec, Inv

\* The copy of a version holds what the document held at that version, however
\* requests overlap and whatever fails.
THEOREM CopiesMatchVersions == ConfigSpec => []CopyMatchesVersion
  BY InvInit, InvStep, PTL DEF ConfigSpec, Inv

\* A recorded path names an uploaded copy, of no later version than the document.
THEOREM RecordedCopiesExist == ConfigSpec => []RecordedCopyExists
<1>1. Inv => RecordedCopyExists
  <2> SUFFICES ASSUME Inv, doc.path \in DOMAIN copies
               PROVE  doc.path <= doc.version
    BY DEF Inv, PathInv, RecordedCopyExists
  <2> QED BY DEF Inv, CopyMatchesVersion, HistoryInv
<1> QED BY InvInit, InvStep, <1>1, PTL DEF ConfigSpec

-----------------------------------------------------------------------------
\* The current version of a configuration kept in GCS has a copy, or a request
\* is on its way to make it.
CopyPending(u) ==
    \/ pc[u] = "reading" /\ GivenDest(u) = "gcp"
    \/ pc[u] = "uploading" /\ seen[u].version = doc.version

CopyInv ==
    ~faults /\ present /\ doc.dest = "gcp" =>
        doc.version \in DOMAIN copies \/ \E u \in Requests : CopyPending(u)

LEMMA CopyInvStep ==
    ASSUME Inv, CopyInv, [ConfigNext]_confVars
    PROVE  CopyInv'
<1>0. faults' = faults
  BY DEF ConfigNext, confVars
<1> SUFFICES ASSUME ~faults, present', doc'.dest = "gcp"
             PROVE  doc'.version \in DOMAIN copies' \/ \E u \in Requests : CopyPending(u)'
  BY <1>0 DEF CopyInv
<1>1. ASSUME NEW u \in Requests, CopyPending(u), UNCHANGED <<doc, arg>>,
             pc'[u] = pc[u], seen'[u] = seen[u]
      PROVE  CopyPending(u)'
  BY <1>1 DEF CopyPending, GivenDest
<1>2. ASSUME UNCHANGED <<doc, copies>>, present,
             \A u \in Requests : CopyPending(u) => \E w \in Requests : CopyPending(w)'
      PROVE  doc'.version \in DOMAIN copies' \/ \E u \in Requests : CopyPending(u)'
  BY <1>2 DEF CopyInv
<1>3. ASSUME NEW u \in Requests, Request(u)
      PROVE  doc'.version \in DOMAIN copies' \/ \E w \in Requests : CopyPending(w)'
  <2>1. /\ pc[u] = "idle" /\ UNCHANGED <<doc, copies>> /\ present
        /\ \A w \in Requests \ {u} : pc'[w] = pc[w] /\ seen'[w] = seen[w] /\ arg'[w] = arg[w]
    BY <1>3 DEF Inv, ConfigTypeOK, Request, BeginCreate, BeginUpdate, BeginRefresh,
                delete_configuration, Start, Goto
  <2>2. ASSUME NEW w \in Requests, CopyPending(w) PROVE CopyPending(w)'
    BY <2>1, <2>2 DEF CopyPending, GivenDest
  <2> QED BY <1>2, <2>1, <2>2
<1>4. ASSUME NEW u \in Requests, Progress(u)
      PROVE  doc'.version \in DOMAIN copies' \/ \E w \in Requests : CopyPending(w)'
  <2>0. /\ arg' = arg
        /\ \A w \in Requests \ {u} : pc'[w] = pc[w] /\ seen'[w] = seen[w]
    BY <1>4 DEF Inv, ConfigTypeOK, Progress, embed_source_details, Insert, Write, ReadBack,
                Upload, RecordPath, Goto, Abort
  <2>1. CASE embed_source_details(u)
    <3>1. UNCHANGED <<doc, copies, present>> /\ pc[u] = "embedding"
      BY <2>1 DEF embed_source_details
    <3>2. ASSUME NEW w \in Requests, CopyPending(w) PROVE CopyPending(w)'
      BY <2>0, <3>1, <3>2 DEF CopyPending, GivenDest
    <3> QED BY <1>2, <3>1, <3>2
  <2>2. CASE Insert(u)
    <3>1. doc' = [version |-> 1, content |-> NewContent(u),
                  dest |-> arg[u].dest, path |-> arg[u].path]
      BY <2>2 DEF Insert, Install
    <3>2. seen' = [seen EXCEPT ![u] = doc'] /\ Goto(u, AfterWrite(doc'.dest))
      BY <2>2, <3>1 DEF Insert
    <3>3. pc'[u] = "uploading" /\ seen'[u] = doc'
      BY <3>2 DEF Inv, ConfigTypeOK, Goto, AfterWrite
    <3> QED BY <3>3 DEF CopyPending
  <2>3. CASE Write(u)
    <3>1. Change(u) /\ Goto(u, "reading") /\ present' = present
      BY <2>3 DEF Write
    <3>2. doc'.dest = GivenDest(u)
      BY <3>1 DEF Change, Install
    <3>3. GivenDest(u)' = "gcp"
      BY <2>0, <3>2 DEF GivenDest
    <3>4. pc'[u] = "reading"
      BY <3>1 DEF Inv, ConfigTypeOK, Goto
    <3> QED BY <3>3, <3>4 DEF CopyPending
  <2>4. CASE ReadBack(u)
    <3>1. UNCHANGED <<doc, copies, present>>
      BY <2>4 DEF ReadBack
    <3>2. seen' = [seen EXCEPT ![u] = doc] /\ Goto(u, AfterWrite(GivenDest(u))) /\ pc[u] = "reading"
      BY <2>4, <3>1 DEF ReadBack
    <3>3. ASSUME NEW w \in Requests, CopyPending(w) PROVE CopyPending(w)'
      <4>1. CASE w = u
        <5>1. pc'[u] = "uploading" /\ seen'[u] = doc
          BY <3>2, <3>3, <4>1 DEF Inv, ConfigTypeOK, Goto, AfterWrite, CopyPending
        <5> QED BY <3>1, <4>1, <5>1 DEF CopyPending
      <4>2. CASE w # u
        BY <2>0, <3>1, <3>3, <4>2 DEF CopyPending, GivenDest
      <4> QED BY <4>1, <4>2
    <3> QED BY <1>2, <3>1, <3>3
  <2>5. CASE Upload(u)
    <3>1. /\ UNCHANGED <<doc, present>> /\ pc[u] = "uploading"
          /\ DOMAIN copies' = DOMAIN copies \cup {seen[u].version}
      BY <2>5 DEF Upload, PutCopy
    <3>2. ASSUME NEW w \in Requests, CopyPending(w)
          PROVE  CopyPending(w)' \/ doc.version \in DOMAIN copies'
      BY <2>0, <3>1, <3>2 DEF CopyPending, GivenDest
    <3> QED BY <3>1, <3>2 DEF CopyInv
  <2>6. CASE RecordPath(u)
    <3>1. UNCHANGED <<copies, present>> /\ pc[u] = "recording"
      BY <2>6 DEF RecordPath
    <3>2. doc'.version = doc.version /\ doc'.dest = doc.dest
      BY <2>6 DEF Inv, ConfigTypeOK, Docs, RecordPath
    <3>3. ASSUME NEW w \in Requests, CopyPending(w) PROVE CopyPending(w)'
      BY <2>0, <3>1, <3>2, <3>3 DEF CopyPending, GivenDest
    <3> QED BY <3>1, <3>2, <3>3 DEF CopyInv
  <2> QED BY <1>4, <2>1, <2>2, <2>3, <2>4, <2>5, <2>6 DEF Progress
<1>5. CASE update_source \/ delete_source \/ Restart \/ UNCHANGED confVars
  <2>1. UNCHANGED <<doc, copies, present, pc, seen, arg>>
    BY <1>5 DEF update_source, delete_source, Restart, confVars, reqVars
  <2> QED BY <1>1, <1>2, <2>1
<1> QED BY <1>3, <1>4, <1>5 DEF ConfigNext

\* With nothing failing, a configuration kept in GCS has a copy of its current
\* version once all requests are over, whatever requests overlapped.
THEOREM CurrentVersionIsCopied == ConfigSpec => []CurrentVersionCopied
<1>1. ConfigInit => CopyInv
  BY DEF ConfigInit, CopyInv
<1>2. CopyInv => CurrentVersionCopied
  BY DEF CopyInv, CopyPending, CurrentVersionCopied, Quiescent, Busy
<1> QED BY InvInit, InvStep, CopyInvStep, <1>1, <1>2, PTL DEF ConfigSpec

-----------------------------------------------------------------------------
\* A step of a request leaves what the others hold, and the source, alone.
LEMMA OthersKeep ==
    ASSUME Inv, NEW u \in Requests, Request(u) \/ Progress(u)
    PROVE  /\ source' = source
           /\ \A w \in Requests \ {u} :
                pc'[w] = pc[w] /\ op'[w] = op[w] /\ arg'[w] = arg[w]
                /\ emb'[w] = emb[w] /\ seen'[w] = seen[w]
<1>1. CASE Request(u)
  BY <1>1 DEF Inv, ConfigTypeOK, Request, BeginCreate, BeginUpdate, BeginRefresh,
              delete_configuration, Start, Goto
<1>2. CASE Progress(u)
  BY <1>2 DEF Inv, ConfigTypeOK, Progress, embed_source_details, Insert, Write, ReadBack,
              Upload, RecordPath, Goto, Abort
<1> QED BY <1>1, <1>2

\* Versions are only added, and copies are never removed.
LEMMA HistoryGrows ==
    ASSUME Inv, [ConfigNext]_confVars
    PROVE  /\ Len(written) \in Nat /\ Len(written') \in Nat /\ Len(written) <= Len(written')
           /\ \A v \in 1..Len(written) : written'[v] = written[v]
           /\ DOMAIN copies \subseteq DOMAIN copies'
<1>0. written \in Seq(Contents) /\ Len(written) \in Nat
  BY LenProperties DEF Inv, ConfigTypeOK
<1>1. CASE UNCHANGED <<written, copies>>
  BY <1>0, <1>1
<1>2. ASSUME NEW new \in Docs, Install(new), UNCHANGED copies
      PROVE  /\ Len(written') \in Nat /\ Len(written) <= Len(written')
             /\ \A v \in 1..Len(written) : written'[v] = written[v]
             /\ DOMAIN copies \subseteq DOMAIN copies'
  <2>1. new.content \in Contents
    BY DEF Docs
  <2> QED BY <1>0, <1>2, <2>1, AppendProperties DEF Install
<1>3. ASSUME NEW u \in Requests, Request(u) \/ Progress(u)
      PROVE  \/ UNCHANGED <<written, copies>>
             \/ \E new \in Docs : Install(new) /\ UNCHANGED copies
             \/ UNCHANGED written /\ DOMAIN copies \subseteq DOMAIN copies'
  <2>1. CASE Request(u)
    BY <2>1 DEF Request, BeginCreate, BeginUpdate, BeginRefresh, delete_configuration, Start
  <2>2. CASE embed_source_details(u) \/ ReadBack(u) \/ RecordPath(u)
    BY <2>2 DEF embed_source_details, ReadBack, RecordPath
  <2>3. CASE Insert(u)
    <3> DEFINE new == [version |-> 1, content |-> NewContent(u),
                       dest |-> arg[u].dest, path |-> arg[u].path]
    <3>1. arg[u].dest \in Dests /\ arg[u].path \in {NoPath, Foreign}
      BY <2>3 DEF Inv, HeldInv, Insert
    <3>2. new \in Docs
      BY <3>1, NewContentType DEF Inv, Docs, Paths, NoPath
    <3>3. UNCHANGED copies /\ (Install(new) \/ UNCHANGED written)
      BY <2>3 DEF Insert
    <3> QED BY <3>2, <3>3
  <2>4. CASE Write(u)
    <3> DEFINE new == [version |-> doc.version + 1, content |-> NewContent(u),
                       dest |-> GivenDest(u), path |-> GivenPath(u)]
    <3>1. doc.version + 1 \in Nat
      BY DEF Inv, ConfigTypeOK, Docs
    <3>2. new \in Docs
      BY <3>1, NewContentType, GivenTypes DEF Inv, Docs
    <3>3. UNCHANGED copies /\ (Install(new) \/ UNCHANGED written)
      BY <2>4 DEF Write, Change
    <3> QED BY <3>2, <3>3
  <2>5. CASE Upload(u)
    BY <2>5 DEF Upload, PutCopy
  <2> QED BY <1>3, <2>1, <2>2, <2>3, <2>4, <2>5 DEF Progress
<1>4. CASE update_source \/ delete_source \/ Restart \/ UNCHANGED confVars
  <2>1. UNCHANGED <<written, copies>>
    BY <1>4 DEF update_source, delete_source, Restart, confVars
  <2> QED BY <1>1, <2>1
<1> QED BY <1>0, <1>1, <1>2, <1>3, <1>4 DEF ConfigNext

-----------------------------------------------------------------------------
(* The credentials a refresh writes.                                           *)

\* A refresh holds a version that was written; it is about to write no
\* credentials only if it read none, and then the source is gone for good.
RefreshInv(u) ==
    op[u] = "refresh" =>
        /\ pc[u] \in {"embedding", "writing"} =>
             /\ seen[u].version \in 1..Len(written)
             /\ seen[u].content = written[seen[u].version]
        /\ pc[u] = "writing" /\ emb[u] = NoCreds =>
             source = NoCreds /\ seen[u].content.creds = NoCreds

LEMMA RefreshInvStep ==
    ASSUME Inv, \A u \in Requests : RefreshInv(u), [ConfigNext]_confVars
    PROVE  \A u \in Requests : RefreshInv(u)'
<1>1. ASSUME NEW u \in Requests, UNCHANGED <<op, seen, emb, written>>,
             pc'[u] \in {pc[u], "over"}, source = NoCreds => source' = NoCreds
      PROVE  RefreshInv(u)'
  BY <1>1 DEF RefreshInv
<1>2. ASSUME NEW u \in Requests, NEW w \in Requests, Request(w) \/ Progress(w), u # w
      PROVE  RefreshInv(u)'
  <2>1. /\ pc'[u] = pc[u] /\ op'[u] = op[u] /\ emb'[u] = emb[u] /\ seen'[u] = seen[u]
        /\ source' = source
    BY <1>2, OthersKeep
  <2>2. ASSUME seen[u].version \in 1..Len(written)
        PROVE  /\ seen[u].version \in 1..Len(written')
               /\ written'[seen[u].version] = written[seen[u].version]
    BY <2>2, HistoryGrows
  <2> QED BY <2>1, <2>2 DEF RefreshInv
<1>3. ASSUME NEW u \in Requests, Request(u)
      PROVE  RefreshInv(u)'
  <2>1. CASE BeginRefresh(u)
    <3>1. /\ pc'[u] = "embedding" /\ seen'[u] = doc /\ written' = written /\ present
      BY <2>1 DEF BeginRefresh, Start, Goto, Inv, ConfigTypeOK
    <3>2. /\ doc.version = Len(written) /\ written # <<>>
          /\ doc.content = written[Len(written)]
      BY <3>1 DEF Inv, HistoryInv
    <3>3. Len(written) \in Nat \ {0}
      BY <3>2, EmptySeq DEF Inv, ConfigTypeOK
    <3> QED BY <3>1, <3>2, <3>3 DEF RefreshInv
  <2>2. CASE ~BeginRefresh(u)
    <3>1. op'[u] # "refresh"
      BY <1>3, <2>2 DEF Request, BeginCreate, BeginUpdate, delete_configuration, Start,
                        Inv, ConfigTypeOK
    <3> QED BY <3>1 DEF RefreshInv
  <2> QED BY <2>1, <2>2
<1>4. ASSUME NEW u \in Requests, Progress(u)
      PROVE  RefreshInv(u)'
  <2>1. CASE embed_source_details(u)
    <3>1. /\ UNCHANGED <<op, seen, written, source>> /\ pc[u] = "embedding"
          /\ \/ pc'[u] = "over"
             \/ pc'[u] = "writing" /\ emb'[u] = Embedded(u)
      BY <2>1 DEF embed_source_details, Abort, Goto, Inv, ConfigTypeOK
    <3> QED BY <3>1 DEF RefreshInv, Embedded
  <2>2. CASE ~embed_source_details(u)
    <3>1. op'[u] = op[u] /\ pc'[u] \notin {"embedding", "writing"}
      BY <1>4, <2>2 DEF Progress, Insert, Write, ReadBack, Upload, RecordPath, Abort, Goto,
                        AfterWrite, Inv, ConfigTypeOK
    <3> QED BY <3>1 DEF RefreshInv
  <2> QED BY <2>1, <2>2
<1>5. CASE update_source \/ delete_source \/ Restart \/ UNCHANGED confVars
  <2>1. /\ UNCHANGED <<op, seen, emb, written>>
        /\ source = NoCreds => source' = NoCreds
        /\ \A u \in Requests : pc'[u] \in {pc[u], "over"}
    BY <1>5, ConfigAssumption DEF update_source, delete_source, Restart, confVars, reqVars,
                NoCreds, Inv, ConfigTypeOK
  <2> QED BY <1>1, <2>1
<1> QED BY <1>2, <1>3, <1>4, <1>5 DEF ConfigNext

\* A refresh by itself never takes away credentials, whenever the source is
\* deleted and whatever else is in progress or fails.
THEOREM RefreshesKeepCredentials == ConfigSpec => RefreshKeepsCredentials
<1> DEFINE RInv == \A u \in Requests : RefreshInv(u)
           Kept == \A u \in Requests :
                     RefreshWrites(u) /\ doc.content.creds # NoCreds
                       /\ doc'.content.creds = NoCreds =>
                         /\ source = NoCreds
                         /\ seen[u].content.creds = NoCreds
                         /\ seen[u].version < doc.version
<1>1. ConfigInit => RInv
  BY DEF ConfigInit, RefreshInv
<1>2. ASSUME Inv, RInv, ConfigNext
      PROVE  Kept
  <2> SUFFICES ASSUME NEW u \in Requests, RefreshWrites(u), doc.content.creds # NoCreds,
                      doc'.content.creds = NoCreds
               PROVE  /\ source = NoCreds
                      /\ seen[u].content.creds = NoCreds
                      /\ seen[u].version < doc.version
    OBVIOUS
  <2>1. Write(u)
    <3>1. ASSUME NEW w \in Requests, Request(w) \/ Progress(w) PROVE w = u
      BY <1>2, <3>1, OthersKeep DEF RefreshWrites
    <3>2. ~(update_source \/ delete_source \/ Restart)
      BY DEF RefreshWrites, update_source, delete_source, Restart
    <3>3. Request(u) \/ Progress(u)
      BY <1>2, <3>1, <3>2 DEF ConfigNext
    <3> QED BY <3>3 DEF RefreshWrites, Request, BeginCreate, BeginUpdate, BeginRefresh,
                Start, delete_configuration, Progress, embed_source_details, Insert,
                ReadBack, Upload, RecordPath
  <2>2. /\ doc' = [version |-> doc.version + 1, content |-> NewContent(u),
                   dest |-> GivenDest(u), path |-> GivenPath(u)]
        /\ present
    BY <2>1 DEF Write, Change, Install, RefreshWrites
  <2>3. seen[u] \in Docs /\ doc.version \in Nat
    BY <1>2 DEF Inv, ConfigTypeOK, Docs
  <2>4. doc'.content = [seen[u].content EXCEPT !.creds = emb[u]]
    BY <2>2 DEF NewContent, RefreshWrites
  <2>5. seen[u].content \in [text : Requests, creds : Creds]
    BY <2>3 DEF Docs, Contents
  <2>6. emb[u] = NoCreds
    BY <2>4, <2>5
  <2>7. /\ source = NoCreds /\ seen[u].content.creds = NoCreds
        /\ seen[u].version \in 1..Len(written)
        /\ seen[u].content = written[seen[u].version]
    BY <1>2, <2>6 DEF RefreshInv, RefreshWrites
  <2>8. doc.version = Len(written) /\ doc.content = written[Len(written)]
    BY <1>2, <2>2 DEF Inv, HistoryInv
  <2>9. seen[u].version # doc.version
    BY <2>7, <2>8
  <2> QED BY <2>3, <2>7, <2>8, <2>9
<1>3. Inv /\ RInv /\ [ConfigNext]_confVars => RInv' /\ [Kept]_confVars
  BY <1>2, RefreshInvStep
<1>4. ConfigSpec => [][Kept]_confVars
  BY <1>1, <1>3, InvInit, InvStep, PTL DEF ConfigSpec
<1> QED BY <1>4 DEF RefreshKeepsCredentials
-----------------------------------------------------------------------------
(* The recorded path, when requests come one at a time.                        *)

\* A request is on its way to record the path of what it wrote.
PathPending(u) ==
    \/ pc[u] = "reading" /\ GivenDest(u) = "gcp"
    \/ pc[u] \in {"uploading", "recording"}

\* At most one request is in progress; it has read the document as it still is;
\* and the recorded path is that of the current version, or about to be.
AloneInv ==
    /\ \A u, v \in Requests : pc[u] \in Busy /\ pc[v] \in Busy => u = v
    /\ \A u \in Requests : pc[u] = "uploading" => seen[u] = doc
    /\ \A u \in Requests : pc[u] = "recording" => seen[u].version = doc.version
    /\ present /\ doc.dest = "gcp" =>
         doc.path = doc.version \/ \E u \in Requests : PathPending(u)

LEMMA AloneInvStep ==
    ASSUME Inv, [ConfigNext]_confVars, ~faults, ~overlapped', AloneInv
    PROVE  AloneInv'
<1>0. ASSUME UNCHANGED <<doc, present, arg, seen, pc>> PROVE AloneInv'
  BY <1>0 DEF AloneInv, PathPending, GivenDest
<1>1. ASSUME NEW u \in Requests, Request(u) PROVE AloneInv'
  <2>1. Quiescent
    BY <1>1 DEF Request, BeginCreate, BeginUpdate, BeginRefresh, delete_configuration, Start
  <2>2. /\ doc' = doc /\ (present' => present)
        /\ pc'[u] \notin {"uploading", "recording"}
        /\ \A v \in Requests \ {u} : pc'[v] = pc[v]
    BY <1>1 DEF Request, BeginCreate, BeginUpdate, BeginRefresh, delete_configuration, Start,
                Goto, Inv, ConfigTypeOK
  <2>3. \A v \in Requests \ {u} : pc'[v] \notin Busy
    BY <2>1, <2>2 DEF Quiescent
  <2>4. present' /\ doc'.dest = "gcp" => doc'.path = doc'.version
    BY <2>1, <2>2 DEF AloneInv, PathPending, Quiescent, Busy
  <2> QED BY <2>2, <2>3, <2>4 DEF AloneInv, Busy
<1>2. ASSUME NEW u \in Requests, Progress(u) PROVE AloneInv'
  <2>1. pc[u] \in Busy
    BY <1>2 DEF Progress, embed_source_details, Insert, Write, ReadBack, Upload, RecordPath, Busy
  <2>2. \A v \in Requests \ {u} : pc[v] \notin Busy /\ pc'[v] \notin Busy
    BY <1>2, <2>1, OthersKeep DEF AloneInv
  <2>3. \A v \in Requests : PathPending(v) => v = u
    BY <2>1, <2>2 DEF PathPending, Busy
  <2>4. /\ \A v, w \in Requests : pc'[v] \in Busy /\ pc'[w] \in Busy => v = w
        /\ \A v \in Requests \ {u} : pc'[v] \notin {"uploading", "recording"}
    BY <2>2 DEF Busy
  <2> SUFFICES /\ pc'[u] = "uploading" => seen'[u] = doc'
               /\ pc'[u] = "recording" => seen'[u].version = doc'.version
               /\ present' /\ doc'.dest = "gcp" => doc'.path = doc'.version \/ PathPending(u)'
    BY <2>4 DEF AloneInv
  <2>5. CASE embed_source_details(u)
    <3>1. /\ pc[u] = "embedding" /\ pc'[u] \in {"writing", "over"}
          /\ doc' = doc /\ present' = present
      BY <2>5 DEF embed_source_details, Abort, Goto, Inv, ConfigTypeOK
    <3> QED BY <2>3, <3>1 DEF AloneInv, PathPending
  <2>6. CASE Insert(u)
    <3>1. doc' = [version |-> 1, content |-> NewContent(u),
                  dest |-> arg[u].dest, path |-> arg[u].path]
      BY <2>6 DEF Insert, Install
    <3>2. seen' = [seen EXCEPT ![u] = doc'] /\ Goto(u, AfterWrite(doc'.dest))
      BY <2>6, <3>1 DEF Insert
    <3>3. seen'[u] = doc' /\ pc'[u] = AfterWrite(doc'.dest)
      BY <3>2 DEF Goto, Inv, ConfigTypeOK
    <3> QED BY <3>3 DEF AfterWrite, PathPending
  <2>7. CASE Write(u)
    <3>1. Change(u) /\ pc'[u] = "reading" /\ present' = present /\ arg' = arg
      BY <2>7 DEF Write, Goto, Inv, ConfigTypeOK
    <3>2. present => doc'.dest = GivenDest(u)
      BY <3>1 DEF Change, Install
    <3>3. present /\ doc'.dest = "gcp" => GivenDest(u)' = "gcp"
      BY <3>1, <3>2 DEF GivenDest
    <3> QED BY <3>1, <3>3 DEF PathPending
  <2>8. CASE ReadBack(u)
    <3>1. UNCHANGED <<doc, present, arg>> /\ pc[u] = "reading"
      BY <2>8 DEF ReadBack, Abort
    <3>2. CASE present
      <4>1. seen'[u] = doc /\ pc'[u] = AfterWrite(GivenDest(u))
        BY <2>8, <3>2 DEF ReadBack, Goto, Inv, ConfigTypeOK
      <4> QED BY <2>3, <3>1, <4>1 DEF AfterWrite, PathPending, AloneInv
    <3>3. CASE ~present
      <4>1. pc'[u] = "over"
        BY <2>8, <3>3 DEF ReadBack, Abort, Goto, Inv, ConfigTypeOK
      <4> QED BY <3>1, <3>3, <4>1
    <3> QED BY <3>2, <3>3
  <2>9. CASE Upload(u)
    <3>1. /\ UNCHANGED <<doc, present, seen>> /\ pc[u] = "uploading"
          /\ pc'[u] = IF op[u] # "create" /\ seen[u].path = seen[u].version
                        THEN "over" ELSE "recording"
      BY <2>9 DEF Upload, Goto, Inv, ConfigTypeOK
    <3>2. seen[u] = doc
      BY <3>1 DEF AloneInv
    <3> QED BY <3>1, <3>2 DEF PathPending
  <2>10. CASE RecordPath(u)
    <3>1. /\ doc' = IF present THEN [doc EXCEPT !.path = seen[u].version] ELSE doc
          /\ pc[u] = "recording" /\ pc'[u] = "over" /\ present' = present
      BY <2>10 DEF RecordPath, Goto, Inv, ConfigTypeOK
    <3>2. seen[u].version = doc.version
      BY <3>1 DEF AloneInv
    <3>3. present => doc'.path = doc'.version
      BY <3>1, <3>2 DEF Inv, ConfigTypeOK, Docs
    <3> QED BY <3>1, <3>3
  <2> QED BY <1>2, <2>5, <2>6, <2>7, <2>8, <2>9, <2>10 DEF Progress
<1>3. CASE update_source \/ delete_source \/ Restart \/ UNCHANGED confVars
  <2>1. UNCHANGED <<doc, present, arg, seen, pc>>
    BY <1>3 DEF update_source, delete_source, Restart, confVars, reqVars
  <2> QED BY <1>0, <2>1
<1> QED BY <1>1, <1>2, <1>3 DEF ConfigNext

LEMMA PathInvStep ==
    ASSUME Inv, ~faults /\ ~overlapped => AloneInv, [ConfigNext]_confVars
    PROVE  (~faults /\ ~overlapped => AloneInv)'
<1>1. faults' = faults
  BY DEF ConfigNext, confVars
<1>2. \/ overlapped' = (overlapped \/ ~Quiescent)
      \/ overlapped' = overlapped
  BY DEF ConfigNext, Request, BeginCreate, BeginUpdate, BeginRefresh, delete_configuration,
         Start, Progress, embed_source_details, Insert, Write, ReadBack, Upload, RecordPath,
         update_source, delete_source, Restart, confVars
<1>3. overlapped => overlapped'
  BY <1>2, Zenon
<1> QED BY <1>1, <1>3, AloneInvStep

LEMMA AloneMeansCurrent ==
    (~faults /\ ~overlapped => AloneInv) => PathCurrentUnlessOverlapped
  BY DEF AloneInv, PathPending, PathCurrentUnlessOverlapped, Quiescent, Busy

\* With nothing failing and requests that come one at a time, the path recorded
\* in a configuration kept in GCS is that of its current version.
THEOREM PathsCurrent == ConfigSpec => []PathCurrentUnlessOverlapped
<1>1. ConfigInit => (~faults /\ ~overlapped => AloneInv)
  BY DEF ConfigInit, AloneInv, Busy
<1> QED BY InvInit, InvStep, PathInvStep, AloneMeansCurrent, <1>1, PTL DEF ConfigSpec
=============================================================================

------------------------------ MODULE Pipelines ------------------------------
(* One request carried out twice, by the query engine and then by the process  *)
(* engine.  The query engine reads each source in a run of its own, stores the *)
(* table, and joins the stored tables in another run; the process engine reads *)
(* and joins in one run.  From the join on the steps are the same.  Of the     *)
(* operations a request for one source has only the sort, as POST /execute.    *)
(* A request is [sources, join, select, derived, filters, logic, group,        *)
(* distinct, sorts, transforms]; sources maps "left", and "right" when there   *)
(* is a join, to [type, table, q].                                             *)
EXTENDS TableOps

CONSTANTS
    Requests,           \* bound: the requests made
    MaxRows             \* settings.max_result_rows

\* No operation but a sort.
SortOnly(r) ==
    /\ r.filters = <<>> /\ r.group.columns = {} /\ ~r.distinct.enabled
    /\ r.select = {} /\ r.derived = <<>> /\ r.transforms = <<>>

ASSUME RequestsAssumption ==
    /\ MaxRows \in Nat
    /\ \A r \in Requests :
        /\ DOMAIN r.sources \in {{"left"}, {"left", "right"}}
        /\ "right" \in DOMAIN r.sources \/ SortOnly(r)
        /\ r.derived \in Seq(ToSet(r.derived)) /\ r.transforms \in Seq(ToSet(r.transforms))
        /\ \A d \in ToSet(r.derived) : d.name # Null
        /\ \A t \in ToSet(r.transforms) : t.kind = "rename" => t.name # Null
        /\ \A side \in DOMAIN r.sources :
            LET source == r.sources[side]
            IN  /\ source.type \in Connectors /\ IsSource(source.type, source.table)
                /\ source.q \in QuerySourceConfig(Named(source.q))
                /\ \A c \in source.table.columns \cup Named(source.q) : Null \notin {c, Suffixed(c)}

VARIABLES
    request,
    engine,             \* "query", then "process", then "done"
    place,              \* the step it is at
    read,               \* what each engine has read of each source
    frame,              \* df
    answer              \* the table each engine ends with

vars == <<request, engine, place, read, frame, answer>>

Sides  == DOMAIN request.sources
Joined == "right" \in Sides

Init ==
    /\ request \in Requests
    /\ engine = "query"
    /\ place = "reading"
    /\ read = [e \in {"query", "process"} |-> <<>>]
    /\ frame = NoFrame
    /\ answer = [e \in {"query", "process"} |-> NoFrame]

\* df.head(max_result_rows): without a sort the first rows are any rows.
Heads(f, sorted) ==
    IF Len(f.rows) <= MaxRows THEN {f}
    ELSE IF sorted THEN {[f EXCEPT !.rows = SubSeq(@, 1, MaxRows)]}
    ELSE {KeptAt(f, set) : set \in kSubset(MaxRows, DOMAIN f.rows)}

\* The tables one engine may get from one source.  The query engine cuts what
\* it stores; a table that is not to be joined is sorted before that.
Fetched(source) ==
    IF engine = "process" THEN {ProcessQuery(source.type, source.table, source.q)}
    ELSE LET f == execute_single_source(source.type, source.table, source.q)
         IN  IF Joined THEN Heads(f, FALSE) ELSE {f}

Read(side) ==
    /\ place = "reading"
    /\ side \in Sides \ DOMAIN read[engine]
    /\ \E f \in Fetched(request.sources[side]) :
            read' = [read EXCEPT ![engine] = [x \in {side} \cup DOMAIN @ |->
                                                IF x = side THEN f ELSE @[x]]]
    /\ UNCHANGED <<request, engine, place, frame, answer>>

Step(from, to, frames) ==
    /\ place = from
    /\ frame # Failure
    /\ place' = to
    /\ frame' \in frames
    /\ UNCHANGED <<request, engine, read, answer>>

\* A source that could not be read fails the process, and leaves no stored
\* table to join to the query engine.
Join ==
    /\ place = "reading" /\ DOMAIN read[engine] = Sides
    /\ LET tables == read[engine]
           joined == IF Joined THEN JoinFrames(tables["left"], tables["right"], request.join)
                     ELSE tables["left"]
       IN  Step("reading", "deriving",
                {IF \E side \in Sides : tables[side] = Failure THEN Failure
                 ELSE IF joined = Failure THEN Failure
                 ELSE select_columns(joined, request.select)})

Derive    == Step("deriving", "filtering", {apply_derived_columns(frame, request.derived)})
Filter    == Step("filtering", "grouping", {apply_filters(frame, request.filters, request.logic)})
Group     == Step("grouping", "deduplicating", {apply_group_by(frame, request.group)})
Distinct  == Step("deduplicating", "sorting", apply_distinct(frame, request.distinct))
Sort      == Step("sorting", "transforming",
                  IF request.sorts = <<>> THEN {frame} ELSE apply_sort(frame, request.sorts))
Transform == Step("transforming", "finishing", {apply_transforms(frame, request.transforms)})

End(f) ==
    /\ answer' = [answer EXCEPT ![engine] = f]
    /\ engine' = IF engine = "query" THEN "process" ELSE "done"
    /\ place' = IF engine = "query" THEN "reading" ELSE "finished"
    /\ frame' = NoFrame
    /\ UNCHANGED <<request, read>>

\* Both engines cut the table.
Finish ==
    /\ place = "finishing"
    /\ \E f \in Heads(frame, request.sorts # <<>>) : End(f)

Fail == frame = Failure /\ End(Failure)

Next ==
    \/ \E side \in {"left", "right"} : Read(side)
    \/ Join \/ Derive \/ Filter \/ Group \/ Distinct \/ Sort \/ Transform \/ Finish \/ Fail

Spec == Init /\ [][Next]_vars

-----------------------------------------------------------------------------
Times(r, rows) == Cardinality({i \in DOMAIN rows : rows[i] = r})

SameRows(f, g) ==
    /\ Len(f.rows) = Len(g.rows)
    /\ \A r \in ToSet(f.rows) : Times(r, f.rows) = Times(r, g.rows)

Source(side) == request.sources[side]

\* No table is cut, and no row is taken for its place among equals.
OrderFree ==
    /\ \A side \in Sides : Len(Source(side).table.rows) <= MaxRows
    /\ Len(answer["process"].rows) < MaxRows
    /\ request.distinct.enabled =>
            request.distinct.keep = "none" \/ request.distinct.columns = {}

\* What a filter leaves may have columns without a value, which have no type in
\* a stored table, or none at all when they are keys of documents, but are kept in
\* a process; a formula tells them apart.
TypesKept ==
    \A side \in Sides :
        LET kept  == read["query"][side]
            whole == read["process"][side]
        IN  kept.rows # <<>> =>
                /\ kept.columns = whole.columns
                /\ \A c \in kept.columns : kept.types[c] = "null" => whole.types[c] = "null"

\* A process and the queries it was built from give the same table, although
\* one filters in Polars what the other leaves to the database - for the
\* requests of Portable, within the row limit, and unless a sort meets the lost
\* columns of an empty table or a filter empties a column.
ProcessMatchesQuery ==
    engine = "done" /\ OrderFree
        /\ (\A side \in Sides : Portable(Source(side).type, Source(side).table, Source(side).q))
        /\ (Joined \/ request.sorts = <<>> \/ read["query"]["left"].rows # <<>>)
        /\ TypesKept
    => /\ (answer["query"] = Failure) = (answer["process"] = Failure)
       /\ SameRows(answer["query"], answer["process"])

\* The answer to a left or outer join has every row read on the left, unless
\* nothing was read on the right: then it has none of them.
OuterKeepsRows ==
    engine = "done" /\ Joined /\ SortOnly(request) /\ request.join.how \in {"left", "outer"} =>
        \A e \in {"query", "process"} :
            LET left  == read[e]["left"]
                right == read[e]["right"]
            IN  answer[e] = Failure \/ Len(answer[e].rows) = MaxRows \/
                IF right.rows = <<>> THEN answer[e].rows = <<>>
                ELSE \A l \in ToSet(left.rows) : \E r \in ToSet(answer[e].rows) :
                        \A c \in left.columns : r[c] \in {l[c], AsText(l[c], left.types[c])}

\* The columns of a source that a request can rely on.
Offered(side) ==
    LET s == Source(side)
    IN  [columns |-> (Selected(s.q, s.table) \cap s.table.columns)
                        \ Sparse(s.type, s.table, s.q)]

\* A literal, or a formula of numbers.
IsConstant(d) == d.kind = "literal" \/ (d.kind = "math" /\ ToSet(d.columns) = {})

\* The names that a sort can rely on: what a join leaves of the columns offered,
\* and constants.
KnownNames ==
    (IF Joined THEN LeftPart(Offered("left"), request.join)
                        \cup RightPart(Offered("right"), request.join)
     ELSE Offered("left").columns)
    \cup {d.name : d \in {x \in ToSet(request.derived) : IsConstant(x)}}

KeysKnown ==
    /\ ToSet(request.join.left_on) \subseteq Offered("left").columns
    /\ ToSet(request.join.right_on) \subseteq Offered("right").columns

\* The types that a column may have once the tables are joined and columns derived.
DerivedTypes(d) ==
    CASE d.kind = "concat" -> {"text"} [] d.kind = "math" -> {"integer", "text"} [] OTHER -> {"integer"}

TypesAt(e, c) ==
    LET inputs   == IF Joined THEN JoinInputs(read[e]["left"], read[e]["right"], request.join)
                    ELSE <<read[e]["left"]>>
        Of(f)    == {f.types[d] : d \in {x \in f.columns : c \in {x, Suffixed(x)}}}
        joined   == UNION {Of(inputs[n]) : n \in DOMAIN inputs}
        derived  == UNION {DerivedTypes(d) : d \in {x \in ToSet(request.derived) : x.name = c}}
    IN  joined \cup derived

\* A request that keeps its columns fails only for a table that is empty (and so
\* has no columns) or could not be read, a key or a name that is not there, a name
\* that the join gives twice, or a filter on a column whose type Polars does not
\* compare with its value; and its answer has rows although a table had none only
\* by a constant.
EmptyTableOutcomes ==
    engine = "done" /\ request.select = {} /\ request.group.columns = {} =>
        \A e \in {"query", "process"} :
            LET empty == \E side \in Sides : read[e][side].rows = <<>>
            IN  /\ empty /\ answer[e].rows # <<>> => \E d \in ToSet(request.derived) : IsConstant(d)
                /\ answer[e] = Failure =>
                        \/ empty
                        \/ Joined /\ ~KeysKnown
                        \/ \E x \in ToSet(request.sorts) : x.column \notin KnownNames
                        \/ Joined /\ NamesClash(read[e]["left"], read[e]["right"], request.join)
                        \/ \E f \in ToSet(request.filters) :
                                \E t \in TypesAt(e, f.column) : Raises(f, t)
=============================================================================

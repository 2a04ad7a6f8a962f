------------------------------- MODULE Fetches -------------------------------
(* One table read by the query engine, which hands the filters to the          *)
(* connector, and by the process engine, which reads without filters and then  *)
(* filters in Polars.                                                          *)
(* A table is [columns, types, rows, sparse]: a set of names, the type of each,*)
(* a sequence of functions from names to cells, and the names that documents   *)
(* may lack, where Null is a key that is not there.  A frame is [columns,      *)
(* types, rows]; one made of no rows has no columns either.                    *)
EXTENDS Filters, SequencesExt, FiniteSets

CONSTANTS
    ToListLimit,        \* documents one MongoDB read returns at most: 10000
    InferLength         \* rows from which Polars infers the columns and their types: 100

ASSUME LimitsAssumption == ToListLimit \in Nat /\ InferLength \in Nat \ {0}

NoFrame == [columns |-> {}, types |-> <<>>, rows |-> <<>>]

\* The read raised.
Failure == [columns |-> {Null}, types |-> <<>>, rows |-> <<>>]

Connectors == {"postgres", "mysql", "db2", "mongodb", "file", "rest_api"}
Types      == {"integer", "boolean", "text"}
CellValues == Int \cup {Null}

\* What is asked of a source, in terms of some columns.
QuerySourceConfig(columns) ==
    [columns : SUBSET columns, filters : Seq(FilterCondition(columns)), logic : {"and", "or"}]

\* What a source holds: every row has a cell in every column.
IsTable(table) ==
    /\ table = [columns |-> table.columns, types |-> table.types, rows |-> table.rows,
                 sparse |-> table.sparse]
    /\ table.sparse \subseteq table.columns /\ table.columns # {}
    /\ table.types \in [table.columns -> Types]
    /\ table.rows \in Seq([table.columns -> CellValues])
    /\ Null \notin table.columns

\* Every document has its key.
IsSource(type, table) ==
    IsTable(table) /\ (type = "mongodb" => "_id" \in table.columns \ table.sparse)

Restricted(f, set) == [c \in set |-> f[c]]

\* The rows at some positions, in their order.
Kept(rows, positions) ==
    LET Rank(i) == Cardinality({j \in positions : j <= i})
    IN  [n \in 1..Cardinality(positions) |-> rows[CHOOSE i \in positions : Rank(i) = n]]

Project(table, rows, columns) ==
    [columns |-> columns, types |-> Restricted(table.types, columns),
     rows |-> [i \in DOMAIN rows |-> Restricted(rows[i], columns)]]

HasValue(rows, c)  == \E i \in DOMAIN rows : rows[i][c] # Null
IsInferred(rows, c) == \E i \in DOMAIN rows : i <= InferLength /\ rows[i][c] # Null

\* pl.DataFrame(rows) if rows else pl.DataFrame(): the keys of the first rows are
\* the columns.  A column without a value in them has no type of its own, and a
\* value that comes later raises.
FrameOf(read, sparse) ==
    LET columns == {c \in read.columns : c \in sparse => IsInferred(read.rows, c)}
        Type(c) == IF HasValue(read.rows, c) THEN read.types[c] ELSE "null"
    IN  IF read.rows = <<>> \/ columns = {} THEN NoFrame
        ELSE IF \E c \in columns : HasValue(read.rows, c) /\ ~IsInferred(read.rows, c)
        THEN Failure
        ELSE [columns |-> columns, types |-> [c \in columns |-> Type(c)],
              rows |-> [i \in DOMAIN read.rows |-> Restricted(read.rows[i], columns)]]

Selected(q, table) == IF q.columns = {} THEN table.columns ELSE q.columns

Named(q) == q.columns \cup {q.filters[i].column : i \in DOMAIN q.filters}

-----------------------------------------------------------------------------
(* execute_query of each connector.                                            *)

\* The database refuses a statement with a column that the table lacks.
SqlQuery(dialect, table, q) ==
    IF \/ ~ Named(q) \subseteq table.columns
       \/ \E i \in DOMAIN q.filters :
            SqlRaises(dialect, q.filters[i], table.types[q.filters[i].column])
    THEN Failure
    ELSE Project(table,
                 Kept(table.rows, {i \in DOMAIN table.rows :
                    SqlKeeps(dialect, q.filters, q.logic, table.rows[i], table.types)}),
                 Selected(q, table))

PostgresQuery(table, q) == SqlQuery("postgres", table, q)
Db2Query(table, q)      == SqlQuery("db2", table, q)

\* A boolean column of MySQL arrives as the integers 0 and 1.
Delivered(type, t) == IF type = "mysql" /\ t = "boolean" THEN "integer" ELSE t

MySqlQuery(table, q) ==
    LET read == SqlQuery("mysql", table, q)
    IN  [read EXCEPT !.types = [c \in DOMAIN read.types |-> Delivered("mysql", read.types[c])]]

\* A field no document has is null to the filter and absent from the rows.  The
\* projection always leaves the key of the document in.
MongoQuery(table, q) ==
    LET Value(r) == [c \in table.columns \cup Named(q) |->
                        IF c \in table.columns THEN r[c] ELSE Null]
        types    == [c \in table.columns \cup Named(q) |->
                        IF c \in table.columns THEN table.types[c] ELSE "text"]
        found    == Kept(table.rows, {i \in DOMAIN table.rows :
                        MongoKeeps(q.filters, q.logic, Value(table.rows[i]), types)})
    IN  Project(table, SubSeq(found, 1, IF Len(found) > ToListLimit THEN ToListLimit
                                        ELSE Len(found)),
                (Selected(q, table) \cup {"_id"}) \cap table.columns)

\* Filters are accepted and not looked at; so are columns the file lacks.
FileQuery(table, q) ==
    LET valid == Selected(q, table) \cap table.columns
    IN  Project(table, table.rows, IF valid = {} THEN table.columns ELSE valid)

\* Filters are not looked at; a column the answer lacks is null in every row.
RestQuery(table, q) ==
    [columns |-> Selected(q, table),
     types   |-> [c \in Selected(q, table) |->
                    IF c \in table.columns THEN table.types[c] ELSE "null"],
     rows    |-> [i \in DOMAIN table.rows |-> [c \in Selected(q, table) |->
                    IF c \in table.columns THEN table.rows[i][c] ELSE Null]]]

ExecuteQuery(type, table, q) ==
    CASE type = "postgres" -> PostgresQuery(table, q)
      [] type = "mysql"    -> MySqlQuery(table, q)
      [] type = "db2"      -> Db2Query(table, q)
      [] type = "mongodb"  -> MongoQuery(table, q)
      [] type = "file"     -> FileQuery(table, q)
      [] type = "rest_api" -> RestQuery(table, q)

\* The columns that a row read may lack: documents arrive as they are, the others
\* have every column asked for.
Sparse(type, table, q) ==
    IF type = "mongodb" \/ (type = "rest_api" /\ q.columns = {}) THEN table.sparse ELSE {}

-----------------------------------------------------------------------------

apply_filters(frame, filters, logic) ==
    IF \E i \in DOMAIN filters : LET f == filters[i]
            IN  ~Skipped(f, frame.columns, frame.types) /\ Raises(f, frame.types[f.column])
    THEN Failure
    ELSE [frame EXCEPT !.rows = Kept(@, {i \in DOMAIN @ :
            PolarsKeeps(filters, logic, @[i], frame.columns, frame.types)})]

\* A plausible error: the filters are not handed to the connector.
FetchUnfiltered(type, table, q) ==
    FrameOf(ExecuteQuery(type, table, [q EXCEPT !.filters = <<>>]), Sparse(type, table, q))

\* The query engine reads one source.
execute_single_source(type, table, q) ==
    LET read == ExecuteQuery(type, table, q)
    IN  IF read = Failure THEN Failure ELSE FrameOf(read, Sparse(type, table, q))

\* The process engine reads one source: the filters come after the columns
\* were selected, and after the limit of a MongoDB read.
ProcessQuery(type, table, q) ==
    LET f == execute_single_source(type, table, [q EXCEPT !.filters = <<>>])
    IN  IF f = Failure THEN Failure ELSE apply_filters(f, q.filters, q.logic)

-----------------------------------------------------------------------------
(* When the two engines read the same rows.  Every line is a difference        *)
(* between them that does happen.                                              *)

FilterColumns(q, operators) ==
    {q.filters[i].column : i \in {j \in DOMAIN q.filters : q.filters[j].operator \in operators}}

\* Texts that are not told apart from others.
HasCapitals(table, f) ==
    \/ \E v \in Values(f) : v.form = "text" /\ v.of \in 110..119
    \/ \E i \in DOMAIN table.rows : table.rows[i][f.column] \in 110..119

Portable(type, table, q) ==
    LET filters  == {q.filters[i] : i \in DOMAIN q.filters}
        Type(f)  == Delivered(type, table.types[f.column])
        Missing(c) == \E i \in DOMAIN table.rows : table.rows[i][c] = Null
    IN  \* Only databases filter,
        /\ type \in {"file", "rest_api"} => q.filters = <<>>
        \* a process can filter only by columns it selects,
        /\ Named(q) \subseteq Selected(q, table) \cap table.columns
        \* Polars skips an empty not_in, which SQL takes for true,
        /\ q.logic = "or" => \A f \in filters : f.operator = "not_in" => f.value.items # {}
        \* loses the list of a Boolean column,
        /\ \A f \in filters : f.operator \in Lists => Type(f) # "boolean"
        \* compares no text with a number,
        /\ \A f \in filters : ~Raises(f, Type(f))
        \* and infers the columns from the first rows, which a filter changes.
        /\ q.filters # <<>> /\ Len(table.rows) > InferLength =>
            \A c \in (Selected(q, table) \cup {"_id"}) \cap table.columns : ~Missing(c)
        \* MySQL does not tell capitals apart.
        /\ type = "mysql" => \A f \in filters : Type(f) = "text" => ~HasCapitals(table, f)
        \* MongoDB has types, values that are null, keys that none has, and a limit.
        /\ type = "mongodb" =>
            /\ \A f \in filters : \A v \in Values(f) : Native(v, table.types[f.column])
            /\ \A c \in FilterColumns(q, {"neq", "not_in"}) : ~Missing(c)
            /\ \A c \in Named(q) \cap table.sparse :
                    table.rows = <<>> \/ HasValue(table.rows, c)
            /\ Len(table.rows) <= ToListLimit
=============================================================================

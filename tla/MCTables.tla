------------------------------- MODULE MCTables -------------------------------
(* Instances of Pipelines, MathExpressions, Documents and ResultPages for TLC. *)
(* A behaviour explores one of them, which is its part, while the others wait. *)
EXTENDS Pipelines, MathExpressions, Documents, ResultPages

VARIABLE part

AddRight(c) == CASE c = "k" -> "k_right" [] c = "w" -> "w_right" [] c = "b" -> "b_right"
                 [] OTHER -> "right_right"

RowKB(k, b) == [c \in {"k", "b"} |-> IF c = "k" THEN k ELSE b]
RowKW(k, w) == [c \in {"k", "w"} |-> IF c = "k" THEN k ELSE w]

TableKB(rows) == [columns |-> {"k", "b"}, rows |-> rows, sparse |-> {},
                  types |-> [c \in {"k", "b"} |-> IF c = "k" THEN "integer" ELSE "boolean"]]
TableKW(rows) == [columns |-> {"k", "w"}, rows |-> rows, sparse |-> {},
                  types |-> [c \in {"k", "w"} |-> IF c = "k" THEN "integer" ELSE "text"]]
Lacking(table, set) == [table EXCEPT !.sparse = set]

\* The documents of MongoDB have a key.
Held(type, table) ==
    IF type # "mongodb" THEN table
    ELSE LET names == table.columns \cup {"_id"}
         IN  [columns |-> names, sparse |-> table.sparse,
              types |-> [c \in names |-> IF c = "_id" THEN "text" ELSE table.types[c]],
              rows |-> [i \in DOMAIN table.rows |-> [c \in names |->
                            IF c = "_id" THEN 200 + i ELSE table.rows[i][c]]]]

Fetch(type, table, q) == [type |-> type, table |-> Held(type, table), q |-> q]

\* Words: 100 and 101, and 110, which is 100 in capitals.
LeftTables ==
    {TableKB(rows) : rows \in { <<>>, << RowKB(1, 1), RowKB(2, 0) >>,
                                << RowKB(Null, 0), RowKB(1, Null) >>,
                                << RowKB(1, 0), RowKB(2, 1), RowKB(1, Null) >> }}
RightTables ==
    {TableKW(rows) : rows \in { <<>>, << RowKW(1, 100), RowKW(3, 101) >>,
                                << RowKW(1, 100), RowKW(1, Null) >> }}

Number(n) == [form |-> "number", of |-> n]
Bool(n)   == [form |-> "bool", of |-> n]
Text(n)   == [form |-> "text", of |-> n]
List(set) == [form |-> "list", items |-> set]

F(column, operator, v) ==
    [column |-> column, operator |-> operator, value |-> v, value2 |-> Number(2)]

OneFilter ==
    {F("k", operator, Number(1)) : operator \in {"eq", "neq", "gt", "between", "is_null"}}
    \cup {F("k", operator, List(set)) : operator \in Lists, set \in {{}, {Number(1)}}}
    \cup {F("k", "eq", v) : v \in {Text(1), Text(100), Bool(1), None}} \cup {F("z", "eq", Number(1))}
    \cup {F("b", "eq", v) : v \in {Bool(1), Text(1), Text(TrueText), Text(100), Number(1), Number(2)}}
    \cup {F("b", "in", List({v})) : v \in {Bool(0), Number(0)}} \cup {F("b", "is_not_null", None)}

Filterings ==
    { <<>> } \cup { <<f>> : f \in OneFilter }
    \cup { <<f, g>> : f \in {F("k", "not_in", List({})), F("k", "neq", Number(1))},
                      g \in {F("b", "eq", Bool(1)), F("b", "eq", Bool(0))} }

Q(columns, filters, logic) == [columns |-> columns, filters |-> filters, logic |-> logic]

NoGroup    == [columns |-> {}, aggregations |-> <<>>]
NoDistinct == [enabled |-> FALSE, columns |-> {}, keep |-> "first"]
NoJoin     == [how |-> "inner", left_on |-> <<>>, right_on |-> <<>>]

Plain == [sources |-> <<>>, join |-> NoJoin, select |-> {}, derived |-> <<>>, filters |-> <<>>,
          logic |-> "and", group |-> NoGroup, distinct |-> NoDistinct, sorts |-> <<>>,
          transforms |-> <<>>]

SortBy(column, descending) == << [column |-> column, descending |-> descending] >>

SingleRequests ==
    {[Plain EXCEPT !.sources = "left" :> Fetch(type, table, Q(columns, filters, logic)),
                   !.sorts = sorts] :
        type \in {"postgres", "mysql", "db2", "mongodb", "file", "rest_api"},
        table \in LeftTables, columns \in {{}, {"b"}}, filters \in Filterings,
        logic \in {"and", "or"}, sorts \in { <<>>, SortBy("b", TRUE) }}

\* Texts, and values that come late or not at all.
TextRequests ==
    {[Plain EXCEPT !.sources = "left" :> Fetch(type, table, Q(columns, filters, "and")),
                   !.sorts = sorts] :
        type \in Connectors,
        table \in {TableKW(<< RowKW(1, 100), RowKW(2, 110), RowKW(3, 1) >>),
                   TableKW(<< RowKW(1, Null), RowKW(2, Null), RowKW(3, 100) >>),
                   Lacking(TableKW(<< RowKW(1, Null), RowKW(2, Null), RowKW(3, 100) >>), {"w"}),
                   Lacking(TableKW(<< RowKW(1, Null), RowKW(2, 100) >>), {"w"}),
                   Lacking(TableKW(<< RowKW(1, Null) >>), {"w"})},
        columns \in {{}, {"k", "w"}},
        filters \in { <<>>, << F("k", "lt", Number(3)) >>, << F("k", "eq", Number(3)) >> }
            \cup { << F("w", operator, v) >> : operator \in {"eq", "neq", "lt"},
                                             v \in {Text(100), Text(1), Number(1), Bool(1)} }
            \cup { << F("w", "in", List({Text(100), Text(101)})) >>,
                   << F("w", "in", List({Number(1)})) >>, << F("w", "is_null", None) >> },
        sorts \in { <<>>, SortBy("w", TRUE) }}

Derived(name, kind, columns) ==
    [name |-> name, kind |-> kind, columns |-> columns, value |-> 7, then |-> 1, else |-> 0]
Conditional(operator, v) ==
    [name |-> "d", kind |-> "conditional", columns |-> <<"k">>, operator |-> operator,
     value |-> v, then |-> 1, else |-> 0]
Agg(function, column) == [function |-> function, column |-> column, alias |-> "n"]

Operations ==
    {Plain}
    \cup {[Plain EXCEPT !.sorts = s] : s \in {SortBy("k", TRUE), SortBy("w", FALSE), SortBy("z", FALSE)}}
    \cup {[Plain EXCEPT !.derived = <<d>>, !.filters = <<F("d", "eq", v)>>] :
            d \in {Conditional("eq", Number(1)), Conditional("is_null", None), Conditional("gt", Text(1)),
                   Derived("d", "math", <<"k", "k">>), Derived("d", "math", <<"w", "w">>),
                   Derived("d", "concat", <<"k", "w", "z">>)},
            v \in {Number(1), Text(100)}}
    \cup {[Plain EXCEPT !.filters = <<F("w", "neq", Number(1))>>]}
    \cup {[Plain EXCEPT !.derived = <<Derived("d", "literal", <<>>)>>, !.sorts = s] :
            s \in { <<>>, SortBy("d", FALSE), SortBy("w", FALSE)}}
    \cup {[Plain EXCEPT !.group = [columns |-> {"k"}, aggregations |-> <<Agg(f, "w")>>]] :
            f \in {"count", "count_distinct", "sum", "min", "max"}}
    \cup {[Plain EXCEPT !.group = [columns |-> {"b", "z"}, aggregations |-> <<Agg("count", "z")>>],
                        !.select = {"b", "z"}]}
    \cup {[Plain EXCEPT !.distinct = [enabled |-> TRUE, columns |-> c, keep |-> keep]] :
            c \in {{}, {"k"}, {"z"}}, keep \in {"any", "none"}}
    \cup {[Plain EXCEPT !.transforms = t] : t \in
            { << [column |-> "w", kind |-> "uppercase"] >>,
              << [column |-> "w", kind |-> "cast", type |-> "integer"] >>,
              << [column |-> "k", kind |-> "rename", name |-> "w"],
                 [column |-> "k", kind |-> "rename", name |-> "key"],
                 [column |-> "b", kind |-> "cast", type |-> "text"] >> }}

JoinRequests ==
    {[o EXCEPT !.sources = ("left"  :> Fetch("postgres", l, Q({}, filters, "and")))
                        @@ ("right" :> Fetch("mongodb", r, Q({}, <<>>, "and"))),
               !.join = [how |-> how, left_on |-> <<"k">>, right_on |-> <<"k">>]] :
        o \in Operations, l \in LeftTables, r \in RightTables,
        how \in {"inner", "left", "right", "outer"},
        filters \in { <<>>, << F("k", "eq", Number(1)) >>, << F("z", "eq", Number(1)) >> }}

\* More rows than the limit of a result.
LongTable == TableKB(<< RowKB(1, 0), RowKB(1, 1), RowKB(2, 0), RowKB(2, 1), RowKB(3, 0) >>)

LongRequests ==
    {[Plain EXCEPT !.sources = "left" :> Fetch("postgres", LongTable, Q({}, <<>>, "and")), !.sorts = sorts] :
        sorts \in { <<>>, SortBy("b", TRUE) }}

\* A filter may leave nothing but missing values in a column of words or numbers.
EmptiedRequests ==
    {[Plain EXCEPT !.sources = ("left"  :> Fetch("postgres", l, Q({}, filters, "and")))
                            @@ ("right" :> Fetch(type, r, Q({}, << F("w", "is_null", None) >>, "and"))),
                   !.join = [how |-> "left", left_on |-> <<"k">>, right_on |-> <<"k">>],
                   !.derived = <<d>>] :
        type \in {"postgres", "mongodb"}, l \in LeftTables, r \in RightTables,
        filters \in { <<>>, << F("k", "is_null", None) >> },
        d \in {Derived("d", "math", <<"k", "w">>), Derived("d", "concat", <<"k", "w">>),
               Conditional("eq", Number(1))}}

\* Keys of two names, keys that were not selected, words for booleans, and a
\* formula of numbers.
KeyedRequests ==
    {[Plain EXCEPT !.sources = ("left"  :> Fetch(type, l, Q({}, <<>>, "and")))
                            @@ ("right" :> Fetch("db2", r, Q(columns, <<>>, "and"))),
                   !.join = [how |-> how, left_on |-> <<"k">>, right_on |-> <<on>>],
                   !.derived = derived, !.filters = filters, !.sorts = sorts] :
        type \in {"postgres", "mysql"}, l \in LeftTables, r \in RightTables, columns \in {{}, {"w"}},
        how \in {"inner", "right"}, on \in {"k", "w"},
        derived \in { <<>>, <<Derived("n", "math", <<>>)>> },
        filters \in { <<>>, << F("b", "eq", Text(TrueText)) >> },
        sorts \in { <<>>, SortBy("w", FALSE) }}

\* Names that a join gives twice, and booleans as keys.
Wide(names, rows) == [columns |-> names, rows |-> rows, sparse |-> {},
                      types |-> [c \in names |-> IF c = "k" THEN "integer" ELSE "text"]]
Cells3(names, k, w) == [c \in names |-> IF c = "k" THEN k ELSE w]

ClashRequests ==
    {[Plain EXCEPT !.sources = ("left"  :> Fetch("postgres", Wide(l, << Cells3(l, 1, 100) >>), Q({}, <<>>, "and")))
                            @@ ("right" :> Fetch("db2", Wide(r, << Cells3(r, 1, 101) >>), Q(columns, <<>>, "and"))),
                   !.join = [how |-> how, left_on |-> <<"k">>, right_on |-> <<"k">>]] :
        l \in {{"k", "w"}, {"k", "w", "w_right"}}, r \in {{"k", "w"}, {"k", "w", "w_right"}},
        columns \in {{}, {"k", "w"}}, how \in {"inner", "left", "right", "outer"}}
    \cup
    {[Plain EXCEPT !.sources = ("left"  :> Fetch(type, l, Q({}, <<>>, "and")))
                            @@ ("right" :> Fetch(other, r, Q({}, <<>>, "and"))),
                   !.join = [how |-> how, left_on |-> <<"b">>, right_on |-> <<"k">>]] :
        type \in {"postgres", "mysql"}, other \in {"postgres", "mongodb"}, l \in LeftTables,
        r \in RightTables \cup {TableKW(<< RowKW(Null, 100), RowKW(Null, 101), RowKW(1, 100) >>),
                               Lacking(TableKW(<< RowKW(1, Null), RowKW(2, Null) >>), {"k", "w"})},
        how \in {"left", "outer"}}

AllRequests ==
    SingleRequests \cup TextRequests \cup JoinRequests \cup LongRequests \cup EmptiedRequests
        \cup KeyedRequests \cup ClashRequests

-----------------------------------------------------------------------------
(* The documents, formulas and results.                                        *)

Neighbours == {Plain1, Dict([k \in {"a"} |-> Plain1]), Dict([k \in {"b"} |-> Plain1]),
               Dict([k \in {"a"} |-> Dict([x \in {"b"} |-> Plain1])])}

\* What DocumentNext makes of a value, and all it makes in three steps.
Enclosures(v) ==
    {List1(<<v>>)}
    \cup {Dict([x \in {k} |-> v]) : k \in Keys}
    \cup {Dict([x \in Keys |-> IF x = k THEN v ELSE o]) : k \in Keys, o \in Neighbours}
    \cup {List1(<<v, o>>) : o \in Neighbours} \cup {List1(<<o, v>>) : o \in Neighbours}

Nested(set) == {v : v \in set \cup UNION {Enclosures(v) : v \in set}}
AllCompounds == {v : v \in Neighbours \cup Nested(Nested(Nested({Plain1})))} \ {Plain1}

Formulas == {[symbols |-> {"x", "+", "-", "*", "/", "(", ")"}, length |-> 5],
             [symbols |-> {"x", "-", "*", "(", ")"}, length |-> 7]}

Results == { <<>>, << [id |-> 1, key |-> 2], [id |-> 2, key |-> 1], [id |-> 3, key |-> 2] >>,
             << [id |-> 1, key |-> 3], [id |-> 2, key |-> 1], [id |-> 3, key |-> 4],
                [id |-> 4, key |-> 2] >> }

-----------------------------------------------------------------------------
PipelineIdle ==
    /\ request = Plain /\ engine = "done" /\ place = "finished"
    /\ read = [e \in {"query", "process"} |-> <<>>]
    /\ frame = NoFrame
    /\ answer = [e \in {"query", "process"} |-> NoFrame]

PagesIdle ==
    /\ stored = <<>> /\ expired = TRUE /\ size = 1 /\ sorted = FALSE
    /\ pages = [p \in {} |-> <<>>]

TablesInit ==
    /\ FormulaInit
    /\ DocumentInit
    /\ \/ part = "pipelines" /\ Init /\ PagesIdle
       \/ part = "pages" /\ PagesInit /\ PipelineIdle
       \/ part \in {"formulas", "documents"} /\ PagesIdle /\ PipelineIdle

TablesNext ==
    /\ UNCHANGED part
    /\ \/ part = "pipelines" /\ Next /\ UNCHANGED <<tokens, value, pageVars>>
       \/ part = "formulas" /\ FormulaNext /\ UNCHANGED <<vars, value, pageVars>>
       \/ part = "documents" /\ DocumentNext /\ UNCHANGED <<vars, tokens, pageVars>>
       \/ part = "pages" /\ PagesNext /\ UNCHANGED <<vars, tokens, value>>

TablesSpec == TablesInit /\ [][TablesNext]_<<part, vars, tokens, value, pageVars>>
=============================================================================

------------------------------- MODULE TableOps -------------------------------
(* The operations on a frame that follow the reading of the sources: joins,    *)
(* derived columns, group by, distinct, sort and transforms.  Each takes       *)
(* frames of module Fetches; one whose result depends on an order of rows that *)
(* nothing fixes gives the set of its results.                                 *)
EXTENDS Fetches

CONSTANT Suffixed(_)    \* the name of a column with "_right" added

KeptAt(frame, positions) == [frame EXCEPT !.rows = Kept(@, positions)]

\* The rows a value can be computed from: a literal added to a frame of no
\* columns makes a row.
RowsOf(frame) == IF frame.columns = {} THEN << [c \in {} |-> Null] >> ELSE frame.rows

\* with_columns: one column is added or replaced; cells has its value in each row.
WithColumn(frame, name, type, cells) ==
    LET columns == frame.columns \cup {name}
        rows    == RowsOf(frame)
    IN  [columns |-> columns,
         types   |-> [c \in columns |-> IF c = name THEN type ELSE frame.types[c]],
         rows    |-> [i \in DOMAIN rows |-> [c \in columns |->
                        IF c = name THEN cells[rows[i]] ELSE rows[i][c]]]]

\* A cell cast to text.
AsText(x, type) == IF type # "boolean" \/ x = Null THEN x
                   ELSE IF x = 1 THEN TrueText ELSE FalseText

\* select_columns: unknown names are dropped; none left means all columns.
select_columns(frame, columns) ==
    LET valid == columns \cap frame.columns
    IN  IF valid = {} THEN frame
        ELSE [columns |-> valid, types |-> Restricted(frame.types, valid),
              rows |-> [i \in DOMAIN frame.rows |-> Restricted(frame.rows[i], valid)]]

-----------------------------------------------------------------------------
(* Joins: [how, left_on, right_on], with sequences of key columns.             *)

\* Keys of different types are cast to text on both sides.
CoerceJoinKeys(frame, on, other, otherOn) ==
    LET cast == {c \in frame.columns : \E n \in DOMAIN on :
                    on[n] = c /\ frame.types[c] # other.types[otherOn[n]]}
    IN  [frame EXCEPT !.types = [c \in frame.columns |-> IF c \in cast THEN "text" ELSE @[c]],
                      !.rows  = [i \in DOMAIN @ |-> [c \in frame.columns |->
                                    IF c \in cast THEN AsText(@[i][c], frame.types[c])
                                    ELSE @[i][c]]]]

\* A missing value matches nothing.
KeysMatch(l, r, join) ==
    \A n \in DOMAIN join.left_on :
        l[join.left_on[n]] # Null /\ l[join.left_on[n]] = r[join.right_on[n]]

\* A right join keeps the keys of the right side, a full join those of both.
LeftPart(left, join) ==
    left.columns \ (IF join.how = "right" THEN ToSet(join.left_on) ELSE {})
RightPart(right, join) ==
    right.columns \ (IF join.how \in {"inner", "left"} THEN ToSet(join.right_on) ELSE {})

\* A plausible error: what has no match is dropped whatever the join.
UnmatchedDropped(left, right, join) == {}

\* The rows that a join keeps without a match: <<i, 0>> of the left side and
\* <<0, j>> of the right one.
Unmatched(left, right, join) ==
    {<<i, 0>> : i \in {i \in DOMAIN left.rows :
        /\ join.how \in {"left", "outer"}
        /\ \A j \in DOMAIN right.rows : ~KeysMatch(left.rows[i], right.rows[j], join)}}
    \cup
    {<<0, j>> : j \in {j \in DOMAIN right.rows :
        /\ join.how \in {"right", "outer"}
        /\ \A i \in DOMAIN left.rows : ~KeysMatch(left.rows[i], right.rows[j], join)}}

\* The name of a column of the right side, which no other may have.
JoinedName(left, join, c) == IF c \in LeftPart(left, join) THEN Suffixed(c) ELSE c

NamesClash(left, right, join) ==
    LET Name(c) == JoinedName(left, join, c)
    IN  \E c, d \in RightPart(right, join) :
            (c # d /\ Name(c) = Name(d)) \/ Name(c) \in LeftPart(left, join)

\* left_df.join(right_df, left_on, right_on, how, suffix="_right").
PolarsJoin(left, right, join) ==
    LET mine    == LeftPart(left, join)
        Name(c) == JoinedName(left, join, c)
        theirs  == {Name(c) : c \in RightPart(right, join)}
        Origin(c) == CHOOSE d \in RightPart(right, join) : Name(d) = c
        pairs   == {p \in (DOMAIN left.rows) \X (DOMAIN right.rows) :
                        KeysMatch(left.rows[p[1]], right.rows[p[2]], join)}
        order   == SetToSeq(pairs \cup Unmatched(left, right, join))
        Cell(p, c) == IF c \in mine
                      THEN IF p[1] = 0 THEN Null ELSE left.rows[p[1]][c]
                      ELSE IF p[2] = 0 THEN Null ELSE right.rows[p[2]][Origin(c)]
    IN  [columns |-> mine \cup theirs,
         types   |-> [c \in mine \cup theirs |->
                        IF c \in mine THEN left.types[c] ELSE right.types[Origin(c)]],
         rows    |-> [n \in DOMAIN order |-> [c \in mine \cup theirs |-> Cell(order[n], c)]]]

\* What is joined.
JoinInputs(left, right, join) ==
    <<CoerceJoinKeys(left, join.left_on, right, join.right_on),
      CoerceJoinKeys(right, join.right_on, left, join.left_on)>>

\* The join of both engines: with an empty side it is empty whatever its type.
\* It raises when a key is missing or a name is taken.
JoinFrames(left, right, join) ==
    IF <<>> \in {left.rows, right.rows} THEN NoFrame
    ELSE IF \/ ~ ToSet(join.left_on) \subseteq left.columns
            \/ ~ ToSet(join.right_on) \subseteq right.columns
            \/ NamesClash(left, right, join)
    THEN Failure
    ELSE LET inputs == JoinInputs(left, right, join) IN PolarsJoin(inputs[1], inputs[2], join)

-----------------------------------------------------------------------------
(* apply_derived_columns: what cannot be computed is left out.                 *)

\* Texts side by side: two digits are a numeral, anything else a word; one
\* missing makes all missing.
Beside(x, y) == IF x < 10 /\ y < 10 THEN 10 * x + y ELSE 1000 * x + y
Concat(cells) == IF Null \in ToSet(cells) THEN Null ELSE FoldLeft(Beside, 0, cells)

Total(cells) == IF Null \in ToSet(cells) THEN Null ELSE FoldLeft(LAMBDA x, y : x + y, 0, cells)

Cells(row, columns) == [i \in DOMAIN columns |-> row[columns[i]]]

\* The value of a condition is not coerced.
Condition(s, x) ==
    IF s.operator \in {"is_null", "is_not_null"} THEN NullTest(s.operator, x)
    ELSE Compare(s.operator, x, IF s.value = None THEN Null ELSE s.value.of)

CanTest(s, type) ==
    \/ s.operator \in {"is_null", "is_not_null"} \/ s.value = None \/ type = "null"
    \/ (s.value.form = "text") = (type = "text")

\* A plausible error: what a column cannot be computed from fails the run.
RunFailed(frame) == Failure

\* The exception is logged, the column is missing.
LeftOut(frame) == frame

\* A formula is a sum here, of numbers or of texts: module MathExpressions has the
\* parser.  A missing condition is no condition met.
DeriveOne(frame, s) ==
    LET named == ToSet(s.columns)
        valid == SelectSeq(s.columns, LAMBDA c : c \in frame.columns)
        all   == ToSet(RowsOf(frame))
        types == {frame.types[c] : c \in named \cap frame.columns}
        Texts(r) == [i \in DOMAIN valid |-> AsText(r[valid[i]], frame.types[valid[i]])]
    IN  CASE s.kind = "literal" -> WithColumn(frame, s.name, "integer", [r \in all |-> s.value])
          [] s.kind = "concat" /\ named \cap frame.columns # {} ->
                WithColumn(frame, s.name, "text", [r \in all |-> Concat(Texts(r))])
          [] s.kind = "math" /\ named \subseteq frame.columns
                /\ "text" \in types /\ types \subseteq {"text", "null"} ->
                WithColumn(frame, s.name, "text", [r \in all |-> Concat(Texts(r))])
          [] s.kind = "math" /\ named \subseteq frame.columns /\ "text" \notin types ->
                WithColumn(frame, s.name, "integer", [r \in all |-> Total(Cells(r, s.columns))])
          [] s.kind = "conditional" /\ named \cap frame.columns # {}
                /\ CanTest(s, frame.types[s.columns[1]]) ->
                WithColumn(frame, s.name, "integer", [r \in all |->
                    IF Condition(s, r[s.columns[1]]) = "yes" THEN s.then ELSE s.else])
          [] OTHER -> LeftOut(frame)

apply_derived_columns(frame, specs) ==
    LET after[n \in 0..Len(specs)] ==
            IF n = 0 THEN frame ELSE DeriveOne(after[n - 1], specs[n])
    IN  after[Len(specs)]

-----------------------------------------------------------------------------
(* apply_group_by, apply_distinct, apply_sort, apply_transforms.               *)

Aggregate(function, cells) ==
    LET values == SelectSeq(cells, LAMBDA x : x # Null)
    IN  CASE function = "count"          -> Len(values)
          [] function = "count_distinct" -> Cardinality(ToSet(cells))
          [] function = "sum"            -> Total(values)
          [] function = "min"            -> IF values = <<>> THEN Null ELSE Min(ToSet(values))
          [] function = "max"            -> IF values = <<>> THEN Null ELSE Max(ToSet(values))

\* Unknown columns are dropped; without a group column or an aggregation left
\* the frame stays as it is.  Two results of one name raise, and so does the sum
\* of texts.
apply_group_by(frame, g) ==
    LET by      == g.columns \cap frame.columns
        aggs    == SelectSeq(g.aggregations, LAMBDA a : a.column \in frame.columns)
        aliases == {aggs[i].alias : i \in DOMAIN aggs}
        keys    == SetToSeq({Restricted(frame.rows[i], by) : i \in DOMAIN frame.rows})
        Group(k) == SelectSeq(frame.rows, LAMBDA r : Restricted(r, by) = k)
        Agg(c)  == CHOOSE a \in ToSet(aggs) : a.alias = c
        Type(a) == IF a.function \in {"min", "max"} THEN frame.types[a.column] ELSE "integer"
        Cell(k, c) == IF c \in by THEN k[c]
                      ELSE LET rows == Group(k)
                           IN  Aggregate(Agg(c).function,
                                         [i \in DOMAIN rows |-> rows[i][Agg(c).column]])
    IN  IF by = {} \/ aggs = <<>> THEN frame
        ELSE IF \/ Cardinality(aliases) < Len(aggs) \/ aliases \cap by # {}
                \/ \E a \in ToSet(aggs) : a.function = "sum" /\ frame.types[a.column] = "text"
        THEN Failure
        ELSE [columns |-> by \cup aliases,
              types   |-> [c \in by \cup aliases |->
                            IF c \in by THEN frame.types[c] ELSE Type(Agg(c))],
              rows    |-> [n \in DOMAIN keys |-> [c \in by \cup aliases |-> Cell(keys[n], c)]]]

\* Which of the rows alike is the first depends on the order of the rows.
apply_distinct(frame, d) ==
    LET subset   == IF d.columns = {} THEN frame.columns ELSE d.columns \cap frame.columns
        Alike(i) == {j \in DOMAIN frame.rows :
                        Restricted(frame.rows[i], subset) = Restricted(frame.rows[j], subset)}
        classes  == {Alike(i) : i \in DOMAIN frame.rows}
    IN  IF ~d.enabled \/ subset = {} THEN {frame}
        ELSE IF d.keep = "none"
        THEN {KeptAt(frame, {i \in DOMAIN frame.rows : Alike(i) = {i}})}
        ELSE {KeptAt(frame, kept) : kept \in
                {set \in SUBSET DOMAIN frame.rows :
                    \A class \in classes : Cardinality(set \cap class) = 1}}

\* Missing values come first in both directions.
Precedes(x, y, descending) ==
    x # y /\ (x = Null \/ (y # Null /\ (IF descending THEN x > y ELSE x < y)))

Before(r, s, sorts) ==
    \E n \in DOMAIN sorts :
        /\ Precedes(r[sorts[n].column], s[sorts[n].column], sorts[n].descending)
        /\ \A m \in 1..(n - 1) : r[sorts[m].column] = s[sorts[m].column]

\* An unknown column raises; rows that compare equal come in any order.
apply_sort(frame, sorts) ==
    LET orders    == Bijection(DOMAIN frame.rows, DOMAIN frame.rows)
        Sorted(p) == \A i, j \in DOMAIN p : i < j =>
                        ~Before(frame.rows[p[j]], frame.rows[p[i]], sorts)
    IN  IF \E n \in DOMAIN sorts : sorts[n].column \notin frame.columns THEN {Failure}
        ELSE {[frame EXCEPT !.rows = [i \in DOMAIN frame.rows |-> frame.rows[p[i]]]] :
                p \in {q \in orders : Sorted(q)}}

Renamed(frame, old, new) ==
    LET columns == (frame.columns \ {old}) \cup {new}
        Old(c)  == IF c = new THEN old ELSE c
    IN  [columns |-> columns, types |-> [c \in columns |-> frame.types[Old(c)]],
         rows |-> [i \in DOMAIN frame.rows |-> [c \in columns |-> frame.rows[i][Old(c)]]]]

Upper(x) == IF x # Null /\ x \in 100..109 THEN x + 10 ELSE x

\* What raises is skipped: a name that is taken, capitals of what is no text, a
\* word as an integer.
TransformOne(frame, t) ==
    LET all == ToSet(RowsOf(frame))
    IN  IF t.column \notin frame.columns THEN frame
        ELSE
        CASE t.kind = "rename" /\ t.name \notin frame.columns -> Renamed(frame, t.column, t.name)
          [] t.kind = "uppercase" /\ frame.types[t.column] = "text" ->
                WithColumn(frame, t.column, "text", [r \in all |-> Upper(r[t.column])])
          [] t.kind = "cast" /\ t.type = "text" ->
                WithColumn(frame, t.column, "text",
                           [r \in all |-> AsText(r[t.column], frame.types[t.column])])
          [] t.kind = "cast" /\ t.type = "integer"
                /\ (frame.types[t.column] = "text" =>
                        \A i \in DOMAIN frame.rows : ~IsWord(frame.rows[i][t.column])) ->
                WithColumn(frame, t.column, "integer", [r \in all |-> r[t.column]])
          [] OTHER -> frame

apply_transforms(frame, transforms) ==
    LET after[n \in 0..Len(transforms)] ==
            IF n = 0 THEN frame ELSE TransformOne(after[n - 1], transforms[n])
    IN  after[Len(transforms)]
=============================================================================

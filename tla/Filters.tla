------------------------------- MODULE Filters -------------------------------
(* What a list of filters keeps: as SQL (the PostgreSQL, MySQL and DB2         *)
(* connectors), as a MongoDB query, and on a Polars frame (apply_filters).     *)
(* A cell is Null or a number; in a boolean column 1 is true, in a text column *)
(* a number is a text: below 100 the numeral that writes it, from 100 a word,  *)
(* 100..109 in small letters and 110..119 the same in capitals.                *)
(* A filter is [column, operator, value, value2]; a value is [form, of], with  *)
(* the texts of text columns, or a list, [form |-> "list", items].  The search *)
(* for a part of a text, "like", is left out.                                  *)
EXTENDS Integers, Sequences

CONSTANT Null           \* a missing value

ASSUME NullAssumption == Null \notin Int

None == [form |-> "none"]

FalseText == 120        \* the words "false" and "true"
TrueText  == 121

IsWord(x) == x # Null /\ x >= 100

Lists     == {"in", "not_in"}
Operators == Lists \cup {"eq", "neq", "gt", "lt", "gte", "lte", "is_null", "is_not_null", "between"}

Given  == [form : {"number", "text"}, of : Int] \cup [form : {"bool"}, of : {0, 1}]
Scalar == Given \cup {None}
ListOf == [form : {"list"}, items : SUBSET Given]

\* The filters that pass validation, on some columns.
FilterCondition(columns) ==
    {f \in [column : columns, operator : Operators, value : Scalar \cup ListOf, value2 : Scalar] :
        /\ f.operator \in Lists <=> f.value \in ListOf
        /\ f.operator = "between" => None \notin {f.value, f.value2}}

\* Three-valued logic, as in SQL and in Polars.
Truth(b) == IF b THEN "yes" ELSE "no"
Not(v)   == CASE v = "yes" -> "no" [] v = "no" -> "yes" [] OTHER -> v

Combine(logic, verdicts) ==
    LET strong == IF logic = "or" THEN "yes" ELSE "no"
    IN  IF strong \in verdicts THEN strong
        ELSE IF "unknown" \in verdicts THEN "unknown" ELSE Not(strong)

Holds(operator, x, y) ==
    CASE operator = "eq"  -> x = y
      [] operator = "neq" -> x # y
      [] operator = "gt"  -> x > y
      [] operator = "lt"  -> x < y
      [] operator = "gte" -> x >= y
      [] operator = "lte" -> x <= y

Compare(operator, x, y) ==
    IF Null \in {x, y} THEN "unknown" ELSE Truth(Holds(operator, x, y))

Among(x, set) == Combine("or", {Compare("eq", x, y) : y \in set})

Between(x, low, high) == Combine("and", {Compare("gte", x, low), Compare("lte", x, high)})

NullTest(operator, x) == Truth((x = Null) = (operator = "is_null"))

\* The values an operator looks at.
Values(f) ==
    CASE f.operator \in {"is_null", "is_not_null"} -> {}
      [] f.operator = "between"                   -> {f.value, f.value2}
      [] f.operator \in Lists                     -> f.value.items
      [] OTHER                                    -> {f.value}

-----------------------------------------------------------------------------
(* What a value is compared as, once coerced to the type of its column.        *)

\* _coerce_value: numbers from numerals, booleans from words and numbers.
Coerce(value, type) ==
    IF value = None THEN Null
    ELSE IF type # "boolean" THEN value.of
    ELSE IF value.form = "text" THEN IF value.of \in {1, TrueText} THEN 1 ELSE 0
    ELSE IF value.of = 0 THEN 0 ELSE 1

\* A number or a boolean stays one on a text column, and a word stays a text on
\* a column of numbers.
Comparable(value, type) ==
    CASE type = "text"    -> value.form \in {"none", "text"}
      [] type = "integer" -> value.form = "text" => ~IsWord(value.of)
      [] OTHER            -> TRUE

-----------------------------------------------------------------------------
(* The clause of one filter in SQL.  A pair is what a cell and a value are     *)
(* compared as.                                                                *)

PostgresPair(x, value, type) == <<x, Coerce(value, type)>>
Db2Pair(x, value, type)      == <<x, Coerce(value, type)>>

\* MySQL compares texts without regard to capitals, and a text with a number as
\* numbers, where a word is 0.  Its booleans are tinyints, and not coerced.
Folded(x)   == IF x \in 110..119 THEN x - 10 ELSE x
AsNumber(x) == IF IsWord(x) THEN 0 ELSE x

MySqlPair(x, value, type) ==
    IF value = None THEN <<x, Null>>
    ELSE IF type = "text" /\ value.form = "text" THEN <<Folded(x), Folded(value.of)>>
    ELSE <<IF type = "text" THEN AsNumber(x) ELSE x,
           IF value.form = "text" THEN AsNumber(value.of) ELSE value.of>>

SqlPair(dialect, x, value, type) ==
    CASE dialect = "postgres" -> PostgresPair(x, value, type)
      [] dialect = "mysql"    -> MySqlPair(x, value, type)
      [] dialect = "db2"      -> Db2Pair(x, value, type)

\* asyncpg takes no number for a text and no text for a number; DB2 writes a
\* number as text, but reads no number from a word.
SqlRaises(dialect, f, type) ==
    \E v \in Values(f) :
        /\ ~Comparable(v, type)
        /\ dialect = "postgres" \/ (dialect = "db2" /\ type = "integer")

SqlClause(dialect, f, x, type) ==
    LET Verdict(operator, v) == LET p == SqlPair(dialect, x, v, type)
                                IN  Compare(operator, p[1], p[2])
        listed == Combine("or", {Verdict("eq", v) : v \in f.value.items})
    IN  CASE f.operator \in {"is_null", "is_not_null"} -> NullTest(f.operator, x)
          [] f.operator = "in"      -> listed
          [] f.operator = "not_in"  -> Not(listed)
          [] f.operator = "between" -> Combine("and", {Verdict("gte", f.value),
                                                       Verdict("lte", f.value2)})
          [] OTHER                  -> Verdict(f.operator, f.value)

SqlKeeps(dialect, filters, logic, row, types) ==
    \/ filters = <<>>
    \/ "yes" = Combine(logic, {SqlClause(dialect, filters[i], row[filters[i].column],
                                         types[filters[i].column]) :
                               i \in DOMAIN filters})

-----------------------------------------------------------------------------
(* MongoDB: values are not coerced and match their own type only; null is a    *)
(* value that $ne and $nin match, and there is no third truth value.           *)

Native(value, type) ==
    value.form = (CASE type = "integer" -> "number"
                    [] type = "boolean" -> "bool"
                    [] type = "text"    -> "text")

MongoMatches(f, x, type) ==
    LET Equal(v) == IF v = None THEN x = Null ELSE Native(v, type) /\ x = v.of
        Ordered(operator, v) ==
            IF v = None THEN operator \in {"gte", "lte"} /\ x = Null
            ELSE x # Null /\ Native(v, type) /\ Holds(operator, x, v.of)
    IN  CASE f.operator = "is_null"     -> x = Null
          [] f.operator = "is_not_null" -> x # Null
          [] f.operator = "eq"          -> Equal(f.value)
          [] f.operator = "neq"         -> ~Equal(f.value)
          [] f.operator = "in"          -> \E v \in f.value.items : Equal(v)
          [] f.operator = "not_in"      -> \A v \in f.value.items : ~Equal(v)
          [] f.operator = "between"     -> Ordered("gte", f.value) /\ Ordered("lte", f.value2)
          [] OTHER                      -> Ordered(f.operator, f.value)

MongoKeeps(filters, logic, row, types) ==
    LET matches == {Truth(MongoMatches(filters[i], row[filters[i].column],
                                       types[filters[i].column])) : i \in DOMAIN filters}
    IN  filters = <<>> \/ Combine(logic, matches) = "yes"

-----------------------------------------------------------------------------
(* Polars: a filter that cannot be built is skipped.  The value is coerced     *)
(* before the operator is looked at, so a list on a Boolean column becomes one *)
(* boolean, which is no list.                                                  *)

PolarsItems(f, type) ==
    IF type = "boolean" THEN {} ELSE {Coerce(v, type) : v \in f.value.items}

Skipped(f, columns, types) ==
    \/ f.column \notin columns
    \/ f.operator = "not_in" /\ PolarsItems(f, types[f.column]) = {}
    \/ f.operator = "between" /\ None \in {f.value, f.value2}

PolarsVerdict(f, x, type) ==
    CASE f.operator \in {"is_null", "is_not_null"} -> NullTest(f.operator, x)
      [] f.operator = "in"      -> Among(x, PolarsItems(f, type))
      [] f.operator = "not_in"  -> Not(Among(x, PolarsItems(f, type)))
      [] f.operator = "between" -> Between(x, Coerce(f.value, type), Coerce(f.value2, type))
      [] OTHER                  -> Compare(f.operator, x, Coerce(f.value, type))

\* Polars compares no text with a number, and looks for no boolean among numbers.
Raises(f, type) ==
    \/ \E v \in Values(f) : ~Comparable(v, type)
    \/ f.operator \in Lists /\ type = "integer" /\ \E v \in Values(f) : v.form = "bool"

PolarsKeeps(filters, logic, row, columns, types) ==
    LET built == {i \in DOMAIN filters : ~Skipped(filters[i], columns, types)}
    IN  \/ built = {}
        \/ "yes" = Combine(logic, {PolarsVerdict(filters[i], row[filters[i].column],
                                                 types[filters[i].column]) : i \in built})
=============================================================================

---------------------------- MODULE PipelinesProofs ----------------------------
(* Proofs about Filters, Fetches, TableOps and Pipelines: for every table,     *)
(* every list of filters and every request, what TLC checks on the few of      *)
(* MCTables.                                                                   *)
EXTENDS Pipelines, FiniteSetTheorems, FunctionTheorems, WellFoundedInduction, TLAPS

-----------------------------------------------------------------------------
(* Verdicts.                                                                   *)

Verdicts == {"yes", "no", "unknown"}

LEMMA CombineYes ==
    ASSUME NEW logic, NEW V \in SUBSET Verdicts
    PROVE  Combine(logic, V) = "yes" <=>
             IF logic = "or" THEN "yes" \in V ELSE \A v \in V : v = "yes"
  BY DEF Combine, Not, Verdicts

LEMMA FormsDiffer ==
    /\ None \notin Given
    /\ \A v \in Given : v.form # "none" /\ v.form # "list" /\ v.of \in Int
    /\ \A v \in Given : v.form \in {"number", "text", "bool"}
    /\ \A v \in Given : v.form = "bool" => v.of \in {0, 1}
    /\ \A v \in ListOf : v.form = "list" /\ v.items \in SUBSET Given
    /\ None \notin ListOf /\ Given \cap ListOf = {}
    /\ None.form = "none"
<1>1. \A v \in Given : v.form \in {"number", "text", "bool"} /\ v.of \in Int
                        /\ (v.form = "bool" => v.of \in {0, 1})
  BY DEF Given
<1>2. \A v \in ListOf : v.form = "list" /\ v.items \in SUBSET Given
  BY DEF ListOf
<1>3. None.form = "none"
  BY DEF None
<1> QED BY <1>1, <1>2, <1>3

\* A value that is given, coerced, is an integer.
LEMMA CoerceInt ==
    ASSUME NEW v \in Given, NEW t
    PROVE  /\ Coerce(v, t) \in Int
           /\ t # "boolean" => Coerce(v, t) = v.of
  BY FormsDiffer DEF Coerce

\* What a missing cell compares as.
LEMMA NullCompares ==
    /\ \A operator, y : Compare(operator, Null, y) = "unknown"
    /\ \A low, high : Between(Null, low, high) = "unknown"
<1>1. \A operator, y : Compare(operator, Null, y) = "unknown"
  BY DEF Compare
<1>2. \A low, high : Between(Null, low, high) = "unknown"
  BY <1>1 DEF Between, Combine, Not
<1> QED BY <1>1, <1>2

LEMMA ComparesEqual ==
    ASSUME NEW x, NEW y \in Int
    PROVE  /\ Compare("eq", x, y) = "yes" <=> x # Null /\ x = y
           /\ Compare("eq", x, y) = "no" <=> x # Null /\ x # y
           /\ Compare("eq", x, y) \in Verdicts
  BY NullAssumption DEF Compare, Holds, Truth, Verdicts

\* A cell is among some integers.
LEMMA AmongIs ==
    ASSUME NEW x, NEW set \in SUBSET Int
    PROVE  /\ Among(x, set) = "yes" <=> x # Null /\ x \in set
           /\ x # Null => (Among(x, set) = "no" <=> x \notin set)
<1> DEFINE V == {Compare("eq", x, y) : y \in set}
<1>1. V \in SUBSET Verdicts
  BY ComparesEqual
<1>2. Among(x, set) = Combine("or", V)
  BY DEF Among
<1>3. "yes" \in V <=> x # Null /\ x \in set
  BY ComparesEqual
<1>4. x # Null => "unknown" \notin V
  BY NullAssumption DEF Compare, Truth
<1> HIDE DEF V
<1>5. Combine("or", V) = IF "yes" \in V THEN "yes" ELSE IF "unknown" \in V THEN "unknown" ELSE "no"
  BY DEF Combine, Not
<1> QED BY <1>2, <1>3, <1>4, <1>5

\* What an SQL database compares is what Polars compares.
LEMMA PairAgrees ==
    ASSUME NEW type \in {"postgres", "mysql", "db2"}, NEW t \in Types, NEW v \in Scalar,
           NEW x \in CellValues, Comparable(v, Delivered(type, t)),
           type = "mysql" /\ t = "text" =>
                x \notin 110..119 /\ (v.form = "text" => v.of \notin 110..119)
    PROVE  SqlPair(type, x, v, t) = <<x, Coerce(v, Delivered(type, t))>>
<1>1. CASE type # "mysql"
  BY <1>1 DEF SqlPair, PostgresPair, Db2Pair, Delivered
<1>2. CASE type = "mysql" /\ v = None
  BY <1>2 DEF SqlPair, MySqlPair, Coerce
<1>3. CASE type = "mysql" /\ v \in Given
  <2>1. v # None /\ v.form \in {"number", "text", "bool"}
    BY <1>3, FormsDiffer
  <2>2. CASE t = "text"
    <3>1. v.form = "text"
      BY <1>3, <2>1, <2>2 DEF Comparable, Delivered
    <3> QED BY <1>3, <2>1, <2>2, <3>1 DEF SqlPair, MySqlPair, Folded, Coerce, Delivered
  <2>3. CASE t # "text"
    <3>1. Delivered(type, t) = "integer"
      BY <1>3, <2>3 DEF Delivered, Types
    <3>2. v.form = "text" => AsNumber(v.of) = v.of
      BY <3>1 DEF Comparable, AsNumber
    <3> QED BY <1>3, <2>1, <2>3, <3>1, <3>2 DEF SqlPair, MySqlPair, Coerce
  <2> QED BY <2>2, <2>3
<1> QED BY <1>1, <1>2, <1>3 DEF Scalar

\* A filter on a column of type t, whose frame has type p: a column with no
\* value has lost its type.
Fits(type, f, x, t, p) ==
    /\ x \in CellValues /\ t \in Types
    /\ p = Delivered(type, t) \/ (p = "null" /\ x = Null)
    /\ f.operator \in Lists => Delivered(type, t) # "boolean"
    /\ ~Raises(f, Delivered(type, t))
    /\ type = "mysql" /\ t = "text" =>
            x \notin 110..119 /\ \A v \in Values(f) : v.form = "text" => v.of \notin 110..119

Comparisons == {"eq", "neq", "gt", "lt", "gte", "lte"}

\* The operators, by the value they take.
LEMMA FilterForms ==
    ASSUME NEW names, NEW f \in FilterCondition(names)
    PROVE  /\ f.operator \in {"is_null", "is_not_null"} \/ f.operator \in Lists
                \/ f.operator = "between" \/ f.operator \in Comparisons
           /\ f.operator \in Lists => f.value.form = "list" /\ f.value.items \in SUBSET Given
                                     /\ Values(f) = f.value.items
           /\ f.operator = "between" => {f.value, f.value2} \subseteq Given
                                     /\ Values(f) = {f.value, f.value2}
           /\ f.operator \in Comparisons => f.value \in Scalar /\ Values(f) = {f.value}
<1>1. /\ f.operator \in Operators /\ f.value \in Scalar \cup ListOf /\ f.value2 \in Scalar
      /\ f.operator \in Lists <=> f.value \in ListOf
      /\ f.operator = "between" => None \notin {f.value, f.value2}
  BY DEF FilterCondition
<1>2. f.operator \in Lists => f.value.form = "list" /\ f.value.items \in SUBSET Given
  BY <1>1, FormsDiffer
<1>3. f.operator \notin Lists => f.value \in Scalar
  BY <1>1
<1>4. f.operator \in Lists => Values(f) = f.value.items
  BY DEF Values, Lists
<1>5. f.operator = "between" => {f.value, f.value2} \subseteq Given /\ Values(f) = {f.value, f.value2}
  BY <1>1, <1>3 DEF Values, Scalar, Lists
<1>6. f.operator \in Comparisons => f.value \in Scalar /\ Values(f) = {f.value}
  BY <1>3 DEF Values, Lists, Comparisons
<1> QED BY <1>1, <1>2, <1>4, <1>5, <1>6 DEF Operators, Lists, Comparisons

EmptyNotIn(f) == f.operator = "not_in" /\ f.value.items = {}

\* The clause of SQL and the expression of Polars give one verdict.
LEMMA SqlAgrees ==
    ASSUME NEW type \in {"postgres", "mysql", "db2"}, NEW names, NEW f \in FilterCondition(names),
           NEW x, NEW t, NEW p, Fits(type, f, x, t, p)
    PROVE  SqlClause(type, f, x, t) = PolarsVerdict(f, x, p)
<1> DEFINE d == Delivered(type, t)
<1>0. /\ x \in CellValues /\ t \in Types
      /\ p = d \/ x = Null
      /\ f.operator \in Lists => p # "boolean"
  BY DEF Fits
<1>1. \A v \in Values(f) : v \in Scalar => SqlPair(type, x, v, t) = <<x, Coerce(v, d)>>
  <2>1. \A v \in Values(f) : Comparable(v, d)
    BY DEF Fits, Raises
  <2> QED BY <1>0, <2>1, PairAgrees DEF Fits
<1>2. \A operator : \A v \in Values(f) : v \in Scalar =>
        Compare(operator, SqlPair(type, x, v, t)[1], SqlPair(type, x, v, t)[2])
            = Compare(operator, x, Coerce(v, p))
  BY <1>0, <1>1, NullCompares
<1> HIDE DEF d
<1>3. CASE f.operator \in {"is_null", "is_not_null"}
  BY <1>3 DEF SqlClause, PolarsVerdict
<1>4. CASE f.operator \in Lists
  <2> DEFINE mine   == {Compare("eq", SqlPair(type, x, v, t)[1], SqlPair(type, x, v, t)[2]) :
                        v \in f.value.items}
             theirs == {Compare("eq", x, y) : y \in PolarsItems(f, p)}
  <2>1. f.value.items \in SUBSET Scalar /\ Values(f) = f.value.items
    BY <1>4, FilterForms DEF Scalar
  <2>2. PolarsItems(f, p) = {Coerce(v, p) : v \in f.value.items}
    BY <1>0, <1>4 DEF PolarsItems
  <2>3. mine = theirs
    <3>1. mine = {Compare("eq", x, Coerce(v, p)) : v \in f.value.items}
      BY <1>2, <2>1
    <3>2. theirs = {Compare("eq", x, Coerce(v, p)) : v \in f.value.items}
      BY <2>2
    <3> QED BY <3>1, <3>2
  <2>4. SqlClause(type, f, x, t) =
            IF f.operator = "in" THEN Combine("or", mine) ELSE Not(Combine("or", mine))
    BY <1>4 DEF SqlClause, Lists
  <2>5. PolarsVerdict(f, x, p) =
            IF f.operator = "in" THEN Combine("or", theirs) ELSE Not(Combine("or", theirs))
    BY <1>4 DEF PolarsVerdict, Lists, Among
  <2> QED BY <2>3, <2>4, <2>5
<1>5. CASE f.operator = "between"
  <2>1. {f.value, f.value2} \subseteq Scalar /\ Values(f) = {f.value, f.value2}
    BY <1>5, FilterForms DEF Scalar
  <2>2. SqlClause(type, f, x, t) = Combine("and",
            {Compare("gte", SqlPair(type, x, f.value, t)[1], SqlPair(type, x, f.value, t)[2]),
             Compare("lte", SqlPair(type, x, f.value2, t)[1], SqlPair(type, x, f.value2, t)[2])})
    BY <1>5 DEF SqlClause
  <2>3. PolarsVerdict(f, x, p) = Combine("and", {Compare("gte", x, Coerce(f.value, p)),
                                                 Compare("lte", x, Coerce(f.value2, p))})
    BY <1>5 DEF PolarsVerdict, Between
  <2> QED BY <1>2, <2>1, <2>2, <2>3
<1>6. CASE f.operator \in Comparisons
  <2>1. f.value \in Scalar /\ Values(f) = {f.value}
    BY <1>6, FilterForms
  <2>2. SqlClause(type, f, x, t) = Compare(f.operator, SqlPair(type, x, f.value, t)[1],
                                           SqlPair(type, x, f.value, t)[2])
    BY <1>6 DEF SqlClause, Comparisons
  <2>3. PolarsVerdict(f, x, p) = Compare(f.operator, x, Coerce(f.value, p))
    BY <1>6 DEF PolarsVerdict, Comparisons
  <2> QED BY <1>2, <2>1, <2>2, <2>3
<1> QED BY <1>3, <1>4, <1>5, <1>6, FilterForms

\* Every verdict is one of three.
LEMMA VerdictsOnly ==
    /\ \A b \in BOOLEAN : Truth(b) \in Verdicts
    /\ \A v \in Verdicts : Not(v) \in Verdicts
    /\ \A f, x, t : PolarsVerdict(f, x, t) \in Verdicts
    /\ \A type, f, x, t : SqlClause(type, f, x, t) \in Verdicts
<1>1. \A b : Truth(b) \in Verdicts
  BY DEF Truth, Verdicts
<1>2. \A v \in Verdicts : Not(v) \in Verdicts
  BY DEF Not, Verdicts
<1>3. \A operator, x, y : Compare(operator, x, y) \in Verdicts
  BY <1>1 DEF Compare, Verdicts
<1>4. \A logic, V : V \in SUBSET Verdicts => Combine(logic, V) \in Verdicts
  BY DEF Combine, Verdicts, Not
<1>5. \A operator, x : NullTest(operator, x) \in Verdicts
  BY <1>1 DEF NullTest
<1>6. \A x, low, high : Between(x, low, high) \in Verdicts
  BY <1>3, <1>4 DEF Between
<1>7. \A x, set : Among(x, set) \in Verdicts
  BY <1>3, <1>4 DEF Among
<1>8. ASSUME NEW f, NEW x, NEW t PROVE PolarsVerdict(f, x, t) \in Verdicts
  <2>1. CASE f.operator \in {"is_null", "is_not_null"}
    BY <1>5, <2>1 DEF PolarsVerdict
  <2>2. CASE f.operator = "in"
    BY <1>7, <2>2 DEF PolarsVerdict
  <2>3. CASE f.operator = "not_in"
    BY <1>2, <1>7, <2>3 DEF PolarsVerdict
  <2>4. CASE f.operator = "between"
    BY <1>6, <2>4 DEF PolarsVerdict
  <2>5. CASE f.operator \notin {"is_null", "is_not_null", "in", "not_in", "between"}
    BY <1>3, <2>5 DEF PolarsVerdict
  <2> QED BY <2>1, <2>2, <2>3, <2>4, <2>5
<1>9. ASSUME NEW type, NEW f, NEW x, NEW t PROVE SqlClause(type, f, x, t) \in Verdicts
  <2> DEFINE Verdict(operator, v) == Compare(operator, SqlPair(type, x, v, t)[1],
                                                       SqlPair(type, x, v, t)[2])
             listed == {Verdict("eq", v) : v \in f.value.items}
  <2>0. Combine("or", listed) \in Verdicts
    BY <1>3, <1>4
  <2>1. CASE f.operator \in {"is_null", "is_not_null"}
    BY <1>5, <2>1 DEF SqlClause
  <2>2. CASE f.operator = "in"
    BY <2>0, <2>2 DEF SqlClause
  <2>3. CASE f.operator = "not_in"
    BY <1>2, <2>0, <2>3 DEF SqlClause
  <2>4. CASE f.operator = "between"
    <3>1. {Verdict("gte", f.value), Verdict("lte", f.value2)} \in SUBSET Verdicts
      BY <1>3
    <3> QED BY <1>4, <2>4, <3>1 DEF SqlClause
  <2>5. CASE f.operator \notin {"is_null", "is_not_null", "in", "not_in", "between"}
    BY <1>3, <2>5 DEF SqlClause
  <2> QED BY <2>1, <2>2, <2>3, <2>4, <2>5
<1> QED BY <1>1, <1>2, <1>8, <1>9

\* A value of its column's own type is compared as it is.
LEMMA NativeValue ==
    ASSUME NEW t \in Types, NEW v \in Scalar, Native(v, t)
    PROVE  /\ v \in Given /\ v # None /\ v.of \in Int
           /\ \A p \in {t, "null"} : Coerce(v, p) = v.of
<1>1. v \in Given /\ v # None /\ v.of \in Int
  BY FormsDiffer DEF Native, Types, Scalar
<1>2. t = "boolean" => v.form = "bool" /\ v.of \in {0, 1}
  BY <1>1, FormsDiffer DEF Native
<1>3. Coerce(v, "null") = v.of /\ (t # "boolean" => Coerce(v, t) = v.of)
  BY <1>1 DEF Coerce
<1>4. t = "boolean" => Coerce(v, t) = v.of
  BY <1>1, <1>2 DEF Coerce
<1> QED BY <1>1, <1>3, <1>4

\* MongoDB, which has two truth values, matches what Polars says yes to.
LEMMA MongoAgrees ==
    ASSUME NEW names, NEW f \in FilterCondition(names), NEW x, NEW t, NEW p,
           Fits("mongodb", f, x, t, p),
           \A v \in Values(f) : Native(v, t),
           f.operator \in {"neq", "not_in"} => x # Null
    PROVE  MongoMatches(f, x, t) <=> PolarsVerdict(f, x, p) = "yes"
<1>0. x \in CellValues /\ t \in Types /\ p \in {t, "null"} /\ (t = "boolean" => f.operator \notin Lists)
      /\ (x # Null => p = t) /\ p \in Types \cup {"null"} /\ (f.operator \in Lists => p # "boolean")
  BY DEF Fits, Delivered
<1>1. CASE f.operator \in {"is_null", "is_not_null"}
  BY <1>1 DEF MongoMatches, PolarsVerdict, NullTest, Truth
<1>2. CASE f.operator \in Lists
  <2> DEFINE polars == {Coerce(v, p) : v \in f.value.items}
  <2>1. f.value.items \in SUBSET Given /\ Values(f) = f.value.items
    BY <1>2, FilterForms
  <2>2. \A v \in f.value.items : v # None /\ Native(v, t) /\ Coerce(v, p) = v.of /\ v.of \in Int
    BY <1>0, <2>1, NativeValue DEF Scalar
  <2>3. PolarsItems(f, p) = polars /\ polars \in SUBSET Int
    BY <1>0, <1>2, <2>2 DEF PolarsItems
  <2>4. \A v \in f.value.items : x = v.of => x \in polars
    BY <2>2
  <2>5. x \in polars => \E v \in f.value.items : x = v.of
    BY <2>2
  <2>7. CASE f.operator = "in"
    <3>1. MongoMatches(f, x, t) <=> \E v \in f.value.items : x = v.of
      BY <2>2, <2>7 DEF MongoMatches
    <3>2. PolarsVerdict(f, x, p) = Among(x, polars)
      BY <2>3, <2>7 DEF PolarsVerdict
    <3>3. x = Null => x \notin polars
      BY <2>2, NullAssumption
    <3> HIDE DEF polars
    <3> QED BY <2>3, <2>4, <2>5, <3>1, <3>2, <3>3, AmongIs
  <2>8. CASE f.operator = "not_in"
    <3>1. MongoMatches(f, x, t) <=> \A v \in f.value.items : x # v.of
      BY <2>2, <2>8 DEF MongoMatches
    <3>2. PolarsVerdict(f, x, p) = Not(Among(x, polars))
      BY <2>3, <2>8 DEF PolarsVerdict
    <3>3. x # Null
      BY <2>8
    <3> HIDE DEF polars
    <3>4. Not(Among(x, polars)) = "yes" <=> Among(x, polars) = "no"
      BY DEF Not
    <3> QED BY <2>3, <2>4, <2>5, <3>1, <3>2, <3>3, <3>4, AmongIs
  <2> QED BY <1>2, <2>7, <2>8 DEF Lists
<1>3. CASE f.operator = "between"
  <2>1. f.value \in Given /\ f.value2 \in Given /\ Native(f.value, t) /\ Native(f.value2, t)
    BY <1>3, FilterForms
  <2>2. /\ f.value # None /\ f.value.of \in Int /\ Coerce(f.value, p) = f.value.of
        /\ f.value2 # None /\ f.value2.of \in Int /\ Coerce(f.value2, p) = f.value2.of
    BY <1>0, <2>1, NativeValue DEF Scalar
  <2>3. MongoMatches(f, x, t) <=> x # Null /\ x >= f.value.of /\ x <= f.value2.of
    BY <1>3, <2>1, <2>2 DEF MongoMatches, Holds
  <2>4. PolarsVerdict(f, x, p) = Between(x, f.value.of, f.value2.of)
    BY <1>3, <2>2 DEF PolarsVerdict
  <2>5. CASE x = Null
    BY <2>3, <2>4, <2>5, NullCompares
  <2>6. CASE x # Null
    <3>1. /\ Compare("gte", x, f.value.of) = Truth(x >= f.value.of)
          /\ Compare("lte", x, f.value2.of) = Truth(x <= f.value2.of)
      BY <2>2, <2>6, NullAssumption DEF Compare, Holds
    <3>2. {Truth(x >= f.value.of), Truth(x <= f.value2.of)} \in SUBSET Verdicts
      BY DEF Truth, Verdicts
    <3>3. Between(x, f.value.of, f.value2.of) = "yes" <=>
            \A v \in {Truth(x >= f.value.of), Truth(x <= f.value2.of)} : v = "yes"
      BY <3>1, <3>2, CombineYes DEF Between
    <3> QED BY <2>3, <2>4, <2>6, <3>3 DEF Truth
  <2> QED BY <2>5, <2>6
<1>4. CASE f.operator \in Comparisons
  <2>1. f.value \in Scalar /\ Native(f.value, t)
    BY <1>4, FilterForms
  <2>2. f.value # None /\ f.value.of \in Int /\ Coerce(f.value, p) = f.value.of
    BY <1>0, <2>1, NativeValue
  <2>3. PolarsVerdict(f, x, p) = Compare(f.operator, x, f.value.of)
    BY <1>4, <2>2 DEF PolarsVerdict, Comparisons
  <2>4. f.value.of # Null
    BY <2>2, NullAssumption
  <2>5. CASE f.operator = "eq"
    <3>1. MongoMatches(f, x, t) <=> x = f.value.of
      BY <2>1, <2>2, <2>5 DEF MongoMatches
    <3> QED BY <2>3, <2>4, <2>5, <3>1 DEF Compare, Holds, Truth
  <2>6. CASE f.operator = "neq"
    <3>1. MongoMatches(f, x, t) <=> x # f.value.of
      BY <2>1, <2>2, <2>6 DEF MongoMatches
    <3> QED BY <2>3, <2>4, <2>6, <3>1 DEF Compare, Holds, Truth
  <2>7. CASE f.operator \in {"gt", "lt", "gte", "lte"}
    <3>1. MongoMatches(f, x, t) <=> x # Null /\ Holds(f.operator, x, f.value.of)
      BY <2>1, <2>2, <2>7 DEF MongoMatches
    <3> QED BY <2>3, <2>4, <2>7, <3>1 DEF Compare, Truth
  <2> QED BY <1>4, <2>5, <2>6, <2>7 DEF Comparisons
<1> QED BY <1>1, <1>2, <1>3, <1>4, FilterForms

-----------------------------------------------------------------------------
(* Lists of filters.                                                           *)

Image(f, set) == {f[i] : i \in set}

\* What is true of every row may be left out of "and", and nothing of "or".
LEMMA LeavingOut ==
    ASSUME NEW logic, NEW D, NEW built \in SUBSET D, NEW c, NEW v,
           \A i \in D : c[i] \in Verdicts /\ v[i] \in Verdicts,
           \A i \in built : c[i] = "yes" <=> v[i] = "yes",
           \A i \in D \ built : c[i] = "yes",
           logic = "or" => built = D
    PROVE  D = {} \/ Combine(logic, Image(c, D)) = "yes" <=>
             built = {} \/ Combine(logic, Image(v, built)) = "yes"
<1>1. Image(c, D) \in SUBSET Verdicts /\ Image(v, built) \in SUBSET Verdicts
  BY DEF Image
<1>2. CASE logic = "or"
  <2>1. Combine(logic, Image(c, D)) = "yes" <=> \E i \in D : c[i] = "yes"
    BY <1>1, <1>2, CombineYes DEF Image
  <2>2. Combine(logic, Image(v, built)) = "yes" <=> \E i \in built : v[i] = "yes"
    BY <1>1, <1>2, CombineYes DEF Image
  <2> QED BY <1>2, <2>1, <2>2
<1>3. CASE logic # "or"
  <2>1. Combine(logic, Image(c, D)) = "yes" <=> \A i \in D : c[i] = "yes"
    BY <1>1, <1>3, CombineYes DEF Image
  <2>2. Combine(logic, Image(v, built)) = "yes" <=> \A i \in built : v[i] = "yes"
    BY <1>1, <1>3, CombineYes DEF Image
  <2> QED BY <2>1, <2>2
<1> QED BY <1>2, <1>3

\* Polars skips exactly the empty not_in.
LEMMA SkippedIsEmptyNotIn ==
    ASSUME NEW type, NEW names, NEW f \in FilterCondition(names), NEW x, NEW t,
           NEW columns, f.column \in columns, NEW ptypes,
           Fits(type, f, x, t, ptypes[f.column])
    PROVE  Skipped(f, columns, ptypes) <=> EmptyNotIn(f)
<1> DEFINE p == ptypes[f.column]
<1>1. f.operator = "between" => None \notin {f.value, f.value2}
  BY DEF FilterCondition
<1>2. f.operator = "not_in" => (PolarsItems(f, p) = {} <=> f.value.items = {})
  <2>1. f.operator = "not_in" => p # "boolean"
    BY DEF Fits, Delivered, Lists
  <2> QED BY <2>1 DEF PolarsItems
<1> QED BY <1>1, <1>2 DEF Skipped, EmptyNotIn

LEMMA SqlKeepsWhatPolarsKeeps ==
    ASSUME NEW type \in {"postgres", "mysql", "db2"}, NEW names,
           NEW filters \in Seq(FilterCondition(names)), NEW logic, NEW row, NEW types,
           NEW mine, NEW columns, NEW ptypes,
           \A i \in DOMAIN filters :
                /\ filters[i].column \in columns
                /\ mine[filters[i].column] = row[filters[i].column]
                /\ Fits(type, filters[i], row[filters[i].column], types[filters[i].column],
                        ptypes[filters[i].column]),
           logic = "or" => \A i \in DOMAIN filters : ~EmptyNotIn(filters[i])
    PROVE  SqlKeeps(type, filters, logic, row, types) <=>
             PolarsKeeps(filters, logic, mine, columns, ptypes)
<1> DEFINE D     == DOMAIN filters
           built == {i \in D : ~Skipped(filters[i], columns, ptypes)}
           c     == [i \in D |-> SqlClause(type, filters[i], row[filters[i].column],
                                          types[filters[i].column])]
           v     == [i \in D |-> PolarsVerdict(filters[i], mine[filters[i].column],
                                              ptypes[filters[i].column])]
<1>1. \A i \in D : filters[i] \in FilterCondition(names)
  OBVIOUS
<1>2. \A i \in D : Skipped(filters[i], columns, ptypes) <=> EmptyNotIn(filters[i])
  BY <1>1, SkippedIsEmptyNotIn
<1>3. \A i \in built : c[i] = v[i]
  BY <1>1, <1>2, SqlAgrees
<1>4. ASSUME NEW i \in D \ built PROVE c[i] = "yes"
  <2>1. EmptyNotIn(filters[i])
    BY <1>2
  <2>2. Not(Combine("or", {})) = "yes"
    BY DEF Combine, Not
  <2> QED BY <2>1, <2>2 DEF EmptyNotIn, SqlClause
<1>5. \A i \in D : c[i] \in Verdicts /\ v[i] \in Verdicts
  BY VerdictsOnly
<1>6. logic = "or" => built = D
  BY <1>2
<1>7. /\ SqlKeeps(type, filters, logic, row, types) <=>
            D = {} \/ Combine(logic, Image(c, D)) = "yes"
      /\ PolarsKeeps(filters, logic, mine, columns, ptypes) <=>
            built = {} \/ Combine(logic, Image(v, built)) = "yes"
  <2>1. Image(c, D) = {SqlClause(type, filters[i], row[filters[i].column],
                                    types[filters[i].column]) : i \in DOMAIN filters}
    BY DEF Image
  <2>2. Image(v, built) = {PolarsVerdict(filters[i], mine[filters[i].column],
                                    ptypes[filters[i].column]) : i \in built}
    BY DEF Image
  <2>3. filters = <<>> <=> D = {}
    OBVIOUS
  <2> QED BY <2>1, <2>2, <2>3 DEF SqlKeeps, PolarsKeeps
<1> HIDE DEF c, v, built, D
<1>8. built \in SUBSET D
  BY DEF built
<1>9. D = {} \/ Combine(logic, Image(c, D)) = "yes" <=>
        built = {} \/ Combine(logic, Image(v, built)) = "yes"
  <2>1. \A i \in built : c[i] = "yes" <=> v[i] = "yes"
    BY <1>3
  <2>2. \A i \in D \ built : c[i] = "yes"
    BY <1>4
  <2> QED BY <2>1, <2>2, <1>5, <1>6, <1>8, LeavingOut
<1> QED BY <1>7, <1>9

LEMMA MongoKeepsWhatPolarsKeeps ==
    ASSUME NEW names, NEW filters \in Seq(FilterCondition(names)), NEW logic, NEW row, NEW types,
           NEW mine, NEW columns, NEW ptypes,
           \A i \in DOMAIN filters :
                /\ filters[i].column \in columns
                /\ mine[filters[i].column] = row[filters[i].column]
                /\ Fits("mongodb", filters[i], row[filters[i].column], types[filters[i].column],
                        ptypes[filters[i].column])
                /\ \A w \in Values(filters[i]) : Native(w, types[filters[i].column])
                /\ filters[i].operator \in {"neq", "not_in"} => row[filters[i].column] # Null,
           logic = "or" => \A i \in DOMAIN filters : ~EmptyNotIn(filters[i])
    PROVE  MongoKeeps(filters, logic, row, types) <=>
             PolarsKeeps(filters, logic, mine, columns, ptypes)
<1> DEFINE D     == DOMAIN filters
           built == {i \in D : ~Skipped(filters[i], columns, ptypes)}
           c     == [i \in D |-> Truth(MongoMatches(filters[i], row[filters[i].column],
                                                   types[filters[i].column]))]
           v     == [i \in D |-> PolarsVerdict(filters[i], mine[filters[i].column],
                                              ptypes[filters[i].column])]
<1>1. \A i \in D : filters[i] \in FilterCondition(names)
  OBVIOUS
<1>2. \A i \in D : Skipped(filters[i], columns, ptypes) <=> EmptyNotIn(filters[i])
  BY <1>1, SkippedIsEmptyNotIn
<1>3. ASSUME NEW i \in built PROVE c[i] = "yes" <=> v[i] = "yes"
  <2>1. MongoMatches(filters[i], row[filters[i].column], types[filters[i].column]) <=> v[i] = "yes"
    BY <1>1, <1>2, MongoAgrees
  <2> QED BY <2>1 DEF Truth
<1>4. ASSUME NEW i \in D \ built PROVE c[i] = "yes"
  <2>1. EmptyNotIn(filters[i])
    BY <1>2
  <2> QED BY <2>1 DEF EmptyNotIn, MongoMatches, Truth
<1>5. \A i \in D : c[i] \in Verdicts /\ v[i] \in Verdicts
  BY VerdictsOnly DEF Truth, Verdicts
<1>6. logic = "or" => built = D
  BY <1>2
<1>7. /\ MongoKeeps(filters, logic, row, types) <=>
            D = {} \/ Combine(logic, Image(c, D)) = "yes"
      /\ PolarsKeeps(filters, logic, mine, columns, ptypes) <=>
            built = {} \/ Combine(logic, Image(v, built)) = "yes"
  <2>1. Image(c, D) = {Truth(MongoMatches(filters[i], row[filters[i].column],
                                    types[filters[i].column])) : i \in DOMAIN filters}
    BY DEF Image
  <2>2. Image(v, built) = {PolarsVerdict(filters[i], mine[filters[i].column],
                                    ptypes[filters[i].column]) : i \in built}
    BY DEF Image
  <2>3. filters = <<>> <=> D = {}
    OBVIOUS
  <2> QED BY <2>1, <2>2, <2>3 DEF MongoKeeps, PolarsKeeps
<1> HIDE DEF c, v, built, D
<1>8. built \in SUBSET D
  BY DEF built
<1>9. D = {} \/ Combine(logic, Image(c, D)) = "yes" <=>
        built = {} \/ Combine(logic, Image(v, built)) = "yes"
  <2>1. \A i \in built : c[i] = "yes" <=> v[i] = "yes"
    BY <1>3
  <2>2. \A i \in D \ built : c[i] = "yes"
    BY <1>4
  <2> QED BY <2>1, <2>2, <1>5, <1>6, <1>8, LeavingOut
<1> QED BY <1>7, <1>9

-----------------------------------------------------------------------------
(* Kept: the rows at some positions.                                           *)

Rank(K, i)  == Cardinality({j \in K : j <= i})
Place(K, m) == CHOOSE i \in K : Rank(K, i) = m

LEMMA KeptIs ==
    ASSUME NEW rows, NEW K
    PROVE  Kept(rows, K) = [m \in 1..Cardinality(K) |-> rows[Place(K, m)]]
  BY DEF Kept, Place, Rank

\* Every number up to the size of K is the rank of one of its elements.
LEMMA EveryRankOccurs ==
    ASSUME NEW n \in Nat, NEW K \in SUBSET (1..n)
    PROVE  /\ IsFiniteSet(K) /\ Cardinality(K) \in Nat /\ Cardinality(K) <= n
           /\ \A m \in 1..Cardinality(K) : \E i \in K : Rank(K, i) = m
<1> DEFINE Part(k) == {j \in K : j <= k}
           Bad == {k \in 0..n : \E m \in 1..Cardinality(Part(k)) : \A i \in Part(k) : Rank(K, i) # m}
<1>0. \A j \in K : j \in Nat /\ 1 <= j /\ j <= n
  OBVIOUS
<1>1. IsFiniteSet(1..n) /\ Cardinality(1..n) = n
  BY FS_Interval
<1>2. IsFiniteSet(K) /\ Cardinality(K) \in Nat /\ Cardinality(K) <= n
  BY <1>1, FS_Subset, FS_CardinalityType
<1>3. ASSUME NEW k PROVE IsFiniteSet(Part(k)) /\ Cardinality(Part(k)) \in Nat
  <2>1. Part(k) \in SUBSET K
    OBVIOUS
  <2> HIDE DEF Part
  <2> QED BY <1>2, <2>1, FS_Subset, FS_CardinalityType
<1>4. Bad = {}
  <2> SUFFICES ASSUME Bad # {} PROVE FALSE
    OBVIOUS
  <2>1. Bad \in SUBSET Nat
    OBVIOUS
  <2>2. PICK k \in Bad : \A j \in Bad : ~(<<j, k>> \in OpToRel(<, Nat))
    <3> HIDE DEF Bad
    <3> QED BY <2>1, NatLessThanWellFounded, WFMin
  <2>3. k \in 0..n /\ \E m \in 1..Cardinality(Part(k)) : \A i \in Part(k) : Rank(K, i) # m
    BY <2>2
  <2>4. PICK m \in 1..Cardinality(Part(k)) : \A i \in Part(k) : Rank(K, i) # m
    BY <2>3
  <2>5. k # 0
    <3>0. \A j \in K : ~(j <= 0)
      BY <1>0
    <3>1. Part(0) = {}
      BY <3>0, Zenon
    <3> QED BY <2>4, <3>1, FS_EmptySet
  <2>6. k - 1 \in 0..n /\ k - 1 \notin Bad
    <3>1. k - 1 \in 0..n
      BY <2>3, <2>5
    <3>2. <<k - 1, k>> \in OpToRel(<, Nat)
      BY <2>3, <3>1 DEF OpToRel
    <3> QED BY <2>2, <3>1, <3>2
  <2>7. \A r \in 1..Cardinality(Part(k - 1)) : \E i \in Part(k - 1) : Rank(K, i) = r
    BY <2>6
  <2> k \in Nat /\ n \in Nat
    BY <2>3
  <2>8. \A j \in K : j <= k <=> (j <= k - 1 \/ j = k)
    BY <1>0
  <2>9. CASE k \in K
    <3>1. Part(k) = Part(k - 1) \cup {k} /\ k \notin Part(k - 1)
      <4>1. k <= k /\ ~(k <= k - 1)
        OBVIOUS
      <4> QED BY <2>8, <2>9, <4>1, Zenon
    <3>2. Cardinality(Part(k)) = Cardinality(Part(k - 1)) + 1
      <4> HIDE DEF Part
      <4> QED BY <1>3, <3>1, FS_AddElement
    <3>3. Rank(K, k) = Cardinality(Part(k)) /\ k \in Part(k)
      BY <2>3, <2>9 DEF Rank
    <3> HIDE DEF Part
    <3>4. m \in 1..Cardinality(Part(k - 1)) \/ m = Cardinality(Part(k))
      BY <1>3, <2>4, <3>2
    <3> QED BY <2>4, <2>7, <3>1, <3>3, <3>4
  <2>10. CASE k \notin K
    <3>1. Part(k) = Part(k - 1)
      BY <2>8, <2>10
    <3> QED BY <2>4, <2>7, <3>1
  <2> QED BY <2>9, <2>10
<1>5. Part(n) = K
  BY <1>0
<1>6. n \in 0..n
  OBVIOUS
<1> QED BY <1>2, <1>4, <1>5, <1>6

LEMMA PlacesAreKept ==
    ASSUME NEW n \in Nat, NEW K \in SUBSET (1..n)
    PROVE  /\ Cardinality(K) \in Nat /\ Cardinality(K) <= n
           /\ \A m \in 1..Cardinality(K) : Place(K, m) \in K /\ Rank(K, Place(K, m)) = m
  BY EveryRankOccurs DEF Place

\* Nothing is lost when every position is kept.
LEMMA KeptAll ==
    ASSUME NEW S, NEW rows \in Seq(S)
    PROVE  Kept(rows, DOMAIN rows) = rows
<1> DEFINE n == Len(rows)
<1>1. n \in Nat /\ DOMAIN rows = 1..n /\ rows = [m \in 1..n |-> rows[m]]
  OBVIOUS
<1>2. Cardinality(1..n) = n
  BY <1>1, FS_Interval
<1>3. ASSUME NEW m \in 1..n PROVE Place(1..n, m) = m
  <2>1. Place(1..n, m) \in 1..n /\ Rank(1..n, Place(1..n, m)) = m
    BY <1>1, <1>2, PlacesAreKept
  <2>2. ASSUME NEW i \in 1..n PROVE Rank(1..n, i) = i
    <3>1. {j \in 1..n : j <= i} = 1..i
      BY <1>1
    <3>2. Cardinality(1..i) = i
      BY <1>1, FS_Interval
    <3> QED BY <3>1, <3>2 DEF Rank
  <2> QED BY <2>1, <2>2
<1> HIDE DEF n
<1>4. Kept(rows, 1..n) = [m \in 1..n |-> rows[m]]
  BY <1>2, <1>3, KeptIs
<1> QED BY <1>1, <1>4

\* Positions are kept without looking at the rows.
LEMMA KeptOf ==
    ASSUME NEW rows, NEW n \in Nat, DOMAIN rows = 1..n, NEW K \in SUBSET (1..n)
    PROVE  /\ DOMAIN Kept(rows, K) = 1..Cardinality(K) /\ Cardinality(K) \in Nat
           /\ Cardinality(K) <= n
           /\ \A m \in 1..Cardinality(K) : Kept(rows, K)[m] = rows[Place(K, m)] /\ Place(K, m) \in K
  BY PlacesAreKept, KeptIs

-----------------------------------------------------------------------------
(* Reading one source.                                                         *)

LEMMA TableRows ==
    ASSUME NEW table, IsTable(table)
    PROVE  /\ Len(table.rows) \in Nat /\ DOMAIN table.rows = 1..Len(table.rows)
           /\ \A i \in DOMAIN table.rows : \A c \in table.columns : table.rows[i][c] \in CellValues
           /\ \A i \in DOMAIN table.rows : DOMAIN table.rows[i] = table.columns
           /\ \A c \in table.columns : table.types[c] \in Types
  BY DEF IsTable

LEMMA NoPositions ==
    ASSUME NEW S, NEW s \in Seq(S)
    PROVE  s = <<>> <=> DOMAIN s = {}
  OBVIOUS

LEMMA FramesDiffer ==
    /\ NoFrame # Failure
    /\ NoFrame.columns = {} /\ NoFrame.rows = <<>>
    /\ Failure.columns = {Null} /\ Failure.rows = <<>>
    /\ NoFrame = [columns |-> NoFrame.columns, types |-> NoFrame.types, rows |-> NoFrame.rows]
    /\ Failure = [columns |-> Failure.columns, types |-> Failure.types, rows |-> Failure.rows]
  BY DEF NoFrame, Failure

\* The columns that a frame of some rows has, and their types.
Present(rows, columns, sparse) == {c \in columns : c \in sparse => HasValue(rows, c)}

FrameTypes(rows, columns, types) ==
    [c \in columns |-> IF HasValue(rows, c) THEN types[c] ELSE "null"]

\* Every column that has a value has one in the first rows.
NoneLate(rows, columns) == \A c \in columns : HasValue(rows, c) => IsInferred(rows, c)

LEMMA FrameOfIs ==
    ASSUME NEW columns, NEW types, NEW rows, NEW sparse, rows # <<>>, NoneLate(rows, columns),
           Present(rows, columns, sparse) # {}
    PROVE  LET mine == Present(rows, columns, sparse)
           IN  FrameOf([columns |-> columns, types |-> types, rows |-> rows], sparse)
                 = [columns |-> mine, types |-> FrameTypes(rows, mine, types),
                    rows |-> [i \in DOMAIN rows |-> Restricted(rows[i], mine)]]
<1> DEFINE g    == [columns |-> columns, types |-> types, rows |-> rows]
           mine == Present(rows, columns, sparse)
           found == {c \in g.columns : c \in sparse => IsInferred(g.rows, c)}
<1>1. g.columns = columns /\ g.types = types /\ g.rows = rows
  OBVIOUS
<1>2. \A c \in columns : HasValue(rows, c) <=> IsInferred(rows, c)
  BY DEF NoneLate, HasValue, IsInferred
<1>3. found = mine
  BY <1>1, <1>2 DEF Present
<1>4. \A c \in mine : ~(HasValue(rows, c) /\ ~IsInferred(rows, c))
  BY <1>2 DEF Present
<1> HIDE DEF g, mine
<1>5. FrameOf(g, sparse) =
        [columns |-> mine,
         types |-> [c \in mine |-> IF HasValue(rows, c) THEN types[c] ELSE "null"],
         rows |-> [i \in DOMAIN rows |-> Restricted(rows[i], mine)]]
  <2>1. mine # {}
    BY DEF mine
  <2> QED BY <1>1, <1>3, <1>4, <2>1 DEF FrameOf
<1> QED BY <1>5 DEF g, mine, FrameTypes

\* The frame of a table of which some columns, delivered with some types, and the
\* rows at some positions were read.
RowsAt(table, K, columns) ==
    [m \in 1..Cardinality(K) |-> Restricted(table.rows[Place(K, m)], columns)]

Read1(table, K, columns, types, sparse) ==
    FrameOf([columns |-> columns, types |-> types, rows |-> RowsAt(table, K, columns)], sparse)

\* What keeps a frame of some of the rows from being refused.
Settled(table, columns, sparse) ==
    /\ columns \subseteq table.columns
    /\ ~ columns \subseteq sparse
    /\ \/ Len(table.rows) <= InferLength
       \/ \A c \in columns : \A i \in DOMAIN table.rows : table.rows[i][c] # Null

IsReadOf(f, table, K, columns, types, sparse) ==
    LET rows == RowsAt(table, K, columns)
        mine == Present(rows, columns, sparse)
    IN  /\ DOMAIN rows = 1..Cardinality(K)
        /\ \A m \in DOMAIN rows : Place(K, m) \in K
        /\ K = {} => f = NoFrame
        /\ K # {} => /\ rows # <<>>
                     /\ f = [columns |-> mine, types |-> FrameTypes(rows, mine, types),
                             rows |-> [m \in DOMAIN rows |->
                                        Restricted(table.rows[Place(K, m)], mine)]]

LEMMA FrameOfRead ==
    ASSUME NEW table, IsTable(table), NEW K \in SUBSET DOMAIN table.rows,
           NEW columns, NEW types, NEW sparse, Settled(table, columns, sparse)
    PROVE  IsReadOf(Read1(table, K, columns, types, sparse), table, K, columns, types, sparse)
<1> DEFINE rows == RowsAt(table, K, columns)
           mine == Present(rows, columns, sparse)
           n    == Len(table.rows)
<1>1. n \in Nat /\ DOMAIN table.rows = 1..n /\ columns \subseteq table.columns
  BY TableRows DEF Settled
<1>2. /\ Cardinality(K) \in Nat /\ Cardinality(K) <= n
      /\ \A m \in 1..Cardinality(K) : Place(K, m) \in K
  BY <1>1, PlacesAreKept
<1>3. DOMAIN rows = 1..Cardinality(K)
  BY DEF RowsAt
<1>4. ASSUME K = {} PROVE Read1(table, K, columns, types, sparse) = NoFrame
  <2>1. rows = <<>>
    BY <1>3, <1>4, FS_EmptySet DEF RowsAt
  <2> QED BY <2>1 DEF Read1, FrameOf
<1>5. ASSUME K # {}
      PROVE  /\ rows # <<>>
             /\ Read1(table, K, columns, types, sparse) =
                    [columns |-> mine, types |-> FrameTypes(rows, mine, types),
                     rows |-> [m \in DOMAIN rows |-> Restricted(table.rows[Place(K, m)], mine)]]
  <2>1. Cardinality(K) # 0
    <3>1. IsFiniteSet(K)
      BY <1>1, EveryRankOccurs
    <3> QED BY <1>5, <3>1, FS_EmptySet
  <2>2. rows # <<>> /\ 1 \in DOMAIN rows
    BY <1>2, <1>3, <2>1
  <2>3. \A m \in DOMAIN rows : \A c \in columns : rows[m][c] = table.rows[Place(K, m)][c]
    BY DEF RowsAt, Restricted
  <2>4. NoneLate(rows, columns)
    <3>1. CASE n <= InferLength
      <4>1. \A m \in DOMAIN rows : m <= InferLength
        BY <1>1, <1>2, <1>3, <3>1, LimitsAssumption
      <4> QED BY <4>1 DEF NoneLate, HasValue, IsInferred
    <3>2. CASE \A c \in columns : \A i \in DOMAIN table.rows : table.rows[i][c] # Null
      <4>1. \A c \in columns : rows[1][c] # Null
        BY <1>2, <1>3, <2>2, <2>3, <3>2
      <4>2. 1 <= InferLength
        BY LimitsAssumption
      <4> QED BY <2>2, <4>1, <4>2 DEF NoneLate, IsInferred
    <3> QED BY <3>1, <3>2 DEF Settled
  <2>5. mine # {} /\ mine \subseteq columns
    BY DEF Present, Settled
  <2>6. [m \in DOMAIN rows |-> Restricted(rows[m], mine)]
          = [m \in DOMAIN rows |-> Restricted(table.rows[Place(K, m)], mine)]
    <3>1. ASSUME NEW m \in DOMAIN rows
          PROVE  Restricted(rows[m], mine) = Restricted(table.rows[Place(K, m)], mine)
      BY <2>3, <2>5 DEF Restricted
    <3> QED BY <3>1
  <2> HIDE DEF rows, mine
  <2>7. FrameOf([columns |-> columns, types |-> types, rows |-> rows], sparse) =
          [columns |-> mine, types |-> FrameTypes(rows, mine, types),
           rows |-> [m \in DOMAIN rows |-> Restricted(rows[m], mine)]]
    BY <2>2, <2>4, <2>5, FrameOfIs DEF mine
  <2> QED BY <2>2, <2>6, <2>7 DEF Read1, rows
<1> HIDE DEF rows, mine
<1>6. K = {} => Read1(table, K, columns, types, sparse) = NoFrame
  BY <1>4
<1> QED BY <1>2, <1>3, <1>5, <1>6 DEF IsReadOf, rows, mine

\* The frame of the whole table.
LEMMA FrameOfAll ==
    ASSUME NEW table, IsTable(table), table.rows # <<>>,
           NEW columns, NEW types, NEW sparse, Settled(table, columns, sparse)
    PROVE  LET mine == Present(table.rows, columns, sparse)
           IN  Read1(table, DOMAIN table.rows, columns, types, sparse) =
                 [columns |-> mine, types |-> FrameTypes(table.rows, mine, types),
                  rows |-> [i \in DOMAIN table.rows |-> Restricted(table.rows[i], mine)]]
<1> DEFINE K    == DOMAIN table.rows
           rows == RowsAt(table, K, columns)
           mine == Present(rows, columns, sparse)
           n    == Len(table.rows)
<1>1. /\ n \in Nat /\ K = 1..n /\ K # {} /\ Cardinality(1..n) = n
      /\ Kept(table.rows, K) = table.rows
  <2>1. n \in Nat /\ K = 1..n
    BY TableRows
  <2>2. K # {}
    <3>1. table.rows \in Seq([table.columns -> CellValues])
      BY DEF IsTable
    <3> QED BY <3>1, NoPositions
  <2>3. Kept(table.rows, K) = table.rows
    BY KeptAll DEF IsTable
  <2> HIDE DEF n, K
  <2> QED BY <2>1, <2>2, <2>3, FS_Interval
<1>2. Kept(table.rows, K) = [m \in 1..Cardinality(K) |-> table.rows[Place(K, m)]]
  BY KeptIs
<1>3. \A m \in K : table.rows[Place(K, m)] = table.rows[m]
  <2> HIDE DEF n
  <2> QED BY <1>1, <1>2
<1>4. /\ DOMAIN rows = K
      /\ Read1(table, K, columns, types, sparse) =
                    [columns |-> mine, types |-> FrameTypes(rows, mine, types),
                     rows |-> [m \in DOMAIN rows |-> Restricted(table.rows[Place(K, m)], mine)]]
  <2> HIDE DEF n
  <2>1. IsTable(table) /\ K \in SUBSET DOMAIN table.rows /\ Settled(table, columns, sparse)
    OBVIOUS
  <2>2. DOMAIN rows = 1..Cardinality(K)
    BY DEF RowsAt
  <2>3. IsReadOf(Read1(table, K, columns, types, sparse), table, K, columns, types, sparse)
    BY <2>1, FrameOfRead
  <2> QED BY <1>1, <2>2, <2>3 DEF IsReadOf
<1>5. \A c \in columns : HasValue(rows, c) <=> HasValue(table.rows, c)
  <2>1. \A m \in K : \A c \in columns : rows[m][c] = table.rows[m][c]
    <3> HIDE DEF n
    <3> QED BY <1>1, <1>3 DEF RowsAt, Restricted
  <2> QED BY <1>4, <2>1 DEF HasValue
<1>6. mine = Present(table.rows, columns, sparse) /\ mine \subseteq columns
  BY <1>5 DEF Present
<1>7. FrameTypes(rows, mine, types) = FrameTypes(table.rows, mine, types)
  BY <1>5, <1>6 DEF FrameTypes
<1>8. [m \in DOMAIN rows |-> Restricted(table.rows[Place(K, m)], mine)]
        = [m \in DOMAIN table.rows |-> Restricted(table.rows[m], mine)]
  <2> HIDE DEF rows, mine
  <2> QED BY <1>3, <1>4
<1> HIDE DEF rows, mine
<1> QED BY <1>4, <1>6, <1>7, <1>8

\* Filters on a frame keep the rows at the positions they say yes to.
LEMMA ApplyFilters ==
    ASSUME NEW columns, NEW types, NEW rows, NEW filters, NEW logic, NEW K,
           \A i \in DOMAIN filters : ~Skipped(filters[i], columns, types) =>
                ~Raises(filters[i], types[filters[i].column]),
           K = {i \in DOMAIN rows : PolarsKeeps(filters, logic, rows[i], columns, types)}
    PROVE  apply_filters([columns |-> columns, types |-> types, rows |-> rows], filters, logic)
             = [columns |-> columns, types |-> types, rows |-> Kept(rows, K)]
<1> DEFINE g == [columns |-> columns, types |-> types, rows |-> rows]
<1>1. g.columns = columns /\ g.types = types /\ g.rows = rows
  OBVIOUS
<1>2. \A r : [g EXCEPT !.rows = r] = [columns |-> columns, types |-> types, rows |-> r]
  OBVIOUS
<1> HIDE DEF g
<1>3. apply_filters(g, filters, logic) = [g EXCEPT !.rows = Kept(rows, K)]
  BY <1>1 DEF apply_filters
<1> QED BY <1>2, <1>3 DEF g

\* What the two engines have read is the same, but that the query engine may lack
\* columns that only rows it filtered out have a value in, or their types.
ReadAlike(run, process) ==
    /\ run = Failure <=> process = Failure
    /\ run # Failure =>
        /\ DOMAIN process.rows = DOMAIN run.rows
        /\ run.rows # <<>> =>
            /\ run.columns \subseteq process.columns
            /\ run.types = [c \in run.columns |-> run.types[c]]
            /\ process.types = [c \in process.columns |-> process.types[c]]
            /\ \A c \in run.columns : run.types[c] \in {"null", process.types[c]}
            /\ \A m \in DOMAIN run.rows : run.rows[m] = Restricted(process.rows[m], run.columns)
            /\ run.columns = process.columns => run.rows = process.rows

\* On the frame of the whole table, the filters keep the rows of K.
Select(K, table, columns, types, sparse, filters, logic) ==
    LET mine == Present(table.rows, columns, sparse)
        p    == FrameTypes(table.rows, mine, types)
    IN  table.rows # <<>> =>
        /\ \A i \in DOMAIN filters : ~Raises(filters[i], p[filters[i].column])
        /\ \A i \in DOMAIN table.rows :
                i \in K <=> PolarsKeeps(filters, logic, Restricted(table.rows[i], mine), mine, p)

LEMMA FilteredRead ==
    ASSUME NEW table, IsTable(table), NEW K \in SUBSET DOMAIN table.rows,
           NEW columns, NEW types, NEW sparse, Settled(table, columns, sparse),
           NEW filters, NEW logic,
           Select(K, table, columns, types, sparse, filters, logic)
    PROVE  LET run   == Read1(table, K, columns, types, sparse)
               whole == Read1(table, DOMAIN table.rows, columns, types, sparse)
           IN  /\ whole # Failure
               /\ ReadAlike(run, apply_filters(whole, filters, logic))
<1> DEFINE run     == Read1(table, K, columns, types, sparse)
           whole   == Read1(table, DOMAIN table.rows, columns, types, sparse)
           process == apply_filters(whole, filters, logic)
           n       == Len(table.rows)
           kept    == RowsAt(table, K, columns)
           few     == Present(kept, columns, sparse)
           mine    == Present(table.rows, columns, sparse)
           t       == FrameTypes(table.rows, mine, types)
<1>1. n \in Nat /\ DOMAIN table.rows = 1..n /\ columns \subseteq table.columns /\ Null \notin columns
  BY TableRows DEF IsTable, Settled
<1>2. /\ DOMAIN kept = 1..Cardinality(K) /\ \A m \in DOMAIN kept : Place(K, m) \in K
      /\ K = {} => run = NoFrame
      /\ K # {} => /\ kept # <<>>
                   /\ run = [columns |-> few, types |-> FrameTypes(kept, few, types),
                             rows |-> [m \in DOMAIN kept |-> Restricted(table.rows[Place(K, m)], few)]]
  <2>1. IsReadOf(run, table, K, columns, types, sparse)
    BY FrameOfRead
  <2> HIDE DEF run
  <2> QED BY <2>1 DEF IsReadOf
<1>3. CASE table.rows = <<>>
  <2>1. DOMAIN table.rows = {} /\ K = {} /\ Cardinality({}) = 0
    BY <1>3, FS_EmptySet
  <2>2. run = NoFrame /\ whole = NoFrame
    BY <1>2, <2>1
  <2>4. \A i \in DOMAIN filters : Skipped(filters[i], NoFrame.columns, NoFrame.types)
    BY FramesDiffer DEF Skipped
  <2>5. {} = {i \in DOMAIN NoFrame.rows :
                PolarsKeeps(filters, logic, NoFrame.rows[i], NoFrame.columns, NoFrame.types)}
    BY FramesDiffer
  <2>6. apply_filters([columns |-> NoFrame.columns, types |-> NoFrame.types,
                         rows |-> NoFrame.rows], filters, logic)
            = [columns |-> NoFrame.columns, types |-> NoFrame.types, rows |-> Kept(NoFrame.rows, {})]
    BY <2>4, <2>5, ApplyFilters
  <2>7. Kept(NoFrame.rows, {}) = <<>>
    BY <2>1, KeptIs
  <2>8. process = NoFrame
    BY <2>2, <2>6, <2>7, FramesDiffer
  <2> QED BY <2>2, <2>8, FramesDiffer DEF ReadAlike
<1>4. CASE table.rows # <<>>
  <2> DEFINE rows == [i \in DOMAIN table.rows |-> Restricted(table.rows[i], mine)]
  <2>1. whole = [columns |-> mine, types |-> t, rows |-> rows]
    BY <1>4, FrameOfAll
  <2>2. K = {i \in DOMAIN rows : PolarsKeeps(filters, logic, rows[i], mine, t)}
    BY <1>4 DEF Select
  <2>3. process = [columns |-> mine, types |-> t, rows |-> Kept(rows, K)]
    <3>1. \A i \in DOMAIN filters : ~Raises(filters[i], t[filters[i].column])
      BY <1>4 DEF Select
    <3> HIDE DEF rows, t, mine
    <3> QED BY <2>1, <2>2, <3>1, ApplyFilters
  <2>4. Kept(rows, K) = [m \in DOMAIN kept |-> Restricted(table.rows[Place(K, m)], mine)]
    <3>1. \A m \in 1..Cardinality(K) : Place(K, m) \in K
      BY <1>2
    <3>2. \A m \in 1..Cardinality(K) : rows[Place(K, m)] = Restricted(table.rows[Place(K, m)], mine)
      BY <3>1
    <3> HIDE DEF rows, kept, mine
    <3> QED BY <1>2, <3>2, KeptIs
  <2>5. mine \subseteq columns /\ few \subseteq columns
    BY DEF Present
  <2>6. few \subseteq mine /\ \A c \in few : HasValue(kept, c) => HasValue(table.rows, c)
    <3>1. ASSUME NEW c \in columns, HasValue(kept, c) PROVE HasValue(table.rows, c)
      <4>1. PICK m \in DOMAIN kept : kept[m][c] # Null
        BY <3>1 DEF HasValue
      <4>2. Place(K, m) \in DOMAIN table.rows /\ table.rows[Place(K, m)][c] # Null
        BY <1>2, <4>1 DEF RowsAt, Restricted
      <4> QED BY <4>2 DEF HasValue
    <3> QED BY <2>5, <3>1 DEF Present
  <2>7. whole # Failure /\ process # Failure
    <3>1. whole.columns = mine /\ process.columns = mine
      BY <2>1, <2>3
    <3> QED BY <1>1, <2>5, <3>1, FramesDiffer
  <2>8. CASE K = {}
    <3>1. DOMAIN process.rows = 1..0 /\ run = NoFrame
      BY <1>2, <2>3, <2>4, <2>8, FS_EmptySet
    <3> QED BY <2>7, <3>1, FramesDiffer DEF ReadAlike
  <2>9. CASE K # {}
    <3>1. /\ run.columns = few /\ run.types = FrameTypes(kept, few, types)
          /\ run.rows = [m \in DOMAIN kept |-> Restricted(table.rows[Place(K, m)], few)]
          /\ process.columns = mine /\ process.types = t
          /\ process.rows = [m \in DOMAIN kept |-> Restricted(table.rows[Place(K, m)], mine)]
      <4>1. run = [columns |-> few, types |-> FrameTypes(kept, few, types),
                   rows |-> [m \in DOMAIN kept |-> Restricted(table.rows[Place(K, m)], few)]]
        BY <1>2, <2>9
      <4>2. process = [columns |-> mine, types |-> t,
                       rows |-> [m \in DOMAIN kept |-> Restricted(table.rows[Place(K, m)], mine)]]
        BY <2>3, <2>4, Zenon
      <4> HIDE DEF run, process, kept, few, mine, t, rows
      <4> QED BY <4>1, <4>2
    <3>2. run # Failure
      BY <1>1, <2>5, <3>1, FramesDiffer
    <3>3. \A c \in few : run.types[c] \in {"null", process.types[c]}
      BY <2>6, <3>1 DEF FrameTypes
    <3>4. /\ run.types = [c \in few |-> run.types[c]]
          /\ process.types = [c \in mine |-> process.types[c]]
      BY <3>1 DEF FrameTypes
    <3>5. \A m \in DOMAIN kept : run.rows[m] = Restricted(process.rows[m], few)
      <4> HIDE DEF run, process, kept, few, mine
      <4> QED BY <2>6, <3>1 DEF Restricted
    <3>6. few = mine => run.rows = process.rows
      BY <3>1
    <3>7. DOMAIN run.rows = DOMAIN kept /\ DOMAIN process.rows = DOMAIN kept
      BY <3>1
    <3> HIDE DEF run, process, kept, few, mine, t
    <3>8. /\ run # Failure /\ process # Failure /\ DOMAIN process.rows = DOMAIN run.rows
          /\ run.columns \subseteq process.columns
          /\ run.types = [c \in run.columns |-> run.types[c]]
          /\ process.types = [c \in process.columns |-> process.types[c]]
          /\ \A c \in run.columns : run.types[c] \in {"null", process.types[c]}
          /\ run.columns = process.columns => run.rows = process.rows
      BY <2>6, <2>7, <3>1, <3>2, <3>3, <3>4, <3>6, <3>7
    <3>9. \A m \in DOMAIN run.rows : run.rows[m] = Restricted(process.rows[m], run.columns)
      BY <3>1, <3>5, <3>7
    <3>10. ReadAlike(run, process)
      BY <3>8, <3>9 DEF ReadAlike
    <3> QED BY <2>7, <3>10 DEF run, process
  <2> QED BY <2>7, <2>8, <2>9
<1> QED BY <1>3, <1>4

-----------------------------------------------------------------------------
(* The connectors.                                                             *)

\* What Portable says of one filter.
PortableIn(type, table, q, names, f) ==
    LET t == table.types[f.column]
        d == Delivered(type, t)
    IN  /\ f \in FilterCondition(names)
        /\ f.column \in Selected(q, table) \cap table.columns
        /\ f.operator \in Lists => d # "boolean"
        /\ ~Raises(f, d)
        /\ q.logic = "or" => ~EmptyNotIn(f)
        /\ type = "mysql" /\ t = "text" => ~HasCapitals(table, f)
        /\ type = "mongodb" => \A v \in Values(f) : Native(v, t)
        /\ type = "mongodb" /\ f.operator \in {"neq", "not_in"} =>
                \A j \in DOMAIN table.rows : table.rows[j][f.column] # Null
        /\ type = "mongodb" /\ f.column \in table.sparse =>
                table.rows = <<>> \/ HasValue(table.rows, f.column)
        /\ type \notin {"file", "rest_api"}

LEMMA PortableFilter ==
    ASSUME NEW type, NEW table, IsTable(table), NEW names, NEW q \in QuerySourceConfig(names),
           Portable(type, table, q), NEW i \in DOMAIN q.filters
    PROVE  PortableIn(type, table, q, names, q.filters[i])
<1> DEFINE f == q.filters[i]
           t == table.types[f.column]
<1>1. f \in FilterCondition(names) /\ i \in DOMAIN q.filters
  BY DEF QuerySourceConfig
<1>2. f.column \in Named(q) /\ Named(q) \subseteq Selected(q, table) \cap table.columns
  BY DEF Portable, Named
<1>3. f \in {q.filters[j] : j \in DOMAIN q.filters}
  OBVIOUS
<1>4. /\ f.operator \in Lists => Delivered(type, t) # "boolean"
      /\ ~Raises(f, Delivered(type, t))
  BY <1>3 DEF Portable
<1>5. q.logic = "or" => ~EmptyNotIn(f)
  BY <1>3 DEF Portable, EmptyNotIn
<1>6. type = "mysql" /\ t = "text" => ~HasCapitals(table, f)
  BY <1>3 DEF Portable, Delivered
<1>7. type = "mongodb" => \A v \in Values(f) : Native(v, t)
  BY <1>3 DEF Portable
<1>8. type = "mongodb" /\ f.operator \in {"neq", "not_in"} =>
        \A j \in DOMAIN table.rows : table.rows[j][f.column] # Null
  <2>1. f.operator \in {"neq", "not_in"} => f.column \in FilterColumns(q, {"neq", "not_in"})
    BY DEF FilterColumns
  <2> QED BY <2>1 DEF Portable
<1>9. type = "mongodb" /\ f.column \in table.sparse =>
        table.rows = <<>> \/ HasValue(table.rows, f.column)
  BY <1>2 DEF Portable
<1>10. type \notin {"file", "rest_api"}
  <2>1. q.filters # <<>>
    BY <1>1
  <2> QED BY <2>1 DEF Portable
<1> QED BY <1>1, <1>2, <1>4, <1>5, <1>6, <1>7, <1>8, <1>9, <1>10 DEF PortableIn

\* Such a filter raises on no frame of the table, and fits.
LEMMA PortableFits ==
    ASSUME NEW type, NEW table, IsTable(table), NEW names, NEW q \in QuerySourceConfig(names),
           Portable(type, table, q), NEW i \in DOMAIN q.filters, table.rows # <<>>,
           NEW columns, Selected(q, table) \cap table.columns \subseteq columns,
           NEW sparse, sparse = IF type = "mongodb" THEN table.sparse ELSE {},
           NEW types, \A c \in columns : types[c] = Delivered(type, table.types[c])
    PROVE  LET f    == q.filters[i]
               mine == Present(table.rows, columns, sparse)
               p    == FrameTypes(table.rows, mine, types)
           IN  /\ f.column \in mine
               /\ ~Raises(f, p[f.column])
               /\ \A j \in DOMAIN table.rows :
                     Fits(type, f, table.rows[j][f.column], table.types[f.column], p[f.column])
<1> DEFINE f    == q.filters[i]
           t    == table.types[f.column]
           mine == Present(table.rows, columns, sparse)
           p    == FrameTypes(table.rows, mine, types)
<1>1. /\ f \in FilterCondition(names) /\ f.column \in columns /\ f.column \in table.columns
      /\ f.operator \in Lists => Delivered(type, t) # "boolean"
      /\ ~Raises(f, Delivered(type, t))
      /\ type = "mysql" /\ t = "text" => ~HasCapitals(table, f)
      /\ f.column \in sparse => HasValue(table.rows, f.column)
  <2>1. PortableIn(type, table, q, names, f)
    BY PortableFilter
  <2> HIDE DEF f
  <2>2. f.column \in columns /\ f.column \in table.columns
    BY <2>1 DEF PortableIn
  <2>3. f.column \in sparse => HasValue(table.rows, f.column)
    BY <2>1 DEF PortableIn
  <2> QED BY <2>1, <2>2, <2>3 DEF PortableIn
<1>2. t \in Types /\ \A j \in DOMAIN table.rows : table.rows[j][f.column] \in CellValues
  BY <1>1, TableRows
<1>3. f.column \in mine
  BY <1>1 DEF Present
<1>4. p[f.column] = IF HasValue(table.rows, f.column) THEN Delivered(type, t) ELSE "null"
  BY <1>1, <1>3 DEF FrameTypes
<1> HIDE DEF p, t, mine
<1>5. ASSUME NEW j \in DOMAIN table.rows
      PROVE  Fits(type, f, table.rows[j][f.column], t, p[f.column])
  <2>1. p[f.column] = Delivered(type, t) \/ (p[f.column] = "null" /\ table.rows[j][f.column] = Null)
    BY <1>4 DEF HasValue
  <2>2. type = "mysql" /\ t = "text" =>
            /\ table.rows[j][f.column] \notin 110..119
            /\ \A v \in Values(f) : v.form = "text" => v.of \notin 110..119
    BY <1>1 DEF HasCapitals
  <2> QED BY <1>1, <1>2, <2>1, <2>2 DEF Fits
<1>6. ~Raises(f, p[f.column])
  <2>1. ~Raises(f, "null")
    BY DEF Raises, Comparable
  <2> QED BY <1>1, <1>4, <2>1
<1> QED BY <1>3, <1>5, <1>6 DEF p, t, mine

\* A request with filters is read in frames that settle their types.
LEMMA PortableSettles ==
    ASSUME NEW type, NEW table, IsSource(type, table), NEW q,
           Portable(type, table, q), q.filters # <<>>,
           NEW columns,
           columns = IF type = "mongodb" THEN (Selected(q, table) \cup {"_id"}) \cap table.columns
                     ELSE Selected(q, table),
           NEW sparse, sparse = IF type = "mongodb" THEN table.sparse ELSE {}
    PROVE  Settled(table, columns, sparse) /\ Null \notin columns
<1>1. /\ table.columns # {} /\ Null \notin table.columns
      /\ type = "mongodb" => "_id" \in table.columns \ table.sparse
  BY DEF IsSource, IsTable
<1>2. Selected(q, table) \subseteq table.columns /\ Selected(q, table) # {}
  BY <1>1 DEF Portable, Named, Selected
<1>3. columns \subseteq (Selected(q, table) \cup {"_id"}) \cap table.columns
  BY <1>2
<1>4. ~ columns \subseteq sparse
  BY <1>1, <1>2
<1>5. \/ Len(table.rows) <= InferLength
      \/ \A c \in columns : \A i \in DOMAIN table.rows : table.rows[i][c] # Null
  <2>1. IsTable(table)
    BY DEF IsSource
  <2>2. Len(table.rows) \in Nat /\ InferLength \in Nat
    BY <2>1, TableRows, LimitsAssumption
  <2>3. CASE Len(table.rows) > InferLength
    <3>1. \A c \in (Selected(q, table) \cup {"_id"}) \cap table.columns :
                ~ \E i \in DOMAIN table.rows : table.rows[i][c] = Null
      BY <2>3 DEF Portable
    <3> QED BY <1>3, <3>1
  <2> QED BY <2>2, <2>3
<1> QED BY <1>1, <1>3, <1>4, <1>5 DEF Settled

Sql == {"postgres", "mysql", "db2"}

LEMMA KeptRowsAt ==
    ASSUME NEW table, IsTable(table), NEW K \in SUBSET DOMAIN table.rows, NEW columns
    PROVE  [m \in DOMAIN Kept(table.rows, K) |-> Restricted(Kept(table.rows, K)[m], columns)]
             = RowsAt(table, K, columns)
<1>1. /\ DOMAIN Kept(table.rows, K) = 1..Cardinality(K)
      /\ \A m \in 1..Cardinality(K) : Kept(table.rows, K)[m] = table.rows[Place(K, m)]
  <2> DEFINE n == Len(table.rows)
  <2>1. n \in Nat /\ DOMAIN table.rows = 1..n /\ K \in SUBSET (1..n)
    BY TableRows
  <2> HIDE DEF n
  <2> QED BY <2>1, KeptOf
<1> QED BY <1>1 DEF RowsAt

\* The table a database reads, whatever its dialect.
LEMMA SqlReads ==
    ASSUME NEW type \in Sql, NEW table, IsTable(table), NEW q,
           Named(q) \subseteq table.columns,
           \A i \in DOMAIN q.filters : ~SqlRaises(type, q.filters[i], table.types[q.filters[i].column]),
           NEW K,
           K = {i \in DOMAIN table.rows :
                    SqlKeeps(type, q.filters, q.logic, table.rows[i], table.types)}
    PROVE  LET columns == Selected(q, table)
               types   == [c \in columns |-> Delivered(type, table.types[c])]
           IN  /\ ExecuteQuery(type, table, q) # Failure
               /\ FrameOf(ExecuteQuery(type, table, q), Sparse(type, table, q))
                    = Read1(table, K, columns, types, {})
<1> DEFINE columns == Selected(q, table)
           types   == [c \in columns |-> Delivered(type, table.types[c])]
           own     == [c \in columns |-> table.types[c]]
           rows    == RowsAt(table, K, columns)
<1>1. Null \notin columns
  <2>1. q.columns \subseteq table.columns
    BY DEF Named
  <2> QED BY <2>1 DEF Selected, IsTable
<1>2. SqlQuery(type, table, q) = [columns |-> columns, types |-> own, rows |-> rows]
  <2>1. SqlQuery(type, table, q) = Project(table, Kept(table.rows, K), columns)
    BY DEF SqlQuery
  <2>2. [m \in DOMAIN Kept(table.rows, K) |-> Restricted(Kept(table.rows, K)[m], columns)] = rows
    BY KeptRowsAt
  <2> QED BY <2>1, <2>2 DEF Project, Restricted
<1> HIDE DEF columns, rows
<1>3. ExecuteQuery(type, table, q) = [columns |-> columns, types |-> types, rows |-> rows]
  <2>1. CASE type = "mysql"
    <3> DEFINE r == SqlQuery("mysql", table, q)
    <3>1. r.types = own /\ DOMAIN r.types = columns
      BY <1>2, <2>1
    <3>2. [c \in DOMAIN r.types |-> Delivered("mysql", r.types[c])] = types
      BY <2>1, <3>1
    <3>3. \A t : [r EXCEPT !.types = t] = [columns |-> columns, types |-> t, rows |-> rows]
      BY <1>2, <2>1
    <3>4. MySqlQuery(table, q) = [columns |-> columns, types |-> types, rows |-> rows]
      BY <3>2, <3>3 DEF MySqlQuery
    <3> QED BY <2>1, <3>4 DEF ExecuteQuery
  <2>2. CASE type # "mysql"
    <3>1. types = own
      BY <2>2 DEF Delivered
    <3>2. ExecuteQuery(type, table, q) = SqlQuery(type, table, q)
      BY <2>2 DEF ExecuteQuery, Sql, PostgresQuery, Db2Query
    <3> QED BY <1>2, <3>1, <3>2
  <2> QED BY <2>1, <2>2
<1> HIDE DEF types
<1>4. ExecuteQuery(type, table, q) # Failure
  BY <1>1, <1>3, FramesDiffer
<1>5. Sparse(type, table, q) = {}
  BY DEF Sparse, Sql
<1> QED BY <1>3, <1>4, <1>5 DEF Read1, columns, types, rows

\* The query with its filters left out, as the process engine sends it.
LEMMA Unfiltered ==
    ASSUME NEW names, NEW q \in QuerySourceConfig(names), NEW table
    PROVE  LET u == [q EXCEPT !.filters = <<>>]
           IN  /\ u.columns = q.columns /\ u.filters = <<>> /\ u.logic = q.logic
               /\ Selected(u, table) = Selected(q, table)
               /\ Named(u) = q.columns
               /\ Named(u) \subseteq Named(q)
               /\ q.filters = <<>> => u = q
  BY DEF QuerySourceConfig, Selected, Named

\* The table MongoDB reads, within its limit.
LEMMA MongoReads ==
    ASSUME NEW table, IsTable(table), NEW q, Named(q) \subseteq table.columns,
           Len(table.rows) <= ToListLimit, NEW K,
           K = {i \in DOMAIN table.rows :
                    MongoKeeps(q.filters, q.logic, table.rows[i], table.types)}
    PROVE  LET columns == (Selected(q, table) \cup {"_id"}) \cap table.columns
               types   == [c \in columns |-> table.types[c]]
           IN  /\ ExecuteQuery("mongodb", table, q) # Failure
               /\ FrameOf(ExecuteQuery("mongodb", table, q), Sparse("mongodb", table, q))
                    = Read1(table, K, columns, types, table.sparse)
<1> DEFINE columns == (Selected(q, table) \cup {"_id"}) \cap table.columns
           types   == [c \in columns |-> table.types[c]]
           all     == table.columns \cup Named(q)
           Value(r) == [c \in all |-> IF c \in table.columns THEN r[c] ELSE Null]
           own     == [c \in all |-> IF c \in table.columns THEN table.types[c] ELSE "text"]
           found   == Kept(table.rows, {i \in DOMAIN table.rows :
                            MongoKeeps(q.filters, q.logic, Value(table.rows[i]), own)})
           rows    == RowsAt(table, K, columns)
           n       == Len(table.rows)
<1>1. n \in Nat /\ DOMAIN table.rows = 1..n /\ K \in SUBSET (1..n)
  BY TableRows
<1>2. all = table.columns
  OBVIOUS
<1>3. own = table.types
  BY <1>2 DEF IsTable
<1>4. ASSUME NEW i \in DOMAIN table.rows PROVE Value(table.rows[i]) = table.rows[i]
  <2>1. table.rows[i] \in [table.columns -> CellValues]
    BY DEF IsTable
  <2> QED BY <1>2, <2>1
<1>5. found = Kept(table.rows, K)
  <2> HIDE DEF Value, own
  <2>1. {i \in DOMAIN table.rows : MongoKeeps(q.filters, q.logic, Value(table.rows[i]), own)} = K
    BY <1>3, <1>4
  <2> QED BY <2>1
<1> HIDE DEF own, all, found
<1>6. SubSeq(found, 1, IF Len(found) > ToListLimit THEN ToListLimit ELSE Len(found)) = found
  <2> DEFINE c == Cardinality(K)
             S == {table.rows[i] : i \in 1..n}
  <2>1. /\ c \in Nat /\ c <= n
        /\ \A m \in 1..c : Place(K, m) \in K
    BY <1>1, PlacesAreKept
  <2>2. found = [m \in 1..c |-> table.rows[Place(K, m)]]
    BY <1>5, KeptIs
  <2> HIDE DEF c
  <2>3. \A m \in 1..c : table.rows[Place(K, m)] \in S
    BY <1>1, <2>1
  <2> HIDE DEF S
  <2>4. found \in [1..c -> S]
    BY <2>2, <2>3
  <2>5. found \in Seq(S) /\ Len(found) = c
    BY <2>1, <2>4
  <2>6. ~(c > ToListLimit)
    BY <1>1, <2>1, LimitsAssumption
  <2>7. SubSeq(found, 1, c) = found
    BY <2>1, <2>5
  <2> QED BY <2>5, <2>6, <2>7
<1>7. MongoQuery(table, q) = [columns |-> columns, types |-> types, rows |-> rows]
  <2>1. MongoQuery(table, q) = Project(table, found, columns)
    BY <1>6 DEF MongoQuery, found, own, all
  <2>2. [m \in DOMAIN Kept(table.rows, K) |-> Restricted(Kept(table.rows, K)[m], columns)] = rows
    <3>1. K \in SUBSET DOMAIN table.rows
      BY <1>1
    <3> HIDE DEF columns
    <3> QED BY <3>1, KeptRowsAt
  <2> HIDE DEF columns, rows
  <2> QED BY <1>5, <2>1, <2>2 DEF Project, Restricted
<1>8. ExecuteQuery("mongodb", table, q) = [columns |-> columns, types |-> types, rows |-> rows]
  BY <1>7 DEF ExecuteQuery
<1>9. Null \notin columns
  BY DEF IsTable
<1> HIDE DEF columns, types, rows
<1>10. ExecuteQuery("mongodb", table, q) # Failure
  BY <1>8, <1>9, FramesDiffer
<1>11. Sparse("mongodb", table, q) = table.sparse
  BY DEF Sparse
<1> QED BY <1>8, <1>10, <1>11 DEF Read1, columns, types, rows

\* Without filters every row is kept.
LEMMA NoFilters ==
    ASSUME NEW columns, NEW types, NEW S, NEW rows \in Seq(S), NEW logic
    PROVE  apply_filters([columns |-> columns, types |-> types, rows |-> rows], <<>>, logic)
             = [columns |-> columns, types |-> types, rows |-> rows]
<1> DEFINE K == {i \in DOMAIN rows : PolarsKeeps(<<>>, logic, rows[i], columns, types)}
<1>1. K = DOMAIN rows
  <2>1. DOMAIN <<>> = {}
    OBVIOUS
  <2>2. ASSUME NEW row PROVE PolarsKeeps(<<>>, logic, row, columns, types)
    BY <2>1 DEF PolarsKeeps
  <2> QED BY <2>2
<1>2. Kept(rows, K) = rows
  BY <1>1, KeptAll
<1>3. K = {i \in DOMAIN rows : PolarsKeeps(<<>>, logic, rows[i], columns, types)}
  OBVIOUS
<1>4. DOMAIN <<>> = {}
  OBVIOUS
<1> HIDE DEF K
<1>5. apply_filters([columns |-> columns, types |-> types, rows |-> rows], <<>>, logic)
        = [columns |-> columns, types |-> types, rows |-> Kept(rows, K)]
  BY <1>3, <1>4, ApplyFilters
<1> QED BY <1>2, <1>5

-----------------------------------------------------------------------------
(* Both engines read the same rows.                                            *)

LEMMA SqlAlike ==
    ASSUME NEW type \in Sql, NEW table, IsTable(table), NEW names, NEW q \in QuerySourceConfig(names),
           Portable(type, table, q), q.filters # <<>>
    PROVE  ReadAlike(execute_single_source(type, table, q), ProcessQuery(type, table, q))
<1> DEFINE columns == Selected(q, table)
           types   == [c \in columns |-> Delivered(type, table.types[c])]
           K       == {i \in DOMAIN table.rows :
                        SqlKeeps(type, q.filters, q.logic, table.rows[i], table.types)}
           u       == [q EXCEPT !.filters = <<>>]
           run     == Read1(table, K, columns, types, {})
           whole   == Read1(table, DOMAIN table.rows, columns, types, {})
           mine    == Present(table.rows, columns, {})
           p       == FrameTypes(table.rows, mine, types)
<1>0. type \notin {"mongodb"} /\ IsSource(type, table)
  BY DEF Sql, IsSource
<1>1. columns \subseteq table.columns /\ Named(q) \subseteq table.columns
  BY DEF Portable, Named, Selected
<1>1a. Settled(table, columns, {})
  BY <1>0, PortableSettles
<1>2. execute_single_source(type, table, q) = run
  <2>1. ASSUME NEW i \in DOMAIN q.filters
        PROVE  ~SqlRaises(type, q.filters[i], table.types[q.filters[i].column])
    <3>1. ~Raises(q.filters[i], Delivered(type, table.types[q.filters[i].column]))
      BY PortableFilter DEF PortableIn
    <3>2. CASE type = "mysql"
      BY <3>2 DEF SqlRaises
    <3>3. CASE type # "mysql"
      BY <3>1, <3>3 DEF SqlRaises, Raises, Delivered
    <3> QED BY <3>2, <3>3
  <2>2. /\ ExecuteQuery(type, table, q) # Failure
        /\ FrameOf(ExecuteQuery(type, table, q), Sparse(type, table, q)) = run
    BY <1>1, <2>1, SqlReads
  <2> HIDE DEF run
  <2> QED BY <2>2 DEF execute_single_source
<1>3. execute_single_source(type, table, u) = whole
  <2>1. /\ u.filters = <<>> /\ Selected(u, table) = columns
        /\ Named(u) \subseteq table.columns
    BY <1>1, Unfiltered
  <2>2. DOMAIN table.rows = {i \in DOMAIN table.rows :
            SqlKeeps(type, u.filters, u.logic, table.rows[i], table.types)}
    BY <2>1 DEF SqlKeeps
  <2>3. DOMAIN u.filters = {}
    BY <2>1
  <2> HIDE DEF u, columns
  <2>4. /\ ExecuteQuery(type, table, u) # Failure
        /\ FrameOf(ExecuteQuery(type, table, u), Sparse(type, table, u)) = whole
    BY <2>1, <2>2, <2>3, SqlReads
  <2> HIDE DEF whole
  <2> QED BY <2>4 DEF execute_single_source
<1>4. ASSUME table.rows # <<>>, NEW i \in DOMAIN q.filters
      PROVE  /\ q.filters[i].column \in mine
             /\ ~Raises(q.filters[i], p[q.filters[i].column])
             /\ \A j \in DOMAIN table.rows :
                   Fits(type, q.filters[i], table.rows[j][q.filters[i].column],
                        table.types[q.filters[i].column], p[q.filters[i].column])
  <2>1. \A c \in columns : types[c] = Delivered(type, table.types[c])
    OBVIOUS
  <2>2. {} = IF type = "mongodb" THEN table.sparse ELSE {}
    BY <1>0
  <2>3. Selected(q, table) \cap table.columns \subseteq columns
    OBVIOUS
  <2> HIDE DEF columns, types
  <2> QED BY <1>4, <2>1, <2>2, <2>3, PortableFits
<1>5. ASSUME table.rows # <<>>, NEW j \in DOMAIN table.rows
      PROVE  j \in K <=> PolarsKeeps(q.filters, q.logic, Restricted(table.rows[j], mine), mine, p)
  <2> DEFINE own == Restricted(table.rows[j], mine)
  <2>1. ASSUME NEW i \in DOMAIN q.filters
        PROVE  /\ q.filters[i].column \in mine
               /\ own[q.filters[i].column] = table.rows[j][q.filters[i].column]
               /\ Fits(type, q.filters[i], table.rows[j][q.filters[i].column],
                       table.types[q.filters[i].column], p[q.filters[i].column])
    <3> HIDE DEF p, mine
    <3> QED BY <1>4, <1>5 DEF Restricted
  <2>2. q.logic = "or" => \A i \in DOMAIN q.filters : ~EmptyNotIn(q.filters[i])
    BY PortableFilter DEF PortableIn
  <2>3. q.filters \in Seq(FilterCondition(names))
    BY DEF QuerySourceConfig
  <2> HIDE DEF own, p, mine
  <2>4. SqlKeeps(type, q.filters, q.logic, table.rows[j], table.types) <=>
          PolarsKeeps(q.filters, q.logic, own, mine, p)
    BY <2>1, <2>2, <2>3, SqlKeepsWhatPolarsKeeps DEF Sql
  <2> QED BY <2>4 DEF own
<1>6. K \in SUBSET DOMAIN table.rows
  OBVIOUS
<1>7. Select(K, table, columns, types, {}, q.filters, q.logic)
  <2> HIDE DEF K, columns, types
  <2> QED BY <1>4, <1>5 DEF Select
<1> HIDE DEF columns, types, K, mine, p
<1>8. whole # Failure /\ ReadAlike(run, apply_filters(whole, q.filters, q.logic))
  BY <1>1a, <1>6, <1>7, FilteredRead
<1> HIDE DEF run, whole
<1> QED BY <1>2, <1>3, <1>8 DEF ProcessQuery

\* MongoDB adds the key of the document to the columns.
LEMMA MongoAlike ==
    ASSUME NEW table, IsSource("mongodb", table), NEW names, NEW q \in QuerySourceConfig(names),
           Portable("mongodb", table, q), q.filters # <<>>
    PROVE  ReadAlike(execute_single_source("mongodb", table, q), ProcessQuery("mongodb", table, q))
<1> DEFINE columns == (Selected(q, table) \cup {"_id"}) \cap table.columns
           types   == [c \in columns |-> table.types[c]]
           K       == {i \in DOMAIN table.rows :
                        MongoKeeps(q.filters, q.logic, table.rows[i], table.types)}
           u       == [q EXCEPT !.filters = <<>>]
           run     == Read1(table, K, columns, types, table.sparse)
           whole   == Read1(table, DOMAIN table.rows, columns, types, table.sparse)
           mine    == Present(table.rows, columns, table.sparse)
           p       == FrameTypes(table.rows, mine, types)
<1>0. IsTable(table)
  BY DEF IsSource
<1>1. /\ columns \subseteq table.columns /\ Named(q) \subseteq table.columns
      /\ Selected(q, table) \cap table.columns \subseteq columns
      /\ Len(table.rows) <= ToListLimit
  BY DEF Portable, Named, Selected
<1>1a. Settled(table, columns, table.sparse)
  BY PortableSettles
<1>2. execute_single_source("mongodb", table, q) = run
  <2>1. /\ ExecuteQuery("mongodb", table, q) # Failure
        /\ FrameOf(ExecuteQuery("mongodb", table, q), Sparse("mongodb", table, q)) = run
    BY <1>0, <1>1, MongoReads
  <2> HIDE DEF run
  <2> QED BY <2>1 DEF execute_single_source
<1>3. execute_single_source("mongodb", table, u) = whole
  <2>1. /\ u.filters = <<>> /\ (Selected(u, table) \cup {"_id"}) \cap table.columns = columns
        /\ Named(u) \subseteq table.columns
    BY <1>1, Unfiltered
  <2>2. DOMAIN table.rows = {i \in DOMAIN table.rows :
            MongoKeeps(u.filters, u.logic, table.rows[i], table.types)}
    BY <2>1 DEF MongoKeeps
  <2> HIDE DEF u, columns
  <2>3. /\ ExecuteQuery("mongodb", table, u) # Failure
        /\ FrameOf(ExecuteQuery("mongodb", table, u), Sparse("mongodb", table, u)) = whole
    BY <1>0, <1>1, <2>1, <2>2, MongoReads
  <2> HIDE DEF whole
  <2> QED BY <2>3 DEF execute_single_source
<1>4. \A c \in columns : types[c] = Delivered("mongodb", table.types[c])
  BY DEF Delivered
<1>5. ASSUME table.rows # <<>>, NEW i \in DOMAIN q.filters
      PROVE  /\ q.filters[i].column \in mine
             /\ ~Raises(q.filters[i], p[q.filters[i].column])
             /\ \A j \in DOMAIN table.rows :
                   Fits("mongodb", q.filters[i], table.rows[j][q.filters[i].column],
                        table.types[q.filters[i].column], p[q.filters[i].column])
  <2>1. table.sparse = IF "mongodb" = "mongodb" THEN table.sparse ELSE {}
    OBVIOUS
  <2> HIDE DEF columns, types
  <2> QED BY <1>0, <1>1, <1>4, <1>5, <2>1, PortableFits
<1>6. ASSUME table.rows # <<>>, NEW j \in DOMAIN table.rows
      PROVE  j \in K <=> PolarsKeeps(q.filters, q.logic, Restricted(table.rows[j], mine), mine, p)
  <2> DEFINE own == Restricted(table.rows[j], mine)
  <2>1. ASSUME NEW i \in DOMAIN q.filters
        PROVE  /\ q.filters[i].column \in mine
               /\ own[q.filters[i].column] = table.rows[j][q.filters[i].column]
               /\ Fits("mongodb", q.filters[i], table.rows[j][q.filters[i].column],
                       table.types[q.filters[i].column], p[q.filters[i].column])
               /\ \A w \in Values(q.filters[i]) : Native(w, table.types[q.filters[i].column])
               /\ q.filters[i].operator \in {"neq", "not_in"} =>
                        table.rows[j][q.filters[i].column] # Null
    <3> HIDE DEF p, mine
    <3>1. /\ \A w \in Values(q.filters[i]) : Native(w, table.types[q.filters[i].column])
          /\ q.filters[i].operator \in {"neq", "not_in"} =>
                        table.rows[j][q.filters[i].column] # Null
      BY <1>0, PortableFilter DEF PortableIn
    <3> QED BY <1>5, <1>6, <3>1 DEF Restricted
  <2>2. q.logic = "or" => \A i \in DOMAIN q.filters : ~EmptyNotIn(q.filters[i])
    BY <1>0, PortableFilter DEF PortableIn
  <2>3. q.filters \in Seq(FilterCondition(names))
    BY DEF QuerySourceConfig
  <2> HIDE DEF own, p, mine
  <2>4. MongoKeeps(q.filters, q.logic, table.rows[j], table.types) <=>
          PolarsKeeps(q.filters, q.logic, own, mine, p)
    BY <2>1, <2>2, <2>3, MongoKeepsWhatPolarsKeeps
  <2> QED BY <2>4 DEF own
<1>7. K \in SUBSET DOMAIN table.rows
  OBVIOUS
<1>8. Select(K, table, columns, types, table.sparse, q.filters, q.logic)
  <2> HIDE DEF K, columns, types
  <2> QED BY <1>5, <1>6 DEF Select
<1> HIDE DEF columns, types, K, mine, p
<1>9. whole # Failure /\ ReadAlike(run, apply_filters(whole, q.filters, q.logic))
  BY <1>0, <1>1a, <1>7, <1>8, FilteredRead
<1> HIDE DEF run, whole
<1> QED BY <1>2, <1>3, <1>9 DEF ProcessQuery

-----------------------------------------------------------------------------
(* Frames.                                                                     *)

IsRow(r, columns) == r = [c \in columns |-> r[c]]

IsFrame(f) ==
    /\ f = [columns |-> f.columns, types |-> f.types, rows |-> f.rows]
    /\ \E S : f.rows \in Seq(S)
    /\ \A i \in DOMAIN f.rows : IsRow(f.rows[i], f.columns)

LEMMA FrameRows ==
    ASSUME NEW f, IsFrame(f)
    PROVE  Len(f.rows) \in Nat /\ DOMAIN f.rows = 1..Len(f.rows)
           /\ (f.rows = <<>> <=> Len(f.rows) = 0)
  BY DEF IsFrame

\* A function on 1..n is a sequence.
LEMMA IsSequence ==
    ASSUME NEW n \in Nat, NEW g, DOMAIN g = 1..n, g = [i \in 1..n |-> g[i]]
    PROVE  g \in Seq({g[i] : i \in 1..n}) /\ Len(g) = n
<1> DEFINE S == {g[i] : i \in 1..n}
<1>1. \A i \in 1..n : g[i] \in S
  OBVIOUS
<1> HIDE DEF S
<1>2. g \in [1..n -> S]
  BY <1>1
<1>3. g \in Seq(S) /\ Len(g) = n
  BY <1>2
<1> QED BY <1>3 DEF S

LEMMA MakesFrame ==
    ASSUME NEW columns, NEW types, NEW n \in Nat, NEW rows, DOMAIN rows = 1..n,
           rows = [i \in 1..n |-> rows[i]], \A i \in 1..n : IsRow(rows[i], columns)
    PROVE  IsFrame([columns |-> columns, types |-> types, rows |-> rows])
<1>1. \E S : rows \in Seq(S)
  BY IsSequence
<1> QED BY <1>1 DEF IsFrame

LEMMA EmptyFrames == IsFrame(NoFrame) /\ IsFrame(Failure)
<1>1. <<>> \in Seq({})
  OBVIOUS
<1> QED BY <1>1, FramesDiffer DEF IsFrame, NoFrame, Failure

\* Rows at some positions of a sequence.
LEMMA KeptSequence ==
    ASSUME NEW S, NEW rows \in Seq(S), NEW K \in SUBSET DOMAIN rows
    PROVE  /\ Kept(rows, K) \in Seq(S) /\ Len(Kept(rows, K)) = Cardinality(K)
           /\ Cardinality(K) \in Nat
           /\ \A i \in DOMAIN Kept(rows, K) : \E j \in DOMAIN rows : Kept(rows, K)[i] = rows[j]
<1>1. Len(rows) \in Nat /\ DOMAIN rows = 1..Len(rows) /\ \A i \in DOMAIN rows : rows[i] \in S
  OBVIOUS
<1>2. /\ Cardinality(K) \in Nat
      /\ \A m \in 1..Cardinality(K) : Place(K, m) \in K
  BY <1>1, PlacesAreKept
<1>3. \A m \in 1..Cardinality(K) : rows[Place(K, m)] \in S
  BY <1>1, <1>2
<1>4. [m \in 1..Cardinality(K) |-> rows[Place(K, m)]] \in [1..Cardinality(K) -> S]
  BY <1>3
<1>5. Kept(rows, K) \in [1..Cardinality(K) -> S]
  BY <1>4, KeptIs
<1>6. \A i \in DOMAIN Kept(rows, K) : \E j \in DOMAIN rows : Kept(rows, K)[i] = rows[j]
  BY <1>1, <1>2, KeptIs
<1> QED BY <1>2, <1>5, <1>6

LEMMA OtherRows ==
    ASSUME NEW f, IsFrame(f), NEW rows, \E S : rows \in Seq(S),
           \A i \in DOMAIN rows : \E j \in DOMAIN f.rows : rows[i] = f.rows[j]
    PROVE  /\ [f EXCEPT !.rows = rows] = [columns |-> f.columns, types |-> f.types, rows |-> rows]
           /\ IsFrame([f EXCEPT !.rows = rows])
<1>1. [f EXCEPT !.rows = rows] = [columns |-> f.columns, types |-> f.types, rows |-> rows]
  BY DEF IsFrame
<1> QED BY <1>1 DEF IsFrame

LEMMA KeptAtFrame ==
    ASSUME NEW f, IsFrame(f), NEW K \in SUBSET DOMAIN f.rows
    PROVE  /\ KeptAt(f, K) = [columns |-> f.columns, types |-> f.types, rows |-> Kept(f.rows, K)]
           /\ IsFrame(KeptAt(f, K)) /\ Len(KeptAt(f, K).rows) = Cardinality(K)
<1>1. PICK S : f.rows \in Seq(S)
  BY DEF IsFrame
<1>2. /\ Kept(f.rows, K) \in Seq(S) /\ Len(Kept(f.rows, K)) = Cardinality(K)
      /\ \A i \in DOMAIN Kept(f.rows, K) : \E j \in DOMAIN f.rows : Kept(f.rows, K)[i] = f.rows[j]
  BY <1>1, KeptSequence
<1>3. KeptAt(f, K) = [f EXCEPT !.rows = Kept(f.rows, K)]
  BY DEF KeptAt
<1> QED BY <1>2, <1>3, OtherRows

LEMMA FrameOfFrame ==
    ASSUME NEW f, IsFrame(f), NEW sparse
    PROVE  LET g == FrameOf(f, sparse)
           IN  /\ IsFrame(g)
               /\ g \in {NoFrame, Failure} \/
                    /\ g.columns \subseteq f.columns
                    /\ g.types = [c \in g.columns |-> g.types[c]]
                    /\ Len(g.rows) = Len(f.rows)
               /\ f.rows = <<>> => g = NoFrame
<1> DEFINE columns == {c \in f.columns : c \in sparse => IsInferred(f.rows, c)}
           Type(c) == IF HasValue(f.rows, c) THEN f.types[c] ELSE "null"
           types   == [c \in columns |-> Type(c)]
           rows    == [i \in DOMAIN f.rows |-> Restricted(f.rows[i], columns)]
           g       == [columns |-> columns, types |-> types, rows |-> rows]
           n       == Len(f.rows)
<1>1. FrameOf(f, sparse) \in {NoFrame, Failure, g} /\ (f.rows = <<>> => FrameOf(f, sparse) = NoFrame)
  BY DEF FrameOf
<1>2. n \in Nat /\ DOMAIN f.rows = 1..n
  BY FrameRows
<1>3. IsFrame(g) /\ Len(rows) = n
  <2>1. DOMAIN rows = 1..n /\ rows = [i \in 1..n |-> rows[i]]
    BY <1>2
  <2>2. \A i \in 1..n : IsRow(rows[i], columns)
    BY <1>2 DEF IsRow, Restricted
  <2> HIDE DEF n, rows, types, columns
  <2> QED BY <1>2, <2>1, <2>2, MakesFrame, IsSequence
<1>4. g.columns \subseteq f.columns /\ g.types = [c \in g.columns |-> g.types[c]] /\ g.rows = rows
  OBVIOUS
<1> HIDE DEF g, rows
<1> QED BY <1>1, <1>3, <1>4, EmptyFrames

LEMMA ApplyFiltersFrame ==
    ASSUME NEW f, IsFrame(f), NEW filters, NEW logic
    PROVE  IsFrame(apply_filters(f, filters, logic))
<1> DEFINE K == {i \in DOMAIN f.rows : PolarsKeeps(filters, logic, f.rows[i], f.columns, f.types)}
<1>1. K \in SUBSET DOMAIN f.rows
  OBVIOUS
<1>2. apply_filters(f, filters, logic) \in {Failure, KeptAt(f, K)}
  BY DEF apply_filters, KeptAt
<1> HIDE DEF K
<1> QED BY <1>1, <1>2, EmptyFrames, KeptAtFrame

LEMMA ProjectFrame ==
    ASSUME NEW table, NEW rows, (\E S : rows \in Seq(S)), NEW columns
    PROVE  IsFrame(Project(table, rows, columns)) /\ Len(Project(table, rows, columns).rows) = Len(rows)
<1> DEFINE r == [i \in DOMAIN rows |-> Restricted(rows[i], columns)]
<1>1. Len(rows) \in Nat /\ DOMAIN rows = 1..Len(rows)
  OBVIOUS
<1>2. /\ DOMAIN r = 1..Len(rows) /\ r = [i \in 1..Len(rows) |-> r[i]]
      /\ \A i \in 1..Len(rows) : IsRow(r[i], columns)
  BY <1>1 DEF IsRow, Restricted
<1> HIDE DEF r
<1>3. IsFrame([columns |-> columns, types |-> Restricted(table.types, columns), rows |-> r])
      /\ Len(r) = Len(rows)
  BY <1>1, <1>2, MakesFrame, IsSequence
<1> QED BY <1>3 DEF Project, r

AtMost(n, f) == IsFrame(f) /\ Len(f.rows) <= n

\* What a connector returns is a frame, of no more rows than the table.
LEMMA ExecuteQueryFrame ==
    ASSUME NEW type \in Connectors, NEW table, IsTable(table), NEW q
    PROVE  AtMost(Len(table.rows), ExecuteQuery(type, table, q))
<1>1. ASSUME NEW K \in SUBSET DOMAIN table.rows
      PROVE  /\ \E S : Kept(table.rows, K) \in Seq(S)
             /\ Len(Kept(table.rows, K)) <= Len(table.rows)
  <2>1. PICK S : table.rows \in Seq(S)
    BY DEF IsTable
  <2>2. Kept(table.rows, K) \in Seq(S) /\ Len(Kept(table.rows, K)) = Cardinality(K)
    BY <2>1, KeptSequence
  <2>3. Cardinality(K) <= Len(table.rows)
    BY TableRows, PlacesAreKept
  <2> QED BY <2>2, <2>3
<1>0. AtMost(Len(table.rows), Failure)
  <2>1. Len(<<>>) = 0
    OBVIOUS
  <2> QED BY <2>1, TableRows, EmptyFrames, FramesDiffer DEF AtMost
<1>2. ASSUME NEW dialect PROVE AtMost(Len(table.rows), SqlQuery(dialect, table, q))
  <2> DEFINE K == {i \in DOMAIN table.rows :
                    SqlKeeps(dialect, q.filters, q.logic, table.rows[i], table.types)}
  <2>1. K \in SUBSET DOMAIN table.rows
    OBVIOUS
  <2>2. SqlQuery(dialect, table, q) \in
            {Failure, Project(table, Kept(table.rows, K), Selected(q, table))}
    BY DEF SqlQuery
  <2> HIDE DEF K
  <2>3. AtMost(Len(table.rows), Project(table, Kept(table.rows, K), Selected(q, table)))
    BY <1>1, <2>1, ProjectFrame DEF AtMost
  <2> QED BY <1>0, <2>2, <2>3
<1>3. CASE type \in {"postgres", "db2"}
  BY <1>2, <1>3 DEF ExecuteQuery, PostgresQuery, Db2Query
<1>4. CASE type = "mysql"
  <2> DEFINE read1 == SqlQuery("mysql", table, q)
             t == [c \in DOMAIN read1.types |-> Delivered("mysql", read1.types[c])]
  <2>1. ExecuteQuery(type, table, q) = [read1 EXCEPT !.types = t]
    BY <1>4 DEF ExecuteQuery, MySqlQuery
  <2>2. AtMost(Len(table.rows), read1)
    BY <1>2
  <2> HIDE DEF read1, t
  <2>3. [read1 EXCEPT !.types = t] = [columns |-> read1.columns, types |-> t, rows |-> read1.rows]
    BY <2>2 DEF AtMost, IsFrame
  <2> QED BY <2>1, <2>2, <2>3 DEF AtMost, IsFrame
<1>5. CASE type = "mongodb"
  <2> DEFINE all      == table.columns \cup Named(q)
             Value(r) == [c \in all |-> IF c \in table.columns THEN r[c] ELSE Null]
             own      == [c \in all |-> IF c \in table.columns THEN table.types[c] ELSE "text"]
             K        == {i \in DOMAIN table.rows :
                            MongoKeeps(q.filters, q.logic, Value(table.rows[i]), own)}
             found    == Kept(table.rows, K)
             end      == IF Len(found) > ToListLimit THEN ToListLimit ELSE Len(found)
  <2>1. ExecuteQuery(type, table, q)
          = Project(table, SubSeq(found, 1, end), (Selected(q, table) \cup {"_id"}) \cap table.columns)
    BY <1>5 DEF ExecuteQuery, MongoQuery
  <2>2. K \in SUBSET DOMAIN table.rows
    OBVIOUS
  <2> HIDE DEF K
  <2>3. Len(found) <= Len(table.rows) /\ \E S : found \in Seq(S)
    BY <1>1, <2>2
  <2>6. PICK S : found \in Seq(S)
    BY <2>3
  <2> HIDE DEF found
  <2>4. end \in Nat /\ end <= Len(found)
    BY <2>6, LimitsAssumption
  <2> HIDE DEF end
  <2>5. SubSeq(found, 1, end) \in Seq(S) /\ Len(SubSeq(found, 1, end)) = end
    BY <2>6, <2>4
  <2>7. end <= Len(table.rows)
    BY <2>3, <2>4, <2>6, TableRows
  <2> DEFINE cut == SubSeq(found, 1, end)
             columns == (Selected(q, table) \cup {"_id"}) \cap table.columns
  <2> HIDE DEF cut, columns
  <2>8. IsFrame(Project(table, cut, columns)) /\ Len(Project(table, cut, columns).rows) = Len(cut)
    <3>1. cut \in Seq(S)
      BY <2>5 DEF cut
    <3> QED BY <3>1, ProjectFrame
  <2>9. ExecuteQuery(type, table, q) = Project(table, cut, columns) /\ Len(cut) <= Len(table.rows)
    BY <2>1, <2>5, <2>7 DEF cut, columns
  <2> QED BY <2>8, <2>9 DEF AtMost
<1>6. CASE type = "file"
  <2>1. \E S : table.rows \in Seq(S)
    BY DEF IsTable
  <2>2. Len(table.rows) \in Nat
    BY TableRows
  <2> QED BY <1>6, <2>1, <2>2, ProjectFrame DEF ExecuteQuery, FileQuery, AtMost
<1>7. CASE type = "rest_api"
  <2> DEFINE columns == Selected(q, table)
             types   == [c \in columns |-> IF c \in table.columns THEN table.types[c] ELSE "null"]
             rows    == [i \in DOMAIN table.rows |-> [c \in columns |->
                              IF c \in table.columns THEN table.rows[i][c] ELSE Null]]
             n       == Len(table.rows)
  <2>1. ExecuteQuery(type, table, q) = [columns |-> columns, types |-> types, rows |-> rows]
    BY <1>7 DEF ExecuteQuery, RestQuery
  <2>2. n \in Nat /\ DOMAIN rows = 1..n /\ rows = [i \in 1..n |-> rows[i]]
    BY TableRows
  <2>3. \A i \in 1..n : IsRow(rows[i], columns)
    BY <2>2 DEF IsRow
  <2> HIDE DEF columns, types, rows
  <2>4. IsFrame([columns |-> columns, types |-> types, rows |-> rows]) /\ Len(rows) = n
    <3> HIDE DEF n
    <3> QED BY <2>2, <2>3, MakesFrame, IsSequence
  <2> QED BY <2>1, <2>2, <2>4 DEF AtMost
<1> QED BY <1>3, <1>4, <1>5, <1>6, <1>7 DEF Connectors

-----------------------------------------------------------------------------
(* Both engines read the same rows.                                            *)

\* Without filters the two engines do the same.
LEMMA UnfilteredAlike ==
    ASSUME NEW type \in Connectors, NEW table, IsTable(table),
           NEW names, NEW q \in QuerySourceConfig(names), q.filters = <<>>
    PROVE  ReadAlike(execute_single_source(type, table, q), ProcessQuery(type, table, q))
<1> DEFINE got == ExecuteQuery(type, table, q)
           f   == execute_single_source(type, table, q)
<1>1. [q EXCEPT !.filters = <<>>] = q
  BY Unfiltered
<1>2. IsFrame(got)
  BY ExecuteQueryFrame DEF AtMost
<1>3. f = IF got = Failure THEN Failure ELSE FrameOf(got, Sparse(type, table, q))
  BY DEF execute_single_source
<1> HIDE DEF got, f
<1>4. /\ IsFrame(f)
      /\ f \in {NoFrame, Failure} \/ f.types = [c \in f.columns |-> f.types[c]]
  BY <1>2, <1>3, EmptyFrames, FrameOfFrame
<1>5. apply_filters(f, <<>>, q.logic) = f
  <2>1. PICK S : f.rows \in Seq(S)
    BY <1>4 DEF IsFrame
  <2>2. apply_filters([columns |-> f.columns, types |-> f.types, rows |-> f.rows], <<>>, q.logic)
          = [columns |-> f.columns, types |-> f.types, rows |-> f.rows]
    BY <2>1, NoFilters
  <2> QED BY <1>4, <2>2 DEF IsFrame
<1>6. ProcessQuery(type, table, q) = f
  BY <1>1, <1>5 DEF ProcessQuery, f
<1>7. ReadAlike(f, f)
  <2>1. ASSUME NEW m \in DOMAIN f.rows PROVE f.rows[m] = Restricted(f.rows[m], f.columns)
    BY <1>4 DEF IsFrame, IsRow, Restricted
  <2>2. f # Failure /\ f.rows # <<>> => f.types = [c \in f.columns |-> f.types[c]]
    BY <1>4, FramesDiffer
  <2> QED BY <2>1, <2>2 DEF ReadAlike
<1> QED BY <1>6, <1>7 DEF f

\* Whatever the table and the filters, the two engines read the same rows of a
\* source for a portable request: the query engine, which leaves the filters to
\* the connector, and the process engine, which filters in Polars what the
\* connector read without them; and when one of them fails so does the other (the
\* execute_query methods against _execute_query of the process engine and
\* apply_filters).
THEOREM EnginesReadAlike ==
    ASSUME NEW type \in Connectors, NEW table, IsSource(type, table),
           NEW names, NEW q \in QuerySourceConfig(names), Portable(type, table, q)
    PROVE  ReadAlike(execute_single_source(type, table, q), ProcessQuery(type, table, q))
<1>1. IsTable(table)
  BY DEF IsSource
<1>2. CASE q.filters = <<>>
  BY <1>1, <1>2, UnfilteredAlike
<1>3. CASE q.filters # <<>>
  <2>1. type \in Sql \cup {"mongodb"}
    BY <1>3 DEF Portable, Connectors, Sql
  <2> QED BY <1>1, <1>3, <2>1, SqlAlike, MongoAlike
<1> QED BY <1>2, <1>3

-----------------------------------------------------------------------------
(* The two executions.  What an engine has at each step is a function of the   *)
(* request and of what it read, but for the rows that no order fixes; once     *)
(* an execution has failed it stays failed.                                    *)

Engines == {"query", "process"}
Places  == {"reading", "deriving", "filtering", "grouping", "deduplicating", "sorting",
            "transforming", "finishing", "finished"}

\* What an engine may have read of a source.
ReadBy(r, e, side) ==
    LET source == r.sources[side]
        f      == execute_single_source(source.type, source.table, source.q)
    IN  IF e = "process" THEN {ProcessQuery(source.type, source.table, source.q)}
        ELSE IF "right" \in DOMAIN r.sources THEN Heads(f, FALSE) ELSE {f}

JoinedOf(r, tables) ==
    LET joined == IF "right" \in DOMAIN r.sources
                  THEN JoinFrames(tables["left"], tables["right"], r.join)
                  ELSE tables["left"]
    IN  IF \E side \in DOMAIN r.sources : tables[side] = Failure THEN Failure
        ELSE IF joined = Failure THEN Failure
        ELSE select_columns(joined, r.select)

DerivedOf(r, f)  == IF f = Failure THEN Failure ELSE apply_derived_columns(f, r.derived)
FilteredOf(r, f) == IF f = Failure THEN Failure ELSE apply_filters(f, r.filters, r.logic)
GroupedOf(r, f)  == IF f = Failure THEN Failure ELSE apply_group_by(f, r.group)

\* The frame before the steps that may order rows in several ways.
Base(r, tables) == GroupedOf(r, FilteredOf(r, DerivedOf(r, JoinedOf(r, tables))))

Distincts(r, f) == IF f = Failure THEN {Failure} ELSE apply_distinct(f, r.distinct)
Sorts(r, f)     == IF f = Failure THEN {Failure}
                   ELSE IF r.sorts = <<>> THEN {f} ELSE apply_sort(f, r.sorts)
TransformedOf(r, f) == IF f = Failure THEN Failure ELSE apply_transforms(f, r.transforms)

Outcome(r, tables, a) ==
    \E d \in Distincts(r, Base(r, tables)) : \E s \in Sorts(r, d) :
        a \in Heads(TransformedOf(r, s), r.sorts # <<>>)

\* The frame at each place.
Follows(r, p, tables, f) ==
    /\ p \in {"reading", "finished"} => f = NoFrame
    /\ p = "deriving"      => f = JoinedOf(r, tables)
    /\ p = "filtering"     => f = DerivedOf(r, JoinedOf(r, tables))
    /\ p = "grouping"      => f = FilteredOf(r, DerivedOf(r, JoinedOf(r, tables)))
    /\ p = "deduplicating" => f = Base(r, tables)
    /\ p = "sorting"       => f \in Distincts(r, Base(r, tables))
    /\ p = "transforming"  => \E d \in Distincts(r, Base(r, tables)) : f \in Sorts(r, d)
    /\ p = "finishing"     => \E d \in Distincts(r, Base(r, tables)) :
                                 \E s \in Sorts(r, d) : f = TransformedOf(r, s)

Finished(e) == engine = "done" \/ (e = "query" /\ engine = "process")

ReadInv ==
    /\ DOMAIN read = Engines
    /\ \A e \in Engines : \A side \in DOMAIN read[e] :
            side \in Sides /\ read[e][side] \in ReadBy(request, e, side)
    /\ \A e \in Engines : Finished(e) \/ (e = engine /\ place # "reading") => DOMAIN read[e] = Sides

AnswerInv ==
    /\ DOMAIN answer = Engines
    /\ \A e \in Engines : Finished(e) => Outcome(request, read[e], answer[e])

ExecutionInv ==
    /\ request \in Requests
    /\ engine \in Engines \cup {"done"} /\ place \in Places
    /\ engine = "done" <=> place = "finished"
    /\ ReadInv
    /\ AnswerInv
    /\ engine \in Engines => Follows(request, place, read[engine], frame)
    /\ engine = "done" => frame = NoFrame

\* The step a frame is carried on by, and what it is then.
LEMMA Carried ==
    ASSUME NEW from, NEW to \in Places \ {"finished", "reading"}, from \in Places \ {"finished"},
           NEW frames, ExecutionInv, Step(from, to, frames),
           from = "reading" => DOMAIN read[engine] = Sides,
           \A f \in frames : Follows(request, to, read[engine], f)
    PROVE  ExecutionInv'
<1>1. /\ request' = request /\ engine' = engine /\ read' = read /\ answer' = answer
      /\ place = from /\ place' = to /\ frame' \in frames
  BY DEF Step
<1>2. engine \in Engines
  BY <1>1 DEF ExecutionInv
<1>3. Follows(request, place, read[engine], frame)'
  BY <1>1
<1>4. ReadInv'
  BY <1>1, <1>2 DEF ExecutionInv, ReadInv, Finished, Sides
<1>5. AnswerInv'
  BY <1>1, <1>2 DEF ExecutionInv, AnswerInv, Finished
<1> QED BY <1>1, <1>2, <1>3, <1>4, <1>5 DEF ExecutionInv, Places, Engines

\* The end of an execution, with its answer.
LEMMA Ended ==
    ASSUME NEW f, ExecutionInv, End(f), engine \in Engines,
           DOMAIN read[engine] = Sides,
           Outcome(request, read[engine], f)
    PROVE  ExecutionInv'
<1>1. /\ request' = request /\ read' = read /\ frame' = NoFrame
      /\ answer' = [answer EXCEPT ![engine] = f]
      /\ engine' = IF engine = "query" THEN "process" ELSE "done"
      /\ place' = IF engine = "query" THEN "reading" ELSE "finished"
  BY DEF End
<1>2. ReadInv'
  BY <1>1 DEF ExecutionInv, ReadInv, Finished, Sides, Engines
<1>3. AnswerInv'
  <2>1. DOMAIN answer' = Engines /\ answer'[engine] = f
    BY <1>1 DEF ExecutionInv, AnswerInv
  <2>2. ASSUME NEW e \in Engines, Finished(e)'
        PROVE  Outcome(request, read[e], answer'[e])
    <3>1. CASE e = engine
      BY <2>1, <3>1
    <3>2. CASE e # engine
      <4>1. answer'[e] = answer[e] /\ Finished(e)
        BY <1>1, <2>2, <3>2 DEF ExecutionInv, AnswerInv, Finished, Engines
      <4> QED BY <4>1 DEF ExecutionInv, AnswerInv
    <3> QED BY <3>1, <3>2
  <2> QED BY <1>1, <2>1, <2>2 DEF AnswerInv
<1>4. engine' \in Engines => Follows(request, place, read[engine], frame)'
  BY <1>1 DEF Follows, Engines
<1> QED BY <1>1, <1>2, <1>3, <1>4 DEF ExecutionInv, Engines, Places

LEMMA FailureIsWhole == \A sorted : Heads(Failure, sorted) = {Failure}
  BY FramesDiffer, RequestsAssumption DEF Heads

\* A frame that has failed at some place leads to the answer Failure.
LEMMA FailureStays ==
    ASSUME NEW r, NEW p \in Places \ {"reading", "finished"}, NEW tables,
           Follows(r, p, tables, Failure)
    PROVE  Outcome(r, tables, Failure)
<1> DEFINE d1 == JoinedOf(r, tables)
           d2 == DerivedOf(r, d1)
           d3 == FilteredOf(r, d2)
           d4 == GroupedOf(r, d3)
<1>1. ASSUME NEW d \in Distincts(r, Base(r, tables)), NEW s \in Sorts(r, d),
             TransformedOf(r, s) = Failure
      PROVE  Outcome(r, tables, Failure)
  BY <1>1, FailureIsWhole DEF Outcome
<1>2. Failure \in Sorts(r, Failure) /\ TransformedOf(r, Failure) = Failure
  BY DEF Sorts, TransformedOf
<1>3. Base(r, tables) = d4
  BY DEF Base
<1>4. CASE d4 = Failure
  <2>1. Failure \in Distincts(r, Base(r, tables))
    BY <1>3, <1>4 DEF Distincts
  <2> QED BY <1>1, <1>2, <2>1
<1>5. CASE p \in {"deriving", "filtering", "grouping", "deduplicating"}
  <2>1. d1 = Failure \/ d2 = Failure \/ d3 = Failure \/ d4 = Failure
    BY <1>5 DEF Follows, Base
  <2>2. /\ d1 = Failure => d2 = Failure
        /\ d2 = Failure => d3 = Failure
        /\ d3 = Failure => d4 = Failure
    BY DEF DerivedOf, FilteredOf, GroupedOf
  <2> QED BY <1>4, <2>1, <2>2
<1>6. CASE p = "sorting"
  BY <1>1, <1>2, <1>6 DEF Follows
<1>7. CASE p = "transforming"
  <2>1. PICK d \in Distincts(r, Base(r, tables)) : Failure \in Sorts(r, d)
    BY <1>7 DEF Follows
  <2> QED BY <1>1, <1>2, <2>1
<1>8. CASE p = "finishing"
  <2>1. PICK d \in Distincts(r, Base(r, tables)) : \E s \in Sorts(r, d) : Failure = TransformedOf(r, s)
    BY <1>8 DEF Follows
  <2>2. PICK s \in Sorts(r, d) : Failure = TransformedOf(r, s)
    BY <2>1
  <2> QED BY <1>1, <2>2
<1> QED BY <1>5, <1>6, <1>7, <1>8 DEF Places

\* Every execution does what Outcome says of it, whatever the request.
LEMMA ExecutionInvHolds == Spec => []ExecutionInv
<1>1. Init => ExecutionInv
  <2> SUFFICES ASSUME Init PROVE ExecutionInv
    OBVIOUS
  <2>1. \A e \in Engines : read[e] = <<>> /\ ~Finished(e)
    BY DEF Init, Engines, Finished
  <2>2. DOMAIN read = Engines /\ DOMAIN answer = Engines /\ DOMAIN <<>> = {}
    BY DEF Init, Engines
  <2> QED BY <2>1, <2>2
           DEF Init, ExecutionInv, ReadInv, AnswerInv, Follows, Engines, Places
<1>2. ExecutionInv /\ [Next]_vars => ExecutionInv'
  <2> SUFFICES ASSUME ExecutionInv, [Next]_vars PROVE ExecutionInv'
    OBVIOUS
  <2> DEFINE tables == read[engine]
  <2>0. /\ place # "finished" => engine \in Engines
        /\ place \notin {"finished", "reading"} => DOMAIN tables = Sides
        /\ place # "finished" => Follows(request, place, tables, frame)
        /\ place \in Places
    BY DEF ExecutionInv, ReadInv
  <2>1. ASSUME NEW side, Read(side) PROVE ExecutionInv'
    <3>1. /\ request' = request /\ engine' = engine /\ place' = place /\ frame' = frame
          /\ answer' = answer /\ place = "reading" /\ engine \in Engines
          /\ side \in Sides \ DOMAIN read[engine]
      BY <2>0, <2>1 DEF Read
    <3>2. PICK f \in Fetched(request.sources[side]) :
                read' = [read EXCEPT ![engine] = [x \in {side} \cup DOMAIN @ |->
                                                    IF x = side THEN f ELSE @[x]]]
      BY <2>1 DEF Read
    <3>3. f \in ReadBy(request, engine, side)
      BY <3>1, <3>2 DEF Fetched, ReadBy, Engines, Joined, Sides
    <3>4. /\ DOMAIN read' = Engines
          /\ read'[engine] = [x \in {side} \cup DOMAIN read[engine] |->
                                IF x = side THEN f ELSE read[engine][x]]
          /\ \A e \in Engines \ {engine} : read'[e] = read[e]
      BY <3>1, <3>2 DEF ExecutionInv, ReadInv
    <3>5. /\ DOMAIN read'[engine] = {side} \cup DOMAIN read[engine]
          /\ read'[engine][side] = f
          /\ \A t \in DOMAIN read[engine] \ {side} : read'[engine][t] = read[engine][t]
      BY <3>4
    <3>6. ReadInv'
      BY <3>1, <3>3, <3>4, <3>5 DEF ExecutionInv, ReadInv, Finished, Sides, Engines
    <3>7. AnswerInv'
      BY <3>1, <3>4 DEF ExecutionInv, AnswerInv, Finished, Engines
    <3>8. Follows(request, place, read[engine], frame)'
      BY <3>1, <2>0 DEF Follows
    <3> QED BY <3>1, <3>6, <3>7, <3>8 DEF ExecutionInv, Engines
  <2>2. CASE Join
    <3>1. place = "reading" /\ DOMAIN read[engine] = Sides
      BY <2>2 DEF Join
    <3>2. Step("reading", "deriving", {JoinedOf(request, tables)})
      BY <2>2 DEF Join, JoinedOf, Joined, Sides
    <3>3. Follows(request, "deriving", tables, JoinedOf(request, tables))
      BY DEF Follows
    <3> HIDE DEF tables
    <3>4. \A f \in {JoinedOf(request, tables)} : Follows(request, "deriving", tables, f)
      BY <3>3
    <3> QED BY <3>1, <3>2, <3>4, Carried DEF tables, Places
  <2>3. CASE Derive
    <3> DEFINE frames == {apply_derived_columns(frame, request.derived)}
    <3>1. Step("deriving", "filtering", frames) /\ frame # Failure /\ place = "deriving"
      BY <2>3 DEF Derive, Step
    <3>2. \A f \in frames : Follows(request, "filtering", read[engine], f)
      BY <2>0, <3>1 DEF Follows, DerivedOf
    <3> HIDE DEF frames
    <3> QED BY <3>1, <3>2, Carried DEF Places
  <2>4. CASE Filter
    <3> DEFINE frames == {apply_filters(frame, request.filters, request.logic)}
    <3>1. Step("filtering", "grouping", frames) /\ frame # Failure /\ place = "filtering"
      BY <2>4 DEF Filter, Step
    <3>2. \A f \in frames : Follows(request, "grouping", read[engine], f)
      BY <2>0, <3>1 DEF Follows, FilteredOf
    <3> HIDE DEF frames
    <3> QED BY <3>1, <3>2, Carried DEF Places
  <2>5. CASE Group
    <3> DEFINE frames == {apply_group_by(frame, request.group)}
    <3>1. Step("grouping", "deduplicating", frames) /\ frame # Failure /\ place = "grouping"
      BY <2>5 DEF Group, Step
    <3>2. \A f \in frames : Follows(request, "deduplicating", read[engine], f)
      BY <2>0, <3>1 DEF Follows, GroupedOf, Base
    <3> HIDE DEF frames
    <3> QED BY <3>1, <3>2, Carried DEF Places
  <2>6. CASE Distinct
    <3> DEFINE frames == apply_distinct(frame, request.distinct)
    <3>1. Step("deduplicating", "sorting", frames) /\ frame # Failure /\ place = "deduplicating"
      BY <2>6 DEF Distinct, Step
    <3>2. \A f \in frames : Follows(request, "sorting", read[engine], f)
      BY <2>0, <3>1 DEF Follows, Distincts
    <3> HIDE DEF frames
    <3> QED BY <3>1, <3>2, Carried DEF Places
  <2>7. CASE Sort
    <3> DEFINE frames == IF request.sorts = <<>> THEN {frame} ELSE apply_sort(frame, request.sorts)
    <3>1. Step("sorting", "transforming", frames) /\ frame # Failure /\ place = "sorting"
      BY <2>7 DEF Sort, Step
    <3>2. \A f \in frames : Follows(request, "transforming", read[engine], f)
      <4>1. frame \in Distincts(request, Base(request, tables)) /\ frames = Sorts(request, frame)
        BY <2>0, <3>1 DEF Follows, Sorts
      <4> QED BY <4>1 DEF Follows
    <3> HIDE DEF frames
    <3> QED BY <3>1, <3>2, Carried DEF Places
  <2>8. CASE Transform
    <3> DEFINE frames == {apply_transforms(frame, request.transforms)}
    <3>1. Step("transforming", "finishing", frames) /\ frame # Failure /\ place = "transforming"
      BY <2>8 DEF Transform, Step
    <3>2. \A f \in frames : Follows(request, "finishing", read[engine], f)
      <4>1. PICK d \in Distincts(request, Base(request, tables)) : frame \in Sorts(request, d)
        BY <2>0, <3>1 DEF Follows
      <4>2. frames = {TransformedOf(request, frame)}
        BY <3>1 DEF TransformedOf
      <4> QED BY <4>1, <4>2 DEF Follows
    <3> HIDE DEF frames
    <3> QED BY <3>1, <3>2, Carried DEF Places
  <2>9. CASE Finish
    <3>1. place = "finishing" /\ engine \in Engines /\ DOMAIN tables = Sides
      BY <2>0, <2>9 DEF Finish
    <3>2. PICK d \in Distincts(request, Base(request, tables)) :
            \E s \in Sorts(request, d) : frame = TransformedOf(request, s)
      BY <2>0, <3>1 DEF Follows
    <3>3. PICK s \in Sorts(request, d) : frame = TransformedOf(request, s)
      BY <3>2
    <3>4. PICK f \in Heads(frame, request.sorts # <<>>) : End(f)
      BY <2>9 DEF Finish
    <3>5. Outcome(request, tables, f)
      BY <3>2, <3>3, <3>4 DEF Outcome
    <3> QED BY <3>1, <3>4, <3>5, Ended
  <2>10. CASE Fail
    <3>1. frame = Failure /\ End(Failure)
      BY <2>10 DEF Fail
    <3>2. place \in Places \ {"reading", "finished"}
      BY <2>0, <3>1, FramesDiffer DEF ExecutionInv, Follows
    <3>3. Outcome(request, tables, Failure)
      BY <2>0, <3>1, <3>2, FailureStays
    <3> QED BY <2>0, <3>1, <3>2, <3>3, Ended
  <2>11. CASE UNCHANGED vars
    BY <2>11 DEF vars, ExecutionInv, ReadInv, AnswerInv, Finished, Sides
  <2> QED BY <2>1, <2>2, <2>3, <2>4, <2>5, <2>6, <2>7, <2>8, <2>9, <2>10, <2>11 DEF Next
<1> QED BY <1>1, <1>2, PTL DEF Spec

\* A frame that is cut has as many rows as a result may have.
LEMMA HeadsCut ==
    ASSUME NEW f, IsFrame(f), NEW sorted, NEW g \in Heads(f, sorted)
    PROVE  IsFrame(g) /\ (g = f \/ Len(g.rows) = MaxRows)
<1>1. CASE Len(f.rows) <= MaxRows
  BY <1>1 DEF Heads
<1>2. CASE ~(Len(f.rows) <= MaxRows) /\ sorted
  <2>1. PICK S : f.rows \in Seq(S)
    BY DEF IsFrame
  <2>2. g = [f EXCEPT !.rows = SubSeq(f.rows, 1, MaxRows)]
    BY <1>2 DEF Heads
  <2> DEFINE rows == SubSeq(f.rows, 1, MaxRows)
  <2>3. rows \in Seq(S) /\ Len(rows) = MaxRows
    BY <1>2, <2>1, RequestsAssumption
  <2>6. \A i \in DOMAIN rows : \E j \in DOMAIN f.rows : rows[i] = f.rows[j]
    BY <1>2, <2>1, RequestsAssumption
  <2> HIDE DEF rows
  <2>4. /\ g = [f EXCEPT !.rows = rows]
        /\ \E T : rows \in Seq(T)
    BY <2>2, <2>3 DEF rows
  <2>5. /\ [f EXCEPT !.rows = rows] = [columns |-> f.columns, types |-> f.types, rows |-> rows]
        /\ IsFrame([f EXCEPT !.rows = rows])
    BY <2>4, <2>6, OtherRows
  <2> QED BY <2>3, <2>4, <2>5
<1>3. CASE ~(Len(f.rows) <= MaxRows) /\ ~sorted
  <2>1. PICK K \in kSubset(MaxRows, DOMAIN f.rows) : g = KeptAt(f, K)
    BY <1>3 DEF Heads
  <2>2. K \in SUBSET DOMAIN f.rows /\ Cardinality(K) = MaxRows
    BY DEF kSubset
  <2> QED BY <2>1, <2>2, KeptAtFrame
<1> QED BY <1>1, <1>2, <1>3

LEMMA ReadFrames ==
    ASSUME NEW r \in Requests, NEW e, NEW side \in DOMAIN r.sources, NEW f \in ReadBy(r, e, side)
    PROVE  IsFrame(f)
<1> DEFINE source == r.sources[side]
           run     == execute_single_source(source.type, source.table, source.q)
           process == ProcessQuery(source.type, source.table, source.q)
<1>1. source.type \in Connectors /\ IsTable(source.table)
  BY RequestsAssumption DEF IsSource
<1> HIDE DEF source
<1>2. IsFrame(run)
  BY <1>1, ExecuteQueryFrame, EmptyFrames, FrameOfFrame DEF execute_single_source, AtMost
<1>3. IsFrame(process)
  <2> DEFINE u == [source.q EXCEPT !.filters = <<>>]
             g == execute_single_source(source.type, source.table, u)
  <2>1. IsFrame(g)
    <3> HIDE DEF u
    <3> QED BY <1>1, ExecuteQueryFrame, EmptyFrames, FrameOfFrame DEF execute_single_source, AtMost
  <2> HIDE DEF g
  <2> QED BY <2>1, EmptyFrames, ApplyFiltersFrame DEF ProcessQuery, g
<1>4. f \in {process, run} \cup Heads(run, FALSE)
  BY DEF ReadBy, source
<1> HIDE DEF run, process
<1> QED BY <1>2, <1>3, <1>4, HeadsCut

\* The sequence of a finite set has all its elements.
LEMMA SequenceOfSet ==
    ASSUME NEW S, IsFiniteSet(S)
    PROVE  /\ Cardinality(S) \in Nat /\ DOMAIN SetToSeq(S) = 1..Cardinality(S)
           /\ \A x \in S : \E m \in 1..Cardinality(S) : SetToSeq(S)[m] = x
           /\ \A m \in 1..Cardinality(S) : SetToSeq(S)[m] \in S
<1> DEFINE n == Cardinality(S)
<1>1. n \in Nat /\ ExistsBijection(1..n, S)
  BY FS_CardinalityType
<1>2. \E f \in [1..n -> S] : IsInjective(f)
  BY <1>1 DEF ExistsBijection, Bijection, Injection
<1>3. SetToSeq(S) \in [1..n -> S] /\ IsInjective(SetToSeq(S))
  BY <1>2 DEF SetToSeq
<1>4. SetToSeq(S) \in Injection(1..n, S)
  BY <1>3 DEF Injection
<1>5. IsFiniteSet(1..n) /\ Cardinality(1..n) = n
  BY <1>1, FS_Interval
<1>6. SetToSeq(S) \in Surjection(1..n, S)
  <2> HIDE DEF n
  <2> QED BY <1>4, <1>5, FS_Injection DEF n
<1> QED BY <1>1, <1>3, <1>6 DEF Surjection

\* Every row of the left side is among some rows, as far as its columns go.
HasLeft(left, rows) ==
    \A i \in DOMAIN left.rows : \E m \in DOMAIN rows :
        \A c \in left.columns : rows[m][c] = left.rows[i][c]

\* The same, when a key may have been cast to text.
HasTexts(left, rows) ==
    \A i \in DOMAIN left.rows : \E m \in DOMAIN rows : \A c \in left.columns :
        rows[m][c] \in {left.rows[i][c], AsText(left.rows[i][c], left.types[c])}

\* A join gives a frame, and a left or outer one loses no row of the left side.
LEMMA PolarsJoinKeeps ==
    ASSUME NEW left, IsFrame(left), NEW right, IsFrame(right), NEW join
    PROVE  LET f == PolarsJoin(left, right, join)
           IN  /\ IsFrame(f)
               /\ join.how \in {"left", "outer"} => HasLeft(left, f.rows)
<1> DEFINE mine    == LeftPart(left, join)
           Name(c) == JoinedName(left, join, c)
           theirs  == {Name(c) : c \in RightPart(right, join)}
           Origin(c) == CHOOSE d \in RightPart(right, join) : Name(d) = c
           pairs   == {p \in (DOMAIN left.rows) \X (DOMAIN right.rows) :
                           KeysMatch(left.rows[p[1]], right.rows[p[2]], join)}
           all     == pairs \cup Unmatched(left, right, join)
           Cell(p, c) == IF c \in mine
                         THEN IF p[1] = 0 THEN Null ELSE left.rows[p[1]][c]
                         ELSE IF p[2] = 0 THEN Null ELSE right.rows[p[2]][Origin(c)]
           columns == mine \cup theirs
           types   == [c \in columns |-> IF c \in mine THEN left.types[c] ELSE right.types[Origin(c)]]
           Rows(order) == [n \in DOMAIN order |-> [c \in columns |-> Cell(order[n], c)]]
<1>1. PolarsJoin(left, right, join) = [columns |-> columns, types |-> types, rows |-> Rows(SetToSeq(all))]
  BY DEF PolarsJoin
<1>2. /\ DOMAIN left.rows = 1..Len(left.rows) /\ Len(left.rows) \in Nat
      /\ DOMAIN right.rows = 1..Len(right.rows) /\ Len(right.rows) \in Nat
  BY FrameRows
<1>3. IsFiniteSet(all)
  <2> DEFINE L == 0..Len(left.rows)
             R == 0..Len(right.rows)
  <2>1. IsFiniteSet(L) /\ IsFiniteSet(R)
    BY <1>2, FS_Interval
  <2>2. all \in SUBSET (L \X R)
    <3>1. pairs \subseteq L \X R
      BY <1>2
    <3>2. Unmatched(left, right, join) \subseteq L \X R
      BY <1>2 DEF Unmatched
    <3> QED BY <3>1, <3>2
  <2> HIDE DEF L, R, all
  <2>3. IsFiniteSet(L \X R)
    BY <2>1, FS_Product
  <2> QED BY <2>2, <2>3, FS_Subset
<1> HIDE DEF all
<1>4. /\ Cardinality(all) \in Nat /\ DOMAIN SetToSeq(all) = 1..Cardinality(all)
      /\ \A p \in all : \E m \in 1..Cardinality(all) : SetToSeq(all)[m] = p
  BY <1>3, SequenceOfSet
<1> DEFINE rows == Rows(SetToSeq(all))
<1>5. IsFrame([columns |-> columns, types |-> types, rows |-> rows])
  <2>1. /\ DOMAIN rows = 1..Cardinality(all) /\ rows = [i \in 1..Cardinality(all) |-> rows[i]]
        /\ \A i \in 1..Cardinality(all) : IsRow(rows[i], columns)
    BY <1>4 DEF IsRow
  <2> HIDE DEF rows, columns, types
  <2> QED BY <1>4, <2>1, MakesFrame
<1>6. ASSUME join.how \in {"left", "outer"}, NEW i \in DOMAIN left.rows
      PROVE  \E m \in DOMAIN rows : \A c \in left.columns : rows[m][c] = left.rows[i][c]
  <2>1. mine = left.columns
    BY <1>6 DEF LeftPart
  <2>2. \E j : <<i, j>> \in all
    <3>1. CASE \E j \in DOMAIN right.rows : KeysMatch(left.rows[i], right.rows[j], join)
      <4>1. PICK j \in DOMAIN right.rows : KeysMatch(left.rows[i], right.rows[j], join)
        BY <3>1
      <4>2. <<i, j>> \in pairs
        BY <1>6, <4>1
      <4> QED BY <4>2 DEF all
    <3>2. CASE ~ \E j \in DOMAIN right.rows : KeysMatch(left.rows[i], right.rows[j], join)
      <4>1. <<i, 0>> \in Unmatched(left, right, join)
        BY <1>6, <3>2 DEF Unmatched
      <4> QED BY <4>1 DEF all
    <3> QED BY <3>1, <3>2
  <2>3. PICK j : <<i, j>> \in all
    BY <2>2
  <2>4. PICK m \in 1..Cardinality(all) : SetToSeq(all)[m] = <<i, j>>
    BY <1>4, <2>3
  <2>5. m \in DOMAIN rows /\ i # 0
    BY <1>2, <1>4, <2>4
  <2>6. ASSUME NEW c \in left.columns PROVE rows[m][c] = left.rows[i][c]
    <3>1. rows[m][c] = Cell(<<i, j>>, c)
      BY <1>4, <2>1, <2>4
    <3> QED BY <2>1, <2>5, <3>1
  <2> QED BY <2>5, <2>6
<1> HIDE DEF rows, columns, types
<1>7. PolarsJoin(left, right, join).rows = rows /\ IsFrame(PolarsJoin(left, right, join))
  BY <1>1, <1>5 DEF rows
<1> QED BY <1>6, <1>7 DEF HasLeft

\* A frame of which some columns were cast to text.
IsCast(g, f) ==
    /\ IsFrame(g) /\ g.columns = f.columns /\ DOMAIN g.rows = DOMAIN f.rows
    /\ g.types = [c \in f.columns |-> g.types[c]]
    /\ \A c \in f.columns : g.types[c] \in {"text", f.types[c]}
    /\ \A i \in DOMAIN f.rows : \A c \in f.columns :
            g.rows[i][c] \in {f.rows[i][c], AsText(f.rows[i][c], f.types[c])}

LEMMA CoercedFrame ==
    ASSUME NEW f, IsFrame(f), NEW on, NEW other, NEW otherOn
    PROVE  IsCast(CoerceJoinKeys(f, on, other, otherOn), f)
<1> DEFINE cast == {c \in f.columns : \E n \in DOMAIN on :
                        on[n] = c /\ f.types[c] # other.types[otherOn[n]]}
           t    == [c \in f.columns |-> IF c \in cast THEN "text" ELSE f.types[c]]
           rows == [i \in DOMAIN f.rows |-> [c \in f.columns |->
                        IF c \in cast THEN AsText(f.rows[i][c], f.types[c]) ELSE f.rows[i][c]]]
           n    == Len(f.rows)
<1>1. CoerceJoinKeys(f, on, other, otherOn) = [[f EXCEPT !.types = t] EXCEPT !.rows = rows]
  BY DEF CoerceJoinKeys, IsFrame
<1>2. n \in Nat /\ DOMAIN f.rows = 1..n
  BY FrameRows
<1>3. /\ \A i \in DOMAIN f.rows : \A c \in f.columns :
            rows[i][c] \in {f.rows[i][c], AsText(f.rows[i][c], f.types[c])}
      /\ \A c \in f.columns : t[c] \in {"text", f.types[c]}
      /\ t = [c \in f.columns |-> t[c]]
  <2> HIDE DEF cast
  <2> QED OBVIOUS
<1>4. /\ DOMAIN rows = 1..n /\ rows = [i \in 1..n |-> rows[i]]
      /\ \A i \in 1..n : IsRow(rows[i], f.columns)
  <2> HIDE DEF cast, n
  <2> QED BY <1>2 DEF IsRow
<1> HIDE DEF t, rows, n
<1>5. IsFrame([columns |-> f.columns, types |-> t, rows |-> rows])
  BY <1>2, <1>4, MakesFrame
<1>6. CoerceJoinKeys(f, on, other, otherOn) = [columns |-> f.columns, types |-> t, rows |-> rows]
  BY <1>1 DEF IsFrame
<1> QED BY <1>2, <1>3, <1>4, <1>5, <1>6 DEF IsCast

\* What OuterKeepsRows says of the rows that come of a join.
RowsOfJoin(left, right, rows) ==
    IF right.rows = <<>> THEN rows = <<>> ELSE HasTexts(left, rows)

LEMMA JoinKeeps ==
    ASSUME NEW left, IsFrame(left), NEW right, IsFrame(right), NEW join
    PROVE  LET f == JoinFrames(left, right, join)
           IN  /\ IsFrame(f)
               /\ f # Failure /\ join.how \in {"left", "outer"} =>
                        RowsOfJoin(left, right, f.rows)
<1> DEFINE l == CoerceJoinKeys(left, join.left_on, right, join.right_on)
           r == CoerceJoinKeys(right, join.right_on, left, join.left_on)
<1>1. /\ IsFrame(l) /\ l.columns = left.columns /\ DOMAIN l.rows = DOMAIN left.rows
      /\ IsFrame(r)
      /\ \A i \in DOMAIN left.rows : \A c \in left.columns :
            l.rows[i][c] \in {left.rows[i][c], AsText(left.rows[i][c], left.types[c])}
  <2>1. IsCast(l, left) /\ IsCast(r, right)
    BY CoercedFrame
  <2> HIDE DEF l, r
  <2> QED BY <2>1 DEF IsCast
<1>2. CASE <<>> \in {left.rows, right.rows}
  <2>1. JoinFrames(left, right, join) = NoFrame
    BY <1>2 DEF JoinFrames
  <2>2. left.rows = <<>> => DOMAIN left.rows = {}
    OBVIOUS
  <2> QED BY <1>2, <2>1, <2>2, EmptyFrames, FramesDiffer DEF RowsOfJoin, HasTexts
<1>3. CASE <<>> \notin {left.rows, right.rows}
  <2>1. JoinFrames(left, right, join) \in {Failure, PolarsJoin(l, r, join)}
    <3>1. JoinInputs(left, right, join)[1] = l /\ JoinInputs(left, right, join)[2] = r
      BY DEF JoinInputs
    <3> HIDE DEF l, r
    <3> QED BY <1>3, <3>1 DEF JoinFrames
  <2> HIDE DEF l, r
  <2>2. /\ IsFrame(PolarsJoin(l, r, join))
        /\ join.how \in {"left", "outer"} => HasLeft(l, PolarsJoin(l, r, join).rows)
    BY <1>1, PolarsJoinKeeps
  <2>3. ASSUME NEW rows, HasLeft(l, rows) PROVE HasTexts(left, rows)
    <3> SUFFICES ASSUME NEW i \in DOMAIN left.rows
                 PROVE  \E m \in DOMAIN rows : \A c \in left.columns :
                    rows[m][c] \in {left.rows[i][c], AsText(left.rows[i][c], left.types[c])}
      BY DEF HasTexts
    <3>1. PICK m \in DOMAIN rows : \A c \in l.columns : rows[m][c] = l.rows[i][c]
      BY <1>1, <2>3 DEF HasLeft
    <3> QED BY <1>1, <3>1
  <2> QED BY <1>3, <2>1, <2>2, <2>3, EmptyFrames DEF RowsOfJoin
<1> QED BY <1>2, <1>3

-----------------------------------------------------------------------------
(* A request that only joins.                                                  *)

\* Derived columns and transforms are added one after the other.
One(operation, f, spec) ==
    IF operation = "derive" THEN DeriveOne(f, spec) ELSE TransformOne(f, spec)

IsChain(operation, f, specs, L, g) ==
    g = [n \in 0..L |-> IF n = 0 THEN f ELSE One(operation, g[n - 1], specs[n])]

LEMMA InOrder ==
    ASSUME NEW operation, NEW f, NEW specs, NEW L \in Nat
    PROVE  \E g : IsChain(operation, f, specs, L, g)
<1> DEFINE Chain(m) == \E g : g = [n \in 0..m |-> IF n = 0 THEN f ELSE One(operation, g[n - 1], specs[n])]
           Bad == {m \in Nat : ~Chain(m)}
<1>1. Bad = {}
  <2> SUFFICES ASSUME Bad # {} PROVE FALSE
    OBVIOUS
  <2>1. PICK m \in Bad : \A j \in Bad : ~(<<j, m>> \in OpToRel(<, Nat))
    <3>1. Bad \in SUBSET Nat
      OBVIOUS
    <3> HIDE DEF Bad
    <3> QED BY <3>1, NatLessThanWellFounded, WFMin
  <2>2. m \in Nat /\ ~Chain(m)
    BY <2>1
  <2>3. CASE m = 0
    <3>1. [n \in 0..0 |-> f] = [n \in 0..0 |-> IF n = 0 THEN f ELSE
                                 One(operation, [k \in 0..0 |-> f][n - 1], specs[n])]
      OBVIOUS
    <3> QED BY <2>2, <2>3, <3>1
  <2>4. CASE m # 0
    <3>1. m - 1 \in Nat /\ <<m - 1, m>> \in OpToRel(<, Nat)
      BY <2>2, <2>4 DEF OpToRel
    <3>2. PICK g : g = [n \in 0..(m - 1) |-> IF n = 0 THEN f ELSE One(operation, g[n - 1], specs[n])]
      BY <2>1, <3>1
    <3> DEFINE h == [n \in 0..m |-> IF n = m THEN One(operation, g[m - 1], specs[m]) ELSE g[n]]
    <3>3. ASSUME NEW n \in 0..m
          PROVE  h[n] = IF n = 0 THEN f ELSE One(operation, h[n - 1], specs[n])
      <4>1. CASE n = m
        <5>1. h[n - 1] = g[m - 1] /\ n # 0
          BY <2>2, <2>4, <4>1
        <5> QED BY <4>1, <5>1
      <4>2. CASE n # m
        <5>1. n \in 0..(m - 1) /\ h[n] = g[n]
          BY <2>2, <4>2
        <5>2. n # 0 => h[n - 1] = g[n - 1]
          BY <2>2, <4>2
        <5>3. g[n] = IF n = 0 THEN f ELSE One(operation, g[n - 1], specs[n])
          BY <3>2, <5>1
        <5> QED BY <5>1, <5>2, <5>3
      <4> QED BY <4>1, <4>2
    <3>4. h = [n \in 0..m |-> h[n]]
      OBVIOUS
    <3> HIDE DEF h
    <3>5. h = [n \in 0..m |-> IF n = 0 THEN f ELSE One(operation, h[n - 1], specs[n])]
      BY <3>3, <3>4
    <3> QED BY <2>2, <3>5
  <2> QED BY <2>3, <2>4
<1> QED BY <1>1 DEF IsChain

LEMMA DerivesInOrder ==
    ASSUME NEW f, NEW S, NEW specs \in Seq(S)
    PROVE  \E after : /\ after[0] = f
                      /\ \A n \in 1..Len(specs) : after[n] = DeriveOne(after[n - 1], specs[n])
                      /\ apply_derived_columns(f, specs) = after[Len(specs)]
<1> DEFINE L == Len(specs)
           after == CHOOSE g : g = [n \in 0..L |-> IF n = 0 THEN f ELSE DeriveOne(g[n - 1], specs[n])]
<1>1. L \in Nat
  OBVIOUS
<1> HIDE DEF L
<1>2. PICK g : IsChain("derive", f, specs, L, g)
  BY <1>1, InOrder
<1>3. g = [n \in 0..L |-> IF n = 0 THEN f ELSE DeriveOne(g[n - 1], specs[n])]
  BY <1>2 DEF One, IsChain
<1>4. after = [n \in 0..L |-> IF n = 0 THEN f ELSE DeriveOne(after[n - 1], specs[n])]
  BY <1>3
<1>5. apply_derived_columns(f, specs) = after[L]
  BY DEF apply_derived_columns, L
<1> HIDE DEF after
<1>6. after[0] = f /\ \A n \in 1..L : after[n] = DeriveOne(after[n - 1], specs[n])
  BY <1>1, <1>4
<1> QED BY <1>5, <1>6 DEF L

LEMMA TransformsInOrder ==
    ASSUME NEW f, NEW S, NEW specs \in Seq(S)
    PROVE  \E after : /\ after[0] = f
                      /\ \A n \in 1..Len(specs) : after[n] = TransformOne(after[n - 1], specs[n])
                      /\ apply_transforms(f, specs) = after[Len(specs)]
<1> DEFINE L == Len(specs)
           after == CHOOSE g : g = [n \in 0..L |-> IF n = 0 THEN f ELSE TransformOne(g[n - 1], specs[n])]
<1>1. L \in Nat
  OBVIOUS
<1> HIDE DEF L
<1>2. PICK g : IsChain("transform", f, specs, L, g)
  BY <1>1, InOrder
<1>3. g = [n \in 0..L |-> IF n = 0 THEN f ELSE TransformOne(g[n - 1], specs[n])]
  BY <1>2 DEF One, IsChain
<1>4. after = [n \in 0..L |-> IF n = 0 THEN f ELSE TransformOne(after[n - 1], specs[n])]
  BY <1>3
<1>5. apply_transforms(f, specs) = after[L]
  BY DEF apply_transforms, L
<1> HIDE DEF after
<1>6. after[0] = f /\ \A n \in 1..L : after[n] = TransformOne(after[n - 1], specs[n])
  BY <1>1, <1>4
<1> QED BY <1>5, <1>6 DEF L

LEMMA FoldsOfNothing ==
    ASSUME NEW f
    PROVE  apply_derived_columns(f, <<>>) = f /\ apply_transforms(f, <<>>) = f
<1>1. <<>> \in Seq({}) /\ Len(<<>>) = 0
  OBVIOUS
<1>2. apply_derived_columns(f, <<>>) = f
  BY <1>1, DerivesInOrder
<1>3. apply_transforms(f, <<>>) = f
  BY <1>1, TransformsInOrder
<1> QED BY <1>2, <1>3

\* Sorting changes nothing but the order of the rows.
LEMMA SortedRows ==
    ASSUME NEW f, IsFrame(f), NEW sorts, NEW g \in apply_sort(f, sorts),
           g # Failure \/ \A n \in DOMAIN sorts : sorts[n].column \in f.columns
    PROVE  /\ IsFrame(g)
           /\ \E p \in Bijection(DOMAIN f.rows, DOMAIN f.rows) :
                g = [columns |-> f.columns, types |-> f.types,
                     rows |-> [i \in DOMAIN f.rows |-> f.rows[p[i]]]]
<1>1. PICK p \in Bijection(DOMAIN f.rows, DOMAIN f.rows) :
            g = [f EXCEPT !.rows = [i \in DOMAIN f.rows |-> f.rows[p[i]]]]
  BY DEF apply_sort
<1> DEFINE rows == [i \in DOMAIN f.rows |-> f.rows[p[i]]]
           n == Len(f.rows)
<1>2. n \in Nat /\ DOMAIN f.rows = 1..n
  BY FrameRows
<1>3. /\ DOMAIN rows = 1..n /\ rows = [i \in 1..n |-> rows[i]]
      /\ \A i \in DOMAIN rows : \E j \in DOMAIN f.rows : rows[i] = f.rows[j]
  <2>1. p \in [DOMAIN f.rows -> DOMAIN f.rows]
    BY DEF Bijection, Injection
  <2> QED BY <1>2, <2>1
<1> HIDE DEF rows, n
<1>4. \E S : rows \in Seq(S)
  BY <1>2, <1>3, IsSequence
<1>5. g = [f EXCEPT !.rows = rows]
  BY <1>1 DEF rows
<1>6. g = [columns |-> f.columns, types |-> f.types, rows |-> rows] /\ IsFrame(g)
  BY <1>3, <1>4, <1>5, OtherRows
<1> QED BY <1>6 DEF rows

LEMMA NoOperations ==
    ASSUME NEW r, SortOnly(r), NEW f, IsFrame(f)
    PROVE  /\ select_columns(f, r.select) = f
           /\ GroupedOf(r, FilteredOf(r, DerivedOf(r, f))) = f
           /\ Distincts(r, f) = {f} /\ TransformedOf(r, f) = f
<1>1. select_columns(f, r.select) = f
  BY DEF SortOnly, select_columns
<1>2. DerivedOf(r, f) = f
  BY FoldsOfNothing DEF SortOnly, DerivedOf
<1>3. FilteredOf(r, f) = f
  <2>1. PICK S : f.rows \in Seq(S)
    BY DEF IsFrame
  <2>2. apply_filters([columns |-> f.columns, types |-> f.types, rows |-> f.rows], <<>>, r.logic)
          = [columns |-> f.columns, types |-> f.types, rows |-> f.rows]
    BY <2>1, NoFilters
  <2>3. apply_filters(f, <<>>, r.logic) = f
    BY <2>2 DEF IsFrame
  <2> QED BY <2>3 DEF FilteredOf, SortOnly
<1>4. GroupedOf(r, f) = f
  BY DEF GroupedOf, SortOnly, apply_group_by
<1>5. Distincts(r, f) = {f}
  BY DEF Distincts, SortOnly, apply_distinct
<1>6. TransformedOf(r, f) = f
  BY FoldsOfNothing DEF SortOnly, TransformedOf
<1> QED BY <1>1, <1>2, <1>3, <1>4, <1>5, <1>6

LEMMA RowsReordered ==
    ASSUME NEW left, NEW right, NEW rows, NEW p \in Bijection(DOMAIN rows, DOMAIN rows),
           RowsOfJoin(left, right, rows)
    PROVE  RowsOfJoin(left, right, [i \in DOMAIN rows |-> rows[p[i]]])
<1> DEFINE sorted == [i \in DOMAIN rows |-> rows[p[i]]]
<1>1. CASE right.rows = <<>>
  <2>1. rows = <<>> /\ sorted = <<>>
    BY <1>1 DEF RowsOfJoin
  <2> QED BY <1>1, <2>1 DEF RowsOfJoin
<1>2. CASE right.rows # <<>>
  <2>1. ASSUME NEW i \in DOMAIN left.rows
        PROVE  \E m \in DOMAIN sorted : \A c \in left.columns :
                    sorted[m][c] \in {left.rows[i][c], AsText(left.rows[i][c], left.types[c])}
    <3>1. PICK m \in DOMAIN rows : \A c \in left.columns :
                    rows[m][c] \in {left.rows[i][c], AsText(left.rows[i][c], left.types[c])}
      BY <1>2 DEF RowsOfJoin, HasTexts
    <3>2. PICK j \in DOMAIN rows : p[j] = m
      BY <3>1 DEF Bijection, Surjection
    <3>3. j \in DOMAIN sorted /\ sorted[j] = rows[m]
      BY <3>2
    <3> QED BY <3>1, <3>3
  <2> QED BY <1>2, <2>1 DEF RowsOfJoin, HasTexts
<1> QED BY <1>1, <1>2

LEMMA OutcomeKeeps ==
    ASSUME NEW r \in Requests, SortOnly(r), "right" \in DOMAIN r.sources,
           r.join.how \in {"left", "outer"}, NEW tables,
           \A side \in {"left", "right"} : IsFrame(tables[side]),
           NEW a, Outcome(r, tables, a)
    PROVE  a = Failure \/ Len(a.rows) = MaxRows
             \/ RowsOfJoin(tables["left"], tables["right"], a.rows)
<1> DEFINE Good(f) == f # Failure => RowsOfJoin(tables["left"], tables["right"], f.rows)
           f0 == JoinedOf(r, tables)
<1>1. IsFrame(f0) /\ Good(f0)
  <2> DEFINE j == JoinFrames(tables["left"], tables["right"], r.join)
  <2>1. IsFrame(j) /\ Good(j)
    BY JoinKeeps
  <2>2. f0 \in {Failure, select_columns(j, r.select)}
    BY DEF JoinedOf, SortOnly
  <2> HIDE DEF j, f0
  <2>3. f0 \in {Failure, j}
    BY <2>1, <2>2, NoOperations
  <2> QED BY <2>1, <2>3, EmptyFrames
<1> HIDE DEF f0
<1>2. Base(r, tables) = f0
  BY <1>1, NoOperations DEF Base, f0
<1>3. PICK s \in Sorts(r, f0) : a \in Heads(TransformedOf(r, s), r.sorts # <<>>)
  BY <1>1, <1>2, NoOperations DEF Outcome
<1>4. IsFrame(s) /\ Good(s)
  <2>1. CASE s = Failure
    BY <2>1, EmptyFrames
  <2>2. CASE s # Failure /\ s \in apply_sort(f0, r.sorts) /\ f0 # Failure
    <3>1. IsFrame(s)
      BY <1>1, <2>2, SortedRows
    <3>2. PICK p \in Bijection(DOMAIN f0.rows, DOMAIN f0.rows) :
                s = [columns |-> f0.columns, types |-> f0.types,
                     rows |-> [i \in DOMAIN f0.rows |-> f0.rows[p[i]]]]
      BY <1>1, <2>2, SortedRows
    <3>3. s.rows = [i \in DOMAIN f0.rows |-> f0.rows[p[i]]]
      BY <3>2
    <3> QED BY <1>1, <2>2, <3>1, <3>3, RowsReordered
  <2>3. CASE s # Failure /\ s = f0
    BY <1>1, <2>3
  <2> QED BY <1>3, <2>1, <2>2, <2>3 DEF Sorts
<1>5. TransformedOf(r, s) = s
  BY <1>4, NoOperations
<1>6. a = s \/ Len(a.rows) = MaxRows
  BY <1>3, <1>4, <1>5, HeadsCut
<1> QED BY <1>4, <1>6

\* A left or outer join of either engine has every row read on the left, its keys
\* as they were or cast to text, unless nothing was read on the right, which
\* empties it (execute_join_from_results, execute_process), or the row limit cut
\* it: whatever the tables, the keys, the filters of the sources and the sort.
THEOREM OuterJoinsKeepTheLeft == Spec => []OuterKeepsRows
<1>1. ExecutionInv => OuterKeepsRows
  <2> SUFFICES ASSUME ExecutionInv, engine = "done", Joined, SortOnly(request),
                      request.join.how \in {"left", "outer"}, NEW e \in Engines
               PROVE  LET left  == read[e]["left"]
                          right == read[e]["right"]
                      IN  answer[e] = Failure \/ Len(answer[e].rows) = MaxRows \/
                          IF right.rows = <<>> THEN answer[e].rows = <<>>
                          ELSE \A l \in ToSet(left.rows) : \E r \in ToSet(answer[e].rows) :
                                  \A c \in left.columns : r[c] \in {l[c], AsText(l[c], left.types[c])}
    BY DEF OuterKeepsRows, Engines
  <2>1. "right" \in DOMAIN request.sources /\ request \in Requests
    BY DEF Joined, Sides, ExecutionInv
  <2>2. DOMAIN read[e] = Sides /\ {"left", "right"} \subseteq Sides
    BY <2>1, RequestsAssumption DEF ExecutionInv, ReadInv, Finished, Sides
  <2>3. \A side \in {"left", "right"} : IsFrame(read[e][side])
    BY <2>1, <2>2, ReadFrames DEF ExecutionInv, ReadInv, Sides
  <2>4. Outcome(request, read[e], answer[e])
    BY DEF ExecutionInv, AnswerInv, Finished
  <2>5. answer[e] = Failure \/ Len(answer[e].rows) = MaxRows
          \/ RowsOfJoin(read[e]["left"], read[e]["right"], answer[e].rows)
    BY <2>1, <2>3, <2>4, OutcomeKeeps
  <2>6. ASSUME RowsOfJoin(read[e]["left"], read[e]["right"], answer[e].rows)
        PROVE  IF read[e]["right"].rows = <<>> THEN answer[e].rows = <<>>
               ELSE \A l \in ToSet(read[e]["left"].rows) : \E r \in ToSet(answer[e].rows) :
                       \A c \in read[e]["left"].columns :
                            r[c] \in {l[c], AsText(l[c], read[e]["left"].types[c])}
    BY <2>6 DEF RowsOfJoin, HasTexts, ToSet
  <2> QED BY <2>5, <2>6
<1> QED BY <1>1, ExecutionInvHolds, PTL

-----------------------------------------------------------------------------
(* Frames that differ in the order of their rows only.                         *)

Alike(f, g) ==
    /\ IsFrame(f) /\ IsFrame(g)
    /\ f.columns = g.columns /\ f.types = g.types
    /\ \E p \in Bijection(DOMAIN f.rows, DOMAIN g.rows) :
            \A i \in DOMAIN f.rows : f.rows[i] = g.rows[p[i]]

LEMMA BijectionIs ==
    ASSUME NEW S, NEW T, NEW p \in Bijection(S, T)
    PROVE  /\ \A x \in S : p[x] \in T
           /\ \A y \in T : \E x \in S : p[x] = y
           /\ \A x, y \in S : p[x] = p[y] => x = y
  BY DEF Bijection, Injection, Surjection, IsInjective

LEMMA AlikeSelf ==
    ASSUME NEW f, IsFrame(f)
    PROVE  Alike(f, f)
<1> DEFINE D == DOMAIN f.rows
           p == [i \in D |-> i]
<1>1. p \in [D -> D] /\ \A i \in D : p[i] = i
  OBVIOUS
<1> HIDE DEF p
<1>2. p \in Bijection(D, D)
  BY <1>1, Fun_IsBij
<1> QED BY <1>1, <1>2 DEF Alike

LEMMA AlikeBack ==
    ASSUME NEW f, NEW g, Alike(f, g)
    PROVE  Alike(g, f)
<1> DEFINE D == DOMAIN f.rows
           E == DOMAIN g.rows
<1>1. PICK p \in Bijection(D, E) : \A i \in D : f.rows[i] = g.rows[p[i]]
  BY DEF Alike
<1> DEFINE q == Inverse(p, D, E)
<1>2. q \in Bijection(E, D) /\ \A i \in D : q[p[i]] = i
  BY <1>1, Fun_BijInverse
<1> HIDE DEF q
<1>3. ASSUME NEW j \in E PROVE g.rows[j] = f.rows[q[j]]
  <2>1. PICK i \in D : p[i] = j
    BY <1>1, BijectionIs
  <2> QED BY <1>1, <1>2, <2>1
<1> QED BY <1>2, <1>3 DEF Alike

LEMMA AlikeThrough ==
    ASSUME NEW f, NEW g, NEW h, Alike(f, g), Alike(g, h)
    PROVE  Alike(f, h)
<1>1. PICK p \in Bijection(DOMAIN f.rows, DOMAIN g.rows) :
            \A i \in DOMAIN f.rows : f.rows[i] = g.rows[p[i]]
  BY DEF Alike
<1>2. PICK q \in Bijection(DOMAIN g.rows, DOMAIN h.rows) :
            \A i \in DOMAIN g.rows : g.rows[i] = h.rows[q[i]]
  BY DEF Alike
<1> DEFINE pq == [i \in DOMAIN f.rows |-> q[p[i]]]
<1>3. pq \in Bijection(DOMAIN f.rows, DOMAIN h.rows)
  BY <1>1, <1>2, Fun_BijTransitive
<1>4. \A i \in DOMAIN f.rows : pq[i] = q[p[i]] /\ p[i] \in DOMAIN g.rows
  BY <1>1, BijectionIs
<1> HIDE DEF pq
<1>5. \A i \in DOMAIN f.rows : f.rows[i] = h.rows[pq[i]]
  BY <1>1, <1>2, <1>4
<1> QED BY <1>3, <1>5 DEF Alike

\* What frames alike share.
LEMMA AlikeSame ==
    ASSUME NEW f, NEW g, Alike(f, g)
    PROVE  /\ Len(f.rows) = Len(g.rows)
           /\ ToSet(f.rows) = ToSet(g.rows)
           /\ f = Failure <=> g = Failure
<1> DEFINE m == Len(f.rows)
           n == Len(g.rows)
<1>1. PICK p \in Bijection(DOMAIN f.rows, DOMAIN g.rows) :
            \A i \in DOMAIN f.rows : f.rows[i] = g.rows[p[i]]
  BY DEF Alike
<1>2. m \in Nat /\ DOMAIN f.rows = 1..m /\ n \in Nat /\ DOMAIN g.rows = 1..n
  BY FrameRows DEF Alike
<1>3. m = n
  <2>1. IsFiniteSet(1..m) /\ Cardinality(1..m) = m /\ Cardinality(1..n) = n
    <3> HIDE DEF m, n
    <3> QED BY <1>2, FS_Interval
  <2>2. ExistsBijection(1..m, 1..n)
    BY <1>1, <1>2 DEF ExistsBijection
  <2> QED BY <2>1, <2>2, FS_Bijection
<1>4. ToSet(f.rows) = ToSet(g.rows)
  BY <1>1, BijectionIs DEF ToSet
<1>5. ASSUME NEW a, NEW b, Alike(a, b), Len(a.rows) = Len(b.rows), a = Failure PROVE b = Failure
  <2>1. b.rows = <<>>
    BY <1>5, FrameRows, FramesDiffer DEF Alike
  <2>2. b = [columns |-> b.columns, types |-> b.types, rows |-> b.rows]
    BY <1>5 DEF Alike, IsFrame
  <2>3. b.columns = Failure.columns /\ b.types = Failure.types
    BY <1>5 DEF Alike
  <2> QED BY <2>1, <2>2, <2>3 DEF Failure
<1> QED BY <1>3, <1>4, <1>5, AlikeBack

LEMMA AlikeSameRows ==
    ASSUME NEW f, NEW g, Alike(f, g)
    PROVE  SameRows(f, g)
<1>1. PICK p \in Bijection(DOMAIN f.rows, DOMAIN g.rows) :
            \A i \in DOMAIN f.rows : f.rows[i] = g.rows[p[i]]
  BY DEF Alike
<1>2. ASSUME NEW r PROVE Times(r, f.rows) = Times(r, g.rows)
  <2> DEFINE S == {i \in DOMAIN f.rows : f.rows[i] = r}
             T == {j \in DOMAIN g.rows : g.rows[j] = r}
             q == [i \in S |-> p[i]]
  <2>1. S \in SUBSET DOMAIN f.rows /\ \A i \in S : p[i] \in T
    BY <1>1, BijectionIs
  <2>2. \A j \in T : \E i \in S : p[i] = j
    BY <1>1, BijectionIs
  <2>3. \A i, j \in S : p[i] = p[j] => i = j
    BY <1>1, <2>1, BijectionIs
  <2>4. IsFiniteSet(S)
    <3>1. IsFiniteSet(DOMAIN f.rows)
      <4>1. Len(f.rows) \in Nat /\ DOMAIN f.rows = 1..Len(f.rows)
        BY FrameRows DEF Alike
      <4>2. IsFiniteSet(1..Len(f.rows))
        BY <4>1, FS_Interval
      <4> QED BY <4>1, <4>2
    <3> HIDE DEF S
    <3> QED BY <2>1, <3>1, FS_Subset
  <2> HIDE DEF S, T
  <2>5. q \in [S -> T] /\ \A i \in S : q[i] = p[i]
    BY <2>1
  <2> HIDE DEF q
  <2>6. q \in Bijection(S, T)
    BY <2>2, <2>3, <2>5, Fun_IsBij
  <2>7. Cardinality(T) = Cardinality(S)
    BY <2>4, <2>6, FS_Bijection DEF ExistsBijection
  <2> QED BY <2>7 DEF Times, S, T
<1> QED BY <1>2, AlikeSame DEF SameRows

-----------------------------------------------------------------------------
(* The operations make frames of frames.                                       *)

LEMMA SelectedFrame ==
    ASSUME NEW f, IsFrame(f), NEW columns
    PROVE  IsFrame(select_columns(f, columns))
<1> DEFINE valid == columns \cap f.columns
           types == Restricted(f.types, valid)
           rows  == [i \in DOMAIN f.rows |-> Restricted(f.rows[i], valid)]
           n     == Len(f.rows)
<1>1. select_columns(f, columns) \in {f, [columns |-> valid, types |-> types, rows |-> rows]}
  BY DEF select_columns
<1>2. n \in Nat /\ DOMAIN rows = 1..n /\ rows = [i \in 1..n |-> rows[i]]
      /\ \A i \in 1..n : IsRow(rows[i], valid)
  BY FrameRows DEF IsRow, Restricted
<1> HIDE DEF valid, types, rows, n
<1>3. IsFrame([columns |-> valid, types |-> types, rows |-> rows])
  BY <1>2, MakesFrame
<1> QED BY <1>1, <1>3

\* Adding a column keeps one row for each row there was to compute it from.
LEMMA WithColumnFrame ==
    ASSUME NEW f, IsFrame(f), NEW name, NEW type, NEW cells
    PROVE  LET g == WithColumn(f, name, type, cells)
           IN  /\ IsFrame(g)
               /\ g.columns = f.columns \cup {name}
               /\ Len(g.rows) = Len(RowsOf(f))
<1> DEFINE columns == f.columns \cup {name}
           types == [c \in columns |-> IF c = name THEN type ELSE f.types[c]]
           rows  == [i \in DOMAIN RowsOf(f) |-> [c \in columns |->
                        IF c = name THEN cells[RowsOf(f)[i]] ELSE RowsOf(f)[i][c]]]
           n     == Len(RowsOf(f))
<1>1. WithColumn(f, name, type, cells) = [columns |-> columns, types |-> types, rows |-> rows]
  BY DEF WithColumn
<1>2. n \in Nat /\ DOMAIN RowsOf(f) = 1..n
  <2>1. CASE f.columns = {}
    <3> DEFINE x == [c \in {} |-> Null]
    <3>1. RowsOf(f) = <<x>>
      BY <2>1 DEF RowsOf
    <3> HIDE DEF x
    <3>2. Len(<<x>>) = 1 /\ DOMAIN <<x>> = 1..1
      OBVIOUS
    <3> QED BY <3>1, <3>2
  <2>2. CASE f.columns # {}
    BY <2>2, FrameRows DEF RowsOf
  <2> QED BY <2>1, <2>2
<1>3. DOMAIN rows = 1..n /\ rows = [i \in 1..n |-> rows[i]] /\ \A i \in 1..n : IsRow(rows[i], columns)
  BY <1>2 DEF IsRow
<1> HIDE DEF columns, types, rows, n
<1>4. Len(rows) = n
  BY <1>2, <1>3, IsSequence
<1>5. IsFrame([columns |-> columns, types |-> types, rows |-> rows])
  BY <1>2, <1>3, MakesFrame
<1> QED BY <1>1, <1>4, <1>5 DEF columns, n

LEMMA DeriveOneFrame ==
    ASSUME NEW f, IsFrame(f), NEW s
    PROVE  IsFrame(DeriveOne(f, s))
<1>1. DeriveOne(f, s) = f \/ \E type, cells : DeriveOne(f, s) = WithColumn(f, s.name, type, cells)
  BY DEF DeriveOne, LeftOut
<1> QED BY <1>1, WithColumnFrame

\* What holds at the start of a chain and is kept by its links holds at its end.
LEMMA ChainEnd ==
    ASSUME NEW L \in Nat, NEW Good, 0 \in Good,
           \A n \in 1..L : n - 1 \in Good => n \in Good
    PROVE  L \in Good
<1> DEFINE Bad == {m \in 0..L : m \notin Good}
<1>1. Bad = {}
  <2> SUFFICES ASSUME Bad # {} PROVE FALSE
    OBVIOUS
  <2>1. PICK m \in Bad : \A j \in Bad : ~(<<j, m>> \in OpToRel(<, Nat))
    <3>1. Bad \in SUBSET Nat
      OBVIOUS
    <3> HIDE DEF Bad
    <3> QED BY <3>1, NatLessThanWellFounded, WFMin
  <2>2. m \in 1..L /\ m - 1 \in 0..L
    <3>1. m \in 0..L /\ m # 0
      BY <2>1
    <3> QED BY <3>1
  <2>3. m - 1 \notin Bad
    <3>1. <<m - 1, m>> \in OpToRel(<, Nat)
      BY <2>2 DEF OpToRel
    <3> HIDE DEF Bad
    <3> QED BY <2>1, <3>1
  <2> QED BY <2>1, <2>2, <2>3
<1> QED BY <1>1

LEMMA DerivedFrame ==
    ASSUME NEW f, IsFrame(f), NEW S, NEW specs \in Seq(S)
    PROVE  IsFrame(apply_derived_columns(f, specs))
<1> DEFINE L == Len(specs)
<1>1. PICK after : /\ after[0] = f
                   /\ \A n \in 1..Len(specs) : after[n] = DeriveOne(after[n - 1], specs[n])
                   /\ apply_derived_columns(f, specs) = after[Len(specs)]
  BY DerivesInOrder
<1> DEFINE Good == {n \in Nat : IsFrame(after[n])}
<1>2. L \in Nat
  OBVIOUS
<1>3. 0 \in Good
  BY <1>1
<1>4. ASSUME NEW n \in 1..L, n - 1 \in Good PROVE n \in Good
  BY <1>1, <1>4, DeriveOneFrame
<1> HIDE DEF L
<1>5. L \in Good
  <2> HIDE DEF Good
  <2> QED BY <1>2, <1>3, <1>4, ChainEnd
<1> QED BY <1>1, <1>5 DEF L

LEMMA GroupedFrame ==
    ASSUME NEW f, IsFrame(f), NEW g
    PROVE  IsFrame(apply_group_by(f, g))
<1> DEFINE by      == g.columns \cap f.columns
           aggs    == SelectSeq(g.aggregations, LAMBDA a : a.column \in f.columns)
           aliases == {aggs[i].alias : i \in DOMAIN aggs}
           keySet  == {Restricted(f.rows[i], by) : i \in DOMAIN f.rows}
           keys    == SetToSeq(keySet)
           columns == by \cup aliases
<1>1. \E types, row : apply_group_by(f, g) \in {f, Failure,
            [columns |-> columns, types |-> types,
             rows |-> [n \in DOMAIN keys |-> [c \in columns |-> row[n][c]]]]}
  <2> DEFINE Members(k) == SelectSeq(f.rows, LAMBDA r : Restricted(r, by) = k)
             Agg(c)  == CHOOSE a \in ToSet(aggs) : a.alias = c
             Cell(k, c) == IF c \in by THEN k[c]
                           ELSE LET rows == Members(k)
                                IN  Aggregate(Agg(c).function,
                                              [i \in DOMAIN rows |-> rows[i][Agg(c).column]])
             Type(a) == IF a.function \in {"min", "max"} THEN f.types[a.column] ELSE "integer"
             types == [c \in columns |-> IF c \in by THEN f.types[c] ELSE Type(Agg(c))]
             row == [n \in DOMAIN keys |-> [c \in columns |-> Cell(keys[n], c)]]
  <2>1. apply_group_by(f, g) \in {f, Failure, [columns |-> columns, types |-> types, rows |-> row]}
    BY DEF apply_group_by
  <2>2. row = [n \in DOMAIN keys |-> [c \in columns |-> row[n][c]]]
    <3> HIDE DEF Cell, keys, columns
    <3> QED OBVIOUS
  <2> HIDE DEF row, types, columns, keys
  <2> QED BY <2>1, <2>2
<1>2. PICK types, row : apply_group_by(f, g) \in {f, Failure,
            [columns |-> columns, types |-> types,
             rows |-> [n \in DOMAIN keys |-> [c \in columns |-> row[n][c]]]]}
  BY <1>1
<1>3. IsFiniteSet(keySet)
  <2> DEFINE D == DOMAIN f.rows
             k == [i \in D |-> Restricted(f.rows[i], by)]
  <2>1. IsFiniteSet(D)
    <3>1. Len(f.rows) \in Nat /\ DOMAIN f.rows = 1..Len(f.rows)
      BY FrameRows
    <3>2. IsFiniteSet(1..Len(f.rows))
      BY <3>1, FS_Interval
    <3> QED BY <3>1, <3>2
  <2>2. k \in [D -> keySet] /\ \A t \in keySet : \E i \in D : k[i] = t
    OBVIOUS
  <2> HIDE DEF D, k, keySet
  <2>3. k \in Surjection(D, keySet)
    BY <2>2 DEF Surjection
  <2> QED BY <2>1, <2>3, FS_Surjection
<1> DEFINE n == Cardinality(keySet)
           rows == [m \in DOMAIN keys |-> [c \in columns |-> row[m][c]]]
<1>4. n \in Nat /\ DOMAIN keys = 1..n
  <2> HIDE DEF keySet
  <2> QED BY <1>3, SequenceOfSet
<1>5. DOMAIN rows = 1..n /\ rows = [m \in 1..n |-> rows[m]] /\ \A m \in 1..n : IsRow(rows[m], columns)
  <2> HIDE DEF keys, columns, n
  <2> QED BY <1>4 DEF IsRow
<1>6. IsFrame([columns |-> columns, types |-> types, rows |-> rows])
  <2> HIDE DEF columns, rows, n
  <2> QED BY <1>4, <1>5, MakesFrame
<1>7. apply_group_by(f, g) \in {f, Failure, [columns |-> columns, types |-> types, rows |-> rows]}
  BY <1>2
<1> HIDE DEF columns, rows
<1> QED BY <1>6, <1>7, EmptyFrames

\* Every element has a place.
LEMMA EveryPlace ==
    ASSUME NEW n \in Nat, NEW K \in SUBSET (1..n), NEW k \in K
    PROVE  \E m \in 1..Cardinality(K) : Place(K, m) = k
<1> DEFINE N == Cardinality(K)
           places == {Place(K, m) : m \in 1..N}
           p == [m \in 1..N |-> Place(K, m)]
<1>1. /\ N \in Nat /\ IsFiniteSet(K)
      /\ \A m \in 1..N : Place(K, m) \in K /\ Rank(K, Place(K, m)) = m
  BY EveryRankOccurs, PlacesAreKept
<1>2. p \in [1..N -> places] /\ \A x \in places : \E m \in 1..N : p[m] = x
  OBVIOUS
<1>3. \A a, b \in 1..N : p[a] = p[b] => a = b
  BY <1>1
<1>4. places \in SUBSET K
  BY <1>1
<1> HIDE DEF p, places
<1>5. p \in Bijection(1..N, places)
  BY <1>2, <1>3, Fun_IsBij
<1>6. IsFiniteSet(1..N) /\ Cardinality(1..N) = N
  <2> HIDE DEF N
  <2> QED BY <1>1, FS_Interval
<1>7. Cardinality(places) = N
  BY <1>5, <1>6, FS_Bijection DEF ExistsBijection
<1>8. places = K
  BY <1>1, <1>4, <1>7, FS_Subset
<1> QED BY <1>8 DEF places

-----------------------------------------------------------------------------
(* The operations make frames alike of frames alike.                           *)

\* A distinct that keeps any one of the rows that are equal, or none of them.
LEMMA DistinctsAlike ==
    ASSUME NEW f, IsFrame(f), NEW d, d.enabled => d.keep = "none" \/ d.columns = {},
           NEW g \in apply_distinct(f, d), NEW h \in apply_distinct(f, d)
    PROVE  Alike(g, h)
<1> DEFINE subset   == IF d.columns = {} THEN f.columns ELSE d.columns \cap f.columns
           Same(i)  == {j \in DOMAIN f.rows :
                          Restricted(f.rows[i], subset) = Restricted(f.rows[j], subset)}
           Chosen(K) == \A class \in {Same(i) : i \in DOMAIN f.rows} : Cardinality(K \cap class) = 1
           Lone     == {i \in DOMAIN f.rows : Same(i) = {i}}
<1>1. CASE ~d.enabled \/ subset = {}
  <2>1. g = f /\ h = f
    BY <1>1 DEF apply_distinct
  <2> QED BY <2>1, AlikeSelf
<1>2. CASE ~(~d.enabled \/ subset = {}) /\ d.keep = "none"
  <2>1. g = KeptAt(f, Lone) /\ h = KeptAt(f, Lone)
    BY <1>2 DEF apply_distinct
  <2>2. Lone \in SUBSET DOMAIN f.rows
    OBVIOUS
  <2> HIDE DEF Lone
  <2> QED BY <2>1, <2>2, KeptAtFrame, AlikeSelf
<1>3. CASE ~(~d.enabled \/ subset = {}) /\ d.keep # "none"
  <2>1. apply_distinct(f, d) = {KeptAt(f, K) : K \in {set \in SUBSET DOMAIN f.rows : Chosen(set)}}
    BY <1>3 DEF apply_distinct
  <2>2. PICK K \in SUBSET DOMAIN f.rows : Chosen(K) /\ g = KeptAt(f, K)
    <3> HIDE DEF Chosen
    <3> QED BY <2>1
  <2>3. PICK L \in SUBSET DOMAIN f.rows : Chosen(L) /\ h = KeptAt(f, L)
    <3> HIDE DEF Chosen
    <3> QED BY <2>1
  <2>4. \A i \in DOMAIN f.rows : Same(i) = {j \in DOMAIN f.rows : f.rows[i] = f.rows[j]}
    <3>1. subset = f.columns
      BY <1>3
    <3>2. \A i \in DOMAIN f.rows : Restricted(f.rows[i], f.columns) = f.rows[i]
      BY DEF IsFrame, IsRow, Restricted
    <3> QED BY <3>1, <3>2
  <2>5. ASSUME NEW M \in SUBSET DOMAIN f.rows, Chosen(M), NEW i \in DOMAIN f.rows
        PROVE  /\ \E k \in M : f.rows[k] = f.rows[i]
               /\ \A k, l \in M : f.rows[k] = f.rows[i] /\ f.rows[l] = f.rows[i] => k = l
    <3>1. Cardinality(M \cap Same(i)) = 1
      BY <2>5
    <3>2. IsFiniteSet(M)
      <4>1. Len(f.rows) \in Nat /\ DOMAIN f.rows = 1..Len(f.rows)
        BY FrameRows
      <4> QED BY <2>5, <4>1, EveryRankOccurs
    <3>3. PICK x : M \cap Same(i) = {x}
      <4> DEFINE T == M \cap Same(i)
      <4>1. T \in SUBSET M
        OBVIOUS
      <4> HIDE DEF T
      <4>2. IsFiniteSet(T)
        BY <3>2, <4>1, FS_Subset
      <4>3. \E x : T = {x}
        BY <3>1, <4>2, FS_Singleton DEF T
      <4> QED BY <4>3 DEF T
    <3>4. \A k \in M : k \in M \cap Same(i) <=> f.rows[k] = f.rows[i]
      BY <2>4, <2>5
    <3> HIDE DEF Same
    <3> QED BY <3>3, <3>4
  <2> DEFINE n == Len(f.rows)
             p == [m \in 1..Cardinality(K) |->
                    CHOOSE m2 \in 1..Cardinality(L) : f.rows[Place(L, m2)] = f.rows[Place(K, m)]]
  <2>6. n \in Nat /\ DOMAIN f.rows = 1..n
    BY FrameRows
  <2>7. ASSUME NEW M \in SUBSET DOMAIN f.rows
        PROVE  /\ Cardinality(M) \in Nat
               /\ KeptAt(f, M) = [columns |-> f.columns, types |-> f.types, rows |-> Kept(f.rows, M)]
               /\ IsFrame(KeptAt(f, M))
               /\ DOMAIN Kept(f.rows, M) = 1..Cardinality(M)
               /\ \A m \in 1..Cardinality(M) : /\ Kept(f.rows, M)[m] = f.rows[Place(M, m)]
                                               /\ Place(M, m) \in M
                                               /\ Rank(M, Place(M, m)) = m
    <3>1. /\ KeptAt(f, M) = [columns |-> f.columns, types |-> f.types, rows |-> Kept(f.rows, M)]
          /\ IsFrame(KeptAt(f, M))
      BY KeptAtFrame
    <3> HIDE DEF n
    <3>2. M \in SUBSET (1..n)
      BY <2>6
    <3>3. /\ DOMAIN Kept(f.rows, M) = 1..Cardinality(M) /\ Cardinality(M) \in Nat
          /\ \A m \in 1..Cardinality(M) : Kept(f.rows, M)[m] = f.rows[Place(M, m)]
      BY <2>6, <3>2, KeptOf
    <3>4. \A m \in 1..Cardinality(M) : Place(M, m) \in M /\ Rank(M, Place(M, m)) = m
      BY <2>6, <3>2, PlacesAreKept
    <3> QED BY <3>1, <3>3, <3>4
  <2>8. \A m1, m2 \in 1..Cardinality(K) : Place(K, m1) = Place(K, m2) => m1 = m2
    BY <2>7
  <2>9. \A m1, m2 \in 1..Cardinality(L) : Place(L, m1) = Place(L, m2) => m1 = m2
    BY <2>7
  <2>10. ASSUME NEW M \in SUBSET DOMAIN f.rows, Chosen(M), NEW i \in DOMAIN f.rows
         PROVE  \E m \in 1..Cardinality(M) : f.rows[Place(M, m)] = f.rows[i]
    <3>1. PICK k \in M : f.rows[k] = f.rows[i]
      BY <2>5, <2>10
    <3>2. PICK m \in 1..Cardinality(M) : Place(M, m) = k
      BY <2>6, <2>10, <3>1, EveryPlace
    <3> QED BY <3>1, <3>2
  <2> HIDE DEF Chosen, Same
  <2>11. \A m \in 1..Cardinality(K) : /\ p[m] \in 1..Cardinality(L)
                                      /\ f.rows[Place(L, p[m])] = f.rows[Place(K, m)]
    <3>1. \A m \in 1..Cardinality(K) : \E m2 \in 1..Cardinality(L) :
                f.rows[Place(L, m2)] = f.rows[Place(K, m)]
      BY <2>2, <2>3, <2>7, <2>10
    <3> QED BY <3>1
  <2>12. p \in [1..Cardinality(K) -> 1..Cardinality(L)]
    BY <2>11
  <2> HIDE DEF p
  <2>13. \A a, b \in 1..Cardinality(K) : p[a] = p[b] => a = b
    <3> SUFFICES ASSUME NEW a \in 1..Cardinality(K), NEW b \in 1..Cardinality(K), p[a] = p[b]
                 PROVE  a = b
      OBVIOUS
    <3>1. f.rows[Place(K, a)] = f.rows[Place(K, b)]
      BY <2>11
    <3>2. Place(K, a) \in K /\ Place(K, b) \in K
      BY <2>7
    <3>3. Place(K, a) = Place(K, b)
      BY <2>2, <2>5, <3>1, <3>2
    <3> QED BY <2>8, <3>3
  <2>14. \A m2 \in 1..Cardinality(L) : \E m \in 1..Cardinality(K) : p[m] = m2
    <3> SUFFICES ASSUME NEW m2 \in 1..Cardinality(L)
                 PROVE  \E m \in 1..Cardinality(K) : p[m] = m2
      OBVIOUS
    <3>1. Place(L, m2) \in L
      BY <2>7
    <3>2. PICK m \in 1..Cardinality(K) : f.rows[Place(K, m)] = f.rows[Place(L, m2)]
      BY <2>2, <2>10, <3>1
    <3>3. p[m] \in 1..Cardinality(L) /\ f.rows[Place(L, p[m])] = f.rows[Place(L, m2)]
      BY <2>11, <3>2
    <3>4. Place(L, p[m]) \in L
      BY <2>7, <3>3
    <3>5. Place(L, p[m]) = Place(L, m2)
      BY <2>3, <2>5, <3>1, <3>3, <3>4
    <3> QED BY <2>9, <3>3, <3>5
  <2>15. p \in Bijection(1..Cardinality(K), 1..Cardinality(L))
    BY <2>12, <2>13, <2>14, Fun_IsBij
  <2>16. /\ IsFrame(g) /\ IsFrame(h) /\ g.columns = h.columns /\ g.types = h.types
         /\ g.rows = Kept(f.rows, K) /\ h.rows = Kept(f.rows, L)
    BY <2>2, <2>3, <2>7
  <2>17. \A m \in 1..Cardinality(K) : g.rows[m] = h.rows[p[m]]
    BY <2>7, <2>11, <2>16
  <2>18. DOMAIN g.rows = 1..Cardinality(K) /\ DOMAIN h.rows = 1..Cardinality(L)
    BY <2>7, <2>16
  <2> QED BY <2>15, <2>16, <2>17, <2>18 DEF Alike
<1> QED BY <1>1, <1>2, <1>3

LEMMA SortsAlike ==
    ASSUME NEW f, NEW g, Alike(f, g), NEW r,
           NEW s \in Sorts(r, f), NEW t \in Sorts(r, g)
    PROVE  Alike(s, t)
<1>1. IsFrame(f) /\ IsFrame(g) /\ f.columns = g.columns /\ (f = Failure <=> g = Failure)
  BY AlikeSame DEF Alike
<1>2. Alike(Failure, Failure)
  BY EmptyFrames, AlikeSelf
<1>3. CASE f = Failure
  BY <1>1, <1>2, <1>3 DEF Sorts
<1>4. CASE f # Failure /\ r.sorts = <<>>
  BY <1>1, <1>4 DEF Sorts
<1>5. CASE f # Failure /\ r.sorts # <<>> /\ \E n \in DOMAIN r.sorts : r.sorts[n].column \notin f.columns
  <2>1. s = Failure /\ t = Failure
    BY <1>1, <1>5 DEF Sorts, apply_sort
  <2> QED BY <1>2, <2>1
<1>6. CASE f # Failure /\ r.sorts # <<>> /\ \A n \in DOMAIN r.sorts : r.sorts[n].column \in f.columns
  <2>1. s \in apply_sort(f, r.sorts) /\ t \in apply_sort(g, r.sorts)
    BY <1>1, <1>6 DEF Sorts
  <2>2. ASSUME NEW a, IsFrame(a), NEW b \in apply_sort(a, r.sorts),
               \A n \in DOMAIN r.sorts : r.sorts[n].column \in a.columns
        PROVE  Alike(b, a)
    <3>1. IsFrame(b)
      BY <2>2, SortedRows
    <3>2. PICK p \in Bijection(DOMAIN a.rows, DOMAIN a.rows) :
                b = [columns |-> a.columns, types |-> a.types,
                     rows |-> [i \in DOMAIN a.rows |-> a.rows[p[i]]]]
      BY <2>2, SortedRows
    <3>3. /\ b.columns = a.columns /\ b.types = a.types /\ DOMAIN b.rows = DOMAIN a.rows
          /\ \A i \in DOMAIN b.rows : b.rows[i] = a.rows[p[i]]
      BY <3>2
    <3> QED BY <2>2, <3>1, <3>3 DEF Alike
  <2>3. Alike(s, f) /\ Alike(t, g)
    BY <1>1, <1>6, <2>1, <2>2
  <2> QED BY <2>3, AlikeBack, AlikeThrough
<1> QED BY <1>3, <1>4, <1>5, <1>6

\* Frames whose rows are computed, one by one, from the rows of frames alike.
LEMMA MappedAlike ==
    ASSUME NEW f, NEW g, Alike(f, g), NEW a, NEW b, IsFrame(a), IsFrame(b),
           a.columns = b.columns, a.types = b.types,
           DOMAIN a.rows = DOMAIN f.rows, DOMAIN b.rows = DOMAIN g.rows,
           \A i \in DOMAIN f.rows : \A j \in DOMAIN g.rows :
                f.rows[i] = g.rows[j] => a.rows[i] = b.rows[j]
    PROVE  Alike(a, b)
<1>1. PICK p \in Bijection(DOMAIN f.rows, DOMAIN g.rows) :
            \A i \in DOMAIN f.rows : f.rows[i] = g.rows[p[i]]
  BY DEF Alike
<1>2. \A i \in DOMAIN f.rows : p[i] \in DOMAIN g.rows
  BY <1>1, BijectionIs
<1> QED BY <1>1, <1>2 DEF Alike

LEMMA WithColumnsAlike ==
    ASSUME NEW f, NEW g, Alike(f, g), f.columns # {}, NEW name, NEW type, NEW cells
    PROVE  Alike(WithColumn(f, name, type, cells), WithColumn(g, name, type, cells))
<1> DEFINE a == WithColumn(f, name, type, cells)
           b == WithColumn(g, name, type, cells)
<1>1. IsFrame(f) /\ IsFrame(g) /\ f.columns = g.columns /\ f.types = g.types
  BY DEF Alike
<1>2. IsFrame(a) /\ IsFrame(b)
  BY <1>1, WithColumnFrame
<1>3. a.columns = b.columns /\ a.types = b.types
  BY <1>1 DEF WithColumn
<1>4. RowsOf(f) = f.rows /\ RowsOf(g) = g.rows
  BY <1>1 DEF RowsOf
<1>5. /\ DOMAIN a.rows = DOMAIN f.rows
      /\ \A i \in DOMAIN f.rows : a.rows[i] = [c \in f.columns \cup {name} |->
                                    IF c = name THEN cells[f.rows[i]] ELSE f.rows[i][c]]
  BY <1>4 DEF WithColumn
<1>6. /\ DOMAIN b.rows = DOMAIN g.rows
      /\ \A i \in DOMAIN g.rows : b.rows[i] = [c \in g.columns \cup {name} |->
                                    IF c = name THEN cells[g.rows[i]] ELSE g.rows[i][c]]
  BY <1>4 DEF WithColumn
<1> DEFINE Row(x) == [c \in f.columns \cup {name} |-> IF c = name THEN cells[x] ELSE x[c]]
<1>9. /\ \A i \in DOMAIN f.rows : a.rows[i] = Row(f.rows[i])
      /\ \A j \in DOMAIN g.rows : b.rows[j] = Row(g.rows[j])
  <2> HIDE DEF a, b
  <2> QED BY <1>1, <1>5, <1>6
<1> HIDE DEF a, b, Row
<1>7. \A i \in DOMAIN f.rows : \A j \in DOMAIN g.rows : f.rows[i] = g.rows[j] => a.rows[i] = b.rows[j]
  BY <1>9
<1>8. Alike(a, b)
  BY <1>2, <1>3, <1>5, <1>6, <1>7, MappedAlike
<1> QED BY <1>8 DEF a, b

LEMMA RenamedAlike ==
    ASSUME NEW f, NEW g, Alike(f, g), NEW old, NEW new
    PROVE  Alike(Renamed(f, old, new), Renamed(g, old, new))
<1> DEFINE a == Renamed(f, old, new)
           b == Renamed(g, old, new)
           columns == (f.columns \ {old}) \cup {new}
           Old(c)  == IF c = new THEN old ELSE c
           types   == [c \in columns |-> f.types[Old(c)]]
           Rows(h) == [i \in DOMAIN h.rows |-> [c \in columns |-> h.rows[i][Old(c)]]]
<1>1. IsFrame(f) /\ IsFrame(g) /\ f.columns = g.columns /\ f.types = g.types
  BY DEF Alike
<1>2. /\ a = [columns |-> columns, types |-> types, rows |-> Rows(f)]
      /\ b = [columns |-> columns, types |-> types, rows |-> Rows(g)]
  BY <1>1 DEF Renamed
<1>3. ASSUME NEW h, IsFrame(h)
      PROVE  IsFrame([columns |-> columns, types |-> types, rows |-> Rows(h)])
  <2> DEFINE n == Len(h.rows)
  <2>1. n \in Nat /\ DOMAIN h.rows = 1..n
    BY <1>3, FrameRows
  <2>2. /\ DOMAIN Rows(h) = 1..n /\ Rows(h) = [i \in 1..n |-> Rows(h)[i]]
        /\ \A i \in 1..n : IsRow(Rows(h)[i], columns)
    BY <2>1 DEF IsRow
  <2> HIDE DEF n, Rows, columns, types
  <2> QED BY <2>1, <2>2, MakesFrame
<1>4. \A i \in DOMAIN f.rows : \A j \in DOMAIN g.rows :
            f.rows[i] = g.rows[j] => Rows(f)[i] = Rows(g)[j]
  OBVIOUS
<1>5. DOMAIN Rows(f) = DOMAIN f.rows /\ DOMAIN Rows(g) = DOMAIN g.rows
  OBVIOUS
<1> HIDE DEF a, b, columns, types, Rows
<1>6. Alike(a, b)
  BY <1>1, <1>2, <1>3, <1>4, <1>5, MappedAlike
<1> QED BY <1>6 DEF a, b

\* The frames that a transform makes of frames alike, given what it reads of them.
LEMMA TransformOnesAlike ==
    ASSUME NEW f, NEW g, Alike(f, g), NEW t
    PROVE  Alike(TransformOne(f, t), TransformOne(g, t))
<1> DEFINE NoWord(rows) == \A x \in ToSet(rows) : ~IsWord(x[t.column])
           type     == f.types[t.column]
           capitals == [x \in ToSet(f.rows) |-> Upper(x[t.column])]
           texts    == [x \in ToSet(f.rows) |-> AsText(x[t.column], type)]
           cells    == [x \in ToSet(f.rows) |-> x[t.column]]
           Out(h)   == IF t.kind = "rename" /\ t.name \notin f.columns THEN Renamed(h, t.column, t.name)
                       ELSE IF t.kind = "uppercase" /\ type = "text"
                       THEN WithColumn(h, t.column, "text", capitals)
                       ELSE IF t.kind = "cast" /\ t.type = "text"
                       THEN WithColumn(h, t.column, "text", texts)
                       ELSE IF t.kind = "cast" /\ t.type = "integer" /\ (type = "text" => NoWord(f.rows))
                       THEN WithColumn(h, t.column, "integer", cells)
                       ELSE h
<1>1. /\ IsFrame(f) /\ IsFrame(g) /\ f.columns = g.columns /\ f.types = g.types
      /\ ToSet(f.rows) = ToSet(g.rows)
  BY AlikeSame DEF Alike
<1>2. CASE t.column \notin f.columns
  BY <1>1, <1>2 DEF TransformOne
<1>3. CASE t.column \in f.columns
  <2>1. RowsOf(f) = f.rows /\ RowsOf(g) = g.rows /\ f.columns # {}
    BY <1>1, <1>3 DEF RowsOf
  <2>2. ASSUME NEW h
        PROVE  (\A i \in DOMAIN h.rows : ~IsWord(h.rows[i][t.column])) <=> NoWord(h.rows)
    BY DEF ToSet
  <2>3. ASSUME NEW h, h.columns = f.columns, h.types = f.types, RowsOf(h) = h.rows,
               ToSet(h.rows) = ToSet(f.rows)
        PROVE  TransformOne(h, t) = Out(h)
    <3> DEFINE words == \A i \in DOMAIN h.rows : ~IsWord(h.rows[i][t.column])
    <3>1. words <=> NoWord(f.rows)
      BY <2>2, <2>3
    <3> HIDE DEF words, NoWord
    <3>2. TransformOne(h, t) =
            CASE t.kind = "rename" /\ t.name \notin f.columns -> Renamed(h, t.column, t.name)
              [] t.kind = "uppercase" /\ type = "text" -> WithColumn(h, t.column, "text", capitals)
              [] t.kind = "cast" /\ t.type = "text" -> WithColumn(h, t.column, "text", texts)
              [] t.kind = "cast" /\ t.type = "integer" /\ (type = "text" => words) ->
                    WithColumn(h, t.column, "integer", cells)
              [] OTHER -> h
      BY <1>3, <2>3 DEF TransformOne, words
    <3> HIDE DEF type, capitals, texts, cells
    <3> QED BY <3>1, <3>2
  <2>4. TransformOne(f, t) = Out(f)
    BY <2>1, <2>3
  <2>5. TransformOne(g, t) = Out(g)
    BY <1>1, <2>1, <2>3
  <2> HIDE DEF NoWord, type, capitals, texts, cells
  <2>6. Alike(Out(f), Out(g))
    BY <2>1, RenamedAlike, WithColumnsAlike
  <2> HIDE DEF Out
  <2> QED BY <2>4, <2>5, <2>6
<1> QED BY <1>2, <1>3

LEMMA TransformsAlike ==
    ASSUME NEW f, NEW g, Alike(f, g), NEW S, NEW specs \in Seq(S)
    PROVE  Alike(apply_transforms(f, specs), apply_transforms(g, specs))
<1> DEFINE L == Len(specs)
<1>1. PICK a : /\ a[0] = f
               /\ \A n \in 1..Len(specs) : a[n] = TransformOne(a[n - 1], specs[n])
               /\ apply_transforms(f, specs) = a[Len(specs)]
  BY TransformsInOrder
<1>2. PICK b : /\ b[0] = g
               /\ \A n \in 1..Len(specs) : b[n] = TransformOne(b[n - 1], specs[n])
               /\ apply_transforms(g, specs) = b[Len(specs)]
  BY TransformsInOrder
<1> DEFINE Good == {n \in Nat : Alike(a[n], b[n])}
<1>3. L \in Nat
  OBVIOUS
<1>4. 0 \in Good
  BY <1>1, <1>2
<1>5. ASSUME NEW n \in 1..L, n - 1 \in Good PROVE n \in Good
  BY <1>1, <1>2, <1>5, TransformOnesAlike
<1> HIDE DEF L
<1>6. L \in Good
  <2> HIDE DEF Good
  <2> QED BY <1>3, <1>4, <1>5, ChainEnd
<1> QED BY <1>1, <1>2, <1>6 DEF L

-----------------------------------------------------------------------------
(* A process and the queries it was built from.                                *)

LEMMA BaseFrame ==
    ASSUME NEW r \in Requests, NEW tables, \A side \in DOMAIN r.sources : IsFrame(tables[side])
    PROVE  IsFrame(Base(r, tables))
<1> DEFINE d1 == JoinedOf(r, tables)
           d2 == DerivedOf(r, d1)
           d3 == FilteredOf(r, d2)
<1>1. IsFrame(d1)
  <2>1. "left" \in DOMAIN r.sources
    BY RequestsAssumption
  <2>2. IsFrame(IF "right" \in DOMAIN r.sources
                THEN JoinFrames(tables["left"], tables["right"], r.join) ELSE tables["left"])
    BY <2>1, JoinKeeps
  <2> QED BY <2>2, SelectedFrame, EmptyFrames DEF JoinedOf
<1>2. IsFrame(d2)
  <2>1. r.derived \in Seq(ToSet(r.derived))
    BY RequestsAssumption
  <2> HIDE DEF d1
  <2> QED BY <1>1, <2>1, DerivedFrame, EmptyFrames DEF DerivedOf
<1> HIDE DEF d1, d2
<1>3. IsFrame(d3)
  BY <1>2, ApplyFiltersFrame, EmptyFrames DEF FilteredOf
<1> HIDE DEF d3
<1>4. IsFrame(GroupedOf(r, d3))
  BY <1>3, GroupedFrame, EmptyFrames DEF GroupedOf
<1> QED BY <1>4 DEF Base, d1, d2, d3

\* From one frame before the distinct, two executions of an order-free request
\* come to frames alike.
LEMMA OutcomesAlike ==
    ASSUME NEW r \in Requests, r.distinct.enabled => r.distinct.keep = "none" \/ r.distinct.columns = {},
           NEW f, IsFrame(f),
           NEW d1 \in Distincts(r, f), NEW s1 \in Sorts(r, d1),
           NEW d2 \in Distincts(r, f), NEW s2 \in Sorts(r, d2)
    PROVE  Alike(TransformedOf(r, s1), TransformedOf(r, s2))
<1>0. Alike(Failure, Failure)
  BY EmptyFrames, AlikeSelf
<1>1. Alike(d1, d2)
  BY <1>0, DistinctsAlike DEF Distincts
<1>2. Alike(s1, s2)
  BY <1>1, SortsAlike
<1>3. s1 = Failure <=> s2 = Failure
  BY <1>2, AlikeSame
<1>4. r.transforms \in Seq(ToSet(r.transforms))
  BY RequestsAssumption
<1>5. Alike(apply_transforms(s1, r.transforms), apply_transforms(s2, r.transforms))
  BY <1>2, <1>4, TransformsAlike
<1> QED BY <1>0, <1>3, <1>5 DEF TransformedOf

\* What the engines have read of one source, if it is within the limit: the same
\* frame, or two without rows.
SameTable(f, g) ==
    /\ f = Failure <=> g = Failure
    /\ f.rows = <<>> <=> g.rows = <<>>
    /\ f.rows # <<>> => f = g

LEMMA SameRead ==
    ASSUME NEW r \in Requests, NEW side \in DOMAIN r.sources,
           Len(r.sources[side].table.rows) <= MaxRows,
           Portable(r.sources[side].type, r.sources[side].table, r.sources[side].q),
           NEW f \in ReadBy(r, "query", side), NEW g \in ReadBy(r, "process", side),
           f.rows # <<>> =>
                /\ f.columns = g.columns
                /\ \A c \in f.columns : f.types[c] = "null" => g.types[c] = "null"
    PROVE  SameTable(f, g)
<1> DEFINE source == r.sources[side]
           run     == execute_single_source(source.type, source.table, source.q)
           process == ProcessQuery(source.type, source.table, source.q)
           got     == ExecuteQuery(source.type, source.table, source.q)
           sparse  == Sparse(source.type, source.table, source.q)
<1>1. /\ source.type \in Connectors /\ IsSource(source.type, source.table)
      /\ source.q \in QuerySourceConfig(Named(source.q))
  BY RequestsAssumption
<1>2. Portable(source.type, source.table, source.q) /\ Len(source.table.rows) <= MaxRows
  OBVIOUS
<1>3. g = process /\ (f = run \/ f \in Heads(run, FALSE))
  BY DEF ReadBy
<1> HIDE DEF source
<1>4. ReadAlike(run, process)
  BY <1>1, <1>2, EnginesReadAlike DEF run, process
<1>5. AtMost(Len(source.table.rows), got) /\ IsTable(source.table)
  BY <1>1, ExecuteQueryFrame DEF IsSource
<1>6. run = IF got = Failure THEN Failure ELSE FrameOf(got, sparse)
  BY DEF execute_single_source
<1> HIDE DEF got, run, process, sparse
<1>7. Len(source.table.rows) \in Nat
  BY <1>5, TableRows
<1>8. IsFrame(run) /\ (run \in {NoFrame, Failure} \/ Len(run.rows) = Len(got.rows))
  BY <1>5, <1>6, EmptyFrames, FrameOfFrame DEF AtMost
<1>9. Len(run.rows) <= MaxRows
  <2>1. run \in {NoFrame, Failure} => Len(run.rows) = 0
    BY <1>8, EmptyFrames, FrameRows, FramesDiffer
  <2> QED BY <1>2, <1>5, <1>7, <1>8, <2>1, RequestsAssumption, FrameRows DEF AtMost
<1>10. f = run
  BY <1>3, <1>9 DEF Heads
<1>11. IsFrame(g)
  BY ReadFrames
<1>12. f = Failure <=> g = Failure
  BY <1>3, <1>4, <1>10 DEF ReadAlike
<1>13. f.rows = <<>> <=> g.rows = <<>>
  <2>1. CASE f = Failure
    BY <1>12, <2>1
  <2>2. CASE f # Failure
    <3>1. DOMAIN f.rows = DOMAIN g.rows
      BY <1>3, <1>4, <1>10, <2>2 DEF ReadAlike
    <3>2. ASSUME NEW h, IsFrame(h) PROVE h.rows = <<>> <=> DOMAIN h.rows = {}
      <4>1. Len(h.rows) \in Nat /\ DOMAIN h.rows = 1..Len(h.rows) /\ (h.rows = <<>> <=> Len(h.rows) = 0)
        BY <3>2, FrameRows
      <4>2. \A n \in Nat : n = 0 <=> 1..n = {}
        OBVIOUS
      <4> QED BY <4>1, <4>2
    <3> QED BY <1>8, <1>10, <1>11, <3>1, <3>2
  <2> QED BY <2>1, <2>2
<1>14. ASSUME f.rows # <<>> PROVE f = g
  <2>1. f # Failure
    BY <1>14, FramesDiffer
  <2>2. /\ f.columns = g.columns /\ f.rows = g.rows
        /\ f.types = [c \in f.columns |-> f.types[c]]
        /\ g.types = [c \in f.columns |-> g.types[c]]
        /\ \A c \in f.columns : f.types[c] \in {"null", g.types[c]}
    BY <1>3, <1>4, <1>10, <1>14, <2>1 DEF ReadAlike
  <2>3. \A c \in f.columns : f.types[c] = g.types[c]
    BY <1>14, <2>2
  <2>4. f.types = g.types
    BY <2>2, <2>3
  <2> QED BY <1>8, <1>10, <1>11, <2>2, <2>4 DEF IsFrame
<1> QED BY <1>12, <1>13, <1>14 DEF SameTable

LEMMA SameJoined ==
    ASSUME NEW r \in Requests, NEW tq, NEW tp,
           \A side \in DOMAIN r.sources : SameTable(tq[side], tp[side]),
           "right" \in DOMAIN r.sources \/ tq["left"].rows # <<>>
    PROVE  JoinedOf(r, tq) = JoinedOf(r, tp)
<1>1. "left" \in DOMAIN r.sources
  BY RequestsAssumption
<1>2. (\E side \in DOMAIN r.sources : tq[side] = Failure)
        <=> (\E side \in DOMAIN r.sources : tp[side] = Failure)
  BY DEF SameTable
<1>3. CASE "right" \in DOMAIN r.sources
  <2>1. SameTable(tq["left"], tp["left"]) /\ SameTable(tq["right"], tp["right"])
    BY <1>1, <1>3
  <2>2. JoinFrames(tq["left"], tq["right"], r.join) = JoinFrames(tp["left"], tp["right"], r.join)
    <3>1. CASE <<>> \in {tq["left"].rows, tq["right"].rows}
      BY <2>1, <3>1 DEF JoinFrames, SameTable
    <3>2. CASE <<>> \notin {tq["left"].rows, tq["right"].rows}
      <4>1. tq["left"] = tp["left"] /\ tq["right"] = tp["right"]
        BY <2>1, <3>2 DEF SameTable
      <4> QED BY <4>1
    <3> QED BY <3>1, <3>2
  <2> QED BY <1>2, <1>3, <2>2 DEF JoinedOf
<1>4. CASE "right" \notin DOMAIN r.sources
  <2>1. tq["left"] = tp["left"]
    BY <1>1, <1>4 DEF SameTable
  <2> QED BY <1>2, <1>4, <2>1 DEF JoinedOf
<1> QED BY <1>3, <1>4

\* The answers of two executions that had the same frame before the distinct.
LEMMA SameAnswers ==
    ASSUME NEW r \in Requests, r.distinct.enabled => r.distinct.keep = "none" \/ r.distinct.columns = {},
           NEW tq, NEW tp, Base(r, tq) = Base(r, tp), IsFrame(Base(r, tq)),
           NEW aq, Outcome(r, tq, aq), NEW ap, Outcome(r, tp, ap),
           Len(ap.rows) < MaxRows
    PROVE  (aq = Failure) = (ap = Failure) /\ SameRows(aq, ap)
<1>1. PICK d1 \in Distincts(r, Base(r, tq)) :
        \E s \in Sorts(r, d1) : aq \in Heads(TransformedOf(r, s), r.sorts # <<>>)
  BY DEF Outcome
<1>2. PICK d2 \in Distincts(r, Base(r, tq)) :
        \E s \in Sorts(r, d2) : ap \in Heads(TransformedOf(r, s), r.sorts # <<>>)
  BY DEF Outcome
<1>7. PICK s1 \in Sorts(r, d1) : aq \in Heads(TransformedOf(r, s1), r.sorts # <<>>)
  BY <1>1
<1>8. PICK s2 \in Sorts(r, d2) : ap \in Heads(TransformedOf(r, s2), r.sorts # <<>>)
  BY <1>2
<1> DEFINE t1 == TransformedOf(r, s1)
           t2 == TransformedOf(r, s2)
<1>3. Alike(t1, t2)
  BY OutcomesAlike
<1> HIDE DEF t1, t2
<1>4. Len(t1.rows) = Len(t2.rows) /\ (t1 = Failure <=> t2 = Failure) /\ IsFrame(t1) /\ IsFrame(t2)
  BY <1>3, AlikeSame DEF Alike
<1>5. ap = t2
  <2>1. ap = t2 \/ Len(ap.rows) = MaxRows
    BY <1>8, <1>4, HeadsCut DEF t2
  <2> QED BY <2>1, RequestsAssumption
<1>6. aq = t1
  <2>1. Len(t1.rows) <= MaxRows
    BY <1>4, <1>5, FrameRows, RequestsAssumption
  <2>2. aq \in Heads(t1, r.sorts # <<>>)
    BY <1>7 DEF t1
  <2> QED BY <2>1, <2>2 DEF Heads
<1> QED BY <1>3, <1>4, <1>5, <1>6, AlikeSameRows

\* A request for one source without a sort leaves a table without rows as it is.
LEMMA EmptyAnswer ==
    ASSUME NEW r \in Requests, SortOnly(r), r.sorts = <<>>, DOMAIN r.sources = {"left"},
           NEW tables, IsFrame(tables["left"]), tables["left"].rows = <<>>,
           NEW a, Outcome(r, tables, a)
    PROVE  a = tables["left"]
<1> DEFINE f == tables["left"]
<1>1. JoinedOf(r, tables) = f
  BY NoOperations DEF JoinedOf
<1>2. GroupedOf(r, FilteredOf(r, DerivedOf(r, f))) = f /\ Distincts(r, f) = {f} /\ TransformedOf(r, f) = f
  BY NoOperations
<1>3. Base(r, tables) = f
  BY <1>1, <1>2 DEF Base
<1>4. Sorts(r, f) = {f}
  BY DEF Sorts
<1>5. a \in Heads(f, r.sorts # <<>>)
  BY <1>2, <1>3, <1>4 DEF Outcome
<1>6. Len(f.rows) <= MaxRows
  BY FrameRows, RequestsAssumption
<1> QED BY <1>5, <1>6 DEF Heads

\* A process and the queries it was built from give the same table, for every
\* request, if it is portable, nothing is cut by the row limit and no column has
\* lost its type (execute_process against _run_single and _run_join).
THEOREM ProcessesMatchQueries == Spec => []ProcessMatchesQuery
<1>1. ExecutionInv => ProcessMatchesQuery
  <2> SUFFICES ASSUME ExecutionInv, engine = "done", OrderFree,
                      \A side \in Sides : Portable(Source(side).type, Source(side).table, Source(side).q),
                      Joined \/ request.sorts = <<>> \/ read["query"]["left"].rows # <<>>,
                      TypesKept
               PROVE  /\ (answer["query"] = Failure) = (answer["process"] = Failure)
                      /\ SameRows(answer["query"], answer["process"])
    BY DEF ProcessMatchesQuery
  <2> DEFINE r  == request
             tq == read["query"]
             tp == read["process"]
             aq == answer["query"]
             ap == answer["process"]
  <2>1. /\ r \in Requests /\ "left" \in DOMAIN r.sources
        /\ \A side \in DOMAIN r.sources : /\ tq[side] \in ReadBy(r, "query", side)
                                          /\ tp[side] \in ReadBy(r, "process", side)
        /\ Outcome(r, tq, aq) /\ Outcome(r, tp, ap)
    BY RequestsAssumption DEF ExecutionInv, ReadInv, AnswerInv, Finished, Engines, Sides
  <2>2. \A side \in DOMAIN r.sources :
            /\ Portable(r.sources[side].type, r.sources[side].table, r.sources[side].q)
            /\ Len(r.sources[side].table.rows) <= MaxRows
            /\ tq[side].rows # <<>> =>
                    /\ tq[side].columns = tp[side].columns
                    /\ \A c \in tq[side].columns :
                            tq[side].types[c] = "null" => tp[side].types[c] = "null"
    BY DEF Sides, Source, OrderFree, TypesKept
  <2>3. /\ r.distinct.enabled => r.distinct.keep = "none" \/ r.distinct.columns = {}
        /\ Len(ap.rows) < MaxRows
        /\ "right" \in DOMAIN r.sources \/ r.sorts = <<>> \/ tq["left"].rows # <<>>
    BY DEF OrderFree, Joined, Sides
  <2> HIDE DEF r, tq, tp, aq, ap
  <2>4. \A side \in DOMAIN r.sources : SameTable(tq[side], tp[side])
    BY <2>1, <2>2, SameRead
  <2>5. \A side \in DOMAIN r.sources : IsFrame(tq[side]) /\ IsFrame(tp[side])
    BY <2>1, ReadFrames
  <2>6. CASE "right" \in DOMAIN r.sources \/ tq["left"].rows # <<>>
    <3>1. JoinedOf(r, tq) = JoinedOf(r, tp)
      BY <2>1, <2>4, <2>6, SameJoined
    <3>2. Base(r, tq) = Base(r, tp)
      BY <3>1 DEF Base
    <3>3. IsFrame(Base(r, tq))
      BY <2>1, <2>5, BaseFrame
    <3>4. (aq = Failure) = (ap = Failure) /\ SameRows(aq, ap)
      BY <2>1, <2>3, <3>2, <3>3, SameAnswers
    <3> QED BY <3>4 DEF aq, ap
  <2>7. CASE "right" \notin DOMAIN r.sources /\ tq["left"].rows = <<>>
    <3>1. SortOnly(r) /\ r.sorts = <<>> /\ DOMAIN r.sources = {"left"}
      BY <2>1, <2>3, <2>7, RequestsAssumption
    <3>2. SameTable(tq["left"], tp["left"]) /\ IsFrame(tq["left"]) /\ IsFrame(tp["left"])
      BY <2>1, <2>4, <2>5
    <3>3. tp["left"].rows = <<>>
      BY <2>7, <3>2 DEF SameTable
    <3>4. aq = tq["left"]
      BY <2>1, <2>7, <3>1, <3>2, EmptyAnswer
    <3>5. ap = tp["left"]
      BY <2>1, <3>1, <3>2, <3>3, EmptyAnswer
    <3>6. (aq = Failure) = (ap = Failure) /\ aq.rows = <<>> /\ ap.rows = <<>>
      BY <2>7, <3>2, <3>3, <3>4, <3>5 DEF SameTable
    <3>7. SameRows(aq, ap)
      BY <3>6 DEF SameRows, ToSet
    <3> QED BY <3>6, <3>7 DEF aq, ap
  <2> QED BY <2>6, <2>7 DEF r, tq
<1> QED BY <1>1, ExecutionInvHolds, PTL

-----------------------------------------------------------------------------
(* What an execution can fail for, and what becomes of a table without rows.   *)

Offers(table, q, sparse, f) ==
    /\ (Selected(q, table) \cap table.columns) \ sparse \subseteq f.columns
    /\ f.columns \subseteq table.columns \cup q.columns

LEMMA QueryOffers ==
    ASSUME NEW type \in Connectors, NEW table, IsTable(table), NEW q,
           ExecuteQuery(type, table, q).rows # <<>>
    PROVE  Offers(table, q, {}, ExecuteQuery(type, table, q))
<1> DEFINE f == ExecuteQuery(type, table, q)
<1>2. ASSUME NEW rows, NEW columns \in SUBSET table.columns, f = Project(table, rows, columns),
             Selected(q, table) \cap table.columns \subseteq columns
      PROVE  Offers(table, q, {}, f)
  <2>1. f.columns = columns
    BY <1>2 DEF Project
  <2> HIDE DEF f
  <2> QED BY <1>2, <2>1 DEF Offers
<1>3. ASSUME NEW dialect, SqlQuery(dialect, table, q) # Failure
      PROVE  /\ \E rows : SqlQuery(dialect, table, q) = Project(table, rows, Selected(q, table))
             /\ Selected(q, table) \in SUBSET table.columns
  BY <1>3 DEF SqlQuery, Selected, Named
<1>4. CASE type \in {"postgres", "db2"}
  <2>1. PICK dialect : f = SqlQuery(dialect, table, q)
    BY <1>4 DEF ExecuteQuery, PostgresQuery, Db2Query
  <2>2. f # Failure
    BY FramesDiffer
  <2> QED BY <1>2, <1>3, <2>1, <2>2
<1>5. CASE type = "mysql"
  <2> DEFINE g == SqlQuery("mysql", table, q)
             t == [c \in DOMAIN g.types |-> Delivered("mysql", g.types[c])]
  <2>1. f = [g EXCEPT !.types = t]
    BY <1>5 DEF ExecuteQuery, MySqlQuery
  <2>2. g = Failure => f.rows = <<>>
    <3> HIDE DEF g, t
    <3> QED BY <2>1 DEF Failure
  <2>3. PICK rows : g = Project(table, rows, Selected(q, table))
    BY <1>3, <2>2
  <2>4. f.columns = Selected(q, table)
    <3> HIDE DEF g, t
    <3> QED BY <2>1, <2>3 DEF Project
  <2>5. Selected(q, table) \in SUBSET table.columns
    BY <1>3, <2>2
  <2> QED BY <1>5, <2>4, <2>5 DEF Offers
<1>6. CASE type = "mongodb"
  <2> DEFINE columns == (Selected(q, table) \cup {"_id"}) \cap table.columns
  <2>1. \E rows : f = Project(table, rows, columns)
    BY <1>6 DEF ExecuteQuery, MongoQuery
  <2> QED BY <1>2, <2>1
<1>7. CASE type = "file"
  <2> DEFINE valid == Selected(q, table) \cap table.columns
  <2>1. \E rows : \E columns \in {valid, table.columns} : f = Project(table, rows, columns)
    BY <1>7 DEF ExecuteQuery, FileQuery
  <2> QED BY <1>2, <2>1
<1>8. CASE type = "rest_api"
  <2>1. f.columns = Selected(q, table)
    BY <1>8 DEF ExecuteQuery, RestQuery
  <2> HIDE DEF f
  <2>2. Selected(q, table) \subseteq table.columns \cup q.columns
    BY DEF Selected
  <2>3. Offers(table, q, {}, f)
    BY <2>1, <2>2 DEF Offers
  <2> QED BY <2>3 DEF f
<1> QED BY <1>4, <1>5, <1>6, <1>7, <1>8 DEF Connectors

\* What an engine has read offers the columns that were selected and that every
\* row has.
LEMMA ReadOffers ==
    ASSUME NEW r \in Requests, NEW e, NEW side \in DOMAIN r.sources, NEW f \in ReadBy(r, e, side),
           f.rows # <<>>
    PROVE  LET s == r.sources[side] IN Offers(s.table, s.q, Sparse(s.type, s.table, s.q), f)
<1> DEFINE source == r.sources[side]
           u       == [source.q EXCEPT !.filters = <<>>]
           type    == source.type
           table   == source.table
           q       == source.q
           sparse  == Sparse(type, table, q)
           Good(g) == g.rows # <<>> => Offers(table, q, sparse, g)
<1>1. type \in Connectors /\ IsTable(table) /\ q \in QuerySourceConfig(Named(q))
  BY RequestsAssumption DEF IsSource
<1>2. /\ f = ProcessQuery(type, table, q) \/ f = execute_single_source(type, table, q)
         \/ f \in Heads(execute_single_source(type, table, q), FALSE)
  BY DEF ReadBy
<1>3. u.columns = q.columns /\ Sparse(type, table, u) = sparse
  BY <1>1 DEF QuerySourceConfig, Sparse
<1> HIDE DEF source, u, type, table, q, sparse
<1>4. ASSUME NEW p \in {q, u} PROVE Good(ExecuteQuery(type, table, p))
  <2>1. ExecuteQuery(type, table, p).rows # <<>> => Offers(table, p, {}, ExecuteQuery(type, table, p))
    BY <1>1, QueryOffers
  <2>2. ASSUME NEW g, Offers(table, p, {}, g) PROVE Offers(table, q, sparse, g)
    BY <1>3, <2>2 DEF Offers, Selected
  <2> QED BY <2>1, <2>2
<1>5. ASSUME NEW g, IsFrame(g), Good(g) PROVE Good(FrameOf(g, sparse))
  <2> DEFINE mine == {c \in g.columns : c \in sparse => IsInferred(g.rows, c)}
  <2>1. FrameOf(g, sparse).rows # <<>> => g.rows # <<>> /\ FrameOf(g, sparse).columns = mine
    BY FramesDiffer DEF FrameOf
  <2> QED BY <1>5, <2>1 DEF Offers
<1>6. ASSUME NEW g, Good(g), NEW h,
             h = Failure \/ (h.columns = g.columns /\ (g.rows = <<>> => h.rows = <<>>))
      PROVE  Good(h)
  BY <1>6, FramesDiffer DEF Offers
<1>7. ASSUME NEW p
      PROVE  /\ IsFrame(ExecuteQuery(type, table, p))
             /\ IsFrame(FrameOf(ExecuteQuery(type, table, p), sparse))
  BY <1>1, ExecuteQueryFrame, FrameOfFrame DEF AtMost
<1> HIDE DEF Good
<1>8. ASSUME NEW p \in {q, u}
      PROVE  /\ Good(execute_single_source(type, table, p))
             /\ IsFrame(execute_single_source(type, table, p))
  <2>1. execute_single_source(type, table, p) \in {Failure, FrameOf(ExecuteQuery(type, table, p), sparse)}
    BY <1>3 DEF execute_single_source, sparse
  <2>2. Good(FrameOf(ExecuteQuery(type, table, p), sparse))
    BY <1>4, <1>5, <1>7
  <2> QED BY <1>6, <1>7, <2>1, <2>2, EmptyFrames
<1>9. ASSUME NEW g, IsFrame(g), Good(g), NEW K \in SUBSET DOMAIN g.rows PROVE Good(KeptAt(g, K))
  <2>1. /\ KeptAt(g, K).columns = g.columns
        /\ IsFrame(KeptAt(g, K)) /\ Len(KeptAt(g, K).rows) = Cardinality(K)
    BY <1>9, KeptAtFrame
  <2>2. g.rows = <<>> => KeptAt(g, K).rows = <<>>
    <3> SUFFICES ASSUME g.rows = <<>> PROVE KeptAt(g, K).rows = <<>>
      OBVIOUS
    <3>1. K = {}
      BY <1>9
    <3> QED BY <2>1, <3>1, FrameRows, FS_EmptySet
  <2> QED BY <1>6, <1>9, <2>1, <2>2
<1>10. Good(ProcessQuery(type, table, q))
  <2> DEFINE g == execute_single_source(type, table, u)
             K == {i \in DOMAIN g.rows : PolarsKeeps(q.filters, q.logic, g.rows[i], g.columns, g.types)}
  <2>1. Good(g) /\ IsFrame(g)
    BY <1>8
  <2>2. ProcessQuery(type, table, q) \in {Failure, apply_filters(g, q.filters, q.logic)}
    BY DEF ProcessQuery, u, q
  <2>3. apply_filters(g, q.filters, q.logic) \in {Failure, KeptAt(g, K)}
    BY DEF apply_filters, KeptAt
  <2>4. K \in SUBSET DOMAIN g.rows
    OBVIOUS
  <2> HIDE DEF g, K
  <2> QED BY <1>6, <1>9, <2>1, <2>2, <2>3, <2>4
<1>11. ASSUME NEW g, IsFrame(g), Good(g), NEW h \in Heads(g, FALSE) PROVE Good(h)
  <2>1. h = g \/ \E K \in SUBSET DOMAIN g.rows : h = KeptAt(g, K)
    BY DEF Heads, kSubset
  <2> QED BY <1>9, <1>11, <2>1
<1>12. Good(f)
  BY <1>2, <1>8, <1>10, <1>11
<1> QED BY <1>12 DEF Good, type, table, q, source, sparse

\* A frame that is no failure, on which none of some filters raises.
Sound(filters, f) ==
    /\ IsFrame(f) /\ Null \notin f.columns
    /\ \A x \in filters : x.column \in f.columns => ~Raises(x, f.types[x.column])

LEMMA SoundIsNoFailure ==
    ASSUME NEW filters, NEW f, Sound(filters, f)
    PROVE  f # Failure
  BY FramesDiffer DEF Sound

LEMMA SoundRows ==
    ASSUME NEW filters, NEW f, Sound(filters, f), NEW g, IsFrame(g),
           g.columns = f.columns, g.types = f.types
    PROVE  Sound(filters, g)
  BY DEF Sound

\* The columns of a join are those it keeps of either side.
LEMMA PolarsJoinColumns ==
    ASSUME NEW left, NEW right, NEW join
    PROVE  LET f       == PolarsJoin(left, right, join)
               mine    == LeftPart(left, join)
               Name(c) == JoinedName(left, join, c)
               theirs  == {Name(c) : c \in RightPart(right, join)}
           IN  /\ f.columns = mine \cup theirs
               /\ \A c \in f.columns : f.types[c] =
                    IF c \in mine THEN left.types[c]
                    ELSE right.types[CHOOSE d \in RightPart(right, join) : Name(d) = c]
<1> DEFINE mine    == LeftPart(left, join)
           Name(c) == JoinedName(left, join, c)
           theirs  == {Name(c) : c \in RightPart(right, join)}
           Origin(c) == CHOOSE d \in RightPart(right, join) : Name(d) = c
           columns == mine \cup theirs
           types   == [c \in columns |-> IF c \in mine THEN left.types[c] ELSE right.types[Origin(c)]]
           f       == PolarsJoin(left, right, join)
<1>1. f.columns = columns /\ f.types = types
  BY DEF PolarsJoin
<1> HIDE DEF f
<1>2. \A c \in columns : types[c] = IF c \in mine THEN left.types[c] ELSE right.types[Origin(c)]
  OBVIOUS
<1>3. /\ f.columns = mine \cup theirs
      /\ \A c \in f.columns : f.types[c] = IF c \in mine THEN left.types[c] ELSE right.types[Origin(c)]
  BY <1>1, <1>2
<1> QED BY <1>3 DEF f

\* On none of some frames to be joined does a filter raise, under the name that
\* a column has or gets.
SafeInputs(filters, inputs) ==
    \A x \in filters : \A n \in DOMAIN inputs : \A d \in inputs[n].columns :
        x.column \in {d, Suffixed(d)} => ~Raises(x, inputs[n].types[d])

\* A join keeps every column but the keys that its other side has.
LEMMA JoinSound ==
    ASSUME NEW filters, NEW left, Sound({}, left), NEW right, Sound({}, right),
           \A c \in right.columns : Suffixed(c) # Null, NEW join,
           left.rows # <<>>, right.rows # <<>>,
           ToSet(join.left_on) \subseteq left.columns, ToSet(join.right_on) \subseteq right.columns,
           ~NamesClash(left, right, join), SafeInputs(filters, JoinInputs(left, right, join))
    PROVE  LET f == JoinFrames(left, right, join)
           IN  /\ Sound(filters, f)
               /\ LeftPart(left, join) \cup RightPart(right, join) \subseteq f.columns
<1> DEFINE l == CoerceJoinKeys(left, join.left_on, right, join.right_on)
           r == CoerceJoinKeys(right, join.right_on, left, join.left_on)
           f == JoinFrames(left, right, join)
           mine    == LeftPart(l, join)
           Name(c) == JoinedName(l, join, c)
           theirs  == {Name(c) : c \in RightPart(r, join)}
           Origin(c) == CHOOSE d \in RightPart(r, join) : Name(d) = c
<1>1. IsCast(l, left) /\ IsCast(r, right)
  BY CoercedFrame DEF Sound
<1>2. f = PolarsJoin(l, r, join)
  <2>1. JoinInputs(left, right, join)[1] = l /\ JoinInputs(left, right, join)[2] = r
    BY DEF JoinInputs
  <2> HIDE DEF l, r
  <2> QED BY <2>1 DEF JoinFrames
<1>3. /\ \A x \in filters : \A d \in l.columns :
            x.column \in {d, Suffixed(d)} => ~Raises(x, l.types[d])
      /\ \A x \in filters : \A d \in r.columns :
            x.column \in {d, Suffixed(d)} => ~Raises(x, r.types[d])
  <2> HIDE DEF l, r
  <2>1. SafeInputs(filters, <<l, r>>)
    BY DEF JoinInputs, l, r
  <2> QED BY <2>1 DEF SafeInputs
<1> HIDE DEF l, r
<1>4. /\ LeftPart(l, join) = LeftPart(left, join)
      /\ RightPart(r, join) = RightPart(right, join)
      /\ LeftPart(l, join) \subseteq left.columns /\ RightPart(r, join) \subseteq right.columns
      /\ l.columns = left.columns /\ r.columns = right.columns
  BY <1>1 DEF LeftPart, RightPart, IsCast
<1>5. IsFrame(f)
  BY JoinKeeps DEF Sound
<1>6. /\ f.columns = mine \cup theirs
      /\ \A c \in mine \cup theirs : f.types[c] = IF c \in mine THEN l.types[c] ELSE r.types[Origin(c)]
  BY <1>2, PolarsJoinColumns
<1>7. /\ \A c \in theirs : Origin(c) \in RightPart(r, join) /\ Name(Origin(c)) = c
      /\ \A c : Name(c) \in {c, Suffixed(c)} /\ (c \notin mine => Name(c) = c)
  BY DEF JoinedName
<1>8. \A c \in RightPart(r, join) : c \in mine \cup theirs
  BY <1>7
<1> HIDE DEF f, mine, Origin, Name
<1>9. Null \notin mine /\ Null \notin theirs
  BY <1>4, <1>7 DEF Sound, mine
<1> HIDE DEF theirs
<1>10. ASSUME NEW x \in filters, x.column \in f.columns PROVE ~Raises(x, f.types[x.column])
  <2> DEFINE c == x.column
  <2>1. CASE c \in mine
    <3>1. f.types[c] = l.types[c] /\ c \in l.columns
      BY <1>4, <1>6, <2>1 DEF mine
    <3> QED BY <1>3, <3>1
  <2>2. CASE c \notin mine
    <3>1. f.types[c] = r.types[Origin(c)] /\ Origin(c) \in r.columns
          /\ c \in {Origin(c), Suffixed(Origin(c))}
      BY <1>4, <1>6, <1>7, <1>10, <2>2
    <3> QED BY <1>3, <3>1
  <2> QED BY <2>1, <2>2
<1>11. LeftPart(left, join) \cup RightPart(right, join) \subseteq f.columns
  BY <1>4, <1>6, <1>8 DEF mine
<1>12. Sound(filters, f)
  BY <1>5, <1>6, <1>9, <1>10 DEF Sound
<1> QED BY <1>11, <1>12 DEF f

\* No filter raises on what a column is derived with.
SafeDerived(filters, s) ==
    \A x \in filters : x.column = s.name => \A t \in DerivedTypes(s) : ~Raises(x, t)

LEMMA DeriveOneSound ==
    ASSUME NEW filters, NEW f, Sound(filters, f), NEW s, s.name # Null, SafeDerived(filters, s)
    PROVE  LET g == DeriveOne(f, s)
           IN  /\ Sound(filters, g) /\ f.columns \subseteq g.columns
               /\ IsConstant(s) => s.name \in g.columns
<1> DEFINE g == DeriveOne(f, s)
<1>1. g = f \/ \E type \in DerivedTypes(s) : \E cells : g = WithColumn(f, s.name, type, cells)
  BY DEF DeriveOne, LeftOut, DerivedTypes
<1>2. IsConstant(s) => \E type \in DerivedTypes(s) : \E cells : g = WithColumn(f, s.name, type, cells)
  <2>1. CASE s.kind = "literal"
    BY <2>1 DEF DeriveOne, DerivedTypes
  <2>2. CASE s.kind = "math" /\ ToSet(s.columns) = {}
    BY <2>2 DEF DeriveOne, DerivedTypes
  <2> QED BY <2>1, <2>2 DEF IsConstant
<1> HIDE DEF g
<1>3. ASSUME NEW type \in DerivedTypes(s), NEW cells, g = WithColumn(f, s.name, type, cells)
      PROVE  Sound(filters, g) /\ f.columns \subseteq g.columns /\ s.name \in g.columns
  <2>1. IsFrame(g) /\ g.columns = f.columns \cup {s.name}
    BY <1>3, WithColumnFrame DEF Sound
  <2>2. \A c \in f.columns \cup {s.name} : g.types[c] = IF c = s.name THEN type ELSE f.types[c]
    BY <1>3 DEF WithColumn
  <2>3. ASSUME NEW x \in filters, x.column \in g.columns PROVE ~Raises(x, g.types[x.column])
    <3>1. CASE x.column = s.name
      BY <2>1, <2>2, <3>1 DEF SafeDerived
    <3>2. CASE x.column # s.name
      BY <2>1, <2>2, <2>3, <3>2 DEF Sound
    <3> QED BY <3>1, <3>2
  <2> QED BY <2>1, <2>3 DEF Sound
<1>4. Sound(filters, g) /\ f.columns \subseteq g.columns /\ (IsConstant(s) => s.name \in g.columns)
  BY <1>1, <1>2, <1>3
<1> QED BY <1>4 DEF g

LEMMA DerivedSound ==
    ASSUME NEW filters, NEW f, Sound(filters, f), NEW S, NEW specs \in Seq(S),
           \A n \in 1..Len(specs) : specs[n].name # Null /\ SafeDerived(filters, specs[n])
    PROVE  LET g == apply_derived_columns(f, specs)
           IN  /\ Sound(filters, g) /\ f.columns \subseteq g.columns
               /\ \A n \in 1..Len(specs) : IsConstant(specs[n]) => specs[n].name \in g.columns
<1> DEFINE L == Len(specs)
<1>1. PICK after : /\ after[0] = f
                   /\ \A n \in 1..Len(specs) : after[n] = DeriveOne(after[n - 1], specs[n])
                   /\ apply_derived_columns(f, specs) = after[Len(specs)]
  BY DerivesInOrder
<1> DEFINE Good == {n \in 0..L :
                /\ Sound(filters, after[n]) /\ f.columns \subseteq after[n].columns
                /\ \A m \in 1..n : IsConstant(specs[m]) => specs[m].name \in after[n].columns}
<1>2. L \in Nat
  OBVIOUS
<1>3. 0 \in Good
  BY <1>1, <1>2
<1>4. ASSUME NEW n \in 1..L, n - 1 \in Good PROVE n \in Good
  <2>1. /\ Sound(filters, after[n - 1]) /\ f.columns \subseteq after[n - 1].columns
        /\ \A m \in 1..(n - 1) : IsConstant(specs[m]) => specs[m].name \in after[n - 1].columns
    BY <1>4
  <2>2. /\ Sound(filters, after[n]) /\ after[n - 1].columns \subseteq after[n].columns
        /\ IsConstant(specs[n]) => specs[n].name \in after[n].columns
    BY <1>1, <2>1, DeriveOneSound
  <2>3. ASSUME NEW m \in 1..n, IsConstant(specs[m]) PROVE specs[m].name \in after[n].columns
    <3>1. m = n \/ m \in 1..(n - 1)
      BY <1>2
    <3> QED BY <2>1, <2>2, <2>3, <3>1
  <2>4. n \in 0..L
    BY <1>2
  <2> QED BY <2>1, <2>2, <2>3, <2>4
<1> HIDE DEF L
<1>5. L \in Good
  <2> HIDE DEF Good
  <2> QED BY <1>2, <1>3, <1>4, ChainEnd
<1> QED BY <1>1, <1>5 DEF L

LEMMA FilteredSound ==
    ASSUME NEW f, NEW filters, Sound(ToSet(filters), f), NEW logic
    PROVE  LET g == apply_filters(f, filters, logic)
           IN  Sound({}, g) /\ g.columns = f.columns
<1> DEFINE K == {i \in DOMAIN f.rows : PolarsKeeps(filters, logic, f.rows[i], f.columns, f.types)}
<1>1. K \in SUBSET DOMAIN f.rows
  OBVIOUS
<1>2. \A i \in DOMAIN filters : Skipped(filters[i], f.columns, f.types)
                                \/ ~Raises(filters[i], f.types[filters[i].column])
  BY DEF Skipped, Sound, ToSet
<1>3. apply_filters(f, filters, logic) = KeptAt(f, K)
  BY <1>2 DEF apply_filters, KeptAt
<1> HIDE DEF K
<1>4. /\ IsFrame(KeptAt(f, K)) /\ KeptAt(f, K).columns = f.columns
  BY <1>1, KeptAtFrame DEF Sound
<1> QED BY <1>3, <1>4 DEF Sound

\* Every distinct frame has the columns of the one before.
LEMMA DistinctSound ==
    ASSUME NEW filters, NEW f, Sound(filters, f), NEW d, NEW g \in apply_distinct(f, d)
    PROVE  Sound(filters, g) /\ g.columns = f.columns /\ (f.rows = <<>> => g.rows = <<>>)
<1>1. g = f \/ \E K \in SUBSET DOMAIN f.rows : g = KeptAt(f, K)
  BY DEF apply_distinct
<1>2. ASSUME NEW K \in SUBSET DOMAIN f.rows, g = KeptAt(f, K)
      PROVE  Sound(filters, g) /\ g.columns = f.columns /\ (f.rows = <<>> => g.rows = <<>>)
  <2>1. g.columns = f.columns /\ g.types = f.types /\ IsFrame(g) /\ Len(g.rows) = Cardinality(K)
    BY <1>2, KeptAtFrame DEF Sound
  <2>2. ASSUME f.rows = <<>> PROVE g.rows = <<>>
    <3>1. K = {}
      BY <2>2
    <3> QED BY <2>1, <3>1, FrameRows, FS_EmptySet
  <2> QED BY <2>1, <2>2, SoundRows
<1> QED BY <1>1, <1>2

\* A transform gives no column the name that none has.
LEMMA TransformOneSound ==
    ASSUME NEW f, IsFrame(f), Null \notin f.columns, NEW t, t.kind = "rename" => t.name # Null
    PROVE  LET g == TransformOne(f, t) IN IsFrame(g) /\ Null \notin g.columns
<1> DEFINE g == TransformOne(f, t)
<1>1. \/ g = f
      \/ t.kind = "rename" /\ g = Renamed(f, t.column, t.name)
      \/ t.column \in f.columns /\ \E type, cells : g = WithColumn(f, t.column, type, cells)
  BY DEF TransformOne
<1> HIDE DEF g
<1>2. ASSUME t.kind = "rename", g = Renamed(f, t.column, t.name)
      PROVE  IsFrame(g) /\ Null \notin g.columns
  <2>1. IsFrame(g)
    BY <1>2, AlikeSelf, RenamedAlike DEF Alike
  <2>2. g.columns = (f.columns \ {t.column}) \cup {t.name}
    BY <1>2 DEF Renamed
  <2> QED BY <1>2, <2>1, <2>2
<1>3. ASSUME t.column \in f.columns, NEW type, NEW cells, g = WithColumn(f, t.column, type, cells)
      PROVE  IsFrame(g) /\ Null \notin g.columns
  BY <1>3, WithColumnFrame
<1>4. IsFrame(g) /\ Null \notin g.columns
  BY <1>1, <1>2, <1>3
<1> QED BY <1>4 DEF g

LEMMA TransformsSound ==
    ASSUME NEW f, IsFrame(f), Null \notin f.columns, NEW S, NEW specs \in Seq(S),
           \A n \in 1..Len(specs) : specs[n].kind = "rename" => specs[n].name # Null
    PROVE  LET g == apply_transforms(f, specs) IN IsFrame(g) /\ Null \notin g.columns
<1> DEFINE L == Len(specs)
<1>1. PICK after : /\ after[0] = f
                   /\ \A n \in 1..Len(specs) : after[n] = TransformOne(after[n - 1], specs[n])
                   /\ apply_transforms(f, specs) = after[Len(specs)]
  BY TransformsInOrder
<1> DEFINE Good == {n \in 0..L : IsFrame(after[n]) /\ Null \notin after[n].columns}
<1>2. L \in Nat
  OBVIOUS
<1>3. 0 \in Good
  BY <1>1, <1>2
<1>4. ASSUME NEW n \in 1..L, n - 1 \in Good PROVE n \in Good
  <2>1. IsFrame(after[n]) /\ Null \notin after[n].columns
    BY <1>1, <1>4, TransformOneSound
  <2>2. n \in 0..L
    BY <1>2
  <2> QED BY <2>1, <2>2
<1> HIDE DEF L
<1>5. L \in Good
  <2> HIDE DEF Good
  <2> QED BY <1>2, <1>3, <1>4, ChainEnd
<1> QED BY <1>1, <1>5 DEF L

\* A cut keeps the columns.
LEMMA HeadsColumns ==
    ASSUME NEW f, IsFrame(f), NEW sorted, NEW g \in Heads(f, sorted)
    PROVE  g.columns = f.columns
<1>1. \/ g = f \/ (\E rows : g = [f EXCEPT !.rows = rows])
      \/ \E K \in SUBSET DOMAIN f.rows : g = KeptAt(f, K)
  BY DEF Heads, kSubset
<1>2. \A rows : [f EXCEPT !.rows = rows].columns = f.columns
  BY DEF IsFrame
<1>3. \A K \in SUBSET DOMAIN f.rows : KeptAt(f, K).columns = f.columns
  BY KeptAtFrame
<1> QED BY <1>1, <1>2, <1>3

LEMMA InToSet ==
    ASSUME NEW s, s \in Seq(ToSet(s))
    PROVE  \A n \in 1..Len(s) : s[n] \in ToSet(s)
  OBVIOUS

\* What was read, of sources that are not empty and could be read.
AllRead(e, tables) ==
    \A side \in Sides : tables[side] \in ReadBy(request, e, side) /\ tables[side].rows # <<>>

NamesOfJoin ==
    IF Joined THEN LeftPart(Offered("left"), request.join)
                        \cup RightPart(Offered("right"), request.join)
    ELSE Offered("left").columns

InputsOf(tables) ==
    IF Joined THEN JoinInputs(tables["left"], tables["right"], request.join) ELSE <<tables["left"]>>

\* The types that a column may have, of the tables read and of columns derived.
TypesIn(f, c) == {f.types[d] : d \in {x \in f.columns : c \in {x, Suffixed(x)}}}

TypesRead(tables, c) == UNION {TypesIn(InputsOf(tables)[n], c) : n \in DOMAIN InputsOf(tables)}

TypesDerived(c) == UNION {DerivedTypes(d) : d \in {x \in ToSet(request.derived) : x.name = c}}

LEMMA TypesAtIs ==
    ASSUME NEW e, NEW c
    PROVE  TypesAt(e, c) = TypesRead(read[e], c) \cup TypesDerived(c)
  BY DEF TypesAt, TypesRead, TypesDerived, TypesIn, InputsOf

LEMMA TablesSound ==
    ASSUME request \in Requests, NEW e, NEW tables, AllRead(e, tables), NEW side \in Sides
    PROVE  /\ Sound({}, tables[side])
           /\ Offered(side).columns \subseteq tables[side].columns
           /\ \A c \in tables[side].columns : Suffixed(c) # Null
<1> DEFINE f == tables[side]
           source == request.sources[side]
<1>1. f \in ReadBy(request, e, side) /\ f.rows # <<>> /\ side \in DOMAIN request.sources
  BY DEF AllRead, Sides
<1>2. IsFrame(f)
  BY <1>1, ReadFrames
<1>3. Offers(source.table, source.q, Sparse(source.type, source.table, source.q), f)
  BY <1>1, ReadOffers
<1>4. \A c \in source.table.columns \cup Named(source.q) : c # Null /\ Suffixed(c) # Null
  BY <1>1, RequestsAssumption
<1>5. f.columns \subseteq source.table.columns \cup Named(source.q)
  BY <1>3 DEF Offers, Named
<1>6. Offered(side).columns \subseteq f.columns
  BY <1>3 DEF Offers, Offered, Source
<1> HIDE DEF f, source
<1>8. Sound({}, f) /\ Offered(side).columns \subseteq f.columns
        /\ \A c \in f.columns : Suffixed(c) # Null
  BY <1>2, <1>4, <1>5, <1>6 DEF Sound
<1> QED BY <1>8 DEF f

\* The tables read, joined where there is a join.
LEMMA JoinedSound ==
    ASSUME request \in Requests, request.select = {}, Joined => KeysKnown,
           NEW e, NEW tables, AllRead(e, tables),
           Joined => ~NamesClash(tables["left"], tables["right"], request.join),
           NEW filters, SafeInputs(filters, InputsOf(tables))
    PROVE  /\ Sound(filters, JoinedOf(request, tables))
           /\ NamesOfJoin \subseteq JoinedOf(request, tables).columns
<1> DEFINE j == IF "right" \in DOMAIN request.sources
                THEN JoinFrames(tables["left"], tables["right"], request.join)
                ELSE tables["left"]
<1>1. Sides \in {{"left"}, {"left", "right"}}
  BY RequestsAssumption DEF Sides
<1>2. \A side \in Sides : tables[side] # Failure
  BY TablesSound, SoundIsNoFailure
<1>3. ASSUME Joined PROVE Sound(filters, j) /\ NamesOfJoin \subseteq j.columns
  <2>1. "left" \in Sides /\ "right" \in Sides
    BY <1>1, <1>3 DEF Joined
  <2> DEFINE left == tables["left"]
             right == tables["right"]
             join == request.join
  <2>2. /\ Sound({}, left) /\ Sound({}, right)
        /\ Offered("left").columns \subseteq left.columns
        /\ Offered("right").columns \subseteq right.columns
        /\ \A c \in right.columns : Suffixed(c) # Null
        /\ left.rows # <<>> /\ right.rows # <<>>
    BY <2>1, TablesSound DEF AllRead
  <2>3. ToSet(join.left_on) \subseteq left.columns /\ ToSet(join.right_on) \subseteq right.columns
    BY <1>3, <2>2 DEF KeysKnown
  <2>4. j = JoinFrames(left, right, join)
    BY <2>1 DEF Sides
  <2>5. ~NamesClash(left, right, join) /\ SafeInputs(filters, JoinInputs(left, right, join))
    BY <1>3 DEF InputsOf
  <2> HIDE DEF left, right, join, j
  <2>6. /\ Sound(filters, j)
        /\ LeftPart(left, join) \cup RightPart(right, join) \subseteq j.columns
    BY <2>2, <2>3, <2>4, <2>5, JoinSound
  <2>7. NamesOfJoin \subseteq LeftPart(left, join) \cup RightPart(right, join)
    BY <1>3, <2>2 DEF NamesOfJoin, LeftPart, RightPart, join
  <2> QED BY <2>6, <2>7 DEF j
<1>4. ASSUME ~Joined PROVE Sound(filters, j) /\ NamesOfJoin \subseteq j.columns
  <2> DEFINE left == tables["left"]
  <2>1. j = left /\ "left" \in Sides
    BY <1>1, <1>4 DEF Joined, Sides
  <2>2. NamesOfJoin = Offered("left").columns
    BY <1>4 DEF NamesOfJoin
  <2>3. Sound({}, left) /\ Offered("left").columns \subseteq left.columns
    BY <2>1, TablesSound
  <2>4. SafeInputs(filters, <<left>>)
    BY <1>4 DEF InputsOf
  <2> HIDE DEF left, j
  <2>5. Sound(filters, left)
    BY <2>3, <2>4 DEF Sound, SafeInputs
  <2> QED BY <2>1, <2>2, <2>3, <2>5
<1>5. Sound(filters, j) /\ NamesOfJoin \subseteq j.columns
  BY <1>3, <1>4
<1> HIDE DEF j
<1>6. JoinedOf(request, tables) = select_columns(j, {})
  BY <1>2, <1>5, SoundIsNoFailure DEF JoinedOf, Sides, j
<1>7. select_columns(j, {}) = j
  BY DEF select_columns
<1> QED BY <1>5, <1>6, <1>7

\* No step fails from there on.
LEMMA OutcomeSound ==
    ASSUME request \in Requests, request.select = {}, request.group.columns = {},
           Joined => KeysKnown,
           \A x \in ToSet(request.sorts) : x.column \in KnownNames,
           NEW e, NEW tables, AllRead(e, tables),
           Joined => ~NamesClash(tables["left"], tables["right"], request.join),
           SafeInputs(ToSet(request.filters), InputsOf(tables)),
           \A d \in ToSet(request.derived) : SafeDerived(ToSet(request.filters), d),
           NEW a, Outcome(request, tables, a)
    PROVE  a # Failure
<1> DEFINE filters == ToSet(request.filters)
           d1 == JoinedOf(request, tables)
           d2 == DerivedOf(request, d1)
           d3 == FilteredOf(request, d2)
<1>1. Sound(filters, d1) /\ NamesOfJoin \subseteq d1.columns
  BY JoinedSound
<1> HIDE DEF d1
<1>2. Sound(filters, d2) /\ KnownNames \subseteq d2.columns
  <2> DEFINE g == apply_derived_columns(d1, request.derived)
  <2>1. /\ request.derived \in Seq(ToSet(request.derived))
        /\ \A n \in 1..Len(request.derived) :
                /\ request.derived[n] \in ToSet(request.derived)
                /\ request.derived[n].name # Null
    BY RequestsAssumption, InToSet
  <2>2. \A n \in 1..Len(request.derived) : SafeDerived(filters, request.derived[n])
    BY <2>1
  <2> HIDE DEF filters
  <2>3. /\ Sound(filters, g) /\ d1.columns \subseteq g.columns
        /\ \A n \in 1..Len(request.derived) :
                IsConstant(request.derived[n]) => request.derived[n].name \in g.columns
    BY <1>1, <2>1, <2>2, DerivedSound
  <2>4. d2 = g
    BY <1>1, SoundIsNoFailure DEF DerivedOf
  <2> HIDE DEF g, d2
  <2>5. KnownNames = NamesOfJoin \cup {d.name : d \in {x \in ToSet(request.derived) : IsConstant(x)}}
    BY DEF KnownNames, NamesOfJoin
  <2>6. ASSUME NEW d \in ToSet(request.derived), IsConstant(d) PROVE d.name \in g.columns
    <3>1. PICK n \in 1..Len(request.derived) : d = request.derived[n]
      BY <2>1 DEF ToSet
    <3> QED BY <2>3, <2>6, <3>1
  <2> QED BY <1>1, <2>3, <2>4, <2>5, <2>6
<1> HIDE DEF d2
<1>3. Sound({}, d3) /\ d3.columns = d2.columns
  <2>1. LET g == apply_filters(d2, request.filters, request.logic)
        IN  Sound({}, g) /\ g.columns = d2.columns
    BY <1>2, FilteredSound
  <2> QED BY <1>2, <2>1, SoundIsNoFailure DEF FilteredOf
<1>4. Base(request, tables) = d3
  <2>1. GroupedOf(request, d3) = d3
    BY <1>3, SoundIsNoFailure DEF GroupedOf, apply_group_by
  <2> QED BY <2>1 DEF Base, d1, d2
<1> HIDE DEF d3
<1>5. PICK d \in Distincts(request, d3) : \E s \in Sorts(request, d) :
        a \in Heads(TransformedOf(request, s), request.sorts # <<>>)
  BY <1>4 DEF Outcome
<1>6. PICK s \in Sorts(request, d) : a \in Heads(TransformedOf(request, s), request.sorts # <<>>)
  BY <1>5
<1>7. Sound({}, d) /\ KnownNames \subseteq d.columns
  <2>1. d \in apply_distinct(d3, request.distinct)
    BY <1>3, <1>5, SoundIsNoFailure DEF Distincts
  <2> QED BY <1>2, <1>3, <2>1, DistinctSound
<1>8. IsFrame(s) /\ s.columns = d.columns
  <2>1. s = d \/ s \in apply_sort(d, request.sorts)
    BY <1>6, <1>7, SoundIsNoFailure DEF Sorts
  <2>2. CASE s \in apply_sort(d, request.sorts)
    <3>1. \A n \in DOMAIN request.sorts : request.sorts[n].column \in d.columns
      BY <1>7 DEF ToSet
    <3>2. IsFrame(s) /\ \E rows : s = [columns |-> d.columns, types |-> d.types, rows |-> rows]
      BY <1>7, <2>2, <3>1, SortedRows DEF Sound
    <3> QED BY <3>2
  <2> QED BY <1>7, <2>1, <2>2 DEF Sound
<1> DEFINE t == TransformedOf(request, s)
<1>9. IsFrame(t) /\ Null \notin t.columns
  <2>1. Null \notin s.columns /\ s # Failure
    BY <1>7, <1>8, FramesDiffer DEF Sound
  <2>2. /\ request.transforms \in Seq(ToSet(request.transforms))
        /\ \A n \in 1..Len(request.transforms) :
                request.transforms[n].kind = "rename" => request.transforms[n].name # Null
    BY RequestsAssumption, InToSet
  <2>3. t = apply_transforms(s, request.transforms)
    BY <2>1 DEF TransformedOf
  <2> QED BY <1>8, <2>1, <2>2, <2>3, TransformsSound
<1>10. a \in Heads(t, request.sorts # <<>>)
  BY <1>6
<1> HIDE DEF t
<1>11. Null \notin a.columns
  BY <1>9, <1>10, HeadsColumns
<1> QED BY <1>11, FramesDiffer

-----------------------------------------------------------------------------
(* A frame without rows, to which only a constant gives one.                   *)

Rowless(f) == IsFrame(f) /\ f.rows = <<>>

LEMMA NoRows ==
    ASSUME NEW f, IsFrame(f), Len(f.rows) = 0
    PROVE  Rowless(f)
  BY FrameRows DEF Rowless

LEMMA NoPlaces ==
    ASSUME NEW f, IsFrame(f), DOMAIN f.rows = {}
    PROVE  Rowless(f)
<1> DEFINE n == Len(f.rows)
<1>1. n \in Nat /\ 1..n = {}
  BY FrameRows
<1> HIDE DEF n
<1>2. n = 0
  <2>1. n # 0 => 1 \in 1..n
    BY <1>1
  <2> QED BY <1>1, <2>1
<1> QED BY <1>2, NoRows DEF n

LEMMA RowlessFrames == Rowless(NoFrame) /\ Rowless(Failure)
  BY EmptyFrames, FramesDiffer DEF Rowless

LEMMA WithColumnRowless ==
    ASSUME NEW f, Rowless(f), f.columns # {}, NEW name, NEW type, NEW cells
    PROVE  Rowless(WithColumn(f, name, type, cells))
<1>1. RowsOf(f) = f.rows /\ Len(f.rows) = 0
  BY FrameRows DEF RowsOf, Rowless
<1>2. LET g == WithColumn(f, name, type, cells) IN IsFrame(g) /\ Len(g.rows) = Len(RowsOf(f))
  BY WithColumnFrame DEF Rowless
<1> QED BY <1>1, <1>2, NoRows

LEMMA KeptRowless ==
    ASSUME NEW f, Rowless(f), NEW K \in SUBSET DOMAIN f.rows
    PROVE  Rowless(KeptAt(f, K))
<1>1. K = {}
  BY DEF Rowless
<1>2. IsFrame(KeptAt(f, K)) /\ Len(KeptAt(f, K).rows) = Cardinality(K)
  BY KeptAtFrame DEF Rowless
<1> QED BY <1>1, <1>2, NoRows, FS_EmptySet

LEMMA DeriveOneRowless ==
    ASSUME NEW f, Rowless(f), NEW s, ~IsConstant(s)
    PROVE  Rowless(DeriveOne(f, s))
<1> DEFINE g == DeriveOne(f, s)
<1>1. g = f \/ (f.columns # {} /\ \E type, cells : g = WithColumn(f, s.name, type, cells))
  BY DEF DeriveOne, LeftOut, IsConstant
<1> HIDE DEF g
<1>2. Rowless(g)
  BY <1>1, WithColumnRowless
<1> QED BY <1>2 DEF g

LEMMA DerivedRowless ==
    ASSUME NEW f, Rowless(f), NEW S, NEW specs \in Seq(S),
           \A n \in 1..Len(specs) : ~IsConstant(specs[n])
    PROVE  Rowless(apply_derived_columns(f, specs))
<1> DEFINE L == Len(specs)
<1>1. PICK after : /\ after[0] = f
                   /\ \A n \in 1..Len(specs) : after[n] = DeriveOne(after[n - 1], specs[n])
                   /\ apply_derived_columns(f, specs) = after[Len(specs)]
  BY DerivesInOrder
<1> DEFINE Good == {n \in Nat : Rowless(after[n])}
<1>2. L \in Nat
  OBVIOUS
<1>3. 0 \in Good
  BY <1>1
<1>4. ASSUME NEW n \in 1..L, n - 1 \in Good PROVE n \in Good
  BY <1>1, <1>4, DeriveOneRowless
<1> HIDE DEF L
<1>5. L \in Good
  <2> HIDE DEF Good
  <2> QED BY <1>2, <1>3, <1>4, ChainEnd
<1> QED BY <1>1, <1>5 DEF L

LEMMA TransformOneRowless ==
    ASSUME NEW f, Rowless(f), NEW t
    PROVE  Rowless(TransformOne(f, t))
<1> DEFINE g == TransformOne(f, t)
<1>1. \/ g = f
      \/ g = Renamed(f, t.column, t.name)
      \/ t.column \in f.columns /\ \E type, cells : g = WithColumn(f, t.column, type, cells)
  BY DEF TransformOne
<1> HIDE DEF g
<1>2. ASSUME g = Renamed(f, t.column, t.name) PROVE Rowless(g)
  <2>1. IsFrame(g)
    BY <1>2, AlikeSelf, RenamedAlike DEF Alike, Rowless
  <2>2. DOMAIN g.rows = {}
    BY <1>2 DEF Renamed, Rowless
  <2> QED BY <2>1, <2>2, NoPlaces
<1>3. Rowless(g)
  BY <1>1, <1>2, WithColumnRowless
<1> QED BY <1>3 DEF g

LEMMA TransformsRowless ==
    ASSUME NEW f, Rowless(f), NEW S, NEW specs \in Seq(S)
    PROVE  Rowless(apply_transforms(f, specs))
<1> DEFINE L == Len(specs)
<1>1. PICK after : /\ after[0] = f
                   /\ \A n \in 1..Len(specs) : after[n] = TransformOne(after[n - 1], specs[n])
                   /\ apply_transforms(f, specs) = after[Len(specs)]
  BY TransformsInOrder
<1> DEFINE Good == {n \in Nat : Rowless(after[n])}
<1>2. L \in Nat
  OBVIOUS
<1>3. 0 \in Good
  BY <1>1
<1>4. ASSUME NEW n \in 1..L, n - 1 \in Good PROVE n \in Good
  BY <1>1, <1>4, TransformOneRowless
<1> HIDE DEF L
<1>5. L \in Good
  <2> HIDE DEF Good
  <2> QED BY <1>2, <1>3, <1>4, ChainEnd
<1> QED BY <1>1, <1>5 DEF L

\* With an empty table the join is empty; without a join it is the table.
LEMMA JoinedRowless ==
    ASSUME request \in Requests, request.select = {}, NEW tables,
           \A side \in Sides : IsFrame(tables[side]),
           \E side \in Sides : tables[side].rows = <<>>
    PROVE  Rowless(JoinedOf(request, tables))
<1> DEFINE j == IF "right" \in DOMAIN request.sources
                THEN JoinFrames(tables["left"], tables["right"], request.join)
                ELSE tables["left"]
<1>1. Sides \in {{"left"}, {"left", "right"}}
  BY RequestsAssumption DEF Sides
<1>2. Rowless(j)
  <2>1. CASE Joined
    <3>1. <<>> \in {tables["left"].rows, tables["right"].rows}
      BY <1>1
    <3>2. j = JoinFrames(tables["left"], tables["right"], request.join)
      BY <2>1 DEF Joined, Sides
    <3>3. j = NoFrame
      BY <3>1, <3>2 DEF JoinFrames
    <3> QED BY <3>3, RowlessFrames
  <2>2. CASE ~Joined
    <3>1. j = tables["left"] /\ Sides = {"left"}
      BY <1>1, <2>2 DEF Joined, Sides
    <3> QED BY <3>1 DEF Rowless
  <2> QED BY <2>1, <2>2
<1> HIDE DEF j
<1>3. JoinedOf(request, tables) \in {Failure, select_columns(j, {})}
  BY DEF JoinedOf, j
<1>4. select_columns(j, {}) = j
  BY DEF select_columns
<1> QED BY <1>2, <1>3, <1>4, RowlessFrames

LEMMA OutcomeRowless ==
    ASSUME request \in Requests, request.select = {}, request.group.columns = {},
           \A d \in ToSet(request.derived) : ~IsConstant(d), NEW tables,
           \A side \in Sides : IsFrame(tables[side]),
           \E side \in Sides : tables[side].rows = <<>>,
           NEW a, Outcome(request, tables, a)
    PROVE  a.rows = <<>>
<1> DEFINE d1 == JoinedOf(request, tables)
           d2 == DerivedOf(request, d1)
           d3 == FilteredOf(request, d2)
<1>1. Rowless(d1)
  BY JoinedRowless
<1> HIDE DEF d1
<1>2. Rowless(d2)
  <2>1. /\ request.derived \in Seq(ToSet(request.derived))
        /\ \A n \in 1..Len(request.derived) : ~IsConstant(request.derived[n])
    BY RequestsAssumption, InToSet
  <2>2. Rowless(apply_derived_columns(d1, request.derived))
    BY <1>1, <2>1, DerivedRowless
  <2> QED BY <2>2, RowlessFrames DEF DerivedOf
<1> HIDE DEF d2
<1>3. Rowless(d3)
  <2> DEFINE K == {i \in DOMAIN d2.rows : PolarsKeeps(request.filters, request.logic,
                                                      d2.rows[i], d2.columns, d2.types)}
  <2>1. apply_filters(d2, request.filters, request.logic) \in {Failure, KeptAt(d2, K)}
    BY DEF apply_filters, KeptAt
  <2>2. K \in SUBSET DOMAIN d2.rows
    OBVIOUS
  <2> HIDE DEF K
  <2> QED BY <1>2, <2>1, <2>2, KeptRowless, RowlessFrames DEF FilteredOf
<1>4. Base(request, tables) = d3
  <2>1. GroupedOf(request, d3) = d3
    BY DEF GroupedOf, apply_group_by
  <2> QED BY <2>1 DEF Base, d1, d2
<1> HIDE DEF d3
<1>5. PICK d \in Distincts(request, d3) : \E s \in Sorts(request, d) :
        a \in Heads(TransformedOf(request, s), request.sorts # <<>>)
  BY <1>4 DEF Outcome
<1>6. PICK s \in Sorts(request, d) : a \in Heads(TransformedOf(request, s), request.sorts # <<>>)
  BY <1>5
<1>7. Rowless(d)
  <2>1. d = Failure \/ d = d3 \/ \E K \in SUBSET DOMAIN d3.rows : d = KeptAt(d3, K)
    BY <1>5 DEF Distincts, apply_distinct
  <2> QED BY <1>3, <2>1, KeptRowless, RowlessFrames
<1>8. Rowless(s)
  <2>1. s = Failure \/ s = d \/ s \in apply_sort(d, request.sorts)
    BY <1>6 DEF Sorts
  <2>2. CASE s # Failure /\ s \in apply_sort(d, request.sorts)
    <3>1. IsFrame(s) /\ \E p \in Bijection(DOMAIN d.rows, DOMAIN d.rows) :
                s = [columns |-> d.columns, types |-> d.types,
                     rows |-> [i \in DOMAIN d.rows |-> d.rows[p[i]]]]
      BY <1>7, <2>2, SortedRows DEF Rowless
    <3>2. DOMAIN s.rows = {}
      BY <1>7, <3>1 DEF Rowless
    <3> QED BY <3>1, <3>2, NoPlaces
  <2> QED BY <1>7, <2>1, <2>2, RowlessFrames
<1> DEFINE t == TransformedOf(request, s)
<1>9. Rowless(t)
  <2>1. request.transforms \in Seq(ToSet(request.transforms))
    BY RequestsAssumption
  <2>2. Rowless(apply_transforms(s, request.transforms))
    BY <1>8, <2>1, TransformsRowless
  <2> QED BY <2>2, RowlessFrames DEF TransformedOf
<1>10. a \in Heads(t, request.sorts # <<>>)
  BY <1>6
<1> HIDE DEF t
<1>11. Heads(t, request.sorts # <<>>) = {t}
  <2>1. Len(t.rows) = 0 /\ MaxRows \in Nat
    BY <1>9, FrameRows, RequestsAssumption DEF Rowless
  <2> QED BY <2>1 DEF Heads
<1> QED BY <1>9, <1>10, <1>11, RowlessFrames DEF Rowless

\* An answer has no rows if a table read had none, unless a constant is added to
\* it (_apply_literal on a frame without columns); and a request that keeps its
\* columns fails for the reasons listed only: an empty table, whose columns are
\* lost, keys or names that are not there, a name the join gives twice (the suffix
\* "_right"), and values that Polars does not compare with the type of their
\* column (_coerce_value), whatever the tables and the operations.
THEOREM EmptyTablesExplained == Spec => []EmptyTableOutcomes
<1>1. ExecutionInv => EmptyTableOutcomes
  <2> SUFFICES ASSUME ExecutionInv, engine = "done", request.select = {},
                      request.group.columns = {}, NEW e \in Engines
               PROVE  LET empty == \E side \in Sides : read[e][side].rows = <<>>
                      IN  /\ empty /\ answer[e].rows # <<>> =>
                                \E d \in ToSet(request.derived) : IsConstant(d)
                          /\ answer[e] = Failure =>
                                \/ empty
                                \/ Joined /\ ~KeysKnown
                                \/ \E x \in ToSet(request.sorts) : x.column \notin KnownNames
                                \/ Joined /\ NamesClash(read[e]["left"], read[e]["right"], request.join)
                                \/ \E f \in ToSet(request.filters) :
                                        \E t \in TypesAt(e, f.column) : Raises(f, t)
    BY DEF EmptyTableOutcomes, Engines
  <2>1. request \in Requests /\ DOMAIN read[e] = Sides
    BY DEF ExecutionInv, ReadInv, Finished
  <2>2. \A side \in Sides : read[e][side] \in ReadBy(request, e, side)
    BY <2>1 DEF ExecutionInv, ReadInv
  <2>3. \A side \in Sides : IsFrame(read[e][side])
    BY <2>1, <2>2, ReadFrames DEF Sides
  <2>4. Outcome(request, read[e], answer[e])
    BY DEF ExecutionInv, AnswerInv, Finished
  <2>5. ASSUME \E side \in Sides : read[e][side].rows = <<>>,
               \A d \in ToSet(request.derived) : ~IsConstant(d)
        PROVE  answer[e].rows = <<>>
    BY <2>1, <2>3, <2>4, <2>5, OutcomeRowless
  <2>6. ASSUME \A side \in Sides : read[e][side].rows # <<>>,
               Joined => KeysKnown,
               \A x \in ToSet(request.sorts) : x.column \in KnownNames,
               Joined => ~NamesClash(read[e]["left"], read[e]["right"], request.join),
               \A f \in ToSet(request.filters) : \A t \in TypesAt(e, f.column) : ~Raises(f, t)
        PROVE  answer[e] # Failure
    <3>1. AllRead(e, read[e])
      BY <2>2, <2>6 DEF AllRead
    <3>2. \A x \in ToSet(request.filters) :
            \A t \in TypesRead(read[e], x.column) \cup TypesDerived(x.column) : ~Raises(x, t)
      BY <2>6, TypesAtIs
    <3>3. SafeInputs(ToSet(request.filters), InputsOf(read[e]))
      <4>1. ASSUME NEW x \in ToSet(request.filters), NEW n \in DOMAIN InputsOf(read[e]),
                   NEW d \in InputsOf(read[e])[n].columns, x.column \in {d, Suffixed(d)}
            PROVE  InputsOf(read[e])[n].types[d] \in TypesRead(read[e], x.column)
        <5>1. InputsOf(read[e])[n].types[d] \in TypesIn(InputsOf(read[e])[n], x.column)
          BY <4>1 DEF TypesIn
        <5> QED BY <5>1 DEF TypesRead
      <4> QED BY <3>2, <4>1 DEF SafeInputs
    <3>4. \A d \in ToSet(request.derived) : SafeDerived(ToSet(request.filters), d)
      <4> SUFFICES ASSUME NEW d \in ToSet(request.derived), NEW x \in ToSet(request.filters),
                          x.column = d.name, NEW t \in DerivedTypes(d)
                   PROVE  ~Raises(x, t)
        BY DEF SafeDerived
      <4>1. t \in TypesDerived(x.column)
        BY DEF TypesDerived
      <4> QED BY <3>2, <4>1
    <3> QED BY <2>1, <2>4, <2>6, <3>1, <3>3, <3>4, OutcomeSound
  <2> QED BY <2>5, <2>6
<1> QED BY <1>1, ExecutionInvHolds, PTL
=============================================================================

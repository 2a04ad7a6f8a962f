--------------------------- MODULE MathExpressions ---------------------------
(* The formulas of derived columns (queries/operations/derived.py): a parser   *)
(* by recursive descent over tokens, and the grammar it is to follow.  A       *)
(* formula grows token by token.  A token is an operator, a parenthesis, or an *)
(* operand (a known column or a number).                                       *)
EXTENDS Integers, Sequences

CONSTANTS
    Operands,
    Alphabets           \* bound: [symbols, length] of the formulas made

MathOps == {"+", "-", "*", "/"}
Tokens  == Operands \cup MathOps \cup {"(", ")"}

ASSUME FormulaAssumption ==
    /\ Operands \cap (MathOps \cup {"(", ")", "end"}) = {}
    /\ \A a \in Alphabets : a.symbols \subseteq Tokens /\ a.length \in Nat

VARIABLE tokens

FormulaInit == tokens = <<>>

AddToken(t) ==
    /\ \E a \in Alphabets : Len(tokens) < a.length /\
            \A x \in {tokens[i] : i \in DOMAIN tokens} \cup {t} : x \in a.symbols
    /\ tokens' = Append(tokens, t)

FormulaNext == \E t \in UNION {a.symbols : a \in Alphabets} : AddToken(t)

FormulaSpec == FormulaInit /\ [][FormulaNext]_tokens

-----------------------------------------------------------------------------
(* A parse is [tree, pos]: an expression, in postfix, and the position behind  *)
(* it.  Raised stands for the exceptions: no expression, at no token.          *)

Trees  == Seq(Operands \cup MathOps)
Parses == [tree : Trees, pos : Nat]
NoTree == <<>>
Raised == [tree |-> NoTree, pos |-> 0]

Combined(op, l, r) == l \o r \o <<op>>

TokenAt(pos) == IF pos \in DOMAIN tokens THEN tokens[pos] ELSE "end"

(* The functions of the parser call each other for fewer tokens than they are  *)
(* called for: below is the parser for what is left behind a token.            *)

_parse_multiplicative(below, pos) == below.factors[below.primary[pos]]

_parse_additive(below, pos) == below.terms[_parse_multiplicative(below, pos)]

_parse_primary(below, pos) ==
    CASE TokenAt(pos) \in Operands -> [tree |-> <<TokenAt(pos)>>, pos |-> pos + 1]
      [] TokenAt(pos) = "(" ->
            LET inner == _parse_additive(below, pos + 1)
            IN  IF TokenAt(inner.pos) = ")" THEN [inner EXCEPT !.pos = @ + 1] ELSE Raised
      [] OTHER -> Raised

\* left, an operator, and what is parsed behind it.
Extended(left, right) ==
    [tree |-> Combined(TokenAt(left.pos), left.tree, right.tree), pos |-> right.pos]

\* The loop of _parse_multiplicative.
Factors(below, left) ==
    IF TokenAt(left.pos) \notin {"*", "/"} THEN left
    ELSE LET right == below.primary[left.pos + 1]
         IN  IF right = Raised THEN Raised ELSE below.factors[Extended(left, right)]

\* A plausible error: what follows an operator is parsed as a whole.
TermsFromRight(below, left) ==
    IF TokenAt(left.pos) \notin {"+", "-"} THEN left
    ELSE LET right == _parse_additive(below, left.pos + 1)
         IN  IF right = Raised THEN Raised ELSE Extended(left, right)

\* The loop of _parse_additive.
Terms(below, left) ==
    IF TokenAt(left.pos) \notin {"+", "-"} THEN left
    ELSE LET right == _parse_multiplicative(below, left.pos + 1)
         IN  IF right = Raised THEN Raised ELSE below.terms[Extended(left, right)]

\* The parser where at most n tokens are left.
Parser[n \in Nat] ==
    IF n = 0
    THEN [primary |-> [pos \in Nat |-> Raised],
          factors |-> [left \in Parses |-> left],
          terms   |-> [left \in Parses |-> left]]
    ELSE [primary |-> [pos \in Nat |-> _parse_primary(Parser[n - 1], pos)],
          factors |-> [left \in Parses |-> Factors(Parser[n - 1], left)],
          terms   |-> [left \in Parses |-> Terms(Parser[n - 1], left)]]

\* Tokens left over make no expression.
_parse_math_expr ==
    LET parse == _parse_additive(Parser[Len(tokens)], 1)
    IN  IF parse.pos = Len(tokens) + 1 THEN parse.tree ELSE NoTree

-----------------------------------------------------------------------------
(* The grammar, with the trees of the tokens from i to j.  Operators of one    *)
(* kind are grouped from the left:                                             *)
(*     additive       ::= multiplicative | additive (+|-) multiplicative       *)
(*     multiplicative ::= primary | multiplicative ( * | / ) primary           *)
(*     primary        ::= operand | "(" additive ")"                           *)

Spans   == Nat \X Nat
NoTrees == [s \in Spans |-> {}]

Both(op, lefts, rights) == {Combined(op, l, r) : l \in lefts, r \in rights}

Split(operators, left, right, i, j) ==
    UNION {Both(TokenAt(k), left[<<i, k - 1>>], right[<<k + 1, j>>]) :
             k \in {k \in i..j : TokenAt(k) \in operators}}

PrimaryTrees(shorter, i, j) ==
    (IF i = j /\ TokenAt(i) \in Operands THEN {<<TokenAt(i)>>} ELSE {})
    \cup (IF i < j /\ TokenAt(i) = "(" /\ TokenAt(j) = ")"
          THEN shorter.additive[<<i + 1, j - 1>>] ELSE {})

MultiplicativeTrees(shorter, i, j) ==
    PrimaryTrees(shorter, i, j)
    \cup Split({"*", "/"}, shorter.multiplicative, shorter.primary, i, j)

AdditiveTrees(shorter, i, j) ==
    MultiplicativeTrees(shorter, i, j)
    \cup Split({"+", "-"}, shorter.additive, shorter.multiplicative, i, j)

\* The derivations for at most n tokens.
Derivations[n \in Nat] ==
    IF n = 0
    THEN [primary |-> NoTrees, multiplicative |-> NoTrees, additive |-> NoTrees]
    ELSE [primary        |-> [s \in Spans |-> PrimaryTrees(Derivations[n - 1], s[1], s[2])],
          multiplicative |-> [s \in Spans |-> MultiplicativeTrees(Derivations[n - 1], s[1], s[2])],
          additive       |-> [s \in Spans |-> AdditiveTrees(Derivations[n - 1], s[1], s[2])]]

\* The parser takes exactly the formulas of the grammar, and reads each as the
\* grammar does: the usual precedence, operators of one kind from the left.
ParserFollowsGrammar ==
    {_parse_math_expr} \ {NoTree} = Derivations[Len(tokens)].additive[<<1, Len(tokens)>>]
=============================================================================

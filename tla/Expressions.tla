---------------------------- MODULE Expressions ----------------------------
(***************************************************************************)
(* Values (src/src/storage.rs), columns (src/src/catalog.rs) and scalar    *)
(* expressions (src/src/planner.rs) as pure operators.                     *)
(*                                                                         *)
(* A value is a record: its kind and a sequence of integers.  FLOATs are   *)
(* multiples of 1/FloatUnit, so that the averages of a few small integers  *)
(* are exact; text is a sequence of characters, numbered in their order.   *)
(* An expression that fails to evaluate has the pseudo-value Err.          *)
(***************************************************************************)
EXTENDS Integers, Sequences, SequencesExt, FiniteSets

FloatUnit == 12
CommaS == 0     \* as a character of a text: the three characters ",s:"

Null == [k |-> "null", v |-> <<>>]
IntVal(i) == [k |-> "int", v |-> <<i>>]
FloatVal(x) == [k |-> "float", v |-> <<x>>]
Varchar(chars) == [k |-> "varchar", v |-> chars]
BoolVal(b) == [k |-> "bool", v |-> IF b THEN <<1>> ELSE <<0>>]
Err == [k |-> "err", v |-> <<>>]

DataType == {"int", "float", "varchar", "bool"}
Value ==
    [k : {"int", "float"}, v : [1..1 -> Int]] \cup [k : {"varchar"}, v : Seq(Nat)]
    \cup [k : {"bool"}, v : {<<0>>, <<1>>}] \cup {Null}

Numeric(a) == a.k \in {"int", "float"}
AsFloat(a) == IF a.k = "int" THEN FloatUnit * a.v[1] ELSE a.v[1]

is_truthy(a) == a # Null /\ a # BoolVal(FALSE)

\* PartialEq: an INT and a FLOAT are equal if the numbers are.
Equal(a, b) == IF Numeric(a) /\ Numeric(b) THEN AsFloat(a) = AsFloat(b)
                                           ELSE a = b

\* PartialOrd: "none" between different kinds, NULL and a value included.
Precedes(s, t) ==
    \E i \in 1..Len(t) :
        /\ \A j \in 1..i - 1 : j <= Len(s) /\ s[j] = t[j]
        /\ i <= Len(s) => s[i] < t[i]

partial_cmp(a, b) ==
    LET comparable == a.k = b.k \/ (Numeric(a) /\ Numeric(b))
        x == IF Numeric(a) THEN <<AsFloat(a)>> ELSE a.v
        y == IF Numeric(b) THEN <<AsFloat(b)>> ELSE b.v
    IN CASE ~comparable -> "none"
         [] comparable /\ Equal(a, b) -> "equal"
         [] comparable /\ Precedes(x, y) -> "less"
         [] OTHER -> "greater"

(***************************************************************************)
(* Expressions.  Col(q, n) is the column q.n, or the unqualified n when q  *)
(* is NoQualifier.  An expression stands for its get_expr_name too: the    *)
(* column that holds its result is named by it, and Ref(e) is a reference  *)
(* to the column of that name.                                             *)
(***************************************************************************)
NoQualifier == ""
Col(q, n) == [k |-> "col", q |-> q, n |-> n]
Const(v) == [k |-> "const", v |-> v]
BinaryOp(op, l, r) == [k |-> "binary", op |-> op, left |-> l, right |-> r]
FuncCall(name, arg) == [k |-> "func", name |-> name, arg |-> arg]
Star == [k |-> "star"]
Ref(e) == [k |-> "ref", e |-> e]

NameOf(e) == IF e.k = "ref" THEN e.e ELSE e

\* A schema is a sequence of columns; the position is 0 if there is none.
Column(name, type) == [name |-> name, type |-> type]

Matches(name, col) ==
    \/ col.name = name
    \/ /\ name.k = "col" /\ name.q = NoQualifier
       /\ col.name.k = "col" /\ col.name.n = name.n

find_col_idx(name, schema) ==
    SelectInSeq(schema, LAMBDA col : Matches(name, col))

\* Rust's division of integers rounds towards zero.
Quotient(a, b) ==
    LET abs(x) == IF x < 0 THEN -x ELSE x
        q == abs(a) \div abs(b)
    IN IF (a < 0) = (b < 0) THEN q ELSE -q

\* On FLOATs: exact products and quotients only.  Of a division by zero,
\* which gives an infinity or no number, nothing is known but the kind.
NotFinite == CHOOSE x : x \in Int

Arithmetic(op, a, b) ==
    LET ints == a.k = "int" /\ b.k = "int"
        i == a.v[1]
        j == b.v[1]
        x == AsFloat(a)
        y == AsFloat(b)
    IN CASE op = "+" -> IF ints THEN IntVal(i + j) ELSE FloatVal(x + y)
         [] op = "-" -> IF ints THEN IntVal(i - j) ELSE FloatVal(x - y)
         [] op = "*" -> IF ints THEN IntVal(i * j) ELSE FloatVal((x * y) \div FloatUnit)
         [] op = "/" /\ ints -> IF j = 0 THEN Err ELSE IntVal(Quotient(i, j))
         [] op = "/" /\ ~ints ->
                FloatVal(IF y = 0 THEN NotFinite ELSE Quotient(x * FloatUnit, y))

Comparison(op, ord) ==
    BoolVal(CASE op = ">" -> ord = "greater"
              [] op = ">=" -> ord \in {"greater", "equal"}
              [] op = "<" -> ord = "less"
              [] op = "<=" -> ord \in {"less", "equal"})

\* Of two values, or of an error and anything.
eval_binary_op(op, a, b) ==
    CASE Err \in {a, b} -> Err
      [] Err \notin {a, b} ->
           CASE op = "=" -> BoolVal(Equal(a, b))
             [] op = "!=" -> BoolVal(~Equal(a, b))
             [] op \in {">", ">=", "<", "<="} -> Comparison(op, partial_cmp(a, b))
             [] op = "and" -> BoolVal(is_truthy(a) /\ is_truthy(b))
             [] op = "or" -> BoolVal(is_truthy(a) \/ is_truthy(b))
             [] op \in {"+", "-", "*", "/"} ->
                  IF Numeric(a) /\ Numeric(b) THEN Arithmetic(op, a, b) ELSE Err

(***************************************************************************)
(* Rust's slice::sort_by of 1..n by their keys, as the set of the orders   *)
(* it may produce: the stable one if the comparison is a strict weak order *)
(* and any if it is not.  It may then panic as well, which ends the        *)
(* statement as Panic does in Server.                                      *)
(***************************************************************************)
KeysPrecede(x, y, asc) ==
    LET ord(i) == partial_cmp(x[i], y[i])
        first == {j \in DOMAIN asc : ord(j) \in {"less", "greater"}}
    IN first # {} /\ (ord(Min(first)) = "less") = asc[Min(first)]

sort_by == [by \in [keys : Seq(Seq(Value \cup {Err})), asc : Seq(BOOLEAN)] |->
    LET n == Len(by.keys)
        before(i, j) == KeysPrecede(by.keys[i], by.keys[j], by.asc)
        weak == \A i, j \in 1..n : before(i, j) =>
                    ~before(j, i) /\ \A k \in 1..n : before(i, k) \/ before(k, j)
        ahead(i) == {j \in 1..n : before(j, i) \/ (j < i /\ ~before(i, j))}
    IN IF weak
         THEN {[r \in 1..n |-> CHOOSE i \in 1..n : Cardinality(ahead(i)) = r - 1]}
         ELSE SetToSeqs(1..n)]

(***************************************************************************)
(* Expr::eval, on the expressions that the statements are made of.         *)
(***************************************************************************)
CONSTANTS
    Expr,       \* the expressions, with their operands
    Depth(_)    \* of an expression, as a tree

Operators == {"=", "!=", ">", ">=", "<", "<=", "and", "or", "+", "-", "*", "/"}

ASSUME ExprAssumption ==
    Star \in Expr /\ \A e \in Expr :
        /\ Depth(e) \in Nat
        /\ e.k = "const" => e.v \in Value
        /\ e.k = "binary" =>
              /\ e.op \in Operators
              /\ e.left \in Expr /\ Depth(e.left) < Depth(e)
              /\ e.right \in Expr /\ Depth(e.right) < Depth(e)
        /\ e.k = "func" => e.arg \in Expr /\ Depth(e.arg) < Depth(e)

ColumnValue(name, tuple, schema) ==
    LET i == find_col_idx(name, schema)
    IN IF i = 0 THEN Err ELSE tuple[i]

eval(e, tuple, schema) ==
    LET value[x \in Expr] ==
          IF x.k = "binary"
            THEN eval_binary_op(x.op, value[x.left], value[x.right])
            ELSE CASE x.k = "const" -> x.v
                   [] x.k \in {"col", "ref"} -> ColumnValue(NameOf(x), tuple, schema)
                   [] OTHER -> Err
    IN value[e]

=============================================================================

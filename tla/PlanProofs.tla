----------------------------- MODULE PlanProofs -----------------------------
(***************************************************************************)
(* What the pure operators of Expressions and Planner compute, for every   *)
(* set of expressions, every catalog and every plan: values, types,        *)
(* schemas and orders.                                                     *)
(***************************************************************************)
EXTENDS Planner, FiniteSetTheorems, SequenceTheorems, WellFoundedInduction, TLAPS

\* Induction on the natural numbers, as the closure of a set under successor.
LEMMA NatSetInduction ==
    ASSUME NEW T, 0 \in T, \A n \in Nat : n \in T => n + 1 \in T
    PROVE  Nat \subseteq T
<1> DEFINE R == OpToRel(<, Nat)
<1>1. IsWellFoundedOn(R, Nat)
  BY NatLessThanWellFounded
<1>2. SUFFICES ASSUME Nat \ T # {} PROVE FALSE
  OBVIOUS
<1> HIDE DEF R
<1>3. PICK m \in Nat \ T : \A y \in Nat \ T : ~(<<y, m>> \in R)
  BY <1>1, <1>2, WFMin
<1>4. m - 1 \in Nat /\ m - 1 < m
  BY <1>3
<1>5. <<m - 1, m>> \in R
  BY <1>3, <1>4 DEF R, OpToRel
<1>6. m - 1 \in T
  BY <1>3, <1>4, <1>5
<1> QED BY <1>3, <1>4, <1>6

\* A property of every expression whose operands have it is one of all.
LEMMA ExprInduction ==
    ASSUME NEW P,
           \A e \in Expr :
              /\ e.k = "binary" => e.left \in P /\ e.right \in P
              /\ e.k = "func" => e.arg \in P
              => e \in P
    PROVE  Expr \subseteq P
<1> DEFINE T == {n \in Nat : \A e \in Expr : Depth(e) < n => e \in P}
<1>1. 0 \in T
  <2>1. \A e \in Expr : Depth(e) \in Nat
    BY ExprAssumption
  <2> QED BY <2>1
<1>2. ASSUME NEW n \in Nat, n \in T PROVE n + 1 \in T
  <2>1. ASSUME NEW e \in Expr, Depth(e) < n + 1 PROVE e \in P
    <3>1. Depth(e) \in Nat
      BY ExprAssumption
    <3>2. e.k = "binary" => e.left \in P /\ e.right \in P
      <4>1. SUFFICES ASSUME e.k = "binary" PROVE e.left \in P /\ e.right \in P
        OBVIOUS
      <4>2. /\ e.left \in Expr /\ Depth(e.left) < Depth(e)
            /\ e.right \in Expr /\ Depth(e.right) < Depth(e)
        BY <4>1, ExprAssumption
      <4>3. Depth(e.left) \in Nat /\ Depth(e.right) \in Nat
        BY <4>2, ExprAssumption
      <4> QED BY <1>2, <2>1, <3>1, <4>2, <4>3
    <3>3. e.k = "func" => e.arg \in P
      <4>1. SUFFICES ASSUME e.k = "func" PROVE e.arg \in P
        OBVIOUS
      <4>2. e.arg \in Expr /\ Depth(e.arg) < Depth(e)
        BY <4>1, ExprAssumption
      <4>3. Depth(e.arg) \in Nat
        BY <4>2, ExprAssumption
      <4> QED BY <1>2, <2>1, <3>1, <4>2, <4>3
    <3> QED BY <3>2, <3>3
  <2> QED BY <2>1
<1>3. Nat \subseteq T
  <2> HIDE DEF T
  <2> QED BY <1>1, <1>2, NatSetInduction
<1>4. ASSUME NEW e \in Expr PROVE e \in P
  <2>1. Depth(e) + 1 \in Nat /\ Depth(e) < Depth(e) + 1
    BY ExprAssumption
  <2> QED BY <1>3, <2>1
<1> QED BY <1>4

\* The operands that a definition by recursion on expressions looks at.
Operands(e) == CASE e.k = "binary" -> {e.left, e.right}
                 [] e.k = "func" -> {e.arg}
                 [] OTHER -> {}

\* f follows the recursion step up to expressions of depth n: step takes an
\* expression and a function that has the values of its operands.
Solves(f, step, T, n) ==
    /\ f \in [Expr -> T]
    /\ \A e \in Expr : Depth(e) < n => f[e] = step[<<e, f>>]

OfOperands(step, T) ==
    /\ step \in [Expr \X [Expr -> T] -> T]
    /\ \A e \in Expr : \A f, g \in [Expr -> T] :
          (\A x \in Operands(e) : f[x] = g[x]) => step[<<e, f>>] = step[<<e, g>>]

LEMMA OperandsBelow ==
    ASSUME NEW e \in Expr, NEW x \in Operands(e)
    PROVE  x \in Expr /\ Depth(x) \in Nat /\ Depth(e) \in Nat /\ Depth(x) < Depth(e)
BY ExprAssumption DEF Operands

LEMMA SolutionsAgree ==
    ASSUME NEW T, NEW step, OfOperands(step, T), NEW n \in Nat,
           NEW f, Solves(f, step, T, n), NEW g, Solves(g, step, T, n)
    PROVE  \A e \in Expr : Depth(e) < n => f[e] = g[e]
<1> DEFINE P == {e \in Expr : Depth(e) < n => f[e] = g[e]}
<1>1. ASSUME NEW e \in Expr,
             e.k = "binary" => e.left \in P /\ e.right \in P,
             e.k = "func" => e.arg \in P
      PROVE  e \in P
  <2>1. SUFFICES ASSUME Depth(e) < n PROVE f[e] = g[e]
    OBVIOUS
  <2>2. \A x \in Operands(e) : f[x] = g[x]
    <3>1. SUFFICES ASSUME NEW x \in Operands(e) PROVE f[x] = g[x]
      OBVIOUS
    <3>2. x \in P
      BY <1>1 DEF Operands
    <3>3. Depth(x) \in Nat /\ Depth(e) \in Nat /\ Depth(x) < Depth(e)
      BY OperandsBelow
    <3> QED BY <2>1, <3>2, <3>3
  <2>3. step[<<e, f>>] = step[<<e, g>>]
    BY <2>2 DEF OfOperands, Solves
  <2> QED BY <2>1, <2>3 DEF Solves
<1>2. Expr \subseteq P
  <2> HIDE DEF P
  <2> QED BY <1>1, ExprInduction
<1> QED BY <1>2

\* Recursion on the structure of expressions defines a function.
LEMMA ExprRecursion ==
    ASSUME NEW T, NEW t \in T, NEW step, OfOperands(step, T)
    PROVE  \E f \in [Expr -> T] : \A e \in Expr : f[e] = step[<<e, f>>]
<1> DEFINE N == {n \in Nat : \E f : Solves(f, step, T, n)}
<1>1. 0 \in N
  <2>1. \A e \in Expr : Depth(e) \in Nat
    BY ExprAssumption
  <2>2. Solves([e \in Expr |-> t], step, T, 0)
    BY <2>1 DEF Solves
  <2> QED BY <2>2
<1>2. ASSUME NEW n \in Nat, n \in N PROVE n + 1 \in N
  <2>1. PICK f : Solves(f, step, T, n)
    BY <1>2
  <2> DEFINE g == [e \in Expr |-> step[<<e, f>>]]
  <2>2. g \in [Expr -> T]
    BY <2>1 DEF Solves, OfOperands
  <2>3. ASSUME NEW e \in Expr, Depth(e) < n + 1 PROVE g[e] = step[<<e, g>>]
    <3>1. ASSUME NEW x \in Operands(e) PROVE f[x] = g[x]
      <4>1. x \in Expr /\ Depth(x) \in Nat /\ Depth(e) \in Nat /\ Depth(x) < Depth(e)
        BY OperandsBelow
      <4>2. f[x] = step[<<x, f>>]
        BY <2>1, <2>3, <4>1 DEF Solves
      <4> QED BY <4>1, <4>2
    <3>2. step[<<e, f>>] = step[<<e, g>>]
      <4>1. f \in [Expr -> T]
        BY <2>1 DEF Solves
      <4> HIDE DEF g
      <4> QED BY <2>2, <3>1, <4>1 DEF OfOperands
    <3> QED BY <3>2
  <2>4. Solves(g, step, T, n + 1)
    <3> HIDE DEF g
    <3> QED BY <2>2, <2>3 DEF Solves
  <2> QED BY <2>4
<1>3. Nat \subseteq N
  <2> HIDE DEF N
  <2> QED BY <1>1, <1>2, NatSetInduction
<1> DEFINE F == [n \in Nat |-> CHOOSE f : Solves(f, step, T, n)]
<1>4. \A n \in Nat : Solves(F[n], step, T, n)
  BY <1>3
<1> DEFINE h == [e \in Expr |-> F[Depth(e) + 1][e]]
<1> HIDE DEF F
<1>5. h \in [Expr -> T]
  <2>1. SUFFICES ASSUME NEW e \in Expr PROVE F[Depth(e) + 1][e] \in T
    OBVIOUS
  <2>2. Depth(e) + 1 \in Nat
    BY ExprAssumption
  <2> QED BY <1>4, <2>2 DEF Solves
<1>6. ASSUME NEW e \in Expr PROVE h[e] = step[<<e, h>>]
  <2> DEFINE n == Depth(e) + 1
  <2>1. n \in Nat /\ Depth(e) < n
    BY ExprAssumption
  <2>2. Solves(F[n], step, T, n)
    BY <1>4, <2>1
  <2>3. h[e] = step[<<e, F[n]>>]
    BY <2>1, <2>2 DEF Solves
  <2>4. ASSUME NEW x \in Operands(e) PROVE F[n][x] = h[x]
    <3>1. x \in Expr /\ Depth(x) \in Nat /\ Depth(e) \in Nat /\ Depth(x) < Depth(e)
      BY OperandsBelow
    <3> DEFINE m == Depth(x) + 1
    <3>2. m \in Nat /\ Depth(x) < m /\ m < n
      BY <3>1
    <3>3. Solves(F[m], step, T, m)
      BY <1>4, <3>2
    <3>4. Solves(F[n], step, T, m)
      <4>1. \A y \in Expr : Depth(y) \in Nat
        BY ExprAssumption
      <4>2. \A y \in Expr : Depth(y) < m => Depth(y) < n
        BY <2>1, <3>2, <4>1
      <4> HIDE DEF m, n
      <4> QED BY <2>2, <4>2 DEF Solves
    <3>5. F[m][x] = F[n][x]
      <4> HIDE DEF m, n
      <4> QED BY <3>1, <3>2, <3>3, <3>4, SolutionsAgree
    <3> QED BY <3>1, <3>5
  <2>5. step[<<e, F[n]>>] = step[<<e, h>>]
    <3>1. F[n] \in [Expr -> T]
      BY <2>2 DEF Solves
    <3> HIDE DEF h, n
    <3> QED BY <1>5, <2>4, <3>1 DEF OfOperands
  <2> QED BY <2>3, <2>5
<1> HIDE DEF h
<1> QED BY <1>5, <1>6
-----------------------------------------------------------------------------
(***************************************************************************)
(* Values and scalar operations.                                           *)
(***************************************************************************)
\* A set of naturals that is not empty has a minimum.
LEMMA MinOfNats ==
    ASSUME NEW I \in SUBSET Nat, I # {}
    PROVE  Min(I) \in I
<1> DEFINE T == {n \in Nat : \A i \in I : i <= n => \E m \in I : \A j \in I : m <= j}
<1>1. 0 \in T
  OBVIOUS
<1>2. ASSUME NEW n \in Nat, n \in T PROVE n + 1 \in T
  <2>1. SUFFICES ASSUME NEW i \in I, i <= n + 1
                 PROVE  \E m \in I : \A j \in I : m <= j
    OBVIOUS
  <2>2. CASE \E j \in I : j <= n
    BY <1>2, <2>2
  <2>3. CASE \A j \in I : ~(j <= n)
    <3>1. \A j \in I : i <= j
      BY <2>1, <2>3
    <3> QED BY <3>1
  <2> QED BY <2>2, <2>3
<1>3. Nat \subseteq T
  <2> HIDE DEF T
  <2> QED BY <1>1, <1>2, NatSetInduction
<1>4. \E m \in I : \A j \in I : m <= j
  <2>1. PICK i \in I : TRUE
    OBVIOUS
  <2>2. i \in Nat /\ i <= i
    OBVIOUS
  <2> QED BY <1>3, <2>1, <2>2
<1> QED BY <1>4 DEF Min

\* A name is found at a column, or nowhere.
LEMMA ColumnIndex ==
    ASSUME NEW name, NEW schema, Len(schema) \in Nat
    PROVE  find_col_idx(name, schema) \in 0..Len(schema)
<1> DEFINE I == {i \in 1..Len(schema) : Matches(name, schema[i])}
<1>1. find_col_idx(name, schema) = IF I # {} THEN Min(I) ELSE 0
  BY DEF find_col_idx, SelectInSeq
<1>2. I \in SUBSET Nat
  OBVIOUS
<1>3. I # {} => Min(I) \in 1..Len(schema)
  BY <1>2, MinOfNats
<1> QED BY <1>1, <1>3

LEMMA SeqElements ==
    ASSUME NEW S, NEW s \in Seq(S)
    PROVE  /\ Len(s) \in Nat /\ DOMAIN s = 1..Len(s)
           /\ \A i \in DOMAIN s : s[i] \in S
<1>1. Len(s) \in Nat /\ DOMAIN s = 1..Len(s)
  OBVIOUS
<1>2. \A i \in 1..Len(s) : s[i] \in S
  OBVIOUS
<1> QED BY <1>1, <1>2

Values == Value \cup {Err}

LEMMA Scalars ==
    /\ \A i \in Int : IntVal(i) \in Value /\ FloatVal(i) \in Value
    /\ \A b : BoolVal(b) \in Value
    /\ Null \in Value
    /\ \A a \in Value : /\ a.k \in DataType \cup {"null"}
                        /\ a # Null => a.k \in DataType
                        /\ Numeric(a) => a.v[1] \in Int /\ AsFloat(a) \in Int
    /\ Null.k = "null" /\ Err \notin Value
<1>1. \A i \in Int : IntVal(i) \in Value /\ FloatVal(i) \in Value
  BY DEF IntVal, FloatVal, Value
<1>2. \A b : BoolVal(b) \in Value
  BY DEF BoolVal, Value
<1>3. Null \in Value /\ Null.k = "null"
  BY DEF Value, Null
<1>4. ASSUME NEW a \in Value
      PROVE  /\ a.k \in DataType \cup {"null"}
             /\ a # Null => a.k \in DataType
             /\ Numeric(a) => a.v[1] \in Int /\ AsFloat(a) \in Int
  <2>1. CASE a \in [k : {"int", "float"}, v : [1..1 -> Int]]
    <3>1. a.k \in {"int", "float"} /\ a.v \in [1..1 -> Int]
      BY <2>1
    <3>2. a.v[1] \in Int
      BY <3>1
    <3>3. AsFloat(a) \in Int
      BY <3>2 DEF AsFloat, FloatUnit
    <3> QED BY <3>1, <3>2, <3>3 DEF DataType
  <2>2. CASE a \in [k : {"varchar"}, v : Seq(Nat)]
    BY <2>2 DEF DataType, Numeric
  <2>3. CASE a \in [k : {"bool"}, v : {<<0>>, <<1>>}]
    BY <2>3 DEF DataType, Numeric
  <2>4. CASE a = Null
    BY <2>4 DEF Null, Numeric
  <2> QED BY <2>1, <2>2, <2>3, <2>4 DEF Value
<1>5. Err \notin Value
  <2>1. Err.k = "err"
    BY DEF Err
  <2> QED BY <1>4, <2>1 DEF DataType
<1> QED BY <1>1, <1>2, <1>3, <1>4, <1>5

LEMMA Quotients ==
    ASSUME NEW i \in Int, NEW j \in Int, j # 0
    PROVE  Quotient(i, j) \in Int
<1> DEFINE abs(x) == IF x < 0 THEN -x ELSE x
           q == abs(i) \div abs(j)
<1>1. abs(i) \in Int /\ abs(j) \in Int /\ abs(j) > 0
  OBVIOUS
<1>2. q \in Int
  <2> HIDE DEF abs
  <2> QED BY <1>1
<1>3. Quotient(i, j) = IF (i < 0) = (j < 0) THEN q ELSE -q
  BY DEF Quotient
<1> QED
  <2> HIDE DEF q
  <2> QED BY <1>2, <1>3

\* Arithmetic fails or gives a number, an INT only if both operands are.
LEMMA ArithmeticKind ==
    ASSUME NEW op \in {"+", "-", "*", "/"}, NEW a \in Value, NEW b \in Value,
           Numeric(a), Numeric(b)
    PROVE  \/ Arithmetic(op, a, b) = Err
           \/ /\ Arithmetic(op, a, b) \in Value
              /\ Arithmetic(op, a, b).k =
                    IF a.k = "int" /\ b.k = "int" THEN "int" ELSE "float"
<1> DEFINE kind == IF a.k = "int" /\ b.k = "int" THEN "int" ELSE "float"
           Right(v) == v = Err \/ (v \in Value /\ v.k = kind)
<1>1. a.v[1] \in Int /\ b.v[1] \in Int /\ AsFloat(a) \in Int /\ AsFloat(b) \in Int
  BY Scalars
<1>2. \A i \in Int : /\ IntVal(i) \in Value /\ IntVal(i).k = "int"
                     /\ FloatVal(i) \in Value /\ FloatVal(i).k = "float"
  BY Scalars DEF IntVal, FloatVal
<1> SUFFICES Right(Arithmetic(op, a, b))
  OBVIOUS
<1>3. CASE op = "+"
  <2>1. a.v[1] + b.v[1] \in Int /\ AsFloat(a) + AsFloat(b) \in Int
    BY <1>1
  <2> QED BY <1>2, <1>3, <2>1 DEF Arithmetic
<1>4. CASE op = "-"
  <2>1. a.v[1] - b.v[1] \in Int /\ AsFloat(a) - AsFloat(b) \in Int
    BY <1>1
  <2> QED BY <1>2, <1>4, <2>1 DEF Arithmetic
<1>5. CASE op = "*"
  <2>1. a.v[1] * b.v[1] \in Int /\ AsFloat(a) * AsFloat(b) \in Int
    BY <1>1
  <2>2. (AsFloat(a) * AsFloat(b)) \div FloatUnit \in Int
    BY <2>1 DEF FloatUnit
  <2> QED BY <1>2, <1>5, <2>1, <2>2 DEF Arithmetic
<1>6. CASE op = "/"
  <2>1. b.v[1] # 0 => Quotient(a.v[1], b.v[1]) \in Int
    BY <1>1, Quotients
  <2>2. AsFloat(b) # 0 => Quotient(AsFloat(a) * FloatUnit, AsFloat(b)) \in Int
    <3>1. AsFloat(a) * FloatUnit \in Int
      BY <1>1 DEF FloatUnit
    <3> QED BY <1>1, <3>1, Quotients
  <2>3. NotFinite \in Int
    <3>1. \E x : x \in Int
      OBVIOUS
    <3> QED BY <3>1 DEF NotFinite
  <2>4. Arithmetic(op, a, b) =
          IF a.k = "int" /\ b.k = "int"
            THEN IF b.v[1] = 0 THEN Err ELSE IntVal(Quotient(a.v[1], b.v[1]))
            ELSE FloatVal(IF AsFloat(b) = 0 THEN NotFinite
                          ELSE Quotient(AsFloat(a) * FloatUnit, AsFloat(b)))
    BY <1>6 DEF Arithmetic
  <2> QED BY <1>2, <2>1, <2>2, <2>3, <2>4
<1> QED BY <1>3, <1>4, <1>5, <1>6

\* An operator fails or gives a value, of the type get_expr_type computes
\* from those of the operands.
LEMMA BinaryOpType ==
    ASSUME NEW op \in Operators, NEW a \in Values, NEW b \in Values
    PROVE  eval_binary_op(op, a, b) \in Values
<1>1. CASE Err \in {a, b}
  BY <1>1 DEF eval_binary_op, Values
<1>2. CASE Err \notin {a, b}
  <2>1. a \in Value /\ b \in Value
    BY <1>2 DEF Values
  <2>2. CASE op \in {"+", "-", "*", "/"}
    <3>1. eval_binary_op(op, a, b) = IF Numeric(a) /\ Numeric(b) THEN Arithmetic(op, a, b) ELSE Err
      BY <1>2, <2>2 DEF eval_binary_op
    <3> QED BY <2>1, <2>2, <3>1, ArithmeticKind DEF Values
  <2>3. CASE op \notin {"+", "-", "*", "/"}
    BY <1>2, <2>1, <2>3, Scalars DEF Operators, eval_binary_op, Comparison, Values
  <2> QED BY <2>2, <2>3
<1> QED BY <1>1, <1>2

LEMMA BinaryOpKind ==
    ASSUME NEW op \in Operators, NEW a \in Value, NEW b \in Value,
           NEW l \in DataType, NEW r \in DataType,
           a.k \in {l, "null"}, b.k \in {r, "null"}, BinaryType(op, {l, r}) # "error"
    PROVE  \/ eval_binary_op(op, a, b) = Err
           \/ eval_binary_op(op, a, b).k = BinaryType(op, {l, r})
<1>1. Err \notin {a, b}
  BY Scalars
<1>2. "error" \notin {l, r}
  BY DEF DataType
<1>3. CASE op \in {"+", "-", "*", "/"}
  <2>1. eval_binary_op(op, a, b) = IF Numeric(a) /\ Numeric(b) THEN Arithmetic(op, a, b) ELSE Err
    BY <1>1, <1>3 DEF eval_binary_op
  <2>2. SUFFICES ASSUME Numeric(a), Numeric(b)
                 PROVE  \/ Arithmetic(op, a, b) = Err
                        \/ Arithmetic(op, a, b).k = BinaryType(op, {l, r})
    BY <2>1
  <2>3. a.k = l /\ b.k = r /\ l \in {"int", "float"} /\ r \in {"int", "float"}
    BY <2>2 DEF Numeric
  <2>4. BinaryType(op, {l, r}) = IF l = "int" /\ r = "int" THEN "int" ELSE "float"
    BY <1>3, <2>3 DEF BinaryType
  <2> QED BY <1>3, <2>2, <2>3, <2>4, ArithmeticKind
<1>4. CASE op \notin {"+", "-", "*", "/"}
  <2>1. BinaryType(op, {l, r}) = "bool"
    BY <1>2, <1>4 DEF BinaryType
  <2>2. \A x : BoolVal(x).k = "bool"
    BY DEF BoolVal
  <2> QED BY <1>1, <1>4, <2>1, <2>2 DEF Operators, eval_binary_op, Comparison
<1> QED BY <1>3, <1>4
-----------------------------------------------------------------------------
(***************************************************************************)
(* Expr::eval and get_expr_type.  The recursive functions that define them *)
(* exist (ExprRecursion), so each of them has its defining equation, and   *)
(* the rest follows by induction on expressions.                           *)
(***************************************************************************)
LEMMA EvalUnfolds ==
    ASSUME NEW schema, Len(schema) \in Nat,
           NEW tuple \in Seq(Value), Len(tuple) = Len(schema)
    PROVE  \A e \in Expr : eval(e, tuple, schema) =
              CASE e.k = "const" -> e.v
                [] e.k \in {"col", "ref"} -> ColumnValue(NameOf(e), tuple, schema)
                [] e.k = "binary" ->
                      eval_binary_op(e.op, eval(e.left, tuple, schema),
                                     eval(e.right, tuple, schema))
                [] OTHER -> Err
<1> DEFINE Body(x, value) ==
              IF x.k = "binary"
                THEN eval_binary_op(x.op, value[x.left], value[x.right])
                ELSE CASE x.k = "const" -> x.v
                       [] x.k \in {"col", "ref"} -> ColumnValue(NameOf(x), tuple, schema)
                       [] OTHER -> Err
           step == [p \in Expr \X [Expr -> Values] |-> Body(p[1], p[2])]
           value == CHOOSE f : f = [x \in Expr |-> Body(x, f)]
<1>1. ASSUME NEW x \in Expr, NEW f \in [Expr -> Values] PROVE Body(x, f) \in Values
  <2>1. CASE x.k = "const"
    <3>1. x.v \in Value
      BY <2>1, ExprAssumption
    <3> QED BY <2>1, <3>1 DEF Values
  <2>2. CASE x.k \in {"col", "ref"}
    <3> DEFINE i == find_col_idx(NameOf(x), schema)
    <3>1. i \in 0..Len(tuple)
      BY ColumnIndex
    <3>2. i # 0 => tuple[i] \in Value
      BY <3>1
    <3> QED BY <2>2, <3>2 DEF Values, ColumnValue
  <2>3. CASE x.k = "binary"
    <3>1. x.op \in Operators /\ x.left \in Expr /\ x.right \in Expr
      BY <2>3, ExprAssumption
    <3>2. f[x.left] \in Values /\ f[x.right] \in Values
      BY <3>1
    <3> QED BY <2>3, <3>1, <3>2, BinaryOpType
  <2>4. CASE x.k \notin {"const", "col", "ref", "binary"}
    BY <2>4 DEF Values
  <2> QED BY <2>1, <2>2, <2>3, <2>4
<1>2. OfOperands(step, Values)
  <2>1. step \in [Expr \X [Expr -> Values] -> Values]
    <3> HIDE DEF Body
    <3> QED BY <1>1
  <2>2. ASSUME NEW e \in Expr, NEW f \in [Expr -> Values], NEW g \in [Expr -> Values],
               \A x \in Operands(e) : f[x] = g[x]
        PROVE  step[<<e, f>>] = step[<<e, g>>]
    <3>1. e.k = "binary" => f[e.left] = g[e.left] /\ f[e.right] = g[e.right]
      BY <2>2 DEF Operands
    <3>2. Body(e, f) = Body(e, g)
      BY <3>1
    <3> HIDE DEF Body
    <3> QED BY <3>2
  <2> HIDE DEF step
  <2> QED BY <2>1, <2>2 DEF OfOperands
<1>3. PICK f \in [Expr -> Values] : \A e \in Expr : f[e] = step[<<e, f>>]
  <2>1. Err \in Values
    BY DEF Values
  <2> HIDE DEF step
  <2> QED BY <1>2, <2>1, ExprRecursion
<1>4. f = [x \in Expr |-> Body(x, f)]
  <2>1. \A e \in Expr : f[e] = Body(e, f)
    <3> HIDE DEF Body
    <3> QED BY <1>3
  <2> HIDE DEF Body
  <2> QED BY <2>1
<1>5. value = [x \in Expr |-> Body(x, value)]
  <2> HIDE DEF Body
  <2> QED BY <1>4
<1>6. \A e : eval(e, tuple, schema) = value[e]
  BY DEF eval
<1> HIDE DEF value
<1>7. ASSUME NEW e \in Expr PROVE eval(e, tuple, schema) = Body(e, value)
  <2> HIDE DEF Body
  <2> QED BY <1>5, <1>6
<1>8. ASSUME NEW e \in Expr
      PROVE  eval(e, tuple, schema) =
              CASE e.k = "const" -> e.v
                [] e.k \in {"col", "ref"} -> ColumnValue(NameOf(e), tuple, schema)
                [] e.k = "binary" ->
                      eval_binary_op(e.op, eval(e.left, tuple, schema),
                                     eval(e.right, tuple, schema))
                [] OTHER -> Err
  <2>1. /\ eval(e.left, tuple, schema) = value[e.left]
        /\ eval(e.right, tuple, schema) = value[e.right]
    BY <1>6
  <2> QED BY <1>7, <2>1
<1> QED BY <1>8

\* Over a row of its schema an expression gives a value or fails.
LEMMA EvalType ==
    ASSUME NEW schema, Len(schema) \in Nat,
           NEW tuple \in Seq(Value), Len(tuple) = Len(schema)
    PROVE  \A e \in Expr : eval(e, tuple, schema) \in Values
<1> DEFINE P == {e \in Expr : eval(e, tuple, schema) \in Values}
<1>1. ASSUME NEW e \in Expr,
             e.k = "binary" => e.left \in P /\ e.right \in P,
             e.k = "func" => e.arg \in P
      PROVE  e \in P
  <2>1. CASE e.k = "const"
    <3>1. e.v \in Value
      BY <2>1, ExprAssumption
    <3> QED BY <2>1, <3>1, EvalUnfolds DEF Values
  <2>2. CASE e.k \in {"col", "ref"}
    <3> DEFINE i == find_col_idx(NameOf(e), schema)
    <3>1. i \in 0..Len(tuple)
      BY ColumnIndex
    <3>2. i # 0 => tuple[i] \in Value
      BY <3>1
    <3>3. eval(e, tuple, schema) = IF i = 0 THEN Err ELSE tuple[i]
      BY <2>2, EvalUnfolds DEF ColumnValue
    <3> QED BY <3>2, <3>3 DEF Values
  <2>3. CASE e.k = "binary"
    <3>1. e.op \in Operators
      BY <2>3, ExprAssumption
    <3>2. eval(e, tuple, schema) =
            eval_binary_op(e.op, eval(e.left, tuple, schema), eval(e.right, tuple, schema))
      BY <2>3, EvalUnfolds
    <3> QED BY <1>1, <2>3, <3>1, <3>2, BinaryOpType
  <2>4. CASE e.k \notin {"const", "col", "ref", "binary"}
    BY <2>4, EvalUnfolds DEF Values
  <2> QED BY <2>1, <2>2, <2>3, <2>4
<1>2. Expr \subseteq P
  <2> HIDE DEF P
  <2> QED BY <1>1, ExprInduction
<1> QED BY <1>2

Types == DataType \cup {"error"}

LEMMA TypeUnfolds ==
    ASSUME NEW schema, Len(schema) \in Nat,
           \A i \in 1..Len(schema) : schema[i].type \in Types
    PROVE  \A e \in Expr :
              /\ get_expr_type(e, schema) \in Types
              /\ get_expr_type(e, schema) =
                    CASE e.k = "const" -> IF e.v = Null THEN "varchar" ELSE e.v.k
                      [] e.k \in {"col", "ref"} -> ColumnType(NameOf(e), schema)
                      [] e.k = "binary" ->
                            BinaryType(e.op, {get_expr_type(e.left, schema),
                                              get_expr_type(e.right, schema)})
                      [] e.k = "func" -> AggType(e.name, get_expr_type(e.arg, schema))
                      [] OTHER -> "error"
<1> DEFINE Body(x, type) ==
              IF x.k = "binary"
                THEN BinaryType(x.op, {type[x.left], type[x.right]})
                ELSE CASE x.k = "const" -> IF x.v = Null THEN "varchar" ELSE x.v.k
                       [] x.k \in {"col", "ref"} -> ColumnType(NameOf(x), schema)
                       [] x.k = "func" -> AggType(x.name, type[x.arg])
                       [] OTHER -> "error"
           step == [p \in Expr \X [Expr -> Types] |-> Body(p[1], p[2])]
           type == CHOOSE f : f = [x \in Expr |-> Body(x, f)]
<1>1. ASSUME NEW x \in Expr, NEW f,
             x.k = "binary" => f[x.left] \in Types /\ f[x.right] \in Types,
             x.k = "func" => f[x.arg] \in Types
      PROVE  Body(x, f) \in Types
  <2>1. CASE x.k = "const"
    <3>1. x.v \in Value
      BY <2>1, ExprAssumption
    <3> QED BY <2>1, <3>1, Scalars DEF Types, DataType
  <2>2. CASE x.k \in {"col", "ref"}
    <3> DEFINE i == find_col_idx(NameOf(x), schema)
    <3>1. i \in 0..Len(schema)
      BY ColumnIndex
    <3>2. i # 0 => schema[i].type \in Types
      BY <3>1
    <3> QED BY <2>2, <3>2 DEF Types, ColumnType
  <2>3. CASE x.k = "binary"
    BY <1>1, <2>3 DEF Types, DataType, BinaryType
  <2>4. CASE x.k = "func"
    BY <1>1, <2>4 DEF Types, DataType, AggType
  <2>5. CASE x.k \notin {"const", "col", "ref", "binary", "func"}
    BY <2>5 DEF Types
  <2> QED BY <2>1, <2>2, <2>3, <2>4, <2>5
<1>2. OfOperands(step, Types)
  <2>1. step \in [Expr \X [Expr -> Types] -> Types]
    <3>1. ASSUME NEW x \in Expr, NEW f \in [Expr -> Types] PROVE Body(x, f) \in Types
      <4>1. x.k = "binary" => x.left \in Expr /\ x.right \in Expr
        BY ExprAssumption
      <4>2. x.k = "func" => x.arg \in Expr
        BY ExprAssumption
      <4> HIDE DEF Body
      <4> QED BY <1>1, <4>1, <4>2
    <3> HIDE DEF Body
    <3> QED BY <3>1
  <2>2. ASSUME NEW e \in Expr, NEW f \in [Expr -> Types], NEW g \in [Expr -> Types],
               \A x \in Operands(e) : f[x] = g[x]
        PROVE  step[<<e, f>>] = step[<<e, g>>]
    <3>1. e.k = "binary" => f[e.left] = g[e.left] /\ f[e.right] = g[e.right]
      BY <2>2 DEF Operands
    <3>2. e.k = "func" => f[e.arg] = g[e.arg]
      BY <2>2 DEF Operands
    <3>3. Body(e, f) = Body(e, g)
      BY <3>1, <3>2
    <3> HIDE DEF Body
    <3> QED BY <3>3
  <2> HIDE DEF step
  <2> QED BY <2>1, <2>2 DEF OfOperands
<1>3. PICK f \in [Expr -> Types] : \A e \in Expr : f[e] = step[<<e, f>>]
  <2>1. "error" \in Types
    BY DEF Types
  <2> HIDE DEF step
  <2> QED BY <1>2, <2>1, ExprRecursion
<1>4. f = [x \in Expr |-> Body(x, f)]
  <2>1. \A e \in Expr : f[e] = Body(e, f)
    <3> HIDE DEF Body
    <3> QED BY <1>3
  <2> HIDE DEF Body
  <2> QED BY <2>1
<1>5. type = [x \in Expr |-> Body(x, type)]
  <2> HIDE DEF Body
  <2> QED BY <1>4
<1>6. \A e : get_expr_type(e, schema) = type[e]
  BY DEF get_expr_type
<1> HIDE DEF type
<1>7. ASSUME NEW e \in Expr PROVE type[e] = Body(e, type)
  <2> HIDE DEF Body
  <2> QED BY <1>5
<1>8. \A e \in Expr : type[e] \in Types
  <2> DEFINE P == {e \in Expr : type[e] \in Types}
  <2>1. ASSUME NEW e \in Expr,
               e.k = "binary" => e.left \in P /\ e.right \in P,
               e.k = "func" => e.arg \in P
        PROVE  e \in P
    <3> HIDE DEF Body
    <3> QED BY <1>1, <1>7, <2>1
  <2>2. Expr \subseteq P
    <3> HIDE DEF P
    <3> QED BY <2>1, ExprInduction
  <2> QED BY <2>2
<1>9. ASSUME NEW e \in Expr
      PROVE  get_expr_type(e, schema) =
                    CASE e.k = "const" -> IF e.v = Null THEN "varchar" ELSE e.v.k
                      [] e.k \in {"col", "ref"} -> ColumnType(NameOf(e), schema)
                      [] e.k = "binary" ->
                            BinaryType(e.op, {get_expr_type(e.left, schema),
                                              get_expr_type(e.right, schema)})
                      [] e.k = "func" -> AggType(e.name, get_expr_type(e.arg, schema))
                      [] OTHER -> "error"
  <2>1. /\ get_expr_type(e.left, schema) = type[e.left]
        /\ get_expr_type(e.right, schema) = type[e.right]
        /\ get_expr_type(e.arg, schema) = type[e.arg]
        /\ get_expr_type(e, schema) = type[e]
    BY <1>6
  <2> QED BY <1>7, <2>1
<1> QED BY <1>6, <1>8, <1>9

\* The values of a row have their columns' types, or are NULL.
Typed(row, schema) ==
    \A c \in 1..Len(schema) : row[c].k \in {schema[c].type, "null"}

\* Over such a row an expression that has a type gives a value of it, or
\* fails.
LEMMA EvalKind ==
    ASSUME NEW schema, Len(schema) \in Nat,
           \A i \in 1..Len(schema) : schema[i].type \in Types,
           NEW row \in Seq(Value), Len(row) = Len(schema), Typed(row, schema)
    PROVE  \A e \in Expr : get_expr_type(e, schema) # "error" =>
              \/ eval(e, row, schema) = Err
              \/ eval(e, row, schema).k \in {get_expr_type(e, schema), "null"}
<1> DEFINE Right(e) == get_expr_type(e, schema) # "error" =>
              \/ eval(e, row, schema) = Err
              \/ eval(e, row, schema).k \in {get_expr_type(e, schema), "null"}
           P == {e \in Expr : Right(e)}
<1>1. ASSUME NEW e \in Expr,
             e.k = "binary" => e.left \in P /\ e.right \in P,
             e.k = "func" => e.arg \in P
      PROVE  e \in P
  <2>1. CASE e.k = "const"
    <3>1. eval(e, row, schema) = e.v
      BY <2>1, EvalUnfolds
    <3>2. get_expr_type(e, schema) = IF e.v = Null THEN "varchar" ELSE e.v.k
      BY <2>1, TypeUnfolds
    <3> QED BY <3>1, <3>2, Scalars
  <2>2. CASE e.k \in {"col", "ref"}
    <3> DEFINE i == find_col_idx(NameOf(e), schema)
    <3>1. i \in 0..Len(schema)
      BY ColumnIndex
    <3>2. eval(e, row, schema) = IF i = 0 THEN Err ELSE row[i]
      BY <2>2, EvalUnfolds DEF ColumnValue
    <3>3. get_expr_type(e, schema) = IF i = 0 THEN "error" ELSE schema[i].type
      BY <2>2, TypeUnfolds DEF ColumnType
    <3> QED BY <3>1, <3>2, <3>3 DEF Typed
  <2>3. CASE e.k = "binary"
    <3> DEFINE l == get_expr_type(e.left, schema)
               r == get_expr_type(e.right, schema)
               a == eval(e.left, row, schema)
               b == eval(e.right, row, schema)
    <3>1. e.op \in Operators /\ e.left \in Expr /\ e.right \in Expr
      BY <2>3, ExprAssumption
    <3>2. eval(e, row, schema) = eval_binary_op(e.op, a, b)
      BY <2>3, EvalUnfolds
    <3>3. get_expr_type(e, schema) = BinaryType(e.op, {l, r})
      BY <2>3, TypeUnfolds
    <3>4. a \in Values /\ b \in Values
      BY <3>1, EvalType
    <3>5. l \in Types /\ r \in Types
      BY <3>1, TypeUnfolds
    <3>6. Right(e.left) /\ Right(e.right)
      BY <1>1, <2>3
    <3> HIDE DEF l, r, a, b
    <3>7. CASE Err \in {a, b}
      BY <3>2, <3>7 DEF eval_binary_op
    <3>8. CASE Err \notin {a, b}
      <4>1. SUFFICES ASSUME BinaryType(e.op, {l, r}) # "error" PROVE Right(e)
        BY <3>3
      <4>2. l # "error" /\ r # "error"
        BY <4>1 DEF BinaryType
      <4>3. a \in Value /\ b \in Value /\ l \in DataType /\ r \in DataType
        BY <3>4, <3>5, <3>8, <4>2 DEF Values, Types
      <4>4. a.k \in {l, "null"} /\ b.k \in {r, "null"}
        BY <3>6, <3>8, <4>2 DEF l, r, a, b
      <4> QED BY <3>1, <3>2, <3>3, <4>1, <4>3, <4>4, BinaryOpKind
    <3> QED BY <3>7, <3>8
  <2>4. CASE e.k \notin {"const", "col", "ref", "binary"}
    <3>1. eval(e, row, schema) = Err
      BY <2>4, EvalUnfolds
    <3> QED BY <3>1
  <2> QED BY <2>1, <2>2, <2>3, <2>4
<1>2. Expr \subseteq P
  <2> HIDE DEF P
  <2> QED BY <1>1, ExprInduction
<1> QED BY <1>2
-----------------------------------------------------------------------------
(***************************************************************************)
(* The plans that can be run, and the schemas of their nodes.              *)
(***************************************************************************)
Names == Expr \cup {NameOf(e) : e \in Expr}
Schemas == Seq([name : Names, type : Types])
Items == [e : Expr, as : Expr]
Calls == {e \in Expr : e.k = "func"}

Orders == [e : Expr, asc : BOOLEAN]
Numbers == Nat \cup {NoNumber}
Tables ==
    {t \in [table : STRING, alias : STRING] : t.table \in DOMAIN Catalog =>
        \A c \in DOMAIN Catalog[t.table] : Col(t.alias, Catalog[t.table][c].n) \in Expr}

Nodes ==
    {DummyScan} \cup {Scan(t) : t \in Tables}
    \cup {Filter(e) : e \in Expr} \cup {Project(items) : items \in Seq(Items)}
    \cup {Limit(l, o) : l \in Numbers, o \in Numbers}
    \cup {Sort(order) : order \in Seq(Orders)}
    \cup {Join(c) : c \in Expr \cup {Absent}}
    \cup {Agg(group, funcs) : group \in Seq(Expr), funcs \in Seq(Calls)}

Leaves == {"dummy", "scan"}
Unary == {"filter", "project", "limit", "sort", "agg"}

\* A sequence of nodes that has the children of each before it.
PlanOK(p) ==
    /\ p \in Seq(Nodes)
    /\ \A n \in 1..Len(p) : /\ p[n].op \in Unary => n > 1
                            /\ p[n].op = "join" => n > 2

\* The fields of a node are those of its operator.
NodeOK(node) ==
    /\ node.op \in Leaves \cup Unary \cup {"join"}
    /\ node.op = "scan" /\ node.table \in DOMAIN Catalog =>
          \A c \in DOMAIN Catalog[node.table] :
              Col(node.alias, Catalog[node.table][c].n) \in Expr
    /\ node.op = "filter" => node.predicate \in Expr
    /\ node.op = "project" => node.exprs \in Seq(Items)
    /\ node.op = "limit" => node.limit \in Numbers /\ node.offset \in Numbers
    /\ node.op = "sort" => node.order_by \in Seq(Orders)
    /\ node.op = "join" => node.condition \in Expr \cup {Absent}
    /\ node.op = "agg" => node.group_by \in Seq(Expr) /\ node.agg_funcs \in Seq(Calls)

LEMMA NodeFields ==
    ASSUME NEW node \in Nodes PROVE NodeOK(node)
<1>1. CASE node = DummyScan
  BY <1>1 DEF DummyScan, NodeOK, Leaves
<1>2. CASE \E t \in Tables : node = Scan(t)
  BY <1>2 DEF Scan, Tables, NodeOK, Leaves
<1>3. CASE \E e \in Expr : node = Filter(e)
  BY <1>3 DEF Filter, NodeOK, Unary
<1>4. CASE \E items \in Seq(Items) : node = Project(items)
  BY <1>4 DEF Project, NodeOK, Unary
<1>5. CASE \E l \in Numbers, o \in Numbers : node = Limit(l, o)
  BY <1>5 DEF Limit, NodeOK, Unary
<1>6. CASE \E order \in Seq(Orders) : node = Sort(order)
  BY <1>6 DEF Sort, NodeOK, Unary
<1>7. CASE \E c \in Expr \cup {Absent} : node = Join(c)
  BY <1>7 DEF Join, NodeOK
<1>8. CASE \E group \in Seq(Expr), funcs \in Seq(Calls) : node = Agg(group, funcs)
  BY <1>8 DEF Agg, NodeOK, Unary
<1> QED BY <1>1, <1>2, <1>3, <1>4, <1>5, <1>6, <1>7, <1>8 DEF Nodes

LEMMA PlanNodes ==
    ASSUME NEW p, PlanOK(p)
    PROVE  /\ Len(p) \in Nat /\ DOMAIN p = 1..Len(p)
           /\ \A n \in 1..Len(p) : NodeOK(p[n])
BY SeqElements, NodeFields DEF PlanOK

\* The schema of node n, from those of its children.
SchemaAt(p, n, schema) ==
    IF p[n].op = "join"
      THEN schema[n - 2] \o schema[n - 1]
      ELSE CASE p[n].op = "dummy" -> <<>>
             [] p[n].op = "scan" -> ScanSchema(p[n])
             [] p[n].op \in {"filter", "limit", "sort"} -> schema[n - 1]
             [] p[n].op = "project" -> ProjectSchema(p[n], schema[n - 1])
             [] p[n].op = "agg" -> AggSchema(p[n], schema[n - 1])

LEMMA ColumnsTyped ==
    /\ \A name \in Names, type \in Types : Column(name, type) \in [name : Names, type : Types]
    /\ \A e \in Expr : e \in Names /\ NameOf(e) \in Names
    /\ \A s \in Schemas : /\ Len(s) \in Nat /\ DOMAIN s = 1..Len(s)
                          /\ \A i \in 1..Len(s) : s[i].type \in Types
<1>1. \A name \in Names, type \in Types : Column(name, type) \in [name : Names, type : Types]
  BY DEF Column
<1>2. \A e \in Expr : e \in Names /\ NameOf(e) \in Names
  BY DEF Names
<1>3. ASSUME NEW s \in Schemas
      PROVE  Len(s) \in Nat /\ DOMAIN s = 1..Len(s) /\ \A i \in 1..Len(s) : s[i].type \in Types
  <2>1. \A i \in 1..Len(s) : s[i] \in [name : Names, type : Types]
    BY <1>3, SeqElements DEF Schemas
  <2> QED BY <1>3, <2>1, SeqElements DEF Schemas
<1> QED BY <1>1, <1>2, <1>3

LEMMA ScanSchemaTyped ==
    ASSUME NEW node, NodeOK(node), node.op = "scan"
    PROVE  ScanSchema(node) \in Schemas
<1>1. CASE node.table \notin DOMAIN Catalog
  <2>1. Column(Star, "error") \in [name : Names, type : Types]
    BY ColumnsTyped, ExprAssumption DEF Types
  <2> QED BY <1>1, <2>1 DEF ScanSchema, Schemas
<1>2. CASE node.table \in DOMAIN Catalog
  <2> DEFINE table == Catalog[node.table]
             col(i) == Column(Col(node.alias, table[i].n), table[i].type)
  <2>1. table \in Seq([n : STRING, type : DataType])
    BY <1>2, CatalogAssumption
  <2>2. ASSUME NEW i \in DOMAIN table PROVE col(i) \in [name : Names, type : Types]
    <3>1. Col(node.alias, table[i].n) \in Names
      BY <1>2, ColumnsTyped DEF NodeOK
    <3>2. table[i] \in [n : STRING, type : DataType]
      BY <2>1, <2>2, SeqElements
    <3>3. table[i].type \in Types
      BY <3>2 DEF Types
    <3> QED BY <3>1, <3>3, ColumnsTyped
  <2>3. ScanSchema(node) = [i \in DOMAIN table |-> col(i)]
    BY <1>2 DEF ScanSchema
  <2>4. DOMAIN table = 1..Len(table) /\ Len(table) \in Nat
    BY <2>1
  <2> HIDE DEF table, col
  <2> QED BY <2>2, <2>3, <2>4 DEF Schemas
<1> QED BY <1>1, <1>2

LEMMA ProjectSchemaTyped ==
    ASSUME NEW node, NodeOK(node), node.op = "project", NEW child \in Schemas
    PROVE  ProjectSchema(node, child) \in Schemas
<1> DEFINE col(i) == Column(node.exprs[i].as, get_expr_type(node.exprs[i].e, child))
<1>1. node.exprs \in Seq(Items)
  BY DEF NodeOK
<1>2. ASSUME NEW i \in DOMAIN node.exprs PROVE col(i) \in [name : Names, type : Types]
  <2>1. node.exprs[i].as \in Expr /\ node.exprs[i].e \in Expr
    <3>1. node.exprs[i] \in Items
      BY <1>1, <1>2, SeqElements
    <3> QED BY <3>1 DEF Items
  <2>2. get_expr_type(node.exprs[i].e, child) \in Types
    BY <2>1, ColumnsTyped, TypeUnfolds
  <2> QED BY <2>1, <2>2, ColumnsTyped
<1>3. [i \in DOMAIN node.exprs |-> col(i)] \in Schemas
  <2>1. DOMAIN node.exprs = 1..Len(node.exprs) /\ Len(node.exprs) \in Nat
    BY <1>1
  <2> HIDE DEF col
  <2> QED BY <1>2, <2>1 DEF Schemas
<1>4. ProjectSchema(node, child) = IF Failed(child) THEN child ELSE [i \in DOMAIN node.exprs |-> col(i)]
  BY DEF ProjectSchema
<1> QED BY <1>3, <1>4

LEMMA AggSchemaTyped ==
    ASSUME NEW node, NodeOK(node), node.op = "agg", NEW child \in Schemas
    PROVE  AggSchema(node, child) \in Schemas
<1> DEFINE G == node.group_by
           F == node.agg_funcs
           groupCol(i) == Column(NameOf(G[i]), get_expr_type(G[i], child))
           funcCol(i) == Column(F[i], get_expr_type(F[i], child))
<1>1. G \in Seq(Expr) /\ F \in Seq(Calls)
  BY DEF NodeOK
<1>2. ASSUME NEW i \in DOMAIN G PROVE groupCol(i) \in [name : Names, type : Types]
  <2>1. G[i] \in Expr
    BY <1>1
  <2>2. get_expr_type(G[i], child) \in Types
    BY <2>1, ColumnsTyped, TypeUnfolds
  <2> QED BY <2>1, <2>2, ColumnsTyped
<1>3. ASSUME NEW i \in DOMAIN F PROVE funcCol(i) \in [name : Names, type : Types]
  <2>1. F[i] \in Expr
    BY <1>1 DEF Calls
  <2>2. get_expr_type(F[i], child) \in Types
    BY <2>1, ColumnsTyped, TypeUnfolds
  <2> QED BY <2>1, <2>2, ColumnsTyped
<1>4. /\ DOMAIN G = 1..Len(G) /\ Len(G) \in Nat
      /\ DOMAIN F = 1..Len(F) /\ Len(F) \in Nat
  BY <1>1
<1>5. AggSchema(node, child) =
        IF Failed(child) THEN child
        ELSE [i \in DOMAIN G |-> groupCol(i)] \o [i \in DOMAIN F |-> funcCol(i)]
  BY DEF AggSchema
<1> HIDE DEF groupCol, funcCol
<1>6. /\ [i \in DOMAIN G |-> groupCol(i)] \in Schemas
      /\ [i \in DOMAIN F |-> funcCol(i)] \in Schemas
  BY <1>2, <1>3, <1>4 DEF Schemas
<1>7. [i \in DOMAIN G |-> groupCol(i)] \o [i \in DOMAIN F |-> funcCol(i)] \in Schemas
  BY <1>6 DEF Schemas
<1> QED BY <1>5, <1>7

\* Of a node whose children have one.
LEMMA SchemaAtTyped ==
    ASSUME NEW p, PlanOK(p), NEW n \in 1..Len(p), NEW f,
           p[n].op \in Unary => f[n - 1] \in Schemas,
           p[n].op = "join" => f[n - 1] \in Schemas /\ f[n - 2] \in Schemas
    PROVE  SchemaAt(p, n, f) \in Schemas
<1>1. NodeOK(p[n])
  BY PlanNodes
<1>2. CASE p[n].op = "join"
  <2>1. SchemaAt(p, n, f) = f[n - 2] \o f[n - 1]
    BY <1>2 DEF SchemaAt
  <2> QED BY <1>2, <2>1 DEF Schemas
<1>3. CASE p[n].op = "dummy"
  BY <1>3 DEF SchemaAt, Schemas
<1>4. CASE p[n].op = "scan"
  <2>1. SchemaAt(p, n, f) = ScanSchema(p[n])
    BY <1>4 DEF SchemaAt
  <2> QED BY <1>1, <1>4, <2>1, ScanSchemaTyped
<1>5. CASE p[n].op \in {"filter", "limit", "sort"}
  BY <1>5 DEF SchemaAt, Unary
<1>6. CASE p[n].op = "project"
  <2>1. SchemaAt(p, n, f) = ProjectSchema(p[n], f[n - 1]) /\ f[n - 1] \in Schemas
    BY <1>6 DEF SchemaAt, Unary
  <2> QED BY <1>1, <1>6, <2>1, ProjectSchemaTyped
<1>7. CASE p[n].op = "agg"
  <2>1. SchemaAt(p, n, f) = AggSchema(p[n], f[n - 1]) /\ f[n - 1] \in Schemas
    BY <1>7 DEF SchemaAt, Unary
  <2> QED BY <1>1, <1>7, <2>1, AggSchemaTyped
<1> QED BY <1>1, <1>2, <1>3, <1>4, <1>5, <1>6, <1>7 DEF NodeOK, Leaves, Unary

\* LogicalPlan::schema gives each node of a plan the schema of SchemaAt.
LEMMA SchemasUnfold ==
    ASSUME NEW p, PlanOK(p)
    PROVE  /\ schemas(p) \in [1..Len(p) -> Schemas]
           /\ \A n \in 1..Len(p) : schemas(p)[n] = SchemaAt(p, n, schemas(p))
<1> DEFINE N == Len(p)
           F == [1..N -> Schemas]
           T == {m \in Nat : m <= N => \E f \in F : \A n \in 1..m : f[n] = SchemaAt(p, n, f)}
           the == CHOOSE f : f = [n \in DOMAIN p |-> SchemaAt(p, n, f)]
<1>1. N \in Nat /\ DOMAIN p = 1..N
  BY PlanNodes
<1>2. \A n \in 1..N : (p[n].op \in Unary => n > 1) /\ (p[n].op = "join" => n > 2)
  BY DEF PlanOK
<1>3. ASSUME NEW n \in 1..N, NEW f, NEW g, \A m \in 1..n - 1 : f[m] = g[m]
      PROVE  SchemaAt(p, n, f) = SchemaAt(p, n, g)
  <2>1. p[n].op \in Unary => f[n - 1] = g[n - 1]
    BY <1>1, <1>2, <1>3
  <2>2. p[n].op = "join" => f[n - 1] = g[n - 1] /\ f[n - 2] = g[n - 2]
    BY <1>1, <1>2, <1>3
  <2>3. NodeOK(p[n])
    BY PlanNodes
  <2> QED BY <2>1, <2>2, <2>3 DEF SchemaAt, NodeOK, Leaves, Unary
<1>4. 0 \in T
  <2>1. [n \in 1..N |-> <<>>] \in F
    BY DEF Schemas
  <2>2. \A n \in 1..0 : FALSE
    OBVIOUS
  <2> HIDE DEF F
  <2> QED BY <2>1, <2>2
<1>5. ASSUME NEW m \in Nat, m \in T PROVE m + 1 \in T
  <2>1. SUFFICES ASSUME m + 1 <= N
                 PROVE  \E g \in F : \A n \in 1..m + 1 : g[n] = SchemaAt(p, n, g)
    OBVIOUS
  <2>2. PICK f \in F : \A n \in 1..m : f[n] = SchemaAt(p, n, f)
    BY <1>1, <1>5, <2>1
  <2> DEFINE g == [f EXCEPT ![m + 1] = SchemaAt(p, m + 1, f)]
  <2>3. SchemaAt(p, m + 1, f) \in Schemas
    <3>1. m + 1 \in 1..N
      BY <1>1, <2>1
    <3>2. p[m + 1].op \in Unary => f[m + 1 - 1] \in Schemas
      BY <1>1, <1>2, <3>1
    <3>3. p[m + 1].op = "join" => f[m + 1 - 1] \in Schemas /\ f[m + 1 - 2] \in Schemas
      BY <1>1, <1>2, <3>1
    <3> QED BY <3>1, <3>2, <3>3, SchemaAtTyped
  <2>4. g \in F
    BY <2>3
  <2>5. ASSUME NEW n \in 1..m + 1 PROVE g[n] = SchemaAt(p, n, g)
    <3>1. n \in 1..N
      BY <1>1, <2>1
    <3>2. \A k \in 1..n - 1 : f[k] = g[k]
      BY <1>1, <2>1
    <3>3. SchemaAt(p, n, f) = SchemaAt(p, n, g)
      <4> HIDE DEF g
      <4> QED BY <1>3, <3>1, <3>2
    <3>4. g[n] = SchemaAt(p, n, f)
      BY <1>1, <2>1, <2>2, <3>1
    <3> QED BY <3>3, <3>4
  <2> HIDE DEF g
  <2> QED BY <2>4, <2>5
<1>6. PICK f \in F : \A n \in 1..N : f[n] = SchemaAt(p, n, f)
  <2>1. N \in T
    <3> HIDE DEF T
    <3> QED BY <1>1, <1>4, <1>5, NatSetInduction
  <2> QED BY <1>1, <2>1
<1>7. f = [n \in DOMAIN p |-> SchemaAt(p, n, f)]
  BY <1>1, <1>6
<1>8. the = [n \in DOMAIN p |-> SchemaAt(p, n, the)]
  BY <1>7
<1>9. schemas(p) = the
  BY DEF schemas, SchemaAt
<1> HIDE DEF the
<1>10. \A n \in 1..N : the[n] = SchemaAt(p, n, the)
  BY <1>1, <1>8
<1>11. \A n \in 1..N : the[n] \in Schemas
  <2> DEFINE R == {m \in Nat : \A n \in 1..N : n <= m => the[n] \in Schemas}
  <2>1. 0 \in R
    BY <1>1
  <2>2. ASSUME NEW m \in Nat, m \in R PROVE m + 1 \in R
    <3>1. SUFFICES ASSUME NEW n \in 1..N, n = m + 1 PROVE the[n] \in Schemas
      BY <1>1, <2>2
    <3>2. p[n].op \in Unary => the[n - 1] \in Schemas
      BY <1>1, <1>2, <2>2, <3>1
    <3>3. p[n].op = "join" => the[n - 1] \in Schemas /\ the[n - 2] \in Schemas
      BY <1>1, <1>2, <2>2, <3>1
    <3> QED BY <1>10, <3>2, <3>3, SchemaAtTyped
  <2>3. Nat \subseteq R
    <3> HIDE DEF R
    <3> QED BY <2>1, <2>2, NatSetInduction
  <2> QED BY <1>1, <2>3
<1>12. the \in F
  BY <1>1, <1>8, <1>11
<1> QED BY <1>9, <1>10, <1>12
-----------------------------------------------------------------------------
(***************************************************************************)
(* bind_query makes such plans.                                            *)
(***************************************************************************)
\* What is made step by step from t along 1..n.
Steps(n, T) == [(1..n) \X T -> T]
Iterates(f, n, t, step) == f[0] = t /\ \A k \in 1..n : f[k] = step[<<k, f[k - 1]>>]

LEMMA Iteration ==
    ASSUME NEW n \in Nat, NEW T, NEW t \in T, NEW step \in Steps(n, T)
    PROVE  \E f \in [0..n -> T] : Iterates(f, n, t, step)
<1> USE DEF Steps
<1> DEFINE Made(m, f) == f[0] = t /\ \A k \in 1..m : f[k] = step[<<k, f[k - 1]>>]
           R == {m \in Nat : m <= n => \E f \in [0..n -> T] : Made(m, f)}
<1>1. 0 \in R
  <2>1. [k \in 0..n |-> t] \in [0..n -> T] /\ Made(0, [k \in 0..n |-> t])
    OBVIOUS
  <2> HIDE DEF Made
  <2> QED BY <2>1
<1>2. ASSUME NEW m \in Nat, m \in R PROVE m + 1 \in R
  <2>1. SUFFICES ASSUME m + 1 <= n PROVE \E g \in [0..n -> T] : Made(m + 1, g)
    OBVIOUS
  <2>2. PICK f \in [0..n -> T] : Made(m, f)
    BY <1>2, <2>1
  <2> DEFINE g == [f EXCEPT ![m + 1] = step[<<m + 1, f[m]>>]]
  <2>3. step[<<m + 1, f[m]>>] \in T
    BY <2>1
  <2>4. g \in [0..n -> T]
    BY <2>3
  <2>5. \A k \in 0..m : g[k] = f[k]
    BY <2>1
  <2>6. g[m + 1] = step[<<m + 1, g[m]>>]
    <3>1. g[m + 1] = step[<<m + 1, f[m]>>] /\ m \in 0..m
      BY <2>1
    <3> HIDE DEF g
    <3> QED BY <2>5, <3>1
  <2>7. ASSUME NEW k \in 1..m + 1 PROVE g[k] = step[<<k, g[k - 1]>>]
    <3>1. CASE k = m + 1
      BY <2>6, <3>1
    <3>2. CASE k \in 1..m
      <4>1. k \in 0..m /\ k - 1 \in 0..m
        BY <3>2
      <4> HIDE DEF g
      <4> QED BY <2>2, <2>5, <3>2, <4>1
    <3> QED BY <3>1, <3>2
  <2>8. Made(m + 1, g)
    <3> HIDE DEF g
    <3> QED BY <2>2, <2>5, <2>7
  <2> HIDE DEF g, Made
  <2> QED BY <2>4, <2>8
<1>3. n \in R
  <2> HIDE DEF R
  <2> QED BY <1>1, <1>2, NatSetInduction
<1>4. \E f \in [0..n -> T] : Made(n, f)
  <2> HIDE DEF Made
  <2> QED BY <1>3
<1> QED BY <1>4 DEF Iterates

LEMMA FlattenType ==
    ASSUME NEW S, NEW seqs \in Seq(Seq(S))
    PROVE  FlattenSeq(seqs) \in Seq(S)
<1> DEFINE n == Len(seqs)
           Body(i, f) == IF i = 1 THEN seqs[i] ELSE f[i - 1] \o seqs[i]
           flat == CHOOSE f : f = [i \in 1..n |-> Body(i, f)]
           step == [x \in (1..n) \X Seq(S) |->
                      IF x[1] = 1 THEN seqs[1] ELSE x[2] \o seqs[x[1]]]
<1>1. n \in Nat /\ \A i \in 1..n : seqs[i] \in Seq(S)
  BY SeqElements
<1>2. CASE n = 0
  BY <1>2 DEF FlattenSeq
<1>3. CASE n # 0
  <2>1. step \in [(1..n) \X Seq(S) -> Seq(S)]
    <3>1. ASSUME NEW i \in 1..n, NEW s \in Seq(S)
          PROVE (IF i = 1 THEN seqs[1] ELSE s \o seqs[i]) \in Seq(S)
      BY <1>1
    <3> HIDE DEF n
    <3> QED BY <3>1
  <2>2. PICK f \in [0..n -> Seq(S)] :
             f[0] = <<>> /\ \A k \in 1..n : f[k] = step[<<k, f[k - 1]>>]
    <3> DEFINE T == Seq(S)
               e == <<>>
    <3>1. e \in T /\ step \in Steps(n, T)
      BY <2>1 DEF Steps
    <3> HIDE DEF step, n, T, e
    <3>2. \E f \in [0..n -> T] : Iterates(f, n, e, step)
      BY <1>1, <3>1, Iteration
    <3> QED BY <3>2 DEF T, e, Iterates
  <2> DEFINE g == [i \in 1..n |-> f[i]]
  <2>3. g = [i \in 1..n |-> Body(i, g)]
    <3>1. ASSUME NEW i \in 1..n PROVE f[i] = Body(i, g)
      <4>1. f[i] = IF i = 1 THEN seqs[1] ELSE f[i - 1] \o seqs[i]
        <5>1. f[i] = step[<<i, f[i - 1]>>]
          BY <2>2
        <5>2. f[i - 1] \in Seq(S)
          <6>1. i - 1 \in 0..n
            BY <1>1
          <6> QED BY <6>1
        <5>3. \A r \in Seq(S) : step[<<i, r>>] = IF i = 1 THEN seqs[1] ELSE r \o seqs[i]
          OBVIOUS
        <5> HIDE DEF step, n
        <5> QED BY <5>1, <5>2, <5>3
      <4>2. i # 1 => g[i - 1] = f[i - 1]
        BY <1>1
      <4> HIDE DEF g
      <4> QED BY <4>1, <4>2
    <3> HIDE DEF Body
    <3> QED BY <3>1
  <2>4. flat = [i \in 1..n |-> Body(i, flat)]
    <3> HIDE DEF Body, g
    <3> QED BY <2>3
  <2>5. FlattenSeq(seqs) = flat[n]
    BY <1>3 DEF FlattenSeq
  <2> HIDE DEF flat
  <2> DEFINE R == {m \in Nat : m + 1 <= n => flat[m + 1] \in Seq(S)}
  <2>6. 0 \in R
    <3>1. 1 \in 1..n
      BY <1>1, <1>3
    <3>2. flat[1] = seqs[1]
      BY <2>4, <3>1
    <3> QED BY <1>1, <3>1, <3>2
  <2>7. ASSUME NEW m \in Nat, m \in R PROVE m + 1 \in R
    <3>1. SUFFICES ASSUME NEW k \in 1..n, k # 1, k - 1 = m + 1 PROVE flat[k] \in Seq(S)
      <4>1. m + 2 \in Nat /\ m + 2 # 1 /\ (m + 2) - 1 = m + 1 /\ m + 2 = (m + 1) + 1
        OBVIOUS
      <4>2. m + 2 <= n => m + 2 \in 1..n
        BY <1>1
      <4> QED BY <4>1, <4>2
    <3>2. flat[k] = Body(k, flat)
      <4> HIDE DEF Body
      <4> QED BY <2>4, <3>1
    <3>3. flat[m + 1] \in Seq(S)
      BY <1>1, <2>7, <3>1
    <3> QED BY <1>1, <3>1, <3>2, <3>3
  <2>8. n - 1 \in R
    <3>1. Nat \subseteq R
      <4> HIDE DEF R
      <4> QED BY <2>6, <2>7, NatSetInduction
    <3> HIDE DEF R
    <3> QED BY <1>1, <1>3, <3>1
  <2> QED BY <1>1, <1>3, <2>5, <2>8
<1> QED BY <1>2, <1>3

\* extract_aggregates returns calls of functions.
LEMMA AggregatesType ==
    ASSUME NEW e \in Expr PROVE Aggregates(e) \in Seq(Calls)
<1> DEFINE T == Seq(Calls)
           Body(x, f) == IF x.k = "binary" THEN f[x.left] \o f[x.right]
                         ELSE IF x.k = "func" THEN <<x>> ELSE <<>>
           step == [p \in Expr \X [Expr -> T] |-> Body(p[1], p[2])]
           found == CHOOSE f : f = [x \in Expr |-> Body(x, f)]
<1>1. ASSUME NEW x \in Expr, NEW f, x.k = "binary" => f[x.left] \in T /\ f[x.right] \in T
      PROVE  Body(x, f) \in T
  <2>1. CASE x.k = "binary"
    BY <1>1, <2>1
  <2>2. CASE x.k = "func"
    <3>1. x \in Calls
      BY <2>2 DEF Calls
    <3> QED BY <2>2, <3>1
  <2> QED BY <2>1, <2>2
<1>2. OfOperands(step, T)
  <2>1. step \in [Expr \X [Expr -> T] -> T]
    <3>1. ASSUME NEW x \in Expr, NEW f \in [Expr -> T] PROVE Body(x, f) \in T
      <4>1. x.k = "binary" => x.left \in Expr /\ x.right \in Expr
        BY ExprAssumption
      <4> HIDE DEF Body, T
      <4> QED BY <1>1, <4>1
    <3> HIDE DEF Body
    <3> QED BY <3>1
  <2>2. ASSUME NEW x \in Expr, NEW f \in [Expr -> T], NEW g \in [Expr -> T],
               \A y \in Operands(x) : f[y] = g[y]
        PROVE  step[<<x, f>>] = step[<<x, g>>]
    <3>1. x.k = "binary" => f[x.left] = g[x.left] /\ f[x.right] = g[x.right]
      BY <2>2 DEF Operands
    <3>2. Body(x, f) = Body(x, g)
      BY <3>1
    <3> HIDE DEF Body
    <3> QED BY <3>2
  <2> HIDE DEF step, T
  <2> QED BY <2>1, <2>2 DEF OfOperands
<1>3. PICK f \in [Expr -> T] : \A x \in Expr : f[x] = step[<<x, f>>]
  <2>1. <<>> \in T
    OBVIOUS
  <2> HIDE DEF step, T
  <2> QED BY <1>2, <2>1, ExprRecursion
<1>4. f = [x \in Expr |-> Body(x, f)]
  <2>1. \A x \in Expr : f[x] = Body(x, f)
    <3> HIDE DEF Body, T
    <3> QED BY <1>3
  <2> HIDE DEF Body, T
  <2> QED BY <2>1
<1>5. found = [x \in Expr |-> Body(x, found)]
  <2> HIDE DEF Body
  <2> QED BY <1>4
<1>6. Aggregates(e) = found[e]
  BY DEF Aggregates
<1> HIDE DEF found
<1> DEFINE P == {x \in Expr : found[x] \in T}
<1>7. ASSUME NEW x \in Expr, x.k = "binary" => x.left \in P /\ x.right \in P PROVE x \in P
  <2>1. found[x] = Body(x, found)
    <3> HIDE DEF Body
    <3> QED BY <1>5
  <2>2. x.k = "binary" => found[x.left] \in T /\ found[x.right] \in T
    BY <1>7
  <2> HIDE DEF Body, T
  <2> QED BY <1>1, <2>1, <2>2
<1>8. Expr \subseteq P
  <2> HIDE DEF P
  <2> QED BY <1>7, ExprInduction
<1> QED BY <1>6, <1>8

\* A SELECT made of expressions.
QueryOK(q) ==
    /\ q.from \in Seq([table : STRING, alias : STRING])
    /\ \A i \in DOMAIN q.from : q.from[i].table \in DOMAIN Catalog =>
          \A c \in DOMAIN Catalog[q.from[i].table] :
              Col(q.from[i].alias, Catalog[q.from[i].table][c].n) \in Expr
    /\ \A i \in 2..Len(q.from) : q.on[i] \in Expr \cup {Absent}
    /\ q.where \in Expr \cup {Absent}
    /\ q.select \in Seq(Items)
    /\ q.group_by \in Seq(Expr)
    /\ q.order_by \in Seq(Orders)
    /\ q.limit \in Numbers /\ q.offset \in Numbers

\* FROM: Scans at the even places and the first one, Joins at the others.
LEMMA FromPlanOK ==
    ASSUME NEW q, QueryOK(q)
    PROVE  /\ PlanOK(FromPlan(q)) /\ Len(FromPlan(q)) > 0
           /\ \A n \in 1..Len(FromPlan(q)) : FromPlan(q)[n].op \in Leaves \cup {"join"}
<1> DEFINE L == Len(q.from)
           p == FromPlan(q)
<1>1. /\ L \in Nat /\ DOMAIN q.from = 1..L
      /\ \A i \in 1..L : q.from[i] \in Tables
  <2>1. q.from \in Seq([table : STRING, alias : STRING])
    BY DEF QueryOK
  <2>2. L \in Nat /\ DOMAIN q.from = 1..L /\ \A i \in 1..L : q.from[i] \in [table : STRING, alias : STRING]
    BY <2>1, SeqElements
  <2> QED BY <2>2 DEF QueryOK, Tables
<1>2. CASE q.from = <<>>
  <2>1. p = <<DummyScan>>
    BY <1>2 DEF FromPlan
  <2>2. DummyScan \in Nodes /\ DummyScan.op = "dummy"
    BY DEF Nodes, DummyScan
  <2>3. p \in Seq(Nodes) /\ Len(p) = 1 /\ p[1] = DummyScan
    BY <2>1, <2>2
  <2> HIDE DEF p
  <2>4. \A n \in 1..Len(p) : p[n].op = "dummy"
    BY <2>2, <2>3
  <2> QED BY <2>3, <2>4 DEF PlanOK, Unary, Leaves, p
<1>3. CASE q.from # <<>>
  <2> DEFINE node(n) == IF n > 1 /\ n % 2 = 1 THEN Join(q.on[(n + 1) \div 2])
                                              ELSE Scan(q.from[n \div 2 + 1])
  <2>1. p = [n \in 1..2 * L - 1 |-> node(n)]
    BY <1>3 DEF FromPlan
  <2>2. L > 0 /\ 2 * L - 1 \in Nat /\ 2 * L - 1 > 0
    <3>1. L # 0
      BY <1>1, <1>3, EmptySeq DEF QueryOK
    <3> QED BY <1>1, <3>1
  <2>3. ASSUME NEW n \in 1..2 * L - 1
        PROVE  /\ node(n) \in Nodes
               /\ node(n).op = IF n > 1 /\ n % 2 = 1 THEN "join" ELSE "scan"
    <3>1. CASE n > 1 /\ n % 2 = 1
      <4>1. (n + 1) \div 2 \in 2..L
        BY <1>1, <2>2, <3>1
      <4>2. q.on[(n + 1) \div 2] \in Expr \cup {Absent}
        BY <4>1 DEF QueryOK
      <4>3. Join(q.on[(n + 1) \div 2]) \in Nodes
        BY <4>2 DEF Nodes
      <4>4. Join(q.on[(n + 1) \div 2]).op = "join"
        BY DEF Join
      <4> QED BY <3>1, <4>3, <4>4
    <3>2. CASE ~(n > 1 /\ n % 2 = 1)
      <4>1. n \div 2 + 1 \in 1..L
        BY <1>1, <2>2, <3>2
      <4>2. q.from[n \div 2 + 1] \in Tables
        BY <1>1, <4>1
      <4>3. Scan(q.from[n \div 2 + 1]) \in Nodes
        BY <4>2 DEF Nodes
      <4>4. Scan(q.from[n \div 2 + 1]).op = "scan"
        BY DEF Scan
      <4> QED BY <3>2, <4>3, <4>4
    <3> QED BY <3>1, <3>2
  <2> HIDE DEF node, p
  <2>4. p \in Seq(Nodes) /\ Len(p) = 2 * L - 1
    BY <2>1, <2>2, <2>3
  <2>5. \A n \in 1..Len(p) : p[n].op = IF n > 1 /\ n % 2 = 1 THEN "join" ELSE "scan"
    BY <2>1, <2>3, <2>4
  <2>6. ASSUME NEW n \in 1..Len(p), p[n].op = "join" PROVE n > 2
    <3>1. n > 1 /\ n % 2 = 1
      BY <2>5, <2>6
    <3> QED BY <2>2, <2>4, <3>1
  <2>7. \A n \in 1..Len(p) : p[n].op \in {"join", "scan"}
    BY <2>5
  <2>8. PlanOK(p)
    BY <2>4, <2>6, <2>7 DEF PlanOK, Unary
  <2> QED BY <2>2, <2>4, <2>7, <2>8 DEF Leaves, p
<1> QED BY <1>2, <1>3

\* The columns of its schema are names of columns.
Plain == {e \in Expr : e.k # "ref"}
PlainSchemas == Seq([name : Plain, type : Types])

LEMMA FromColumns ==
    ASSUME NEW q, QueryOK(q)
    PROVE  SchemaOf(FromPlan(q)) \in PlainSchemas
<1> DEFINE p == FromPlan(q)
           s == schemas(p)
           N == Len(p)
           R == {m \in Nat : \A n \in 1..N : n <= m => s[n] \in PlainSchemas}
<1>1. /\ PlanOK(p) /\ N > 0 /\ N \in Nat
      /\ \A n \in 1..N : p[n].op \in Leaves \cup {"join"} /\ NodeOK(p[n])
  BY FromPlanOK, PlanNodes
<1>2. \A n \in 1..N : s[n] \in Schemas /\ s[n] = SchemaAt(p, n, s)
  <2> HIDE DEF p
  <2> QED BY <1>1, SchemasUnfold
<1>3. \A n \in 1..N : p[n].op = "join" => n > 2
  BY <1>1 DEF PlanOK
<1> HIDE DEF p, s
<1>4. ASSUME NEW n \in 1..N, p[n].op = "scan" PROVE s[n] \in PlainSchemas
  <2> DEFINE node == p[n]
             table == Catalog[node.table]
             col(i) == Column(Col(node.alias, table[i].n), table[i].type)
  <2>1. s[n] = ScanSchema(node)
    BY <1>2, <1>4 DEF SchemaAt
  <2>2. CASE node.table \notin DOMAIN Catalog
    <3>1. Star \in Plain /\ "error" \in Types
      BY ExprAssumption DEF Plain, Star, Types
    <3>2. Column(Star, "error") \in [name : Plain, type : Types]
      BY <3>1 DEF Column
    <3> QED BY <2>1, <2>2, <3>2 DEF ScanSchema, PlainSchemas
  <2>3. CASE node.table \in DOMAIN Catalog
    <3>1. table \in Seq([n : STRING, type : DataType])
      BY <2>3, CatalogAssumption
    <3>2. ASSUME NEW i \in DOMAIN table PROVE col(i) \in [name : Plain, type : Types]
      <4>1. Col(node.alias, table[i].n) \in Expr
        BY <1>1, <1>4, <2>3, <3>2 DEF NodeOK
      <4>2. Col(node.alias, table[i].n).k # "ref"
        BY DEF Col
      <4>3. table[i] \in [n : STRING, type : DataType]
        BY <3>1, <3>2, SeqElements
      <4>4. table[i].type \in Types
        BY <4>3 DEF Types
      <4> HIDE DEF table
      <4> QED BY <4>1, <4>2, <4>4 DEF Plain, Column
    <3>3. ScanSchema(node) = [i \in DOMAIN table |-> col(i)]
      BY <2>3 DEF ScanSchema
    <3>4. DOMAIN table = 1..Len(table) /\ Len(table) \in Nat
      BY <3>1
    <3> HIDE DEF table, col
    <3> QED BY <2>1, <3>2, <3>3, <3>4 DEF PlainSchemas
  <2> QED BY <2>2, <2>3
<1>5. 0 \in R
  BY <1>1
<1>6. ASSUME NEW m \in Nat, m \in R PROVE m + 1 \in R
  <2>1. SUFFICES ASSUME NEW n \in 1..N, n = m + 1 PROVE s[n] \in PlainSchemas
    BY <1>1, <1>6
  <2>2. CASE p[n].op = "join"
    <3>1. s[n] = s[n - 2] \o s[n - 1]
      BY <1>2, <2>2 DEF SchemaAt
    <3>2. s[n - 2] \in PlainSchemas /\ s[n - 1] \in PlainSchemas
      BY <1>1, <1>3, <1>6, <2>1, <2>2
    <3> QED BY <3>1, <3>2 DEF PlainSchemas
  <2>3. CASE p[n].op = "dummy"
    <3>1. s[n] = <<>>
      BY <1>2, <2>3 DEF SchemaAt
    <3> QED BY <3>1 DEF PlainSchemas
  <2> QED BY <1>1, <1>4, <2>2, <2>3 DEF Leaves
<1>7. N \in R
  <2>1. Nat \subseteq R
    <3> HIDE DEF R
    <3> QED BY <1>5, <1>6, NatSetInduction
  <2> QED BY <1>1, <2>1
<1> QED BY <1>1, <1>7 DEF SchemaOf, p, s

LEMMA TargetsType ==
    ASSUME NEW q, QueryOK(q)
    PROVE  Targets(q) \in Seq(Items)
<1> DEFINE columns == SchemaOf(FromPlan(q))
           wildcard == [i \in DOMAIN columns |-> Item(columns[i].name)]
           seqs == [i \in DOMAIN q.select |->
                      IF q.select[i].e = Star THEN wildcard ELSE <<q.select[i]>>]
<1>1. /\ DOMAIN columns = 1..Len(columns) /\ Len(columns) \in Nat
      /\ \A i \in DOMAIN columns : columns[i] \in [name : Plain, type : Types]
  <2> HIDE DEF columns
  <2>1. columns \in PlainSchemas
    BY FromColumns DEF columns
  <2> QED BY <2>1, SeqElements DEF PlainSchemas
<1>2. wildcard \in Seq(Items)
  <2> HIDE DEF columns
  <2>1. ASSUME NEW i \in DOMAIN columns PROVE Item(columns[i].name) \in Items
    <3>1. columns[i].name \in Plain
      BY <1>1, <2>1
    <3> QED BY <3>1 DEF Item, Items, Plain, NameOf
  <2> QED BY <1>1, <2>1
<1>3. /\ DOMAIN q.select = 1..Len(q.select) /\ Len(q.select) \in Nat
      /\ \A i \in DOMAIN q.select : q.select[i] \in Items
  <2>1. q.select \in Seq(Items)
    BY DEF QueryOK
  <2> QED BY <2>1, SeqElements
<1> HIDE DEF wildcard
<1>4. seqs \in Seq(Seq(Items))
  <2>1. ASSUME NEW i \in DOMAIN q.select
        PROVE  (IF q.select[i].e = Star THEN wildcard ELSE <<q.select[i]>>) \in Seq(Items)
    <3>1. <<q.select[i]>> \in Seq(Items)
      BY <1>3, <2>1
    <3> QED BY <1>2, <3>1
  <2> QED BY <1>3, <2>1
<1>5. Targets(q) = FlattenSeq(seqs)
  BY DEF Targets, wildcard
<1> HIDE DEF seqs
<1> QED BY <1>4, <1>5, FlattenType

LEMMA AggFuncsType ==
    ASSUME NEW items \in Seq(Items)
    PROVE  AggFuncs(items) \in Seq(Calls)
<1> DEFINE every == FlattenSeq([i \in DOMAIN items |-> Aggregates(items[i].e)])
           n == Len(every)
           T == Seq(Calls)
           With(s, x) == IF Contains(s, x) THEN s ELSE Append(s, x)
           Body(k, f) == IF k = 0 THEN <<>>
                         ELSE IF Contains(f[k - 1], every[k]) THEN f[k - 1]
                         ELSE Append(f[k - 1], every[k])
           step == [x \in (1..n) \X T |-> With(x[2], every[x[1]])]
           funcs == CHOOSE f : f = [k \in 0..n |-> Body(k, f)]
<1>1. every \in T
  <2> DEFINE seqs == [i \in DOMAIN items |-> Aggregates(items[i].e)]
  <2>1. /\ DOMAIN items = 1..Len(items) /\ Len(items) \in Nat
        /\ \A i \in DOMAIN items : items[i].e \in Expr
    <3>1. /\ DOMAIN items = 1..Len(items) /\ Len(items) \in Nat
          /\ \A i \in DOMAIN items : items[i] \in Items
      BY SeqElements
    <3> QED BY <3>1 DEF Items
  <2>2. \A i \in DOMAIN items : Aggregates(items[i].e) \in T
    <3> HIDE DEF T
    <3> QED BY <2>1, AggregatesType DEF T
  <2>3. seqs \in Seq(T)
    <3> HIDE DEF T
    <3> QED BY <2>1, <2>2
  <2> HIDE DEF seqs
  <2>4. FlattenSeq(seqs) \in T
    BY <2>3, FlattenType
  <2> QED BY <2>4 DEF seqs
<1>2. n \in Nat /\ \A k \in 1..n : every[k] \in Calls
  <2> HIDE DEF every
  <2> QED BY <1>1, SeqElements
<1>3. AggFuncs(items) = funcs[n]
  BY DEF AggFuncs
<1> HIDE DEF every
<1>4. ASSUME NEW s \in T, NEW x \in Calls PROVE With(s, x) \in T
  OBVIOUS
<1>5. step \in Steps(n, T)
  <2> HIDE DEF With, T, n
  <2> QED BY <1>2, <1>4 DEF Steps
<1>6. PICK f \in [0..n -> T] : f[0] = <<>> /\ \A k \in 1..n : f[k] = step[<<k, f[k - 1]>>]
  <2> DEFINE e == <<>>
  <2>1. e \in T
    OBVIOUS
  <2> HIDE DEF step, n, T, e
  <2>2. \E f \in [0..n -> T] : Iterates(f, n, e, step)
    BY <1>2, <1>5, <2>1, Iteration
  <2> QED BY <2>2 DEF e, Iterates
<1>7. f = [k \in 0..n |-> Body(k, f)]
  <2>1. ASSUME NEW k \in 0..n PROVE f[k] = Body(k, f)
    <3>1. CASE k = 0
      BY <1>6, <3>1
    <3>2. CASE k # 0
      <4>1. k \in 1..n /\ k - 1 \in 0..n
        BY <1>2, <3>2
      <4>2. f[k] = step[<<k, f[k - 1]>>] /\ f[k - 1] \in T
        BY <1>6, <4>1
      <4>3. \A s \in T : step[<<k, s>>] = With(s, every[k])
        <5> HIDE DEF With, T, n
        <5> QED BY <4>1
      <4> HIDE DEF step, T, n
      <4> QED BY <3>2, <4>2, <4>3
    <3> QED BY <3>1, <3>2
  <2> HIDE DEF Body, T
  <2> QED BY <2>1
<1>8. funcs = [k \in 0..n |-> Body(k, funcs)]
  <2> HIDE DEF Body, n
  <2> QED BY <1>7
<1> HIDE DEF funcs
<1> DEFINE R == {m \in Nat : m <= n => funcs[m] \in T}
<1>9. 0 \in R
  <2>1. funcs[0] = Body(0, funcs)
    <3>1. 0 \in 0..n
      BY <1>2
    <3> HIDE DEF Body, n
    <3> QED BY <1>8, <3>1
  <2>2. Body(0, funcs) = <<>>
    OBVIOUS
  <2>3. <<>> \in T
    OBVIOUS
  <2> HIDE DEF T, Body
  <2> QED BY <2>1, <2>2, <2>3
<1>10. ASSUME NEW m \in Nat, m \in R PROVE m + 1 \in R
  <2>1. SUFFICES ASSUME NEW k \in 1..n, k - 1 = m PROVE funcs[k] \in T
    <3>1. (m + 1) - 1 = m /\ m + 1 \in Nat
      OBVIOUS
    <3>2. m + 1 <= n => m + 1 \in 1..n
      BY <1>2
    <3> HIDE DEF T, n
    <3> QED BY <3>1, <3>2
  <2>2. funcs[k] = Body(k, funcs)
    <3>1. k \in 0..n
      BY <1>2
    <3> HIDE DEF Body, n
    <3> QED BY <1>8, <3>1
  <2>3. funcs[k - 1] \in T
    BY <1>2, <1>10, <2>1
  <2>4. funcs[k] = With(funcs[k - 1], every[k])
    BY <2>1, <2>2
  <2> HIDE DEF With, T, n
  <2> QED BY <1>2, <1>4, <2>3, <2>4
<1>11. n \in R
  <2> HIDE DEF R
  <2> QED BY <1>2, <1>9, <1>10, NatSetInduction
<1> QED BY <1>2, <1>3, <1>11

\* SELECT and GROUP BY: a Project, or an Agg and a Project.
UnaryNodes == {node \in Nodes : node.op \in Unary}

LEMMA SelectPlanType ==
    ASSUME NEW q, QueryOK(q)
    PROVE  SelectPlan(q) \in Seq(UnaryNodes) /\ Len(SelectPlan(q)) > 0
<1> DEFINE items == Targets(q)
           funcs == AggFuncs(items)
           rewritten == [i \in DOMAIN items |-> [items[i] EXCEPT !.e = Rewritten(items[i].e)]]
<1>1. items \in Seq(Items)
  BY TargetsType
<1> HIDE DEF items
<1>2. funcs \in Seq(Calls)
  BY <1>1, AggFuncsType
<1> HIDE DEF funcs
<1>3. rewritten \in Seq(Items)
  <2>1. /\ DOMAIN items = 1..Len(items) /\ Len(items) \in Nat
        /\ \A i \in DOMAIN items : items[i] \in Items
    BY <1>1, SeqElements
  <2>2. ASSUME NEW i \in DOMAIN items
        PROVE  [items[i] EXCEPT !.e = Rewritten(items[i].e)] \in Items
    <3>1. items[i] \in Items /\ items[i].e \in Expr
      BY <2>1, <2>2 DEF Items
    <3>2. Rewritten(items[i].e) \in Expr
      BY <3>1, RewritingAssumption
    <3> QED BY <3>1, <3>2 DEF Items
  <2> QED BY <2>1, <2>2
<1>4. q.group_by \in Seq(Expr)
  BY DEF QueryOK
<1>5. SelectPlan(q) = IF q.group_by = <<>> /\ funcs = <<>> THEN <<Project(items)>>
                      ELSE <<Agg(q.group_by, funcs), Project(rewritten)>>
  BY DEF SelectPlan, items, funcs
<1> HIDE DEF rewritten
<1>6. \A i \in Seq(Items) : Project(i) \in UnaryNodes
  <2>1. \A i \in Seq(Items) : Project(i) \in Nodes
    BY DEF Nodes
  <2>2. \A i : Project(i).op = "project"
    BY DEF Project
  <2> QED BY <2>1, <2>2 DEF UnaryNodes, Unary
<1>7. Agg(q.group_by, funcs) \in UnaryNodes
  <2>1. Agg(q.group_by, funcs) \in Nodes
    BY <1>2, <1>4 DEF Nodes
  <2>2. Agg(q.group_by, funcs).op = "agg"
    BY DEF Agg
  <2> QED BY <2>1, <2>2 DEF UnaryNodes, Unary
<1>8. <<Project(items)>> \in Seq(UnaryNodes) /\ Len(<<Project(items)>>) > 0
  BY <1>1, <1>6
<1>9. /\ <<Agg(q.group_by, funcs), Project(rewritten)>> \in Seq(UnaryNodes)
      /\ Len(<<Agg(q.group_by, funcs), Project(rewritten)>>) > 0
  <2>1. Project(rewritten) \in UnaryNodes
    BY <1>3, <1>6
  <2> QED BY <1>7, <2>1
<1> QED BY <1>5, <1>8, <1>9

\* Unary nodes may be added to a plan.
LEMMA PlanGrows ==
    ASSUME NEW p, PlanOK(p), Len(p) > 0, NEW s \in Seq(UnaryNodes)
    PROVE  PlanOK(p \o s) /\ Len(p \o s) > 0
<1>1. p \in Seq(Nodes) /\ s \in Seq(Nodes) /\ Len(p) \in Nat /\ Len(s) \in Nat
  <2>1. UnaryNodes \subseteq Nodes
    BY DEF UnaryNodes
  <2>2. p \in Seq(Nodes) /\ Len(p) \in Nat
    BY DEF PlanOK
  <2>3. Len(s) \in Nat /\ DOMAIN s = 1..Len(s) /\ \A i \in 1..Len(s) : s[i] \in UnaryNodes
    BY SeqElements
  <2>4. s \in Seq(Nodes)
    BY <2>1
  <2> QED BY <2>2, <2>3, <2>4
<1>2. \A i \in 1..Len(s) : s[i].op \in Unary
  <2>1. \A i \in 1..Len(s) : s[i] \in UnaryNodes
    BY SeqElements
  <2> QED BY <2>1 DEF UnaryNodes
<1>3. /\ p \o s \in Seq(Nodes) /\ Len(p \o s) = Len(p) + Len(s)
      /\ \A n \in 1..Len(p) : (p \o s)[n] = p[n]
      /\ \A n \in Len(p) + 1..Len(p) + Len(s) : (p \o s)[n] = s[n - Len(p)]
  BY <1>1
<1>4. ASSUME NEW n \in 1..Len(p \o s)
      PROVE  /\ (p \o s)[n].op \in Unary => n > 1
             /\ (p \o s)[n].op = "join" => n > 2
  <2>1. CASE n \in 1..Len(p)
    BY <1>3, <2>1 DEF PlanOK
  <2>2. CASE n \notin 1..Len(p)
    <3>1. n \in Len(p) + 1..Len(p) + Len(s) /\ n - Len(p) \in 1..Len(s) /\ n > 1
      BY <1>1, <1>3, <2>2
    <3>2. (p \o s)[n].op \in Unary
      BY <1>2, <1>3, <3>1
    <3> QED BY <3>1, <3>2 DEF Unary
  <2> QED BY <2>1, <2>2
<1> QED BY <1>1, <1>3, <1>4 DEF PlanOK

LEMMA bind_queryOK ==
    ASSUME NEW q, QueryOK(q)
    PROVE  PlanOK(bind_query(q)) /\ Len(bind_query(q)) > 0
<1> DEFINE where == IF q.where = Absent THEN <<>> ELSE <<Filter(q.where)>>
           order == IF q.order_by = <<>> THEN <<>> ELSE <<Sort(q.order_by)>>
           limit == IF q.limit = NoNumber /\ q.offset = NoNumber
                      THEN <<>> ELSE <<Limit(q.limit, q.offset)>>
<1>1. where \in Seq(UnaryNodes)
  <2>1. q.where # Absent => Filter(q.where) \in Nodes
    BY DEF Nodes, QueryOK
  <2>2. Filter(q.where).op = "filter"
    BY DEF Filter
  <2>3. q.where # Absent => Filter(q.where) \in UnaryNodes
    BY <2>1, <2>2 DEF UnaryNodes, Unary
  <2> QED BY <2>3
<1>2. order \in Seq(UnaryNodes)
  <2>1. Sort(q.order_by) \in Nodes
    BY DEF Nodes, QueryOK
  <2>2. Sort(q.order_by).op = "sort"
    BY DEF Sort
  <2>3. Sort(q.order_by) \in UnaryNodes
    BY <2>1, <2>2 DEF UnaryNodes, Unary
  <2> QED BY <2>3
<1>3. limit \in Seq(UnaryNodes)
  <2>1. Limit(q.limit, q.offset) \in Nodes
    BY DEF Nodes, QueryOK
  <2>2. Limit(q.limit, q.offset).op = "limit"
    BY DEF Limit
  <2>3. Limit(q.limit, q.offset) \in UnaryNodes
    BY <2>1, <2>2 DEF UnaryNodes, Unary
  <2> QED BY <2>3
<1>4. SelectPlan(q) \in Seq(UnaryNodes)
  BY SelectPlanType
<1>5. PlanOK(FromPlan(q)) /\ Len(FromPlan(q)) > 0
  BY FromPlanOK
<1>6. bind_query(q) = FromPlan(q) \o where \o SelectPlan(q) \o order \o limit
  BY DEF bind_query
<1> HIDE DEF where, order, limit
<1>7. PlanOK(FromPlan(q) \o where) /\ Len(FromPlan(q) \o where) > 0
  BY <1>1, <1>5, PlanGrows
<1>8. PlanOK(FromPlan(q) \o where \o SelectPlan(q)) /\ Len(FromPlan(q) \o where \o SelectPlan(q)) > 0
  BY <1>4, <1>7, PlanGrows
<1>9. /\ PlanOK(FromPlan(q) \o where \o SelectPlan(q) \o order)
      /\ Len(FromPlan(q) \o where \o SelectPlan(q) \o order) > 0
  BY <1>2, <1>8, PlanGrows
<1> QED BY <1>3, <1>6, <1>9, PlanGrows
-----------------------------------------------------------------------------
(***************************************************************************)
(* Orders.                                                                 *)
(***************************************************************************)
\* less is a strict total order of 1..n.
TotalOrder(less, n) ==
    /\ \A i \in 1..n : <<i, i>> \notin less
    /\ \A i, j \in 1..n : i # j => <<i, j>> \in less \/ <<j, i>> \in less
    /\ \A i, j, k \in 1..n : <<i, j>> \in less /\ <<j, k>> \in less => <<i, k>> \in less

Ranked(less, n, r) ==
    \E i \in 1..n : Cardinality({j \in 1..n : <<j, i>> \in less}) = r - 1

\* Under a strict total order of 1..n each rank is that of one element.
LEMMA Ranks ==
    ASSUME NEW n \in Nat, NEW less, TotalOrder(less, n)
    PROVE  \A r \in 1..n : Ranked(less, n, r)
<1> DEFINE S == 1..n
           T == 0..n - 1
           ahead(i) == {j \in 1..n : <<j, i>> \in less}
           rank == [i \in S |-> Cardinality(ahead(i))]
<1>1. IsFiniteSet(S) /\ Cardinality(S) = n
  BY FS_Interval
<1>2. IsFiniteSet(T) /\ Cardinality(T) = n
  BY FS_Interval
<1>3. ASSUME NEW i \in S PROVE IsFiniteSet(ahead(i)) /\ Cardinality(ahead(i)) \in T
  <2>1. ahead(i) \in SUBSET (S \ {i})
    BY DEF TotalOrder
  <2>2. IsFiniteSet(S \ {i}) /\ Cardinality(S \ {i}) = n - 1
    BY <1>1, FS_RemoveElement
  <2> HIDE DEF ahead, S
  <2>3. IsFiniteSet(ahead(i)) /\ Cardinality(ahead(i)) <= n - 1
    BY <2>1, <2>2, FS_Subset
  <2>4. Cardinality(ahead(i)) \in Nat
    BY <2>3, FS_CardinalityType
  <2> QED BY <2>3, <2>4
<1>4. ASSUME NEW i \in S, NEW j \in S, <<j, i>> \in less
      PROVE  Cardinality(ahead(j)) # Cardinality(ahead(i))
  <2>1. ahead(j) \in SUBSET ahead(i) /\ j \in ahead(i) /\ j \notin ahead(j)
    BY <1>4 DEF TotalOrder
  <2>2. IsFiniteSet(ahead(i))
    BY <1>3
  <2> HIDE DEF ahead
  <2> QED BY <2>1, <2>2, FS_Subset
<1> HIDE DEF ahead
<1>5. rank \in [S -> T]
  <2> HIDE DEF S, T
  <2> QED BY <1>3
<1>6. \A i, j \in S : rank[i] = rank[j] => i = j
  BY <1>4 DEF TotalOrder
<1>7. rank \in Injection(S, T)
  <2> HIDE DEF S, T, rank
  <2> QED BY <1>5, <1>6 DEF Injection, IsInjective
<1>8. rank \in Surjection(S, T)
  <2> HIDE DEF S, T, rank
  <2> QED BY <1>1, <1>2, <1>7, FS_Injection
<1>9. \A t \in T : \E i \in S : rank[i] = t
  <2> HIDE DEF S, T, rank
  <2> QED BY <1>8 DEF Surjection, Range
<1> QED BY <1>9 DEF ahead, Ranked

\* A function from a set to a sequence of its elements.
LEMMA SetToSeqsType ==
    ASSUME NEW S, IsFiniteSet(S), NEW s \in SetToSeqs(S)
    PROVE  /\ Cardinality(S) \in Nat /\ s \in [1..Cardinality(S) -> S]
           /\ s \in Seq(S)
<1>1. s \in [1..Cardinality(S) -> S]
  BY DEF SetToSeqs
<1>2. Cardinality(S) \in Nat
  BY FS_CardinalityType
<1> QED BY <1>1, <1>2

\* sort_by gives orders of the positions.
LEMMA sort_byType ==
    ASSUME NEW by \in [keys : Seq(Seq(Values)), asc : Seq(BOOLEAN)],
           NEW p \in sort_by[by]
    PROVE  p \in [1..Len(by.keys) -> 1..Len(by.keys)]
<1> DEFINE n == Len(by.keys)
           before(i, j) == KeysPrecede(by.keys[i], by.keys[j], by.asc)
           weak == \A i, j \in 1..n : before(i, j) =>
                       ~before(j, i) /\ \A k \in 1..n : before(i, k) \/ before(k, j)
           ahead(i) == {j \in 1..n : before(j, i) \/ (j < i /\ ~before(i, j))}
           ranked == [r \in 1..n |-> CHOOSE i \in 1..n : Cardinality(ahead(i)) = r - 1]
<1>1. n \in Nat
  <2>1. by.keys \in Seq(Seq(Values))
    OBVIOUS
  <2> QED BY <2>1
<1>2. sort_by[by] = IF weak THEN {ranked} ELSE SetToSeqs(1..n)
  BY DEF sort_by, Values
<1>3. CASE ~weak
  <2>1. IsFiniteSet(1..n) /\ Cardinality(1..n) = n
    <3> HIDE DEF n
    <3> QED BY <1>1, FS_Interval
  <2>2. p \in SetToSeqs(1..n)
    BY <1>2, <1>3
  <2> HIDE DEF n
  <2> QED BY <2>1, <2>2, SetToSeqsType DEF n
<1>4. CASE weak
  <2> DEFINE B == {x \in (1..n) \X (1..n) : before(x[1], x[2])}
             less == {x \in (1..n) \X (1..n) : x \in B \/ (x[1] < x[2] /\ <<x[2], x[1]>> \notin B)}
  <2>1. \A i, j \in 1..n : before(i, j) <=> <<i, j>> \in B
    <3> HIDE DEF before, n
    <3> QED OBVIOUS
  <2>2. \A i, j \in 1..n : <<i, j>> \in B =>
            <<j, i>> \notin B /\ \A k \in 1..n : <<i, k>> \in B \/ <<k, j>> \in B
    <3> HIDE DEF before, B, n
    <3> QED BY <1>4, <2>1
  <2>3. \A i, j \in 1..n : <<i, j>> \in less <=>
            <<i, j>> \in B \/ (i < j /\ <<j, i>> \notin B)
    <3> HIDE DEF B, n
    <3> QED OBVIOUS
  <2>4. \A i \in 1..n : ahead(i) = {j \in 1..n : <<j, i>> \in less}
    <3>1. ASSUME NEW i \in 1..n, NEW j \in 1..n
          PROVE  before(j, i) \/ (j < i /\ ~before(i, j)) <=> <<j, i>> \in less
      <4> HIDE DEF before, B, less, n
      <4> QED BY <2>1, <2>3
    <3> HIDE DEF before, less, n
    <3> QED BY <3>1
  <2> HIDE DEF before, B, less, ahead
  <2>5. \A i \in 1..n : <<i, i>> \notin less
    <3>1. ASSUME NEW i \in 1..n PROVE <<i, i>> \notin B /\ ~(i < i)
      <4>1. i \in Int
        OBVIOUS
      <4> HIDE DEF n
      <4>2. <<i, i>> \notin B
        BY <2>2
      <4> QED BY <4>1, <4>2
    <3> HIDE DEF n
    <3> QED BY <2>3, <3>1
  <2>6. \A i, j \in 1..n : i # j => <<i, j>> \in less \/ <<j, i>> \in less
    BY <2>2, <2>3
  <2>7. ASSUME NEW i \in 1..n, NEW j \in 1..n, NEW k \in 1..n,
               <<i, j>> \in less, <<j, k>> \in less
        PROVE  <<i, k>> \in less
    <3>1. CASE <<i, j>> \in B
      BY <2>2, <2>3, <2>7, <3>1
    <3>2. CASE <<i, j>> \notin B /\ <<j, k>> \in B
      BY <2>2, <2>3, <2>7, <3>2
    <3>3. CASE <<i, j>> \notin B /\ <<j, k>> \notin B
      <4>1. i < j /\ j < k /\ <<j, i>> \notin B /\ <<k, j>> \notin B
        BY <2>3, <2>7, <3>3
      <4>2. <<k, i>> \notin B
        BY <2>2, <4>1
      <4>3. i < k
        BY <4>1
      <4> QED BY <2>3, <4>2, <4>3
    <3> QED BY <3>1, <3>2, <3>3
  <2>8. \A r \in 1..n : \E i \in 1..n : Cardinality({j \in 1..n : <<j, i>> \in less}) = r - 1
    <3>1. \A i, j, k \in 1..n : <<i, j>> \in less /\ <<j, k>> \in less => <<i, k>> \in less
      BY <2>7
    <3> HIDE DEF n, less
    <3>2. TotalOrder(less, n)
      BY <2>5, <2>6, <3>1 DEF TotalOrder
    <3>3. \A r \in 1..n : Ranked(less, n, r)
      BY <1>1, <3>2, Ranks
    <3> QED BY <3>3 DEF Ranked
  <2>9. \A r \in 1..n : \E i \in 1..n : Cardinality(ahead(i)) = r - 1
    BY <2>4, <2>8
  <2>10. p = ranked
    BY <1>2, <1>4 DEF before, ahead
  <2>11. \A r \in 1..n : (CHOOSE i \in 1..n : Cardinality(ahead(i)) = r - 1) \in 1..n
    BY <2>9
  <2> HIDE DEF n
  <2>12. ranked \in [1..n -> 1..n]
    BY <2>11
  <2> QED BY <2>10, <2>12 DEF n
<1> QED BY <1>3, <1>4
=============================================================================

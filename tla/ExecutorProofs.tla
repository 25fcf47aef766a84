--------------------------- MODULE ExecutorProofs ---------------------------
(***************************************************************************)
(* Executor keeps its types, and the rows it returns have the columns the  *)
(* planner announces, for all queries, expressions and tables of rows that *)
(* have the columns of their schemas.                                      *)
(***************************************************************************)
EXTENDS Executor, PlanProofs

(***************************************************************************)
(* The inductive invariant.                                                *)
(***************************************************************************)
\* Every stored value has the type of its column, or is NULL.
WellTypedIn(db) ==
    \A t \in DOMAIN db : \A i \in DOMAIN db[t] :
        \A c \in DOMAIN Catalog[t] :
            db[t][i].values[c].k \in {Catalog[t][c].type, "null"}

\* A row has the columns of the schema, and their types if the tables do.
Fits(db, row, schema) ==
    /\ row \in Tuples /\ Len(row) = Len(schema)
    /\ WellTypedIn(db) => Typed(row, schema)

RowsFit(db, rows, schema) ==
    /\ rows \in Seq(Tuples)
    /\ \A i \in 1..Len(rows) : Fits(db, rows[i], schema)

\* The state of an aggregate function whose argument has the type.
StateOK(db, func, type, st) ==
    /\ st.count \in Nat /\ st.acc \in Value
    /\ WellTypedIn(db) /\ func # "count" => st.acc.k \in {type, "null"}

GroupOK(db, node, child, g) ==
    /\ g.group \in Tuples /\ Len(g.group) = Len(node.group_by)
    /\ WellTypedIn(db) => \A i \in 1..Len(node.group_by) :
          g.group[i].k \in {get_expr_type(node.group_by[i], child), "null"}
    /\ \A i \in 1..Len(node.agg_funcs) :
          StateOK(db, node.agg_funcs[i].name,
                  get_expr_type(node.agg_funcs[i].arg, child), g.states[i])

GroupsOK(db, node, child, groups) ==
    /\ IsFiniteSet(DOMAIN groups)
    /\ \A k \in DOMAIN groups : GroupOK(db, node, child, groups[k])

\* What an operator keeps between two calls.
KeepsOK(db, p, cols, n, e) ==
    /\ p[n].op = "sort" => RowsFit(db, e.buffer, cols[n - 1])
    /\ p[n].op = "agg" => /\ RowsFit(db, e.buffer, cols[n])
                          /\ GroupsOK(db, p[n], cols[n - 1], e.groups)
    /\ p[n].op = "join" => /\ RowsFit(db, e.buffer, cols[n - 1])
                           /\ RowsFit(db, e.outer, cols[n - 2])

OperatorOK(db, p, cols, n, e) ==
    /\ DOMAIN e = {"cursor", "buffer", "outer", "groups"}
    /\ e.cursor \in Nat /\ e.buffer \in Seq(Tuples) /\ e.outer \in Seq(Tuples)
    /\ ~Failed(cols[n]) => KeepsOK(db, p, cols, n, e)

ExecOK(db, p, cols, ex) ==
    /\ DOMAIN ex = 1..Len(p)
    /\ \A n \in 1..Len(p) : OperatorOK(db, p, cols, n, ex[n])

\* The child a call waits for, and the node whose result a stack of calls
\* waits for.
Awaited(p, frame) ==
    IF p[frame.node].op = "join" /\ frame.at \in {"child", "first", "pulling"}
      THEN frame.node - 2 ELSE frame.node - 1

Expected(p, stack) == IF stack = <<>> THEN Len(p) ELSE Awaited(p, Head(stack))

Places == {"init", "next", "child", "right", "reading", "first", "pulling"}

StackOK(p, cols, stack) ==
    /\ stack \in Seq([node : Nat, at : Places])
    /\ \A i \in 1..Len(stack) :
          /\ stack[i].node \in 1..Len(p) /\ ~Failed(cols[stack[i].node])
          /\ stack[i].node = IF i = Len(stack) THEN Len(p) ELSE Awaited(p, stack[i + 1])

\* What a call has returned is a row of the node it was a call of.
Tags == {"pending", "ok", "row", "none", "error"}
RetOK(db, p, cols, stack, r) ==
    /\ r \in [tag : Tags, row : Tuples]
    /\ stack = <<>> => r.tag # "pending"
    /\ r.tag = "row" => Fits(db, r.row, cols[Expected(p, stack)])

PlanBuilt ==
    /\ PlanOK(plan) /\ Len(plan) > 0
    /\ columns = schemas(plan) /\ ~Failed(columns[Len(plan)])

Working ==
    /\ StackOK(plan, columns, calls)
    /\ RetOK(tables, plan, columns, calls, ret)

Phases == {"idle", "built", "opening", "open", "fetching", "done", "closed", "failed"}

IInv ==
    /\ tables \in Databases /\ RowsHaveColumns(tables)
    /\ query \in Queries \cup {Absent}
    /\ phase \in Phases
    /\ RowsFit(tables, out, columns[Len(plan)])
    /\ phase \in {"opening", "fetching"} => Working
    /\ phase \notin {"opening", "fetching"} => calls = <<>> /\ ret = Pending
    /\ phase \in {"idle", "failed"} => exec = <<>>
    /\ phase \notin {"idle", "failed"} => PlanBuilt /\ ExecOK(tables, plan, columns, exec)
    /\ out # <<>> => PlanBuilt
-----------------------------------------------------------------------------
(***************************************************************************)
(* Rows and the operators on them.                                         *)
(***************************************************************************)
LEMMA QueriesOK == \A q \in Queries : QueryOK(q)
BY QueriesAssumption DEF QueryOK, Items, Orders, Numbers

LEMMA Concatenation ==
    ASSUME NEW S, NEW s \in Seq(S), NEW t \in Seq(S)
    PROVE  /\ s \o t \in Seq(S) /\ Len(s \o t) = Len(s) + Len(t)
           /\ DOMAIN (s \o t) = 1..Len(s) + Len(t)
           /\ \A i \in 1..Len(s) : (s \o t)[i] = s[i]
           /\ \A i \in 1..Len(t) : (s \o t)[Len(s) + i] = t[i]
OBVIOUS

\* The nodes below a node that has a schema have one, and make it.
BelowOK(p, c, n) ==
    /\ NodeOK(p[n]) /\ c[n] \in Schemas
    /\ p[n].op \in Unary =>
          n - 1 \in 1..Len(p) /\ c[n - 1] \in Schemas /\ ~Failed(c[n - 1])
    /\ p[n].op = "join" =>
          /\ n - 1 \in 1..Len(p) /\ c[n - 1] \in Schemas /\ ~Failed(c[n - 1])
          /\ n - 2 \in 1..Len(p) /\ c[n - 2] \in Schemas /\ ~Failed(c[n - 2])
          /\ c[n] = c[n - 2] \o c[n - 1]
    /\ p[n].op = "dummy" => c[n] = <<>>
    /\ p[n].op = "scan" => c[n] = ScanSchema(p[n])
    /\ p[n].op \in {"filter", "limit", "sort"} => c[n] = c[n - 1]
    /\ p[n].op = "project" => c[n] = ProjectSchema(p[n], c[n - 1])
    /\ p[n].op = "agg" => c[n] = AggSchema(p[n], c[n - 1])

LEMMA Children ==
    ASSUME NEW p, PlanOK(p), NEW c, c = schemas(p), NEW n \in 1..Len(p), ~Failed(c[n])
    PROVE  BelowOK(p, c, n)
<1>1. /\ c \in [1..Len(p) -> Schemas]
      /\ \A m \in 1..Len(p) : c[m] = SchemaAt(p, m, c)
  BY SchemasUnfold
<1>2. Len(p) \in Nat /\ NodeOK(p[n])
  BY PlanNodes
<1>3. c[n] = SchemaAt(p, n, c) /\ c[n] \in Schemas
  BY <1>1
<1>4. /\ p[n].op \in Unary => n - 1 \in 1..Len(p)
      /\ p[n].op = "join" => n - 1 \in 1..Len(p) /\ n - 2 \in 1..Len(p)
  BY <1>2 DEF PlanOK
<1>5. /\ p[n].op \in Unary => c[n - 1] \in Schemas
      /\ p[n].op = "join" => c[n - 1] \in Schemas /\ c[n - 2] \in Schemas
  BY <1>1, <1>4
<1>6. /\ p[n].op = "join" => c[n] = c[n - 2] \o c[n - 1]
      /\ p[n].op = "dummy" => c[n] = <<>>
      /\ p[n].op = "scan" => c[n] = ScanSchema(p[n])
      /\ p[n].op \in {"filter", "limit", "sort"} => c[n] = c[n - 1]
      /\ p[n].op = "project" => c[n] = ProjectSchema(p[n], c[n - 1])
      /\ p[n].op = "agg" => c[n] = AggSchema(p[n], c[n - 1])
  BY <1>3 DEF SchemaAt
<1>7. p[n].op \in Unary => ~Failed(c[n - 1])
  <2>1. p[n].op = "project" => ~Failed(c[n - 1])
    BY <1>6 DEF ProjectSchema
  <2>2. p[n].op = "agg" => ~Failed(c[n - 1])
    BY <1>6 DEF AggSchema
  <2> QED BY <1>6, <2>1, <2>2 DEF Unary
<1>8. ASSUME p[n].op = "join" PROVE ~Failed(c[n - 1]) /\ ~Failed(c[n - 2])
  <2> DEFINE l == c[n - 2]  r == c[n - 1]
  <2>1. /\ l \in Schemas /\ r \in Schemas /\ c[n] = l \o r
        /\ Len(l) \in Nat /\ DOMAIN l = 1..Len(l)
        /\ Len(r) \in Nat /\ DOMAIN r = 1..Len(r)
    BY <1>5, <1>6, <1>8, ColumnsTyped
  <2>2. /\ DOMAIN c[n] = 1..Len(l) + Len(r)
        /\ \A i \in 1..Len(l) : c[n][i] = l[i]
        /\ \A i \in 1..Len(r) : c[n][Len(l) + i] = r[i]
    <3> HIDE DEF l, r
    <3> QED BY <2>1, Concatenation DEF Schemas
  <2> HIDE DEF l, r
  <2>3. /\ \A i \in 1..Len(l) : i \in DOMAIN c[n]
        /\ \A i \in 1..Len(r) : Len(l) + i \in DOMAIN c[n]
    BY <2>1, <2>2
  <2>4. ~Failed(l) /\ ~Failed(r)
    BY <2>1, <2>2, <2>3 DEF Failed
  <2> QED BY <2>4 DEF l, r
<1> QED BY <1>2, <1>3, <1>4, <1>5, <1>6, <1>7, <1>8 DEF BelowOK

\* The value of an expression on a row that fits.
LEMMA EvalFits ==
    ASSUME NEW db, NEW schema \in Schemas, NEW row, Fits(db, row, schema), NEW e \in Expr
    PROVE  /\ eval(e, row, schema) \in Values
           /\ WellTypedIn(db) /\ get_expr_type(e, schema) # "error" =>
                 \/ eval(e, row, schema) = Err
                 \/ eval(e, row, schema).k \in {get_expr_type(e, schema), "null"}
<1>1. Len(schema) \in Nat /\ \A i \in 1..Len(schema) : schema[i].type \in Types
  BY ColumnsTyped
<1>2. row \in Seq(Value) /\ Len(row) = Len(schema)
  BY DEF Fits, Tuples
<1>3. eval(e, row, schema) \in Values
  BY <1>1, <1>2, EvalType
<1>4. WellTypedIn(db) => Typed(row, schema)
  BY DEF Fits
<1> QED BY <1>1, <1>2, <1>3, <1>4, EvalKind

LEMMA AppendFits ==
    ASSUME NEW db, NEW schema, NEW rows, RowsFit(db, rows, schema),
           NEW row, Fits(db, row, schema)
    PROVE  RowsFit(db, Append(rows, row), schema)
<1>1. rows \in Seq(Tuples) /\ row \in Tuples
  BY DEF RowsFit, Fits
<1>2. /\ Append(rows, row) \in Seq(Tuples)
      /\ Len(rows) \in Nat /\ Len(Append(rows, row)) = Len(rows) + 1
      /\ \A i \in 1..Len(rows) : Append(rows, row)[i] = rows[i]
      /\ Append(rows, row)[Len(rows) + 1] = row
  BY <1>1
<1>3. ASSUME NEW i \in 1..Len(rows) + 1 PROVE Fits(db, Append(rows, row)[i], schema)
  <2>1. CASE i \in 1..Len(rows)
    BY <1>2, <2>1 DEF RowsFit
  <2>2. CASE i = Len(rows) + 1
    BY <1>2, <2>2
  <2> QED BY <1>2, <2>1, <2>2
<1> QED BY <1>2, <1>3 DEF RowsFit

LEMMA FewRowsFit ==
    ASSUME NEW db, NEW schema
    PROVE  /\ RowsFit(db, <<>>, schema)
           /\ \A row : Fits(db, row, schema) => RowsFit(db, <<row>>, schema)
<1>1. RowsFit(db, <<>>, schema)
  BY DEF RowsFit
<1>2. ASSUME NEW row, Fits(db, row, schema) PROVE RowsFit(db, <<row>>, schema)
  <2>1. row \in Tuples
    BY <1>2 DEF Fits
  <2>2. <<row>> \in Seq(Tuples) /\ Len(<<row>>) = 1 /\ <<row>>[1] = row
    BY <2>1
  <2> QED BY <1>2, <2>2 DEF RowsFit
<1> QED BY <1>1, <1>2

\* What a Scan returns.
LEMMA ScanFits ==
    ASSUME tables \in Databases, RowsHaveColumns(tables), NEW node, node.table \in DOMAIN tables,
           ~Failed(ScanSchema(node)), NEW i \in 1..Len(tables[node.table])
    PROVE  Fits(tables, tables[node.table][i].values, ScanSchema(node))
<1> DEFINE t == node.table
           row == tables[t][i].values
           columnsOf == Catalog[t]
<1>1. t \in DOMAIN Catalog
  <2>1. SUFFICES ASSUME t \notin DOMAIN Catalog PROVE Failed(ScanSchema(node))
    OBVIOUS
  <2>2. ScanSchema(node) = <<Column(Star, "error")>>
    BY <2>1 DEF ScanSchema
  <2>3. 1 \in DOMAIN ScanSchema(node) /\ ScanSchema(node)[1].type = "error"
    BY <2>2 DEF Column
  <2> QED BY <2>3 DEF Failed
<1>2. /\ tables[t] \in Seq([values : Seq(Value), visible : BOOLEAN])
      /\ \A j \in DOMAIN tables[t] : Len(tables[t][j].values) = Len(columnsOf)
  BY <1>1, TablesAssumption DEF RowsHaveColumns
<1>3. i \in DOMAIN tables[t] /\ tables[t][i] \in [values : Seq(Value), visible : BOOLEAN]
  <2> HIDE DEF t
  <2> QED BY <1>2, SeqElements DEF t
<1>4. row \in Tuples /\ Len(row) = Len(columnsOf)
  BY <1>2, <1>3 DEF Tuples
<1>5. columnsOf \in Seq([n : STRING, type : DataType])
  BY <1>1, CatalogAssumption
<1>6. Len(columnsOf) \in Nat /\ DOMAIN columnsOf = 1..Len(columnsOf)
  BY <1>5, SeqElements
<1>7. ScanSchema(node) = [c \in 1..Len(columnsOf) |->
          Column(Col(node.alias, columnsOf[c].n), columnsOf[c].type)]
  BY <1>1, <1>6 DEF ScanSchema
<1>8. WellTypedIn(tables) =>
          \A c \in DOMAIN columnsOf : row[c].k \in {columnsOf[c].type, "null"}
  BY <1>3 DEF WellTypedIn
<1> HIDE DEF row, columnsOf
<1>9. /\ Len(ScanSchema(node)) = Len(columnsOf)
      /\ \A c \in 1..Len(columnsOf) : ScanSchema(node)[c].type = columnsOf[c].type
  BY <1>6, <1>7 DEF Column
<1>10. WellTypedIn(tables) => Typed(row, ScanSchema(node))
  BY <1>6, <1>8, <1>9 DEF Typed
<1>11. Fits(tables, row, ScanSchema(node))
  BY <1>4, <1>9, <1>10 DEF Fits
<1> QED BY <1>11 DEF row

LEMMA DummyFits == \A db : Fits(db, <<>>, <<>>)
BY DEF Fits, Tuples, Typed

\* What a Join makes of two rows.
LEMMA JoinFits ==
    ASSUME NEW db, NEW l \in Schemas, NEW r \in Schemas,
           NEW left, Fits(db, left, l), NEW right, Fits(db, right, r)
    PROVE  Fits(db, left \o right, l \o r)
<1>1. left \in Seq(Value) /\ right \in Seq(Value) /\ Len(left) = Len(l) /\ Len(right) = Len(r)
  BY DEF Fits, Tuples
<1>2. Len(l) \in Nat /\ Len(r) \in Nat /\ l \in Seq([name : Names, type : Types])
      /\ r \in Seq([name : Names, type : Types])
  BY ColumnsTyped DEF Schemas
<1>3. left \o right \in Seq(Value) /\ Len(left \o right) = Len(l) + Len(r)
  BY <1>1
<1>4. Len(l \o r) = Len(l) + Len(r)
  BY <1>2
<1>5. ASSUME WellTypedIn(db), NEW c \in 1..Len(l \o r)
      PROVE  (left \o right)[c].k \in {(l \o r)[c].type, "null"}
  <2>1. Typed(left, l) /\ Typed(right, r)
    BY <1>5 DEF Fits
  <2>2. CASE c <= Len(l)
    <3>1. c \in 1..Len(l) /\ (left \o right)[c] = left[c] /\ (l \o r)[c] = l[c]
      BY <1>1, <1>2, <1>4, <2>2
    <3> QED BY <2>1, <3>1 DEF Typed
  <2>3. CASE c > Len(l)
    <3> DEFINE d == c - Len(l)
    <3>1. d \in 1..Len(r) /\ (left \o right)[c] = right[d] /\ (l \o r)[c] = r[d]
      BY <1>1, <1>2, <1>4, <2>3
    <3> HIDE DEF d
    <3> QED BY <2>1, <3>1 DEF Typed
  <2>4. c \in Int /\ Len(l) \in Int
    BY <1>2, <1>4
  <2>5. c <= Len(l) \/ c > Len(l)
    BY <2>4
  <2> QED BY <2>2, <2>3, <2>5
<1> QED BY <1>3, <1>4, <1>5 DEF Fits, Tuples, Typed

\* The node n of the plan has a schema.
Sane(n) == PlanBuilt /\ n \in 1..Len(plan) /\ ~Failed(columns[n])

LEMMA Below ==
    ASSUME NEW n, Sane(n) PROVE BelowOK(plan, columns, n)
BY Children DEF Sane, PlanBuilt

\* What a Sort makes of its rows.
LEMMA SortFits ==
    ASSUME NEW n, Sane(n), plan[n].op = "sort",
           NEW rows, RowsFit(tables, rows, columns[n - 1]), NEW sorted \in SortedRows(n, rows)
    PROVE  RowsFit(tables, sorted, columns[n - 1])
<1> DEFINE order == plan[n].order_by
           schema == columns[n - 1]
           keys == [i \in DOMAIN rows |-> Keys(n, rows[i])]
           asc == [i \in DOMAIN order |-> order[i].asc]
           by == [keys |-> keys, asc |-> asc]
           sort(p) == [i \in DOMAIN rows |-> rows[p[i]]]
<1>1. schema \in Schemas /\ order \in Seq(Orders)
  BY Below DEF BelowOK, Unary, NodeOK
<1>2. Len(order) \in Nat /\ DOMAIN order = 1..Len(order) /\ \A i \in DOMAIN order : order[i] \in Orders
  <2> HIDE DEF order
  <2> QED BY <1>1, SeqElements
<1>3. /\ rows \in Seq(Tuples) /\ Len(rows) \in Nat /\ DOMAIN rows = 1..Len(rows)
      /\ \A i \in 1..Len(rows) : Fits(tables, rows[i], schema)
  BY DEF RowsFit
<1>4. asc \in Seq(BOOLEAN)
  <2> HIDE DEF order
  <2>1. asc \in [1..Len(order) -> BOOLEAN]
    BY <1>2 DEF Orders
  <2> QED BY <1>2, <2>1
<1>5. ASSUME NEW i \in 1..Len(rows) PROVE Keys(n, rows[i]) \in Seq(Values)
  <2>1. ASSUME NEW j \in DOMAIN order
        PROVE  eval(order[j].e, rows[i], schema) \in Values
    <3>1. order[j].e \in Expr
      BY <1>2 DEF Orders
    <3> HIDE DEF order, schema
    <3> QED BY <1>1, <1>3, <3>1, EvalFits
  <2> DEFINE key(j) == LET v == eval(order[j].e, rows[i], schema) IN IF v = Err THEN Null ELSE v
  <2>2. \A j \in DOMAIN order : key(j) \in Values
    BY <2>1, Scalars DEF Values
  <2>3. Keys(n, rows[i]) = [j \in DOMAIN order |-> key(j)]
    BY DEF Keys
  <2> HIDE DEF order, key
  <2> QED BY <1>2, <2>2, <2>3
<1>6. keys \in Seq(Seq(Values)) /\ Len(keys) = Len(rows)
  <2>1. keys \in [1..Len(rows) -> Seq(Values)]
    BY <1>3, <1>5
  <2> HIDE DEF keys
  <2> QED BY <1>3, <2>1
<1>7. by \in [keys : Seq(Seq(Values)), asc : Seq(BOOLEAN)]
  BY <1>4, <1>6
<1>8. PICK p \in sort_by[by] : sorted = sort(p)
  BY DEF SortedRows
<1>9. p \in [1..Len(rows) -> 1..Len(rows)]
  <2>1. by.keys = keys
    OBVIOUS
  <2> HIDE DEF by, keys
  <2>2. p \in [1..Len(by.keys) -> 1..Len(by.keys)]
    BY <1>7, <1>8, sort_byType
  <2> QED BY <1>6, <2>1, <2>2
<1> HIDE DEF schema
<1>10. \A i \in 1..Len(rows) : p[i] \in 1..Len(rows)
  BY <1>9
<1>11. /\ DOMAIN sorted = 1..Len(rows) /\ sorted = [i \in 1..Len(rows) |-> sorted[i]]
       /\ \A i \in 1..Len(rows) : sorted[i] = rows[p[i]]
  BY <1>3, <1>8
<1>12. \A i \in 1..Len(rows) : sorted[i] \in Tuples /\ Fits(tables, sorted[i], schema)
  BY <1>3, <1>10, <1>11 DEF Fits
<1>13. sorted \in Seq(Tuples) /\ Len(sorted) = Len(rows)
  BY <1>3, <1>11, <1>12
<1> QED BY <1>12, <1>13 DEF RowsFit, schema

\* Of values with no error among them.
LEMMA NoErrors ==
    ASSUME NEW m \in Nat, NEW s, DOMAIN s = 1..m, s = [i \in 1..m |-> s[i]],
           \A i \in 1..m : s[i] \in Values, ~Contains(s, Err)
    PROVE  s \in Tuples /\ Len(s) = m /\ \A i \in 1..m : s[i] # Err /\ s[i] \in Value
<1>1. s \in Seq(Values) /\ Len(s) = m
  OBVIOUS
<1>2. \A i \in 1..m : s[i] # Err
  BY <1>1 DEF Contains
<1>3. \A i \in 1..m : s[i] \in Value
  BY <1>2 DEF Values
<1> QED BY <1>1, <1>2, <1>3 DEF Tuples

\* What a Project makes of a row.
LEMMA ProjectFits ==
    ASSUME NEW n, Sane(n), plan[n].op = "project",
           NEW row, Fits(tables, row, columns[n - 1]), ~Contains(Projected(n, row), Err)
    PROVE  Fits(tables, Projected(n, row), columns[n])
<1> DEFINE items == plan[n].exprs
           child == columns[n - 1]
           value(i) == eval(items[i].e, row, child)
           type(i) == get_expr_type(items[i].e, child)
<1>1. /\ child \in Schemas /\ ~Failed(child) /\ items \in Seq(Items)
      /\ columns[n] = ProjectSchema(plan[n], child) /\ columns[n] \in Schemas
  BY Below DEF BelowOK, Unary, NodeOK
<1>2. columns[n] = [i \in DOMAIN items |-> Column(items[i].as, type(i))]
  BY <1>1 DEF ProjectSchema
<1>3. Projected(n, row) = [i \in DOMAIN items |-> value(i)]
  BY DEF Projected
<1>4. Len(items) \in Nat /\ DOMAIN items = 1..Len(items) /\ \A i \in DOMAIN items : items[i].e \in Expr
  <2> HIDE DEF items
  <2>1. Len(items) \in Nat /\ DOMAIN items = 1..Len(items) /\ \A i \in DOMAIN items : items[i] \in Items
    BY <1>1, SeqElements
  <2> QED BY <2>1 DEF Items
<1>5. \A i \in DOMAIN items : 
          /\ value(i) \in Values
          /\ WellTypedIn(tables) /\ type(i) # "error" => value(i) = Err \/ value(i).k \in {type(i), "null"}
  <2> HIDE DEF items, child
  <2> QED BY <1>1, <1>4, EvalFits DEF child
<1> HIDE DEF items, child, value, type
<1>6. /\ Len(columns[n]) = Len(items) /\ DOMAIN columns[n] = 1..Len(items)
      /\ \A i \in 1..Len(items) : columns[n][i].type = type(i)
  BY <1>2, <1>4 DEF Column
<1>7. \A i \in 1..Len(items) : type(i) # "error"
  BY <1>6 DEF Sane, Failed
<1>8. /\ DOMAIN Projected(n, row) = 1..Len(items)
      /\ Projected(n, row) = [i \in 1..Len(items) |-> Projected(n, row)[i]]
      /\ \A i \in 1..Len(items) : Projected(n, row)[i] = value(i)
  BY <1>3, <1>4
<1>9. /\ Projected(n, row) \in Tuples /\ Len(Projected(n, row)) = Len(items)
      /\ \A i \in 1..Len(items) : Projected(n, row)[i] # Err
  <2>1. \A i \in 1..Len(items) : Projected(n, row)[i] \in Values
    BY <1>4, <1>5, <1>8
  <2> QED BY <1>4, <1>8, <2>1, NoErrors
<1>10. WellTypedIn(tables) => Typed(Projected(n, row), columns[n])
  BY <1>4, <1>5, <1>6, <1>7, <1>8, <1>9 DEF Typed
<1> QED BY <1>6, <1>9, <1>10 DEF Fits

-----------------------------------------------------------------------------
(***************************************************************************)
(* Aggregate functions.                                                    *)
(***************************************************************************)
LEMMA NewStateOK ==
    \A db, func, type : StateOK(db, func, type, NewState)
BY Scalars DEF StateOK, NewState

\* A sum stays in the kind of its arguments.
LEMMA PlusKind ==
    ASSUME NEW a \in Value, NEW b \in Value
    PROVE  /\ Plus(a, b) \in Value
           /\ a.k = b.k => Plus(a, b).k = a.k
<1>1. CASE Numeric(a) /\ Numeric(b)
  <2>1. Plus(a, b) = Arithmetic("+", a, b)
    BY <1>1 DEF Plus
  <2>2. Arithmetic("+", a, b) # Err
    BY DEF Arithmetic, IntVal, FloatVal, Err
  <2>3. /\ Plus(a, b) \in Value
        /\ Plus(a, b).k = IF a.k = "int" /\ b.k = "int" THEN "int" ELSE "float"
    BY <1>1, <2>1, <2>2, ArithmeticKind
  <2> QED BY <1>1, <2>3 DEF Numeric
<1>2. CASE ~(Numeric(a) /\ Numeric(b))
  BY <1>2 DEF Plus
<1> QED BY <1>1, <1>2

LEMMA UpdateOK ==
    ASSUME NEW db, NEW func \in AggregateNames, NEW type,
           NEW st, StateOK(db, func, type, st), NEW v \in Value,
           WellTypedIn(db) /\ func # "count" => v.k \in {type, "null"}
    PROVE  StateOK(db, func, type, update(func, st, v))
<1>1. CASE v = Null
  BY <1>1 DEF update
<1>2. CASE v # Null
  <2> DEFINE acc == update(func, st, v).acc
  <2>1. st.count \in Nat /\ st.acc \in Value
    BY DEF StateOK
  <2>2. update(func, st, v).count = st.count + 1
    BY <1>2 DEF update
  <2>3. \/ acc = v \/ acc = st.acc
        \/ st.acc # Null /\ func \in {"sum", "avg"} /\ acc = Plus(st.acc, v)
    BY <1>2 DEF update, AggregateNames
  <2> HIDE DEF acc
  <2>4. acc \in Value
    BY <2>1, <2>3, PlusKind
  <2>5. ASSUME WellTypedIn(db), func # "count" PROVE acc.k \in {type, "null"}
    <3>1. st.acc.k \in {type, "null"} /\ v.k \in {type, "null"}
      BY <2>5 DEF StateOK
    <3>2. CASE st.acc # Null /\ acc = Plus(st.acc, v)
      <4>1. st.acc.k \in DataType /\ v.k \in DataType /\ "null" \notin DataType
        BY <1>2, <2>1, <3>2, Scalars DEF DataType
      <4>2. st.acc.k = type /\ v.k = type
        BY <3>1, <4>1
      <4> QED BY <2>1, <3>2, <4>2, PlusKind
    <3> QED BY <2>3, <3>1, <3>2
  <2> QED BY <2>1, <2>2, <2>4, <2>5 DEF StateOK, acc
<1> QED BY <1>1, <1>2

LEMMA FinalizeOK ==
    ASSUME NEW db, NEW func \in AggregateNames, NEW type,
           NEW st, StateOK(db, func, type, st), AggType(func, type) # "error"
    PROVE  /\ finalize(func, st) \in Value
           /\ WellTypedIn(db) => finalize(func, st).k \in {AggType(func, type), "null"}
<1>1. st.count \in Nat /\ st.acc \in Value
  BY DEF StateOK
<1>2. CASE func = "count"
  <2>1. finalize(func, st) = IntVal(st.count) /\ AggType(func, type) = "int"
    BY <1>2 DEF finalize, AggType
  <2> QED BY <1>1, <2>1, Scalars DEF IntVal
<1>3. CASE func = "avg"
  <2>1. AggType(func, type) = "float"
    BY <1>3 DEF AggType
  <2>2. CASE st.count = 0 \/ ~Numeric(st.acc)
    <3>1. finalize(func, st) = Null
      BY <1>3, <2>2 DEF finalize
    <3> QED BY <3>1, Scalars
  <2>3. CASE ~(st.count = 0 \/ ~Numeric(st.acc))
    <3>1. finalize(func, st) = FloatVal(AsFloat(st.acc) \div st.count)
      BY <1>3, <2>3 DEF finalize
    <3>2. AsFloat(st.acc) \in Int
      BY <1>1, <2>3, Scalars
    <3>3. AsFloat(st.acc) \div st.count \in Int
      BY <1>1, <2>3, <3>2
    <3>4. finalize(func, st) \in Value /\ finalize(func, st).k = "float"
      BY <3>1, <3>3, Scalars DEF FloatVal
    <3> QED BY <2>1, <3>4
  <2> QED BY <2>2, <2>3
<1>4. CASE func \notin {"count", "avg"}
  <2>1. finalize(func, st) = st.acc
    BY <1>4 DEF finalize
  <2>2. AggType(func, type) = type
    BY <1>4 DEF AggType, AggregateNames
  <2> QED BY <1>1, <1>4, <2>1, <2>2 DEF StateOK
<1> QED BY <1>2, <1>3, <1>4

\* The columns of an Agg: those of its groups, then those of its functions.
LEMMA AggColumns ==
    ASSUME NEW n, Sane(n), plan[n].op = "agg"
    PROVE  LET group == plan[n].group_by
               funcs == plan[n].agg_funcs
               child == columns[n - 1]
           IN /\ child \in Schemas
              /\ Len(group) \in Nat /\ DOMAIN group = 1..Len(group)
              /\ Len(funcs) \in Nat /\ DOMAIN funcs = 1..Len(funcs)
              /\ Len(columns[n]) = Len(group) + Len(funcs)
              /\ \A i \in 1..Len(group) :
                    /\ group[i] \in Expr /\ get_expr_type(group[i], child) # "error"
                    /\ columns[n][i].type = get_expr_type(group[i], child)
              /\ \A i \in 1..Len(funcs) :
                    /\ funcs[i].name \in AggregateNames /\ funcs[i].arg \in Expr
                    /\ columns[n][Len(group) + i].type =
                          AggType(funcs[i].name, get_expr_type(funcs[i].arg, child))
                    /\ AggType(funcs[i].name, get_expr_type(funcs[i].arg, child)) # "error"
<1> DEFINE group == plan[n].group_by
           funcs == plan[n].agg_funcs
           child == columns[n - 1]
           S == [name : Names, type : Types]
           G == [i \in DOMAIN group |-> Column(NameOf(group[i]), get_expr_type(group[i], child))]
           A == [i \in DOMAIN funcs |-> Column(funcs[i], get_expr_type(funcs[i], child))]
<1>1. /\ child \in Schemas /\ ~Failed(child)
      /\ group \in Seq(Expr) /\ funcs \in Seq(Calls)
      /\ columns[n] = AggSchema(plan[n], child)
  BY Below DEF BelowOK, Unary, NodeOK
<1>2. columns[n] = G \o A
  BY <1>1 DEF AggSchema
<1>3. /\ Len(group) \in Nat /\ DOMAIN group = 1..Len(group)
      /\ \A i \in DOMAIN group : group[i] \in Expr
  <2> HIDE DEF group
  <2> QED BY <1>1, SeqElements
<1>4. /\ Len(funcs) \in Nat /\ DOMAIN funcs = 1..Len(funcs)
      /\ \A i \in DOMAIN funcs : funcs[i] \in Calls
  <2> HIDE DEF funcs
  <2> QED BY <1>1, SeqElements
<1> HIDE DEF group, funcs, child
<1>5. /\ Len(child) \in Nat /\ \A i \in 1..Len(child) : child[i].type \in Types
  BY <1>1, ColumnsTyped
<1>6. \A e \in Expr : get_expr_type(e, child) \in Types
  BY <1>5, TypeUnfolds
<1>7. ASSUME NEW i \in 1..Len(funcs)
      PROVE  /\ funcs[i] \in Expr /\ funcs[i].arg \in Expr
             /\ get_expr_type(funcs[i], child) =
                   AggType(funcs[i].name, get_expr_type(funcs[i].arg, child))
  <2>1. funcs[i] \in Expr /\ funcs[i].k = "func"
    BY <1>4 DEF Calls
  <2>2. get_expr_type(funcs[i], child) =
            AggType(funcs[i].name, get_expr_type(funcs[i].arg, child))
    BY <1>5, <2>1, TypeUnfolds
  <2> QED BY <2>1, <2>2, ExprAssumption
<1>8. G \in Seq(S) /\ Len(G) = Len(group)
  <2>1. \A i \in 1..Len(group) : G[i] \in S
    BY <1>3, <1>6, ColumnsTyped
  <2>2. G = [i \in 1..Len(group) |-> G[i]]
    BY <1>3
  <2> HIDE DEF G, S
  <2> QED BY <1>3, <2>1, <2>2
<1>9. A \in Seq(S) /\ Len(A) = Len(funcs)
  <2>1. \A i \in 1..Len(funcs) : A[i] \in S
    BY <1>4, <1>6, <1>7, ColumnsTyped
  <2>2. A = [i \in 1..Len(funcs) |-> A[i]]
    BY <1>4
  <2> HIDE DEF A, S
  <2> QED BY <1>4, <2>1, <2>2
<1>10. /\ \A i \in 1..Len(group) : G[i].type = get_expr_type(group[i], child)
       /\ \A i \in 1..Len(funcs) : A[i].type = get_expr_type(funcs[i], child)
  BY <1>3, <1>4 DEF Column
<1> HIDE DEF G, A, S
<1>11. /\ Len(columns[n]) = Len(group) + Len(funcs)
       /\ DOMAIN columns[n] = 1..Len(group) + Len(funcs)
       /\ \A i \in 1..Len(group) : columns[n][i] = G[i]
       /\ \A i \in 1..Len(funcs) : columns[n][Len(group) + i] = A[i]
  <2>1. /\ Len(G \o A) = Len(G) + Len(A) /\ DOMAIN (G \o A) = 1..Len(G) + Len(A)
        /\ \A i \in 1..Len(G) : (G \o A)[i] = G[i]
        /\ \A i \in 1..Len(A) : (G \o A)[Len(G) + i] = A[i]
    BY <1>8, <1>9
  <2> QED BY <1>2, <1>8, <1>9, <2>1
<1>12. /\ \A i \in 1..Len(group) : i \in DOMAIN columns[n]
       /\ \A i \in 1..Len(funcs) : Len(group) + i \in DOMAIN columns[n]
  BY <1>3, <1>4, <1>11
<1>13. /\ \A i \in 1..Len(group) : get_expr_type(group[i], child) # "error"
       /\ \A i \in 1..Len(funcs) : get_expr_type(funcs[i], child) # "error"
  BY <1>10, <1>11, <1>12 DEF Sane, Failed
<1>14. \A f, t : AggType(f, t) # "error" => f \in AggregateNames
  BY DEF AggType, AggregateNames
<1> HIDE DEF Sane
<1> QED BY <1>1, <1>3, <1>4, <1>7, <1>10, <1>11, <1>13, <1>14 DEF group, funcs, child

\* A line of values for the groups and functions of n.
LineOK(n, line) ==
    LET node == plan[n]
        child == columns[n - 1]
    IN /\ line.group \in Tuples /\ Len(line.group) = Len(node.group_by)
       /\ WellTypedIn(tables) => \A i \in 1..Len(node.group_by) :
             line.group[i].k \in {get_expr_type(node.group_by[i], child), "null"}
       /\ \A i \in 1..Len(node.agg_funcs) :
             /\ line.args[i] \in Value
             /\ WellTypedIn(tables) /\ node.agg_funcs[i].name # "count" =>
                   line.args[i].k \in {get_expr_type(node.agg_funcs[i].arg, child), "null"}

LEMMA AggLineOK ==
    ASSUME NEW n, Sane(n), plan[n].op = "agg", NEW row, Fits(tables, row, columns[n - 1]),
           ~Contains(AggLine(n, row).group, Err), ~Contains(AggLine(n, row).args, Err)
    PROVE  LineOK(n, AggLine(n, row))
<1> DEFINE group == plan[n].group_by
           funcs == plan[n].agg_funcs
           child == columns[n - 1]
           vals == AggLine(n, row).group
           args == AggLine(n, row).args
           value(e) == eval(e, row, child)
           arg(i) == IF funcs[i].arg = Star THEN IntVal(1) ELSE value(funcs[i].arg)
           type(e) == get_expr_type(e, child)
<1>1. /\ child \in Schemas
      /\ Len(group) \in Nat /\ DOMAIN group = 1..Len(group)
      /\ Len(funcs) \in Nat /\ DOMAIN funcs = 1..Len(funcs)
      /\ \A i \in 1..Len(group) : group[i] \in Expr /\ type(group[i]) # "error"
      /\ \A i \in 1..Len(funcs) :
            /\ funcs[i].name \in AggregateNames /\ funcs[i].arg \in Expr
            /\ AggType(funcs[i].name, type(funcs[i].arg)) # "error"
  BY AggColumns
<1>2. /\ vals = [i \in DOMAIN group |-> value(group[i])]
      /\ args = [i \in DOMAIN funcs |-> arg(i)]
  BY DEF AggLine
<1> HIDE DEF group, funcs, child, vals, args
<1>3. \A e \in Expr :
          /\ value(e) \in Values
          /\ WellTypedIn(tables) /\ type(e) # "error" => value(e) = Err \/ value(e).k \in {type(e), "null"}
  BY <1>1, EvalFits DEF child
<1>4. /\ vals \in Tuples /\ Len(vals) = Len(group)
      /\ \A i \in 1..Len(group) : vals[i] = value(group[i]) /\ vals[i] # Err
  <2>1. DOMAIN vals = 1..Len(group) /\ vals = [i \in 1..Len(group) |-> vals[i]]
    BY <1>1, <1>2
  <2>2. \A i \in 1..Len(group) : vals[i] = value(group[i]) /\ vals[i] \in Values
    BY <1>1, <1>2, <1>3
  <2>3. ~Contains(vals, Err)
    BY DEF vals
  <2> HIDE DEF value
  <2> QED BY <1>1, <2>1, <2>2, <2>3, NoErrors
<1>5. \A i \in 1..Len(funcs) : arg(i) \in Values
  BY <1>1, <1>3, Scalars DEF Values
<1>6. \A i \in 1..Len(funcs) : args[i] = arg(i) /\ args[i] \in Value
  <2>1. DOMAIN args = 1..Len(funcs) /\ args = [i \in 1..Len(funcs) |-> args[i]]
    BY <1>1, <1>2
  <2>2. \A i \in 1..Len(funcs) : args[i] = arg(i) /\ args[i] \in Values
    BY <1>1, <1>2, <1>5
  <2>3. ~Contains(args, Err)
    BY DEF args
  <2> HIDE DEF arg
  <2> QED BY <1>1, <2>1, <2>2, <2>3, NoErrors
<1>7. type(Star) = "error"
  <2>1. Len(child) \in Nat /\ \A i \in 1..Len(child) : child[i].type \in Types
    BY <1>1, ColumnsTyped
  <2>2. Star \in Expr /\ Star.k = "star"
    BY ExprAssumption DEF Star
  <2> QED BY <2>1, <2>2, TypeUnfolds
<1>8. ASSUME WellTypedIn(tables), NEW i \in 1..Len(funcs), funcs[i].name # "count"
      PROVE  args[i].k \in {type(funcs[i].arg), "null"}
  <2>1. type(funcs[i].arg) # "error"
    BY <1>1, <1>8 DEF AggType, AggregateNames
  <2>2. funcs[i].arg # Star
    BY <1>7, <2>1
  <2>3. args[i] = value(funcs[i].arg) /\ args[i] # Err
    BY <1>6, <2>2, Scalars
  <2> QED BY <1>1, <1>3, <1>8, <2>1, <2>3
<1>9. WellTypedIn(tables) => \A i \in 1..Len(group) : vals[i].k \in {type(group[i]), "null"}
  BY <1>1, <1>3, <1>4
<1> QED BY <1>4, <1>6, <1>8, <1>9 DEF LineOK, group, funcs, child, vals, args

LEMMA UpdatedOK ==
    ASSUME NEW n, Sane(n), plan[n].op = "agg",
           NEW groups, GroupsOK(tables, plan[n], columns[n - 1], groups),
           NEW line, LineOK(n, line)
    PROVE  GroupsOK(tables, plan[n], columns[n - 1], Updated(n, groups, line))
<1> DEFINE key == make_group_key(line.group)
           funcs == plan[n].agg_funcs
           child == columns[n - 1]
           states == IF key \in DOMAIN groups THEN groups[key].states
                     ELSE [i \in DOMAIN funcs |-> NewState]
           updated == [i \in DOMAIN funcs |-> update(funcs[i].name, states[i], line.args[i])]
           g == [group |-> line.group, states |-> updated]
           more == [k \in DOMAIN groups \cup {key} |-> IF k = key THEN g ELSE groups[k]]
           ok(i, st) == StateOK(tables, funcs[i].name, get_expr_type(funcs[i].arg, child), st)
<1>1. Updated(n, groups, line) = more
  BY DEF Updated
<1>2. /\ Len(funcs) \in Nat /\ DOMAIN funcs = 1..Len(funcs)
      /\ \A i \in 1..Len(funcs) : funcs[i].name \in AggregateNames
  BY AggColumns
<1> HIDE DEF key, funcs
<1>3. \A i \in 1..Len(funcs) : ok(i, states[i])
  <2>1. CASE key \in DOMAIN groups
    BY <2>1 DEF GroupsOK, GroupOK, funcs
  <2>2. CASE key \notin DOMAIN groups
    BY <1>2, <2>2, NewStateOK
  <2> QED BY <2>1, <2>2
<1> HIDE DEF states
<1>4. ASSUME NEW i \in 1..Len(funcs) PROVE ok(i, updated[i])
  <2>1. /\ line.args[i] \in Value
        /\ WellTypedIn(tables) /\ funcs[i].name # "count" =>
              line.args[i].k \in {get_expr_type(funcs[i].arg, child), "null"}
    BY DEF LineOK, funcs
  <2>2. updated[i] = update(funcs[i].name, states[i], line.args[i])
    BY <1>2
  <2> QED BY <1>2, <1>3, <2>1, <2>2, UpdateOK
<1> HIDE DEF updated
<1>5. GroupOK(tables, plan[n], child, g)
  <2>1. g.group = line.group /\ g.states = updated
    OBVIOUS
  <2> HIDE DEF g
  <2> QED BY <1>4, <2>1 DEF GroupOK, LineOK, funcs
<1>6. IsFiniteSet(DOMAIN groups \cup {key})
  BY FS_AddElement DEF GroupsOK
<1> HIDE DEF g, child
<1>7. DOMAIN more = DOMAIN groups \cup {key}
  OBVIOUS
<1>8. \A k \in DOMAIN more : GroupOK(tables, plan[n], child, more[k])
  BY <1>5 DEF GroupsOK, child
<1> HIDE DEF more
<1> QED BY <1>1, <1>6, <1>7, <1>8 DEF GroupsOK, child

LEMMA GroupRowFits ==
    ASSUME NEW n, Sane(n), plan[n].op = "agg",
           NEW g, GroupOK(tables, plan[n], columns[n - 1], g)
    PROVE  Fits(tables, GroupRow(n, g.group, g.states), columns[n])
<1> DEFINE group == plan[n].group_by
           funcs == plan[n].agg_funcs
           child == columns[n - 1]
           results == [i \in DOMAIN funcs |-> finalize(funcs[i].name, g.states[i])]
           row == GroupRow(n, g.group, g.states)
           argtype(i) == get_expr_type(funcs[i].arg, child)
<1>1. /\ Len(group) \in Nat
      /\ Len(funcs) \in Nat /\ DOMAIN funcs = 1..Len(funcs)
      /\ Len(columns[n]) = Len(group) + Len(funcs)
      /\ \A i \in 1..Len(group) : columns[n][i].type = get_expr_type(group[i], child)
      /\ \A i \in 1..Len(funcs) :
            /\ funcs[i].name \in AggregateNames
            /\ columns[n][Len(group) + i].type = AggType(funcs[i].name, argtype(i))
            /\ AggType(funcs[i].name, argtype(i)) # "error"
  BY AggColumns
<1>2. row = g.group \o results
  BY DEF GroupRow
<1>3. /\ g.group \in Seq(Value) /\ Len(g.group) = Len(group)
      /\ WellTypedIn(tables) => \A i \in 1..Len(group) :
            g.group[i].k \in {get_expr_type(group[i], child), "null"}
      /\ \A i \in 1..Len(funcs) : StateOK(tables, funcs[i].name, argtype(i), g.states[i])
  BY DEF GroupOK, Tuples
<1> HIDE DEF group, funcs, child, row
<1>4. ASSUME NEW i \in 1..Len(funcs)
      PROVE  /\ results[i] \in Value
             /\ WellTypedIn(tables) => results[i].k \in {AggType(funcs[i].name, argtype(i)), "null"}
  <2>1. results[i] = finalize(funcs[i].name, g.states[i])
    BY <1>1
  <2> QED BY <1>1, <1>3, <2>1, FinalizeOK
<1>5. results \in Seq(Value) /\ Len(results) = Len(funcs)
  <2>1. results = [i \in 1..Len(funcs) |-> results[i]]
    BY <1>1
  <2> HIDE DEF results
  <2> QED BY <1>1, <1>4, <2>1
<1> HIDE DEF results
<1>6. /\ row \in Seq(Value) /\ Len(row) = Len(group) + Len(funcs)
      /\ \A i \in 1..Len(group) : row[i] = g.group[i]
      /\ \A i \in 1..Len(funcs) : row[Len(group) + i] = results[i]
  <2> DEFINE vals == g.group
  <2>1. vals \in Seq(Value)
    BY <1>3
  <2> HIDE DEF vals
  <2>2. /\ vals \o results \in Seq(Value) /\ Len(vals \o results) = Len(vals) + Len(results)
        /\ \A i \in 1..Len(vals) : (vals \o results)[i] = vals[i]
        /\ \A i \in 1..Len(results) : (vals \o results)[Len(vals) + i] = results[i]
    BY <1>5, <2>1
  <2> QED BY <1>2, <1>3, <1>5, <2>2 DEF vals
<1>7. ASSUME WellTypedIn(tables), NEW c \in 1..Len(columns[n])
      PROVE  row[c].k \in {columns[n][c].type, "null"}
  <2>1. CASE c <= Len(group)
    <3>1. c \in 1..Len(group)
      BY <1>1, <2>1
    <3> QED BY <1>1, <1>3, <1>6, <1>7, <3>1
  <2>2. CASE c > Len(group)
    <3> DEFINE i == c - Len(group)
    <3>1. i \in 1..Len(funcs) /\ c = Len(group) + i
      BY <1>1, <2>2
    <3> HIDE DEF i
    <3>2. row[c] = results[i] /\ columns[n][c].type = AggType(funcs[i].name, argtype(i))
      BY <1>1, <1>6, <3>1
    <3> QED BY <1>4, <1>7, <3>1, <3>2
  <2>3. c \in Int /\ Len(group) \in Int
    BY <1>1
  <2>4. c <= Len(group) \/ c > Len(group)
    BY <2>3
  <2> QED BY <2>1, <2>2, <2>4
<1>8. row \in Tuples /\ Len(row) = Len(columns[n])
  BY <1>1, <1>6 DEF Tuples
<1> QED BY <1>7, <1>8 DEF Fits, Typed, row

LEMMA GroupRowsFit ==
    ASSUME NEW n, Sane(n), plan[n].op = "agg",
           NEW groups, GroupsOK(tables, plan[n], columns[n - 1], groups),
           NEW rows \in GroupRows(n, groups)
    PROVE  RowsFit(tables, rows, columns[n])
<1> DEFINE funcs == plan[n].agg_funcs
<1>1. CASE groups = <<>> /\ plan[n].group_by = <<>>
  <2> DEFINE g == [group |-> <<>>, states |-> [i \in DOMAIN funcs |-> NewState]]
  <2>1. Len(funcs) \in Nat /\ DOMAIN funcs = 1..Len(funcs)
    BY AggColumns
  <2>2. \A i \in 1..Len(funcs) : g.states[i] = NewState
    BY <2>1
  <2>3. g.group = <<>> /\ <<>> \in Tuples
    BY DEF Tuples
  <2> HIDE DEF g
  <2>4. GroupOK(tables, plan[n], columns[n - 1], g)
    BY <1>1, <2>2, <2>3, NewStateOK DEF GroupOK
  <2>5. Fits(tables, GroupRow(n, g.group, g.states), columns[n])
    BY <2>4, GroupRowFits
  <2>6. rows = <<GroupRow(n, g.group, g.states)>>
    BY <1>1 DEF GroupRows, g
  <2> QED BY <2>5, <2>6, FewRowsFit
<1>2. CASE ~(groups = <<>> /\ plan[n].group_by = <<>>)
  <2> DEFINE row(g) == GroupRow(n, g.group, g.states)
  <2>1. PICK keys \in SetToSeqs(DOMAIN groups) :
            rows = [i \in DOMAIN keys |-> row(groups[keys[i]])]
    BY <1>2 DEF GroupRows
  <2> DEFINE m == Cardinality(DOMAIN groups)
  <2>2. m \in Nat /\ keys \in [1..m -> DOMAIN groups]
    <3> DEFINE S == DOMAIN groups
    <3>1. IsFiniteSet(S) /\ keys \in SetToSeqs(S)
      BY <2>1 DEF GroupsOK
    <3> HIDE DEF S
    <3>2. Cardinality(S) \in Nat /\ keys \in [1..Cardinality(S) -> S]
      BY <3>1, SetToSeqsType
    <3> QED BY <3>2 DEF S
  <2> HIDE DEF m
  <2>3. \A i \in 1..m : Fits(tables, row(groups[keys[i]]), columns[n])
    <3>1. \A i \in 1..m : GroupOK(tables, plan[n], columns[n - 1], groups[keys[i]])
      BY <2>2 DEF GroupsOK
    <3> QED BY <3>1, GroupRowFits
  <2> HIDE DEF row
  <2>4. /\ DOMAIN rows = 1..m /\ rows = [i \in 1..m |-> rows[i]]
        /\ \A i \in 1..m : rows[i] = row(groups[keys[i]])
    BY <2>1, <2>2
  <2>5. \A i \in 1..m : rows[i] \in Tuples /\ Fits(tables, rows[i], columns[n])
    BY <2>3, <2>4 DEF Fits
  <2>6. rows \in Seq(Tuples) /\ Len(rows) = m
    BY <2>2, <2>4, <2>5
  <2> QED BY <2>5, <2>6 DEF RowsFit
<1> QED BY <1>1, <1>2

-----------------------------------------------------------------------------
(***************************************************************************)
(* Calls.                                                                  *)
(***************************************************************************)
Frames == [node : Nat, at : Places]

\* The innermost call, and the stack below it.
TopOK(p, cols, s) ==
    /\ Head(s) \in Frames /\ Head(s).node \in 1..Len(p) /\ ~Failed(cols[Head(s).node])
    /\ Head(s).node = Expected(p, Tail(s))
    /\ Tail(s) \in Seq(Frames) /\ StackOK(p, cols, Tail(s))

LEMMA TailStack ==
    ASSUME NEW p, Len(p) \in Nat, NEW cols, NEW s, StackOK(p, cols, s), s # <<>>
    PROVE  TopOK(p, cols, s)
<1> DEFINE t == Tail(s)
<1>1. s \in Seq(Frames)
  BY DEF StackOK, Frames
<1>2. /\ Len(s) \in Nat \ {0} /\ Head(s) = s[1] /\ s[1] \in Frames
      /\ t \in Seq(Frames) /\ Len(t) = Len(s) - 1
      /\ \A i \in 1..Len(s) - 1 : t[i] = s[i + 1]
  BY <1>1
<1>3. \A i \in 1..Len(s) :
          /\ s[i].node \in 1..Len(p) /\ ~Failed(cols[s[i].node])
          /\ s[i].node = IF i = Len(s) THEN Len(p) ELSE Awaited(p, s[i + 1])
  BY DEF StackOK
<1>4. 1 \in 1..Len(s)
  BY <1>2
<1> HIDE DEF t
<1>5. s[1].node = Expected(p, t)
  <2>1. CASE Len(s) = 1
    <3>1. t = <<>>
      BY <1>2, <2>1
    <3> QED BY <1>3, <1>4, <2>1, <3>1 DEF Expected
  <2>2. CASE Len(s) # 1
    <3>1. t # <<>> /\ Head(t) = t[1] /\ t[1] = s[1 + 1]
      BY <1>2, <2>2
    <3>2. s[1].node = Awaited(p, s[1 + 1])
      BY <1>3, <1>4, <2>2
    <3> QED BY <3>1, <3>2 DEF Expected
  <2> QED BY <2>1, <2>2
<1>6. ASSUME NEW i \in 1..Len(t)
      PROVE  /\ t[i].node \in 1..Len(p) /\ ~Failed(cols[t[i].node])
             /\ t[i].node = IF i = Len(t) THEN Len(p) ELSE Awaited(p, t[i + 1])
  <2> DEFINE j == i + 1
  <2>1. j \in 1..Len(s) /\ t[i] = s[j] /\ (i = Len(t) <=> j = Len(s))
    BY <1>2
  <2>2. i # Len(t) => t[i + 1] = s[j + 1]
    <3>1. i # Len(t) => i + 1 \in 1..Len(s) - 1
      BY <1>2
    <3> QED BY <1>2, <3>1
  <2> HIDE DEF j
  <2> QED BY <1>3, <2>1, <2>2
<1>7. StackOK(p, cols, t)
  BY <1>2, <1>6 DEF StackOK, Frames
<1> QED BY <1>2, <1>3, <1>4, <1>5, <1>7 DEF TopOK, t

\* A frame on a stack that waits for its node.
LEMMA PushOK ==
    ASSUME NEW p, Len(p) \in Nat, NEW cols, NEW t, StackOK(p, cols, t),
           NEW frame \in Frames, frame.node \in 1..Len(p), ~Failed(cols[frame.node]),
           frame.node = Expected(p, t)
    PROVE  StackOK(p, cols, <<frame>> \o t)
<1> DEFINE s == <<frame>> \o t
<1>1. t \in Seq(Frames) /\ Len(t) \in Nat
  BY DEF StackOK, Frames
<1>2. /\ s \in Seq(Frames) /\ Len(s) = Len(t) + 1 /\ s[1] = frame
      /\ \A i \in 1..Len(t) : s[i + 1] = t[i]
  BY <1>1
<1>3. \A i \in 1..Len(t) :
          /\ t[i].node \in 1..Len(p) /\ ~Failed(cols[t[i].node])
          /\ t[i].node = IF i = Len(t) THEN Len(p) ELSE Awaited(p, t[i + 1])
  BY DEF StackOK
<1> HIDE DEF s
<1>4. frame.node = IF Len(t) = 0 THEN Len(p) ELSE Awaited(p, s[2])
  <2>1. CASE Len(t) = 0
    <3>1. t = <<>>
      BY <1>1, <2>1
    <3> QED BY <2>1, <3>1 DEF Expected
  <2>2. CASE Len(t) # 0
    <3>1. t # <<>> /\ Head(t) = t[1] /\ 1 \in 1..Len(t)
      BY <1>1, <2>2
    <3>2. s[2] = t[1]
      BY <1>2, <3>1
    <3> QED BY <2>2, <3>1, <3>2 DEF Expected
  <2> QED BY <2>1, <2>2
<1>5. ASSUME NEW i \in 1..Len(s)
      PROVE  /\ s[i].node \in 1..Len(p) /\ ~Failed(cols[s[i].node])
             /\ s[i].node = IF i = Len(s) THEN Len(p) ELSE Awaited(p, s[i + 1])
  <2>1. CASE i = 1
    <3>1. (i = Len(s) <=> Len(t) = 0) /\ s[i] = frame /\ s[i + 1] = s[2]
      BY <1>1, <1>2, <2>1
    <3> QED BY <1>4, <3>1
  <2>2. CASE i # 1
    <3> DEFINE j == i - 1
    <3>1. j \in 1..Len(t) /\ s[i] = t[j] /\ (i = Len(s) <=> j = Len(t))
      BY <1>1, <1>2, <2>2
    <3>2. i # Len(s) => s[i + 1] = t[j + 1]
      BY <1>1, <1>2, <2>2
    <3> HIDE DEF j
    <3> QED BY <1>3, <3>1, <3>2
  <2> QED BY <2>1, <2>2
<1> QED BY <1>2, <1>5 DEF StackOK, Frames, s

LEMMA EmptyStackOK ==
    ASSUME NEW p, Len(p) \in Nat, NEW cols PROVE StackOK(p, cols, <<>>)
BY DEF StackOK

\* While the operators run.
Busy ==
    /\ tables \in Databases /\ RowsHaveColumns(tables) /\ PlanBuilt
    /\ ExecOK(tables, plan, columns, exec) /\ Working

\* The operator of the innermost call.
LEMMA AtNode ==
    ASSUME Busy, calls # <<>>
    PROVE  /\ Sane(Node) /\ Len(plan) \in Nat /\ Node \in 1..Len(plan)
           /\ Head(calls) \in Frames
           /\ OperatorOK(tables, plan, columns, Node, exec[Node])
           /\ KeepsOK(tables, plan, columns, Node, exec[Node])
           /\ ret.tag = "row" => Fits(tables, ret.row, columns[Awaited(plan, Head(calls))])
<1>1. Len(plan) \in Nat
  BY PlanNodes DEF Busy, PlanBuilt
<1>2. Node \in 1..Len(plan) /\ ~Failed(columns[Node]) /\ Head(calls) \in Frames
  <2>1. StackOK(plan, columns, calls)
    BY DEF Busy, Working
  <2>2. TopOK(plan, columns, calls)
    BY <1>1, <2>1, TailStack
  <2> QED BY <2>2 DEF TopOK, Node
<1>3. OperatorOK(tables, plan, columns, Node, exec[Node])
  BY <1>2 DEF Busy, ExecOK
<1>4. KeepsOK(tables, plan, columns, Node, exec[Node])
  BY <1>2, <1>3 DEF OperatorOK
<1>5. ret.tag = "row" => Fits(tables, ret.row, columns[Awaited(plan, Head(calls))])
  BY DEF Busy, Working, RetOK, Expected
<1> QED BY <1>1, <1>2, <1>3, <1>4, <1>5 DEF Sane, Busy

LEMMA Called ==
    ASSUME Busy, UNCHANGED statement, calls # <<>>,
           NEW n \in 1..Len(plan), ~Failed(columns[n]),
           NEW what \in Places, NEW place \in Places,
           n = Awaited(plan, Frame(Node, place)), Call(n, what, place)
    PROVE  Working'
<1> DEFINE waiting == <<Frame(Node, place)>> \o Tail(calls)
<1>1. Len(plan) \in Nat /\ Len(plan) > 0
  BY AtNode DEF Busy, PlanBuilt
<1>2. /\ Node \in 1..Len(plan) /\ ~Failed(columns[Node]) /\ Node = Expected(plan, Tail(calls))
      /\ StackOK(plan, columns, Tail(calls)) /\ Tail(calls) \in Seq(Frames)
  <2>1. StackOK(plan, columns, calls)
    BY DEF Busy, Working
  <2>2. TopOK(plan, columns, calls)
    BY <1>1, <2>1, TailStack
  <2> QED BY <2>2 DEF TopOK, Node
<1>3. Frame(Node, place) \in Frames /\ Frame(n, what) \in Frames
  BY <1>1, <1>2 DEF Frame, Frames
<1>4. StackOK(plan, columns, waiting)
  <2>1. Frame(Node, place).node = Node
    BY DEF Frame
  <2> QED BY <1>1, <1>2, <1>3, <2>1, PushOK
<1>5. waiting # <<>> /\ Head(waiting) = Frame(Node, place)
  BY <1>2, <1>3
<1>6. StackOK(plan, columns, <<Frame(n, what)>> \o waiting)
  <2>1. Frame(n, what).node = n /\ n = Expected(plan, waiting)
    BY <1>5 DEF Frame, Expected
  <2> HIDE DEF waiting
  <2> QED BY <1>1, <1>3, <1>4, <2>1, PushOK
<1>7. calls' = <<Frame(n, what)>> \o waiting
  BY <1>2, <1>3 DEF Call
<1>8. calls' # <<>>
  BY <1>2, <1>3 DEF Call
<1>9. ret' = Pending /\ Pending.tag = "pending" /\ Pending \in [tag : Tags, row : Tuples]
  BY DEF Call, Pending, Result, Tags, Tuples
<1> HIDE DEF waiting
<1>10. StackOK(plan', columns', calls')
  BY <1>6, <1>7 DEF statement
<1> QED BY <1>8, <1>9, <1>10 DEF Working, RetOK

LEMMA Repeated ==
    ASSUME Busy, UNCHANGED statement, calls # <<>>, Again
    PROVE  Working'
<1> DEFINE stack == <<Frame(Node, "next")>> \o Tail(calls)
<1>1. Len(plan) \in Nat /\ Len(plan) > 0
  BY AtNode DEF Busy, PlanBuilt
<1>2. /\ Node \in 1..Len(plan) /\ ~Failed(columns[Node]) /\ Node = Expected(plan, Tail(calls))
      /\ StackOK(plan, columns, Tail(calls)) /\ Tail(calls) \in Seq(Frames)
  <2>1. StackOK(plan, columns, calls)
    BY DEF Busy, Working
  <2>2. TopOK(plan, columns, calls)
    BY <1>1, <2>1, TailStack
  <2> QED BY <2>2 DEF TopOK, Node
<1>3. Frame(Node, "next") \in Frames /\ Frame(Node, "next").node = Node
  BY <1>1, <1>2 DEF Frame, Frames, Places
<1>4. StackOK(plan, columns, stack)
  BY <1>1, <1>2, <1>3, PushOK
<1>5. calls' = stack /\ calls' # <<>>
  BY <1>2, <1>3 DEF Again
<1>6. ret' = Pending /\ Pending.tag = "pending" /\ Pending \in [tag : Tags, row : Tuples]
  BY DEF Again, Pending, Result, Tags, Tuples
<1> HIDE DEF stack
<1>7. StackOK(plan', columns', calls')
  BY <1>4, <1>5 DEF statement
<1> QED BY <1>5, <1>6, <1>7 DEF Working, RetOK

LEMMA HasReturned ==
    ASSUME Busy, UNCHANGED statement, calls # <<>>,
           NEW tag \in Tags \ {"pending"}, NEW row \in Tuples,
           tag = "row" => Fits(tables, row, columns[Node]), Return(tag, row)
    PROVE  Working'
<1>1. Len(plan) \in Nat
  BY AtNode
<1>2. StackOK(plan, columns, Tail(calls)) /\ Node = Expected(plan, Tail(calls))
  <2>1. StackOK(plan, columns, calls)
    BY DEF Busy, Working
  <2>2. TopOK(plan, columns, calls)
    BY <1>1, <2>1, TailStack
  <2> QED BY <2>2 DEF TopOK, Node
<1>3. StackOK(plan', columns', calls')
  BY <1>2 DEF Return, statement
<1>4. ret' \in [tag : Tags, row : Tuples] /\ ret'.tag = tag /\ ret'.row = row
  BY DEF Return, Result
<1>5. tag = "row" => Fits(tables', row, columns'[Expected(plan', calls')])
  BY <1>2 DEF Return, statement
<1> QED BY <1>3, <1>4, <1>5 DEF Working, RetOK

\* The states of the operators.
ExecKept == ExecOK(tables, plan, columns, exec)

LEMMA NothingMoved ==
    ASSUME Busy, UNCHANGED statement, UNCHANGED exec PROVE ExecKept'
BY DEF Busy, ExecKept, statement

LEMMA OperatorChanged ==
    ASSUME Busy, UNCHANGED statement, NEW n \in 1..Len(plan), NEW e,
           OperatorOK(tables, plan, columns, n, e), exec' = [exec EXCEPT ![n] = e]
    PROVE  ExecKept'
<1>1. DOMAIN exec = 1..Len(plan) /\ \A m \in 1..Len(plan) : OperatorOK(tables, plan, columns, m, exec[m])
  BY DEF Busy, ExecOK
<1>2. DOMAIN exec' = 1..Len(plan) /\ exec'[n] = e /\ \A m \in 1..Len(plan) : m # n => exec'[m] = exec[m]
  BY <1>1
<1>3. \A m \in 1..Len(plan) : OperatorOK(tables, plan, columns, m, exec'[m])
  BY <1>1, <1>2
<1>4. ExecOK(tables, plan, columns, exec')
  BY <1>2, <1>3 DEF ExecOK
<1> QED BY <1>4 DEF ExecKept, statement

LEMMA CursorMoved ==
    ASSUME Busy, UNCHANGED statement, NEW n \in 1..Len(plan), NEW c \in Nat,
           exec' = Moved(n, c)
    PROVE  ExecKept'
<1> DEFINE e == [exec[n] EXCEPT !.cursor = c]
<1>1. OperatorOK(tables, plan, columns, n, exec[n])
  BY DEF Busy, ExecOK
<1>2. /\ DOMAIN e = {"cursor", "buffer", "outer", "groups"} /\ e.cursor = c
      /\ e.buffer = exec[n].buffer /\ e.outer = exec[n].outer /\ e.groups = exec[n].groups
  BY <1>1 DEF OperatorOK
<1>3. exec' = [exec EXCEPT ![n] = e]
  BY DEF Moved
<1> HIDE DEF e
<1>4. OperatorOK(tables, plan, columns, n, e)
  BY <1>1, <1>2 DEF OperatorOK, KeepsOK
<1> QED BY <1>3, <1>4, OperatorChanged

-----------------------------------------------------------------------------
(***************************************************************************)
(* The steps of the operators.                                             *)
(***************************************************************************)
\* A row that a child has returned.
LEMMA RowFrom ==
    ASSUME Busy, calls # <<>>, ret.tag = "row"
    PROVE  /\ ret.row \in Tuples
           /\ plan[Node].op \in Unary => Fits(tables, ret.row, columns[Node - 1])
           /\ plan[Node].op = "join" /\ Head(calls).at = "reading" =>
                 Fits(tables, ret.row, columns[Node - 1])
           /\ plan[Node].op = "join" /\ Head(calls).at \in {"first", "pulling"} =>
                 Fits(tables, ret.row, columns[Node - 2])
<1>1. Fits(tables, ret.row, columns[Awaited(plan, Head(calls))])
  BY AtNode
<1>2. /\ plan[Node].op \in Unary => Awaited(plan, Head(calls)) = Node - 1
      /\ plan[Node].op = "join" /\ Head(calls).at = "reading" => Awaited(plan, Head(calls)) = Node - 1
      /\ plan[Node].op = "join" /\ Head(calls).at \in {"first", "pulling"} =>
            Awaited(plan, Head(calls)) = Node - 2
  BY DEF Awaited, Node, Unary
<1> QED BY <1>1, <1>2 DEF Fits

\* A call of the child that the place waits for.
LEMMA CallChild ==
    ASSUME Busy, UNCHANGED statement, calls # <<>>,
           NEW n, NEW what \in Places, NEW place \in Places, Call(n, what, place),
           \/ plan[Node].op \in Unary /\ n = Node - 1
           \/ plan[Node].op = "join" /\ place \in {"right", "reading"} /\ n = Node - 1
           \/ plan[Node].op = "join" /\ place \in {"child", "first", "pulling"} /\ n = Node - 2
    PROVE  Working'
<1>1. Sane(Node)
  BY AtNode
<1>2. n \in 1..Len(plan) /\ ~Failed(columns[n])
  BY <1>1, Below DEF BelowOK
<1>3. n = Awaited(plan, Frame(Node, place))
  BY DEF Awaited, Frame, Unary
<1> QED BY <1>2, <1>3, Called

LEMMA ReturnsNoRow ==
    ASSUME Busy, UNCHANGED statement, calls # <<>>,
           NEW tag \in {"ok", "none", "error"}, Return(tag, <<>>)
    PROVE  Working'
<1>1. <<>> \in Tuples /\ tag \in Tags \ {"pending"} /\ tag # "row"
  BY DEF Tuples, Tags
<1> QED BY <1>1, HasReturned

LEMMA ReturnsRow ==
    ASSUME Busy, UNCHANGED statement, calls # <<>>,
           NEW row, Fits(tables, row, columns[Node]), Return("row", row)
    PROVE  Working'
<1>1. row \in Tuples /\ "row" \in Tags \ {"pending"}
  BY DEF Fits, Tags
<1> QED BY <1>1, HasReturned

Kept == Working /\ ExecKept

LEMMA LeavesKeep ==
    ASSUME Busy, UNCHANGED statement, LeafInit \/ DummyScanNext \/ SeqScanNext
    PROVE  Kept'
<1>1. CASE LeafInit
  <2>1. calls # <<>> /\ exec' = Moved(Node, 0) /\ Return("ok", <<>>)
    BY <1>1 DEF LeafInit, At
  <2>2. Node \in 1..Len(plan)
    BY <2>1, AtNode
  <2> QED BY <2>1, <2>2, CursorMoved, ReturnsNoRow DEF Kept
<1>2. CASE DummyScanNext
  <2>1. calls # <<>> /\ plan[Node].op = "dummy"
    BY <1>2 DEF DummyScanNext, At
  <2>2. Node \in 1..Len(plan) /\ Sane(Node)
    BY <2>1, AtNode
  <2>3. CASE exec' = Moved(Node, 1) /\ Return("row", <<>>)
    <3>1. Fits(tables, <<>>, columns[Node])
      BY <2>1, <2>2, Below, DummyFits DEF BelowOK
    <3> QED BY <2>1, <2>2, <2>3, <3>1, CursorMoved, ReturnsRow DEF Kept
  <2>4. CASE Return("none", <<>>) /\ UNCHANGED exec
    BY <2>1, <2>4, NothingMoved, ReturnsNoRow DEF Kept
  <2> QED BY <1>2, <2>3, <2>4 DEF DummyScanNext
<1>3. CASE SeqScanNext
  <2> DEFINE t == plan[Node].table
             rows == tables[t]
             i == SelectInSubSeq(rows, exec[Node].cursor + 1, Len(rows), LAMBDA row : row.visible)
  <2>1. calls # <<>> /\ plan[Node].op = "scan"
    BY <1>3 DEF SeqScanNext, At
  <2>2. Node \in 1..Len(plan) /\ Sane(Node) /\ exec[Node].cursor \in Nat
    BY <2>1, AtNode DEF OperatorOK
  <2>3. CASE t \notin DOMAIN tables
    <3>1. Return("error", <<>>) /\ UNCHANGED exec
      BY <1>3, <2>3 DEF SeqScanNext
    <3> QED BY <2>1, <3>1, NothingMoved, ReturnsNoRow DEF Kept
  <2>4. CASE t \in DOMAIN tables
    <3>1. Len(rows) \in Nat
      <4>1. rows \in Seq([values : Seq(Value), visible : BOOLEAN])
        BY <2>4, TablesAssumption DEF Busy
      <4> HIDE DEF rows
      <4> QED BY <4>1, SeqElements
    <3>2. i = 0 \/ i \in 1..Len(rows)
      <4> DEFINE I == {j \in (exec[Node].cursor + 1)..Len(rows) : rows[j].visible}
      <4>1. i = IF I # {} THEN Min(I) ELSE 0
        BY DEF SelectInSubSeq
      <4>2. I \in SUBSET Nat /\ I \subseteq 1..Len(rows)
        BY <2>2, <3>1
      <4> HIDE DEF I, i
      <4> QED BY <4>1, <4>2, MinOfNats
    <3>3. IF i = 0 THEN exec' = Moved(Node, Len(rows)) /\ Return("none", <<>>)
                   ELSE exec' = Moved(Node, i) /\ Return("row", rows[i].values)
      BY <1>3, <2>4 DEF SeqScanNext
    <3> HIDE DEF i
    <3>4. CASE i = 0
      BY <2>1, <2>2, <3>1, <3>3, <3>4, CursorMoved, ReturnsNoRow DEF Kept
    <3>5. CASE i # 0
      <4>1. i \in 1..Len(rows) /\ i \in Nat
        BY <3>1, <3>2, <3>5
      <4>2. columns[Node] = ScanSchema(plan[Node]) /\ ~Failed(columns[Node])
        BY <2>1, <2>2, Below DEF Sane, BelowOK
      <4>3. Fits(tables, rows[i].values, columns[Node])
        BY <2>4, <4>1, <4>2, ScanFits DEF Busy
      <4> QED BY <2>1, <2>2, <3>3, <3>5, <4>1, <4>3, CursorMoved, ReturnsRow DEF Kept
    <3> QED BY <3>4, <3>5
  <2> QED BY <2>3, <2>4
<1> QED BY <1>1, <1>2, <1>3

LEMMA InitsKeep ==
    ASSUME Busy, UNCHANGED statement, Propagate \/ ChildInit \/ InitDone
    PROVE  Kept'
<1>1. CASE Propagate
  BY <1>1, NothingMoved, ReturnsNoRow DEF Propagate, Kept
<1>2. CASE ChildInit
  <2>1. calls # <<>> /\ UNCHANGED exec
    BY <1>2 DEF ChildInit, Resumed, At
  <2>2. \/ plan[Node].op \in Unary /\ Call(Node - 1, "init", "child")
        \/ plan[Node].op = "join" /\ Call(Node - 2, "init", "child")
        \/ plan[Node].op = "join" /\ Call(Node - 1, "init", "right")
    BY <1>2 DEF ChildInit, Resumed, At, Unary
  <2>3. "init" \in Places /\ "child" \in Places /\ "right" \in Places
    BY DEF Places
  <2> QED BY <2>1, <2>2, <2>3, NothingMoved, CallChild DEF Kept
<1>3. CASE InitDone
  <2>1. calls # <<>> /\ exec' = Moved(Node, 0) /\ Return("ok", <<>>)
    BY <1>3 DEF InitDone, Resumed, At
  <2>2. Node \in 1..Len(plan)
    BY <2>1, AtNode
  <2> QED BY <2>1, <2>2, CursorMoved, ReturnsNoRow DEF Kept
<1> QED BY <1>1, <1>2, <1>3

\* The operator of the innermost call keeps something else.
LEMMA Keeps ==
    ASSUME Busy, UNCHANGED statement, calls # <<>>,
           NEW e, exec' = [exec EXCEPT ![Node] = e],
           DOMAIN e = {"cursor", "buffer", "outer", "groups"}, e.cursor \in Nat,
           e.buffer \in Seq(Tuples), e.outer \in Seq(Tuples),
           KeepsOK(tables, plan, columns, Node, e)
    PROVE  ExecKept'
<1>1. Node \in 1..Len(plan)
  BY AtNode
<1>2. OperatorOK(tables, plan, columns, Node, e)
  BY DEF OperatorOK
<1> QED BY <1>1, <1>2, OperatorChanged

LEMMA Kinds ==
    /\ \A op \in {"sort", "agg", "filter", "project", "limit"} : op \in Unary
    /\ {"init", "next", "child", "right", "reading", "first", "pulling"} \subseteq Places
BY DEF Unary, Places

LEMMA StartReadingKeeps ==
    ASSUME Busy, UNCHANGED statement, StartReading PROVE Kept'
<1> DEFINE e == [Fresh EXCEPT !.outer = exec[Node].outer]
<1>1. /\ calls # <<>> /\ Call(Node - 1, "next", "reading") /\ exec' = [exec EXCEPT ![Node] = e]
      /\ plan[Node].op \in Unary \cup {"join"}
  BY DEF StartReading, Resumed, At, Unary
<1>2. Working'
  <2> HIDE DEF e
  <2> QED BY <1>1, Kinds, CallChild
<1>3. /\ OperatorOK(tables, plan, columns, Node, exec[Node])
      /\ KeepsOK(tables, plan, columns, Node, exec[Node])
  BY <1>1, AtNode
<1>4. /\ DOMAIN e = {"cursor", "buffer", "outer", "groups"} /\ e.cursor = 0
      /\ e.buffer = <<>> /\ e.outer = exec[Node].outer /\ e.groups = <<>>
  BY DEF Fresh
<1> HIDE DEF e
<1>5. e.buffer \in Seq(Tuples) /\ e.outer \in Seq(Tuples) /\ e.cursor \in Nat
  BY <1>3, <1>4 DEF OperatorOK
<1>6. \A db, node, child : GroupsOK(db, node, child, <<>>)
  <2>1. DOMAIN <<>> = {} /\ IsFiniteSet({})
    BY FS_EmptySet
  <2> QED BY <2>1 DEF GroupsOK
<1>7. KeepsOK(tables, plan, columns, Node, e)
  BY <1>3, <1>4, <1>6, FewRowsFit DEF KeepsOK
<1>8. ExecKept'
  BY <1>1, <1>4, <1>5, <1>7, Keeps
<1> QED BY <1>2, <1>8 DEF Kept

LEMMA ReadKeeps ==
    ASSUME Busy, UNCHANGED statement, Read PROVE Kept'
<1> DEFINE rows == Append(exec[Node].buffer, ret.row)
           e == [exec[Node] EXCEPT !.buffer = rows]
<1>1. /\ calls # <<>> /\ Head(calls).at = "reading" /\ ret.tag = "row"
      /\ plan[Node].op \in {"sort", "join"}
      /\ exec' = [exec EXCEPT ![Node] = e] /\ Call(Node - 1, "next", "reading")
  BY DEF Read, Resumed, At
<1>2. Working'
  <2> HIDE DEF e
  <2> QED BY <1>1, Kinds, CallChild
<1>3. /\ OperatorOK(tables, plan, columns, Node, exec[Node])
      /\ KeepsOK(tables, plan, columns, Node, exec[Node])
  BY <1>1, AtNode
<1>4. /\ DOMAIN e = {"cursor", "buffer", "outer", "groups"} /\ e.cursor = exec[Node].cursor
      /\ e.buffer = rows /\ e.outer = exec[Node].outer /\ e.groups = exec[Node].groups
  BY <1>3 DEF OperatorOK
<1> HIDE DEF e
<1>5. Fits(tables, ret.row, columns[Node - 1])
  BY <1>1, Kinds, RowFrom
<1>6. RowsFit(tables, exec[Node].buffer, columns[Node - 1])
  BY <1>1, <1>3 DEF KeepsOK
<1>7. RowsFit(tables, rows, columns[Node - 1])
  BY <1>5, <1>6, AppendFits
<1> HIDE DEF rows
<1>8. e.buffer \in Seq(Tuples) /\ e.outer \in Seq(Tuples) /\ e.cursor \in Nat
  BY <1>3, <1>4, <1>7 DEF OperatorOK, RowsFit
<1>9. KeepsOK(tables, plan, columns, Node, e)
  BY <1>1, <1>3, <1>4, <1>7 DEF KeepsOK
<1>10. ExecKept'
  BY <1>1, <1>4, <1>8, <1>9, Keeps
<1> QED BY <1>2, <1>10 DEF Kept

\* A Join goes on with other left rows.
LEMMA OuterKeeps ==
    ASSUME Busy, UNCHANGED statement, calls # <<>>, plan[Node].op = "join",
           NEW rows, RowsFit(tables, rows, columns[Node - 2]), NEW c \in Nat,
           exec' = [exec EXCEPT ![Node].outer = rows, ![Node].cursor = c]
    PROVE  ExecKept'
<1> DEFINE e == [exec[Node] EXCEPT !.outer = rows, !.cursor = c]
<1>1. /\ OperatorOK(tables, plan, columns, Node, exec[Node])
      /\ KeepsOK(tables, plan, columns, Node, exec[Node])
      /\ Node \in 1..Len(plan) /\ DOMAIN exec = 1..Len(plan)
  BY AtNode DEF Busy, ExecOK
<1>2. /\ DOMAIN e = {"cursor", "buffer", "outer", "groups"} /\ e.cursor = c
      /\ e.buffer = exec[Node].buffer /\ e.outer = rows /\ e.groups = exec[Node].groups
  BY <1>1 DEF OperatorOK
<1>3. exec' = [exec EXCEPT ![Node] = e]
  BY <1>1
<1> HIDE DEF e
<1>4. e.buffer \in Seq(Tuples) /\ e.outer \in Seq(Tuples)
  BY <1>1, <1>2 DEF OperatorOK, RowsFit
<1>5. KeepsOK(tables, plan, columns, Node, e)
  BY <1>1, <1>2 DEF KeepsOK
<1> QED BY <1>2, <1>3, <1>4, <1>5, Keeps

\* The left row a Join has read, if there was one.
LEMMA LeftFits ==
    ASSUME Busy, calls # <<>>, plan[Node].op = "join", Head(calls).at \in {"first", "pulling"}
    PROVE  /\ RowsFit(tables, <<>>, columns[Node - 2])
           /\ ret.tag = "row" => RowsFit(tables, <<ret.row>>, columns[Node - 2])
<1>1. ret.tag = "row" => Fits(tables, ret.row, columns[Node - 2])
  BY RowFrom
<1> QED BY <1>1, FewRowsFit

LEMMA FirstLeftKeeps ==
    ASSUME Busy, UNCHANGED statement, FirstLeft PROVE Kept'
<1>1. calls # <<>> /\ plan[Node].op = "join"
  BY DEF FirstLeft, Resumed, At
<1>2. CASE Call(Node - 2, "next", "first") /\ UNCHANGED exec
  BY <1>1, <1>2, Kinds, CallChild, NothingMoved DEF Kept
<1>3. ASSUME NEW rows, RowsFit(tables, rows, columns[Node - 2]),
             exec' = [exec EXCEPT ![Node].outer = rows], Return("ok", <<>>)
      PROVE  Kept'
  <2>1. exec[Node].cursor \in Nat /\ DOMAIN exec[Node] = {"cursor", "buffer", "outer", "groups"}
        /\ DOMAIN exec = 1..Len(plan) /\ Node \in 1..Len(plan)
    BY <1>1, AtNode DEF OperatorOK, Busy, ExecOK
  <2>2. exec' = [exec EXCEPT ![Node].outer = rows, ![Node].cursor = exec[Node].cursor]
    BY <1>3, <2>1
  <2> QED BY <1>1, <1>3, <2>1, <2>2, OuterKeeps, ReturnsNoRow DEF Kept
<1>4. ASSUME Head(calls).at = "first", Return("ok", <<>>), ret.tag = "row",
             exec' = [exec EXCEPT ![Node].outer = <<ret.row>>]
      PROVE  Kept'
  BY <1>1, <1>3, <1>4, LeftFits
<1>5. ASSUME Head(calls).at = "first", Return("ok", <<>>),
             exec' = [exec EXCEPT ![Node].outer = <<>>]
      PROVE  Kept'
  BY <1>1, <1>3, <1>5, LeftFits
<1> QED BY <1>2, <1>4, <1>5 DEF FirstLeft, Resumed, At

LEMMA NextLeftKeeps ==
    ASSUME Busy, UNCHANGED statement, NextLeft PROVE Kept'
<1> DEFINE rows == IF ret.tag = "row" THEN <<ret.row>> ELSE <<>>
<1>1. /\ calls # <<>> /\ plan[Node].op = "join" /\ Head(calls).at = "pulling" /\ Again
      /\ exec' = [exec EXCEPT ![Node].outer = rows, ![Node].cursor = 0]
  BY DEF NextLeft, At
<1>2. RowsFit(tables, rows, columns[Node - 2])
  BY <1>1, LeftFits
<1> HIDE DEF rows
<1> QED BY <1>1, <1>2, OuterKeeps, Repeated DEF Kept

\* The rows of a Sort or an Agg are ready.
LEMMA BufferKeeps ==
    ASSUME Busy, UNCHANGED statement, calls # <<>>, plan[Node].op \in {"sort", "agg"},
           NEW rows, RowsFit(tables, rows, columns[Node]),
           NEW groups, plan[Node].op = "agg" => GroupsOK(tables, plan[Node], columns[Node - 1], groups),
           exec' = [exec EXCEPT ![Node].buffer = rows, ![Node].groups = groups]
    PROVE  ExecKept'
<1> DEFINE e == [exec[Node] EXCEPT !.buffer = rows, !.groups = groups]
<1>1. /\ OperatorOK(tables, plan, columns, Node, exec[Node])
      /\ KeepsOK(tables, plan, columns, Node, exec[Node])
      /\ Node \in 1..Len(plan) /\ DOMAIN exec = 1..Len(plan) /\ Sane(Node)
  BY AtNode DEF Busy, ExecOK
<1>2. /\ DOMAIN e = {"cursor", "buffer", "outer", "groups"} /\ e.cursor = exec[Node].cursor
      /\ e.buffer = rows /\ e.outer = exec[Node].outer /\ e.groups = groups
  BY <1>1 DEF OperatorOK
<1>3. exec' = [exec EXCEPT ![Node] = e]
  BY <1>1
<1> HIDE DEF e
<1>4. e.buffer \in Seq(Tuples) /\ e.outer \in Seq(Tuples) /\ e.cursor \in Nat
  BY <1>1, <1>2 DEF OperatorOK, RowsFit
<1>5. plan[Node].op = "sort" => columns[Node] = columns[Node - 1]
  BY <1>1, Below DEF BelowOK
<1>6. KeepsOK(tables, plan, columns, Node, e)
  BY <1>1, <1>2, <1>5 DEF KeepsOK
<1> QED BY <1>2, <1>3, <1>4, <1>6, Keeps

LEMMA SortedKeeps ==
    ASSUME Busy, UNCHANGED statement, Sorted PROVE Kept'
<1>1. calls # <<>> /\ plan[Node].op = "sort" /\ Return("ok", <<>>)
  BY DEF Sorted, Resumed, At
<1>2. PICK rows \in SortedRows(Node, exec[Node].buffer) :
          exec' = [exec EXCEPT ![Node].buffer = rows]
  BY DEF Sorted
<1>3. /\ Sane(Node) /\ Node \in 1..Len(plan) /\ DOMAIN exec = 1..Len(plan)
      /\ DOMAIN exec[Node] = {"cursor", "buffer", "outer", "groups"}
      /\ RowsFit(tables, exec[Node].buffer, columns[Node - 1])
  BY <1>1, AtNode DEF Busy, ExecOK, KeepsOK, OperatorOK
<1>4. RowsFit(tables, rows, columns[Node - 1]) /\ columns[Node] = columns[Node - 1]
  BY <1>1, <1>3, SortFits, Below DEF BelowOK
<1>5. exec' = [exec EXCEPT ![Node].buffer = rows, ![Node].groups = exec[Node].groups]
  BY <1>2, <1>3
<1> QED BY <1>1, <1>4, <1>5, BufferKeeps, ReturnsNoRow DEF Kept

LEMMA AggregateKeeps ==
    ASSUME Busy, UNCHANGED statement, Aggregate PROVE Kept'
<1> DEFINE line == AggLine(Node, ret.row)
           groups == Updated(Node, exec[Node].groups, line)
<1>1. calls # <<>> /\ plan[Node].op = "agg" /\ ret.tag = "row"
  BY DEF Aggregate, Resumed, At
<1>2. CASE Contains(line.group, Err) \/ Contains(line.args, Err)
  <2>1. Return("error", <<>>) /\ UNCHANGED exec
    BY <1>2 DEF Aggregate
  <2> QED BY <1>1, <2>1, NothingMoved, ReturnsNoRow DEF Kept
<1>3. CASE ~Contains(line.group, Err) /\ ~Contains(line.args, Err)
  <2>1. exec' = [exec EXCEPT ![Node].groups = groups] /\ Call(Node - 1, "next", "reading")
    BY <1>3 DEF Aggregate
  <2>2. /\ Sane(Node) /\ Node \in 1..Len(plan) /\ DOMAIN exec = 1..Len(plan)
        /\ DOMAIN exec[Node] = {"cursor", "buffer", "outer", "groups"}
        /\ GroupsOK(tables, plan[Node], columns[Node - 1], exec[Node].groups)
        /\ RowsFit(tables, exec[Node].buffer, columns[Node])
    BY <1>1, AtNode DEF Busy, ExecOK, KeepsOK, OperatorOK
  <2>3. Fits(tables, ret.row, columns[Node - 1])
    BY <1>1, Kinds, RowFrom
  <2>4. LineOK(Node, line)
    BY <1>1, <1>3, <2>2, <2>3, AggLineOK
  <2> HIDE DEF line
  <2>5. GroupsOK(tables, plan[Node], columns[Node - 1], groups)
    BY <1>1, <2>2, <2>4, UpdatedOK
  <2> HIDE DEF groups
  <2>6. exec' = [exec EXCEPT ![Node].buffer = exec[Node].buffer, ![Node].groups = groups]
    BY <2>1, <2>2
  <2>7. ExecKept'
    BY <1>1, <2>2, <2>5, <2>6, BufferKeeps
  <2>8. Working'
    BY <1>1, <2>1, Kinds, CallChild
  <2> QED BY <2>7, <2>8 DEF Kept
<1> QED BY <1>2, <1>3

LEMMA AggregatedKeeps ==
    ASSUME Busy, UNCHANGED statement, Aggregated PROVE Kept'
<1>1. calls # <<>> /\ plan[Node].op = "agg" /\ Return("ok", <<>>)
  BY DEF Aggregated, Resumed, At
<1>2. PICK rows \in GroupRows(Node, exec[Node].groups) :
          exec' = [exec EXCEPT ![Node].buffer = rows, ![Node].groups = <<>>]
  BY DEF Aggregated
<1>3. Sane(Node) /\ GroupsOK(tables, plan[Node], columns[Node - 1], exec[Node].groups)
  BY <1>1, AtNode DEF KeepsOK
<1>4. RowsFit(tables, rows, columns[Node])
  BY <1>1, <1>3, GroupRowsFit
<1>5. GroupsOK(tables, plan[Node], columns[Node - 1], <<>>)
  <2>1. DOMAIN <<>> = {} /\ IsFiniteSet({})
    BY FS_EmptySet
  <2> QED BY <2>1 DEF GroupsOK
<1> QED BY <1>1, <1>2, <1>4, <1>5, BufferKeeps, ReturnsNoRow DEF Kept

LEMMA BufferNextKeeps ==
    ASSUME Busy, UNCHANGED statement, BufferNext PROVE Kept'
<1> DEFINE rows == exec[Node].buffer
           i == exec[Node].cursor + 1
<1>1. calls # <<>> /\ plan[Node].op \in {"sort", "agg"}
  BY DEF BufferNext, At
<1>2. /\ Sane(Node) /\ Node \in 1..Len(plan)
      /\ KeepsOK(tables, plan, columns, Node, exec[Node])
      /\ exec[Node].cursor \in Nat
  BY <1>1, AtNode DEF OperatorOK
<1>3. RowsFit(tables, rows, columns[Node])
  <2>1. plan[Node].op = "sort" => columns[Node] = columns[Node - 1]
    BY <1>2, Below DEF BelowOK
  <2> QED BY <1>1, <1>2, <2>1 DEF KeepsOK
<1>4. IF i > Len(rows) THEN Return("none", <<>>) /\ UNCHANGED exec
                       ELSE exec' = Moved(Node, i) /\ Return("row", rows[i])
  BY DEF BufferNext
<1>5. i \in Nat /\ i > 0 /\ Len(rows) \in Nat
  BY <1>2, <1>3 DEF RowsFit
<1> HIDE DEF i, rows
<1>6. CASE i > Len(rows)
  BY <1>1, <1>4, <1>6, NothingMoved, ReturnsNoRow DEF Kept
<1>7. CASE ~(i > Len(rows))
  <2>1. i \in 1..Len(rows)
    BY <1>5, <1>7
  <2>2. Fits(tables, rows[i], columns[Node])
    BY <1>3, <2>1 DEF RowsFit
  <2> QED BY <1>1, <1>2, <1>4, <1>5, <1>7, <2>2, CursorMoved, ReturnsRow DEF Kept
<1> QED BY <1>6, <1>7

\* next() of the operators with one child.
LEMMA PullsKeep ==
    ASSUME Busy, UNCHANGED statement, Pull \/ Exhausted \/ LimitNext
    PROVE  Kept'
<1>1. calls # <<>> /\ plan[Node].op \in Unary /\ UNCHANGED exec
  BY DEF Pull, Exhausted, LimitNext, Resumed, At, Unary
<1>2. Return("none", <<>>) \/ Call(Node - 1, "next", "pulling")
  BY DEF Pull, Exhausted, LimitNext
<1> QED BY <1>1, <1>2, Kinds, NothingMoved, CallChild, ReturnsNoRow DEF Kept

\* A Filter, a Sort and a Limit hand on the rows of their child.
LEMMA HandedOn ==
    ASSUME Busy, calls # <<>>, ret.tag = "row", plan[Node].op \in {"filter", "limit"}
    PROVE  Fits(tables, ret.row, columns[Node])
<1>1. Fits(tables, ret.row, columns[Node - 1])
  BY Kinds, RowFrom
<1>2. columns[Node] = columns[Node - 1]
  BY AtNode, Below DEF BelowOK
<1> QED BY <1>1, <1>2

LEMMA PulledKeep ==
    ASSUME Busy, UNCHANGED statement, FilterPulled \/ ProjectPulled \/ LimitPulled
    PROVE  Kept'
<1>1. CASE FilterPulled
  <2>1. calls # <<>> /\ ret.tag = "row" /\ plan[Node].op = "filter" /\ UNCHANGED exec
    BY <1>1 DEF FilterPulled, Resumed, At
  <2>2. Return("error", <<>>) \/ Return("row", ret.row) \/ Again
    <3> DEFINE v == eval(plan[Node].predicate, ret.row, columns[Node - 1])
    <3>1. (CASE v = Err -> Return("error", <<>>)
            [] v # Err /\ is_truthy(v) -> Return("row", ret.row)
            [] OTHER -> Again)
      BY <1>1 DEF FilterPulled
    <3> HIDE DEF v
    <3>2. CASE v = Err
      BY <3>1, <3>2
    <3>3. CASE v # Err /\ is_truthy(v)
      BY <3>1, <3>3
    <3>4. CASE v # Err /\ ~is_truthy(v)
      BY <3>1, <3>4
    <3> QED BY <3>2, <3>3, <3>4
  <2>3. Fits(tables, ret.row, columns[Node])
    BY <2>1, HandedOn
  <2> QED BY <2>1, <2>2, <2>3, NothingMoved, ReturnsNoRow, ReturnsRow, Repeated DEF Kept
<1>2. CASE ProjectPulled
  <2> DEFINE values == Projected(Node, ret.row)
  <2>1. calls # <<>> /\ ret.tag = "row" /\ plan[Node].op = "project" /\ UNCHANGED exec
    BY <1>2 DEF ProjectPulled, Resumed, At
  <2>2. IF Contains(values, Err) THEN Return("error", <<>>) ELSE Return("row", values)
    BY <1>2 DEF ProjectPulled
  <2>3. Sane(Node) /\ Fits(tables, ret.row, columns[Node - 1])
    BY <2>1, Kinds, AtNode, RowFrom
  <2>4. ~Contains(values, Err) => Fits(tables, values, columns[Node])
    BY <2>1, <2>3, ProjectFits
  <2> HIDE DEF values
  <2> QED BY <2>1, <2>2, <2>4, NothingMoved, ReturnsNoRow, ReturnsRow DEF Kept
<1>3. CASE LimitPulled
  <2>1. /\ calls # <<>> /\ ret.tag = "row" /\ plan[Node].op = "limit"
        /\ exec' = Moved(Node, exec[Node].cursor + 1)
    BY <1>3 DEF LimitPulled, Resumed, At
  <2>2. Again \/ Return("row", ret.row)
    BY <1>3 DEF LimitPulled
  <2>3. Fits(tables, ret.row, columns[Node])
    BY <2>1, HandedOn
  <2>4. Node \in 1..Len(plan) /\ exec[Node].cursor + 1 \in Nat
    BY <2>1, AtNode DEF OperatorOK
  <2> QED BY <2>1, <2>2, <2>3, <2>4, CursorMoved, ReturnsRow, Repeated DEF Kept
<1> QED BY <1>1, <1>2, <1>3

LEMMA JoinNextKeeps ==
    ASSUME Busy, UNCHANGED statement, JoinNext PROVE Kept'
<1> DEFINE s == exec[Node]
           combined == s.outer[1] \o s.buffer[s.cursor + 1]
           v == IF plan[Node].condition = Absent THEN BoolVal(TRUE)
                ELSE eval(plan[Node].condition, combined, columns[Node])
<1>1. calls # <<>> /\ plan[Node].op = "join"
  BY DEF JoinNext, At
<1>2. /\ Sane(Node) /\ Node \in 1..Len(plan)
      /\ OperatorOK(tables, plan, columns, Node, s) /\ KeepsOK(tables, plan, columns, Node, s)
  BY <1>1, AtNode
<1>3. s.cursor \in Nat /\ s.cursor + 1 \in Nat
  BY <1>2 DEF OperatorOK
<1>4. IF s.outer = <<>> \/ s.cursor >= Len(s.buffer)
        THEN /\ IF s.outer = <<>> THEN Return("none", <<>>)
                                  ELSE Call(Node - 2, "next", "pulling")
             /\ UNCHANGED exec
        ELSE /\ CASE v = Err -> Return("error", <<>>)
                  [] v # Err /\ is_truthy(v) -> Return("row", combined)
                  [] OTHER -> Again
             /\ exec' = Moved(Node, s.cursor + 1)
  BY DEF JoinNext
<1>5. /\ RowsFit(tables, s.buffer, columns[Node - 1])
      /\ RowsFit(tables, s.outer, columns[Node - 2])
  BY <1>1, <1>2 DEF KeepsOK
<1> HIDE DEF v, s
<1>6. CASE s.outer = <<>> \/ s.cursor >= Len(s.buffer)
  <2>1. UNCHANGED exec /\ (Return("none", <<>>) \/ Call(Node - 2, "next", "pulling"))
    BY <1>4, <1>6
  <2> QED BY <1>1, <2>1, Kinds, NothingMoved, CallChild, ReturnsNoRow DEF Kept
<1>7. CASE ~(s.outer = <<>> \/ s.cursor >= Len(s.buffer))
  <2>1. exec' = Moved(Node, s.cursor + 1)
    BY <1>4, <1>7
  <2>2. Return("error", <<>>) \/ Return("row", combined) \/ Again
    <3>1. (CASE v = Err -> Return("error", <<>>)
            [] v # Err /\ is_truthy(v) -> Return("row", combined)
            [] OTHER -> Again)
      BY <1>4, <1>7
    <3> HIDE DEF combined
    <3>2. CASE v = Err
      BY <3>1, <3>2
    <3>3. CASE v # Err /\ is_truthy(v)
      BY <3>1, <3>3
    <3>4. CASE v # Err /\ ~is_truthy(v)
      BY <3>1, <3>4
    <3> QED BY <3>2, <3>3, <3>4
  <2>3. Fits(tables, combined, columns[Node])
    <3>1. 1 \in 1..Len(s.outer) /\ s.cursor + 1 \in 1..Len(s.buffer)
      <4>1. s.outer \in Seq(Tuples) /\ s.buffer \in Seq(Tuples)
        BY <1>5 DEF RowsFit
      <4> QED BY <1>3, <1>7, <4>1
    <3>2. /\ Fits(tables, s.outer[1], columns[Node - 2])
          /\ Fits(tables, s.buffer[s.cursor + 1], columns[Node - 1])
      BY <1>5, <3>1 DEF RowsFit
    <3>3. /\ columns[Node - 1] \in Schemas /\ columns[Node - 2] \in Schemas
          /\ columns[Node] = columns[Node - 2] \o columns[Node - 1]
      BY <1>1, <1>2, Below DEF BelowOK
    <3> QED BY <3>2, <3>3, JoinFits
  <2> HIDE DEF combined
  <2>4. ExecKept'
    BY <1>2, <1>3, <2>1, CursorMoved
  <2>5. Working'
    BY <1>1, <2>2, <2>3, ReturnsNoRow, ReturnsRow, Repeated
  <2> QED BY <2>4, <2>5 DEF Kept
<1> QED BY <1>6, <1>7

\* Every step of an operator.
LEMMA WorkKeeps ==
    ASSUME Busy, Work PROVE Kept'
<1>1. UNCHANGED statement
  BY DEF Work, statement
<1>2. \/ LeafInit \/ DummyScanNext \/ SeqScanNext
      \/ Propagate \/ ChildInit \/ InitDone \/ StartReading \/ Read \/ FirstLeft
      \/ Sorted \/ Aggregate \/ Aggregated \/ BufferNext
      \/ Pull \/ Exhausted \/ LimitNext
      \/ FilterPulled \/ ProjectPulled \/ LimitPulled
      \/ JoinNext \/ NextLeft
  BY DEF Work
<1>3. CASE LeafInit \/ DummyScanNext \/ SeqScanNext
  BY <1>1, <1>3, LeavesKeep
<1>4. CASE Propagate \/ ChildInit \/ InitDone
  BY <1>1, <1>4, InitsKeep
<1>5. CASE StartReading
  BY <1>1, <1>5, StartReadingKeeps
<1>6. CASE Read
  BY <1>1, <1>6, ReadKeeps
<1>7. CASE FirstLeft
  BY <1>1, <1>7, FirstLeftKeeps
<1>8. CASE Sorted
  BY <1>1, <1>8, SortedKeeps
<1>9. CASE Aggregate
  BY <1>1, <1>9, AggregateKeeps
<1>10. CASE Aggregated
  BY <1>1, <1>10, AggregatedKeeps
<1>11. CASE BufferNext
  BY <1>1, <1>11, BufferNextKeeps
<1>12. CASE Pull \/ Exhausted \/ LimitNext
  BY <1>1, <1>12, PullsKeep
<1>13. CASE FilterPulled \/ ProjectPulled \/ LimitPulled
  BY <1>1, <1>13, PulledKeep
<1>14. CASE JoinNext
  BY <1>1, <1>14, JoinNextKeeps
<1>15. CASE NextLeft
  BY <1>1, <1>15, NextLeftKeeps
<1> QED BY <1>2, <1>3, <1>4, <1>5, <1>6, <1>7, <1>8, <1>9, <1>10, <1>11, <1>12,
           <1>13, <1>14, <1>15

-----------------------------------------------------------------------------
(***************************************************************************)
(* The statement.                                                          *)
(***************************************************************************)
LEMMA PendingOK ==
    /\ Pending \in [tag : Tags, row : Tuples] /\ Pending.tag = "pending"
BY DEF Pending, Result, Tags, Tuples

\* The operators as they are built.
LEMMA BuildOK ==
    ASSUME NEW db, NEW p, PlanOK(p), NEW cols
    PROVE  ExecOK(db, p, cols, build_executor(p))
<1>1. DOMAIN p = 1..Len(p)
  BY PlanNodes
<1>2. /\ DOMAIN build_executor(p) = 1..Len(p)
      /\ \A n \in 1..Len(p) : build_executor(p)[n] = Fresh
  BY <1>1 DEF build_executor
<1>3. /\ DOMAIN Fresh = {"cursor", "buffer", "outer", "groups"}
      /\ Fresh.cursor = 0 /\ Fresh.buffer = <<>> /\ Fresh.outer = <<>> /\ Fresh.groups = <<>>
  BY DEF Fresh
<1>4. \A node, child : GroupsOK(db, node, child, <<>>)
  <2>1. DOMAIN <<>> = {} /\ IsFiniteSet({})
    BY FS_EmptySet
  <2> QED BY <2>1 DEF GroupsOK
<1>5. ASSUME NEW n \in 1..Len(p) PROVE OperatorOK(db, p, cols, n, Fresh)
  <2>1. KeepsOK(db, p, cols, n, Fresh)
    BY <1>3, <1>4, FewRowsFit DEF KeepsOK
  <2> QED BY <1>3, <2>1 DEF OperatorOK
<1> QED BY <1>2, <1>5 DEF ExecOK

\* What close() leaves.
LEMMA CloseOK ==
    ASSUME PlanBuilt, ExecOK(tables, plan, columns, exec)
    PROVE  ExecOK(tables, plan, columns, close(exec))
<1>1. DOMAIN exec = 1..Len(plan)
  BY DEF ExecOK
<1>2. DOMAIN close(exec) = 1..Len(plan)
  BY <1>1 DEF close
<1>3. ASSUME NEW n \in 1..Len(plan) PROVE OperatorOK(tables, plan, columns, n, close(exec)[n])
  <2> DEFINE e == close(exec)[n]
  <2>1. OperatorOK(tables, plan, columns, n, exec[n])
    BY DEF ExecOK
  <2>2. CASE plan[n].op \in {"sort", "agg", "join"}
    <3>1. e = [exec[n] EXCEPT !.buffer = <<>>, !.outer = <<>>]
      BY <1>1, <2>2 DEF close
    <3>2. /\ DOMAIN e = {"cursor", "buffer", "outer", "groups"} /\ e.cursor = exec[n].cursor
          /\ e.buffer = <<>> /\ e.outer = <<>> /\ e.groups = exec[n].groups
      BY <2>1, <3>1 DEF OperatorOK
    <3> HIDE DEF e
    <3>3. ~Failed(columns[n]) => KeepsOK(tables, plan, columns, n, e)
      BY <2>1, <3>2, FewRowsFit DEF OperatorOK, KeepsOK
    <3> QED BY <2>1, <3>2, <3>3 DEF OperatorOK, e
  <2>3. CASE plan[n].op \notin {"sort", "agg", "join"}
    BY <1>1, <2>1, <2>3 DEF close
  <2> QED BY <2>2, <2>3
<1> QED BY <1>2, <1>3 DEF ExecOK

\* A call of the root.
LEMMA Entered ==
    ASSUME PlanBuilt, UNCHANGED statement, NEW what \in Places, Enter(Len(plan), what)
    PROVE  Working'
<1>1. Len(plan) \in Nat /\ Len(plan) > 0
  BY PlanNodes DEF PlanBuilt
<1>2. Frame(Len(plan), what) \in Frames /\ Frame(Len(plan), what).node = Len(plan)
  BY <1>1 DEF Frame, Frames
<1>3. StackOK(plan, columns, <<>>) /\ Len(plan) = Expected(plan, <<>>)
  BY <1>1, EmptyStackOK DEF Expected
<1>4. Len(plan) \in 1..Len(plan)
  BY <1>1
<1>5. StackOK(plan, columns, <<Frame(Len(plan), what)>> \o <<>>)
  BY <1>1, <1>2, <1>3, <1>4, PushOK DEF PlanBuilt
<1>6. calls' = <<Frame(Len(plan), what)>> \o <<>> /\ calls' # <<>>
  BY <1>2 DEF Enter
<1>7. ret' = Pending
  BY DEF Enter
<1>8. StackOK(plan', columns', calls')
  BY <1>5, <1>6 DEF statement
<1> QED BY <1>6, <1>7, <1>8, PendingOK DEF Working, RetOK

LEMMA InitIInv == Init /\ RowsHaveColumns(tables) => IInv
BY FewRowsFit DEF Init, IInv, Phases

LEMMA BindIInv ==
    ASSUME IInv, NEW q \in Queries, Bind(q) PROVE IInv'
<1>1. /\ calls' = <<>> /\ ret' = Pending /\ tables' = tables
      /\ tables' \in Databases /\ query' \in Queries /\ out' = <<>>
  BY DEF Bind, IInv
<1>2. RowsFit(tables', out', columns'[Len(plan')])
  BY <1>1, FewRowsFit
<1>3. CASE phase' = "failed" /\ exec' = <<>>
  BY <1>1, <1>2, <1>3 DEF IInv, Phases
<1>4. CASE ~(phase' = "failed" /\ exec' = <<>>)
  <2>1. /\ plan' = bind_query(q) /\ columns' = schemas(plan') /\ ~Failed(columns'[Len(plan')])
        /\ phase' = "built" /\ exec' = build_executor(plan')
    BY <1>4 DEF Bind
  <2>2. PlanOK(plan') /\ Len(plan') > 0
    BY <2>1, QueriesOK, bind_queryOK
  <2>3. ExecOK(tables', plan', columns', exec')
    BY <2>1, <2>2, BuildOK
  <2>4. PlanBuilt'
    BY <2>1, <2>2 DEF PlanBuilt
  <2> QED BY <1>1, <1>2, <2>1, <2>3, <2>4 DEF IInv, Phases
<1> QED BY <1>3, <1>4

LEMMA EnterIInv ==
    ASSUME IInv, Open \/ Fetch PROVE IInv'
<1>1. PlanBuilt /\ ExecOK(tables, plan, columns, exec) /\ UNCHANGED <<tables, query, plan, columns, exec>>
  BY DEF Open, Fetch, IInv
<1>2. UNCHANGED statement
  BY <1>1 DEF statement
<1>3. Enter(Len(plan), "init") \/ Enter(Len(plan), "next")
  BY DEF Open, Fetch
<1>4. Working'
  BY <1>1, <1>2, <1>3, Kinds, Entered
<1>5. phase' \in {"opening", "fetching"} /\ (out' = <<>> \/ out' = out)
  BY DEF Open, Fetch
<1>6. RowsFit(tables', out', columns'[Len(plan')])
  BY <1>1, <1>5, FewRowsFit DEF IInv
<1>7. PlanBuilt' /\ ExecOK(tables', plan', columns', exec')
  BY <1>1 DEF PlanBuilt
<1> QED BY <1>1, <1>4, <1>5, <1>6, <1>7 DEF IInv, Phases

LEMMA WorkIInv ==
    ASSUME IInv, Work PROVE IInv'
<1>1. calls # <<>>
  BY DEF Work, Propagate, LeafInit, DummyScanNext, SeqScanNext, ChildInit, InitDone,
         StartReading, Read, FirstLeft, Sorted, Aggregate, Aggregated, BufferNext, Pull,
         Exhausted, FilterPulled, ProjectPulled, LimitNext, LimitPulled, JoinNext, NextLeft,
         Resumed, At
<1>2. phase \in {"opening", "fetching"} /\ Working /\ PlanBuilt
      /\ ExecOK(tables, plan, columns, exec)
  BY <1>1 DEF IInv
<1>3. Busy
  BY <1>2 DEF Busy, IInv
<1>4. Kept'
  BY <1>3, WorkKeeps
<1>5. UNCHANGED <<tables, query, plan, columns, phase, out>>
  BY DEF Work
<1>6. PlanBuilt'
  BY <1>2, <1>5 DEF PlanBuilt
<1> QED BY <1>2, <1>4, <1>5, <1>6 DEF IInv, Kept, ExecKept

LEMMA ReturnedIInv ==
    ASSUME IInv, Returned PROVE IInv'
<1>1. /\ calls = <<>> /\ phase \in {"opening", "fetching"} /\ ret' = Pending
      /\ UNCHANGED <<tables, query, plan, columns, calls>>
  BY DEF Returned
<1>2. Working /\ PlanBuilt /\ ExecOK(tables, plan, columns, exec)
  BY <1>1 DEF IInv
<1>3. /\ ret.tag \in {"ok", "row", "none", "error"}
      /\ ret.tag = "row" => Fits(tables, ret.row, columns[Len(plan)])
  BY <1>1, <1>2 DEF Working, RetOK, Tags, Expected
<1>4. /\ phase' \in {"failed", "done", "open"} /\ (phase' = "failed" <=> ret.tag = "error")
  <2>1. /\ ret.tag = "error" => phase' = "failed"
        /\ ret.tag = "none" => phase' = "done"
        /\ ret.tag \in {"ok", "row"} => phase' = "open"
    BY DEF Returned
  <2> QED BY <1>3, <2>1
<1>5. exec' = IF ret.tag = "error" THEN <<>> ELSE exec
  BY DEF Returned
<1>6. RowsFit(tables, out', columns[Len(plan)])
  <2>1. RowsFit(tables, out, columns[Len(plan)])
    BY DEF IInv
  <2>2. out' = out \/ (ret.tag = "row" /\ out' = Append(out, ret.row))
    BY DEF Returned
  <2> QED BY <1>3, <2>1, <2>2, AppendFits
<1>7. PlanBuilt'
  BY <1>1, <1>2 DEF PlanBuilt
<1>8. RowsFit(tables', out', columns'[Len(plan')])
  BY <1>1, <1>6
<1>9. phase' # "failed" => ExecOK(tables', plan', columns', exec')
  BY <1>1, <1>2, <1>4, <1>5
<1> QED BY <1>1, <1>4, <1>5, <1>7, <1>8, <1>9 DEF IInv, Phases

LEMMA EndIInv ==
    ASSUME IInv, Close \/ Drop PROVE IInv'
<1>1. CASE Close
  <2>1. /\ phase = "done" /\ phase' = "closed" /\ exec' = close(exec)
        /\ UNCHANGED <<tables, query, plan, columns, calls, ret, out>>
    BY <1>1 DEF Close
  <2>2. PlanBuilt /\ ExecOK(tables, plan, columns, exec)
    BY <2>1 DEF IInv
  <2>3. ExecOK(tables', plan', columns', exec')
    BY <2>1, <2>2, CloseOK
  <2>4. PlanBuilt'
    BY <2>1, <2>2 DEF PlanBuilt
  <2> QED BY <2>1, <2>3, <2>4 DEF IInv, Phases
<1>2. CASE Drop
  <2>1. /\ phase \in {"closed", "failed"} /\ phase' = "idle"
        /\ query' = Absent /\ exec' = <<>> /\ out' = <<>>
        /\ UNCHANGED <<tables, calls, ret>>
    BY <1>2 DEF Drop, Nothing
  <2>2. RowsFit(tables', out', columns'[Len(plan')])
    BY <2>1, FewRowsFit
  <2> QED BY <2>1, <2>2 DEF IInv, Phases
<1> QED BY <1>1, <1>2

LEMMA NextIInv == IInv /\ [Next]_vars => IInv'
<1> SUFFICES ASSUME IInv, [Next]_vars PROVE IInv'
  OBVIOUS
<1>1. ASSUME NEW q \in Queries, Bind(q) PROVE IInv'
  BY <1>1, BindIInv
<1>2. CASE Open \/ Fetch
  BY <1>2, EnterIInv
<1>3. CASE Work
  BY <1>3, WorkIInv
<1>4. CASE Returned
  BY <1>4, ReturnedIInv
<1>5. CASE Close \/ Drop
  BY <1>5, EndIInv
<1>6. CASE UNCHANGED vars
  BY <1>6 DEF vars, IInv, Working, PlanBuilt
<1> QED BY <1>1, <1>2, <1>3, <1>4, <1>5, <1>6 DEF Next

LEMMA IInvAlways == Spec /\ RowsHaveColumns(tables) => []IInv
<1> QED BY InitIInv, NextIInv, PTL DEF Spec
-----------------------------------------------------------------------------
(***************************************************************************)
(* The theorems.                                                           *)
(***************************************************************************)
LEMMA IInvTypes == IInv => TypeOK
<1> SUFFICES ASSUME IInv PROVE TypeOK
  OBVIOUS
<1>1. ret \in [tag : Tags, row : Tuples]
  BY PendingOK DEF IInv, Working, RetOK
<1>2. out \in Seq(Tuples)
  BY DEF IInv, RowsFit
<1>3. ASSUME phase \notin {"idle", "failed"}
      PROVE  /\ DOMAIN exec = DOMAIN plan
             /\ \A n \in DOMAIN plan :
                   /\ exec[n].cursor \in Nat
                   /\ exec[n].buffer \in Seq(Tuples) /\ exec[n].outer \in Seq(Tuples)
  <2>1. PlanBuilt /\ ExecOK(tables, plan, columns, exec)
    BY <1>3 DEF IInv
  <2>2. DOMAIN plan = 1..Len(plan)
    BY <2>1, PlanNodes DEF PlanBuilt
  <2> QED BY <2>1, <2>2 DEF ExecOK, OperatorOK
<1> QED BY <1>1, <1>2, <1>3 DEF IInv, TypeOK, Tags, Phases

\* On tables whose rows have as many values as their schemas columns, an
\* operator has its state as long as the statement lives, and what it keeps and
\* returns are rows (the calls of the trait, src/src/executor.rs:16-20, and the
\* fields of its implementations).
THEOREM TypeCorrect == Spec /\ RowsHaveColumns(tables) => []TypeOK
<1> QED BY IInvAlways, IInvTypes, PTL

LEMMA IInvSchema == IInv => SchemaDescribesRows
<1> SUFFICES ASSUME IInv, WellTyped, NEW i \in DOMAIN out
             PROVE  /\ Len(out[i]) = Len(columns[Len(plan)])
                    /\ \A c \in DOMAIN columns[Len(plan)] :
                          out[i][c].k \in {columns[Len(plan)][c].type, "null"}
  BY DEF SchemaDescribesRows
<1> DEFINE schema == columns[Len(plan)]
<1>1. WellTypedIn(tables)
  BY DEF WellTyped, WellTypedIn
<1>2. RowsFit(tables, out, schema)
  BY DEF IInv
<1>3. i \in 1..Len(out) /\ out # <<>>
  BY <1>2 DEF RowsFit
<1>4. Fits(tables, out[i], schema)
  BY <1>2, <1>3 DEF RowsFit
<1>5. PlanBuilt
  BY <1>3 DEF IInv
<1>6. DOMAIN schema = 1..Len(schema)
  <2>1. Len(plan) \in Nat /\ Len(plan) \in 1..Len(plan)
    BY <1>5, PlanNodes DEF PlanBuilt
  <2>2. columns \in [1..Len(plan) -> Schemas]
    BY <1>5, SchemasUnfold DEF PlanBuilt
  <2>3. schema \in Schemas
    BY <2>1, <2>2
  <2> HIDE DEF schema
  <2> QED BY <2>3, ColumnsTyped
<1> HIDE DEF schema
<1>7. Len(out[i]) = Len(schema) /\ \A c \in DOMAIN schema : out[i][c].k \in {schema[c].type, "null"}
  BY <1>1, <1>4, <1>6 DEF Fits, Typed
<1> QED BY <1>7 DEF schema

\* On such tables, and if the stored values have the types of their columns,
\* every row that a statement returns has a value, of the type or NULL, for
\* each column that LogicalPlan::schema announces (src/src/planner.rs:206-277
\* against eval and the operators' next(), src/src/executor.rs).
THEOREM RowsMatchSchema == Spec /\ RowsHaveColumns(tables) => []SchemaDescribesRows
<1> QED BY IInvAlways, IInvSchema, PTL

=============================================================================

------------------------------ MODULE Planner ------------------------------
(***************************************************************************)
(* From a SELECT to a logical plan (src/src/planner.rs).                   *)
(*                                                                         *)
(* Every plan bind_query makes is left-deep, so a plan is the sequence of  *)
(* its nodes in post-order: the child of node n is n - 1, except that a    *)
(* Join has its left child at n - 2 and its right one, always a Scan, at   *)
(* n - 1.  The root is the last node.                                      *)
(***************************************************************************)
EXTENDS Expressions

CONSTANT
    Catalog     \* [table names -> Seq([n : column name, type : DataType])]

ASSUME CatalogAssumption ==
    \A t \in DOMAIN Catalog : Catalog[t] \in Seq([n : STRING, type : DataType])

(***************************************************************************)
(* The parts of a SELECT that the code looks at.  from is a sequence of    *)
(* [table, alias], the first item of FROM and what is joined to it; on[i]  *)
(* the condition that joins from[i] to those before; select a sequence of  *)
(* [e, as]; order_by of [e, asc].  body tells a SELECT from other queries. *)
(***************************************************************************)
Absent == [k |-> "absent"]      \* no ON (CROSS JOIN), no WHERE
OuterJoin == [k |-> "outer"]    \* or any other kind of join
Unknown == [k |-> "unknown"]    \* parentheses, unary minus, IS NULL, BETWEEN, ...
NoNumber == -1                  \* no LIMIT, no OFFSET

Item(e) == [e |-> e, as |-> NameOf(e)]
ItemAs(e, alias) == [e |-> e, as |-> Col(NoQualifier, alias)]

DummyScan == [op |-> "dummy"]
Scan(t) == [op |-> "scan", table |-> t.table, alias |-> t.alias]
Filter(p) == [op |-> "filter", predicate |-> p]
Project(items) == [op |-> "project", exprs |-> items]
Limit(l, o) == [op |-> "limit", limit |-> l, offset |-> o]
Sort(order) == [op |-> "sort", order_by |-> order]
Join(c) == [op |-> "join", condition |-> c]
Agg(group, funcs) == [op |-> "agg", group_by |-> group, agg_funcs |-> funcs]

AggregateNames == {"count", "sum", "avg", "min", "max"}

\* The type of an expression; "error" if it has none.
AggType(func, arg) ==
    CASE func = "count" -> "int"
      [] func = "avg" -> IF arg \in {"int", "float"} THEN "float" ELSE "error"
      [] func = "sum" -> IF arg \in {"int", "float"} THEN arg ELSE "error"
      [] func \in {"min", "max"} -> arg
      [] OTHER -> "error"

BinaryType(op, types) ==
    CASE "error" \in types -> "error"
      [] "error" \notin types /\ op \notin {"+", "-", "*", "/"} -> "bool"
      [] OTHER -> IF "float" \in types THEN "float"
                  ELSE IF types = {"int"} THEN "int" ELSE "error"

ColumnType(name, schema) ==
    LET i == find_col_idx(name, schema)
    IN IF i = 0 THEN "error" ELSE schema[i].type

get_expr_type(e, schema) ==
    LET type[x \in Expr] ==
          IF x.k = "binary"
            THEN BinaryType(x.op, {type[x.left], type[x.right]})
            ELSE CASE x.k = "const" -> IF x.v = Null THEN "varchar" ELSE x.v.k
                   [] x.k \in {"col", "ref"} -> ColumnType(NameOf(x), schema)
                   [] x.k = "func" -> AggType(x.name, type[x.arg])
                   [] OTHER -> "error"
    IN type[e]

(***************************************************************************)
(* LogicalPlan::schema.  A schema that cannot be computed has a column of  *)
(* type "error", and so has then that of every node above.                 *)
(***************************************************************************)
Failed(schema) == \E i \in DOMAIN schema : schema[i].type = "error"

ScanSchema(node) ==
    IF node.table \notin DOMAIN Catalog
      THEN <<Column(Star, "error")>>
      ELSE [i \in DOMAIN Catalog[node.table] |->
              Column(Col(node.alias, Catalog[node.table][i].n),
                     Catalog[node.table][i].type)]

ProjectSchema(node, child) ==
    IF Failed(child) THEN child
    ELSE [i \in DOMAIN node.exprs |->
        Column(node.exprs[i].as, get_expr_type(node.exprs[i].e, child))]

AggSchema(node, child) ==
    IF Failed(child) THEN child
    ELSE [i \in DOMAIN node.group_by |->
        Column(NameOf(node.group_by[i]), get_expr_type(node.group_by[i], child))]
    \o
    [i \in DOMAIN node.agg_funcs |->
        Column(node.agg_funcs[i], get_expr_type(node.agg_funcs[i], child))]

schemas(plan) ==
    LET schema[n \in DOMAIN plan] ==
          IF plan[n].op = "join"
            THEN schema[n - 2] \o schema[n - 1]
            ELSE CASE plan[n].op = "dummy" -> <<>>
                   [] plan[n].op = "scan" -> ScanSchema(plan[n])
                   [] plan[n].op \in {"filter", "limit", "sort"} -> schema[n - 1]
                   [] plan[n].op = "project" -> ProjectSchema(plan[n], schema[n - 1])
                   [] plan[n].op = "agg" -> AggSchema(plan[n], schema[n - 1])
    IN schema

SchemaOf(plan) == schemas(plan)[Len(plan)]

\* extract_aggregates: the calls in an expression, from left to right, and
\* the expression that refers to their columns instead.
Aggregates(e) ==
    LET found[x \in Expr] ==
          IF x.k = "binary" THEN found[x.left] \o found[x.right]
          ELSE IF x.k = "func" THEN <<x>> ELSE <<>>
    IN found[e]

Rewritten(e) ==
    LET rewritten[x \in Expr] ==
          CASE x.k = "func" -> Ref(x)
            [] x.k = "binary" -> BinaryOp(x.op, rewritten[x.left], rewritten[x.right])
            [] OTHER -> x
    IN rewritten[e]

\* What is made of an expression is one.
ASSUME RewritingAssumption == \A e \in Expr : Rewritten(e) \in Expr

\* bind_query, clause by clause.
FromPlan(q) ==
    IF q.from = <<>>
      THEN <<DummyScan>>
      ELSE [n \in 1..2 * Len(q.from) - 1 |->
              IF n > 1 /\ n % 2 = 1 THEN Join(q.on[(n + 1) \div 2])
                                    ELSE Scan(q.from[n \div 2 + 1])]

Targets(q) ==
    LET columns == SchemaOf(FromPlan(q))
        wildcard == [i \in DOMAIN columns |-> Item(columns[i].name)]
    IN FlattenSeq([i \in DOMAIN q.select |->
          IF q.select[i].e = Star THEN wildcard ELSE <<q.select[i]>>])

AggFuncs(items) ==
    LET every == FlattenSeq([i \in DOMAIN items |-> Aggregates(items[i].e)])
        funcs[k \in 0..Len(every)] ==
          IF k = 0 THEN <<>>
          ELSE IF Contains(funcs[k - 1], every[k]) THEN funcs[k - 1]
          ELSE Append(funcs[k - 1], every[k])
    IN funcs[Len(every)]

SelectPlan(q) ==
    LET items == Targets(q)
        funcs == AggFuncs(items)
    IN IF q.group_by = <<>> /\ funcs = <<>>
         THEN <<Project(items)>>
         ELSE <<Agg(q.group_by, funcs),
                Project([i \in DOMAIN items |->
                           [items[i] EXCEPT !.e = Rewritten(items[i].e)]])>>

\* map_sql_expr: the syntax tree of an expression as an Expr, or Err.
map_sql_expr(e) ==
    LET mapped[x \in Expr] ==
          CASE x.k \in {"const", "col"} -> x
            [] x.k = "binary" ->
                  IF Err \in {mapped[x.left], mapped[x.right]} THEN Err
                  ELSE BinaryOp(x.op, mapped[x.left], mapped[x.right])
            [] x.k = "func" ->
                  LET arg == IF x.arg = Star THEN Star ELSE mapped[x.arg]
                  IN IF x.name \notin AggregateNames \/ arg = Err THEN Err
                     ELSE FuncCall(x.name, arg)
            [] OTHER -> Err
    IN mapped[e]

\* What bind_statement refuses.
ExpressionsOf(q) ==
    (({q.on[i] : i \in 2..Len(q.from)} \cup {q.where}) \ {Absent})
    \cup ({q.select[i].e : i \in DOMAIN q.select} \ {Star})
    \cup {q.group_by[i] : i \in DOMAIN q.group_by}
    \cup {q.order_by[i].e : i \in DOMAIN q.order_by}

Refused(q) ==
    \/ q.body # "select"
    \/ Failed(SchemaOf(FromPlan(q)))
    \/ \E e \in ExpressionsOf(q) : map_sql_expr(e) = Err

bind_query(q) ==
    FromPlan(q)
    \o (IF q.where = Absent THEN <<>> ELSE <<Filter(q.where)>>)
    \o SelectPlan(q)
    \o (IF q.order_by = <<>> THEN <<>> ELSE <<Sort(q.order_by)>>)
    \o (IF q.limit = NoNumber /\ q.offset = NoNumber
          THEN <<>> ELSE <<Limit(q.limit, q.offset)>>)

=============================================================================

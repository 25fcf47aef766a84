------------------------------ MODULE Executor ------------------------------
(***************************************************************************)
(* The Volcano operators (src/src/executor.rs) and the loop that drives    *)
(* them (src/src/handler.rs:142-169).                                      *)
(*                                                                         *)
(* The operators of a plan keep their state in exec, one record per node   *)
(* of the plan.  An operator runs when its init() or its next() is called, *)
(* calls its children and goes on when they return: calls is the stack of  *)
(* the calls that have not returned, and an action is what one of them     *)
(* does between two calls of its children.                                 *)
(***************************************************************************)
EXTENDS Planner

CONSTANTS
    Databases,  \* contents of the tables a statement may find:
                \* [table names -> Seq([values, visible])]
    Queries     \* the SELECTs

ASSUME TablesAssumption ==
    \A db \in Databases : \A t \in DOMAIN db :
        db[t] \in Seq([values : Seq(Value), visible : BOOLEAN])

\* Rows have the columns of their tables: RowsFitSchema in Database.  It does
\* not hold of rows that were recovered before their table was created anew
\* with other columns; Expr::eval and the scans index past such a row and
\* panic, which the operators below do not model.
RowsHaveColumns(db) ==
    \A t \in DOMAIN db \cap DOMAIN Catalog :
        \A i \in DOMAIN db[t] : Len(db[t][i].values) = Len(Catalog[t])

ASSUME QueriesAssumption ==
    \A q \in Queries :
        /\ q.from \in Seq([table : STRING, alias : STRING])
        /\ \A i \in DOMAIN q.from : q.from[i].table \in DOMAIN Catalog =>
              \A c \in DOMAIN Catalog[q.from[i].table] :
                  Col(q.from[i].alias, Catalog[q.from[i].table][c].n) \in Expr
        /\ \A i \in 2..Len(q.from) : q.on[i] \in Expr \cup {Absent}
        /\ q.where \in Expr \cup {Absent}
        /\ q.select \in Seq([e : Expr, as : Expr])
        /\ q.group_by \in Seq(Expr)
        /\ q.order_by \in Seq([e : Expr, asc : BOOLEAN])
        /\ q.limit \in Nat \cup {NoNumber} /\ q.offset \in Nat \cup {NoNumber}

VARIABLES
    tables,  \* the tables; a row is visible if is_visible says so
    query,   \* the statement
    plan,    \* its plan
    columns, \* the schema of each node of the plan
    exec,    \* the state of the operators: a cursor, a buffer (the rows of a
             \* Sort or Agg, the right relation of a Join), the current left
             \* row of a Join and the groups of an Agg
    calls,   \* the calls in progress, the innermost first
    ret,     \* what the last call of a child has returned
    phase,   \* of the statement: "idle", "built", "opening", "open",
             \* "fetching", "done", "closed" or, after an error, "failed"
    out      \* the rows next() has returned since init()

statement == <<tables, query, plan, columns>>
vars == <<tables, query, plan, columns, exec, calls, ret, phase, out>>

Fresh == [cursor |-> 0, buffer |-> <<>>, outer |-> <<>>, groups |-> <<>>]
Moved(n, cursor) == [exec EXCEPT ![n].cursor = cursor]

(***************************************************************************)
(* Calls.  A frame is a node and the place its init() or next() has        *)
(* reached: "init" and "next" are their first lines, every other place is  *)
(* where it waits for a child.                                             *)
(***************************************************************************)
Frame(n, at) == [node |-> n, at |-> at]
Result(tag, row) == [tag |-> tag, row |-> row]
Pending == Result("pending", <<>>)

Node == Head(calls).node
At(place, ops) ==
    calls # <<>> /\ Head(calls).at = place /\ plan[Node].op \in ops
Resumed(place, ops, tag) == At(place, ops) /\ ret.tag = tag

Enter(n, what) == calls' = <<Frame(n, what)>> /\ ret' = Pending

\* Call what of node n and wait for it at place.
Call(n, what, place) ==
    /\ calls' = <<Frame(n, what), Frame(Node, place)>> \o Tail(calls)
    /\ ret' = Pending

Return(tag, row) == calls' = Tail(calls) /\ ret' = Result(tag, row)

\* The next turn of a loop in next().
Again == calls' = <<Frame(Node, "next")>> \o Tail(calls) /\ ret' = Pending

\* The ? after every call of a child.
Propagate ==
    /\ calls # <<>> /\ ret.tag = "error"
    /\ Return("error", <<>>)
    /\ UNCHANGED exec

(***************************************************************************)
(* Leaves.                                                                 *)
(***************************************************************************)
LeafInit ==
    /\ At("init", {"dummy", "scan"})
    /\ exec' = Moved(Node, 0)
    /\ Return("ok", <<>>)

DummyScanNext ==
    /\ At("next", {"dummy"})
    /\ IF exec[Node].cursor = 0
         THEN exec' = Moved(Node, 1) /\ Return("row", <<>>)
         ELSE Return("none", <<>>) /\ UNCHANGED exec

SeqScanNext ==
    /\ At("next", {"scan"})
    /\ IF plan[Node].table \notin DOMAIN tables
         THEN Return("error", <<>>) /\ UNCHANGED exec
         ELSE LET rows == tables[plan[Node].table]
                  i == SelectInSubSeq(rows, exec[Node].cursor + 1, Len(rows),
                                      LAMBDA row : row.visible)
              IN IF i = 0
                   THEN exec' = Moved(Node, Len(rows)) /\ Return("none", <<>>)
                   ELSE exec' = Moved(Node, i) /\ Return("row", rows[i].values)

(***************************************************************************)
(* init() of the operators that have a child: it calls the child's first,  *)
(* and a Join's that of both.                                              *)
(***************************************************************************)
ChildInit ==
    \/ /\ At("init", {"filter", "project", "limit", "sort", "agg"})
       /\ Call(Node - 1, "init", "child")
       /\ UNCHANGED exec
    \/ /\ At("init", {"join"})
       /\ Call(Node - 2, "init", "child")
       /\ UNCHANGED exec
    \/ /\ Resumed("child", {"join"}, "ok")
       /\ Call(Node - 1, "init", "right")
       /\ UNCHANGED exec

\* A Filter and a Project have no cursor: theirs stays 0.
InitDone ==
    /\ Resumed("child", {"filter", "project", "limit"}, "ok")
    /\ exec' = Moved(Node, 0)
    /\ Return("ok", <<>>)

\* Sort, Agg and Join read a whole relation, Join the right one.
StartReading ==
    /\ \/ Resumed("child", {"sort", "agg"}, "ok")
       \/ Resumed("right", {"join"}, "ok")
    /\ exec' = [exec EXCEPT ![Node] = [Fresh EXCEPT !.outer = exec[Node].outer]]
    /\ Call(Node - 1, "next", "reading")

Read ==
    /\ Resumed("reading", {"sort", "join"}, "row")
    /\ exec' = [exec EXCEPT ![Node].buffer = Append(@, ret.row)]
    /\ Call(Node - 1, "next", "reading")

\* Then Join reads its first left row.
FirstLeft ==
    \/ /\ Resumed("reading", {"join"}, "none")
       /\ Call(Node - 2, "next", "first")
       /\ UNCHANGED exec
    \/ /\ \/ Resumed("first", {"join"}, "row") /\ exec' = [exec EXCEPT ![Node].outer = <<ret.row>>]
          \/ Resumed("first", {"join"}, "none") /\ exec' = [exec EXCEPT ![Node].outer = <<>>]
       /\ Return("ok", <<>>)

(***************************************************************************)
(* Sort: lexicographic by the keys, each ascending or descending; keys     *)
(* that fail to evaluate are NULL, keys that cannot be compared are equal. *)
(***************************************************************************)
Keys(n, row) ==
    [i \in DOMAIN plan[n].order_by |->
        LET v == eval(plan[n].order_by[i].e, row, columns[n - 1])
        IN IF v = Err THEN Null ELSE v]

SortedRows(n, rows) ==
    LET keys == [i \in DOMAIN rows |-> Keys(n, rows[i])]
        asc == [i \in DOMAIN plan[n].order_by |-> plan[n].order_by[i].asc]
    IN {[i \in DOMAIN rows |-> rows[p[i]]] : p \in sort_by[[keys |-> keys, asc |-> asc]]}

Sorted ==
    /\ Resumed("reading", {"sort"}, "none")
    /\ \E rows \in SortedRows(Node, exec[Node].buffer) :
          exec' = [exec EXCEPT ![Node].buffer = rows]
    /\ Return("ok", <<>>)

(***************************************************************************)
(* Aggregation.  An aggregate function keeps a count and an accumulator.   *)
(***************************************************************************)
NewState == [count |-> 0, acc |-> Null]

\* Adding what is not a number to a sum leaves it as it is.
Plus(a, b) == IF Numeric(a) /\ Numeric(b) THEN Arithmetic("+", a, b) ELSE a

update(func, st, v) ==
    LET better == CASE func = "min" -> partial_cmp(v, st.acc) = "less"
                    [] func = "max" -> partial_cmp(v, st.acc) = "greater"
        acc == CASE st.acc = Null -> v
                 [] st.acc # Null /\ func \in {"sum", "avg"} -> Plus(st.acc, v)
                 [] st.acc # Null /\ func \in {"min", "max"} ->
                        IF better THEN v ELSE st.acc
                 [] OTHER -> st.acc
    IN IF v = Null THEN st ELSE [count |-> st.count + 1, acc |-> acc]

\* Variant: the average of integers is an integer.
FinalizeInKind(func, st) ==
    CASE func = "count" -> IntVal(st.count)
      [] func = "avg" -> IF st.count = 0 \/ ~Numeric(st.acc) THEN Null
                         ELSE [st.acc EXCEPT !.v[1] = @ \div st.count]
      [] OTHER -> st.acc

finalize(func, st) ==
    CASE func = "count" -> IntVal(st.count)
      [] func = "avg" -> IF st.count = 0 \/ ~Numeric(st.acc) THEN Null
                         ELSE FloatVal(AsFloat(st.acc) \div st.count)
      [] OTHER -> st.acc

\* The text under which a group is found: the kind and the text of each
\* value, with commas between; a comma may also come from a text.
KindMark == [null |-> -1, int |-> -2, float |-> -3, varchar |-> -4, bool |-> -5]
CommaAnd(k) == IF k = "varchar" THEN CommaS ELSE KindMark[k] - 5

make_group_key(vals) ==
    FlattenSeq([i \in DOMAIN vals |->
        <<IF i = 1 THEN KindMark[vals[i].k] ELSE CommaAnd(vals[i].k)>> \o vals[i].v])

\* What an Agg takes from a row: the values of GROUP BY and the arguments.
AggLine(n, row) ==
    LET value(e) == eval(e, row, columns[n - 1])
    IN [group |-> [i \in DOMAIN plan[n].group_by |-> value(plan[n].group_by[i])],
        args |-> [i \in DOMAIN plan[n].agg_funcs |->
                    IF plan[n].agg_funcs[i].arg = Star THEN IntVal(1)
                    ELSE value(plan[n].agg_funcs[i].arg)]]

\* The groups with one more line.
Updated(n, groups, line) ==
    LET key == make_group_key(line.group)
        funcs == plan[n].agg_funcs
        states == IF key \in DOMAIN groups THEN groups[key].states
                  ELSE [i \in DOMAIN funcs |-> NewState]
        updated == [i \in DOMAIN funcs |->
                      update(funcs[i].name, states[i], line.args[i])]
    IN [k \in DOMAIN groups \cup {key} |->
          IF k = key THEN [group |-> line.group, states |-> updated] ELSE groups[k]]

Aggregate ==
    /\ Resumed("reading", {"agg"}, "row")
    /\ LET line == AggLine(Node, ret.row)
       IN IF Contains(line.group, Err) \/ Contains(line.args, Err)
            THEN Return("error", <<>>) /\ UNCHANGED exec
            ELSE /\ exec' = [exec EXCEPT ![Node].groups = Updated(Node, @, line)]
                 /\ Call(Node - 1, "next", "reading")

\* The rows of an Agg in the order of a HashMap's keys: in any order.
GroupRow(n, group, states) ==
    group \o [i \in DOMAIN plan[n].agg_funcs |->
                 finalize(plan[n].agg_funcs[i].name, states[i])]

GroupRows(n, groups) ==
    IF groups = <<>> /\ plan[n].group_by = <<>>
      THEN {<<GroupRow(n, <<>>, [i \in DOMAIN plan[n].agg_funcs |-> NewState])>>}
      ELSE {[i \in DOMAIN keys |-> GroupRow(n, groups[keys[i]].group, groups[keys[i]].states)] :
              keys \in SetToSeqs(DOMAIN groups)}

Aggregated ==
    /\ Resumed("reading", {"agg"}, "none")
    /\ \E rows \in GroupRows(Node, exec[Node].groups) :
          exec' = [exec EXCEPT ![Node].buffer = rows, ![Node].groups = <<>>]
    /\ Return("ok", <<>>)

\* Sort and Agg have their rows ready.
BufferNext ==
    /\ At("next", {"sort", "agg"})
    /\ LET i == exec[Node].cursor + 1
       IN IF i > Len(exec[Node].buffer)
            THEN Return("none", <<>>) /\ UNCHANGED exec
            ELSE exec' = Moved(Node, i) /\ Return("row", exec[Node].buffer[i])

(***************************************************************************)
(* next() of the operators that pull a row from their child.               *)
(***************************************************************************)
Pull ==
    /\ At("next", {"filter", "project"})
    /\ Call(Node - 1, "next", "pulling")
    /\ UNCHANGED exec

\* Variant: a Filter goes on when its child has no more rows.
FilterInsists ==
    /\ Resumed("pulling", {"filter", "project", "limit"}, "none")
    /\ IF plan[Node].op = "filter" THEN Again ELSE Return("none", <<>>)
    /\ UNCHANGED exec

Exhausted ==
    /\ Resumed("pulling", {"filter", "project", "limit"}, "none")
    /\ Return("none", <<>>)
    /\ UNCHANGED exec

FilterPulled ==
    /\ Resumed("pulling", {"filter"}, "row")
    /\ LET v == eval(plan[Node].predicate, ret.row, columns[Node - 1])
       IN CASE v = Err -> Return("error", <<>>)
            [] v # Err /\ is_truthy(v) -> Return("row", ret.row)
            [] OTHER -> Again
    /\ UNCHANGED exec

Projected(n, row) ==
    [i \in DOMAIN plan[n].exprs |-> eval(plan[n].exprs[i].e, row, columns[n - 1])]

\* Variant: a failing expression does not end the statement.
ProjectUnchecked ==
    /\ Resumed("pulling", {"project"}, "row")
    /\ Return("row", Projected(Node, ret.row))
    /\ UNCHANGED exec

ProjectPulled ==
    /\ Resumed("pulling", {"project"}, "row")
    /\ LET values == Projected(Node, ret.row)
       IN IF Contains(values, Err) THEN Return("error", <<>>) ELSE Return("row", values)
    /\ UNCHANGED exec

\* The cursor of a Limit counts the rows pulled, up to offset + limit.
Offset(n) == IF plan[n].offset = NoNumber THEN 0 ELSE plan[n].offset
Skipping(n) == exec[n].cursor < Offset(n)

\* Variant: one row too many.
LimitExceeded(n) ==
    ~Skipping(n) /\ plan[n].limit # NoNumber /\ exec[n].cursor - Offset(n) > plan[n].limit

LimitReached(n) ==
    ~Skipping(n) /\ plan[n].limit # NoNumber /\ exec[n].cursor - Offset(n) >= plan[n].limit

LimitNext ==
    /\ At("next", {"limit"})
    /\ IF LimitReached(Node) THEN Return("none", <<>>)
                             ELSE Call(Node - 1, "next", "pulling")
    /\ UNCHANGED exec

LimitPulled ==
    /\ Resumed("pulling", {"limit"}, "row")
    /\ IF Skipping(Node) THEN Again ELSE Return("row", ret.row)
    /\ exec' = Moved(Node, exec[Node].cursor + 1)

\* Join: the right rows for the current left row, then the next left row.
JoinNext ==
    /\ At("next", {"join"})
    /\ LET s == exec[Node]
           combined == s.outer[1] \o s.buffer[s.cursor + 1]
           v == IF plan[Node].condition = Absent THEN BoolVal(TRUE)
                ELSE eval(plan[Node].condition, combined, columns[Node])
       IN IF s.outer = <<>> \/ s.cursor >= Len(s.buffer)
            THEN /\ IF s.outer = <<>> THEN Return("none", <<>>)
                                      ELSE Call(Node - 2, "next", "pulling")
                 /\ UNCHANGED exec
            ELSE /\ CASE v = Err -> Return("error", <<>>)
                      [] v # Err /\ is_truthy(v) -> Return("row", combined)
                      [] OTHER -> Again
                 /\ exec' = Moved(Node, s.cursor + 1)

\* Variant: the right relation is not rewound for the next left row.
NotRewound ==
    /\ At("pulling", {"join"}) /\ ret.tag \in {"row", "none"}
    /\ exec' = [exec EXCEPT ![Node].outer = IF ret.tag = "row" THEN <<ret.row>> ELSE <<>>]
    /\ Again

NextLeft ==
    /\ At("pulling", {"join"}) /\ ret.tag \in {"row", "none"}
    /\ exec' = [exec EXCEPT ![Node].outer = IF ret.tag = "row" THEN <<ret.row>> ELSE <<>>,
                            ![Node].cursor = 0]
    /\ Again

(***************************************************************************)
(* A statement: the calls of the root of the plan.                         *)
(***************************************************************************)
Work ==
    /\ \/ Propagate
       \/ LeafInit \/ DummyScanNext \/ SeqScanNext
       \/ ChildInit \/ InitDone \/ StartReading \/ Read \/ FirstLeft
       \/ Sorted \/ Aggregate \/ Aggregated \/ BufferNext
       \/ Pull \/ Exhausted \/ FilterPulled \/ ProjectPulled
       \/ LimitNext \/ LimitPulled \/ JoinNext \/ NextLeft
    /\ UNCHANGED <<tables, query, plan, columns, phase, out>>

\* close() of the root reaches every operator.
close(ex) ==
    [n \in DOMAIN ex |->
        IF plan[n].op \in {"sort", "agg", "join"}
          THEN [ex[n] EXCEPT !.buffer = <<>>, !.outer = <<>>] ELSE ex[n]]

Nothing ==
    /\ query' = Absent /\ plan' = <<>> /\ columns' = <<>>
    /\ exec' = <<>> /\ out' = <<>>

Init ==
    /\ tables \in Databases
    /\ query = Absent /\ plan = <<>> /\ columns = <<>>
    /\ exec = <<>> /\ out = <<>>
    /\ calls = <<>> /\ ret = Pending
    /\ phase = "idle"

\* An operator for each node of the plan.
build_executor(nodes) == [n \in DOMAIN nodes |-> Fresh]

\* bind_statement, which may refuse the query, and build_executor, which
\* fails if a schema below the root does.  That of the root is computed after
\* init() (handler.rs:151): if it fails, the statement fails there instead,
\* when the operators have already read their input.
Bind(q) ==
    /\ phase = "idle"
    /\ query' = q
    /\ \/ /\ Refused(q)
          /\ plan' = <<>> /\ columns' = <<>> /\ exec' = <<>>
          /\ phase' = "failed"
       \/ /\ ~Refused(q)
          /\ plan' = bind_query(q)
          /\ columns' = schemas(plan')
          /\ IF Failed(columns'[Len(plan')])
               THEN phase' = "failed" /\ exec' = <<>>
               ELSE phase' = "built" /\ exec' = build_executor(plan')
    /\ out' = <<>>
    /\ UNCHANGED <<tables, calls, ret>>

\* init(), the first time or again.
Open ==
    /\ phase \in {"built", "open", "done", "closed"}
    /\ Enter(Len(plan), "init")
    /\ phase' = "opening"
    /\ out' = <<>>
    /\ UNCHANGED <<tables, query, plan, columns, exec>>

\* next(), also after it has returned None.
Fetch ==
    /\ phase \in {"open", "done"}
    /\ Enter(Len(plan), "next")
    /\ phase' = "fetching"
    /\ UNCHANGED <<tables, query, plan, columns, exec, out>>

\* The root has returned.  After an error the operators are dropped.
Returned ==
    /\ calls = <<>> /\ phase \in {"opening", "fetching"}
    /\ ret' = Pending
    /\ phase' = CASE ret.tag = "error" -> "failed"
                  [] ret.tag = "none" -> "done"
                  [] ret.tag \in {"ok", "row"} -> "open"
    /\ exec' = IF ret.tag = "error" THEN <<>> ELSE exec
    /\ out' = IF ret.tag = "row" THEN Append(out, ret.row) ELSE out
    /\ UNCHANGED <<tables, query, plan, columns, calls>>

Close ==
    /\ phase = "done"
    /\ exec' = close(exec)
    /\ phase' = "closed"
    /\ UNCHANGED <<tables, query, plan, columns, calls, ret, out>>

\* The statement ends, and with it its operators.
Drop ==
    /\ phase \in {"closed", "failed"}
    /\ phase' = "idle"
    /\ Nothing
    /\ UNCHANGED <<tables, calls, ret>>

Next == (\E q \in Queries : Bind(q)) \/ Open \/ Work \/ Returned \/ Fetch \/ Close \/ Drop

\* The thread of a statement does not stop in the middle of a call.
Spec == Init /\ [][Next]_vars /\ WF_vars(Work)

(***************************************************************************)
(* Correctness                                                             *)
(***************************************************************************)
\* The shape of the state: what is kept where, and when.
Tuples == Seq(Value)
TypeOK ==
    /\ tables \in Databases
    /\ query \in Queries \cup {Absent}
    /\ phase \in {"idle", "built", "opening", "open", "fetching", "done", "closed", "failed"}
    /\ out \in Seq(Tuples)
    /\ ret \in [tag : {"pending", "ok", "row", "none", "error"}, row : Tuples]
    /\ calls # <<>> => phase \in {"opening", "fetching"}
    /\ phase \in {"idle", "failed"} => exec = <<>>
    /\ phase \notin {"idle", "failed"} =>
          /\ DOMAIN exec = DOMAIN plan
          /\ \A n \in DOMAIN plan :
                /\ exec[n].cursor \in Nat
                /\ exec[n].buffer \in Seq(Tuples) /\ exec[n].outer \in Seq(Tuples)

\* The columns of a plan's schema describe the rows the operators return,
\* in number and type, if the stored values have their columns' types
\* (LogicalPlan::schema and get_expr_type against eval and finalize).
WellTyped ==
    \A t \in DOMAIN tables : \A i \in DOMAIN tables[t] :
        \A c \in DOMAIN Catalog[t] :
            tables[t][i].values[c].k \in {Catalog[t][c].type, "null"}

SchemaDescribesRows ==
    WellTyped =>
        LET schema == columns[Len(plan)]
        IN \A i \in DOMAIN out :
              /\ Len(out[i]) = Len(schema)
              /\ \A c \in DOMAIN schema : out[i][c].k \in {schema[c].type, "null"}

\* Every init() and every next() returns: no operator pulls from its child
\* for ever, whatever the child returns (the loops of Filter, Limit, Sort,
\* Join and Agg, which run with the database locked).
CallsReturn == calls # <<>> ~> calls = <<>>

=============================================================================

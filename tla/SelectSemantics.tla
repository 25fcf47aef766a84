-------------------------- MODULE SelectSemantics --------------------------
(***************************************************************************)
(* What a SELECT means, clause by clause, without a plan and without       *)
(* operators; and that the executor returns just that.                     *)
(*                                                                         *)
(* A binding gives each table of the FROM clause one of its visible rows.  *)
(* Names are looked up in bindings, never in positions of combined rows.   *)
(* Arithmetic is that of Expressions; comparison and order are stated anew. *)
(***************************************************************************)
EXTENDS Executor

(***************************************************************************)
(* Expressions over a binding b of the tables of q.                        *)
(***************************************************************************)
Aliases(q) == {q.from[i].alias : i \in DOMAIN q.from}
TableOf(q, alias) == (CHOOSE i \in DOMAIN q.from : q.from[i].alias = alias)
ColumnsOf(q, alias) == Catalog[q.from[TableOf(q, alias)].table]

\* The columns a name may mean: pairs of an alias and a position.
Meanings(q, col) ==
    {m \in Aliases(q) \X (1..Max({0} \cup {Len(ColumnsOf(q, a)) : a \in Aliases(q)})) :
        /\ col.q \in {NoQualifier, m[1]}
        /\ m[2] <= Len(ColumnsOf(q, m[1]))
        /\ ColumnsOf(q, m[1])[m[2]].n = col.n}

(***************************************************************************)
(* The order of values: numbers by their amount, whichever kind they have, *)
(* texts by their first difference, FALSE before TRUE.                     *)
(***************************************************************************)
Amount(v) == IF v.k = "int" THEN v.v[1] * FloatUnit ELSE v.v[1]
Numbers(a, b) == {a.k, b.k} \subseteq {"int", "float"}

Same(a, b) == IF Numbers(a, b) THEN Amount(a) = Amount(b) ELSE a = b
Below(a, b) ==
    IF Numbers(a, b) THEN Amount(a) < Amount(b)
    ELSE /\ a.k = b.k
         /\ \E i \in 1..Min({Len(a.v) + 1, Len(b.v)}) :
              /\ SubSeq(a.v, 1, i - 1) = SubSeq(b.v, 1, i - 1)
              /\ i <= Len(a.v) => a.v[i] < b.v[i]
Comparable(a, b) == Same(a, b) \/ Below(a, b) \/ Below(b, a)

\* What an operation makes of the values of its operands.
Computed(op, a, b) ==
    LET same == Same(a, b)
        less == Below(a, b)
        more == Below(b, a)
    IN CASE Err \in {a, b} -> Err
         [] op = "="  -> BoolVal(same)
         [] op = "!=" -> BoolVal(~same)
         [] op = "<"  -> BoolVal(less)
         [] op = ">"  -> BoolVal(more)
         [] op = "<=" -> BoolVal(same \/ less)
         [] op = ">=" -> BoolVal(same \/ more)
         [] OTHER -> eval_binary_op(op, a, b)

RECURSIVE Meaning(_, _, _)
Meaning(q, e, b) ==
    CASE e.k = "const" -> e.v
      [] e.k = "col" ->
            LET ms == {m \in Meanings(q, e) : m[1] \in DOMAIN b}
                m == CHOOSE m \in ms : TRUE
            IN IF Cardinality(ms) # 1 THEN Err ELSE b[m[1]][m[2]]
      [] e.k = "binary" ->
            Computed(e.op, Meaning(q, e.left, b), Meaning(q, e.right, b))
      [] OTHER -> Err

(***************************************************************************)
(* FROM, ON and WHERE: the stream of the bindings that satisfy them, up to *)
(* the first condition that fails to evaluate.                             *)
(***************************************************************************)
Good(x) == [x |-> x, bad |-> FALSE]
Bad == [x |-> <<>>, bad |-> TRUE]

Satisfying(q, cond, b) ==
    LET v == IF cond = Absent THEN BoolVal(TRUE) ELSE Meaning(q, cond, b)
    IN CASE v = Err -> <<Bad>>
         [] v # Err /\ is_truthy(v) -> <<Good(b)>>
         [] OTHER -> <<>>

\* Each element of a stream replaced by those it gives rise to.
Expanded(stream, F(_)) ==
    FlattenSeq([i \in DOMAIN stream |->
        IF stream[i].bad THEN <<Bad>> ELSE F(stream[i].x)])

VisibleRows(db, table) == SelectSeq(db[table], LAMBDA row : row.visible)

Joined(q, db) ==
    LET withTable(stream, i) ==
          LET t == q.from[i]
              rows == VisibleRows(db, t.table)
              extended(b) == FlattenSeq([r \in DOMAIN rows |->
                                Satisfying(q, IF i = 1 THEN Absent ELSE q.on[i],
                                           (t.alias :> rows[r].values) @@ b)])
          IN Expanded(stream, extended)
    IN FoldLeftDomain(withTable, <<Good(<<>>)>>, q.from)

Bindings(q, db) == Expanded(Joined(q, db), LAMBDA b : Satisfying(q, q.where, b))

Fails(stream) == \E i \in DOMAIN stream : stream[i].bad
Elements(stream) == [i \in DOMAIN stream |-> stream[i].x]

(***************************************************************************)
(* GROUP BY: the groups, sequences of bindings, in any order.  A query     *)
(* without aggregation is seen as one whose groups are single bindings.    *)
(***************************************************************************)
RECURSIVE HasCall(_)
HasCall(e) == \/ e.k = "func"
              \/ e.k = "binary" /\ (HasCall(e.left) \/ HasCall(e.right))

Aggregating(q) ==
    q.group_by # <<>> \/ \E i \in DOMAIN q.select : HasCall(q.select[i].e)

GroupingValues(q, b) == [i \in DOMAIN q.group_by |-> Meaning(q, q.group_by[i], b)]

Groupings(q, bs) ==
    LET keys == {GroupingValues(q, bs[i]) : i \in DOMAIN bs}
        group(k) == SelectSeq(bs, LAMBDA b : GroupingValues(q, b) = k)
    IN CASE ~Aggregating(q) -> {[i \in DOMAIN bs |-> <<bs[i]>>]}
         [] Aggregating(q) /\ q.group_by = <<>> -> {<<bs>>}
         [] OTHER -> {[i \in DOMAIN s |-> group(s[i])] : s \in SetToSeqs(keys)}

\* An aggregate of the values that are not NULL.
Total(vals) ==
    IF \A i \in DOMAIN vals : vals[i].k = "int"
      THEN IntVal(MapThenSumSet(LAMBDA i : vals[i].v[1], DOMAIN vals))
      ELSE FloatVal(MapThenSumSet(LAMBDA i : AsFloat(vals[i]), DOMAIN vals))

Least(vals) == CHOOSE v \in ToSet(vals) : \A w \in ToSet(vals) : Below(v, w) \/ Same(v, w)
Greatest(vals) == CHOOSE v \in ToSet(vals) : \A w \in ToSet(vals) : Below(w, v) \/ Same(v, w)

AggregateOf(func, args) ==
    LET vals == SelectSeq(args, LAMBDA v : v # Null)
    IN CASE func = "count" -> IntVal(Len(vals))
         [] func # "count" /\ vals = <<>> -> Null
         [] func = "sum" /\ vals # <<>> -> Total(vals)
         [] func = "avg" /\ vals # <<>> -> FloatVal(AsFloat(Total(vals)) \div Len(vals))
         [] func = "min" /\ vals # <<>> -> Least(vals)
         [] func = "max" /\ vals # <<>> -> Greatest(vals)

\* An expression over a group.
RECURSIVE GroupMeaning(_, _, _)
GroupMeaning(q, e, g) ==
    CASE e.k = "func" ->
            LET args == [i \in DOMAIN g |->
                           IF e.arg = Star THEN IntVal(1) ELSE Meaning(q, e.arg, g[i])]
            IN IF Contains(args, Err) THEN Err ELSE AggregateOf(e.name, args)
      [] e.k = "binary" ->
            Computed(e.op, GroupMeaning(q, e.left, g), GroupMeaning(q, e.right, g))
      [] OTHER -> Meaning(q, e, IF g = <<>> THEN <<>> ELSE g[1])

(***************************************************************************)
(* SELECT, ORDER BY, LIMIT and OFFSET.                                     *)
(***************************************************************************)
Wildcard(q) ==
    FlattenSeq([i \in DOMAIN q.from |->
        [j \in DOMAIN Catalog[q.from[i].table] |->
            Item(Col(q.from[i].alias, Catalog[q.from[i].table][j].n))]])

Selected(q) ==
    FlattenSeq([i \in DOMAIN q.select |->
        IF q.select[i].e = Star THEN Wildcard(q) ELSE <<q.select[i]>>])

ResultRow(q, g) ==
    LET row == [i \in DOMAIN Selected(q) |-> GroupMeaning(q, Selected(q)[i].e, g)]
    IN IF Contains(row, Err) THEN <<Bad>> ELSE <<Good([row |-> row, group |-> g])>>

\* A key is the name of a result column, or an expression over the tables.
OrderKey(q, order, r) ==
    LET named == SelectInSeq(Selected(q), LAMBDA item : item.as = order.e)
    IN IF named # 0 THEN r.row[named] ELSE GroupMeaning(q, order.e, r.group)

\* The sequence of F(s[i]), as a tuple, so that TLC evaluates each of them once.
Listed(s, F(_)) == <<>> \o [i \in DOMAIN s |-> F(s[i])]

\* The values of a key that can all be compared, by how many are below them;
\* of others, NULL among values, only sort_by knows what order they get.
Ranked(column) ==
    LET vals == ToSet(column)
        rank(x) == IntVal(Cardinality({y \in vals : Below(y, x)}))
    IN IF \A x, y \in vals : Comparable(x, y) THEN Listed(column, rank) ELSE column

Orderings(q, rs) ==
    LET column(order) == Ranked(Listed(rs, LAMBDA r : OrderKey(q, order, r)))
        ranks == Listed(q.order_by, column)
        keys == [i \in DOMAIN rs |-> [j \in DOMAIN ranks |-> ranks[j][i]]]
        asc == [j \in DOMAIN q.order_by |-> q.order_by[j].asc]
    IN IF q.order_by = <<>> THEN {rs}
       ELSE {[i \in DOMAIN rs |-> rs[p[i]]] : p \in sort_by[[keys |-> keys, asc |-> asc]]}

First(q) == IF q.offset = NoNumber THEN 0 ELSE q.offset
Filled(q, rows) == q.limit # NoNumber /\ Len(rows) >= First(q) + q.limit
Page(q, rows) ==
    SubSeq(rows, First(q) + 1,
           IF Filled(q, rows) THEN First(q) + q.limit ELSE Len(rows))

\* The possible answers before paging: the rows up to the first error.
\* What has to be read as a whole, to group or to sort it, must not fail.
Answer(rows, err) == [rows |-> rows, err |-> err]

Answers(q, db) ==
    LET bs == Bindings(q, db)
        results == {Expanded([i \in DOMAIN gs |-> Good(gs[i])], LAMBDA g : ResultRow(q, g)) :
                       gs \in Groupings(q, Elements(SelectSeq(bs, LAMBDA b : ~b.bad)))}
        upTo(stream) == SelectInSeq(stream, LAMBDA r : r.bad) - 1
        whole(rs) == {Answer([i \in DOMAIN s |-> s[i].row], FALSE) :
                         s \in Orderings(q, Elements(rs))}
        partial(rs) == Answer([i \in 1..upTo(rs) |-> rs[i].x.row], TRUE)
        fetched(rs) == IF ~Fails(rs) THEN whole(rs)
                       ELSE IF q.order_by # <<>> THEN {Answer(<<>>, TRUE)}
                       ELSE {partial(rs)}
    IN IF Fails(bs) /\ (Aggregating(q) \/ q.order_by # <<>>)
         THEN {Answer(<<>>, TRUE)}
       ELSE IF Fails(bs)
         THEN fetched(Expanded(bs, LAMBDA b : ResultRow(q, <<b>>)))
       ELSE UNION {fetched(rs) : rs \in results}

\* A select list that names no column, or several at once.
RECURSIVE ColumnNames(_)
ColumnNames(e) ==
    CASE e.k = "col" -> {e}
      [] e.k = "binary" -> ColumnNames(e.left) \cup ColumnNames(e.right)
      [] e.k = "func" -> ColumnNames(e.arg)
      [] OTHER -> {}

\* Syntax that README.md:26-32 does not name.
RECURSIVE Foreign(_)
Foreign(e) ==
    CASE e.k = "binary" -> Foreign(e.left) \/ Foreign(e.right)
      [] e.k = "func" -> e.name \notin AggregateNames \/ Foreign(e.arg)
      [] OTHER -> e.k \notin {"const", "col", "star", "absent"}

IllFormed(q) ==
    \/ q.body # "select"
    \/ \E i \in DOMAIN q.on : Foreign(q.on[i])
    \/ Foreign(q.where)
    \/ \E i \in DOMAIN q.select : Foreign(q.select[i].e)
    \/ \E i \in DOMAIN q.group_by : Foreign(q.group_by[i])
    \/ \E i \in DOMAIN q.order_by : Foreign(q.order_by[i].e)
    \/ \E i \in DOMAIN q.from : q.from[i].table \notin DOMAIN Catalog
    \/ \E i \in DOMAIN q.select : \E c \in ColumnNames(q.select[i].e) :
          Cardinality(Meanings(q, c)) # 1

(***************************************************************************)
(* Correctness of the executor                                             *)
(***************************************************************************)

\* The rows returned so far begin an answer of the query, those returned
\* by the time next() says None are all of it, and no error was passed over
\* unless LIMIT stopped before it.  It holds after init() was called again,
\* and next() after None adds nothing (the operators' init/next/close).
AnswersRight ==
    phase \in {"open", "done", "closed"} =>
        \E a \in Answers(query, tables) :
            /\ IsPrefix(out, Page(query, a.rows))
            /\ phase # "open" =>
                 out = Page(query, a.rows) /\ (a.err => Filled(query, a.rows))

\* A statement fails only if the query has an error, and not once LIMIT
\* rows have been returned (the ? of every init and next).
ErrorsJustified ==
    phase = "failed" =>
        \/ IllFormed(query)
        \/ \E a \in Answers(query, tables) :
              /\ a.err
              /\ IsPrefix(out, Page(query, a.rows))
              /\ out = <<>> \/ ~Filled(query, a.rows)

=============================================================================

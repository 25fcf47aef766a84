----------------------------- MODULE MCExecutor -----------------------------
(***************************************************************************)
(* Small tables and families of SELECTs over them, for TLC.                *)
(***************************************************************************)
EXTENDS SelectSemantics

MCCatalog ==
    [users |-> <<[n |-> "id", type |-> "int"], [n |-> "name", type |-> "varchar"],
                 [n |-> "age", type |-> "int"]>>,
     orders |-> <<[n |-> "user_id", type |-> "int"], [n |-> "amount", type |-> "float"]>>]

Seen(values) == [values |-> values, visible |-> TRUE]
Unseen(values) == [values |-> values, visible |-> FALSE]

Ann == Varchar(<<1>>)
Bob == Varchar(<<1, 2>>)
AnnUser == Seen(<<IntVal(1), Ann, IntVal(3)>>)
BobUser == Seen(<<IntVal(2), Bob, IntVal(1)>>)
OtherAnn == Seen(<<IntVal(3), Ann, IntVal(1)>>)
AgelessBob == Seen(<<IntVal(4), Bob, Null>>)
HiddenUser == Unseen(<<IntVal(5), Ann, IntVal(9)>>)
OrderOf(user, amount) == Seen(<<IntVal(user), amount>>)
HiddenOrder == Unseen(<<IntVal(1), FloatVal(24)>>)

\* An INT literal in a FLOAT column stays an INT.
AllUsers == <<AnnUser, BobUser, OtherAnn>>
SomeUsers == <<BobUser, HiddenUser, AgelessBob, AnnUser>>
Large == <<OrderOf(1, FloatVal(18)), HiddenOrder, OrderOf(3, FloatVal(12))>>
Mixed == <<OrderOf(2, FloatVal(-6)), OrderOf(1, IntVal(2)), OrderOf(2, FloatVal(30))>>
Whole == <<OrderOf(2, IntVal(-7)), OrderOf(0, IntVal(4)), OrderOf(1, IntVal(-2))>>

MCDatabases ==
    {[users |-> pair[1], orders |-> pair[2]] :
        pair \in {<<<<>>, Mixed>>, <<AllUsers, <<>>>>, <<AllUsers, Large>>, <<AllUsers, Mixed>>,
                 <<SomeUsers, Large>>, <<SomeUsers, Mixed>>, <<<<AgelessBob>>, Mixed>>,
                 <<<<AgelessBob>>, Whole>>}}

ASSUME CompleteRows == \A db \in Databases : RowsHaveColumns(db)

\* The expressions of the queries.  The parser has no negative literals and
\* no parentheses: they are expressions that precedences give.
id == Col(NoQualifier, "id")
name == Col(NoQualifier, "name")
age == Col(NoQualifier, "age")
amount == Col(NoQualifier, "amount")
userId == Col("users", "id")
orderUser == Col("orders", "user_id")
Alias(n) == Col(NoQualifier, n)
Num(i) == Const(IntVal(i))
Minus(i) == BinaryOp("-", Num(0), Num(i))

\* The conditions fail on some rows: NULL - 1.
Conditions ==
    {Absent,
     BinaryOp("or", BinaryOp(">=", age, Num(3)), BinaryOp("=", age, Const(Null))),
     BinaryOp(">=", BinaryOp("-", BinaryOp("/", Num(7), id), age), Minus(2))}

SameUser == BinaryOp("=", userId, orderUser)
OnConditions == {Absent, SameUser, BinaryOp(">", BinaryOp("*", age, amount), Num(1))}
Earlier == BinaryOp("<", Col("a", "id"), Col("b", "id"))
NotLarger == BinaryOp("<=", Col("orders", "amount"), Col("o2", "amount"))

Ratio == BinaryOp("/", amount, Col(NoQualifier, "user_id"))
UnusualRatio == BinaryOp("!=", Ratio, Minus(3))
Cheap == BinaryOp("<", amount, Num(2))
Positive == BinaryOp(">", amount, Num(0))
FirstId == BinaryOp("=", id, Num(1))
LaterId == BinaryOp(">", id, Num(1))
LowId == BinaryOp("<", id, Num(4))

NextAge == BinaryOp("+", age, Num(1))
AgeAndId == BinaryOp("+", age, id)
Square == BinaryOp("*", id, id)
Twice == BinaryOp("*", amount, Num(2))
Three == BinaryOp("+", Num(1), Num(2))

CountAll == FuncCall("count", Star)
OfAge(f) == FuncCall(f, age)
Mean == BinaryOp("/", OfAge("sum"), OfAge("count"))
Calls ==
    {CountAll, FuncCall("max", AgeAndId)} \cup {OfAge(f) : f \in AggregateNames \cup {"median"}}
    \cup {FuncCall(f, amount) : f \in {"sum", "avg"}}
    \cup {FuncCall(f, name) : f \in {"min", "max"}}
HalfKnown == BinaryOp("and", FirstId, Unknown)

Table(t) == [table |-> t, alias |-> t]
Users == <<Table("users")>>
UsersOrders == <<Table("users"), Table("orders")>>
Pairs == <<[table |-> "users", alias |-> "a"], [table |-> "users", alias |-> "b"]>>
ThreeTables == <<Table("orders"), Table("users"), [table |-> "orders", alias |-> "o2"]>>
Everything == <<[e |-> Star, as |-> Star]>>

Asc(e) == [e |-> e, asc |-> TRUE]
Desc(e) == [e |-> e, asc |-> FALSE]

Select(items, from) ==
    [body |-> "select", from |-> from, on |-> <<Absent, Absent, Absent>>, where |-> Absent,
     select |-> items, group_by |-> <<>>, order_by |-> <<>>,
     limit |-> NoNumber, offset |-> NoNumber]

Projections == {Everything, <<Item(userId), ItemAs(NextAge, "next"), Item(name)>>}

\* LIMIT and OFFSET: none, before, at and after the last row.
Paged(q) ==
    {[q EXCEPT !.limit = page[1], !.offset = page[2]] :
        page \in {<<NoNumber, NoNumber>>, <<0, NoNumber>>, <<1, NoNumber>>, <<NoNumber, 3>>,
                 <<1, 1>>, <<2, 1>>, <<1, 3>>, <<0, 1>>}}

\* WHERE and paging; the second projection fails on a NULL age.
Scans ==
    UNION {Paged([Select(p, Users) EXCEPT !.where = c]) : p \in Projections, c \in Conditions}

\* A quotient of integers, rounded towards zero, or a division by zero.
Quotients ==
    {[Select(Everything, <<Table("orders")>>) EXCEPT !.where = UnusualRatio],
     Select(<<ItemAs(Ratio, "ratio")>>, <<Table("orders")>>)}

Joins ==
    LET both == {[Select(Everything, UsersOrders) EXCEPT !.on[2] = c, !.where = w] :
                    c \in OnConditions, w \in {Absent, Cheap}}
        pairs == [Select(<<Item(Col("b", "id")), Item(Col("a", "name"))>>, Pairs)
                    EXCEPT !.on[2] = Earlier]
        three == [Select(<<Item(userId), Item(Col("o2", "amount"))>>, ThreeTables)
                    EXCEPT !.on[2] = SameUser, !.on[3] = NotLarger]
    IN both \cup {pairs, three, [three EXCEPT !.limit = 1, !.offset = 1]}

\* Several keys, ties, NULL keys, keys that are aliases.
Sorts ==
    LET items == <<Item(age), Item(id), ItemAs(Square, "square")>>
        orders == {<<Asc(age)>>, <<Desc(age)>>, <<Asc(age), Desc(id)>>,
                   <<Desc(Alias("square"))>>}
        joined == [Select(<<Item(amount), Item(name)>>, UsersOrders)
                     EXCEPT !.order_by = <<Desc(amount), Asc(name)>>]
    IN {joined, [joined EXCEPT !.limit = 2]}
       \cup UNION {Paged([Select(items, Users) EXCEPT !.order_by = o]) : o \in orders}

Aggregations ==
    LET every == Select(<<Item(CountAll), Item(OfAge("count")), Item(OfAge("sum")),
                          Item(OfAge("avg")), Item(OfAge("min")), Item(OfAge("max"))>>, Users)
        ratio == [Select(<<Item(name), ItemAs(Mean, "mean"), Item(CountAll)>>, Users)
                    EXCEPT !.group_by = <<name>>]
        amounts == [Select(<<Item(userId), Item(FuncCall("sum", amount)),
                             Item(FuncCall("avg", amount))>>, UsersOrders)
                      EXCEPT !.on[2] = SameUser, !.group_by = <<userId>>]
    IN {every, ratio, amounts, [every EXCEPT !.group_by = <<name, age>>],
        [Select(<<Item(FuncCall("max", AgeAndId))>>, Users) EXCEPT !.where = LaterId],
        [ratio EXCEPT !.limit = 1], [ratio EXCEPT !.order_by = <<Asc(name)>>],
        [amounts EXCEPT !.order_by = <<Desc(userId)>>],
        [Select(<<Item(FuncCall("min", name)), Item(FuncCall("max", name))>>, Users)
            EXCEPT !.where = LowId]}

\* No table, an unknown column, an unknown table, syntax that is refused.
Others ==
    LET users == Select(<<Item(id)>>, Users)
        pair == Select(<<Item(userId)>>, UsersOrders)
    IN {Select(<<ItemAs(Three, "three")>>, <<>>),
        Select(<<Item(Alias("nobody"))>>, Users),
        Select(Everything, <<Table("nowhere")>>),
        [users EXCEPT !.body = "union"],
        [users EXCEPT !.where = HalfKnown],
        [users EXCEPT !.select = <<Item(OfAge("median"))>>],
        [users EXCEPT !.group_by = <<Unknown>>],
        [users EXCEPT !.order_by = <<Asc(Unknown)>>],
        [pair EXCEPT !.on[2] = OuterJoin]}

MCQueries == Scans \cup Quotients \cup Joins \cup Sorts \cup Aggregations \cup Others

\* README.md:160-164: the sort key is a column the projection drops.
ReadmeQueries ==
    {[Select(<<Item(name), ItemAs(Twice, "adjusted_amount")>>, UsersOrders)
        EXCEPT !.on[2] = SameUser, !.where = Positive,
               !.order_by = <<Desc(Col("orders", "amount"))>>]}

\* All that is written in the queries, with operands, and with references in
\* the place of aggregates.
Columns ==
    {Col(t, n) : t \in {NoQualifier, "users", "orders", "a", "b", "o2"},
                 n \in {"id", "name", "age", "user_id", "amount"}}
    \cup {Alias(n) : n \in {"next", "ratio", "square", "mean", "three", "nobody", "adjusted_amount"}}

Written ==
    Columns \cup Conditions \cup OnConditions \cup Calls
    \cup {Star, Unknown, OuterJoin, HalfKnown, Earlier, NotLarger, UnusualRatio, Cheap, Positive,
          LaterId, LowId, NextAge, Square, Twice, Three, Mean}

Replaced(e) == IF e.k = "func" THEN Ref(e) ELSE e
WithRefs(e) ==
    {e, IF e.k = "binary" THEN BinaryOp(e.op, Replaced(e.left), Replaced(e.right))
                          ELSE Replaced(e)}

WithOperands(es) ==
    UNION {{e} \cup CASE e.k = "binary" -> {e.left, e.right}
                      [] e.k = "func" -> {e.arg}
                      [] OTHER -> {} : e \in es}

AllExpressions == WithOperands(WithOperands(WithOperands(UNION {WithRefs(e) : e \in Written})))
MCExpr == AllExpressions

depths[e \in MCExpr] ==
    CASE e.k = "binary" -> 1 + Max({depths[e.left], depths[e.right]})
      [] e.k = "func" -> 1 + depths[e.arg]
      [] OTHER -> 0

MCDepth(e) == depths[e]

=============================================================================

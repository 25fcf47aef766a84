----------------------------- MODULE MCDatabase -----------------------------
(***************************************************************************)
(* Instances of Database for TLC.  The .cfg files choose among these       *)
(* values; each is small, and README.md says why it is large enough.       *)
(***************************************************************************)
EXTENDS DatabaseRefinement

CONSTANTS s1, s2, t1, t2, t3, v1, wide

TwoSessions == {s1, s2}
OneTable == {t1}
TwoTables == {t1, t2}
ThreeTables == {t1, t2, t3}
OneValue == {v1}
NarrowAndWide == {v1, wide}

None == {}

Tx1 == 1..1
Tx2 == 1..2

\* v1 is a row of one column, wide of two.
MCWidth == [v \in Values |-> IF v = wide THEN 2 ELSE 1]

NoDemo == [t \in Tables |-> <<>>]
DemoInT1 == [t \in Tables |-> IF t = t1 THEN <<v1>> ELSE <<>>]

Shared == [t \in Tables |-> Sessions]
Exclusive == [t \in Tables |-> IF t = t2 THEN {s2} ELSE {s1}]

SingleRows == {<<v>> : v \in Values}
OneOrTwoRows == {<<v1>>, <<v1, v1>>}
Statements == {<<v1>>, <<v1, v1>>, <<v1, wide>>, <<wide>>, <<wide, v1>>}

\* Transactions begun in the first, second, third run of the server.
Budget1 == <<1>>
Budget2 == <<2>>
Budget11 == <<1, 1>>
Budget20 == <<2, 0>>
Budget21 == <<2, 1>>
Budget210 == <<2, 1, 0>>

AtRecord == {"line"}
CleanTails == {"line", "noeol", "torn"}
AllTails == {"line", "noeol", "torn", "torn8"}
TornTails == {"line", "torn"}

=============================================================================

-------------------------- MODULE RefinementProofs --------------------------
(***************************************************************************)
(* The running database implements ReadCommitted, for every number of      *)
(* sessions, tables, values and transactions: when no transaction begins   *)
(* after a restart, into every table one session inserts, the disk does    *)
(* not fail and every value survives JSON.  A crash may cut any write.     *)
(*                                                                         *)
(* Bags are compared through counts: how many rows with value v a table    *)
(* has, how many records with value v the log has.  Mirrored says that     *)
(* the counts in memory and in the log agree: for committed transactions   *)
(* with what recovery would bring back, for an open one with its records   *)
(* in the log and in the buffer behind it.                                 *)
(***************************************************************************)
EXTENDS TransactionProofs, DatabaseRefinement

(***************************************************************************)
(* More on counting in sequences.                                          *)
(***************************************************************************)
LEMMA CountSame ==
    ASSUME NEW s, NEW G, NEW H, \A i \in 1..Len(s) : s[i] \in G <=> s[i] \in H
    PROVE  Count(s, G) = Count(s, H)
<1>1. Hits(s, G) = Hits(s, H)
  BY DEF Hits
<1> QED BY <1>1 DEF Count

LEMMA CountApart ==
    ASSUME NEW S, NEW s \in Seq(S), NEW G, NEW H, NEW both,
           \A e \in S : /\ e \in both <=> e \in G \/ e \in H
                        /\ ~(e \in G /\ e \in H)
    PROVE  Count(s, both) = Count(s, G) + Count(s, H)
<1>1. \A i \in 1..Len(s) : s[i] \in S
  OBVIOUS
<1>2. Hits(s, both) = Hits(s, G) \cup Hits(s, H) /\ Hits(s, G) \cap Hits(s, H) = {}
  BY <1>1 DEF Hits
<1>3. /\ IsFiniteSet(Hits(s, G)) /\ IsFiniteSet(Hits(s, H))
      /\ Count(s, G) \in Nat /\ Count(s, H) \in Nat
  BY CountType
<1>4. Cardinality(Hits(s, both)) =
         Cardinality(Hits(s, G)) + Cardinality(Hits(s, H)) - Cardinality({})
  BY <1>2, <1>3, FS_Union
<1>5. Cardinality({}) = 0
  BY FS_EmptySet
<1> QED BY <1>3, <1>4, <1>5 DEF Count

\* K holds the positions of the elements in H; both is what G and H share.
Selects(s, K, G, H, both) ==
    \A i \in 1..Len(s) : /\ i \in K <=> s[i] \in H
                         /\ s[i] \in both <=> s[i] \in G /\ s[i] \in H

LEMMA CountPickedIn ==
    ASSUME NEW S, NEW s \in Seq(S), NEW K, NEW G, NEW H, NEW both,
           Selects(s, K, G, H, both)
    PROVE  Picked(s, K) \in Seq(S) /\ Count(Picked(s, K), G) = Count(s, both)
<1> DEFINE same(x, i) == Count(x, G) = Count(SubSeq(s, 1, i), both)
           A == [i \in 0..Len(s) |-> {x \in Seq(S) : same(x, i)}]
<1>1. Len(s) \in Nat
  OBVIOUS
<1>2. <<>> \in A[0]
  <2>1. <<>> \in Seq(S) /\ SubSeq(s, 1, 0) = <<>>
    BY <1>1
  <2>2. \A i \in 1..Len(<<>>) : FALSE
    OBVIOUS
  <2>3. Count(<<>>, G) = 0 /\ Count(<<>>, both) = 0
    BY <2>2, CountNone
  <2>4. same(<<>>, 0)
    BY <2>1, <2>3
  <2> HIDE DEF same
  <2> QED BY <1>1, <2>1, <2>4
<1>3. ASSUME NEW i \in 1..Len(s), NEW x \in Seq(S), x \in A[i - 1]
      PROVE  (IF i \in K THEN Append(x, s[i]) ELSE x) \in A[i]
  <2> DEFINE h == i - 1
             e == <<s[i]>>
             p == SubSeq(s, 1, h)
  <2>1. h \in 0..Len(s) /\ i \in 0..Len(s)
    BY <1>1
  <2>2. e \in Seq(S) /\ p \in Seq(S) /\ SubSeq(s, 1, i) = p \o e /\ Append(x, s[i]) = x \o e
    BY <1>1
  <2>3. x \in A[h]
    BY <1>3
  <2>4. Len(e) = 1 /\ e[1] = s[i]
    OBVIOUS
  <2> HIDE DEF h, e, p
  <2>5. Count(x, G) = Count(p, both)
    <3>1. x \in {v \in Seq(S) : same(v, h)}
      BY <2>1, <2>3, Zenon
    <3> QED BY <3>1 DEF p
  <2>6. /\ Count(p \o e, both) = Count(p, both) + Count(e, both)
        /\ Count(x \o e, G) = Count(x, G) + Count(e, G)
        /\ Count(x, G) \in Nat /\ Count(p, both) \in Nat /\ Count(e, G) \in Nat
    BY <2>2, CountConcat, CountType
  <2>7. x \o e \in Seq(S)
    BY <2>2, ConcatProperties
  <2>8. CASE i \in K
    <3>1. \A k \in 1..Len(e) : e[k] \in G <=> e[k] \in both
      BY <2>4, <2>8 DEF Selects
    <3>2. Count(e, G) = Count(e, both)
      BY <3>1, CountSame
    <3>3. Count(x \o e, G) = Count(SubSeq(s, 1, i), both)
      BY <2>2, <2>5, <2>6, <3>2
    <3>4. same(x \o e, i)
      BY <3>3
    <3> HIDE DEF same
    <3>5. x \o e \in A[i]
      BY <2>1, <2>7, <3>4
    <3> HIDE DEF A
    <3> QED BY <2>2, <2>8, <3>5
  <2>9. CASE i \notin K
    <3>1. \A k \in 1..Len(e) : e[k] \notin both
      BY <2>4, <2>9 DEF Selects
    <3>2. Count(e, both) = 0
      BY <3>1, CountNone
    <3>3. Count(x, G) = Count(SubSeq(s, 1, i), both)
      <4>1. Count(p \o e, both) = Count(p, both)
        BY <2>6, <3>2
      <4> QED BY <2>2, <2>5, <4>1
    <3>4. same(x, i)
      BY <3>3
    <3> HIDE DEF same
    <3>5. x \in A[i]
      BY <2>1, <3>4
    <3> HIDE DEF A
    <3> QED BY <2>9, <3>5
  <2> QED BY <2>8, <2>9
<1>4. Picked(s, K) \in Seq(S) /\ Picked(s, K) \in A[Len(s)]
  <2> HIDE DEF A
  <2> QED BY <1>2, <1>3, PickedStages
<1>5. Len(s) \in 0..Len(s) /\ SubSeq(s, 1, Len(s)) = s
  BY <1>1
<1> QED BY <1>4, <1>5
-----------------------------------------------------------------------------
(***************************************************************************)
(* Bags of values as counts.                                               *)
(***************************************************************************)
BagOf(f) == [v \in {u \in Values : f[u] > 0} |-> f[v]]
Plus(f, g) == [v \in Values |-> f[v] + g[v]]
NoneOf == [v \in Values |-> 0]

LEMMA BagSum ==
    ASSUME NEW f \in [Values -> Nat], NEW g \in [Values -> Nat]
    PROVE  BagOf(f) (+) BagOf(g) = BagOf(Plus(f, g))
<1> DEFINE a == BagOf(f)
           b == BagOf(g)
           D == {u \in Values : f[u] + g[u] > 0}
<1>1. \A v \in Values : f[v] \in Nat /\ g[v] \in Nat /\ Plus(f, g)[v] = f[v] + g[v]
  BY DEF Plus
<1>2. /\ DOMAIN a = {u \in Values : f[u] > 0} /\ DOMAIN b = {u \in Values : g[u] > 0}
      /\ \A v \in DOMAIN a : a[v] = f[v]
      /\ \A v \in DOMAIN b : b[v] = g[v]
  BY DEF BagOf
<1> HIDE DEF a, b
<1>3. DOMAIN a \cup DOMAIN b = D
  BY <1>1, <1>2
<1>4. ASSUME NEW v \in D
      PROVE  (IF v \in DOMAIN a THEN a[v] ELSE 0) + (IF v \in DOMAIN b THEN b[v] ELSE 0)
                = f[v] + g[v]
  <2>1. v \in Values /\ f[v] \in Nat /\ g[v] \in Nat
    BY <1>1
  <2>2. (IF v \in DOMAIN a THEN a[v] ELSE 0) = f[v]
    BY <1>2, <2>1
  <2>3. (IF v \in DOMAIN b THEN b[v] ELSE 0) = g[v]
    BY <1>2, <2>1
  <2> QED BY <2>2, <2>3
<1>5. a (+) b = [v \in D |-> f[v] + g[v]]
  BY <1>3, <1>4 DEF (+)
<1>6. BagOf(Plus(f, g)) = [v \in D |-> f[v] + g[v]]
  <2>1. {u \in Values : Plus(f, g)[u] > 0} = D
    BY <1>1
  <2> QED BY <1>1, <2>1 DEF BagOf
<1> QED BY <1>5, <1>6 DEF a, b

LEMMA BagNone == NoneOf \in [Values -> Nat] /\ EmptyBag = BagOf(NoneOf)
<1>1. {u \in Values : NoneOf[u] > 0} = {}
  BY DEF NoneOf
<1> QED BY <1>1 DEF EmptyBag, SetToBag, BagOf, NoneOf

\* How often each value is in a list.
CountsOf(vals) == [v \in Values |-> Count(vals, {v})]

LEMMA BagOfValues ==
    ASSUME NEW vals \in Seq(Values)
    PROVE  CountsOf(vals) \in [Values -> Nat] /\ ToBag(vals) = BagOf(CountsOf(vals))
<1> DEFINE f == CountsOf(vals)
<1>1. DOMAIN vals = 1..Len(vals) /\ Len(vals) \in Nat
  OBVIOUS
<1>2. \A v \in Values : f[v] = Count(vals, {v}) /\ f[v] \in Nat
  BY CountType DEF CountsOf
<1>3. \A v : Cardinality({i \in DOMAIN vals : vals[i] = v}) = Count(vals, {v})
  <2>1. \A v : {i \in DOMAIN vals : vals[i] = v} = Hits(vals, {v})
    BY <1>1 DEF Hits
  <2> QED BY <2>1 DEF Count
<1>4. Range(vals) = {u \in Values : f[u] > 0}
  <2>1. ASSUME NEW v \in Range(vals) PROVE v \in Values /\ f[v] > 0
    <3>1. PICK i \in 1..Len(vals) : vals[i] = v
      BY <1>1 DEF Range
    <3>2. v \in Values
      BY <3>1
    <3>3. Hits(vals, {v}) # {} /\ IsFiniteSet(Hits(vals, {v}))
      BY <3>1, CountType DEF Hits
    <3>4. Count(vals, {v}) # 0
      BY <3>3, FS_EmptySet DEF Count
    <3> QED BY <1>2, <3>2, <3>4
  <2>2. ASSUME NEW v \in Values, f[v] > 0 PROVE v \in Range(vals)
    <3>1. Count(vals, {v}) # 0
      BY <1>2, <2>2
    <3>2. Hits(vals, {v}) # {}
      BY <3>1, FS_EmptySet DEF Count
    <3> QED BY <1>1, <3>2 DEF Hits, Range
  <2> QED BY <2>1, <2>2
<1>5. ToBag(vals) = BagOf(f)
  <2>1. \A v \in Range(vals) : f[v] = Cardinality({i \in DOMAIN vals : vals[i] = v})
    BY <1>2, <1>3, <1>4
  <2> HIDE DEF f
  <2> QED BY <1>4, <2>1 DEF ToBag, BagOf
<1> QED BY <1>2, <1>5 DEF CountsOf


\* The rows with value v; those that are of a transaction with a status.
WithVal(v) == {r \in Row : r.val = v}
CommittedWith(stats, v) ==
    {r \in Row : r.val = v /\ r.tx_id \in TxIds /\ stats[r.tx_id] = "Committed"}

\* The insert records into t with value v of the transactions in X.
InsertsBy(X, t, v) == {r \in InsertRecords : r.tx_id \in X /\ r.table = t /\ r.val = v}
DurableCount(log, t, v) == Count(log, InsertsBy(Kept(log), t, v))

CommittedMirrored(tbls, log, stats) ==
    \A t \in Tables : \A v \in Values :
        Count(tbls[t], CommittedWith(stats, v)) = DurableCount(log, t, v)

OpenMirrored(tbls, log, x) ==
    \A t \in Tables : \A v \in Values :
        Count(tbls[t], RowWith(x, v)) = Count(log, InsertsInto(x, t, v))

\* The invariant.
Mirrored ==
    /\ Undoable /\ Published /\ BufferOpen
    /\ boots = 0 \/ (up /\ boots = 1) => eol
    /\ up => CommittedMirrored(tables, redo_log, statuses)
    /\ \A s \in Sessions : current_tx_id[s] # NoTx =>
          OpenMirrored(tables, History, current_tx_id[s])
-----------------------------------------------------------------------------
(***************************************************************************)
(* The bags of the refinement as counts.                                   *)
(***************************************************************************)
RowCounts(rows) == [v \in Values |-> Count(rows, WithVal(v))]
MemoryCounts(rows, x) == [v \in Values |-> Count(rows, RowWith(x, v))]
DurableCounts(log, t) == [v \in Values |-> DurableCount(log, t, v)]

LEMMA RowsAsBag ==
    ASSUME NEW rows \in Seq(Row)
    PROVE  RowCounts(rows) \in [Values -> Nat] /\ ValuesOf(rows) = BagOf(RowCounts(rows))
<1> DEFINE vals == [i \in DOMAIN rows |-> rows[i].val]
<1>1. /\ Len(rows) \in Nat /\ DOMAIN rows = 1..Len(rows)
      /\ \A i \in 1..Len(rows) : rows[i] \in Row /\ rows[i].val \in Values
  <2>1. \A r \in Row : r.val \in Values
    BY DEF Row
  <2>2. Len(rows) \in Nat /\ DOMAIN rows = 1..Len(rows) /\ \A i \in 1..Len(rows) : rows[i] \in Row
    OBVIOUS
  <2> QED BY <2>1, <2>2
<1>2. /\ vals \in Seq(Values) /\ Len(vals) = Len(rows)
      /\ \A i \in 1..Len(rows) : vals[i] = rows[i].val
  <2>1. vals \in [1..Len(rows) -> Values]
    BY <1>1
  <2> QED BY <1>1, <2>1, FunctionSeq
<1>3. ToBag(vals) = ValuesOf(rows)
  BY DEF ValuesOf
<1> HIDE DEF vals
<1>4. ASSUME NEW v \in Values PROVE Count(vals, {v}) = Count(rows, WithVal(v))
  <2>1. Hits(vals, {v}) = Hits(rows, WithVal(v))
    BY <1>1, <1>2 DEF Hits, WithVal
  <2> QED BY <2>1 DEF Count
<1>5. CountsOf(vals) = RowCounts(rows)
  BY <1>4 DEF CountsOf, RowCounts
<1> QED BY <1>2, <1>3, <1>5, BagOfValues

LEMMA MemoryAsBag ==
    ASSUME NEW rows \in Seq(Row), NEW x \in RowTxs
    PROVE  /\ MemoryCounts(rows, x) \in [Values -> Nat]
           /\ ValuesOf(Picked(rows, {i \in DOMAIN rows : rows[i].tx_id = x}))
                 = BagOf(MemoryCounts(rows, x))
<1> DEFINE K == {i \in DOMAIN rows : rows[i].tx_id = x}
           H == {r \in Row : r.tx_id = x}
           mine == Picked(rows, K)
<1>1. DOMAIN rows = 1..Len(rows) /\ \A i \in 1..Len(rows) : rows[i] \in Row
  OBVIOUS
<1>2. ASSUME NEW v \in Values, NEW r \in Row
      PROVE  r \in RowWith(x, v) <=> r \in WithVal(v) /\ r \in H
  BY DEF RowWith, WithVal, Row
<1>3. \A i \in 1..Len(rows) : i \in K <=> rows[i] \in H
  BY <1>1
<1> HIDE DEF K, H
<1>4. ASSUME NEW v \in Values
      PROVE  mine \in Seq(Row) /\ Count(mine, WithVal(v)) = Count(rows, RowWith(x, v))
  <2>1. Selects(rows, K, WithVal(v), H, RowWith(x, v))
    BY <1>1, <1>2, <1>3 DEF Selects
  <2> QED BY <2>1, CountPickedIn
<1>5. mine \in Seq(Row)
  BY <1>1, CountPicked
<1> HIDE DEF mine
<1>6. RowCounts(mine) = MemoryCounts(rows, x)
  BY <1>4 DEF RowCounts, MemoryCounts
<1> QED BY <1>5, <1>6, RowsAsBag DEF mine, K

\* What recovery brings back, row for row.
Recovers(log, t, recs, rows) ==
    /\ rows \in Seq(Row) /\ recs \in Seq(LogLines)
    /\ Len(rows) = Len(recs) /\ Len(recs) \in Nat
    /\ \A i \in 1..Len(recs) :
          /\ recs[i] \in InsertRecords /\ recs[i].tx_id \in Kept(log)
          /\ rows[i] = [val |-> recs[i].val, tx_id |-> recs[i].tx_id]

LEMMA RecoveredShape ==
    ASSUME NEW log \in Seq(LogLines), NEW t
    PROVE  Recovers(log, t, Picked(log, Replayed(log, t)), RecoveredRows(log, t))
<1> DEFINE K == Replayed(log, t)
           recs == Picked(log, K)
           rows == RecoveredRows(log, t)
           E == {log[i] : i \in K \cap 1..Len(log)}
<1>1. recs \in Seq(LogLines) /\ Len(recs) \in Nat
  <2>1. recs \in Seq(LogLines)
    <3> HIDE DEF K
    <3> QED BY CountPicked
  <2> HIDE DEF recs
  <2> QED BY <2>1
<1>2. \A i \in 1..Len(recs) : recs[i] \in E
  <2>1. recs \in Seq(E)
    <3> HIDE DEF K
    <3> QED BY PickedType
  <2> HIDE DEF recs, E
  <2> QED BY <2>1
<1>3. \A l \in E : l \in InsertRecords /\ l.tx_id \in Kept(log)
  <2>1. ASSUME NEW i \in K PROVE log[i] \in InsertRecords /\ log[i].tx_id \in Kept(log)
    <3>1. i \in 1..Len(log) /\ log[i].type = "insert" /\ log[i].tx_id \in Kept(log)
      BY DEF Replayed, OfKind
    <3>2. log[i] \in LogLines
      BY <3>1
    <3> QED BY <3>1, <3>2 DEF LogLines, RedoRecords, StatusRecords, InsertRecords, Garbage, BadUtf8
  <2> QED BY <2>1
<1> HIDE DEF K, recs, E
<1>4. rows = [i \in 1..Len(recs) |-> [val |-> recs[i].val, tx_id |-> recs[i].tx_id]]
  BY <1>1 DEF RecoveredRows, recs, K
<1>5. \A i \in 1..Len(recs) : rows[i] = [val |-> recs[i].val, tx_id |-> recs[i].tx_id]
  BY <1>4
<1>6. rows \in Seq(Row) /\ Len(rows) = Len(recs)
  <2>1. \A i \in 1..Len(recs) : [val |-> recs[i].val, tx_id |-> recs[i].tx_id] \in Row
    BY <1>2, <1>3 DEF InsertRecords, Row
  <2>2. rows \in [1..Len(recs) -> Row]
    BY <1>4, <2>1
  <2> HIDE DEF rows
  <2> QED BY <1>1, <2>2, FunctionSeq
<1> HIDE DEF rows
<1>7. Recovers(log, t, recs, rows)
  BY <1>1, <1>2, <1>3, <1>5, <1>6 DEF Recovers
<1> QED BY <1>7 DEF recs, rows, K

LEMMA RecoveredAsBag ==
    ASSUME NEW log \in Seq(LogLines), NEW t \in Tables
    PROVE  /\ DurableCounts(log, t) \in [Values -> Nat]
           /\ RowCounts(RecoveredRows(log, t)) = DurableCounts(log, t)
           /\ ValuesOf(RecoveredRows(log, t)) = BagOf(DurableCounts(log, t))
<1> DEFINE K == Replayed(log, t)
           recs == Picked(log, K)
           rows == RecoveredRows(log, t)
           H == {r \in InsertRecords : r.table = t /\ r.tx_id \in Kept(log)}
           G(v) == {r \in InsertRecords : r.val = v}
<1>1. Recovers(log, t, recs, rows)
  BY RecoveredShape
<1>2. \A i \in 1..Len(log) : i \in K <=> log[i] \in H
  <2>1. ASSUME NEW i \in 1..Len(log) PROVE log[i] \in InsertRecords <=> log[i].type = "insert"
    <3>1. log[i] \in LogLines
      OBVIOUS
    <3> QED BY <3>1 DEF LogLines, RedoRecords, StatusRecords, InsertRecords, Garbage, BadUtf8
  <2> QED BY <2>1 DEF Replayed, OfKind
<1> HIDE DEF K, rows
<1>3. ASSUME NEW v \in Values
      PROVE  Count(rows, WithVal(v)) = DurableCount(log, t, v)
  <2> DEFINE g == G(v)
             b == InsertsBy(Kept(log), t, v)
  <2>1. \A i \in 1..Len(log) : log[i] \in b <=> log[i] \in g /\ log[i] \in H
    BY DEF InsertsBy
  <2> HIDE DEF H, g, b
  <2>2. Selects(log, K, g, H, b)
    BY <1>2, <2>1 DEF Selects
  <2>3. Count(recs, g) = Count(log, b)
    BY <2>2, CountPickedIn
  <2> HIDE DEF recs
  <2>4. /\ \A r \in Row : r \in WithVal(v) <=> r.val = v
        /\ \A r \in InsertRecords : r \in g <=> r.val = v
    BY DEF WithVal, g
  <2>5. ASSUME NEW i \in 1..Len(rows) PROVE rows[i] \in WithVal(v) <=> recs[i] \in g
    <3>1. rows \in Seq(Row) /\ i \in 1..Len(recs)
      BY <1>1 DEF Recovers
    <3>2. rows[i] \in Row
      BY <3>1
    <3>3. /\ recs[i] \in InsertRecords
          /\ rows[i] = [val |-> recs[i].val, tx_id |-> recs[i].tx_id]
      BY <1>1, <3>1 DEF Recovers
    <3>4. rows[i].val = recs[i].val
      BY <3>3
    <3> QED BY <2>4, <3>2, <3>3, <3>4
  <2>6. Hits(rows, WithVal(v)) = Hits(recs, g)
    BY <1>1, <2>5 DEF Hits, Recovers
  <2> QED BY <2>3, <2>6 DEF Count, DurableCount, b
<1>4. RowCounts(rows) = DurableCounts(log, t)
  BY <1>3 DEF RowCounts, DurableCounts
<1> QED BY <1>1, <1>4, RowsAsBag DEF rows, Recovers
-----------------------------------------------------------------------------
(***************************************************************************)
(* What records behind a log change of what recovery makes of it.          *)
(***************************************************************************)
Names(log, kinds) == {log[i].tx_id : i \in OfKind(log, kinds)}

LEMMA NamesConcat ==
    ASSUME NEW log \in Seq(LogLines), NEW recs \in Seq(LogLines), NEW kinds
    PROVE  Names(log \o recs, kinds) = Names(log, kinds) \cup Names(recs, kinds)
<1> DEFINE new == log \o recs
<1>1. /\ Len(log) \in Nat /\ Len(recs) \in Nat /\ Len(new) = Len(log) + Len(recs)
      /\ \A i \in 1..Len(new) : new[i] = IF i <= Len(log) THEN log[i] ELSE recs[i - Len(log)]
      /\ DOMAIN log = 1..Len(log) /\ DOMAIN recs = 1..Len(recs) /\ DOMAIN new = 1..Len(new)
  <2>1. new \in Seq(LogLines)
    OBVIOUS
  <2>2. DOMAIN new = 1..Len(new)
    BY <2>1
  <2> QED BY <2>2, ConcatProperties
<1> HIDE DEF new
<1>2. ASSUME NEW i \in OfKind(new, kinds)
      PROVE  new[i].tx_id \in Names(log, kinds) \cup Names(recs, kinds)
  <2>1. i \in 1..Len(new) /\ new[i].type \in kinds
    BY <1>1 DEF OfKind
  <2>2. CASE i <= Len(log)
    <3>1. i \in 1..Len(log) /\ new[i] = log[i]
      BY <1>1, <2>1, <2>2
    <3> QED BY <1>1, <2>1, <3>1 DEF Names, OfKind
  <2>3. CASE ~(i <= Len(log))
    <3>1. i - Len(log) \in 1..Len(recs) /\ new[i] = recs[i - Len(log)]
      BY <1>1, <2>1, <2>3
    <3> QED BY <1>1, <2>1, <3>1 DEF Names, OfKind
  <2> QED BY <2>2, <2>3
<1>3. ASSUME NEW i \in OfKind(log, kinds) PROVE log[i].tx_id \in Names(new, kinds)
  <2>1. i \in 1..Len(log) /\ log[i].type \in kinds
    BY <1>1 DEF OfKind
  <2>2. i \in 1..Len(new) /\ new[i] = log[i]
    BY <1>1, <2>1
  <2> QED BY <1>1, <2>1, <2>2 DEF Names, OfKind
<1>4. ASSUME NEW k \in OfKind(recs, kinds) PROVE recs[k].tx_id \in Names(new, kinds)
  <2> DEFINE i == Len(log) + k
  <2>1. k \in 1..Len(recs) /\ recs[k].type \in kinds
    BY <1>1 DEF OfKind
  <2>2. i \in 1..Len(new) /\ ~(i <= Len(log)) /\ i - Len(log) = k
    BY <1>1, <2>1
  <2> HIDE DEF i
  <2>3. new[i] = recs[k]
    BY <1>1, <2>2
  <2> QED BY <1>1, <2>1, <2>2, <2>3 DEF Names, OfKind
<1>5. Names(new, kinds) \subseteq Names(log, kinds) \cup Names(recs, kinds)
  BY <1>2 DEF Names
<1>6. Names(log, kinds) \subseteq Names(new, kinds) /\ Names(recs, kinds) \subseteq Names(new, kinds)
  BY <1>3, <1>4 DEF Names
<1> QED BY <1>5, <1>6 DEF new

LEMMA KeptNames ==
    ASSUME NEW log
    PROVE  /\ committed(log) = Names(log, {"commit"})
           /\ rolled_back(log) = Names(log, {"rollback"})
           /\ Kept(log) = Names(log, {"commit"}) \ Names(log, {"rollback"})
BY DEF committed, rolled_back, Kept, Names

\* Lines that change nothing: no commit, and no insert or rollback of a
\* transaction that is kept.
Quiet(log, recs) ==
    \A k \in 1..Len(recs) :
        /\ recs[k].type # "commit"
        /\ recs[k].type \in {"insert", "rollback"} => recs[k].tx_id \notin Kept(log)

SameDurable(new, old) ==
    /\ Kept(new) = Kept(old)
    /\ \A t \in Tables, v \in Values : DurableCount(new, t, v) = DurableCount(old, t, v)

LEMMA DurableUntouched ==
    ASSUME NEW log \in Seq(LogLines), NEW recs \in Seq(LogLines), Quiet(log, recs)
    PROVE  SameDurable(log \o recs, log)
<1> DEFINE new == log \o recs
<1>0. DOMAIN recs = 1..Len(recs)
  OBVIOUS
<1>1. Names(recs, {"commit"}) = {}
  BY <1>0 DEF Quiet, Names, OfKind
<1>2. Names(recs, {"rollback"}) \cap Kept(log) = {}
  BY <1>0 DEF Quiet, Names, OfKind
<1>3. Kept(new) = Kept(log)
  <2>1. /\ Names(new, {"commit"}) = Names(log, {"commit"}) \cup Names(recs, {"commit"})
        /\ Names(new, {"rollback"}) = Names(log, {"rollback"}) \cup Names(recs, {"rollback"})
    BY NamesConcat
  <2> HIDE DEF new
  <2> QED BY <1>1, <1>2, <2>1, KeptNames
<1>4. ASSUME NEW t \in Tables, NEW v \in Values
      PROVE  DurableCount(new, t, v) = DurableCount(log, t, v)
  <2> DEFINE G == InsertsBy(Kept(log), t, v)
  <2>1. \A k \in 1..Len(recs) : recs[k] \notin G
    BY DEF Quiet, InsertsBy, InsertRecords
  <2> HIDE DEF G
  <2>2. Count(recs, G) = 0 /\ Count(log, G) \in Nat
    BY <2>1, CountNone, CountType
  <2>3. Count(new, G) = Count(log, G) + Count(recs, G)
    BY CountConcat
  <2>4. Count(new, G) = Count(log, G)
    BY <2>2, <2>3
  <2> HIDE DEF new
  <2> QED BY <1>3, <2>4 DEF DurableCount, G
<1> QED BY <1>3, <1>4 DEF SameDurable

\* The commit record of x behind a log in which x has not ended.
LEMMA DurableCommitted ==
    ASSUME NEW log \in Seq(LogLines), NEW x \in TxIds, NEW rec \in RedoRecords,
           rec.type = "commit", rec.tx_id = x,
           x \notin committed(log), x \notin rolled_back(log),
           NEW t \in Tables, NEW v \in Values
    PROVE  DurableCount(log \o <<rec>>, t, v)
              = DurableCount(log, t, v) + Count(log, InsertsInto(x, t, v))
<1> DEFINE recs == <<rec>>
           new == log \o recs
           old == InsertsBy(Kept(log), t, v)
           own == InsertsInto(x, t, v)
           both == InsertsBy(Kept(log) \cup {x}, t, v)
<1>1. recs \in Seq(LogLines) /\ Len(recs) = 1 /\ recs[1] = rec /\ DOMAIN recs = 1..1
  BY DEF LogLines
<1> HIDE DEF recs
<1>2. Names(recs, {"commit"}) = {x} /\ Names(recs, {"rollback"}) = {}
  BY <1>1 DEF Names, OfKind
<1>3. Kept(new) = Kept(log) \cup {x} /\ x \notin Kept(log)
  <2>1. /\ Names(new, {"commit"}) = Names(log, {"commit"}) \cup Names(recs, {"commit"})
        /\ Names(new, {"rollback"}) = Names(log, {"rollback"}) \cup Names(recs, {"rollback"})
    BY <1>1, NamesConcat
  <2> HIDE DEF new
  <2> QED BY <1>2, <2>1, KeptNames
<1>4. \A l \in LogLines : /\ l \in both <=> l \in old \/ l \in own
                          /\ ~(l \in old /\ l \in own)
  BY <1>3 DEF InsertsBy, InsertsInto
<1>5. \A k \in 1..Len(recs) : recs[k] \notin both
  BY <1>1 DEF InsertsBy, InsertRecords
<1>6. DurableCount(new, t, v) = Count(new, both)
  <2> HIDE DEF new
  <2> QED BY <1>3 DEF DurableCount
<1> HIDE DEF both, old, own
<1>7. Count(log, both) = Count(log, old) + Count(log, own)
  BY <1>4, CountApart
<1>8. Count(recs, both) = 0 /\ Count(log, old) \in Nat /\ Count(log, own) \in Nat
  BY <1>5, CountNone, CountType
<1>9. Count(new, both) = Count(log, both) + Count(recs, both)
  BY <1>1, CountConcat
<1>10. Count(new, both) = Count(log, old) + Count(log, own)
  BY <1>7, <1>8, <1>9
<1> QED BY <1>6, <1>10 DEF DurableCount, old, own, recs
-----------------------------------------------------------------------------
(***************************************************************************)
(* What Mirrored says of a running server.                                 *)
(***************************************************************************)
LEMMA MirroredTypes ==
    ASSUME Mirrored
    PROVE  /\ Ordered /\ Owned /\ Story /\ Typed
           /\ redo_log \in Seq(LogLines) /\ redo_buffer \in Seq(RedoRecords)
           /\ redo_buffer \in Seq(LogLines) /\ History \in Seq(LogLines)
           /\ statuses \in [TxIds -> TxStatus] /\ commit_scns \in [TxIds -> Nat]
           /\ tables \in [Tables -> Seq(Row)] /\ scn \in Nat
           /\ current_tx_id \in [Sessions -> TxIds \cup {NoTx}]
           /\ up => boots # 0
<1>1. Ordered /\ Owned /\ Story /\ Typed
  BY DEF Mirrored, Undoable, Published, Story, Owned
<1>2. up => boots # 0
  BY <1>1 DEF Typed
<1> QED BY <1>1, <1>2, AheadTypes

\* The transaction of a session: only the first run has one.
LEMMA OpenSession ==
    ASSUME Mirrored, up, NEW s \in Sessions, current_tx_id[s] # NoTx
    PROVE  /\ current_tx_id[s] \in TxIds /\ current_tx_id[s] \in RowTxs
           /\ statuses[current_tx_id[s]] = "Active"
           /\ boots = 1 /\ eol
           /\ OpenMirrored(tables, History, current_tx_id[s])
           /\ \A r \in Sessions \ {s} : current_tx_id[r] # current_tx_id[s]
<1>1. current_tx_id[s] \in TxIds
  BY MirroredTypes
<1>2. /\ statuses[current_tx_id[s]] = "Active"
      /\ \A r \in Sessions \ {s} : current_tx_id[r] # current_tx_id[s]
  BY MirroredTypes DEF Owned, TxOwnedOnce
<1>3. boots = 1
  BY MirroredTypes DEF Story
<1> QED BY <1>1, <1>2, <1>3 DEF Mirrored, RowTxs

\* An open transaction has not ended in the history, and the records in the
\* buffer are of open ones.
LEMMA HistoryOpen ==
    ASSUME Mirrored, up, boots = 1
    PROVE  /\ \A y \in TxIds : statuses[y] = "Active" =>
                 /\ y \notin committed(History) /\ y \notin rolled_back(History)
                 /\ y \notin committed(redo_log) /\ y \notin rolled_back(redo_log)
           /\ \A k \in 1..Len(redo_buffer) :
                 /\ redo_buffer[k].tx_id \in TxIds
                 /\ redo_buffer[k].tx_id \notin Kept(redo_log)
                 /\ redo_buffer[k].type \notin Ending
           /\ SameDurable(History, redo_log)
<1> DEFINE log == History
<1>1. /\ log \in Seq(LogLines) /\ Current(log)
      /\ redo_log \in Seq(LogLines) /\ redo_buffer \in Seq(LogLines)
      /\ redo_buffer \in Seq(RedoRecords) /\ log = redo_log \o redo_buffer
  BY MirroredTypes DEF Story, History
<1> HIDE DEF log
<1>2. \A kinds : Names(log, kinds) = Names(redo_log, kinds) \cup Names(redo_buffer, kinds)
  BY <1>1, NamesConcat
<1>3. ASSUME NEW y \in TxIds, statuses[y] = "Active", NEW kind \in Ending
      PROVE  y \notin Names(log, {kind})
  <2>1. SUFFICES ASSUME y \in Names(log, {kind}) PROVE FALSE
    OBVIOUS
  <2>2. PICK i \in OfKind(log, {kind}) : log[i].tx_id = y
    BY <2>1 DEF Names
  <2>3. {kind} \subseteq {"begin", "insert", "commit", "rollback"}
    BY DEF Ending
  <2>4. i \in Parsed(log)
    BY <1>1, <2>2, <2>3, OfKindParsed
  <2>5. log[i].type \in Ending
    BY <2>2 DEF OfKind
  <2> QED BY <1>1, <1>3, <2>2, <2>4, <2>5 DEF Current
<1>4. ASSUME NEW y \in TxIds, statuses[y] = "Active"
      PROVE  /\ y \notin committed(log) /\ y \notin rolled_back(log)
             /\ y \notin committed(redo_log) /\ y \notin rolled_back(redo_log)
  <2>1. y \notin Names(log, {"commit"}) /\ y \notin Names(log, {"rollback"})
    BY <1>3, <1>4 DEF Ending
  <2> QED BY <1>2, <2>1, KeptNames
<1>5. ASSUME NEW k \in 1..Len(redo_buffer)
      PROVE  /\ redo_buffer[k].tx_id \in TxIds
             /\ redo_buffer[k].tx_id \notin Kept(redo_log)
             /\ redo_buffer[k].type \notin Ending
  <2> DEFINE y == redo_buffer[k].tx_id
  <2>1. y \in TxIds /\ statuses[y] = "Active"
    <3>1. redo_buffer[k] \in RedoRecords
      BY <1>1
    <3> QED BY <3>1, RecordFields DEF Mirrored, BufferOpen
  <2>2. ASSUME NEW kind \in Ending, redo_buffer[k].type = kind PROVE FALSE
    <3>1. DOMAIN redo_buffer = 1..Len(redo_buffer)
      BY <1>1
    <3>2. y \in Names(redo_buffer, {kind})
      BY <2>2, <3>1 DEF Names, OfKind
    <3> HIDE DEF y
    <3> QED BY <1>2, <1>3, <2>1, <3>2
  <2> HIDE DEF y
  <2>3. y \notin Kept(redo_log)
    BY <1>4, <2>1, KeptNames
  <2> QED BY <2>1, <2>2, <2>3 DEF y
<1>6. Quiet(redo_log, redo_buffer)
  BY <1>5 DEF Quiet, Ending
<1>7. SameDurable(log, redo_log)
  BY <1>1, <1>6, DurableUntouched
<1> QED BY <1>4, <1>5, <1>7 DEF log

\* COMMIT: what recovery would bring back grows by the rows of the transaction.
LEMMA LogAfterCommit ==
    ASSUME Mirrored, up, NEW s \in Sessions, current_tx_id[s] # NoTx,
           NEW rec \in RedoRecords, rec.type = "commit", rec.tx_id = current_tx_id[s],
           NEW t \in Tables, NEW v \in Values
    PROVE  DurableCount(History \o <<rec>>, t, v)
              = DurableCount(redo_log, t, v) + Count(tables[t], RowWith(current_tx_id[s], v))
<1> DEFINE x == current_tx_id[s]
<1>1. x \in TxIds /\ statuses[x] = "Active" /\ boots = 1 /\ OpenMirrored(tables, History, x)
  BY OpenSession
<1> HIDE DEF x
<1>2. /\ x \notin committed(History) /\ x \notin rolled_back(History)
      /\ SameDurable(History, redo_log)
  BY <1>1, HistoryOpen
<1>3. rec.tx_id = x
  BY DEF x
<1>4. DurableCount(History \o <<rec>>, t, v)
         = DurableCount(History, t, v) + Count(History, InsertsInto(x, t, v))
  BY <1>1, <1>2, <1>3, DurableCommitted, MirroredTypes
<1>5. /\ DurableCount(History, t, v) = DurableCount(redo_log, t, v)
      /\ Count(tables[t], RowWith(x, v)) = Count(History, InsertsInto(x, t, v))
  BY <1>1, <1>2 DEF SameDurable, OpenMirrored
<1> QED BY <1>4, <1>5 DEF x

\* ROLLBACK: it stays as it is.
LEMMA LogAfterRollback ==
    ASSUME Mirrored, up, NEW s \in Sessions, current_tx_id[s] # NoTx,
           NEW rec \in RedoRecords, rec.type = "rollback", rec.tx_id = current_tx_id[s]
    PROVE  SameDurable(History \o <<rec>>, redo_log)
<1> DEFINE x == current_tx_id[s]
           recs == <<rec>>
<1>1. x \in TxIds /\ statuses[x] = "Active" /\ boots = 1
  BY OpenSession
<1> HIDE DEF x
<1>2. x \notin committed(History) /\ SameDurable(History, redo_log) /\ History \in Seq(LogLines)
  BY <1>1, HistoryOpen, MirroredTypes
<1>3. recs \in Seq(LogLines) /\ Len(recs) = 1 /\ recs[1] = rec
  BY DEF LogLines
<1>4. x \notin Kept(History)
  BY <1>2, KeptNames
<1>5. rec.tx_id = x /\ rec.type = "rollback"
  BY DEF x
<1> HIDE DEF recs
<1>6. Quiet(History, recs)
  BY <1>3, <1>4, <1>5 DEF Quiet
<1>7. SameDurable(History \o recs, History)
  BY <1>2, <1>3, <1>6, DurableUntouched
<1> QED BY <1>2, <1>7 DEF SameDurable, recs
-----------------------------------------------------------------------------
(***************************************************************************)
(* What statements do to the counts.                                       *)
(***************************************************************************)
\* Records that are not inserts of y.
LEMMA OpenLonger ==
    ASSUME NEW tbls, NEW log \in Seq(LogLines), NEW recs \in Seq(LogLines), NEW y,
           OpenMirrored(tbls, log, y),
           \A k \in 1..Len(recs) : recs[k].type = "insert" => recs[k].tx_id # y
    PROVE  OpenMirrored(tbls, log \o recs, y)
<1> SUFFICES ASSUME NEW t \in Tables, NEW v \in Values
             PROVE  Count(tbls[t], RowWith(y, v)) = Count(log \o recs, InsertsInto(y, t, v))
  BY DEF OpenMirrored
<1> DEFINE G == InsertsInto(y, t, v)
<1>1. \A k \in 1..Len(recs) : recs[k] \notin G
  BY DEF InsertsInto, InsertRecords
<1>2. Count(tbls[t], RowWith(y, v)) = Count(log, G)
  BY DEF OpenMirrored
<1> HIDE DEF G
<1>3. Count(recs, G) = 0 /\ Count(log, G) \in Nat
  BY <1>1, CountNone, CountType
<1>4. Count(log \o recs, G) = Count(log, G) + Count(recs, G)
  BY CountConcat
<1>5. Count(log \o recs, G) = Count(log, G)
  BY <1>3, <1>4
<1> QED BY <1>2, <1>5 DEF G

\* The first rows, when the others are not counted.
LEMMA CountFirstPart ==
    ASSUME NEW rows \in Seq(Row), NEW c \in 0..Len(rows), NEW G,
           \A i \in 1..Len(rows) : i > c => rows[i] \notin G
    PROVE  Count(SubSeq(rows, 1, c), G) = Count(rows, G)
<1> DEFINE part == SubSeq(rows, 1, c)
<1>1. Len(part) = c /\ (\A i \in 1..c : part[i] = rows[i]) /\ Len(rows) \in Nat
  BY FirstPart
<1> HIDE DEF part
<1>2. Hits(part, G) = Hits(rows, G)
  BY <1>1 DEF Hits
<1> QED BY <1>2 DEF Count, part

\* Rows put behind those of table t.
LEMMA CountMoreRows ==
    ASSUME NEW tbls \in [Tables -> Seq(Row)], NEW t \in Tables, NEW rows \in Seq(Row),
           NEW u \in Tables, NEW G
    PROVE  Count([tbls EXCEPT ![t] = @ \o rows][u], G)
              = Count(tbls[u], G) + (IF u = t THEN Count(rows, G) ELSE 0)
<1> DEFINE new == [tbls EXCEPT ![t] = @ \o rows]
<1>1. tbls[u] \in Seq(Row) /\ (u = t => new[u] = tbls[u] \o rows) /\ (u # t => new[u] = tbls[u])
  OBVIOUS
<1> HIDE DEF new
<1>2. /\ Count(tbls[u] \o rows, G) = Count(tbls[u], G) + Count(rows, G)
      /\ Count(tbls[u], G) \in Nat
  BY <1>1, CountConcat, CountType
<1>3. CASE u = t
  BY <1>1, <1>2, <1>3
<1>4. CASE u # t
  BY <1>1, <1>2, <1>4
<1> QED BY <1>3, <1>4 DEF new

\* The rows an INSERT makes: one of tx for each value.
NewCounts(vals, tx) ==
    /\ NewRows(vals, tx) \in Seq(Row)
    /\ \A y \in RowTxs, v \in Values :
          Count(NewRows(vals, tx), RowWith(y, v)) = IF y = tx THEN Count(vals, {v}) ELSE 0
    /\ \A G : (\A r \in Row : r.tx_id = tx => r \notin G) => Count(NewRows(vals, tx), G) = 0

LEMMA NewRowCounts ==
    ASSUME NEW vals \in Seq(Values), NEW tx \in RowTxs
    PROVE  NewCounts(vals, tx)
<1> DEFINE new == NewRows(vals, tx)
<1>1. new \in Seq(Row) /\ Len(vals) \in Nat
  BY NewRowsType DEF RowTxs
<1>2. new = [i \in 1..Len(vals) |-> [val |-> vals[i], tx_id |-> tx]]
  BY DEF NewRows
<1>3. Len(new) = Len(vals)
  BY <1>1, <1>2, FunctionSeq
<1>4. \A i \in 1..Len(vals) : new[i] = [val |-> vals[i], tx_id |-> tx]
  BY <1>2
<1> HIDE DEF new
<1>5. ASSUME NEW y \in RowTxs, NEW v \in Values
      PROVE  Count(new, RowWith(y, v)) = IF y = tx THEN Count(vals, {v}) ELSE 0
  <2>1. \A i \in 1..Len(vals) : new[i] \in RowWith(y, v) <=> vals[i] = v /\ y = tx
    <3>1. \A u : [val |-> u, tx_id |-> tx] = [val |-> v, tx_id |-> y] <=> u = v /\ tx = y
      OBVIOUS
    <3> QED BY <1>4, <3>1 DEF RowWith
  <2>2. CASE y = tx
    <3>1. Hits(new, RowWith(y, v)) = Hits(vals, {v})
      BY <1>3, <2>1, <2>2 DEF Hits
    <3> QED BY <2>2, <3>1 DEF Count
  <2>3. CASE y # tx
    <3>1. \A i \in 1..Len(new) : new[i] \notin RowWith(y, v)
      BY <1>3, <2>1, <2>3
    <3> QED BY <2>3, <3>1, CountNone
  <2> QED BY <2>2, <2>3
<1>6. ASSUME NEW G, \A r \in Row : r.tx_id = tx => r \notin G
      PROVE  Count(new, G) = 0
  <2>1. ASSUME NEW i \in 1..Len(new) PROVE new[i] \notin G
    <3>1. new[i] \in Row
      BY <1>1
    <3>2. new[i] = [val |-> vals[i], tx_id |-> tx]
      BY <1>3, <1>4
    <3>3. new[i].tx_id = tx
      BY <3>2
    <3> QED BY <1>6, <3>1, <3>3
  <2> QED BY <2>1, CountNone
<1> QED BY <1>1, <1>5, <1>6 DEF NewCounts, new

\* And its records.
NewRecordCounts(recs, vals, tx, t) ==
    /\ recs \in Seq(RedoRecords)
    /\ \A k \in 1..Len(recs) : recs[k].tx_id = tx
    /\ \A y \in TxIds, u \in Tables, v \in Values :
          Count(recs, InsertsInto(y, u, v)) = IF y = tx /\ u = t THEN Count(vals, {v}) ELSE 0

LEMMA RecordCounts ==
    ASSUME NEW vals \in Seq(Values), NEW tx \in TxIds, NEW n \in Nat, NEW t \in Tables
    PROVE  NewRecordCounts(RecordsOf(tx, n, t, vals), vals, tx, t)
<1> DEFINE recs == RecordsOf(tx, n, t, vals)
<1>1. Len(vals) \in Nat /\ DOMAIN vals = 1..Len(vals) /\ \A i \in 1..Len(vals) : vals[i] \in Values
  OBVIOUS
<1>2. \A i \in 1..Len(vals) : InsertRecord(tx, n, t, vals[i]) \in RedoRecords
  BY <1>1, RecordTypes
<1>3. /\ recs \in Seq(RedoRecords) /\ Len(recs) = Len(vals)
      /\ \A i \in 1..Len(vals) : recs[i] = InsertRecord(tx, n, t, vals[i])
  BY <1>1, <1>2 DEF RecordsOf
<1> HIDE DEF recs
<1>4. \A k \in 1..Len(recs) : recs[k].tx_id = tx
  <2>1. \A w : InsertRecord(tx, n, t, w).tx_id = tx
    BY DEF InsertRecord
  <2> QED BY <1>3, <2>1
<1>5. ASSUME NEW y \in TxIds, NEW u \in Tables, NEW v \in Values
      PROVE  Count(recs, InsertsInto(y, u, v))
                = IF y = tx /\ u = t THEN Count(vals, {v}) ELSE 0
  <2>1. \A w \in Values : InsertRecord(tx, n, t, w) \in InsertsInto(y, u, v)
                             <=> w = v /\ y = tx /\ u = t
    BY DEF InsertRecord, InsertsInto, InsertRecords
  <2>2. \A i \in 1..Len(vals) : recs[i] \in InsertsInto(y, u, v)
                                   <=> vals[i] = v /\ y = tx /\ u = t
    BY <1>1, <1>3, <2>1
  <2>3. CASE y = tx /\ u = t
    <3>1. Hits(recs, InsertsInto(y, u, v)) = Hits(vals, {v})
      BY <1>3, <2>2, <2>3 DEF Hits
    <3> QED BY <2>3, <3>1 DEF Count
  <2>4. CASE ~(y = tx /\ u = t)
    <3>1. \A i \in 1..Len(recs) : recs[i] \notin InsertsInto(y, u, v)
      BY <1>3, <2>2, <2>4
    <3> QED BY <2>4, <3>1, CountNone
  <2> QED BY <2>3, <2>4
<1> QED BY <1>3, <1>4, <1>5 DEF NewRecordCounts, recs

\* A transaction that is not committed can change its status, and the rows of
\* one that becomes committed are added to the committed ones.
LEMMA CommittedSame ==
    ASSUME NEW rows \in Seq(Row), NEW stats, NEW stats2, NEW v,
           \A i \in 1..Len(rows) : rows[i].tx_id \in TxIds =>
               (stats[rows[i].tx_id] = "Committed" <=> stats2[rows[i].tx_id] = "Committed")
    PROVE  Count(rows, CommittedWith(stats2, v)) = Count(rows, CommittedWith(stats, v))
<1>1. \A i \in 1..Len(rows) :
         rows[i] \in CommittedWith(stats2, v) <=> rows[i] \in CommittedWith(stats, v)
  BY DEF CommittedWith
<1> QED BY <1>1, CountSame

LEMMA CommittedMore ==
    ASSUME NEW rows \in Seq(Row), NEW stats \in [TxIds -> TxStatus], NEW x \in TxIds,
           stats[x] = "Active", NEW v \in Values
    PROVE  Count(rows, CommittedWith([stats EXCEPT ![x] = "Committed"], v))
              = Count(rows, CommittedWith(stats, v)) + Count(rows, RowWith(x, v))
<1> DEFINE stats2 == [stats EXCEPT ![x] = "Committed"]
           both == CommittedWith(stats2, v)
           G == CommittedWith(stats, v)
           H == RowWith(x, v)
<1>1. \A y \in TxIds : stats2[y] = IF y = x THEN "Committed" ELSE stats[y]
  OBVIOUS
<1>2. \A r \in Row : r \in H <=> r.val = v /\ r.tx_id = x
  BY DEF RowWith, Row
<1>3. \A r \in Row : /\ r \in both <=> r.val = v /\ r.tx_id \in TxIds /\ stats2[r.tx_id] = "Committed"
                     /\ r \in G <=> r.val = v /\ r.tx_id \in TxIds /\ stats[r.tx_id] = "Committed"
  BY DEF CommittedWith
<1> HIDE DEF stats2, both, G, H
<1>4. \A r \in Row : /\ r \in both <=> r \in G \/ r \in H
                     /\ ~(r \in G /\ r \in H)
  BY <1>1, <1>2, <1>3
<1>5. Count(rows, both) = Count(rows, G) + Count(rows, H)
  BY <1>4, CountApart
<1> QED BY <1>5 DEF both, G, H, stats2
-----------------------------------------------------------------------------
(***************************************************************************)
(* Mirrored is inductive.  Each lemma takes from the earlier proofs that   *)
(* the step keeps Undoable and Published.                                  *)
(***************************************************************************)
\* Statements that leave the tables and the log alone.
LEMMA MirroredKept ==
    ASSUME Mirrored, Undoable', Published',
           UNCHANGED <<tables, redo_log, eol, redo_buffer, statuses, up, boots>>,
           \A s \in Sessions : current_tx_id'[s] \in {current_tx_id[s], NoTx}
    PROVE  Mirrored'
<1>1. BufferOpen'
  BY DEF Mirrored, BufferOpen
<1>2. up' => CommittedMirrored(tables', redo_log', statuses')
  BY DEF Mirrored
<1>3. ASSUME NEW s \in Sessions, current_tx_id'[s] # NoTx
      PROVE  OpenMirrored(tables', History', current_tx_id'[s])
  <2>1. current_tx_id'[s] = current_tx_id[s] /\ tables' = tables /\ History' = History
    BY <1>3 DEF History
  <2> QED BY <1>3, <2>1 DEF Mirrored
<1> QED BY <1>1, <1>2, <1>3 DEF Mirrored, CommittedMirrored, OpenMirrored

\* The process is dead: nothing is left to compare.
LEMMA MirroredNone ==
    ASSUME Mirrored, up, Undoable', Published', Lost
    PROVE  Mirrored'
<1>1. /\ redo_buffer' = <<>> /\ ~up' /\ boots' # 0
      /\ \A s \in Sessions : current_tx_id'[s] = NoTx
  BY MirroredTypes DEF Lost, NewManager, NoSessions
<1>2. BufferOpen'
  BY <1>1 DEF BufferOpen
<1> QED BY <1>1, <1>2 DEF Mirrored

\* The transactions whose rows recovery keeps are those it calls committed.
LEMMA KeptCommitted ==
    ASSUME NEW log \in Seq(LogLines), Whole(log), NEW x \in Kept(log)
    PROVE  x \in TxIds /\ RecoveredStatuses(log)[x] = "Committed"
<1> DEFINE own == OfTx(log, x, {"begin", "commit", "rollback"})
           m == Max(own)
<1>1. PICK j \in OfKind(log, {"commit"}) : log[j].tx_id = x
  BY DEF Kept, committed
<1>2. \A i \in own : /\ i \in Parsed(log) /\ i \in 1..Len(log) /\ log[i].tx_id = x
                     /\ log[i].type \in {"begin", "commit", "rollback"}
  <2>1. \A i \in own : i \in OfKind(log, {"begin", "commit", "rollback"})
                       /\ log[i].tx_id = x
    BY DEF OfTx
  <2> HIDE DEF own
  <2>2. \A i \in own : i \in Parsed(log)
    BY <2>1, OfKindParsed
  <2>3. \A i \in own : log[i].type \in {"begin", "commit", "rollback"}
    BY <2>1 DEF OfKind
  <2> QED BY <2>1, <2>2, <2>3, ParsedFields
<1>3. j \in own /\ log[j].type = "commit"
  BY <1>1 DEF OfTx, OfKind
<1> HIDE DEF own
<1>4. m \in own /\ \A i \in own : i <= m
  <2>1. own \in SUBSET (1..Len(log)) /\ own # {}
    BY <1>2, <1>3
  <2> QED BY <2>1, LastPosition
<1> HIDE DEF m
<1>5. m = j
  <2>1. j <= m /\ j \in Nat /\ m \in Nat
    BY <1>2, <1>3, <1>4
  <2>2. ~(j < m)
    BY <1>2, <1>3, <1>4 DEF Whole, Ending
  <2> QED BY <2>1, <2>2
<1>6. x \in TxIds
  BY <1>2, <1>3, ParsedFields
<1>7. RecoveredStatuses(log)[x] = StatusOf(log[m].type)
  BY <1>3, <1>6 DEF RecoveredStatuses, own, m
<1> QED BY <1>3, <1>5, <1>6, <1>7 DEF StatusOf

\* What the tables hold after a boot: the recovered rows and the demo rows.
LEMMA BootedRows ==
    ASSUME NEW t \in Tables, NEW log \in Seq(LogLines)
    PROVE  /\ RecoveredRows(log, t) \in Seq(Row)
           /\ DemoRows[t] \in Seq(Values)
           /\ NewCounts(DemoRows[t], NoTx)
           /\ \A G : Count(BootRows(log, t), G)
                        = Count(RecoveredRows(log, t), G) + Count(NewRows(DemoRows[t], NoTx), G)
<1> DEFINE old == RecoveredRows(log, t)
           demo == NewRows(DemoRows[t], NoTx)
<1>1. old \in Seq(Row)
  BY RecoveredShape DEF Recovers
<1>2. DemoRows[t] \in Seq(Values)
  BY DatabaseAssumption
<1>3. NewCounts(DemoRows[t], NoTx)
  BY <1>2, NewRowCounts DEF RowTxs
<1>4. demo \in Seq(Row)
  BY <1>3 DEF NewCounts
<1> HIDE DEF old, demo
<1>5. \A G : Count(old \o demo, G) = Count(old, G) + Count(demo, G)
  BY <1>1, <1>4, CountConcat
<1> QED BY <1>1, <1>2, <1>3, <1>5 DEF BootRows, old, demo

LEMMA MirroredBoot ==
    ASSUME Mirrored, Undoable', Published', Boot
    PROVE  Mirrored'
<1>1. /\ redo_log' = redo_log /\ eol' = eol /\ redo_buffer' = <<>>
      /\ statuses' = RecoveredStatuses(redo_log)
      /\ tables' = [t \in Tables |-> BootRows(redo_log, t)]
      /\ ~up /\ boots' = boots + 1 /\ boots \in Nat
      /\ \A s \in Sessions : current_tx_id'[s] = NoTx
  BY MirroredTypes, DatabaseAssumption
     DEF Boot, NewManager, NoSessions, logVars, Typed, TypeOK
<1>2. redo_log \in Seq(LogLines) /\ Whole(redo_log)
  BY MirroredTypes, WholeLog
<1>3. eol' \/ boots' # 1
  BY <1>1 DEF Mirrored
<1>4. boots' # 0
  BY <1>1
<1>5. ASSUME NEW t \in Tables, NEW v \in Values
      PROVE  Count(BootRows(redo_log, t), CommittedWith(statuses', v)) = DurableCount(redo_log, t, v)
  <2> DEFINE old == RecoveredRows(redo_log, t)
             demo == NewRows(DemoRows[t], NoTx)
             recs == Picked(redo_log, Replayed(redo_log, t))
             G == CommittedWith(statuses', v)
  <2>1. /\ old \in Seq(Row) /\ NewCounts(DemoRows[t], NoTx)
        /\ Count(BootRows(redo_log, t), G) = Count(old, G) + Count(demo, G)
    BY <1>2, BootedRows
  <2>2. Recovers(redo_log, t, recs, old)
    BY <1>2, RecoveredShape
  <2> HIDE DEF recs
  <2>3. \A i \in 1..Len(old) : old[i] \in Row /\ old[i].tx_id \in Kept(redo_log)
    <3> HIDE DEF old
    <3>1. \A i \in 1..Len(old) : old[i] \in Row
      BY <2>1
    <3>2. ASSUME NEW i \in 1..Len(old) PROVE old[i].tx_id \in Kept(redo_log)
      <4>1. i \in 1..Len(recs) /\ Len(old) = Len(recs)
        BY <2>2 DEF Recovers
      <4>2. old[i] = [val |-> recs[i].val, tx_id |-> recs[i].tx_id] /\ recs[i].tx_id \in Kept(redo_log)
        BY <2>2, <4>1 DEF Recovers
      <4> QED BY <4>2
    <3> QED BY <3>1, <3>2
  <2>4. \A x \in Kept(redo_log) : x \in TxIds /\ statuses'[x] = "Committed"
    BY <1>1, <1>2, KeptCommitted
  <2>5. \A i \in 1..Len(old) : old[i] \in G <=> old[i] \in WithVal(v)
    <3> HIDE DEF old
    <3> QED BY <2>3, <2>4 DEF CommittedWith, WithVal
  <2>6. Count(old, G) = Count(old, WithVal(v))
    <3> HIDE DEF old, G
    <3> QED BY <2>5, CountSame
  <2>7. RowCounts(old) = DurableCounts(redo_log, t)
    BY <1>2, RecoveredAsBag
  <2>8. Count(old, WithVal(v)) = DurableCount(redo_log, t, v)
    <3>1. RowCounts(old)[v] = Count(old, WithVal(v))
      BY DEF RowCounts
    <3>2. DurableCounts(redo_log, t)[v] = DurableCount(redo_log, t, v)
      BY DEF DurableCounts
    <3> QED BY <2>7, <3>1, <3>2
  <2>9. Count(demo, G) = 0
    <3>1. \A r \in Row : r.tx_id = NoTx => r \notin G
      BY TxIdAssumption DEF CommittedWith
    <3> HIDE DEF G
    <3> QED BY <2>1, <3>1 DEF NewCounts
  <2>10. Count(old, G) \in Nat
    BY <2>1, CountType
  <2> HIDE DEF old, demo
  <2> QED BY <2>1, <2>6, <2>8, <2>9, <2>10
<1>6. CommittedMirrored(tables', redo_log', statuses')
  BY <1>1, <1>5 DEF CommittedMirrored
<1>7. BufferOpen'
  BY <1>1 DEF BufferOpen
<1> QED BY <1>1, <1>3, <1>4, <1>6, <1>7 DEF Mirrored, CommittedMirrored

\* New records in the buffer, all of open transactions.
LEMMA BufferLonger ==
    ASSUME Mirrored, NEW recs \in Seq(RedoRecords), redo_buffer' = redo_buffer \o recs,
           redo_log' = redo_log,
           \A k \in 1..Len(recs) : statuses'[recs[k].tx_id] = "Active",
           \A y \in TxIds : statuses[y] = "Active" => statuses'[y] = "Active"
    PROVE  BufferOpen' /\ History' = History \o recs /\ recs \in Seq(LogLines)
<1>1. redo_buffer \in Seq(RedoRecords) /\ recs \in Seq(LogLines)
  BY MirroredTypes, AheadTypes
<1>2. ASSUME NEW i \in 1..Len(redo_buffer \o recs)
      PROVE  statuses'[(redo_buffer \o recs)[i].tx_id] = "Active"
  <2>1. /\ Len(redo_buffer) \in Nat /\ Len(recs) \in Nat
        /\ i \in 1..(Len(redo_buffer) + Len(recs))
        /\ (redo_buffer \o recs)[i] =
              IF i <= Len(redo_buffer) THEN redo_buffer[i] ELSE recs[i - Len(redo_buffer)]
    BY <1>1, <1>2, ConcatProperties
  <2>2. CASE i <= Len(redo_buffer)
    <3>1. i \in 1..Len(redo_buffer) /\ (redo_buffer \o recs)[i] = redo_buffer[i]
      BY <2>1, <2>2
    <3>2. redo_buffer[i] \in RedoRecords
      BY <1>1, <3>1
    <3>3. redo_buffer[i].tx_id \in TxIds /\ statuses[redo_buffer[i].tx_id] = "Active"
      BY <3>1, <3>2, RecordFields DEF Mirrored, BufferOpen
    <3> QED BY <3>1, <3>3
  <2>3. CASE ~(i <= Len(redo_buffer))
    <3>1. i - Len(redo_buffer) \in 1..Len(recs)
      BY <2>1, <2>3
    <3> QED BY <2>1, <2>3, <3>1
  <2> QED BY <2>2, <2>3
<1>3. BufferOpen'
  BY <1>2 DEF BufferOpen
<1>4. History' = History \o recs
  BY HistoryTyped, MirroredTypes DEF History
<1> QED BY <1>1, <1>3, <1>4

\* The transaction a BEGIN starts has no row and no record yet.
LEMMA NothingYet ==
    ASSUME Mirrored, up, boots = 1, NEW x \in TxIds, x >= next_tx_id
    PROVE  /\ OpenMirrored(tables, History, x)
           /\ \A t \in Tables : \A i \in 1..Len(tables[t]) : tables[t][i].tx_id # x
<1>1. /\ x \in Nat /\ next_tx_id \in Nat /\ \A t \in Tables : tables[t] \in Seq(Row)
      /\ \A t \in Tables : \A i \in 1..Len(tables[t]) : tables[t][i].tx_id \in Nat
      /\ History \in Seq(LogLines) /\ Current(History)
  BY UndoTypes, LogAssumption, MirroredTypes DEF Mirrored, Undoable, Story
<1>2. \A t \in Tables : \A i \in 1..Len(tables[t]) : tables[t][i].tx_id # x
  <2>1. \A t \in Tables : \A i \in 1..Len(tables[t]) : tables[t][i].tx_id < next_tx_id
    BY DEF Mirrored, Undoable
  <2> QED BY <1>1, <2>1
<1>3. ASSUME NEW t \in Tables, NEW v \in Values
      PROVE  Count(tables[t], RowWith(x, v)) = Count(History, InsertsInto(x, t, v))
  <2> DEFINE G == InsertsInto(x, t, v)
  <2>1. Count(tables[t], RowWith(x, v)) = 0
    <3>1. \A i \in 1..Len(tables[t]) : tables[t][i] \notin RowWith(x, v)
      BY <1>2 DEF RowWith
    <3> QED BY <3>1, CountNone
  <2>2. ASSUME NEW i \in 1..Len(History), History[i] \in G PROVE FALSE
    <3>1. History[i] \in InsertRecords /\ History[i].tx_id = x
      BY <2>2 DEF InsertsInto
    <3>2. i \in DOMAIN History /\ History[i].type = "insert"
      BY <1>1, <3>1 DEF InsertRecords
    <3>3. i \in OfKind(History, {"insert"})
      BY <3>2 DEF OfKind
    <3>4. i \in Parsed(History)
      BY <1>1, <3>3, OfKindParsed
    <3>5. x < next_tx_id
      BY <1>1, <3>1, <3>4 DEF Current
    <3> QED BY <1>1, <3>5
  <2> HIDE DEF G
  <2>3. Count(History, G) = 0
    BY <2>2, CountNone
  <2> QED BY <2>1, <2>3 DEF G
<1> QED BY <1>2, <1>3 DEF OpenMirrored

LEMMA MirroredBegin ==
    ASSUME Mirrored, Undoable', Published', NEW s \in Sessions, Begin(s)
    PROVE  Mirrored'
<1> DEFINE x == next_tx_id
           rec == StatusRecord("begin", x, scn)
           recs == <<rec>>
<1>1. /\ tables' = tables /\ redo_log' = redo_log /\ eol' = eol
      /\ statuses' = [statuses EXCEPT ![x] = "Active"]
      /\ redo_buffer' = Append(redo_buffer, rec)
      /\ up /\ up' = up /\ boots' = boots /\ current_tx_id[s] = NoTx
      /\ current_tx_id' = [current_tx_id EXCEPT ![s] = x]
  BY DEF Begin, begin, dbVars, procVars
<1>2. x \in TxIds /\ rec \in RedoRecords /\ rec.tx_id = x /\ rec.type = "begin" /\ x \in Nat
  <2>1. x \in TxIds /\ scn \in Nat
    BY BeginTyped, MirroredTypes
  <2> QED BY <2>1, RecordTypes, LogAssumption DEF StatusRecord
<1> HIDE DEF rec
<1>3. /\ recs \in Seq(RedoRecords) /\ Len(recs) = 1 /\ recs[1] = rec
      /\ redo_buffer' = redo_buffer \o recs
  BY <1>1, <1>2, MirroredTypes, AppendIsConcat
<1>4. statuses \in [TxIds -> TxStatus] /\ current_tx_id \in [Sessions -> TxIds \cup {NoTx}]
  BY MirroredTypes
<1>5. boots = 1
  <2>1. current_tx_id'[s] # NoTx
    BY <1>1, <1>2, <1>4, TxIdAssumption
  <2> QED BY <1>1, <2>1 DEF Undoable, Story
<1> HIDE DEF recs
<1>6. BufferOpen' /\ History' = History \o recs /\ recs \in Seq(LogLines)
  <2>1. /\ \A k \in 1..Len(recs) : statuses'[recs[k].tx_id] = "Active"
        /\ \A y \in TxIds : statuses[y] = "Active" => statuses'[y] = "Active"
    BY <1>1, <1>2, <1>3, <1>4
  <2> QED BY <1>1, <1>3, <2>1, BufferLonger
<1>7. /\ OpenMirrored(tables, History, x)
      /\ \A t \in Tables : \A i \in 1..Len(tables[t]) : tables[t][i].tx_id # x
  BY <1>1, <1>2, <1>5, NothingYet
<1> HIDE DEF x
<1>8. ASSUME NEW t \in Tables, NEW v \in Values
      PROVE  Count(tables[t], CommittedWith(statuses', v)) = DurableCount(redo_log, t, v)
  <2>1. tables[t] \in Seq(Row)
    BY MirroredTypes
  <2>2. \A i \in 1..Len(tables[t]) : tables[t][i].tx_id \in TxIds =>
           (statuses[tables[t][i].tx_id] = "Committed" <=> statuses'[tables[t][i].tx_id] = "Committed")
    BY <1>1, <1>4, <1>7
  <2>3. Count(tables[t], CommittedWith(statuses', v)) = Count(tables[t], CommittedWith(statuses, v))
    BY <2>1, <2>2, CommittedSame
  <2> QED BY <1>1, <2>3 DEF Mirrored, CommittedMirrored
<1>9. ASSUME NEW r \in Sessions, current_tx_id'[r] # NoTx
      PROVE  OpenMirrored(tables', History', current_tx_id'[r])
  <2> DEFINE y == current_tx_id'[r]
  <2>1. OpenMirrored(tables, History, y)
    BY <1>1, <1>4, <1>7, <1>9 DEF Mirrored
  <2>2. \A k \in 1..Len(recs) : recs[k].type = "insert" => recs[k].tx_id # y
    BY <1>2, <1>3
  <2> HIDE DEF y
  <2>3. OpenMirrored(tables, History \o recs, y)
    BY <1>6, <2>1, <2>2, OpenLonger, MirroredTypes
  <2> QED BY <1>1, <1>6, <2>3 DEF y
<1>10. CommittedMirrored(tables, redo_log, statuses)'
  BY <1>1, <1>8 DEF CommittedMirrored
<1> QED BY <1>1, <1>5, <1>6, <1>9, <1>10 DEF Mirrored, OpenMirrored

\* The transactions open after s has ended its own.
LEMMA OthersOpen ==
    ASSUME Mirrored, up, NEW s \in Sessions, current_tx_id[s] # NoTx,
           NEW rec \in RedoRecords, rec.type # "insert",
           current_tx_id' = [current_tx_id EXCEPT ![s] = NoTx],
           NEW r \in Sessions, current_tx_id'[r] # NoTx
    PROVE  /\ current_tx_id'[r] = current_tx_id[r] /\ current_tx_id[r] \in TxIds
           /\ current_tx_id[r] # current_tx_id[s]
           /\ OpenMirrored(tables, History \o <<rec>>, current_tx_id[r])
<1> DEFINE y == current_tx_id[r]
           recs == <<rec>>
<1>1. current_tx_id \in [Sessions -> TxIds \cup {NoTx}] /\ History \in Seq(LogLines)
  BY MirroredTypes
<1>2. r # s /\ current_tx_id'[r] = y /\ y # NoTx
  BY <1>1
<1>3. y \in TxIds /\ y # current_tx_id[s] /\ OpenMirrored(tables, History, y)
  BY <1>2, OpenSession
<1>4. recs \in Seq(LogLines) /\ \A k \in 1..Len(recs) : recs[k].type # "insert"
  BY DEF LogLines
<1> HIDE DEF recs, y
<1>5. OpenMirrored(tables, History \o recs, y)
  BY <1>1, <1>3, <1>4, OpenLonger
<1> QED BY <1>2, <1>3, <1>5 DEF recs, y

LEMMA MirroredCommit ==
    ASSUME SoundDisk, Mirrored, Undoable', Published', NEW s \in Sessions, Commit(s)
    PROVE  Mirrored'
<1> DEFINE x == current_tx_id[s]
           rec == StatusRecord("commit", x, scn + 1)
<1>1. /\ tables' = tables /\ up /\ up' = up /\ boots' = boots
      /\ statuses' = [statuses EXCEPT ![x] = "Committed"]
      /\ current_tx_id' = [current_tx_id EXCEPT ![s] = NoTx]
      /\ lgwr_flush(Append(redo_buffer, rec))
      /\ x # NoTx
  BY DEF Commit, commit, commit_buffer, dbVars, procVars
<1>2. /\ x \in TxIds /\ statuses[x] = "Active" /\ boots = 1 /\ eol
      /\ statuses \in [TxIds -> TxStatus]
      /\ \A t \in Tables : tables[t] \in Seq(Row)
  BY <1>1, OpenSession, MirroredTypes
<1>3. /\ rec \in RedoRecords /\ rec.type = "commit" /\ rec.tx_id = x
  <2>1. scn + 1 \in Nat
    BY MirroredTypes
  <2> QED BY <1>2, <2>1, RecordTypes DEF StatusRecord
<1> HIDE DEF rec
<1>4. /\ redo_log' = History \o <<rec>> /\ History' = History \o <<rec>>
      /\ redo_buffer' = <<>> /\ eol'
  BY <1>1, <1>2, <1>3, FlushWhole, MirroredTypes
<1>5. ASSUME NEW t \in Tables, NEW v \in Values
      PROVE  Count(tables[t], CommittedWith(statuses', v)) = DurableCount(redo_log', t, v)
  <2>1. Count(tables[t], CommittedWith(statuses', v))
           = Count(tables[t], CommittedWith(statuses, v)) + Count(tables[t], RowWith(x, v))
    <3> HIDE DEF x
    <3> QED BY <1>1, <1>2, CommittedMore
  <2>2. DurableCount(History \o <<rec>>, t, v)
           = DurableCount(redo_log, t, v) + Count(tables[t], RowWith(x, v))
    BY <1>1, <1>3, LogAfterCommit
  <2>3. Count(tables[t], CommittedWith(statuses, v)) = DurableCount(redo_log, t, v)
    BY <1>1 DEF Mirrored, CommittedMirrored
  <2> QED BY <1>4, <2>1, <2>2, <2>3
<1>6. ASSUME NEW r \in Sessions, current_tx_id'[r] # NoTx
      PROVE  OpenMirrored(tables', History', current_tx_id'[r])
  <2>1. rec.type # "insert"
    BY <1>3
  <2> QED BY <1>1, <1>3, <1>4, <1>6, <2>1, OthersOpen
<1>7. CommittedMirrored(tables, redo_log, statuses)'
  BY <1>1, <1>5 DEF CommittedMirrored
<1>8. BufferOpen'
  BY <1>4 DEF BufferOpen
<1> QED BY <1>1, <1>2, <1>4, <1>6, <1>7, <1>8 DEF Mirrored, OpenMirrored

\* ROLLBACK takes the rows of its transaction and leaves the counts of others.
LEMMA RollbackCounts ==
    ASSUME Mirrored, NEW s \in Sessions, Rollback(s), NEW t \in Tables, NEW G,
           \A r \in Row : r.tx_id = current_tx_id[s] => r \notin G
    PROVE  Count(tables'[t], G) = Count(tables[t], G)
<1> DEFINE x == current_tx_id[s]
           rows == tables[t]
<1>1. PICK m : \A u \in Tables :
         /\ LastRows(tables[u], undo_segments[x], x, u, m[u])
         /\ tables'[u] = SubSeq(tables[u], 1, m[u])
  BY RolledBack DEF Mirrored
<1> DEFINE c == m[t]
<1>2. rows \in Seq(Row) /\ tables'[t] = SubSeq(rows, 1, c)
  BY <1>1, MirroredTypes
<1>3. LastRows(rows, undo_segments[x], x, t, c)
  BY <1>1
<1> HIDE DEF x, rows, c
<1>4. c \in 0..Len(rows) /\ \A i \in 1..Len(rows) : i > c => rows[i].tx_id = x
  BY <1>3 DEF LastRows
<1>5. \A i \in 1..Len(rows) : i > c => rows[i] \notin G
  <2>1. \A i \in 1..Len(rows) : rows[i] \in Row
    BY <1>2
  <2> QED BY <1>4, <2>1 DEF x
<1>6. Count(SubSeq(rows, 1, c), G) = Count(rows, G)
  BY <1>2, <1>4, <1>5, CountFirstPart
<1> QED BY <1>2, <1>6 DEF rows

LEMMA MirroredRollback ==
    ASSUME SoundDisk, Mirrored, Undoable', Published', NEW s \in Sessions, Rollback(s)
    PROVE  Mirrored'
<1> DEFINE x == current_tx_id[s]
           rec == StatusRecord("rollback", x, scn)
<1>1. /\ up /\ up' = up /\ boots' = boots
      /\ statuses' = [statuses EXCEPT ![x] = "RolledBack"]
      /\ current_tx_id' = [current_tx_id EXCEPT ![s] = NoTx]
      /\ lgwr_flush(Append(redo_buffer, rec))
      /\ x # NoTx
  BY DEF Rollback, rollback, rollback_buffer, procVars
<1>2. /\ x \in TxIds /\ statuses[x] = "Active" /\ boots = 1 /\ eol
      /\ statuses \in [TxIds -> TxStatus]
      /\ \A t \in Tables : tables[t] \in Seq(Row)
  BY <1>1, OpenSession, MirroredTypes
<1>3. /\ rec \in RedoRecords /\ rec.type = "rollback" /\ rec.tx_id = x
  <2>1. scn \in Nat
    BY MirroredTypes
  <2> QED BY <1>2, <2>1, RecordTypes DEF StatusRecord
<1> HIDE DEF rec
<1>4. /\ redo_log' = History \o <<rec>> /\ History' = History \o <<rec>>
      /\ redo_buffer' = <<>> /\ eol'
  BY <1>1, <1>2, <1>3, FlushWhole, MirroredTypes
<1>5. ASSUME NEW t \in Tables, NEW v \in Values
      PROVE  Count(tables'[t], CommittedWith(statuses', v)) = DurableCount(redo_log', t, v)
  <2>1. \A y \in TxIds : statuses[y] = "Committed" <=> statuses'[y] = "Committed"
    BY <1>1, <1>2
  <2>2. Count(tables[t], CommittedWith(statuses', v)) = Count(tables[t], CommittedWith(statuses, v))
    BY <1>2, <2>1, CommittedSame
  <2>3. Count(tables'[t], CommittedWith(statuses', v)) = Count(tables[t], CommittedWith(statuses', v))
    <3>1. \A r \in Row : r.tx_id = x => r \notin CommittedWith(statuses', v)
      BY <1>1, <1>2 DEF CommittedWith
    <3> QED BY <3>1, RollbackCounts
  <2>4. DurableCount(History \o <<rec>>, t, v) = DurableCount(redo_log, t, v)
    BY <1>1, <1>3, LogAfterRollback DEF SameDurable
  <2>5. Count(tables[t], CommittedWith(statuses, v)) = DurableCount(redo_log, t, v)
    BY <1>1 DEF Mirrored, CommittedMirrored
  <2> QED BY <1>4, <2>2, <2>3, <2>4, <2>5
<1>6. ASSUME NEW r \in Sessions, current_tx_id'[r] # NoTx
      PROVE  OpenMirrored(tables', History', current_tx_id'[r])
  <2> DEFINE y == current_tx_id[r]
  <2>1. rec.type # "insert"
    BY <1>3
  <2>2. /\ current_tx_id'[r] = y /\ y # x
        /\ OpenMirrored(tables, History', y)
    BY <1>1, <1>3, <1>4, <1>6, <2>1, OthersOpen
  <2> HIDE DEF y
  <2>3. ASSUME NEW t \in Tables, NEW v \in Values
        PROVE  Count(tables'[t], RowWith(y, v)) = Count(tables[t], RowWith(y, v))
    <3>1. \A w \in Row : w.tx_id = x => w \notin RowWith(y, v)
      BY <2>2 DEF RowWith
    <3> QED BY <3>1, RollbackCounts
  <2> QED BY <2>2, <2>3 DEF OpenMirrored
<1>7. CommittedMirrored(tables, redo_log, statuses)'
  BY <1>5 DEF CommittedMirrored
<1>8. BufferOpen'
  BY <1>4 DEF BufferOpen
<1> QED BY <1>1, <1>2, <1>4, <1>6, <1>7, <1>8 DEF Mirrored, OpenMirrored

\* What an INSERT did: the values of the rows it put into t.
Inserted(s, t, vals) ==
    /\ vals \in Seq(Values)
    /\ tables' = [tables EXCEPT ![t] = @ \o NewRows(vals, current_tx_id[s])]
    /\ UNCHANGED <<redo_log, eol, statuses, current_tx_id, up, boots>>
    /\ IF current_tx_id[s] = NoTx
       THEN redo_buffer' = redo_buffer
       ELSE redo_buffer' = redo_buffer \o RecordsOf(current_tx_id[s], scn, t, vals)

LEMMA InsertParts ==
    ASSUME NEW s \in Sessions, NEW t \in Tables, NEW rows \in Inserts, Insert(s, t, rows)
    PROVE  \E n \in 1..Len(rows) : Inserted(s, t, SubSeq(rows, 1, n))
<1> DEFINE x == current_tx_id[s]
<1>1. PICK n \in 1..Len(rows) :
         /\ tables' = [tables EXCEPT ![t] = @ \o NewRows(SubSeq(rows, 1, n), x)]
         /\ IF x = NoTx
            THEN UNCHANGED <<logVars, txVars>>
            ELSE record_inserts(x, t, SubSeq(rows, 1, n), Len(tables[t]))
  BY DEF Insert
<1> DEFINE vals == SubSeq(rows, 1, n)
<1>2. vals \in Seq(Values)
  <2>1. rows \in Seq(Values) /\ n \in 1..Len(rows)
    BY DatabaseAssumption
  <2> QED BY <2>1
<1>3. UNCHANGED <<current_tx_id, up, boots>>
  BY DEF Insert, sessionVars, procVars
<1> HIDE DEF vals, x
<1>4. /\ UNCHANGED <<redo_log, eol, statuses>>
      /\ IF x = NoTx
         THEN redo_buffer' = redo_buffer
         ELSE redo_buffer' = redo_buffer \o RecordsOf(x, scn, t, vals)
  BY <1>1 DEF record_inserts, logVars, txVars, vals, RecordsOf
<1>5. tables' = [tables EXCEPT ![t] = @ \o NewRows(vals, x)]
  BY <1>1 DEF vals
<1>6. Inserted(s, t, vals)
  BY <1>2, <1>3, <1>4, <1>5 DEF Inserted, x
<1> QED BY <1>6 DEF vals

\* How it changes the counts in memory and in the history.
LEMMA InsertCounts ==
    ASSUME Mirrored, NEW s \in Sessions, NEW t \in Tables, NEW vals, Inserted(s, t, vals)
    PROVE  /\ \A u \in Tables, y \in RowTxs, v \in Values :
                 Count(tables'[u], RowWith(y, v)) = Count(tables[u], RowWith(y, v))
                    + (IF u = t /\ y = current_tx_id[s] THEN Count(vals, {v}) ELSE 0)
           /\ \A u \in Tables : \A G :
                 (\A r \in Row : r.tx_id = current_tx_id[s] => r \notin G)
                    => Count(tables'[u], G) = Count(tables[u], G)
<1> DEFINE x == current_tx_id[s]
           new == NewRows(vals, x)
<1>1. vals \in Seq(Values) /\ tables' = [tables EXCEPT ![t] = @ \o new]
  BY DEF Inserted
<1>2. tables \in [Tables -> Seq(Row)] /\ x \in RowTxs
  BY MirroredTypes DEF RowTxs
<1>3. NewCounts(vals, x)
  <2> HIDE DEF x
  <2> QED BY <1>1, <1>2, NewRowCounts
<1> HIDE DEF x
<1>4. /\ new \in Seq(Row)
      /\ \A y \in RowTxs, v \in Values :
            Count(new, RowWith(y, v)) = IF y = x THEN Count(vals, {v}) ELSE 0
      /\ \A G : (\A r \in Row : r.tx_id = x => r \notin G) => Count(new, G) = 0
  BY <1>3 DEF NewCounts
<1> HIDE DEF new
<1>5. \A u \in Tables : \A G :
         /\ Count(tables'[u], G) = Count(tables[u], G) + (IF u = t THEN Count(new, G) ELSE 0)
         /\ Count(tables[u], G) \in Nat
  <2> SUFFICES ASSUME NEW u \in Tables, NEW G
               PROVE  /\ Count(tables'[u], G) = Count(tables[u], G) + (IF u = t THEN Count(new, G) ELSE 0)
                      /\ Count(tables[u], G) \in Nat
    OBVIOUS
  <2>1. tables[u] \in Seq(Row)
    BY <1>2
  <2>2. Count(tables[u], G) \in Nat
    BY <2>1, CountType
  <2>3. Count([tables EXCEPT ![t] = @ \o new][u], G)
           = Count(tables[u], G) + (IF u = t THEN Count(new, G) ELSE 0)
    BY <1>2, <1>4, CountMoreRows
  <2> QED BY <1>1, <2>2, <2>3
<1>6. \A u \in Tables, y \in RowTxs, v \in Values :
         Count(tables'[u], RowWith(y, v)) = Count(tables[u], RowWith(y, v))
            + (IF u = t /\ y = x THEN Count(vals, {v}) ELSE 0)
  <2> SUFFICES ASSUME NEW u \in Tables, NEW y \in RowTxs, NEW v \in Values
               PROVE  Count(tables'[u], RowWith(y, v)) = Count(tables[u], RowWith(y, v))
                         + (IF u = t /\ y = x THEN Count(vals, {v}) ELSE 0)
    OBVIOUS
  <2> DEFINE G == RowWith(y, v)
             m == Count(vals, {v})
  <2>1. Count(new, G) = IF y = x THEN m ELSE 0
    BY <1>4
  <2> HIDE DEF G, m
  <2>2. /\ Count(tables'[u], G) = Count(tables[u], G) + (IF u = t THEN Count(new, G) ELSE 0)
        /\ Count(tables[u], G) \in Nat
    BY <1>5
  <2>3. Count(tables'[u], G) = Count(tables[u], G) + (IF u = t /\ y = x THEN m ELSE 0)
    BY <2>1, <2>2
  <2> QED BY <2>3 DEF G, m
<1>7. \A u \in Tables : \A G : (\A r \in Row : r.tx_id = x => r \notin G)
         => Count(tables'[u], G) = Count(tables[u], G)
  BY <1>4, <1>5
<1> QED BY <1>6, <1>7 DEF x

LEMMA InsertHistory ==
    ASSUME Mirrored, up, NEW s \in Sessions, NEW t \in Tables, NEW vals, Inserted(s, t, vals)
    PROVE  /\ BufferOpen'
           /\ \A y \in TxIds, u \in Tables, v \in Values :
                 Count(History', InsertsInto(y, u, v)) = Count(History, InsertsInto(y, u, v))
                    + (IF u = t /\ y = current_tx_id[s] THEN Count(vals, {v}) ELSE 0)
<1> DEFINE x == current_tx_id[s]
           recs == RecordsOf(x, scn, t, vals)
<1>1. /\ vals \in Seq(Values) /\ scn \in Nat /\ History \in Seq(LogLines)
      /\ redo_log' = redo_log /\ statuses' = statuses /\ x \in TxIds \cup {NoTx}
  BY MirroredTypes DEF Inserted
<1>2. \A G : Count(History, G) \in Nat
  BY <1>1, CountType
<1>3. CASE x = NoTx
  <2>1. redo_buffer' = redo_buffer
    BY <1>3 DEF Inserted
  <2>2. BufferOpen' /\ History' = History
    BY <1>1, <2>1 DEF Mirrored, BufferOpen, History
  <2> QED BY <1>2, <1>3, <2>2, TxIdAssumption
<1>4. CASE x # NoTx
  <2>1. redo_buffer' = redo_buffer \o recs
    BY <1>4 DEF Inserted
  <2>2. x \in TxIds /\ statuses[x] = "Active"
    BY <1>4, OpenSession
  <2> HIDE DEF x
  <2>3. NewRecordCounts(recs, vals, x, t)
    BY <1>1, <2>2, RecordCounts
  <2>4. /\ recs \in Seq(RedoRecords)
        /\ \A k \in 1..Len(recs) : recs[k].tx_id = x
        /\ \A y \in TxIds, u \in Tables, v \in Values :
              Count(recs, InsertsInto(y, u, v)) = IF y = x /\ u = t THEN Count(vals, {v}) ELSE 0
    BY <2>3 DEF NewRecordCounts
  <2> HIDE DEF recs
  <2>5. BufferOpen' /\ History' = History \o recs /\ recs \in Seq(LogLines)
    BY <1>1, <2>1, <2>2, <2>4, BufferLonger
  <2>6. \A G : Count(History \o recs, G) = Count(History, G) + Count(recs, G)
    BY <1>1, <2>5, CountConcat
  <2>7. \A y \in TxIds, u \in Tables, v \in Values :
           Count(History', InsertsInto(y, u, v)) = Count(History, InsertsInto(y, u, v))
              + (IF u = t /\ y = x THEN Count(vals, {v}) ELSE 0)
    BY <2>4, <2>5, <2>6
  <2> QED BY <2>5, <2>7 DEF x
<1> QED BY <1>3, <1>4

LEMMA MirroredInsert ==
    ASSUME Mirrored, Undoable', Published', up, NEW s \in Sessions, NEW t \in Tables,
           NEW vals, Inserted(s, t, vals)
    PROVE  Mirrored'
<1> DEFINE x == current_tx_id[s]
<1>1. /\ UNCHANGED <<redo_log, eol, statuses, current_tx_id, up, boots>>
      /\ current_tx_id \in [Sessions -> TxIds \cup {NoTx}]
  BY MirroredTypes DEF Inserted
<1>2. \A r \in Row : \A v \in Values : r.tx_id = x => r \notin CommittedWith(statuses, v)
  <2>1. CASE x = NoTx
    BY <2>1, TxIdAssumption DEF CommittedWith
  <2>2. CASE x # NoTx
    <3>1. statuses[x] = "Active"
      BY <2>2, OpenSession
    <3> QED BY <3>1 DEF CommittedWith
  <2> QED BY <2>1, <2>2
<1>3. ASSUME NEW u \in Tables, NEW v \in Values
      PROVE  Count(tables'[u], CommittedWith(statuses, v)) = DurableCount(redo_log, u, v)
  <2>1. Count(tables'[u], CommittedWith(statuses, v)) = Count(tables[u], CommittedWith(statuses, v))
    BY <1>2, InsertCounts
  <2> QED BY <2>1 DEF Mirrored, CommittedMirrored
<1>4. ASSUME NEW r \in Sessions, current_tx_id[r] # NoTx
      PROVE  OpenMirrored(tables', History', current_tx_id[r])
  <2> DEFINE y == current_tx_id[r]
  <2>1. y \in TxIds /\ y \in RowTxs /\ OpenMirrored(tables, History, y)
    BY <1>4, OpenSession
  <2> HIDE DEF y
  <2>2. ASSUME NEW u \in Tables, NEW v \in Values
        PROVE  Count(tables'[u], RowWith(y, v)) = Count(History', InsertsInto(y, u, v))
    <3>1. Count(tables[u], RowWith(y, v)) = Count(History, InsertsInto(y, u, v))
      BY <2>1 DEF OpenMirrored
    <3>2. Count(tables'[u], RowWith(y, v)) = Count(tables[u], RowWith(y, v))
             + (IF u = t /\ y = current_tx_id[s] THEN Count(vals, {v}) ELSE 0)
      BY <2>1, InsertCounts
    <3>3. Count(History', InsertsInto(y, u, v)) = Count(History, InsertsInto(y, u, v))
             + (IF u = t /\ y = current_tx_id[s] THEN Count(vals, {v}) ELSE 0)
      BY <2>1, InsertHistory
    <3> QED BY <3>1, <3>2, <3>3
  <2> QED BY <2>2 DEF OpenMirrored, y
<1>5. BufferOpen'
  BY InsertHistory
<1>6. CommittedMirrored(tables, redo_log, statuses)'
  BY <1>1, <1>3 DEF CommittedMirrored
<1>7. \A r \in Sessions : current_tx_id'[r] # NoTx =>
         OpenMirrored(tables', History', current_tx_id'[r])
  BY <1>1, <1>4
<1> QED BY <1>1, <1>5, <1>6, <1>7 DEF Mirrored, OpenMirrored

LEMMA MirroredStep ==
    ASSUME NoReuse, OneWriter, SoundDisk
    PROVE  Mirrored /\ [Next]_vars => Mirrored'
<1> SUFFICES ASSUME Mirrored, [Next]_vars PROVE Mirrored'
  OBVIOUS
<1>0. Undoable' /\ Published'
  BY UndoableStep, PublishedStep DEF Mirrored
<1>1. CASE Boot
  BY <1>0, <1>1, MirroredBoot
<1>2. CASE Crash \/ \E s \in Sessions : FlushCrash(s)
  <2>1. up /\ Lost
    BY <1>2 DEF Crash, FlushCrash
  <2> QED BY <1>0, <2>1, MirroredNone
<1>3. ASSUME NEW s \in Sessions, Begin(s) PROVE Mirrored'
  BY <1>0, <1>3, MirroredBegin
<1>4. ASSUME NEW s \in Sessions, Commit(s) PROVE Mirrored'
  BY <1>0, <1>4, MirroredCommit
<1>5. ASSUME NEW s \in Sessions, Rollback(s) PROVE Mirrored'
  BY <1>0, <1>5, MirroredRollback
<1>6. ASSUME NEW s \in Sessions, NEW t \in Tables, NEW rows \in Inserts,
             Insert(s, t, rows)
      PROVE  Mirrored'
  <2>1. up
    BY <1>6 DEF Insert
  <2>2. PICK n \in 1..Len(rows) : Inserted(s, t, SubSeq(rows, 1, n))
    BY <1>6, InsertParts
  <2> QED BY <1>0, <2>1, <2>2, MirroredInsert
<1>7. CASE \/ UNCHANGED vars
           \/ \E s \in Sessions : Query(s) \/ Reconnect(s)
           \/ \E t \in Tables, w \in Widths : CreateTable(t, w)
  <2>1. /\ UNCHANGED <<tables, redo_log, eol, redo_buffer, statuses, up, boots>>
        /\ \/ current_tx_id' = current_tx_id
           \/ \E s \in Sessions : current_tx_id' = [current_tx_id EXCEPT ![s] = NoTx]
    BY <1>7 DEF vars, Query, Reconnect, CreateTable,
                logVars, txVars, dbVars, sessionVars, procVars
  <2>2. \A s \in Sessions : current_tx_id'[s] \in {current_tx_id[s], NoTx}
    BY <2>1, MirroredTypes
  <2> QED BY <1>0, <2>1, <2>2, MirroredKept
<1> QED BY <1>1, <1>2, <1>3, <1>4, <1>5, <1>6, <1>7 DEF Next

LEMMA MirroredInit == Init => Mirrored
<1> SUFFICES ASSUME Init PROVE Mirrored
  OBVIOUS
<1>1. Undoable /\ Published
  BY StoryInit, OrderedInit
     DEF Init, Undoable, InPlace, NoStatuses, Published, CommitsVisible
<1>2. /\ redo_buffer = <<>> /\ ~up /\ eol /\ boots = 0
      /\ \A s \in Sessions : current_tx_id[s] = NoTx
  BY DEF Init
<1> QED BY <1>1, <1>2 DEF Mirrored, BufferOpen

LEMMA AlwaysMirrored ==
    ASSUME NoReuse, OneWriter, SoundDisk
    PROVE  Spec => []Mirrored
<1>1. Mirrored /\ [Next]_vars => Mirrored'
  BY MirroredStep
<1> QED BY <1>1, MirroredInit, PTL DEF Spec
-----------------------------------------------------------------------------
(***************************************************************************)
(* The variables of ReadCommitted as counts, now and after a step.         *)
(***************************************************************************)
NoBags == [t \in Tables |-> EmptyBag]
DurableBags(log) == [t \in Tables |-> BagOf(DurableCounts(log, t))]
MemoryBags(tbls, x) == [t \in Tables |-> BagOf(MemoryCounts(tbls[t], x))]
OpenIn(cur) == [s \in Sessions |-> cur[s] # NoTx]
PendingBags(tbls, cur) ==
    [s \in Sessions |-> IF cur[s] = NoTx THEN NoBags ELSE MemoryBags(tbls, cur[s])]

LEMMA DurableAsBags ==
    ASSUME NEW log \in Seq(LogLines)
    PROVE  [t \in Tables |-> ValuesOf(RecoveredRows(log, t))] = DurableBags(log)
<1>1. \A t \in Tables : ValuesOf(RecoveredRows(log, t)) = BagOf(DurableCounts(log, t))
  BY RecoveredAsBag
<1> QED BY <1>1 DEF DurableBags

LEMMA MemoryAsBags ==
    ASSUME NEW tbls \in [Tables -> Seq(Row)], NEW x \in RowTxs
    PROVE  [t \in Tables |->
               ValuesOf(Picked(tbls[t], {i \in DOMAIN tbls[t] : tbls[t][i].tx_id = x}))]
              = MemoryBags(tbls, x)
<1>1. ASSUME NEW t \in Tables
      PROVE  ValuesOf(Picked(tbls[t], {i \in DOMAIN tbls[t] : tbls[t][i].tx_id = x}))
                = BagOf(MemoryCounts(tbls[t], x))
  <2> DEFINE rows == tbls[t]
  <2>1. rows \in Seq(Row)
    OBVIOUS
  <2> HIDE DEF rows
  <2>2. ValuesOf(Picked(rows, {i \in DOMAIN rows : rows[i].tx_id = x}))
           = BagOf(MemoryCounts(rows, x))
    BY <2>1, MemoryAsBag
  <2> QED BY <2>2 DEF rows
<1> QED BY <1>1 DEF MemoryBags

Mapped(dur, temp, opn, pend, tbls, log, cur) ==
    /\ dur = DurableBags(log)
    /\ temp = MemoryBags(tbls, NoTx)
    /\ opn = OpenIn(cur)
    /\ pend = PendingBags(tbls, cur)

LEMMA PendingAsBags ==
    ASSUME NEW tbls \in [Tables -> Seq(Row)], NEW cur \in [Sessions -> TxIds \cup {NoTx}]
    PROVE  [s \in Sessions |-> [t \in Tables |->
               IF cur[s] = NoTx THEN EmptyBag
               ELSE ValuesOf(Picked(tbls[t], {i \in DOMAIN tbls[t] : tbls[t][i].tx_id = cur[s]}))]]
              = PendingBags(tbls, cur)
<1>1. ASSUME NEW s \in Sessions
      PROVE  [t \in Tables |->
               IF cur[s] = NoTx THEN EmptyBag
               ELSE ValuesOf(Picked(tbls[t], {i \in DOMAIN tbls[t] : tbls[t][i].tx_id = cur[s]}))]
             = IF cur[s] = NoTx THEN NoBags ELSE MemoryBags(tbls, cur[s])
  <2> DEFINE x == cur[s]
             mine(t) == ValuesOf(Picked(tbls[t], {i \in DOMAIN tbls[t] : tbls[t][i].tx_id = x}))
  <2>1. x \in RowTxs
    BY DEF RowTxs
  <2> HIDE DEF x
  <2>2. [t \in Tables |-> mine(t)] = MemoryBags(tbls, x)
    BY <2>1, MemoryAsBags
  <2> HIDE DEF mine
  <2>3. [t \in Tables |-> IF x = NoTx THEN EmptyBag ELSE mine(t)]
           = IF x = NoTx THEN NoBags ELSE MemoryBags(tbls, x)
    <3>1. CASE x = NoTx
      BY <3>1 DEF NoBags
    <3>2. CASE x # NoTx
      BY <2>2, <3>2
    <3> QED BY <3>1, <3>2
  <2> QED BY <2>3 DEF x, mine
<1> QED BY <1>1 DEF PendingBags

LEMMA MappedNow ==
    ASSUME Typed
    PROVE  Mapped(durable, temporary, open, pending, tables, redo_log, current_tx_id)
<1>1. /\ redo_log \in Seq(LogLines) /\ tables \in [Tables -> Seq(Row)]
      /\ current_tx_id \in [Sessions -> TxIds \cup {NoTx}] /\ NoTx \in RowTxs
  BY DEF Typed, TypeOK, RowTxs
<1>2. durable = DurableBags(redo_log)
  BY <1>1, DurableAsBags DEF durable
<1>3. temporary = MemoryBags(tables, NoTx)
  BY <1>1, MemoryAsBags DEF temporary, InMemory
<1>4. pending = PendingBags(tables, current_tx_id)
  BY <1>1, PendingAsBags DEF pending, InMemory
<1> QED BY <1>2, <1>3, <1>4 DEF Mapped, open, OpenIn

LEMMA MappedNext ==
    ASSUME Typed'
    PROVE  Mapped(durable', temporary', open', pending', tables', redo_log', current_tx_id')
<1>1. /\ redo_log' \in Seq(LogLines) /\ tables' \in [Tables -> Seq(Row)]
      /\ current_tx_id' \in [Sessions -> TxIds \cup {NoTx}] /\ NoTx \in RowTxs
  BY DEF Typed, TypeOK, RowTxs
<1>2. durable' = DurableBags(redo_log')
  BY <1>1, DurableAsBags DEF durable
<1>3. temporary' = MemoryBags(tables', NoTx)
  BY <1>1, MemoryAsBags DEF temporary, InMemory
<1>4. pending' = PendingBags(tables', current_tx_id')
  BY <1>1, PendingAsBags DEF pending, InMemory
<1> QED BY <1>2, <1>3, <1>4 DEF Mapped, open, OpenIn

(***************************************************************************)
(* When counts are the same, zero, or added.                               *)
(***************************************************************************)
LEMMA SameMemory ==
    ASSUME NEW old, NEW new, NEW x,
           \A t \in Tables, v \in Values :
               Count(new[t], RowWith(x, v)) = Count(old[t], RowWith(x, v))
    PROVE  MemoryBags(new, x) = MemoryBags(old, x)
<1>1. \A t \in Tables : MemoryCounts(new[t], x) = MemoryCounts(old[t], x)
  BY DEF MemoryCounts
<1> QED BY <1>1 DEF MemoryBags

LEMMA NoMemory ==
    ASSUME NEW tbls, NEW x,
           \A t \in Tables, v \in Values : Count(tbls[t], RowWith(x, v)) = 0
    PROVE  MemoryBags(tbls, x) = NoBags
<1>1. \A t \in Tables : MemoryCounts(tbls[t], x) = NoneOf
  BY DEF MemoryCounts, NoneOf
<1> QED BY <1>1, BagNone DEF MemoryBags, NoBags

LEMMA SameDurableBags ==
    ASSUME NEW new, NEW old, SameDurable(new, old)
    PROVE  DurableBags(new) = DurableBags(old)
<1>1. \A t \in Tables : DurableCounts(new, t) = DurableCounts(old, t)
  BY DEF SameDurable, DurableCounts
<1> QED BY <1>1 DEF DurableBags

\* A commit adds the rows of its transaction to the durable ones.
DurableGrown(new, old, tbls, x) ==
    \A t \in Tables : \A v \in Values :
        DurableCount(new, t, v) = DurableCount(old, t, v) + Count(tbls[t], RowWith(x, v))

LEMMA AddedDurable ==
    ASSUME NEW new, NEW old \in Seq(LogLines), NEW tbls \in [Tables -> Seq(Row)],
           NEW x \in RowTxs, DurableGrown(new, old, tbls, x)
    PROVE  DurableBags(new) = [t \in Tables |-> DurableBags(old)[t] (+) MemoryBags(tbls, x)[t]]
<1>1. ASSUME NEW t \in Tables
      PROVE  BagOf(DurableCounts(new, t))
                = BagOf(DurableCounts(old, t)) (+) BagOf(MemoryCounts(tbls[t], x))
  <2> DEFINE f == DurableCounts(old, t)
             rows == tbls[t]
             g == MemoryCounts(rows, x)
             h == DurableCounts(new, t)
  <2>1. rows \in Seq(Row)
    OBVIOUS
  <2>2. f \in [Values -> Nat]
    BY RecoveredAsBag
  <2>3. g \in [Values -> Nat]
    <3> HIDE DEF rows
    <3> QED BY <2>1, MemoryAsBag
  <2>4. h = Plus(f, g)
    BY DEF DurableGrown, DurableCounts, MemoryCounts, Plus
  <2> HIDE DEF f, g, h
  <2>5. BagOf(h) = BagOf(f) (+) BagOf(g)
    BY <2>2, <2>3, <2>4, BagSum
  <2> QED BY <2>5 DEF f, g, h
<1> QED BY <1>1 DEF DurableBags, MemoryBags

\* An INSERT adds its values to the rows of one transaction in one table.
MemoryGrown(new, old, x, t, vals) ==
    \A u \in Tables : \A v \in Values :
        Count(new[u], RowWith(x, v))
            = Count(old[u], RowWith(x, v)) + (IF u = t THEN Count(vals, {v}) ELSE 0)

LEMMA AddedMemory ==
    ASSUME NEW new, NEW old \in [Tables -> Seq(Row)], NEW x \in RowTxs,
           NEW t \in Tables, NEW vals \in Seq(Values), MemoryGrown(new, old, x, t, vals)
    PROVE  MemoryBags(new, x) = [MemoryBags(old, x) EXCEPT ![t] = @ (+) ToBag(vals)]
<1> DEFINE f(u) == MemoryCounts(old[u], x)
           g == CountsOf(vals)
           h(u) == MemoryCounts(new[u], x)
<1>1. ASSUME NEW u \in Tables PROVE f(u) \in [Values -> Nat]
  <2> DEFINE rows == old[u]
  <2>1. rows \in Seq(Row)
    OBVIOUS
  <2> HIDE DEF rows
  <2>2. MemoryCounts(rows, x) \in [Values -> Nat]
    BY <2>1, MemoryAsBag
  <2> QED BY <2>2 DEF rows
<1>2. g \in [Values -> Nat] /\ ToBag(vals) = BagOf(g)
  BY BagOfValues
<1>3. h(t) = Plus(f(t), g)
  BY DEF MemoryGrown, MemoryCounts, CountsOf, Plus
<1>4. ASSUME NEW u \in Tables, u # t PROVE h(u) = f(u)
  <2>1. \A v \in Values : Count(new[u], RowWith(x, v)) = Count(old[u], RowWith(x, v))
    <3> SUFFICES ASSUME NEW v \in Values
                 PROVE  Count(new[u], RowWith(x, v)) = Count(old[u], RowWith(x, v))
      OBVIOUS
    <3>1. f(u)[v] = Count(old[u], RowWith(x, v)) /\ f(u)[v] \in Nat
      BY <1>1 DEF MemoryCounts
    <3>2. Count(new[u], RowWith(x, v)) = Count(old[u], RowWith(x, v)) + 0
      BY <1>4 DEF MemoryGrown
    <3> HIDE DEF f
    <3> QED BY <3>1, <3>2
  <2> QED BY <2>1 DEF MemoryCounts
<1> HIDE DEF f, g, h
<1>5. BagOf(h(t)) = BagOf(f(t)) (+) ToBag(vals)
  BY <1>1, <1>2, <1>3, BagSum
<1>6. /\ MemoryBags(old, x) = [u \in Tables |-> BagOf(f(u))]
      /\ MemoryBags(new, x) = [u \in Tables |-> BagOf(h(u))]
  BY DEF MemoryBags, f, h
<1> QED BY <1>4, <1>5, <1>6
-----------------------------------------------------------------------------
(***************************************************************************)
(* Every step is one of ReadCommitted, or changes none of its variables.   *)
(***************************************************************************)
\* ReadCommitted's operators on bags, as instantiated, are the same operators.
LEMMA SameBags ==
    /\ EmptyBag = RC!EmptyBag
    /\ \A a, b : a (+) b = RC!(+)(a, b)
    /\ \A s : ToBag(s) = RC!ToBag(s)
<1>1. EmptyBag = RC!EmptyBag
  BY DEF EmptyBag, RC!EmptyBag, SetToBag, RC!SetToBag
<1>2. \A a, b : a (+) b = RC!(+)(a, b)
  BY DEF (+), RC!(+)
<1>3. \A s : ToBag(s) = RC!ToBag(s)
  BY DEF ToBag, RC!ToBag, Range, RC!Range, Cardinality, RC!Cardinality
<1> QED BY <1>1, <1>2, <1>3

\* A step that concerns session s alone.
OthersKept(tbls, tbls2, cur, cur2, s) ==
    \A r \in Sessions \ {s} :
        /\ cur2[r] = cur[r]
        /\ cur[r] # NoTx => MemoryBags(tbls2, cur[r]) = MemoryBags(tbls, cur[r])

PendingOf(tbls, x) == IF x = NoTx THEN NoBags ELSE MemoryBags(tbls, x)

Repended(tbls, tbls2, cur, cur2, s) ==
    PendingBags(tbls2, cur2) = [PendingBags(tbls, cur) EXCEPT ![s] = PendingOf(tbls2, cur2[s])]

LEMMA PendingChanged ==
    ASSUME NEW tbls, NEW tbls2, NEW cur, NEW cur2, NEW s \in Sessions,
           OthersKept(tbls, tbls2, cur, cur2, s)
    PROVE  Repended(tbls, tbls2, cur, cur2, s)
<1>1. \A r \in Sessions \ {s} : PendingOf(tbls2, cur2[r]) = PendingOf(tbls, cur[r])
  BY DEF OthersKept, PendingOf
<1>2. /\ PendingBags(tbls, cur) = [r \in Sessions |-> PendingOf(tbls, cur[r])]
      /\ PendingBags(tbls2, cur2) = [r \in Sessions |-> PendingOf(tbls2, cur2[r])]
  BY DEF PendingBags, PendingOf
<1> QED BY <1>1, <1>2 DEF Repended

LEMMA OpenChanged ==
    ASSUME NEW cur, NEW cur2, NEW s \in Sessions,
           \A r \in Sessions \ {s} : cur2[r] = cur[r]
    PROVE  OpenIn(cur2) = [OpenIn(cur) EXCEPT ![s] = cur2[s] # NoTx]
BY DEF OpenIn

LEMMA NoneOpen ==
    ASSUME NEW cur, \A s \in Sessions : cur[s] = NoTx
    PROVE  /\ OpenIn(cur) = [s \in Sessions |-> FALSE]
           /\ \A tbls : PendingBags(tbls, cur) = [s \in Sessions |-> NoBags]
BY DEF OpenIn, PendingBags

LEMMA BeginIsBegin ==
    ASSUME Mirrored, Mirrored', NEW s \in Sessions, Begin(s)
    PROVE  RC!Begin(s)
<1> DEFINE x == next_tx_id
<1>1. /\ tables' = tables /\ redo_log' = redo_log /\ up /\ up' = up /\ boots' = boots
      /\ current_tx_id[s] = NoTx
      /\ current_tx_id' = [current_tx_id EXCEPT ![s] = x]
  BY DEF Begin, begin, dbVars, procVars
<1>2. x \in TxIds /\ x # NoTx /\ x \in Nat /\ current_tx_id \in [Sessions -> TxIds \cup {NoTx}]
  BY BeginTyped, MirroredTypes, TxIdAssumption, LogAssumption
<1>3. current_tx_id'[s] = x /\ \A r \in Sessions \ {s} : current_tx_id'[r] = current_tx_id[r]
  BY <1>1, <1>2
<1>4. boots = 1
  <2>1. up' /\ current_tx_id'[s] # NoTx
    BY <1>1, <1>2, <1>3
  <2> QED BY <1>1, <2>1 DEF Mirrored, Undoable, Story
<1>5. \A t \in Tables : \A i \in 1..Len(tables[t]) : tables[t][i].tx_id # x
  BY <1>1, <1>2, <1>4, NothingYet
<1> HIDE DEF x
<1>6. MemoryBags(tables, x) = NoBags
  <2>1. ASSUME NEW t \in Tables, NEW v \in Values PROVE Count(tables[t], RowWith(x, v)) = 0
    <3>1. \A i \in 1..Len(tables[t]) : tables[t][i] \notin RowWith(x, v)
      BY <1>5 DEF RowWith
    <3> QED BY <3>1, CountNone
  <2> QED BY <2>1, NoMemory
<1>7. /\ Mapped(durable, temporary, open, pending, tables, redo_log, current_tx_id)
      /\ Mapped(durable', temporary', open', pending', tables', redo_log', current_tx_id')
  BY MirroredTypes, MappedNow, MappedNext DEF Mirrored, Undoable, Story, Owned
<1>8. durable' = durable /\ temporary' = temporary
  BY <1>1, <1>7 DEF Mapped
<1>9. OthersKept(tables, tables', current_tx_id, current_tx_id', s)
  BY <1>1, <1>3 DEF OthersKept
<1>10. pending' = pending
  <2>1. pending' = [pending EXCEPT ![s] = PendingOf(tables', x)]
    BY <1>3, <1>7, <1>9, PendingChanged DEF Mapped, Repended
  <2>2. pending[s] = NoBags /\ pending = [r \in Sessions |-> pending[r]]
    BY <1>1, <1>7 DEF Mapped, PendingBags
  <2>3. PendingOf(tables', x) = NoBags
    BY <1>1, <1>2, <1>6 DEF PendingOf
  <2> QED BY <2>1, <2>2, <2>3
<1>11. ~open[s] /\ open' = [open EXCEPT ![s] = TRUE]
  <2>1. OpenIn(current_tx_id') = [OpenIn(current_tx_id) EXCEPT ![s] = current_tx_id'[s] # NoTx]
    BY <1>3, OpenChanged
  <2> QED BY <1>1, <1>2, <1>3, <1>7, <2>1 DEF Mapped, OpenIn
<1> QED BY <1>1, <1>8, <1>10, <1>11 DEF RC!Begin

\* A session without a transaction any more: pending and open of RC!Close.
LEMMA SessionClosed ==
    ASSUME Mirrored, Mirrored', NEW s \in Sessions,
           current_tx_id' = [current_tx_id EXCEPT ![s] = NoTx],
           \A r \in Sessions \ {s} : current_tx_id[r] # NoTx =>
               MemoryBags(tables', current_tx_id[r]) = MemoryBags(tables, current_tx_id[r])
    PROVE  RC!Close(s)
<1>1. /\ current_tx_id'[s] = NoTx
      /\ \A r \in Sessions \ {s} : current_tx_id'[r] = current_tx_id[r]
  BY MirroredTypes
<1>2. /\ Mapped(durable, temporary, open, pending, tables, redo_log, current_tx_id)
      /\ Mapped(durable', temporary', open', pending', tables', redo_log', current_tx_id')
  BY MirroredTypes, MappedNow, MappedNext DEF Mirrored, Undoable, Story, Owned
<1>3. OthersKept(tables, tables', current_tx_id, current_tx_id', s)
  BY <1>1 DEF OthersKept
<1>4. pending' = [pending EXCEPT ![s] = NoBags]
  <2>1. Repended(tables, tables', current_tx_id, current_tx_id', s)
    BY <1>3, PendingChanged
  <2> QED BY <1>1, <1>2, <2>1 DEF Mapped, PendingOf, Repended
<1>5. open' = [open EXCEPT ![s] = FALSE]
  <2>1. /\ open = [r \in Sessions |-> current_tx_id[r] # NoTx]
        /\ open' = [r \in Sessions |-> current_tx_id'[r] # NoTx]
    BY <1>2 DEF Mapped, OpenIn
  <2>2. [r \in Sessions |-> current_tx_id'[r] # NoTx]
           = [[r \in Sessions |-> current_tx_id[r] # NoTx] EXCEPT ![s] = FALSE]
    BY <1>1
  <2> QED BY <2>1, <2>2
<1>6. RC!NoRows = NoBags
  BY SameBags DEF RC!NoRows, NoBags
<1> QED BY <1>4, <1>5, <1>6 DEF RC!Close

\* The rows of a session's transaction become durable.
LEMMA SessionSaved ==
    ASSUME Mirrored, Mirrored', NEW s \in Sessions, current_tx_id[s] # NoTx,
           DurableGrown(redo_log', redo_log, tables, current_tx_id[s])
    PROVE  open[s] /\ RC!Save(s)
<1> DEFINE x == current_tx_id[s]
<1>1. x \in RowTxs /\ redo_log \in Seq(LogLines) /\ tables \in [Tables -> Seq(Row)]
  BY MirroredTypes DEF RowTxs
<1>2. /\ Mapped(durable, temporary, open, pending, tables, redo_log, current_tx_id)
      /\ Mapped(durable', temporary', open', pending', tables', redo_log', current_tx_id')
  BY MirroredTypes, MappedNow, MappedNext DEF Mirrored, Undoable, Story, Owned
<1>3. pending[s] = MemoryBags(tables, x) /\ open[s]
  BY <1>2 DEF Mapped, PendingBags, OpenIn
<1> HIDE DEF x
<1>4. DurableBags(redo_log') = [t \in Tables |-> DurableBags(redo_log)[t] (+) MemoryBags(tables, x)[t]]
  BY <1>1, AddedDurable DEF x
<1>5. durable' = [t \in Tables |-> durable[t] (+) pending[s][t]]
  BY <1>2, <1>3, <1>4 DEF Mapped
<1>6. \A t \in Tables : durable[t] (+) pending[s][t] = RC!(+)(durable[t], pending[s][t])
  BY SameBags
<1>7. durable' = [t \in Tables |-> RC!(+)(durable[t], pending[s][t])]
  BY <1>5, <1>6
<1> QED BY <1>3, <1>7 DEF RC!Save

LEMMA CommitIsCommit ==
    ASSUME SoundDisk, Mirrored, Mirrored', NEW s \in Sessions, Commit(s)
    PROVE  RC!Commit(s)
<1> DEFINE x == current_tx_id[s]
           rec == StatusRecord("commit", x, scn + 1)
<1>1. /\ tables' = tables /\ up /\ up' = up /\ x # NoTx
      /\ current_tx_id' = [current_tx_id EXCEPT ![s] = NoTx]
      /\ lgwr_flush(Append(redo_buffer, rec))
  BY DEF Commit, commit, commit_buffer, dbVars, procVars
<1>2. x \in TxIds /\ eol /\ scn + 1 \in Nat
  BY <1>1, OpenSession, MirroredTypes
<1>3. rec \in RedoRecords /\ rec.type = "commit" /\ rec.tx_id = x
  BY <1>2, RecordTypes DEF StatusRecord
<1> HIDE DEF rec
<1>4. redo_log' = History \o <<rec>>
  BY <1>1, <1>2, <1>3, FlushWhole, MirroredTypes
<1>5. DurableGrown(redo_log', redo_log, tables, x)
  <2>1. \A t \in Tables, v \in Values : DurableCount(History \o <<rec>>, t, v)
           = DurableCount(redo_log, t, v) + Count(tables[t], RowWith(x, v))
    BY <1>1, <1>3, LogAfterCommit
  <2> QED BY <1>4, <2>1 DEF DurableGrown
<1>6. open[s] /\ RC!Save(s)
  BY <1>1, <1>5, SessionSaved
<1>7. RC!Close(s)
  BY <1>1, SessionClosed
<1>8. temporary' = temporary
  <2>1. /\ Mapped(durable, temporary, open, pending, tables, redo_log, current_tx_id)
        /\ Mapped(durable', temporary', open', pending', tables', redo_log', current_tx_id')
    BY MirroredTypes, MappedNow, MappedNext DEF Mirrored, Undoable, Story, Owned
  <2> QED BY <1>1, <2>1 DEF Mapped
<1> QED BY <1>1, <1>6, <1>7, <1>8 DEF RC!Commit

LEMMA RollbackIsAbandon ==
    ASSUME SoundDisk, Mirrored, Mirrored', NEW s \in Sessions, Rollback(s)
    PROVE  RC!Abandon(s)
<1> DEFINE x == current_tx_id[s]
           rec == StatusRecord("rollback", x, scn)
<1>1. /\ up /\ up' = up /\ x # NoTx
      /\ current_tx_id' = [current_tx_id EXCEPT ![s] = NoTx]
      /\ lgwr_flush(Append(redo_buffer, rec))
  BY DEF Rollback, rollback, rollback_buffer, procVars
<1>2. x \in TxIds /\ eol /\ scn \in Nat
  BY <1>1, OpenSession, MirroredTypes
<1>3. rec \in RedoRecords /\ rec.type = "rollback" /\ rec.tx_id = x
  BY <1>2, RecordTypes DEF StatusRecord
<1> HIDE DEF rec
<1>4. redo_log' = History \o <<rec>>
  BY <1>1, <1>2, <1>3, FlushWhole, MirroredTypes
<1>5. DurableBags(redo_log') = DurableBags(redo_log)
  <2>1. SameDurable(History \o <<rec>>, redo_log)
    BY <1>1, <1>3, LogAfterRollback
  <2> QED BY <1>4, <2>1, SameDurableBags
<1>6. ASSUME NEW y, y # x PROVE MemoryBags(tables', y) = MemoryBags(tables, y)
  <2>1. ASSUME NEW t \in Tables, NEW v \in Values
        PROVE  Count(tables'[t], RowWith(y, v)) = Count(tables[t], RowWith(y, v))
    <3>1. \A r \in Row : r.tx_id = x => r \notin RowWith(y, v)
      BY <1>6 DEF RowWith
    <3> QED BY <3>1, RollbackCounts
  <2> QED BY <2>1, SameMemory
<1>7. RC!Close(s)
  <2>1. \A r \in Sessions \ {s} : current_tx_id[r] # x
    BY <1>1, OpenSession
  <2> QED BY <1>1, <1>6, <2>1, SessionClosed
<1>8. durable' = durable /\ temporary' = temporary /\ open[s]
  <2>1. /\ Mapped(durable, temporary, open, pending, tables, redo_log, current_tx_id)
        /\ Mapped(durable', temporary', open', pending', tables', redo_log', current_tx_id')
    BY MirroredTypes, MappedNow, MappedNext DEF Mirrored, Undoable, Story, Owned
  <2> QED BY <1>1, <1>5, <1>6, <2>1 DEF Mapped, OpenIn
<1> QED BY <1>1, <1>7, <1>8 DEF RC!Abandon

\* Nothing that the variables of ReadCommitted are made of has changed.
LEMMA NothingMapped ==
    ASSUME Mirrored, Mirrored', UNCHANGED <<up, tables, redo_log, current_tx_id>>
    PROVE  UNCHANGED RC!abstractVars
<1>1. /\ Mapped(durable, temporary, open, pending, tables, redo_log, current_tx_id)
      /\ Mapped(durable', temporary', open', pending', tables', redo_log', current_tx_id')
  BY MirroredTypes, MappedNow, MappedNext DEF Mirrored, Undoable, Story, Owned
<1>2. UNCHANGED <<durable, temporary, open, pending>>
  BY <1>1 DEF Mapped
<1> QED BY <1>2 DEF RC!abstractVars

\* The lost connection: its transaction is abandoned, though the manager
\* never hears of it.
LEMMA ReconnectIsAbandon ==
    ASSUME Mirrored, Mirrored', NEW s \in Sessions, Reconnect(s)
    PROVE  RC!Abandon(s) \/ UNCHANGED RC!abstractVars
<1>1. /\ up /\ up' = up /\ tables' = tables /\ redo_log' = redo_log
      /\ current_tx_id' = [current_tx_id EXCEPT ![s] = NoTx]
  BY DEF Reconnect, dbVars, procVars, logVars
<1>2. CASE current_tx_id[s] = NoTx
  <2>1. current_tx_id' = current_tx_id
    BY <1>1, <1>2, MirroredTypes
  <2> QED BY <1>1, <2>1, NothingMapped
<1>3. CASE current_tx_id[s] # NoTx
  <2>1. RC!Close(s)
    BY <1>1, SessionClosed
  <2>2. durable' = durable /\ temporary' = temporary /\ open[s]
    <3>1. /\ Mapped(durable, temporary, open, pending, tables, redo_log, current_tx_id)
          /\ Mapped(durable', temporary', open', pending', tables', redo_log', current_tx_id')
      BY MirroredTypes, MappedNow, MappedNext DEF Mirrored, Undoable, Story, Owned
    <3> QED BY <1>1, <1>3, <3>1 DEF Mapped, OpenIn
  <2> QED BY <1>1, <2>1, <2>2 DEF RC!Abandon
<1> QED BY <1>2, <1>3

\* The rows that an INSERT adds in ReadCommitted.
Added(s, t, vals) ==
    /\ IF open[s]
       THEN pending' = [pending EXCEPT ![s][t] = RC!(+)(@, RC!ToBag(vals))] /\ temporary' = temporary
       ELSE temporary' = [temporary EXCEPT ![t] = RC!(+)(@, RC!ToBag(vals))] /\ pending' = pending
    /\ durable' = durable /\ open' = open

LEMMA InsertedIsAdded ==
    ASSUME Mirrored, Mirrored', up, NEW s \in Sessions, NEW t \in Tables, NEW vals,
           Inserted(s, t, vals)
    PROVE  Added(s, t, vals)
<1> DEFINE x == current_tx_id[s]
<1>2. vals \in Seq(Values) /\ UNCHANGED <<up, redo_log, current_tx_id>>
  BY DEF Inserted
<1>3. x \in RowTxs /\ NoTx \in RowTxs /\ tables \in [Tables -> Seq(Row)]
  BY MirroredTypes DEF RowTxs
<1>4. /\ Mapped(durable, temporary, open, pending, tables, redo_log, current_tx_id)
      /\ Mapped(durable', temporary', open', pending', tables', redo_log', current_tx_id')
  BY MirroredTypes, MappedNow, MappedNext DEF Mirrored, Undoable, Story, Owned
<1> HIDE DEF x
<1>5. \A u \in Tables, y \in RowTxs, v \in Values :
         Count(tables'[u], RowWith(y, v)) = Count(tables[u], RowWith(y, v))
            + (IF u = t /\ y = x THEN Count(vals, {v}) ELSE 0)
  <2>1. ASSUME NEW u \in Tables, NEW y \in RowTxs, NEW v \in Values
        PROVE  Count(tables'[u], RowWith(y, v)) = Count(tables[u], RowWith(y, v))
                  + (IF u = t /\ y = current_tx_id[s] THEN Count(vals, {v}) ELSE 0)
    BY InsertCounts
  <2> QED BY <2>1 DEF x
<1>6. MemoryBags(tables', x) = [MemoryBags(tables, x) EXCEPT ![t] = @ (+) ToBag(vals)]
  <2>1. MemoryGrown(tables', tables, x, t, vals)
    BY <1>3, <1>5 DEF MemoryGrown
  <2> QED BY <1>2, <1>3, <2>1, AddedMemory
<1>7. ASSUME NEW y \in RowTxs, y # x
      PROVE  MemoryBags(tables', y) = MemoryBags(tables, y)
  <2>1. ASSUME NEW u \in Tables, NEW v \in Values
        PROVE  Count(tables'[u], RowWith(y, v)) = Count(tables[u], RowWith(y, v))
    <3>1. tables[u] \in Seq(Row)
      BY <1>3
    <3>2. Count(tables[u], RowWith(y, v)) \in Nat
      BY <3>1, CountType
    <3>3. Count(tables'[u], RowWith(y, v)) = Count(tables[u], RowWith(y, v)) + 0
      BY <1>5, <1>7
    <3> QED BY <3>2, <3>3
  <2> QED BY <2>1, SameMemory
<1>8. durable' = durable /\ open' = open
  BY <1>2, <1>4 DEF Mapped
<1>9. ToBag(vals) = RC!ToBag(vals) /\ \A a, b : a (+) b = RC!(+)(a, b)
  BY SameBags
<1> DEFINE new == RC!ToBag(vals)
<1>10. MemoryBags(tables', x) = [MemoryBags(tables, x) EXCEPT ![t] = RC!(+)(@, new)]
  BY <1>6, <1>9
<1>11. CASE x = NoTx
  <2>1. temporary' = [temporary EXCEPT ![t] = RC!(+)(@, new)]
    BY <1>4, <1>10, <1>11 DEF Mapped
  <2>2. pending' = pending
    <3>1. \A r \in Sessions : current_tx_id[r] # NoTx =>
             MemoryBags(tables', current_tx_id[r]) = MemoryBags(tables, current_tx_id[r])
      BY <1>7, <1>11, MirroredTypes DEF RowTxs
    <3>2. PendingBags(tables', current_tx_id) = PendingBags(tables, current_tx_id)
      BY <3>1 DEF PendingBags
    <3> QED BY <1>2, <1>4, <3>2 DEF Mapped
  <2>3. ~open[s]
    BY <1>4, <1>11 DEF Mapped, OpenIn, x
  <2> HIDE DEF new, Added
  <2>4. IF open[s]
        THEN pending' = [pending EXCEPT ![s][t] = RC!(+)(@, new)] /\ temporary' = temporary
        ELSE temporary' = [temporary EXCEPT ![t] = RC!(+)(@, new)] /\ pending' = pending
    BY <2>1, <2>2, <2>3
  <2> QED BY <1>8, <2>4 DEF new, Added
<1>12. CASE x # NoTx
  <2>1. temporary' = temporary
    BY <1>3, <1>4, <1>7, <1>12 DEF Mapped
  <2>2. pending' = [pending EXCEPT ![s] = MemoryBags(tables', x)]
    <3>1. OthersKept(tables, tables', current_tx_id, current_tx_id', s)
      <4>1. ASSUME NEW r \in Sessions \ {s}, current_tx_id[r] # NoTx
            PROVE  MemoryBags(tables', current_tx_id[r]) = MemoryBags(tables, current_tx_id[r])
        <5>1. x # current_tx_id[r]
          BY <1>2, <1>12, <4>1, OpenSession DEF x
        <5>2. current_tx_id[r] \in RowTxs
          BY MirroredTypes DEF RowTxs
        <5> QED BY <1>7, <5>1, <5>2
      <4> QED BY <1>2, <4>1 DEF OthersKept
    <3>2. Repended(tables, tables', current_tx_id, current_tx_id', s)
      BY <3>1, PendingChanged
    <3> QED BY <1>2, <1>4, <1>12, <3>2 DEF Mapped, Repended, PendingOf, x
  <2>3. pending[s] = MemoryBags(tables, x) /\ open[s]
    BY <1>4, <1>12 DEF Mapped, PendingBags, OpenIn, x
  <2>4. pending' = [pending EXCEPT ![s] = [pending[s] EXCEPT ![t] = RC!(+)(pending[s][t], new)]]
    BY <1>10, <2>2, <2>3
  <2> HIDE DEF new, Added
  <2>5. pending' = [pending EXCEPT ![s][t] = RC!(+)(@, new)]
    BY <2>4
  <2>6. IF open[s]
        THEN pending' = [pending EXCEPT ![s][t] = RC!(+)(@, new)] /\ temporary' = temporary
        ELSE temporary' = [temporary EXCEPT ![t] = RC!(+)(@, new)] /\ pending' = pending
    BY <2>1, <2>3, <2>5
  <2> QED BY <1>8, <2>6 DEF new, Added
<1> QED BY <1>11, <1>12

LEMMA InsertIsInsert ==
    ASSUME Mirrored, Mirrored', NEW s \in Sessions, NEW t \in Tables, NEW rows \in Inserts,
           Insert(s, t, rows)
    PROVE  RC!Insert(s, t)
<1>1. PICK n \in 1..Len(rows) : Inserted(s, t, SubSeq(rows, 1, n))
  BY InsertParts
<1>2. up /\ up' = up
  BY DEF Insert, procVars
<1>3. Added(s, t, SubSeq(rows, 1, n))
  BY <1>1, <1>2, InsertedIsAdded
<1> QED BY <1>2, <1>3 DEF RC!Insert, Added

LEMMA BootIsStart ==
    ASSUME Mirrored, Mirrored', Boot
    PROVE  RC!Start
<1>1. /\ ~up /\ up' = TRUE /\ redo_log' = redo_log
      /\ tables' = [t \in Tables |-> BootRows(redo_log, t)]
      /\ \A s \in Sessions : current_tx_id'[s] = NoTx
  BY DEF Boot, logVars, NoSessions
<1>2. /\ Mapped(durable, temporary, open, pending, tables, redo_log, current_tx_id)
      /\ Mapped(durable', temporary', open', pending', tables', redo_log', current_tx_id')
  BY MirroredTypes, MappedNow, MappedNext DEF Mirrored, Undoable, Story, Owned
<1>3. /\ \A s \in Sessions : current_tx_id[s] = NoTx
      /\ redo_log \in Seq(LogLines)
  BY <1>1, MirroredTypes DEF Owned
<1>4. durable' = durable
  BY <1>1, <1>2 DEF Mapped
<1>5. open' = open /\ pending' = pending
  <2>1. /\ OpenIn(current_tx_id) = [s \in Sessions |-> FALSE]
        /\ PendingBags(tables, current_tx_id) = [s \in Sessions |-> NoBags]
    BY <1>3, NoneOpen
  <2>2. /\ OpenIn(current_tx_id') = [s \in Sessions |-> FALSE]
        /\ PendingBags(tables', current_tx_id') = [s \in Sessions |-> NoBags]
    BY <1>1, NoneOpen
  <2> QED BY <1>2, <2>1, <2>2 DEF Mapped
<1>6. ASSUME NEW t \in Tables
      PROVE  BagOf(MemoryCounts(tables'[t], NoTx)) = RC!ToBag(DemoRows[t])
  <2> DEFINE old == RecoveredRows(redo_log, t)
             demo == NewRows(DemoRows[t], NoTx)
             recs == Picked(redo_log, Replayed(redo_log, t))
  <2>1. /\ old \in Seq(Row) /\ DemoRows[t] \in Seq(Values)
        /\ NewCounts(DemoRows[t], NoTx)
        /\ \A G : Count(BootRows(redo_log, t), G) = Count(old, G) + Count(demo, G)
    BY <1>3, BootedRows
  <2>2. Recovers(redo_log, t, recs, old)
    BY <1>3, RecoveredShape
  <2> HIDE DEF recs, old
  <2>3. ASSUME NEW i \in 1..Len(old) PROVE old[i].tx_id # NoTx
    <3>1. i \in 1..Len(recs) /\ Len(old) = Len(recs)
      BY <2>2 DEF Recovers
    <3>2. recs[i] \in InsertRecords /\ old[i] = [val |-> recs[i].val, tx_id |-> recs[i].tx_id]
      BY <2>2, <3>1 DEF Recovers
    <3>3. recs[i].tx_id \in TxIds
      BY <3>2 DEF InsertRecords
    <3> QED BY <3>2, <3>3, TxIdAssumption
  <2>4. ASSUME NEW v \in Values
        PROVE  Count(tables'[t], RowWith(NoTx, v)) = Count(DemoRows[t], {v})
    <3>1. \A i \in 1..Len(old) : old[i] \notin RowWith(NoTx, v)
      BY <2>3 DEF RowWith
    <3>2. Count(old, RowWith(NoTx, v)) = 0
      BY <3>1, CountNone
    <3>3. Count(demo, RowWith(NoTx, v)) = Count(DemoRows[t], {v})
      BY <2>1 DEF NewCounts, RowTxs
    <3>4. Count(DemoRows[t], {v}) \in Nat
      BY <2>1, CountType
    <3>5. tables'[t] = BootRows(redo_log, t)
      BY <1>1
    <3> HIDE DEF demo
    <3>6. Count(tables'[t], RowWith(NoTx, v))
             = Count(old, RowWith(NoTx, v)) + Count(demo, RowWith(NoTx, v))
      BY <2>1, <3>5
    <3> QED BY <3>2, <3>3, <3>4, <3>6
  <2>5. MemoryCounts(tables'[t], NoTx) = CountsOf(DemoRows[t])
    BY <2>4 DEF MemoryCounts, CountsOf
  <2>6. ToBag(DemoRows[t]) = BagOf(CountsOf(DemoRows[t]))
    BY <2>1, BagOfValues
  <2> QED BY <2>5, <2>6, SameBags
<1>7. temporary' = [t \in Tables |-> RC!ToBag(DemoRows[t])]
  BY <1>2, <1>6 DEF Mapped, MemoryBags
<1> QED BY <1>1, <1>4, <1>5, <1>7 DEF RC!Start

LEMMA LostIsLose ==
    ASSUME Mirrored, Mirrored', up, Lost
    PROVE  RC!Lose
<1>1. /\ up' = FALSE /\ tables' = [t \in Tables |-> <<>>]
      /\ \A s \in Sessions : current_tx_id'[s] = NoTx
  BY DEF Lost, NoSessions
<1>2. Mapped(durable', temporary', open', pending', tables', redo_log', current_tx_id')
  BY MirroredTypes, MappedNow, MappedNext DEF Mirrored, Undoable, Story, Owned
<1>3. RC!NoRows = NoBags
  BY SameBags DEF RC!NoRows, NoBags
<1>4. MemoryBags(tables', NoTx) = NoBags
  <2>1. ASSUME NEW t \in Tables, NEW v \in Values
        PROVE  Count(tables'[t], RowWith(NoTx, v)) = 0
    <3>1. tables'[t] = <<>>
      BY <1>1
    <3>2. \A i \in 1..Len(tables'[t]) : tables'[t][i] \notin RowWith(NoTx, v)
      BY <3>1
    <3> QED BY <3>2, CountNone
  <2> QED BY <2>1, NoMemory
<1>5. /\ OpenIn(current_tx_id') = [s \in Sessions |-> FALSE]
      /\ PendingBags(tables', current_tx_id') = [s \in Sessions |-> NoBags]
  BY <1>1, NoneOpen
<1>6. /\ temporary' = RC!NoRows
      /\ open' = [s \in Sessions |-> FALSE]
      /\ pending' = [s \in Sessions |-> RC!NoRows]
  BY <1>2, <1>3, <1>4, <1>5 DEF Mapped
<1> QED BY <1>1, <1>6 DEF RC!Lose

LEMMA CrashIsCrash ==
    ASSUME Mirrored, Mirrored', Crash
    PROVE  RC!Crash
<1>1. up /\ Lost /\ redo_log' = redo_log
  BY DEF Crash, logVars
<1>2. /\ Mapped(durable, temporary, open, pending, tables, redo_log, current_tx_id)
      /\ Mapped(durable', temporary', open', pending', tables', redo_log', current_tx_id')
  BY MirroredTypes, MappedNow, MappedNext DEF Mirrored, Undoable, Story, Owned
<1>3. durable' = durable
  BY <1>1, <1>2 DEF Mapped
<1> QED BY <1>1, <1>3, LostIsLose DEF RC!Crash
(***************************************************************************)
(* A death inside a flush: what has reached the file is the whole history  *)
(* and its last record, or lines that recovery makes nothing of.           *)
(***************************************************************************)
\* Of records that end in rec: some of those before it, or unreadable.
Unfinished(lines, recs) ==
    /\ lines \in Seq(LogLines)
    /\ \A k \in 1..Len(lines) :
          lines[k] \in {Garbage, BadUtf8} \/ (k <= Len(recs) /\ lines[k] = recs[k])

LEMMA CutOrWhole ==
    ASSUME SoundDisk, NEW recs \in Seq(RedoRecords), NEW rec \in RedoRecords,
           NEW n \in Nat, n < Len(Append(recs, rec)), NEW tail \in Tails
    PROVE  LET buffer == Append(recs, rec)
               lines == CutLines(buffer, n, tail)
           IN  lines = buffer \/ Unfinished(lines, recs)
<1> DEFINE buffer == Append(recs, rec)
           whole == SubSeq(buffer, 1, n)
           cut == Put(buffer[n + 1], tail)
           lines == whole \o cut
           m == Len(recs)
<1>1. /\ buffer \in Seq(RedoRecords) /\ m \in Nat /\ Len(buffer) = m + 1
      /\ buffer[m + 1] = rec /\ \A k \in 1..m : buffer[k] = recs[k]
  OBVIOUS
<1>3. n \in 0..m /\ n + 1 \in 1..(m + 1)
  BY <1>1
<1> HIDE DEF buffer
<1>5. /\ whole \in Seq(RedoRecords) /\ Len(whole) = n
      /\ \A k \in 1..n : whole[k] = buffer[k]
  BY <1>1, <1>3
<1>6. /\ cut \in Seq(LogLines) /\ Len(cut) \in Nat /\ Len(cut) <= 1
      /\ Len(cut) = 1 => cut[1] \in {buffer[n + 1], Garbage, BadUtf8}
  <2>1. buffer[n + 1] \in RedoRecords
    BY <1>1, <1>3
  <2>2. Serialise(buffer[n + 1]) = buffer[n + 1]
    BY <2>1 DEF SoundDisk, Serialise
  <2>3. cut \in {<<>>, <<buffer[n + 1]>>, <<Garbage>>, <<BadUtf8>>}
    BY <2>2 DEF Put, Tails
  <2>4. {buffer[n + 1], Garbage, BadUtf8} \subseteq LogLines
    BY <2>1 DEF LogLines
  <2> HIDE DEF cut
  <2>5. CASE cut = <<>>
    BY <2>5
  <2>6. ASSUME NEW l \in {buffer[n + 1], Garbage, BadUtf8}, cut = <<l>>
        PROVE  <1>6!1 /\ <1>6!2
    BY <2>4, <2>6
  <2> QED BY <2>3, <2>5, <2>6
<1>7. whole \in Seq(LogLines)
  BY <1>5 DEF LogLines
<1> HIDE DEF whole, cut, m
<1>8. /\ lines \in Seq(LogLines) /\ Len(lines) = n + Len(cut)
      /\ \A k \in 1..n : lines[k] = buffer[k]
      /\ Len(cut) = 1 => lines[n + 1] = cut[1]
  <2>1. /\ lines \in Seq(LogLines) /\ Len(lines) = Len(whole) + Len(cut)
        /\ \A k \in 1..Len(whole) : lines[k] = whole[k]
        /\ Len(cut) = 1 => lines[Len(whole) + 1] = cut[1]
    BY <1>6, <1>7, <1>3
  <2> HIDE DEF lines
  <2> QED BY <1>3, <1>5, <2>1
<1> HIDE DEF lines
<1>9. \A k \in 1..Len(lines) : lines[k] \in {buffer[k], Garbage, BadUtf8}
  <2> TAKE k \in 1..Len(lines)
  <2>1. CASE k <= n
    BY <1>3, <1>8, <2>1
  <2>2. CASE ~(k <= n)
    <3>1. Len(cut) = 1 /\ k = n + 1
      <4>1. k \in Nat /\ k <= n + Len(cut) /\ n \in Nat
        BY <1>8
      <4>2. Len(cut) \in Nat /\ Len(cut) <= 1
        BY <1>6
      <4> DEFINE c == Len(cut)
      <4>3. c \in Nat /\ c <= 1 /\ k <= n + c
        BY <4>1, <4>2
      <4> HIDE DEF c
      <4>4. c = 1 /\ k = n + 1
        BY <2>2, <4>1, <4>3
      <4> QED BY <4>4 DEF c
    <3> QED BY <1>6, <1>8, <3>1
  <2> QED BY <2>1, <2>2
<1>10. ASSUME Len(lines) = m + 1, lines[m + 1] = rec PROVE lines = buffer
  <2>1. n = m
    BY <1>1, <1>3, <1>6, <1>8, <1>10
  <2>2. \A k \in 1..(m + 1) : lines[k] = buffer[k]
    BY <1>1, <1>8, <1>10, <2>1
  <2>3. buffer \in Seq(LogLines) /\ Len(lines) = Len(buffer)
    BY <1>1, <1>10 DEF LogLines
  <2> QED BY <1>1, <1>8, <2>2, <2>3, SeqEqual
<1>11. ASSUME ~(Len(lines) = m + 1 /\ lines[m + 1] = rec) PROVE Unfinished(lines, recs)
  <2>1. ASSUME NEW k \in 1..Len(lines), lines[k] \notin {Garbage, BadUtf8}
        PROVE  k <= m /\ lines[k] = recs[k]
    <3>1. lines[k] = buffer[k]
      BY <1>9, <2>1
    <3>2. Len(lines) \in Nat /\ Len(lines) <= m + 1
      BY <1>1, <1>3, <1>6, <1>8
    <3>3. k <= m
      BY <1>1, <1>11, <3>1, <3>2
    <3> QED BY <1>1, <3>1, <3>3
  <2> QED BY <1>8, <2>1 DEF Unfinished, m
<1>12. lines = buffer \/ Unfinished(lines, recs)
  BY <1>10, <1>11
<1> QED BY <1>12 DEF buffer, lines, whole, cut, CutLines

LEMMA UnfinishedDurable ==
    ASSUME Mirrored, up, boots = 1, NEW lines, Unfinished(lines, redo_buffer)
    PROVE  SameDurable(redo_log \o lines, redo_log)
<1>1. /\ lines \in Seq(LogLines) /\ redo_log \in Seq(LogLines)
      /\ Len(lines) \in Nat /\ Len(redo_buffer) \in Nat
  BY MirroredTypes DEF Unfinished
<1>2. Garbage.type = "garbage" /\ BadUtf8.type = "badutf8"
  BY DEF Garbage, BadUtf8
<1>3. ASSUME NEW k \in 1..Len(lines)
      PROVE  /\ lines[k].type # "commit"
             /\ lines[k].type \in {"insert", "rollback"} => lines[k].tx_id \notin Kept(redo_log)
  <2>1. CASE lines[k] \in {Garbage, BadUtf8}
    BY <1>2, <2>1
  <2>2. CASE k <= Len(redo_buffer) /\ lines[k] = redo_buffer[k]
    <3>1. k \in 1..Len(redo_buffer)
      BY <1>1, <2>2
    <3>2. redo_buffer[k].tx_id \notin Kept(redo_log) /\ redo_buffer[k].type \notin Ending
      BY <3>1, HistoryOpen
    <3> QED BY <2>2, <3>2 DEF Ending
  <2> QED BY <2>1, <2>2 DEF Unfinished
<1>4. Quiet(redo_log, lines)
  BY <1>3 DEF Quiet
<1> QED BY <1>1, <1>4, DurableUntouched

LEMMA HistoryEnded ==
    ASSUME NEW rec \in RedoRecords, redo_log \in Seq(LogLines), redo_buffer \in Seq(RedoRecords)
    PROVE  redo_log \o Append(redo_buffer, rec) = History \o <<rec>>
<1> DEFINE recs == <<rec>>
<1>1. /\ recs \in Seq(LogLines) /\ redo_buffer \in Seq(LogLines)
      /\ Append(redo_buffer, rec) = redo_buffer \o recs
  BY AppendIsConcat DEF LogLines
<1> HIDE DEF recs
<1> QED BY <1>1, ConcatAssociative DEF History, recs

\* The process dies while it writes some record of the buffer.
CutIn(buffer) ==
    \E n \in 0..Len(buffer) - 1, tail \in CrashTails :
    \E outcomes \in [1..n -> {"whole"} \cup DiskTails] :
       WriteRecords(buffer, Append(outcomes, tail))

LEMMA CutFlushOnly ==
    ASSUME SoundDisk, FileTyped, eol, NEW buffer \in Seq(RedoRecords), CutIn(buffer)
    PROVE  \E n \in 0..Len(buffer) - 1, tail \in CrashTails :
              redo_log' = redo_log \o CutLines(buffer, n, tail)
<1>1. PICK n \in 0..Len(buffer) - 1, tail \in CrashTails :
         \E outcomes \in [1..n -> {"whole"}] : WriteRecords(buffer, Append(outcomes, tail))
  <2>1. {"whole"} \cup DiskTails = {"whole"}
    BY DEF SoundDisk
  <2> QED BY <2>1 DEF CutIn
<1>2. PICK outcomes \in [1..n -> {"whole"}] : WriteRecords(buffer, Append(outcomes, tail))
  BY <1>1
<1>3. n \in Nat /\ n < Len(buffer) /\ tail \in Tails
  BY LogAssumption
<1>4. redo_log' = Appended(redo_log, eol, CutLines(buffer, n, tail))
  BY <1>2, <1>3, CutFlush
<1> QED BY <1>4 DEF Appended

LEMMA FlushCrashIsCrash ==
    ASSUME SoundDisk, Mirrored, Mirrored', NEW s \in Sessions, FlushCrash(s)
    PROVE  RC!CommitThenCrash(s) \/ RC!Crash
<1> DEFINE x == current_tx_id[s]
<1>1. up /\ x # NoTx /\ Lost
  BY DEF FlushCrash
<1>2. /\ x \in TxIds /\ eol /\ boots = 1 /\ scn \in Nat /\ scn + 1 \in Nat
      /\ redo_buffer \in Seq(RedoRecords) /\ redo_log \in Seq(LogLines)
  BY <1>1, OpenSession, MirroredTypes
<1>3. PICK kind \in Ending, n0 \in {scn, scn + 1} :
         CutIn(Append(redo_buffer, StatusRecord(kind, x, n0)))
  <2>1. \E buffer \in {commit_buffer(x), rollback_buffer(x)} : CutIn(buffer)
    BY DEF FlushCrash, CutIn
  <2> QED BY <2>1 DEF commit_buffer, rollback_buffer, Ending
<1> DEFINE rec == StatusRecord(kind, x, n0)
           buffer == Append(redo_buffer, rec)
<1>4. rec \in RedoRecords /\ rec.type = kind /\ rec.tx_id = x
  BY <1>2, RecordTypes DEF StatusRecord, Ending
<1>5. buffer \in Seq(RedoRecords) /\ FileTyped
  BY <1>2, <1>4 DEF FileTyped
<1> HIDE DEF x, rec, buffer
<1>6. PICK n \in 0..Len(buffer) - 1, tail \in CrashTails :
         redo_log' = redo_log \o CutLines(buffer, n, tail)
  BY <1>2, <1>3, <1>5, CutFlushOnly DEF buffer, rec
<1> DEFINE lines == CutLines(buffer, n, tail)
<1>6a. redo_log' = redo_log \o lines
  BY <1>6
<1> USE DEF buffer
<1>7. lines = buffer \/ Unfinished(lines, redo_buffer)
  <2>1. n \in Nat /\ n < Len(buffer) /\ tail \in Tails
    BY <1>2, <1>4, LogAssumption
  <2> QED BY <1>2, <1>4, <2>1, CutOrWhole
<1>8. /\ Mapped(durable, temporary, open, pending, tables, redo_log, current_tx_id)
      /\ Mapped(durable', temporary', open', pending', tables', redo_log', current_tx_id')
  BY MirroredTypes, MappedNow, MappedNext DEF Mirrored, Undoable, Story, Owned
<1> HIDE DEF lines, buffer
<1>9. RC!Lose
  BY <1>1, LostIsLose
<1>10. ASSUME SameDurable(redo_log', redo_log) PROVE RC!Crash
  <2>1. durable' = durable
    BY <1>8, <1>10, SameDurableBags DEF Mapped
  <2> QED BY <1>9, <2>1 DEF RC!Crash
<1>11. CASE Unfinished(lines, redo_buffer)
  BY <1>1, <1>2, <1>6a, <1>10, <1>11, UnfinishedDurable
<1>12. CASE lines = buffer
  <2>1. redo_log' = History \o <<rec>>
    BY <1>2, <1>4, <1>6a, <1>12, HistoryEnded DEF buffer
  <2>2. CASE kind = "rollback"
    BY <1>1, <1>4, <1>10, <2>1, <2>2, LogAfterRollback DEF x
  <2>3. CASE kind = "commit"
    <3>1. \A t \in Tables, v \in Values : DurableCount(History \o <<rec>>, t, v)
             = DurableCount(redo_log, t, v) + Count(tables[t], RowWith(x, v))
      BY <1>1, <1>4, <2>3, LogAfterCommit DEF x
    <3>2. DurableGrown(redo_log', redo_log, tables, x)
      BY <2>1, <3>1 DEF DurableGrown
    <3>3. open[s] /\ RC!Save(s)
      BY <1>1, <3>2, SessionSaved DEF x
    <3> QED BY <1>9, <3>3 DEF RC!CommitThenCrash
  <2> QED BY <2>2, <2>3 DEF Ending
<1> QED BY <1>7, <1>11, <1>12

LEMMA StepPromised ==
    ASSUME SoundDisk, Mirrored, Mirrored', [Next]_vars
    PROVE  [RC!Next]_RC!abstractVars
<1>1. CASE Boot
  BY <1>1, BootIsStart DEF RC!Next
<1>2. CASE Crash
  BY <1>2, CrashIsCrash DEF RC!Next
<1>3. ASSUME NEW s \in Sessions, Begin(s) PROVE [RC!Next]_RC!abstractVars
  BY <1>3, BeginIsBegin DEF RC!Next
<1>4. ASSUME NEW s \in Sessions, Commit(s) PROVE [RC!Next]_RC!abstractVars
  BY <1>4, CommitIsCommit DEF RC!Next
<1>5. ASSUME NEW s \in Sessions, Rollback(s) PROVE [RC!Next]_RC!abstractVars
  BY <1>5, RollbackIsAbandon DEF RC!Next
<1>6. ASSUME NEW s \in Sessions, Reconnect(s) PROVE [RC!Next]_RC!abstractVars
  BY <1>6, ReconnectIsAbandon DEF RC!Next
<1>7. ASSUME NEW s \in Sessions, FlushCrash(s) PROVE [RC!Next]_RC!abstractVars
  BY <1>7, FlushCrashIsCrash DEF RC!Next
<1>8. ASSUME NEW s \in Sessions, NEW t \in Tables, NEW rows \in Inserts, Insert(s, t, rows)
      PROVE  [RC!Next]_RC!abstractVars
  BY <1>8, InsertIsInsert DEF RC!Next
<1>9. ASSUME NEW s \in Sessions, Query(s) PROVE [RC!Next]_RC!abstractVars
  <2>1. UNCHANGED <<up, tables, redo_log, current_tx_id>>
    BY <1>9 DEF Query, logVars, dbVars, procVars
  <2> QED BY <2>1, NothingMapped
<1>10. ASSUME NEW t \in Tables, NEW w \in Widths, CreateTable(t, w)
       PROVE  [RC!Next]_RC!abstractVars
  <2>1. UNCHANGED <<up, tables, redo_log, current_tx_id>>
    BY <1>10 DEF CreateTable, logVars, sessionVars, procVars
  <2> QED BY <2>1, NothingMapped
<1>11. CASE UNCHANGED vars
  <2>1. UNCHANGED <<up, tables, redo_log, current_tx_id>>
    BY <1>11 DEF vars, logVars, dbVars, sessionVars, procVars
  <2> QED BY <2>1, NothingMapped
<1> QED BY <1>1, <1>2, <1>3, <1>4, <1>5, <1>6, <1>7, <1>8, <1>9, <1>10, <1>11 DEF Next

LEMMA PromisedStart == Init => RC!Init
<1> SUFFICES ASSUME Init PROVE RC!Init
  OBVIOUS
<1>1. /\ up = FALSE /\ redo_log = <<>> /\ tables = [t \in Tables |-> <<>>]
      /\ \A s \in Sessions : current_tx_id[s] = NoTx
  BY DEF Init
<1>2. Mapped(durable, temporary, open, pending, tables, redo_log, current_tx_id)
  BY MirroredInit, MirroredTypes, MappedNow
<1>3. RC!NoRows = NoBags
  BY SameBags DEF RC!NoRows, NoBags
<1>4. MemoryBags(tables, NoTx) = NoBags
  <2>1. ASSUME NEW t \in Tables, NEW v \in Values
        PROVE  Count(tables[t], RowWith(NoTx, v)) = 0
    <3>1. tables[t] = <<>>
      BY <1>1
    <3>2. \A i \in 1..Len(tables[t]) : tables[t][i] \notin RowWith(NoTx, v)
      BY <3>1
    <3> QED BY <3>2, CountNone
  <2> QED BY <2>1, NoMemory
<1>5. DurableBags(redo_log) = NoBags
  <2>1. ASSUME NEW t \in Tables PROVE BagOf(DurableCounts(redo_log, t)) = EmptyBag
    <3>1. ASSUME NEW v \in Values PROVE DurableCount(redo_log, t, v) = 0
      <4>1. \A i \in 1..Len(redo_log) : redo_log[i] \notin InsertsBy(Kept(redo_log), t, v)
        BY <1>1
      <4> QED BY <4>1, CountNone DEF DurableCount
    <3>2. DurableCounts(redo_log, t) = NoneOf
      BY <3>1 DEF DurableCounts, NoneOf
    <3> QED BY <3>2, BagNone
  <2> QED BY <2>1 DEF DurableBags, NoBags
<1>6. /\ OpenIn(current_tx_id) = [s \in Sessions |-> FALSE]
      /\ PendingBags(tables, current_tx_id) = [s \in Sessions |-> NoBags]
  BY <1>1, NoneOpen
<1>7. /\ durable = RC!NoRows /\ temporary = RC!NoRows
      /\ open = [s \in Sessions |-> FALSE]
      /\ pending = [s \in Sessions |-> RC!NoRows]
  BY <1>2, <1>3, <1>4, <1>5, <1>6 DEF Mapped
<1> QED BY <1>1, <1>7 DEF RC!Init

\* Whoever begins, commits, rolls back and loses connections when, with any
\* number of sessions, tables, rows and restarts, and wherever a crash cuts
\* the writing of a COMMIT: what sessions have pending and what survives a
\* restart changes as read-committed transactions change it (README.md:36-45).
\* Assumed is what the code does not see to: no transaction begins after a
\* restart, where the ids start at 1 again (tx.rs:70), a table has one writer
\* (handler.rs:71-80 removes rows by index), the disk takes every write and
\* every FLOAT is finite.
THEOREM ReadCommittedImplemented ==
    ASSUME NoReuse, OneWriter, SoundDisk
    PROVE  Spec => ImplementsReadCommitted
<1>1. Mirrored /\ Mirrored' /\ [Next]_vars => [RC!Next]_RC!abstractVars
  BY StepPromised
<1> QED BY <1>1, PromisedStart, AlwaysMirrored, PTL
        DEF Spec, ImplementsReadCommitted, RC!Spec
-----------------------------------------------------------------------------
(***************************************************************************)
(* What a SELECT sees.                                                     *)
(***************************************************************************)
\* The rows that session s sees with value v.
SeenWith(stats, x, v) ==
    {r \in Row : r.val = v /\ (\/ r.tx_id = NoTx \/ r.tx_id = x
                               \/ (r.tx_id \in TxIds /\ stats[r.tx_id] = "Committed"))}
OwnCounts(rows, x) == IF x = NoTx THEN NoneOf ELSE MemoryCounts(rows, x)

LEMMA VisibleCounts ==
    ASSUME Mirrored, up, NEW s \in Sessions, NEW t \in Tables, NEW v \in Values
    PROVE  Count(VisibleRows(s, t), WithVal(v))
              = Count(tables[t], SeenWith(statuses, current_tx_id[s], v))
<1> DEFINE rows == tables[t]
           x == current_tx_id[s]
           K == {i \in DOMAIN rows : is_visible(rows[i].tx_id, x, scn)}
           H == {r \in Row : is_visible(r.tx_id, x, scn)}
           both == SeenWith(statuses, x, v)
<1>1. rows \in Seq(Row) /\ x \in TxIds \cup {NoTx}
  BY MirroredTypes
<1>2. \A y \in TxIds : is_visible(y, x, scn) <=> y = x \/ statuses[y] = "Committed"
  <2>1. \A y \in TxIds : statuses[y] = "Committed" => commit_scns[y] \in 1..scn
    BY DEF Mirrored, Published, CommitsVisible
  <2>2. scn \in Nat /\ \A y \in TxIds : commit_scns[y] \in Nat
    BY MirroredTypes
  <2> HIDE DEF x
  <2> QED BY <2>1, <2>2, TxIdAssumption DEF is_visible, NoScn
<1>3. is_visible(NoTx, x, scn)
  BY DEF is_visible
<1> HIDE DEF rows, x
<1>4. DOMAIN rows = 1..Len(rows) /\ \A i \in 1..Len(rows) : rows[i] \in Row
  BY <1>1
<1>5. \A i \in 1..Len(rows) : i \in K <=> rows[i] \in H
  BY <1>4
<1>6. \A r \in Row : r \in both <=> r \in WithVal(v) /\ r \in H
  <2>1. \A r \in Row : r.tx_id \in TxIds \/ r.tx_id = NoTx
    BY DEF Row
  <2>2. ASSUME NEW r \in Row
        PROVE  is_visible(r.tx_id, x, scn)
                  <=> \/ r.tx_id = NoTx \/ r.tx_id = x
                      \/ (r.tx_id \in TxIds /\ statuses[r.tx_id] = "Committed")
    BY <1>2, <1>3, <2>1
  <2> QED BY <2>2 DEF SeenWith, WithVal
<1> HIDE DEF K, H, both
<1>7. Selects(rows, K, WithVal(v), H, both)
  BY <1>4, <1>5, <1>6 DEF Selects
<1>8. Picked(rows, K) \in Seq(Row) /\ Count(Picked(rows, K), WithVal(v)) = Count(rows, both)
  BY <1>1, <1>7, CountPickedIn
<1> QED BY <1>8 DEF VisibleRows, rows, x, K, both

LEMMA SeenCounts ==
    ASSUME Mirrored, up, NEW s \in Sessions, NEW t \in Tables, NEW v \in Values
    PROVE  Count(tables[t], SeenWith(statuses, current_tx_id[s], v))
              = Plus(Plus(DurableCounts(redo_log, t), MemoryCounts(tables[t], NoTx)),
                     OwnCounts(tables[t], current_tx_id[s]))[v]
<1> DEFINE rows == tables[t]
           x == current_tx_id[s]
           G == CommittedWith(statuses, v)
           T == RowWith(NoTx, v)
           O == IF x = NoTx THEN {} ELSE RowWith(x, v)
           shared == {r \in Row : r \in G \/ r \in T}
           both == SeenWith(statuses, x, v)
<1>1. rows \in Seq(Row) /\ x \in TxIds \cup {NoTx}
  BY MirroredTypes
<1>2. x # NoTx => statuses[x] = "Active"
  BY OpenSession
<1> HIDE DEF x
<1>3. \A r \in Row : /\ r \in shared <=> r \in G \/ r \in T
                     /\ ~(r \in G /\ r \in T)
  BY TxIdAssumption DEF CommittedWith, RowWith
<1>4. ASSUME NEW r \in Row
      PROVE  /\ r \in both <=> r \in shared \/ r \in O
             /\ ~(r \in shared /\ r \in O)
  <2>1. /\ \A y : r \in RowWith(y, v) <=> r.val = v /\ r.tx_id = y
        /\ r \in G <=> r.val = v /\ r.tx_id \in TxIds /\ statuses[r.tx_id] = "Committed"
    BY DEF RowWith, CommittedWith, Row
  <2>2. r.tx_id \in TxIds \/ r.tx_id = NoTx
    BY DEF Row
  <2>3. r \in both <=> r.val = v /\ (\/ r.tx_id = NoTx \/ r.tx_id = x
                               \/ (r.tx_id \in TxIds /\ statuses[r.tx_id] = "Committed"))
    BY DEF SeenWith
  <2> HIDE DEF G, both
  <2> QED BY <1>1, <1>2, <2>1, <2>2, <2>3, TxIdAssumption
<1> HIDE DEF rows, G, T, O, shared, both
<1>5. Count(rows, shared) = Count(rows, G) + Count(rows, T)
  BY <1>1, <1>3, CountApart
<1>6. Count(rows, both) = Count(rows, shared) + Count(rows, O)
  BY <1>1, <1>4, CountApart
<1>7. Count(rows, G) = DurableCounts(redo_log, t)[v]
  BY DEF Mirrored, CommittedMirrored, DurableCounts, G, rows
<1>8. Count(rows, T) = MemoryCounts(rows, NoTx)[v]
  BY DEF MemoryCounts, T
<1>9. Count(rows, O) = OwnCounts(rows, x)[v]
  <2>1. CASE x = NoTx
    <3>1. \A i \in 1..Len(rows) : rows[i] \notin O
      BY <2>1 DEF O
    <3>2. Count(rows, O) = 0
      BY <3>1, CountNone
    <3> QED BY <2>1, <3>2 DEF OwnCounts, NoneOf
  <2>2. CASE x # NoTx
    BY <2>2 DEF OwnCounts, MemoryCounts, O
  <2> QED BY <2>1, <2>2
<1> QED BY <1>5, <1>6, <1>7, <1>8, <1>9 DEF Plus, both, rows, x

LEMMA ViewIsPromised ==
    ASSUME Mirrored, up, NEW s \in Sessions, NEW t \in Tables
    PROVE  ValuesOf(VisibleRows(s, t)) = RC!View(s, t)
<1> DEFINE rows == tables[t]
           x == current_tx_id[s]
           visible == VisibleRows(s, t)
           f == DurableCounts(redo_log, t)
           g == MemoryCounts(rows, NoTx)
           h == OwnCounts(rows, x)
<1>1. rows \in Seq(Row) /\ redo_log \in Seq(LogLines) /\ x \in RowTxs /\ NoTx \in RowTxs
  BY MirroredTypes DEF RowTxs
<1>2. Mapped(durable, temporary, open, pending, tables, redo_log, current_tx_id)
  BY MirroredTypes, MappedNow
<1>3. durable[t] = BagOf(f) /\ temporary[t] = BagOf(g)
  BY <1>2 DEF Mapped, DurableBags, MemoryBags
<1>4. pending[s][t] = BagOf(h)
  BY <1>2, BagNone DEF Mapped, PendingBags, NoBags, MemoryBags, OwnCounts
<1>5. ASSUME NEW v \in Values
      PROVE  Count(visible, WithVal(v)) = Plus(Plus(f, g), h)[v]
  BY VisibleCounts, SeenCounts
<1> HIDE DEF rows, x, visible
<1>6. f \in [Values -> Nat] /\ g \in [Values -> Nat] /\ h \in [Values -> Nat]
  <2>1. f \in [Values -> Nat]
    BY <1>1, RecoveredAsBag
  <2>2. \A y \in RowTxs : MemoryCounts(rows, y) \in [Values -> Nat]
    BY <1>1, MemoryAsBag
  <2>3. h \in [Values -> Nat]
    BY <1>1, <2>2, BagNone DEF OwnCounts
  <2> QED BY <1>1, <2>1, <2>2, <2>3
<1> HIDE DEF f, g, h
<1>7. visible \in Seq(Row)
  <2>1. DOMAIN rows = 1..Len(rows)
    BY <1>1
  <2> QED BY <1>1, CountPicked DEF VisibleRows, visible, rows
<1>8. RowCounts(visible) = Plus(Plus(f, g), h)
  <2>1. Plus(Plus(f, g), h) = [v \in Values |-> Plus(Plus(f, g), h)[v]]
    BY DEF Plus
  <2> QED BY <1>5, <2>1 DEF RowCounts
<1>9. ValuesOf(visible) = BagOf(Plus(Plus(f, g), h))
  BY <1>7, <1>8, RowsAsBag
<1>10. Plus(f, g) \in [Values -> Nat]
  BY <1>6 DEF Plus
<1>11. BagOf(Plus(Plus(f, g), h)) = (BagOf(f) (+) BagOf(g)) (+) BagOf(h)
  BY <1>6, <1>10, BagSum
<1>12. RC!View(s, t) = (durable[t] (+) temporary[t]) (+) pending[s][t]
  BY SameBags DEF RC!View
<1> QED BY <1>3, <1>4, <1>9, <1>11, <1>12 DEF visible

\* With any number of sessions and restarts, what a SELECT returns is what a
\* restart would bring back, the rows outside transactions and the session's
\* own, and nothing of other transactions (tx.rs:152-174, README.md:40-41);
\* assumed is the same.
THEOREM ViewsRight ==
    ASSUME NoReuse, OneWriter, SoundDisk
    PROVE  Spec => []ViewsAgree
<1>1. Mirrored => ViewsAgree
  BY ViewIsPromised DEF ViewsAgree
<1> QED BY <1>1, AlwaysMirrored, PTL
=============================================================================

--------------------------- MODULE DatabaseProofs ---------------------------
(***************************************************************************)
(* Theorems about Database, for any sessions, tables, rows, bounds and     *)
(* ways of cutting a write: type correctness, the ownership of             *)
(* transactions and the order of the SCNs along the log.                   *)
(***************************************************************************)
EXTENDS Database, RecoveryProofs

(***************************************************************************)
(* The undo loop keeps the types of the tables.                            *)
(***************************************************************************)
LEMMA RemoveRowType ==
    ASSUME NEW tbls \in [Tables -> Seq(Row)], NEW rec \in UndoRecord
    PROVE  RemoveRow(tbls, rec) \in [Tables -> Seq(Row)]
<1>1. rec.table \in Tables /\ rec.row_idx \in Nat \ {0}
  BY DEF UndoRecord
<1>2. tbls[rec.table] \in Seq(Row)
  BY <1>1
<1>3. ASSUME rec.row_idx <= Len(tbls[rec.table])
      PROVE  RemoveAt(tbls[rec.table], rec.row_idx) \in Seq(Row)
  <2> DEFINE s == tbls[rec.table]
             i == rec.row_idx
  <2>1. s \in Seq(Row) /\ i \in 1..Len(s)
    BY <1>1, <1>2, <1>3
  <2>2. RemoveAt(s, i) \in Seq(Row)
    <3> HIDE DEF s, i
    <3> QED BY <2>1 DEF RemoveAt
  <2> QED BY <2>2
<1> QED BY <1>2, <1>3 DEF RemoveRow

\* A[k] holds of the tables after k records, if every record leads from each
\* A[k - 1] to A[k].
LEMMA UndoneStages ==
    ASSUME NEW tbls \in [Tables -> Seq(Row)], NEW undo \in Seq(UndoRecord),
           NEW A, tbls \in A[0],
           \A k \in 1..Len(undo) : \A x \in [Tables -> Seq(Row)] :
               x \in A[k - 1] => RemoveRow(x, undo[Len(undo) + 1 - k]) \in A[k]
    PROVE  /\ Undone(tbls, undo) \in [Tables -> Seq(Row)]
           /\ Undone(tbls, undo) \in A[Len(undo)]
<1> DEFINE TS == [Tables -> Seq(Row)]
           len == Len(undo)
           Step(f, k) == IF k = 0 THEN tbls ELSE RemoveRow(f[k - 1], undo[len + 1 - k])
           after == CHOOSE f : f = [k \in 0..len |-> Step(f, k)]
           step == [k \in 1..len |-> [x \in TS |-> RemoveRow(x, undo[len + 1 - k])]]
<1>1. len \in Nat
  OBVIOUS
<1>2. \A k \in 1..len : undo[len + 1 - k] \in UndoRecord
  <2>1. \A k \in 1..len : len + 1 - k \in 1..len
    BY <1>1
  <2> QED BY <2>1
<1>3. \A k \in 1..len, x \in TS : RemoveRow(x, undo[len + 1 - k]) \in TS
  BY <1>2, RemoveRowType
<1>4. step \in [1..len -> [TS -> TS]]
  <2> HIDE DEF TS, len
  <2> QED BY <1>3
<1>5. PICK g : /\ g \in [0..len -> TS]
               /\ g[0] = tbls
               /\ \A k \in 1..len : g[k] = step[k][g[k - 1]]
  <2>1. tbls \in TS
    OBVIOUS
  <2>2. \E g : Follows(g, len, TS, tbls, step)
    <3> HIDE DEF TS, len, step, after, Step
    <3> QED BY <1>1, <1>4, <2>1, RecursionExists
  <2> QED BY <2>2 DEF Follows
<1>6. g = [k \in 0..len |-> Step(g, k)]
  <2>1. ASSUME NEW k \in 0..len PROVE g[k] = Step(g, k)
    <3>1. CASE k = 0
      BY <3>1, <1>5
    <3>2. CASE k \in 1..len
      <4>1. g[k - 1] \in TS
        <5>1. k - 1 \in 0..len
          BY <3>2, <1>1
        <5> HIDE DEF TS, len
        <5> QED BY <5>1, <1>5
      <4>2. g[k] = step[k][g[k - 1]]
        BY <3>2, <1>5
      <4> HIDE DEF TS, len
      <4> QED BY <3>2, <4>1, <4>2
    <3> QED BY <3>1, <3>2, <1>1
  <2> HIDE DEF Step, TS, step, len
  <2> QED BY <2>1, <1>5
<1>7. after = [k \in 0..len |-> Step(after, k)]
  <2> HIDE DEF Step
  <2> QED BY <1>6
<1>8. Undone(tbls, undo) = after[len]
  BY DEF Undone
<1> HIDE DEF after
<1> DEFINE T == {n \in Nat : n <= len => after[n] \in TS /\ after[n] \in A[n]}
<1>9. 0 \in T
  <2>1. after[0] = Step(after, 0)
    <3> HIDE DEF Step, len
    <3> QED BY <1>7, <1>1
  <2> QED BY <2>1
<1>10. ASSUME NEW n \in Nat, n \in T PROVE n + 1 \in T
  <2>1. SUFFICES ASSUME n + 1 <= len PROVE after[n + 1] \in TS /\ after[n + 1] \in A[n + 1]
    OBVIOUS
  <2>2. after[n] \in TS /\ after[n] \in A[n]
    BY <1>10, <2>1, <1>1
  <2>3. after[n + 1] = Step(after, n + 1)
    <3>1. n + 1 \in 0..len
      BY <2>1, <1>1
    <3> HIDE DEF Step, len
    <3> QED BY <1>7, <3>1, Zenon
  <2>4. (n + 1) - 1 = n /\ n + 1 # 0 /\ n + 1 \in 1..len
    BY <2>1, <1>1
  <2>5. after[n + 1] = RemoveRow(after[n], undo[len + 1 - (n + 1)])
    BY <2>3, <2>4
  <2>6. RemoveRow(after[n], undo[len + 1 - (n + 1)]) \in A[n + 1]
    <3> DEFINE m == n + 1
    <3>1. m \in 1..len /\ m - 1 = n
      BY <2>4
    <3> HIDE DEF m
    <3>2. after[n] \in A[m - 1]
      BY <3>1, <2>2
    <3> HIDE DEF after
    <3>3. RemoveRow(after[n], undo[Len(undo) + 1 - m]) \in A[m]
      BY <2>2, <3>1, <3>2
    <3> QED BY <3>3 DEF m
  <2> HIDE DEF TS, len
  <2> QED BY <2>2, <2>4, <2>5, <2>6, <1>3
<1>11. Nat \subseteq T
  <2> HIDE DEF T
  <2> QED BY <1>9, <1>10, NatSetInduction
<1>12. len \in T
  BY <1>11, <1>1
<1> QED BY <1>12, <1>8

LEMMA UndoneType ==
    ASSUME NEW tbls \in [Tables -> Seq(Row)], NEW undo \in Seq(UndoRecord)
    PROVE  Undone(tbls, undo) \in [Tables -> Seq(Row)]
<1> DEFINE A == [k \in 0..Len(undo) |-> [Tables -> Seq(Row)]]
<1>1. tbls \in A[0]
  OBVIOUS
<1>2. \A k \in 1..Len(undo) : \A x \in [Tables -> Seq(Row)] :
         x \in A[k - 1] => RemoveRow(x, undo[Len(undo) + 1 - k]) \in A[k]
  <2>1. \A k \in 1..Len(undo) : undo[Len(undo) + 1 - k] \in UndoRecord
    OBVIOUS
  <2> QED BY <2>1, RemoveRowType
<1> HIDE DEF A
<1> QED BY <1>1, <1>2, UndoneStages

-----------------------------------------------------------------------------
(***************************************************************************)
(* Type correctness.  TypeOK is inductive once it is known that a running  *)
(* server has started (so that BeginBudget is defined) and that only a     *)
(* file with a line in it can have an unterminated one.                    *)
(***************************************************************************)
Typed ==
    /\ TypeOK
    /\ up => boots # 0
    /\ ~eol => redo_log # <<>>

\* The records that the methods of the transaction manager make.
LEMMA RecordTypes ==
    ASSUME NEW tx \in TxIds, NEW n \in Nat
    PROVE  /\ \A k \in {"begin", "commit", "rollback"} : StatusRecord(k, tx, n) \in RedoRecords
           /\ \A t \in Tables, v \in Values : InsertRecord(tx, n, t, v) \in RedoRecords
BY DEF RedoRecords, StatusRecords, InsertRecords, StatusRecord, InsertRecord

\* The flushes of COMMIT and ROLLBACK get buffers of records.
LEMMA BufferTypes ==
    ASSUME Typed, NEW tx \in TxIds
    PROVE  /\ commit_buffer(tx) \in Seq(RedoRecords)
           /\ rollback_buffer(tx) \in Seq(RedoRecords)
<1>1. redo_buffer \in Seq(RedoRecords) /\ scn \in Nat /\ scn + 1 \in Nat
  BY DEF Typed, TypeOK
<1>2. /\ StatusRecord("commit", tx, scn + 1) \in RedoRecords
      /\ StatusRecord("rollback", tx, scn) \in RedoRecords
  BY <1>1, RecordTypes
<1> QED BY <1>1, <1>2 DEF commit_buffer, rollback_buffer

\* Some records of a buffer were written behind the log, each with an outcome.
WroteRecords(buffer, outcomes) ==
    /\ buffer \in Seq(RedoRecords)
    /\ outcomes \in Seq({"whole"} \cup CrashTails \cup DiskTails)
    /\ Len(outcomes) <= Len(buffer)
    /\ WriteRecords(buffer, outcomes)

LEMMA FlushWrites ==
    ASSUME NEW buffer \in Seq(RedoRecords), lgwr_flush(buffer)
    PROVE  \E outcomes : WroteRecords(buffer, outcomes)
<1>1. PICK outcomes \in [1..Len(buffer) -> {"whole"} \cup DiskTails] :
         WriteRecords(buffer, outcomes)
  BY DEF lgwr_flush
<1>2. Len(buffer) \in Nat
  OBVIOUS
<1>3. outcomes \in Seq({"whole"} \cup CrashTails \cup DiskTails)
  <2> DEFINE S == {"whole"} \cup CrashTails \cup DiskTails
  <2>1. outcomes \in [1..Len(buffer) -> S]
    OBVIOUS
  <2> HIDE DEF S
  <2>2. outcomes \in Seq(S)
    BY <1>2, <2>1, SeqDef
  <2> QED BY <2>2 DEF S
<1>4. Len(outcomes) = Len(buffer)
  BY <1>2
<1> QED BY <1>1, <1>2, <1>3, <1>4 DEF WroteRecords

LEMMA CrashWrites ==
    ASSUME Typed, NEW s \in Sessions, FlushCrash(s)
    PROVE  \E buffer \in {commit_buffer(current_tx_id[s]), rollback_buffer(current_tx_id[s])} :
               \E outcomes : WroteRecords(buffer, outcomes)
<1>1. current_tx_id[s] \in TxIds
  BY DEF FlushCrash, Typed, TypeOK
<1>2. PICK buffer \in {commit_buffer(current_tx_id[s]), rollback_buffer(current_tx_id[s])} :
         \E n \in 0..Len(buffer) - 1, tail \in CrashTails :
         \E before \in [1..n -> {"whole"} \cup DiskTails] :
            WriteRecords(buffer, Append(before, tail))
  BY DEF FlushCrash
<1>3. buffer \in Seq(RedoRecords)
  BY <1>1, <1>2, BufferTypes
<1>4. PICK n \in 0..Len(buffer) - 1, tail \in CrashTails :
         \E before \in [1..n -> {"whole"} \cup DiskTails] :
            WriteRecords(buffer, Append(before, tail))
  BY <1>2
<1>5. PICK before \in [1..n -> {"whole"} \cup DiskTails] :
         WriteRecords(buffer, Append(before, tail))
  BY <1>4
<1> DEFINE S == {"whole"} \cup CrashTails \cup DiskTails
           outcomes == Append(before, tail)
<1>6. Len(buffer) \in Nat /\ n \in Nat /\ n + 1 <= Len(buffer)
  BY <1>3
<1>7. before \in [1..n -> S] /\ tail \in S
  OBVIOUS
<1> HIDE DEF S
<1>8. before \in Seq(S) /\ Len(before) = n
  <2>1. before \in Seq(S)
    BY <1>6, <1>7, SeqDef
  <2> QED BY <1>6, <1>7, <2>1, LenProperties
<1>9. outcomes \in Seq(S) /\ Len(outcomes) = n + 1
  BY <1>7, <1>8, AppendProperties
<1>10. WroteRecords(buffer, outcomes)
  BY <1>3, <1>5, <1>6, <1>9 DEF WroteRecords, S
<1> QED BY <1>10

LEMMA OutcomeTypes ==
    ASSUME NEW buffer, NEW outcomes, WroteRecords(buffer, outcomes)
    PROVE  outcomes \in Seq(Outcomes)
<1> DEFINE S == {"whole"} \cup CrashTails \cup DiskTails
<1>1. S \subseteq Outcomes
  BY LogAssumption DEF Outcomes
<1>2. outcomes \in Seq(S)
  BY DEF WroteRecords
<1> HIDE DEF S
<1> QED BY <1>1, <1>2, SeqMonotonic

\* Every such write leaves a file, whose readable lines come in order from the
\* log and the buffer behind it.
LEMMA WroteEffect ==
    ASSUME Typed, NEW buffer, NEW outcomes, WroteRecords(buffer, outcomes)
    PROVE  /\ redo_log' \in Seq(LogLines) /\ eol' \in BOOLEAN
           /\ ~eol' => redo_log' # <<>>
           /\ Embeds(redo_log', redo_log \o buffer)
<1>1. redo_log \in Seq(LogLines) /\ eol \in BOOLEAN /\ (~eol => redo_log # <<>>)
  BY DEF Typed, TypeOK
<1>2. outcomes \in Seq(Outcomes)
  BY OutcomeTypes
<1> QED BY <1>1, <1>2, WriteEffect DEF WroteRecords

LEMMA FlushTyped ==
    ASSUME Typed, NEW buffer \in Seq(RedoRecords), lgwr_flush(buffer)
    PROVE  /\ redo_log' \in Seq(LogLines) /\ eol' \in BOOLEAN
           /\ ~eol' => redo_log' # <<>>
           /\ Embeds(redo_log', redo_log \o buffer)
           /\ redo_buffer' = <<>>
BY FlushWrites, WroteEffect DEF lgwr_flush

\* Losing the process, and booting, leave memory in its types.
LEMMA NewManagerTyped ==
    ASSUME NEW n \in Nat, NEW stats \in [TxIds -> TxStatus], NEW cscns \in [TxIds -> Nat],
           NewManager(n, stats, cscns)
    PROVE  /\ scn' \in Nat /\ next_tx_id' \in Nat \ {0}
           /\ statuses' \in [TxIds -> TxStatus]
           /\ commit_scns' \in [TxIds -> Nat]
           /\ undo_segments' \in [TxIds -> Seq(UndoRecord)]
           /\ redo_buffer' \in Seq(RedoRecords)
BY DEF NewManager, NoUndo

LEMMA LostTyped ==
    ASSUME Typed, Lost,
           redo_log' \in Seq(LogLines), eol' \in BOOLEAN, ~eol' => redo_log' # <<>>
    PROVE  Typed'
<1>1. NoStatuses \in [TxIds -> TxStatus] /\ NoCommitScns \in [TxIds -> Nat]
  BY DEF NoStatuses, NoCommitScns, TxStatus, NoScn
<1>2. /\ scn' \in Nat /\ next_tx_id' \in Nat \ {0}
      /\ statuses' \in [TxIds -> TxStatus]
      /\ commit_scns' \in [TxIds -> Nat]
      /\ undo_segments' \in [TxIds -> Seq(UndoRecord)]
      /\ redo_buffer' \in Seq(RedoRecords)
  BY <1>1, NewManagerTyped DEF Lost
<1>3. /\ catalog' \in [Tables -> Nat]
      /\ tables' \in [Tables -> Seq(Row)]
      /\ current_tx_id' \in [Sessions -> TxIds \cup {NoTx}]
      /\ cr_scn' \in [Sessions -> Nat]
      /\ up' = FALSE /\ boots' \in 0..MaxBoots
  BY DEF Lost, NoSessions, NoSchema, Typed, TypeOK
<1> QED BY <1>2, <1>3 DEF Typed, TypeOK

\* New rows, of an INSERT or of the demo data.
LEMMA NewRowsType ==
    ASSUME NEW rows \in Seq(Values), NEW tx \in TxIds \cup {NoTx}
    PROVE  NewRows(rows, tx) \in Seq(Row)
<1>1. Len(rows) \in Nat /\ DOMAIN rows = 1..Len(rows)
  OBVIOUS
<1>2. \A i \in 1..Len(rows) : [val |-> rows[i], tx_id |-> tx] \in Row
  BY DEF Row
<1> QED BY <1>1, <1>2 DEF NewRows

LEMMA BootTyped ==
    ASSUME Typed, Boot
    PROVE  Typed'
<1>1. redo_log \in Seq(LogLines) /\ boots \in Nat /\ boots < MaxBoots
  BY DatabaseAssumption DEF Boot, Typed, TypeOK
<1>2. /\ scn' \in Nat /\ next_tx_id' \in Nat \ {0}
      /\ statuses' \in [TxIds -> TxStatus]
      /\ commit_scns' \in [TxIds -> Nat]
      /\ undo_segments' \in [TxIds -> Seq(UndoRecord)]
      /\ redo_buffer' \in Seq(RedoRecords)
  BY <1>1, RecoveredScnAhead, RecoveredStatusesType, RecoveredCommitScnsType,
     NewManagerTyped DEF Boot
<1>3. tables' \in [Tables -> Seq(Row)]
  <2>1. SUFFICES ASSUME NEW t \in Tables PROVE BootRows(redo_log, t) \in Seq(Row)
    BY DEF Boot
  <2>2. RecoveredRows(redo_log, t) \in Seq([val : Values, tx_id : TxIds])
    BY <1>1, RecoveredRowsType
  <2>3. [val : Values, tx_id : TxIds] \subseteq Row
    BY DEF Row
  <2>4. RecoveredRows(redo_log, t) \in Seq(Row)
    BY <2>2, <2>3, SeqMonotonic
  <2>5. NewRows(DemoRows[t], NoTx) \in Seq(Row)
    BY DatabaseAssumption, NewRowsType
  <2> QED BY <2>4, <2>5, ConcatProperties DEF BootRows
<1>4. catalog' \in [Tables -> Nat]
  <2>1. SUFFICES ASSUME NEW t \in Tables PROVE DemoSchema(t) \in Nat
    BY DEF Boot
  <2>2. DemoRows[t] # <<>> => DemoRows[t][1] \in Values
    BY DatabaseAssumption
  <2> QED BY <2>2, DatabaseAssumption DEF DemoSchema, NoSchema
<1>5. /\ current_tx_id' \in [Sessions -> TxIds \cup {NoTx}]
      /\ cr_scn' \in [Sessions -> Nat]
  BY DEF Boot, NoSessions
<1>6. up' = TRUE /\ boots' = boots + 1
  BY DEF Boot
<1>7. boots' \in 0..MaxBoots /\ boots' # 0
  BY <1>1, <1>6, DatabaseAssumption
<1>8. UNCHANGED logVars
  BY DEF Boot
<1> QED BY <1>2, <1>3, <1>4, <1>5, <1>6, <1>7, <1>8 DEF Typed, TypeOK, logVars

LEMMA BeginTyped ==
    ASSUME Typed, NEW s \in Sessions, Begin(s)
    PROVE  Typed' /\ next_tx_id \in TxIds
<1> USE DEF Typed, TypeOK
<1>1. next_tx_id \in TxIds
  <2>1. boots \in 1..MaxBoots /\ next_tx_id \in 1..BeginBudget[boots]
    BY DatabaseAssumption DEF Begin
  <2> QED BY <2>1, DatabaseAssumption
<1>2. StatusRecord("begin", next_tx_id, scn) \in RedoRecords
  BY <1>1, RecordTypes
<1>3. redo_buffer' \in Seq(RedoRecords)
  BY <1>2 DEF Begin, begin
<1>4. /\ statuses' \in [TxIds -> TxStatus]
      /\ undo_segments' \in [TxIds -> Seq(UndoRecord)]
      /\ next_tx_id' \in Nat \ {0}
      /\ current_tx_id' \in [Sessions -> TxIds \cup {NoTx}]
  BY <1>1 DEF Begin, begin, TxStatus
<1>5. UNCHANGED <<scn, commit_scns, redo_log, eol, cr_scn, catalog, tables, up, boots>>
  BY DEF Begin, begin, dbVars, procVars
<1> QED BY <1>1, <1>3, <1>4, <1>5

LEMMA CommitTyped ==
    ASSUME Typed, NEW s \in Sessions, Commit(s)
    PROVE  Typed'
<1> USE DEF Typed, TypeOK
<1>1. current_tx_id[s] \in TxIds
  BY DEF Commit
<1>2. /\ redo_log' \in Seq(LogLines) /\ eol' \in BOOLEAN
      /\ ~eol' => redo_log' # <<>>
      /\ redo_buffer' = <<>>
  BY <1>1, BufferTypes, FlushTyped DEF Commit, commit
<1>3. /\ scn' \in Nat
      /\ statuses' \in [TxIds -> TxStatus]
      /\ commit_scns' \in [TxIds -> Nat]
      /\ current_tx_id' \in [Sessions -> TxIds \cup {NoTx}]
  BY <1>1 DEF Commit, commit, TxStatus
<1>4. UNCHANGED <<undo_segments, next_tx_id, cr_scn, catalog, tables, up, boots>>
  BY DEF Commit, commit, dbVars, procVars
<1> QED BY <1>2, <1>3, <1>4

LEMMA RollbackTyped ==
    ASSUME Typed, NEW s \in Sessions, Rollback(s)
    PROVE  Typed'
<1> USE DEF Typed, TypeOK
<1>1. current_tx_id[s] \in TxIds
  BY DEF Rollback
<1>2. /\ redo_log' \in Seq(LogLines) /\ eol' \in BOOLEAN
      /\ ~eol' => redo_log' # <<>>
      /\ redo_buffer' = <<>>
  BY <1>1, BufferTypes, FlushTyped DEF Rollback, rollback
<1>3. tables' \in [Tables -> Seq(Row)]
  BY <1>1, UndoneType DEF Rollback
<1>4. /\ statuses' \in [TxIds -> TxStatus]
      /\ undo_segments' \in [TxIds -> Seq(UndoRecord)]
      /\ current_tx_id' \in [Sessions -> TxIds \cup {NoTx}]
  BY <1>1 DEF Rollback, rollback, TxStatus
<1>5. UNCHANGED <<scn, commit_scns, next_tx_id, cr_scn, catalog, up, boots>>
  BY DEF Rollback, rollback, procVars
<1> QED BY <1>2, <1>3, <1>4, <1>5

LEMMA InsertTyped ==
    ASSUME Typed, NEW s \in Sessions, NEW t \in Tables, NEW rows \in Inserts,
           Insert(s, t, rows)
    PROVE  Typed'
<1> USE DEF Typed, TypeOK
<1>1. PICK n \in 1..Len(rows) :
         /\ tables' = [tables EXCEPT ![t] =
               @ \o NewRows(SubSeq(rows, 1, n), current_tx_id[s])]
         /\ IF current_tx_id[s] = NoTx
            THEN UNCHANGED <<logVars, txVars>>
            ELSE record_inserts(current_tx_id[s], t, SubSeq(rows, 1, n),
                                Len(tables[t]))
  BY DEF Insert
<1> DEFINE new == SubSeq(rows, 1, n)
           tx == current_tx_id[s]
<1>2. rows \in Seq(Values) /\ tx \in TxIds \cup {NoTx} /\ tables[t] \in Seq(Row)
  BY DatabaseAssumption
<1>3. new \in Seq(Values)
  BY <1>2
<1>4. tables' \in [Tables -> Seq(Row)]
  <2>1. NewRows(new, tx) \in Seq(Row)
    BY <1>2, <1>3, NewRowsType
  <2>2. tables[t] \o NewRows(new, tx) \in Seq(Row)
    BY <2>1, <1>2, ConcatProperties
  <2> QED BY <2>2, <1>1
<1>5. UNCHANGED <<catalog, current_tx_id, cr_scn, up, boots>>
  BY DEF Insert, sessionVars, procVars
<1>6. CASE tx = NoTx
  <2>1. UNCHANGED <<logVars, txVars>>
    BY <1>1, <1>6
  <2> QED BY <1>4, <1>5, <2>1 DEF logVars, txVars
<1>7. CASE tx \in TxIds
  <2> HIDE DEF new, tx
  <2>1. record_inserts(tx, t, new, Len(tables[t]))
    BY <1>1, <1>7, TxIdAssumption DEF new, tx
  <2>2. /\ Len(new) \in Nat /\ DOMAIN new = 1..Len(new)
        /\ \A i \in 1..Len(new) : new[i] \in Values
    BY <1>3
  <2>3. undo_segments' \in [TxIds -> Seq(UndoRecord)]
    <3> DEFINE undo == [i \in DOMAIN new |-> [table |-> t, row_idx |-> Len(tables[t]) + i]]
    <3>1. \A i \in 1..Len(new) :
            [table |-> t, row_idx |-> Len(tables[t]) + i] \in UndoRecord
      BY <1>2, <2>2 DEF UndoRecord
    <3>2. undo \in Seq(UndoRecord)
      BY <2>2, <3>1
    <3>3. undo_segments[tx] \o undo \in Seq(UndoRecord)
      <4> HIDE DEF undo
      <4> QED BY <3>2, <1>7, ConcatProperties
    <3>4. undo_segments' = [undo_segments EXCEPT ![tx] = @ \o undo]
      BY <2>1 DEF record_inserts
    <3> HIDE DEF undo
    <3> QED BY <3>3, <3>4, <1>7
  <2>4. redo_buffer' \in Seq(RedoRecords)
    <3> DEFINE recs == [i \in DOMAIN new |-> InsertRecord(tx, scn, t, new[i])]
    <3>1. \A i \in 1..Len(new) : InsertRecord(tx, scn, t, new[i]) \in RedoRecords
      BY <2>2, <1>7, RecordTypes
    <3>2. recs \in Seq(RedoRecords)
      BY <2>2, <3>1
    <3>3. redo_buffer' = redo_buffer \o recs
      BY <2>1 DEF record_inserts
    <3> HIDE DEF recs
    <3> QED BY <3>2, <3>3, ConcatProperties
  <2>5. UNCHANGED <<scn, statuses, commit_scns, next_tx_id, redo_log, eol>>
    BY <2>1 DEF record_inserts
  <2> QED BY <1>4, <1>5, <2>3, <2>4, <2>5
<1> QED BY <1>2, <1>6, <1>7

LEMMA TypedInit == Init => Typed
<1> SUFFICES ASSUME Init PROVE Typed
  OBVIOUS
<1>1. redo_log \in Seq(LogLines) /\ eol \in BOOLEAN /\ (~eol => redo_log # <<>>)
  BY DEF Init
<1>2. /\ scn \in Nat /\ next_tx_id \in Nat \ {0}
      /\ redo_buffer \in Seq(RedoRecords)
  BY DEF Init
<1>3. /\ statuses \in [TxIds -> TxStatus]
      /\ commit_scns \in [TxIds -> Nat]
      /\ undo_segments \in [TxIds -> Seq(UndoRecord)]
  BY DEF Init, NoStatuses, NoCommitScns, NoUndo, NoScn, TxStatus
<1>4. catalog \in [Tables -> Nat] /\ tables \in [Tables -> Seq(Row)]
  BY DEF Init, NoSchema
<1>5. /\ current_tx_id \in [Sessions -> TxIds \cup {NoTx}]
      /\ cr_scn \in [Sessions -> Nat]
  BY DEF Init
<1>6. up = FALSE /\ boots = 0 /\ boots \in 0..MaxBoots
  BY DatabaseAssumption DEF Init
<1> QED BY <1>1, <1>2, <1>3, <1>4, <1>5, <1>6 DEF Typed, TypeOK

LEMMA TypedStep == Typed /\ [Next]_vars => Typed'
<1> SUFFICES ASSUME Typed, [Next]_vars PROVE Typed'
  OBVIOUS
<1>1. CASE Boot
  BY <1>1, BootTyped
<1>2. CASE Crash
  <2>1. Lost /\ UNCHANGED logVars
    BY <1>2 DEF Crash
  <2>2. /\ redo_log' \in Seq(LogLines) /\ eol' \in BOOLEAN
        /\ ~eol' => redo_log' # <<>>
    BY <2>1 DEF logVars, Typed, TypeOK
  <2> QED BY <2>1, <2>2, LostTyped
<1>3. ASSUME NEW s \in Sessions, Begin(s) PROVE Typed'
  BY <1>3, BeginTyped
<1>4. ASSUME NEW s \in Sessions, Commit(s) PROVE Typed'
  BY <1>4, CommitTyped
<1>5. ASSUME NEW s \in Sessions, Rollback(s) PROVE Typed'
  BY <1>5, RollbackTyped
<1>6. ASSUME NEW s \in Sessions, Query(s) PROVE Typed'
  BY <1>6 DEF Query, Typed, TypeOK, logVars, txVars, dbVars, procVars
<1>7. ASSUME NEW s \in Sessions, Reconnect(s) PROVE Typed'
  BY <1>7 DEF Reconnect, Typed, TypeOK, logVars, txVars, dbVars, procVars, NoTx
<1>8. ASSUME NEW s \in Sessions, FlushCrash(s) PROVE Typed'
  <2>1. /\ redo_log' \in Seq(LogLines) /\ eol' \in BOOLEAN
        /\ ~eol' => redo_log' # <<>>
    BY <1>8, CrashWrites, WroteEffect
  <2> QED BY <2>1, <1>8, LostTyped DEF FlushCrash
<1>9. ASSUME NEW s \in Sessions, NEW t \in Tables, NEW rows \in Inserts,
             Insert(s, t, rows)
      PROVE  Typed'
  BY <1>9, InsertTyped
<1>10. ASSUME NEW t \in Tables, NEW w \in Widths, CreateTable(t, w) PROVE Typed'
  <2>1. w \in Nat
    BY DatabaseAssumption
  <2> QED BY <1>10, <2>1 DEF CreateTable, Typed, TypeOK, logVars, txVars, sessionVars,
             procVars
<1>11. CASE UNCHANGED vars
  BY <1>11 DEF vars, Typed, TypeOK, logVars, txVars, dbVars, sessionVars, procVars
<1> QED BY <1>1, <1>2, <1>3, <1>4, <1>5, <1>6, <1>7, <1>8, <1>9, <1>10, <1>11 DEF Next

\* Every variable stays in its type, whatever the interleaving and wherever
\* the process dies (the fields of TransactionManager, DatabaseState and
\* SessionState).
THEOREM TypeCorrect == Spec => []TypeOK
<1>1. Spec => []Typed
  BY TypedInit, TypedStep, PTL DEF Spec
<1>2. Typed => TypeOK
  BY DEF Typed
<1> QED BY <1>1, <1>2, PTL

-----------------------------------------------------------------------------
(***************************************************************************)
(* Ownership of transactions.  TxOwnedOnce is inductive with the types and *)
(* the fact that no session has a transaction while the server is down.    *)
(***************************************************************************)
Owned ==
    /\ Typed
    /\ TxOwnedOnce
    /\ ~up => \A s \in Sessions : current_tx_id[s] = NoTx

\* A step that opens no transaction, closes perhaps that of s, changes no
\* status but that one's and takes back no id keeps ownership.
LEMMA OwnedKept ==
    ASSUME Owned, Typed', NEW s \in Sessions,
           current_tx_id' \in {current_tx_id, [current_tx_id EXCEPT ![s] = NoTx]},
           \A x \in TxIds : statuses'[x] # statuses[x] =>
               x = current_tx_id[s] /\ current_tx_id'[s] = NoTx,
           next_tx_id' = next_tx_id, up' = up
    PROVE  Owned'
<1>1. /\ current_tx_id \in [Sessions -> TxIds \cup {NoTx}]
      /\ current_tx_id' \in [Sessions -> TxIds \cup {NoTx}]
  BY DEF Owned, Typed, TypeOK
<1>2. \A r \in Sessions : current_tx_id'[r] # NoTx => current_tx_id'[r] = current_tx_id[r]
  BY <1>1
<1>3. ASSUME NEW r \in Sessions, current_tx_id'[r] # NoTx
      PROVE  /\ current_tx_id'[r] < next_tx_id'
             /\ statuses'[current_tx_id'[r]] = "Active"
             /\ \A q \in Sessions \ {r} : current_tx_id'[q] # current_tx_id'[r]
  <2>1. current_tx_id'[r] = current_tx_id[r] /\ current_tx_id[r] \in TxIds
    BY <1>1, <1>2, <1>3
  <2>2. /\ current_tx_id[r] < next_tx_id
        /\ statuses[current_tx_id[r]] = "Active"
        /\ \A q \in Sessions \ {r} : current_tx_id[q] # current_tx_id[r]
    BY <1>3, <2>1, TxIdAssumption DEF Owned, TxOwnedOnce
  <2>3. statuses'[current_tx_id[r]] = statuses[current_tx_id[r]]
    BY <1>3, <2>1, <2>2
  <2> QED BY <1>2, <1>3, <2>1, <2>2, <2>3
<1>4. ~up' => \A r \in Sessions : current_tx_id'[r] = NoTx
  BY <1>1, <1>2 DEF Owned
<1> QED BY <1>3, <1>4 DEF Owned, TxOwnedOnce

\* A step after which no session has a transaction.
LEMMA OwnedByNone ==
    ASSUME Typed', current_tx_id' = [s \in Sessions |-> NoTx]
    PROVE  Owned'
BY DEF Owned, TxOwnedOnce

LEMMA OwnedBegin ==
    ASSUME Owned, Typed', NEW s \in Sessions, Begin(s)
    PROVE  Owned'
<1>1. /\ current_tx_id \in [Sessions -> TxIds \cup {NoTx}]
      /\ statuses \in [TxIds -> TxStatus] /\ next_tx_id \in Nat \ {0}
      /\ next_tx_id \in TxIds
  BY BeginTyped DEF Owned, Typed, TypeOK
<1>2. /\ current_tx_id' = [current_tx_id EXCEPT ![s] = next_tx_id]
      /\ next_tx_id' = next_tx_id + 1
      /\ statuses' = [statuses EXCEPT ![next_tx_id] = "Active"]
      /\ up /\ up' = up
  BY DEF Begin, begin, procVars
<1>3. \A r \in Sessions : current_tx_id[r] # NoTx =>
        /\ current_tx_id[r] \in TxIds /\ current_tx_id[r] \in Nat
        /\ current_tx_id[r] < next_tx_id
        /\ statuses[current_tx_id[r]] = "Active"
        /\ \A q \in Sessions \ {r} : current_tx_id[q] # current_tx_id[r]
  BY <1>1, LogAssumption DEF Owned, TxOwnedOnce
<1>4. ASSUME NEW r \in Sessions, current_tx_id'[r] # NoTx
      PROVE  /\ current_tx_id'[r] < next_tx_id'
             /\ statuses'[current_tx_id'[r]] = "Active"
             /\ \A q \in Sessions \ {r} : current_tx_id'[q] # current_tx_id'[r]
  <2>1. CASE r = s
    <3>1. current_tx_id'[r] = next_tx_id
      BY <2>1, <1>1, <1>2
    <3>2. \A q \in Sessions \ {r} : current_tx_id'[q] # next_tx_id
      BY <2>1, <1>1, <1>2, <1>3, TxIdAssumption
    <3> QED BY <3>1, <3>2, <1>1, <1>2
  <2>2. CASE r # s
    <3>1. current_tx_id'[r] = current_tx_id[r]
      BY <2>2, <1>1, <1>2
    <3>2. current_tx_id[r] # next_tx_id
      BY <1>4, <3>1, <1>1, <1>3
    <3> QED BY <1>4, <3>1, <3>2, <1>1, <1>2, <1>3
  <2> QED BY <2>1, <2>2
<1> QED BY <1>2, <1>4 DEF Owned, TxOwnedOnce

LEMMA OwnedStep == Owned /\ [Next]_vars => Owned'
<1> SUFFICES ASSUME Owned, [Next]_vars PROVE Owned'
  OBVIOUS
<1>0. Typed'
  BY TypedStep DEF Owned
<1>1. CASE Boot \/ Crash \/ \E s \in Sessions : FlushCrash(s)
  <2>1. current_tx_id' = [s \in Sessions |-> NoTx]
    BY <1>1 DEF Boot, Crash, FlushCrash, Lost, NoSessions
  <2> QED BY <1>0, <2>1, OwnedByNone
<1>2. ASSUME NEW s \in Sessions, Begin(s) PROVE Owned'
  BY <1>0, <1>2, OwnedBegin
<1>3. ASSUME NEW s \in Sessions, Commit(s) \/ Rollback(s) PROVE Owned'
  <2>1. /\ current_tx_id' = [current_tx_id EXCEPT ![s] = NoTx]
        /\ next_tx_id' = next_tx_id /\ up' = up
        /\ \E k \in TxStatus : statuses' = [statuses EXCEPT ![current_tx_id[s]] = k]
    BY <1>3 DEF Commit, commit, Rollback, rollback, procVars, TxStatus
  <2>2. /\ statuses \in [TxIds -> TxStatus]
        /\ current_tx_id \in [Sessions -> TxIds \cup {NoTx}]
    BY DEF Owned, Typed, TypeOK
  <2>3. /\ current_tx_id'[s] = NoTx
        /\ \A x \in TxIds : statuses'[x] # statuses[x] => x = current_tx_id[s]
    BY <2>1, <2>2
  <2> QED BY <1>0, <2>1, <2>3, OwnedKept
<1>4. ASSUME NEW s \in Sessions, Query(s) \/ Reconnect(s) PROVE Owned'
  <2>1. /\ current_tx_id' \in {current_tx_id, [current_tx_id EXCEPT ![s] = NoTx]}
        /\ statuses' = statuses /\ next_tx_id' = next_tx_id /\ up' = up
    BY <1>4 DEF Query, Reconnect, txVars, procVars
  <2> QED BY <1>0, <2>1, OwnedKept
<1>5. ASSUME NEW s \in Sessions, NEW t \in Tables, NEW rows \in Inserts,
             Insert(s, t, rows)
      PROVE  Owned'
  <2>1. /\ current_tx_id' = current_tx_id /\ statuses' = statuses
        /\ next_tx_id' = next_tx_id /\ up' = up
    BY <1>5 DEF Insert, record_inserts, txVars, sessionVars, procVars
  <2> QED BY <1>0, <2>1, OwnedKept
<1>6. CASE UNCHANGED vars \/ \E t \in Tables, w \in Widths : CreateTable(t, w)
  BY <1>0, <1>6 DEF Owned, TxOwnedOnce, vars, CreateTable, txVars, sessionVars, procVars
<1> QED BY <1>1, <1>2, <1>3, <1>4, <1>5, <1>6 DEF Next

\* No two sessions are ever in the same transaction, and that of a session is
\* Active: begin hands an id out once per run, statuses revived by recovery
\* belong to no session, and a lost connection takes none away (tx.rs:77).
THEOREM Ownership == Spec => []TxOwnedOnce
<1>1. Init => Owned
  BY TypedInit DEF Init, Owned, TxOwnedOnce
<1>2. Spec => []Owned
  BY <1>1, OwnedStep, PTL DEF Spec
<1>3. Owned => TxOwnedOnce
  BY DEF Owned
<1> QED BY <1>2, <1>3, PTL
-----------------------------------------------------------------------------
(***************************************************************************)
(* The file, over every run and crash.  A write cut inside a character is  *)
(* all that can make it unreadable, and a write cut between a record and   *)
(* its newline all that can lose a record from it.                         *)
(***************************************************************************)
NoSplit == "torn8" \notin CrashTails \cup DiskTails \/ MultiByte = {}
NoBareRecord == "noeol" \notin CrashTails \cup DiskTails

\* The statements that do not flush leave the file alone.
LEMMA LogStep ==
    ASSUME Typed, [Next]_vars
    PROVE  UNCHANGED logVars \/ \E buffer, outcomes : WroteRecords(buffer, outcomes)
<1>1. ASSUME NEW s \in Sessions, Commit(s) \/ Rollback(s)
      PROVE  \E buffer, outcomes : WroteRecords(buffer, outcomes)
  <2>1. current_tx_id[s] \in TxIds
    BY <1>1 DEF Commit, Rollback, Typed, TypeOK
  <2>2. /\ commit_buffer(current_tx_id[s]) \in Seq(RedoRecords)
        /\ rollback_buffer(current_tx_id[s]) \in Seq(RedoRecords)
    BY <2>1, BufferTypes
  <2>3. \/ lgwr_flush(commit_buffer(current_tx_id[s]))
        \/ lgwr_flush(rollback_buffer(current_tx_id[s]))
    BY <1>1 DEF Commit, commit, Rollback, rollback
  <2> QED BY <2>2, <2>3, FlushWrites
<1>2. ASSUME NEW s \in Sessions, FlushCrash(s)
      PROVE  \E buffer, outcomes : WroteRecords(buffer, outcomes)
  BY <1>2, CrashWrites
<1>3. CASE UNCHANGED vars
  BY <1>3 DEF vars
<1>4. CASE Boot
  BY <1>4 DEF Boot
<1>5. CASE Crash
  BY <1>5 DEF Crash
<1>6. ASSUME NEW s \in Sessions, Begin(s) \/ Query(s) \/ Reconnect(s)
      PROVE  UNCHANGED logVars
  BY <1>6 DEF Begin, begin, Query, Reconnect, logVars
<1>7. ASSUME NEW s \in Sessions, NEW t \in Tables, NEW rows \in Inserts,
             Insert(s, t, rows)
      PROVE  UNCHANGED logVars
  BY <1>7 DEF Insert, record_inserts, logVars
<1>8. ASSUME NEW t \in Tables, NEW w \in Widths, CreateTable(t, w)
      PROVE  UNCHANGED logVars
  BY <1>8 DEF CreateTable
<1> QED BY <1>1, <1>2, <1>3, <1>4, <1>5, <1>6, <1>7, <1>8 DEF Next

Legible ==
    /\ Typed
    /\ Readable(redo_log)

\* The server can be started again after every crash, and whichever records of
\* whichever flushes the disk failed to write, in the middle of them too, if no
\* write stopped inside a character: `line?` (recovery.rs:27) ends the boot on
\* invalid UTF-8 only, and every other damage is skipped.
THEOREM StartsAgain == ASSUME NoSplit PROVE Spec => []AlwaysBootable
<1>1. Init => Legible
  <2>1. Init => redo_log = <<>>
    BY DEF Init
  <2> QED BY <2>1, TypedInit DEF Legible, Readable
<1>2. Legible /\ [Next]_vars => Legible'
  <2> SUFFICES ASSUME Legible, [Next]_vars PROVE Legible'
    OBVIOUS
  <2>1. Typed'
    BY TypedStep DEF Legible
  <2>2. redo_log \in Seq(LogLines) /\ eol \in BOOLEAN /\ (~eol => redo_log # <<>>)
    BY DEF Legible, Typed, TypeOK
  <2>3. ASSUME NEW buffer, NEW outcomes, WroteRecords(buffer, outcomes)
        PROVE  Readable(redo_log')
    <3>1. /\ buffer \in Seq(RedoRecords) /\ outcomes \in Seq(Outcomes)
          /\ Len(outcomes) <= Len(buffer) /\ WriteRecords(buffer, outcomes)
      BY <2>3, OutcomeTypes DEF WroteRecords
    <3>2. ASSUME NEW k \in 1..Len(outcomes) PROVE outcomes[k] # "torn8"
      <4>1. outcomes[k] \in {"whole"} \cup CrashTails \cup DiskTails
        BY <2>3 DEF WroteRecords
      <4>2. CanPut(buffer[k], outcomes[k])
        BY <3>1 DEF WriteRecords
      <4> QED BY <4>1, <4>2 DEF NoSplit, CanPut
    <3> QED BY <2>2, <3>1, <3>2, WriteReadable DEF Legible
  <2>4. UNCHANGED logVars => Readable(redo_log')
    BY DEF Legible, logVars
  <2>5. Readable(redo_log')
    BY <2>3, <2>4, LogStep DEF Legible
  <2> QED BY <2>1, <2>5 DEF Legible
<1>3. Legible => AlwaysBootable
  BY DEF Legible, AlwaysBootable
<1> QED BY <1>1, <1>2, <1>3, PTL DEF Spec

\* An unterminated line is one that cannot be read.
Sealed ==
    /\ Typed
    /\ ~eol => Last(redo_log) \in Unreadable

\* A write after which no record of the file is missing or at another place.
LEMMA WroteSealed ==
    ASSUME NoBareRecord, Sealed, NEW buffer, NEW outcomes, WroteRecords(buffer, outcomes)
    PROVE  /\ LinesStay(redo_log, redo_log')
           /\ ~eol' => Last(redo_log') \in Unreadable
<1>1. redo_log \in Seq(LogLines) /\ eol \in BOOLEAN
      /\ (~eol => redo_log # <<>> /\ Last(redo_log) \in Unreadable)
  BY DEF Sealed, Typed, TypeOK
<1>2. /\ buffer \in Seq(RedoRecords) /\ outcomes \in Seq(Outcomes)
      /\ Len(outcomes) <= Len(buffer) /\ WriteRecords(buffer, outcomes)
  BY OutcomeTypes DEF WroteRecords
<1>3. ASSUME NEW k \in 1..Len(outcomes) PROVE outcomes[k] # "noeol"
  <2>1. outcomes[k] \in {"whole"} \cup CrashTails \cup DiskTails
    BY DEF WroteRecords
  <2> QED BY <2>1 DEF NoBareRecord
<1> QED BY <1>1, <1>2, <1>3, WriteKeeps

LEMMA SealedStep ==
    ASSUME NoBareRecord, Sealed, [Next]_vars
    PROVE  Sealed' /\ LinesStay(redo_log, redo_log')
<1>1. Typed'
  BY TypedStep DEF Sealed
<1>2. CASE UNCHANGED logVars
  BY <1>1, <1>2 DEF Sealed, logVars, LinesStay, Parsed
<1>3. CASE \E buffer, outcomes : WroteRecords(buffer, outcomes)
  BY <1>1, <1>3, WroteSealed DEF Sealed
<1> QED BY <1>2, <1>3, LogStep DEF Sealed

\* Every record of the file that can be read is there, at its place, after
\* every step.
RecordsStay == [][LinesStay(redo_log, redo_log')]_vars

\* No record that the file holds is ever damaged or moved by a later write,
\* and so no commit record is lost, if no write is cut between a record and
\* its newline: the log is append-only (tx.rs:137-140) but for the line it
\* ends in.
THEOREM RecordsKept == ASSUME NoBareRecord PROVE Spec => RecordsStay /\ CommitRecordsStay
<1>1. Init => Sealed
  BY TypedInit DEF Init, Sealed
<1>2. Sealed /\ [Next]_vars => Sealed'
  BY SealedStep
<1>3. Sealed /\ [Next]_vars => LinesStay(redo_log, redo_log')
  BY SealedStep
<1>4. Sealed /\ [Next]_vars => committed(redo_log) \subseteq committed(redo_log')
  <2> SUFFICES ASSUME Sealed, [Next]_vars, NEW x \in committed(redo_log)
               PROVE  x \in committed(redo_log')
    OBVIOUS
  <2>1. PICK i \in OfKind(redo_log, {"commit"}) : redo_log[i].tx_id = x
    BY DEF committed
  <2>2. i \in Parsed(redo_log) /\ redo_log[i].type \in {"commit"}
    <3>1. redo_log \in Seq(LogLines)
      BY DEF Sealed, Typed, TypeOK
    <3> QED BY <3>1, OfKindParsed DEF OfKind
  <2>3. i \in OfKind(redo_log', {"commit"}) /\ redo_log'[i].tx_id = x
    BY <1>3, <2>1, <2>2 DEF OfKind, LinesStay
  <2> QED BY <2>3 DEF committed
<1> QED BY <1>1, <1>2, <1>3, <1>4, PTL DEF Spec, RecordsStay, CommitRecordsStay
=============================================================================

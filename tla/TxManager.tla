----------------------------- MODULE TxManager -----------------------------
(***************************************************************************)
(* TransactionManager (src/src/tx.rs): the logical clock, the status and   *)
(* commit SCN of every transaction, the undo segments, the redo buffer and *)
(* the log writer.  It has no thread of its own: each operator below is    *)
(* one method, used by the statements of Database as part of their action. *)
(***************************************************************************)
EXTENDS RedoLog

VARIABLES
    scn,            \* SCN
    statuses,       \* HashMap<u64, TxStatus>; "None" is an absent key
    commit_scns,    \* HashMap<u64, u64>; NoScn is an absent key
    undo_segments,  \* HashMap<u64, Vec<UndoRecord>>; absent and empty read alike
    redo_buffer,    \* Vec<RedoRecord>
    next_tx_id      \* AtomicU64

txVars == <<scn, statuses, commit_scns, undo_segments, redo_buffer, next_tx_id>>

NoTx == 0           \* Option<u64>::None, of a session or of a row
NoScn == 0          \* a commit SCN is at least 1

ASSUME TxIdAssumption == NoTx \notin TxIds

TxStatus == {"None", "Active", "Committed", "RolledBack"}
\* A row_idx counts from 1 here, from 0 in the code.
UndoRecord == [table : Tables, row_idx : Nat \ {0}]

NoStatuses == [x \in TxIds |-> "None"]
NoCommitScns == [x \in TxIds |-> NoScn]
NoUndo == [x \in TxIds |-> <<>>]

\* TransactionManager::new, but for what recovery then restores.
NewManager(firstScn, stats, cscns) ==
    /\ scn' = firstScn
    /\ statuses' = stats
    /\ commit_scns' = cscns
    /\ undo_segments' = NoUndo
    /\ redo_buffer' = <<>>
    /\ next_tx_id' = 1

\* Variant: the id is read but not advanced.
begin_same_id ==
    /\ statuses' = [statuses EXCEPT ![next_tx_id] = "Active"]
    /\ undo_segments' = [undo_segments EXCEPT ![next_tx_id] = <<>>]
    /\ redo_buffer' = Append(redo_buffer, StatusRecord("begin", next_tx_id, scn))
    /\ UNCHANGED <<scn, commit_scns, next_tx_id, redo_log, eol>>

begin ==
    /\ next_tx_id' = next_tx_id + 1
    /\ statuses' = [statuses EXCEPT ![next_tx_id] = "Active"]
    /\ undo_segments' = [undo_segments EXCEPT ![next_tx_id] = <<>>]
    /\ redo_buffer' = Append(redo_buffer, StatusRecord("begin", next_tx_id, scn))
    /\ UNCHANGED <<scn, commit_scns, redo_log, eol>>

\* Variant: row_idx names the row before the new one.
record_inserts_off_by_one(tx, t, rows, len) ==
    /\ undo_segments' = [undo_segments EXCEPT ![tx] = @ \o
            [i \in DOMAIN rows |-> [table |-> t, row_idx |-> len + i - 1]]]
    /\ redo_buffer' = redo_buffer \o
            [i \in DOMAIN rows |-> InsertRecord(tx, scn, t, rows[i])]
    /\ UNCHANGED <<scn, statuses, commit_scns, next_tx_id, redo_log, eol>>

\* record_insert once per row: the rows of one statement, put after row len.
record_inserts(tx, t, rows, len) ==
    /\ undo_segments' = [undo_segments EXCEPT ![tx] = @ \o
            [i \in DOMAIN rows |-> [table |-> t, row_idx |-> len + i]]]
    /\ redo_buffer' = redo_buffer \o
            [i \in DOMAIN rows |-> InsertRecord(tx, scn, t, rows[i])]
    /\ UNCHANGED <<scn, statuses, commit_scns, next_tx_id, redo_log, eol>>

\* Variant: the buffer is left to a later flush.
lgwr_flush_deferred(buffer) == redo_buffer' = buffer /\ UNCHANGED logVars

\* The log writer goes through all records and then clears the buffer,
\* whether or not its writes succeeded.
lgwr_flush(buffer) ==
    /\ redo_buffer' = <<>>
    /\ \E outcomes \in [1..Len(buffer) -> {"whole"} \cup DiskTails] :
          WriteRecords(buffer, outcomes)

\* Variant: the commit record is written ahead of the rows it commits.
commit_buffer_record_first(tx) == <<StatusRecord("commit", tx, scn + 1)>> \o redo_buffer

\* The records that commit and rollback hand to the flush.
commit_buffer(tx) == Append(redo_buffer, StatusRecord("commit", tx, scn + 1))
rollback_buffer(tx) == Append(redo_buffer, StatusRecord("rollback", tx, scn))

\* Variant: the commit SCN is computed without advancing the clock.
commit_stale_clock(tx) ==
    /\ statuses' = [statuses EXCEPT ![tx] = "Committed"]
    /\ commit_scns' = [commit_scns EXCEPT ![tx] = scn + 1]
    /\ lgwr_flush(commit_buffer(tx))
    /\ UNCHANGED <<scn, undo_segments, next_tx_id>>

commit(tx) ==
    /\ scn' = scn + 1
    /\ statuses' = [statuses EXCEPT ![tx] = "Committed"]
    /\ commit_scns' = [commit_scns EXCEPT ![tx] = scn + 1]
    /\ lgwr_flush(commit_buffer(tx))
    /\ UNCHANGED <<undo_segments, next_tx_id>>

\* The caller has taken the undo segment out of the map (handler.rs:72).
rollback(tx) ==
    /\ statuses' = [statuses EXCEPT ![tx] = "RolledBack"]
    /\ undo_segments' = [undo_segments EXCEPT ![tx] = <<>>]
    /\ lgwr_flush(rollback_buffer(tx))
    /\ UNCHANGED <<scn, commit_scns, next_tx_id>>

\* Variant: only rolled-back transactions are hidden.
is_visible_dirty(row_tx, session_tx, cr) ==
    row_tx = NoTx \/ row_tx = session_tx \/ statuses[row_tx] # "RolledBack"

is_visible(row_tx, session_tx, cr) ==
    \/ row_tx = NoTx
    \/ row_tx = session_tx
    \/ /\ statuses[row_tx] = "Committed"
       /\ commit_scns[row_tx] # NoScn
       /\ commit_scns[row_tx] <= cr
=============================================================================

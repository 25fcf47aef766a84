------------------------------ MODULE Database ------------------------------
(***************************************************************************)
(* The running server: DatabaseState and its statements (src/src/          *)
(* handler.rs), the sessions (session.rs, server.rs) and the boot          *)
(* (server.rs, recovery.rs).                                               *)
(*                                                                         *)
(* Every connection has a thread and a SessionState; a statement runs to   *)
(* its end under the global Mutex<DatabaseState> (server.rs:50-54), so one *)
(* statement is one action and statements of different sessions            *)
(* interleave.  The process may die between two statements or inside the   *)
(* flush of a COMMIT or ROLLBACK; memory is then lost and the next boot    *)
(* rebuilds it from the log.                                               *)
(***************************************************************************)
EXTENDS Recovery

CONSTANTS
    Sessions,    \* the connections' slots: one live connection each
    Width,       \* [Values -> Nat], the columns of a row; a row whose
                 \* expression fails to evaluate fits no table: width 0
    DemoRows,    \* [Tables -> Seq(Values)], the rows of setup_demo_data
    Widths,      \* the column counts CREATE TABLE is tried with
    Inserts,     \* the row lists of the INSERT statements
    Writers,     \* [Tables -> SUBSET Sessions], who inserts into a table
    MaxBoots,    \* bound: starts of the server
    BeginBudget, \* bound: [1..MaxBoots -> Nat], transactions begun per start
    MaxRows      \* bound: rows of a table that an INSERT may reach

NoSchema == 0

ASSUME DatabaseAssumption ==
    /\ Width \in [Values -> Nat]
    /\ DemoRows \in [Tables -> Seq(Values)]
    /\ Widths \subseteq Nat \ {NoSchema}
    /\ Inserts \subseteq Seq(Values)
    /\ Writers \in [Tables -> SUBSET Sessions]
    /\ MaxBoots \in Nat /\ MaxRows \in Nat
    /\ BeginBudget \in [1..MaxBoots -> Nat]
    /\ \A b \in 1..MaxBoots : 1..BeginBudget[b] \subseteq TxIds

VARIABLES
    catalog,        \* [Tables -> Nat]: the schema's columns, or NoSchema
    tables,         \* [Tables -> Seq(Row)]
    current_tx_id,  \* [Sessions -> TxIds or NoTx], of SessionState
    cr_scn,         \* [Sessions -> Nat], of SessionState
    up,             \* is the server running?
    boots           \* how often it has started

dbVars == <<catalog, tables>>
sessionVars == <<current_tx_id, cr_scn>>
procVars == <<up, boots>>
vars == <<logVars, txVars, dbVars, sessionVars, procVars>>

\* Tuple.  Its scn is written and never read: visibility asks the status.
Row == [val : Values, tx_id : TxIds \cup {NoTx}]
NewRows(rows, tx) == [i \in DOMAIN rows |-> [val |-> rows[i], tx_id |-> tx]]

NoSessions ==
    /\ current_tx_id' = [s \in Sessions |-> NoTx]
    /\ cr_scn' = [s \in Sessions |-> 0]

\* What the death of the process does to all but the log.
Lost ==
    /\ NewManager(0, NoStatuses, NoCommitScns)
    /\ catalog' = [t \in Tables |-> NoSchema]
    /\ tables' = [t \in Tables |-> <<>>]
    /\ NoSessions
    /\ up' = FALSE
    /\ UNCHANGED boots

Init ==
    /\ redo_log = <<>> /\ eol = TRUE
    /\ scn = 0 /\ next_tx_id = 1 /\ redo_buffer = <<>>
    /\ statuses = NoStatuses
    /\ commit_scns = NoCommitScns
    /\ undo_segments = NoUndo
    /\ catalog = [t \in Tables |-> NoSchema]
    /\ tables = [t \in Tables |-> <<>>]
    /\ current_tx_id = [s \in Sessions |-> NoTx]
    /\ cr_scn = [s \in Sessions |-> 0]
    /\ up = FALSE /\ boots = 0

(***************************************************************************)
(* run(): recovery, then setup_demo_data through a session that has no     *)
(* transaction.  Its CREATE TABLEs find the catalog empty, its INSERTs are *)
(* not logged.  An unreadable log ends the process: no Boot.               *)
(***************************************************************************)
DemoSchema(t) == IF DemoRows[t] = <<>> THEN NoSchema ELSE Width[DemoRows[t][1]]
BootRows(log, t) == RecoveredRows(log, t) \o NewRows(DemoRows[t], NoTx)

Boot ==
    /\ ~up /\ boots < MaxBoots
    /\ Readable(redo_log)
    /\ NewManager(RecoveredScn(redo_log), RecoveredStatuses(redo_log),
                  RecoveredCommitScns(redo_log))
    /\ catalog' = [t \in Tables |-> DemoSchema(t)]
    /\ tables' = [t \in Tables |-> BootRows(redo_log, t)]
    /\ NoSessions
    /\ up' = TRUE
    /\ boots' = boots + 1
    /\ UNCHANGED logVars

(***************************************************************************)
(* The statements of session s.  One that fails without an effect (BEGIN   *)
(* in a transaction, COMMIT outside one, an unknown table) is a stutter.   *)
(***************************************************************************)
Begin(s) ==
    /\ up /\ current_tx_id[s] = NoTx
    /\ next_tx_id <= BeginBudget[boots]
    /\ begin
    /\ current_tx_id' = [current_tx_id EXCEPT ![s] = next_tx_id]
    /\ UNCHANGED <<cr_scn, dbVars, procVars>>

Commit(s) ==
    /\ up /\ current_tx_id[s] # NoTx
    /\ commit(current_tx_id[s])
    /\ current_tx_id' = [current_tx_id EXCEPT ![s] = NoTx]
    /\ UNCHANGED <<cr_scn, dbVars, procVars>>

\* The undo loop: the records in reverse, each removing the row now found
\* at its row_idx, if the table still has one there.
RemoveRow(tbls, rec) ==
    [tbls EXCEPT ![rec.table] =
        IF rec.row_idx <= Len(@) THEN RemoveAt(@, rec.row_idx) ELSE @]

\* Variant: the undo records are applied in the order they were made.
UndoneForward(tbls, undo) ==
    LET after[k \in 0..Len(undo)] ==
            IF k = 0 THEN tbls ELSE RemoveRow(after[k - 1], undo[k])
    IN  after[Len(undo)]

Undone(tbls, undo) ==
    LET after[k \in 0..Len(undo)] ==
            IF k = 0 THEN tbls
            ELSE RemoveRow(after[k - 1], undo[Len(undo) + 1 - k])
    IN  after[Len(undo)]

Rollback(s) ==
    /\ up /\ current_tx_id[s] # NoTx
    /\ tables' = Undone(tables, undo_segments[current_tx_id[s]])
    /\ rollback(current_tx_id[s])
    /\ current_tx_id' = [current_tx_id EXCEPT ![s] = NoTx]
    /\ UNCHANGED <<cr_scn, catalog, procVars>>

CreateTable(t, w) ==
    /\ up /\ catalog[t] = NoSchema
    /\ catalog' = [catalog EXCEPT ![t] = w]
    /\ UNCHANGED <<logVars, txVars, tables, sessionVars, procVars>>

\* Variant: the column count is not compared.
AcceptedUnchecked(rows, w, n) == n = Len(rows)

\* INSERT stops at the first row that does not fit; the n before it stay.
Accepted(rows, w, n) ==
    /\ \A i \in 1..n : Width[rows[i]] = w
    /\ n < Len(rows) => Width[rows[n + 1]] # w

Insert(s, t, rows) ==
    /\ up /\ catalog[t] # NoSchema
    /\ s \in Writers[t]
    /\ Len(tables[t]) + Len(rows) <= MaxRows
    /\ \E n \in 1..Len(rows) :
          /\ Accepted(rows, catalog[t], n)
          /\ tables' = [tables EXCEPT ![t] =
                @ \o NewRows(SubSeq(rows, 1, n), current_tx_id[s])]
          /\ IF current_tx_id[s] = NoTx
             THEN UNCHANGED <<logVars, txVars>>
             ELSE record_inserts(current_tx_id[s], t, SubSeq(rows, 1, n),
                                 Len(tables[t]))
    /\ UNCHANGED <<catalog, sessionVars, procVars>>

\* SELECT: the rows it returns are VisibleRows, at the clock it captures.
Query(s) ==
    /\ up
    /\ cr_scn' = [cr_scn EXCEPT ![s] = scn]
    /\ UNCHANGED <<logVars, txVars, dbVars, current_tx_id, procVars>>

VisibleRows(s, t) ==
    Picked(tables[t], {i \in DOMAIN tables[t] :
                          is_visible(tables[t][i].tx_id, current_tx_id[s], scn)})

\* The thread of a connection ends and the next client gets a new session;
\* nothing ends the transaction the old one may have had open.
Reconnect(s) ==
    /\ up
    /\ current_tx_id' = [current_tx_id EXCEPT ![s] = NoTx]
    /\ cr_scn' = [cr_scn EXCEPT ![s] = 0]
    /\ UNCHANGED <<logVars, txVars, dbVars, procVars>>

\* /crash, or the process killed between two statements.
Crash ==
    /\ up /\ boots < MaxBoots
    /\ Lost
    /\ UNCHANGED logVars

\* The process dies inside the flush of s's COMMIT or ROLLBACK, in the write
\* of record n + 1.
FlushCrash(s) ==
    /\ up /\ boots < MaxBoots /\ current_tx_id[s] # NoTx
    /\ \E buffer \in {commit_buffer(current_tx_id[s]), rollback_buffer(current_tx_id[s])} :
       \E n \in 0..Len(buffer) - 1, tail \in CrashTails :
       \E outcomes \in [1..n -> {"whole"} \cup DiskTails] :
          WriteRecords(buffer, Append(outcomes, tail))
    /\ Lost

Next ==
    \/ Boot
    \/ Crash
    \/ \E s \in Sessions :
          \/ Begin(s)
          \/ Commit(s)
          \/ Rollback(s)
          \/ Query(s)
          \/ Reconnect(s)
          \/ FlushCrash(s)
          \/ \E t \in Tables, rows \in Inserts : Insert(s, t, rows)
    \/ \E t \in Tables, w \in Widths : CreateTable(t, w)

Spec == Init /\ [][Next]_vars
-----------------------------------------------------------------------------
(***************************************************************************)
(* Properties.                                                             *)
(***************************************************************************)

\* The variables stay in their types: what the fields of TransactionManager,
\* DatabaseState and SessionState may hold.
TypeOK ==
    /\ redo_log \in Seq(LogLines) /\ eol \in BOOLEAN
    /\ scn \in Nat /\ next_tx_id \in Nat \ {0}
    /\ statuses \in [TxIds -> TxStatus]
    /\ commit_scns \in [TxIds -> Nat]
    /\ undo_segments \in [TxIds -> Seq(UndoRecord)]
    /\ redo_buffer \in Seq(RedoRecords)
    /\ catalog \in [Tables -> Nat]
    /\ tables \in [Tables -> Seq(Row)]
    /\ current_tx_id \in [Sessions -> TxIds \cup {NoTx}]
    /\ cr_scn \in [Sessions -> Nat]
    /\ up \in BOOLEAN /\ boots \in 0..MaxBoots

\* "SCN: global monotonic logical clock" (README.md:36, tx.rs:10), over the
\* whole history, restarts included: along the log and the buffer behind it
\* the SCNs never decrease, and a COMMIT has a greater one than every record
\* before it.
ScnOrdered(log) ==
    \A j \in Parsed(log) : \A i \in Parsed(log) :
        i < j => /\ log[i].scn <= log[j].scn
                 /\ log[j].type = "commit" => log[i].scn < log[j].scn

LogScnOrdered == ScnOrdered(redo_log \o redo_buffer)

\* A running server's clock is not behind any record, so a new COMMIT gets an
\* SCN that no record of this or of an earlier run has (recovery.rs:75).
ClockAhead ==
    up => \A i \in Parsed(redo_log \o redo_buffer) :
              (redo_log \o redo_buffer)[i].scn <= scn

\* Sessions never share a transaction, and the one a session is in is Active
\* and was handed out by this run's begin (tx.rs:77, server.rs:44): whatever
\* recovery put into statuses and however connections come and go.
TxOwnedOnce ==
    \A s \in Sessions : current_tx_id[s] # NoTx =>
        /\ current_tx_id[s] < next_tx_id
        /\ statuses[current_tx_id[s]] = "Active"
        /\ \A r \in Sessions \ {s} : current_tx_id[r] # current_tx_id[s]

\* Every committed transaction has a commit SCN of its own, which every later
\* SELECT has reached: a commit is seen at once, by all (README.md:40,224).
CommitsVisible ==
    \A x \in TxIds : statuses[x] = "Committed" =>
        /\ commit_scns[x] \in 1..scn
        /\ \A y \in TxIds \ {x} :
              statuses[y] = "Committed" => commit_scns[y] # commit_scns[x]

\* Write-ahead logging (README.md:39): once a transaction is Committed in
\* memory, the file holds its commit record, and an insert record for every
\* row it has in a table.
RowsOf(x, t, v) == {i \in DOMAIN tables[t] : tables[t][i] = [val |-> v, tx_id |-> x]}
InsertsOf(log, x, t, v) ==
    {i \in OfTx(log, x, {"insert"}) : log[i].table = t /\ log[i].val = v}

WriteAhead ==
    \A x \in TxIds : statuses[x] = "Committed" =>
        /\ \E i \in OfTx(redo_log, x, {"commit"}) : redo_log[i].scn = commit_scns[x]
        /\ \A t \in Tables, v \in Values :
              Cardinality(RowsOf(x, t, v)) <= Cardinality(InsertsOf(redo_log, x, t, v))

\* The undo segment of an open transaction names exactly the places where its
\* rows are now, each once, although other statements ran since they were
\* recorded.  (handler.rs:71-80 relies on it.)
UndoExact ==
    \A s \in Sessions : current_tx_id[s] # NoTx =>
        LET undo == undo_segments[current_tx_id[s]]
        IN  /\ \A i, j \in DOMAIN undo : undo[i] = undo[j] => i = j
            /\ \A k \in DOMAIN undo : undo[k].row_idx <= Len(tables[undo[k].table])
            /\ \A t \in Tables : \A i \in DOMAIN tables[t] :
                  tables[t][i].tx_id = current_tx_id[s]
                    <=> [table |-> t, row_idx |-> i] \in Range(undo)

\* "Rollback removes the inserted row" (README.md:202), and no other: when a
\* transaction becomes RolledBack, every table loses its rows and only those.
RollbackExact ==
    [][\A x \in TxIds :
          statuses[x] = "Active" /\ statuses'[x] = "RolledBack" =>
              \A t \in Tables :
                  tables'[t] = Picked(tables[t],
                      {i \in DOMAIN tables[t] : tables[t][i].tx_id # x})]_vars

\* What a session outside any transaction sees of a table never goes away
\* while the server runs: no statement of anyone hides or removes a committed
\* row (tx.rs:152, README.md:41).
PublishedCopies(t, row) ==
    Cardinality({i \in DOMAIN tables[t] :
                    tables[t][i] = row /\ is_visible(row.tx_id, NoTx, scn)})
PublishedRowsStay ==
    [][up /\ up' => \A t \in Tables, row \in Row :
          PublishedCopies(t, row) <= PublishedCopies(t, row)']_vars

\* Every row of a table has as many columns as the table's schema: executor.rs
\* indexes a row's values with column positions found in the schema.
RowsFitSchema ==
    \A t \in Tables : catalog[t] # NoSchema =>
        \A i \in DOMAIN tables[t] : Width[tables[t][i].val] = catalog[t]

(***************************************************************************)
(* Recovery against the order of the log.  An insert record belongs to a   *)
(* committed transaction iff a commit record of its id follows before the  *)
(* id is begun again: the reference, which tells the transactions that     *)
(* share an id apart, where recover() only has the sets of ids.            *)
(***************************************************************************)
BelongsToCommitted(log, i) ==
    \E j \in OfTx(log, log[i].tx_id, {"commit"}) :
        /\ i < j
        /\ \A k \in OfTx(log, log[i].tx_id, {"begin", "rollback"}) : ~(i < k /\ k < j)

\* "Roll-Back: removes rows from transactions that never committed"
\* (README.md:44, recovery.rs:11): were the server to die now, the next boot
\* would bring back no row of an uncommitted transaction.
RecoveryDropsUncommitted ==
    \A t \in Tables : \A i \in Replayed(redo_log, t) : BelongsToCommitted(redo_log, i)

\* "Grace is recovered (committed)" (README.md:256): it would bring back every
\* row of a committed one.
RecoveryKeepsCommitted ==
    \A i \in OfKind(redo_log, {"insert"}) :
        BelongsToCommitted(redo_log, i) => i \in Replayed(redo_log, redo_log[i].table)

\* A commit record that recovery could read once can be read ever after: no
\* later write to the file damages it (tx.rs:137-140, append-only).
CommitRecordsStay == [][committed(redo_log) \subseteq committed(redo_log')]_vars

\* A server that is down can start (recovery.rs:33-35 means to skip a line
\* that it cannot use).
AlwaysBootable == ~up => Readable(redo_log)
=============================================================================

# volcano_db in TLA+

Specifications, model-checking runs and proofs for volcano_db, the in-memory
SQL engine in `src/` (Rust). They concentrate on what is hard to test there:
sessions whose statements interleave, transactions that roll back by row
position, a redo log that a crash can cut anywhere, a recovery that has
only that log to go by, and operators that pull rows from each other, fail in
the middle of a stream and are started over, and threads that share one mutex,
panic, and speak to clients that may die or stop reading in the middle of a
frame.

Line numbers below refer to the files under `src/src/` unless a path is given.

## 1. Inventory

| component | state | operations | interacts with |
|---|---|---|---|
| redo log file `./redo.log` (`tx.rs`, `recovery.rs`) | lines of JSON; is the last one terminated? | appended to by the flush, read by recovery | transaction manager writes, recovery reads; survives the process |
| transaction manager (`tx.rs`) | clock `scn`, `statuses`, `commit_scns`, `undo_segments`, `redo_buffer`, `next_tx_id` | `begin`, `record_insert`, `commit`, `rollback`, `lgwr_flush`, `is_visible` | called by the handler under the lock; by the executor for visibility |
| instance recovery (`recovery.rs`) | none of its own | `recover`: read all lines, replay, remove the losers, restore the clock | called once by the server before it listens; fills tables and transaction manager |
| statement handler (`handler.rs`) | `DatabaseState`: catalog, tables, transaction manager | BEGIN, COMMIT, ROLLBACK, CREATE TABLE, INSERT, SELECT, `/crash`, `/status`, demo data | called by the connection threads, one statement at a time |
| sessions (`session.rs`) | `current_tx_id`, `cr_scn` of each connection | set by the handler; dropped with the connection | nothing ends the transaction of a dropped session |
| server (`server.rs`, `main.rs`) | `Arc<Mutex<DatabaseState>>` and its poison; a thread per connection, each with what it has read and still has to write | boot, accept, read frame, lock, execute, unlock, write frame | owns all others |
| catalog (`catalog.rs`) | schema of each table | `add_table`, `get_schema`, `find_col_idx` | handler, planner, executor; not persisted |
| storage (`storage.rs`) | rows: values, `tx_id`, `scn` | comparison of values | everywhere |
| planner (`planner.rs`) | none | SQL syntax tree to logical plan; evaluation of expressions | handler, executor |
| executor (`executor.rs`) | cursor, buffers and groups of each operator of a plan | `init`, `next`, `close` | reads the tables through `is_visible` |
| wire protocol (`protocol.rs`) | none; what is under way is in the streams | `write_frame`, `read_frame`: 32 bits of length, then the payload | server and client |
| client (`client.rs`) | the lines typed since the last statement | collect lines up to a `;` or a command, send, wait for the reply, print it; any failure ends it | server |

### What is hard, and what makes each component correct

- **Interleaving.** The lock is held for one statement, not for a transaction
  (`server.rs:50`), so statements of several open transactions alternate. A
  ROLLBACK must undo its own rows although others moved rows in between;
  committed rows must never go away; a transaction belongs to one session.
- **Flush.** There is one redo buffer for all transactions: a COMMIT writes the
  records of the uncommitted ones too (`tx.rs:132`). A COMMIT that was
  acknowledged must be in the file.
- **Crash and restart.** The process can die between two statements (`/crash`)
  or in the middle of the flush, after any record or inside one. Recovery must
  bring back the committed rows and no others, from what was written; the clock
  must resume above everything in the log.
- **Ids.** `next_tx_id` starts at 1 in every run of the server (`tx.rs:70`)
  while statuses and log records of earlier runs are kept.
- **Partial failure.** An INSERT of several rows stops at the first bad one and
  keeps those before it (`handler.rs:115-131`). The error of each write to the
  log is dropped and the flush goes on with the next record (`tx.rs:137-140`), so any
  record may be missing or damaged while those behind it, the COMMIT record among
  them, are in the file.
- **Clients.** A connection may end inside a transaction (`server.rs:46-48`).
- **Queries.** Eight operators keep cursors and buffers between calls of `next`
  (`executor.rs`). What they return together must be what the clauses of the
  SELECT mean: whatever the order in which they compose, at the boundaries of
  OFFSET and LIMIT, with errors on single rows, with NULLs and mixed numbers, and
  after `init` is called again. Aggregates and sort keys are found by name in
  columns that the planner generates.
- **The lock.** All connections compete for one mutex. A panic inside a
  statement leaves the database half changed and poisons the mutex; every later
  statement must neither run on it nor wait for ever (`server.rs:52`). A client that
  does not read its reply must block nobody but its own thread (`server.rs:55`).
- **Frames.** They arrive in pieces, either end may die inside one, and a length
  that does not fit into 32 bits is cut (`protocol.rs:7`). A statement must be
  performed whole, once, and answered to the client that asked.

`PROJECT.json` lists each hazard at its line with the properties aimed at it.

## 2. Modules

```
RedoLog        the file: lines, what each write comes to, what can be read back
  TxManager    the transaction manager: one operator per method of tx.rs
    Recovery   recover(): both passes over the log, as operators
      Database the database: sessions, statements, boot, crash  <- transactions
        DatabaseRefinement   Database implements ReadCommitted
          MCDatabase         instances for TLC
ReadCommitted  the abstract specification: durable, temporary, pending rows

Protocol       frames: lengths, payloads, reading piece by piece
  Server       connections: clients, threads, streams, the mutex  <- concurrency
    ServerRefinement  Server implements StatementService
      MCServer        an instance for TLC
StatementService      the abstract specification: ask, perform, show, lose

Expressions    values, their comparison, columns, evaluation
  Planner      a SELECT's clauses to a plan; the schema of a plan
    Executor   the operators and the loop that drives them      <- the queries
      SelectSemantics  what the clauses mean; the executor's properties
        MCExecutor     tables and SELECTs for TLC

RecoveryProofs   what a write does to the log; what recovery computes
  DatabaseProofs   types and ownership                              <- theorems
    HistoryProofs  the order of the SCNs, visibility of commits     <- theorems
      TransactionProofs  what becomes of a transaction's rows       <- theorems
        RefinementProofs  Database implements ReadCommitted         <- theorems
ServerProofs     frames, types, the panic, the refinement           <- theorems
PlanProofs       values, types, schemas, plans, orders
  ExecutorProofs types, the rows have the announced columns         <- theorems
```

The three groups meet at two places. A statement is one step of `Database`, and
`Executor` shows the inside of a SELECT on tables that stand still; that a
statement is one, whole, and alone on the database is what `Server` shows. To
`Database` a SELECT is the SCN it captures; to `Executor` a row is visible or not,
as `is_visible` in TxManager decides.

**State.** The variables are the fields of the code, under the code's names.
`redo_log`/`eol` are the file; `scn`, `statuses`, `commit_scns`,
`undo_segments`, `redo_buffer`, `next_tx_id` the transaction manager;
`catalog`, `tables` the rest of `DatabaseState`; `current_tx_id`, `cr_scn` the
sessions; `up` and `boots` say whether the process runs and how often it has
started. A hash map is a function whose default (`"None"`, `NoScn`, `<<>>`)
stands for an absent key.

**Actions.** One statement is one action, because it runs to its end under the
mutex: `Begin`, `Commit`, `Rollback`, `Insert`, `CreateTable`, `Query` are the
branches of `inner_handle`; each contains the whole branch, with the calls into
the transaction manager and the flush. `Boot` is `run` up to `listen`: recovery,
then `setup_demo_data`. `Reconnect` is a connection that ends and the next client
in its place. `Crash` is the death of the process between statements.
The flush is a loop that writes one record after the other, `WriteRecords`: a
record is in the file whole, not at all (`line`), without its newline (`noeol`), in
part (`torn`), or cut inside a multi-byte character (`torn8`), and the next one
is appended to whatever that left, joined to it if the line is not terminated.
With `DiskTails` any subset of the records of a flush may come to such an end; the
loop goes on behind each, and the statement reports success, as the code drops the
errors. `FlushCrash` is the death of the process inside the flush of a COMMIT or a
ROLLBACK: `n` records have been through the loop, well or not, and the next is cut
as `CrashTails` allows. The in-memory half of such a statement needs no state: it
is lost with the process.

**Queries.** Tables do not change during a SELECT (the lock). A plan is the
sequence of its nodes in post-order, which the left-deep plans of `bind_query`
allow: the child of node `n` is `n - 1`, and a Join has its left child at `n - 2`.
`exec` holds a cursor, a buffer, a left row and groups for each node, `columns`
their schemas. The operators call each other in small steps. `calls` is the stack
of the calls of `init` and `next` that have not returned, `ret` what the last one
returned, and an action is what an operator does between two calls of its
children: `SeqScanNext`, `ChildInit`, `StartReading`, `Read`, `Sorted`,
`FilterPulled`, `LimitPulled`, `NextLeft` and so on, together `Work`; `Propagate`
is the `?` behind every call. `Sorted` and `Aggregated` have several outcomes, as
`sort_by` promises no order for keys that are not consistently ordered (a NULL
equals everything; it may even panic on them, which to everybody else is `Panic`
of `Server`), and as the rows of an aggregation come in the order of a `HashMap`.
Around them are the steps of `handler.rs:141-170`: `Bind` (`bind_query` and
`build_executor`: parse tree to operators, unless `Refused`, which is what
`map_sql_expr` and the schema of FROM reject; the schema of the root is computed
after `init` (`handler.rs:151`), but a plan that has none is refused here already:
it is an error both ways), `Open` and `Fetch` (the calls of `init` and `next` of
the root begin), `Returned` (the root has answered), `Close`, `Drop`. `Open` may
be repeated and `Fetch` may follow the end, as the interface promises
(`README.md:21-22` of the repository) and its tests do. An expression stands for
its printed name, by which the code finds generated columns. FLOATs are multiples
of 1/12, or `NotFinite` after a division by zero; integers are unbounded.

**Connections.** A slot `c` of `Clients` is a client's process (`client`,
`input`, `sending`, `receiving`), a thread of the server (`thread`, `inbox`,
`request`, `outbox`) and the two streams between them, which hold `Capacity`
bytes. `thread[c]` is the line the thread is at: `read` and `write` are the calls
of `read_frame` and `write_frame`, which take or give as many bytes as there are or
fit (`ThreadRead`, `ThreadWrite`), `lock` is `db.lock().unwrap()` (`Lock`: a
poisoned mutex ends the thread), `execute` is `handle_statement` under the guard
(`Finish`; `Panic`, which poisons; `Exit`, which is `/crash`). `Typed` and
`SendTyped` are the client's loop over lines; `ClientFails`, `Quit`, `ThreadEof`,
`ThreadWriteFails` every way for one end to notice the other's death, with or
without the bytes still under way; `Stop` the end of the process, also by an
error of `accept()` (`server.rs:41`). What statements do is left open: which replies
one may get (`Returns`), whether it may panic (`Panics`) or crash (`Crashes`) are
parameters. `statement`, `reply`, `shown`, `overlong` are history: what was
asked, performed and printed.

**StatementService** is what the repository's README promises of the
client-server mode: a client asks, its statement is performed in one step, once,
on a sound database, and the client is shown what came out; it may lose the
connection at any time and then knows nothing. There are no threads, lock or
bytes in it. The refinement mapping reads the state of a client off `client` and
`reply`; a client that ever sent or was sent a frame whose length does not fit counts as
lost, since nothing can be promised of its stream.

**SelectSemantics** says what a SELECT means with neither plan nor operators:
bindings of table names to rows, groups of bindings, values of expressions over
them, orderings and pages. It compares values by a definition of its own (numbers
by their amount, a NULL with nothing), and takes MIN, MAX and the order of rows
from that. With the executor it shares the arithmetic, and from `sort_by` that a sort
is stable and what becomes of keys without an order (a NULL among values).

**Abstracted.** The contents of a row are an element of `Values`; only its
number of columns (`Width`), whether it holds an infinite number (`NonFinite`)
and whether it holds non-ASCII text (`MultiByte`) matter. A row with an
expression that fails to evaluate is one that fits no table. A log line is the
record it parses to, `Garbage`, or `BadUtf8`. The `scn` of a tuple and the
`row_idx` of a redo record are written and never read, so they are left out.
Statements that fail without an effect are stutters. Tracing and printing are
left out.

**ReadCommitted** is what the repository's README promises in its section on
transactions: committed rows survive, rows of an open transaction are seen by
its session alone and vanish with ROLLBACK, the connection or the process, rows
inserted outside a transaction last as long as the process. It has no log, no
ids, no clock; a table is a bag. The refinement mapping takes as durable what
`RecoveredRows` would make of the log now.

## 3. Runs

The runs `queries` and `sort_dropped_column` are `MCExecutor`, `server` is
`MCServer`, all others `MCDatabase`, with a `.cfg`; bounds are constants with their own
names: `MaxBoots` (starts of the server), `BeginBudget[b]` (transactions begun
in the b-th start), `MaxRows` (rows of a table an INSERT may reach). At most
two sessions: no hazard found involves more.

| run | checks | what it shows |
|---|---|---|
| `sessions` | `TypeOK`, `WriteAhead`, `RowsFitSchema`, `UndoExact`, `RollbackExact`, `PublishedRowsStay` | one start, two transactions, three tables, INSERTs of one and two rows that may fail half way, tables of one or two columns. When every table has one writing session, the undo positions stay exact, ROLLBACK removes its own rows and no others, and committed rows are never hidden or removed |
| `restarts` | `LogScnOrdered`, `ClockAhead`, `TxOwnedOnce`, `CommitsVisible` | three starts, the first two with overlapping ids; every outcome for every record of every flush, in any combination, whether the disk fails or the process dies |
| `recovery` | `RecoveryKeepsCommitted`, `RecoveryDropsUncommitted`, `ViewsAgree`, `ImplementsReadCommitted` | crashes everywhere and a second start that begins no transaction: Database implements ReadCommitted, and a SELECT returns the promised rows |
| `queries` | `TypeOK`, `AnswersRight`, `ErrorsJustified`, `SchemaDescribesRows`, `CallsReturn` | some 110 SELECTs over eight contents of two tables: planner and operators return what the clauses mean, row by row, after a repeated `init` too; they fail only on errors that LIMIT does not cut off; types and number of the columns are those the schema announces; no loop of an operator runs for ever |
| `server` | `TypeOK`, `BrokenStateUnseen`, `ImplementsStatementService`, `MutexComesFree`, `EveryStatementAnswered`, `ThreadsEnd` | two clients and their threads, with panics, `/crash`, frames that are too long, full streams and deaths anywhere: statements are performed once and whole on a sound database, answers reach the client that asked, the mutex always comes free, a client that reads gets an answer or learns that the connection is gone, and threads of dead clients end |
| `rollback_shared` | `RollbackExact` is violated | two sessions write one table |
| `reuse_hides` | `PublishedRowsStay` is violated | BEGIN reuses an id after a restart |
| `reuse_revives` | `RecoveryDropsUncommitted` is violated | COMMIT of a reused id |
| `torn_character` | `AlwaysBootable` is violated | a write cut inside a character |
| `infinite_value` | `WriteAhead` is violated | a FLOAT that JSON cannot hold |
| `merged_lines` | `CommitRecordsStay` is violated | a write cut before its newline |
| `sort_dropped_column` | `AnswersRight` is violated | ORDER BY a column that is not selected |

**Why the passing runs restrict the workload.** `sessions` and `recovery` give
each table one writing session (`Writers <- Exclusive`) and `recovery` begins no
transaction after the restart (`BeginBudget <- Budget20`). Without the first
restriction `rollback_shared` shows what happens, without the second
`reuse_hides` and `reuse_revives`. So these runs say exactly how far the promises
hold, and the violations that they do not hold further. `restarts` has neither
restriction: clock, ownership and visibility do not depend on them. Its
`CHECK_DEADLOCK FALSE` is there because a log with a `BadUtf8` line, once the
last start is used up or not, admits no boot: the system really stops.

**Why the bounds are enough.** Two transactions open at once are needed for a
flush to carry foreign records, for stale positions and for dropped connections;
two starts for recovery and reused ids, and a third, in `restarts`, to read what
the second wrote behind a damaged log; two rows for a statement that fails between
rows and for an order of undo records (`UndoneForward`, the mutant that undoes in
the wrong order, is only caught with two). Three tables let one be written by each
session and one stay without schema; each but that of the demo rows is created
with one column or two, and an INSERT has rows of either width, or of one after
the other. One row suffices in `restarts`: a flush then carries up to four records
(the BEGINs of both sessions, an insert, a COMMIT), each of which can meet any of
the five outcomes. Every property has a mutant of the code (`Variant:` in the
modules) that the same run rejects.

In `server` bytes are bits (`Base = 2`), so the four bytes of length count to 15
and a frame of 16 is too long; five bits of `Capacity` are less than any reply
with a header, so that writers wait in the middle of a frame. One client may type
everything: a part of a statement, a question, the statement that panics,
`/crash`, a text that is too long; the other asks one question, and shows what
the first one does to it. `MaxInput = 1` lets one line precede the last.

**The SELECTs of `queries`.** Tables of up to four rows with ties, NULLs, hidden
rows and an INT in a FLOAT column; scans with and without failing conditions and
projections under eight pages of LIMIT 0, 1, 2 and OFFSET 1, 3, before, at and
after the last row; cross, inner, self and three-way joins; sorts by one and two
keys in both directions, with NULL keys; aggregates with and without groups, over
no rows, inside expressions, sorted and paged; an unknown column and an unknown
table. Left out are SELECTs for which no document says what they should do: sort
keys that are not selected (except in `sort_dropped_column`), group texts that
contain commas, columns that are neither grouped nor aggregated. Four rows suffice
for each operator to start, continue, skip, and meet an error before, at and after
the edge of a page.

**Fairness.** It is stated only of threads of the server. In `Server`: weak
fairness of `ThreadStep(c)`: a thread that can read, execute or write does so, as
the operating system schedules it and as statements are finite. Strong fairness
of `Lock(c)`: a thread that waits for a mutex which is free again and again gets
it in the end. Rust's mutex on a futex is not fair, but each statement is sent by
its own client, which must have read the reply and typed a line before the thread
returns to the mutex, so nobody can hold it on without pause. Nothing is
assumed of users, of how long the process lives, or of clients: that a client
process runs (`ClientRuns`) is a premise of the one property that speaks of its
answer, and `MutexComesFree` holds with clients that never read. In
`Executor`: weak fairness of `Work`, since the thread of a statement does not stop
inside a call, it has nothing to wait for there; `CallsReturn` needs it, and none is
assumed of `Open` and `Fetch`. `Database` states no fairness: statements arrive when
clients send them.

## 4. Proofs

All results hold for every value of the constants that satisfies the named
assumptions (`LogAssumption`, `TxIdAssumption`, `DatabaseAssumption`: ids are
positive naturals, the demo rows and inserts are sequences of values, the ways of
cutting a write are among the four known, `TxIds` covers the ids that the bound
lets `begin` hand out; `ServerAssumption`, `BaseAssumption`: texts are sequences
of bytes, a stream holds at least one, a byte has at least two values;
`ExprAssumption`, `RewritingAssumption`: operands are expressions and of less
depth, and so is what replaces the aggregates in one; `CatalogAssumption`,
`TablesAssumption`, `QueriesAssumption`: schemas, rows and the clauses of a SELECT
have their form). The results hold in particular for any number of sessions,
clients, tables, rows and restarts, and for `Base = 256`. Where a theorem needs a
restriction of the workload, it says so in an `ASSUME`; the runs' constants
satisfy it.

**Types, clock, ownership and the file** (DatabaseProofs, HistoryProofs), for every
outcome of every write, by crashes and failing disks in any combination, and, but
for the last two, without any restriction:

- `TypeCorrect` (`TypeOK`). `TypeOK` is not inductive alone: `Typed`
  adds that a running server has been started (else `BeginBudget` is applied
  outside its domain) and that only a file with a line in it can lack a final
  newline (else a write would have no line to join). The two loops, undo and
  replay, are recursive functions; their types are proved from `RecursionExists`
  (such a function exists) and `NatSetInduction`.
- `Ownership` (`TxOwnedOnce`). `Owned` adds that no session has a
  transaction while the server is down. `OwnedKept` covers every step that only
  gives transactions up; `OwnedBegin` is the one that hands an id out: it is
  below no id in use because all of those are less than `next_tx_id`.
- `LogOrder` and `ClockNeverBehind` (`LogScnOrdered`, `ClockAhead`). The
  invariant `Ordered` speaks of the *history*, the log with the buffer behind it:
  its SCNs are in order, commit records have SCNs of at least 1, and the clock of
  a running server is not behind. A statement extends the history at or above
  the clock (`ConcatChronicle`). Whatever each record of a flush came to, the
  readable lines of the log afterwards *embed* into the history in their order
  (`WriteEffect`, by induction over the records: `WrittenEffect` is one write and keeps
  all readable lines but an unterminated last one), and order survives taking lines
  out (`EmbedsChronicle`), be they in the middle of a flush and the COMMIT behind them
  not. At a boot, `RecoveredScnAhead` puts the clock above all of it.
- `CommittedIsVisible` (`CommitsVisible`). At a boot the distinctness of
  commit SCNs follows from the order of the log (`RecoveredCommit` ties a
  recovered status to a commit record); afterwards each COMMIT takes a greater one.
- `StartsAgain` (`AlwaysBootable`), if no write is cut inside a character
  (`NoSplit`; finding 4): every other damage, anywhere in a flush, leaves a readable
  file, as what two lines make together is no worse than the worse of them
  (`WriteReadable`).
- `RecordsKept` (`RecordsStay` and `CommitRecordsStay`), if no write is cut between a
  record and its newline (`NoBareRecord`; finding 6): *every* record that can be read
  stays in the file, at its place, over every step. By `Sealed` an unterminated line is
  then one that cannot be read, so what joins it takes no record along
  (`WriteKeeps`). The two show that the findings are the only causes.

**Transactions** (TransactionProofs):

- `UncommittedAreDropped`, `CommittedAreKept` (`RecoveryDropsUncommitted`,
  `RecoveryKeepsCommitted`), if no run of the server but the first begins
  transactions (`NoReuse`; finding 2 and 3 show what happens otherwise). The
  invariant `Story`: in the history nothing of a transaction is before its BEGIN
  or behind its COMMIT or ROLLBACK (`Whole`), and in the first run the records are
  of ids already handed out, open ones not ended (`Current`). `Whole` survives
  embedding, hence every crash. So the last status record of a transaction decides as
  its only ending does.
- `UndoPlacesRight`, `RollbackTakesItsRows` (`UndoExact`, `RollbackExact`), if
  moreover one session inserts into each table (`OneWriter`; finding 1). The
  invariant `Undoable`: the undo records of an open transaction point, table by
  table and in rising order, at exactly its rows, and these are the last rows
  of the table. So taking them away from the end leaves the others where they
  are (`Picked`), which a recursion over the undo segment shows.
- `CommittedRowsStay` (`PublishedRowsStay`), under the same assumptions. Visible
  copies are counted; COMMIT and INSERT only add some, ROLLBACK takes rows that
  nobody else could see.
- `RowsHaveTheirColumns` (`RowsFitSchema`) for the first run of the server
  (`MaxBoots = 1`) and demo rows of one width per table (`DemoFits`). `Fitting`
  adds that a table without schema has no rows. Across a restart it fails: the
  schema is not recovered, the rows are.
- `CommittedIsLogged` (`WriteAhead`), for a disk that does not fail, values
  that survive JSON, and crashes that cut no write between a record and its
  newline, or no later run that begins transactions (`CleanWrites`; findings 5
  and 6). `WriteAhead` compares rows with records in the file, but an
  open transaction has its records in the buffer. So the invariant `Ahead` counts
  them in the history, for *all* transactions: never fewer insert records of a
  transaction, table and value than rows (`Logged`). A boot needs that recovery
  makes at most one row of a record (`CountRecovered`), a rollback that it only
  takes rows (`FewerUndone`). `BufferOpen`, the buffer has records of Active
  transactions only, then puts the records of a committed one into the file. A
  crash may leave a torn line, and the first line of the next run is lost in it.
  `Resumed` says why that does no harm: until that run has flushed, its first
  record is a BEGIN, since a session must be in a transaction to add any other.
  TLC agrees: `merged_lines` with `CrashTails <- TornTails` finds neither
  `CommitRecordsStay` nor `WriteAhead` violated.

**The promise** (RefinementProofs), if no transaction begins after a restart
(`NoReuse`), one session inserts into each table (`OneWriter`), the disk does not
fail and values survive JSON (`SoundDisk`); a crash may cut a write in any of the
four ways. Findings 1 to 3 and 5 show that none of the three can go.

- `ReadCommittedImplemented` (`ImplementsReadCommitted`) and `ViewsRight`
  (`ViewsAgree`). The two sides differ in form: `ReadCommitted` has bags of row
  contents, `Database` rows in order, with ids, and a log. Both are compared
  through *counts*: how many rows of transaction `x` with value `v` table `t` has,
  how many insert records. Every variable of `ReadCommitted` is the bag of such
  counts (`Mapped`), so two bags are equal, or one is the sum of others, if the
  counts are (`SameMemory`, `SameDurableBags`, `BagSum`).
- The invariant is `Mirrored`. A step that should move rows to `durable` changes
  only the log, while `pending` is read from the tables; so the two must agree
  beforehand: the rows of an open transaction in memory are, value for value, its
  insert records in the history (`OpenMirrored`), and the rows of committed
  transactions are what recovery would bring back (`CommittedMirrored`, from which
  `ViewsRight` follows too). It needs `Undoable` (a ROLLBACK takes exactly the
  rows), `Published` (a SELECT sees exactly the committed rows) and `Story` (the
  ending of a transaction is the last of its records).
- A COMMIT adds the transaction's insert records to those recovery keeps, and no
  others (`LogAfterCommit`); lines of open or rolled-back transactions, and cut
  lines, change nothing (`DurableUntouched`). What a death inside a flush leaves
  is the whole history with its last record or only such lines (`CutOrWhole`):
  `FlushCrash` is `CommitThenCrash` or `Crash`, and nothing between.
- `StepPromised` has one lemma for each action: `BootIsStart`, `BeginIsBegin`,
  `InsertIsInsert`, `CommitIsCommit`, `RollbackIsAbandon`, `ReconnectIsAbandon`,
  `CrashIsCrash`, `FlushCrashIsCrash`; SELECT and CREATE TABLE are stutters.

**Connections** (ServerProofs), without restriction:

- `ReaderGetsFrame`: in whatever pieces a frame arrives, a reader that misses
  nothing has its payload and no byte of what follows. It rests on the digits of
  a length, for any base.
- `TypeCorrect` (`TypeOK`), with `Locked`: a thread executes exactly while it has
  the mutex.
- `PanicStopsStatements` (`BrokenStateUnseen`), by `Poisoning`: a broken database
  has a poisoned mutex, and a poisoned mutex is free.
- `ServerImplementsService` (`ImplementsStatementService`). The invariant
  `Dialogues` says for each connection where its one frame is: the bytes a client
  has still to send, those under way and those received are together the frame of
  its statement, or of the reply, as far as neither end has died; with it each step
  of a thread or client is a step of the service or a stutter.

**Queries** (PlanProofs, ExecutorProofs): any expressions of any depth, tables, rows,
and SELECTs, hence plans of any length. The one hypothesis is `RowsHaveColumns(tables)`:
a row has as many values as its table has columns. This is `RowsFitSchema` of
`Database`, which the code guarantees in the first run of a server
(`RowsHaveTheirColumns`) and not after a restart (section 5), where `eval`
indexes past the end of the row and panics (`planner.rs:36`).

- `TypeCorrect` (`TypeOK`) and `RowsMatchSchema` (`SchemaDescribesRows`). The first
  says little of what the second needs: `SchemaDescribesRows` speaks of the rows the
  root has returned, and these depend on what every operator below keeps, on where in its
  code each pending call is, and on what the last call has handed to the one that
  waits. The invariant `IInv` says all three:
  - `StackOK`: each call on the stack is of the child that the frame below it waits for
    (`Awaited`), down to the root. So a result goes to the operator whose child
    made it, also where a Join alternates between two children.
  - `RetOK`: a row that was returned fits the schema of the child whose result is
    awaited (`Expected`).
  - `OperatorOK`: what a Sort, Agg or Join keeps between two calls are rows that fit
    the schema of the node they come from (`KeepsOK`), and the states of an
    aggregate have the type of its argument (`StateOK`). It holds for operators that
    were never opened, opened again in the middle, and closed.
- `Fits` splits a row's columns from their types: the number of values holds always,
  the types if the stored values have those of their columns (`WellTypedIn`). The
  condition is needed: INSERT checks no types (`handler.rs:115-131`), and an INT
  stays one in a FLOAT column.
- There are lemmas for the actions of `Work` (`LeavesKeep` to `JoinNextKeeps`,
  joined in `WorkKeeps`), over lemmas for what they do with rows (`ProjectFits`,
  `SortFits`, `UpdatedOK`, `GroupRowsFit`, `JoinFits`) and with the stack (`Called`,
  `HasReturned`, `Repeated`).
- PlanProofs supplies what they cite. `EvalKind`: where `get_expr_type` gives a
  type, `eval` gives a value of it, NULL, or an error; `bind_queryOK`: a query
  that is not refused becomes a plan whose nodes have their children before them;
  `SchemasUnfold`: the schema of a node is that of its children, by its kind;
  `AggregatesType`: what is found in an expression are calls with arguments of less depth;
  `sort_byType`: every outcome of the sort puts rows of the buffer at all places.
  The recursive functions of the planner are over expressions, not numbers: that they
  exist is proved from the solutions on expressions up to a depth, which agree
  (`ExprInduction`, `SolutionsAgree`, `ExprRecursion`).

Only model-checked: `AnswersRight` and `ErrorsJustified`, since the meaning of a
SELECT (`SelectSemantics`) is recursive over the tables of FROM and over
expressions, and the prover takes no `RECURSIVE` operator. Liveness (`MutexComesFree`,
`EveryStatementAnswered`, `ThreadsEnd`, `CallsReturn`) and `ENABLED` are out of the
prover's reach, as is what a recursive definition computes for every input.

## 5. Findings

Those with a run are in `PROJECT.json`:

1. `handler.rs:77`: ROLLBACK removes by a row position recorded earlier; another
   session's rollback on the same table shifts positions, so it removes a row of
   somebody else, even a committed one, and leaves its own (`rollback_shared`).
2. `tx.rs:70`: `next_tx_id` restarts at 1 after recovery. BEGIN turns a recovered
   `Committed` status into `Active` and hides its rows (`reuse_hides`).
3. `recovery.rs:86`: recovery decides by sets of ids, so a reused id that
   commits brings back rows that were never committed (`reuse_revives`). By the
   same line a reused id that is rolled back drops rows that were committed:
   `reuse_revives` with `RecoveryKeepsCommitted` in place of its invariant.
4. `recovery.rs:27`: a line that is not UTF-8 fails the boot, for ever, where
   unparseable lines are meant to be skipped (`torn_character`).
5. `tx.rs:138`: a FLOAT that is not finite is written as `null` and never parsed
   again (`infinite_value`).
6. `tx.rs:63`: the log is opened for append without ending an unterminated line,
   so the next record and the last one destroy each other (`merged_lines`).
7. `executor.rs:281`: an ORDER BY column that is not selected is not found above
   the projection and sorts nothing, as in the example of the repository's README
   (`sort_dropped_column`). `ORDER BY COUNT(*)` sorts nothing for the same reason.

Without a run of their own: NULL sort keys leave the other rows in no particular
order, and a `sort_by` that detects it panics (`executor.rs:283`); groups of texts
may be merged by `make_group_key` (`executor.rs:568`), and a Float and an Int that
are equal are two groups; the error of a failed write is dropped inside the loop,
so the COMMIT succeeds, and its record may be in the file without the rows it
commits: recovery then brings back half a transaction (`tx.rs:139`;
`infinite_value` with `NonFinite <- None` and `DiskTails <- AtRecord` violates
`WriteAhead` as well); the demo rows are loaded after a recovery as well
(`server.rs:29`, against the comment at `handler.rs:173`); undo segments of
committed transactions and of dropped connections are never freed (`tx.rs:110`);
CREATE TABLE keeps recovered rows under whatever columns it declares, and the
executor indexes past their end (`handler.rs:96`; `reuse_hides` with `Values <-
NarrowAndWide` and `Widths = {1, 2}` violates `RowsFitSchema`); a panicking
statement ends the service of all until a restart, through the poisoned mutex
(`server.rs:52`); of `FROM a, b` only `a` is read, and DISTINCT and HAVING are not
looked at (`planner.rs:444`); a LIMIT that is not a literal is dropped
(`planner.rs:554`); of several statements in a text the first is executed
(`planner.rs:299`), and of a text that starts with BEGIN nothing else
(`handler.rs:55`).

## 6. Plan

Every part of section 1 has its module. What remains worth doing, in this order:

1. **What LIMIT and a join return**: the page and the pairs, for an arbitrary child,
   as theorems; today `AnswersRight` checks them on small tables.
2. **Arithmetic of 64 bits** in `Expressions`, with the panic of a debug build.

Not modelled, with the reasons: the parsing of SQL (`sqlparser-rs`, a library; the
models start at the syntax tree); a text of several statements; formatting of
results, banner, prompts and tracing, which no property is about; `/status`, which
only reads; overflow of 64-bit sums (`executor.rs:441`); the tests and examples,
which hold no logic of the system.

## 7. Running

In this directory, `tlc -config sessions.cfg MCDatabase` (and so on for the other
`.cfg` files; `MCExecutor` for `queries.cfg` and `sort_dropped_column.cfg`,
`MCServer` for `server.cfg`), and `tlapm HistoryProofs.tla` (and the other `*Proofs`
modules). The passing runs take one to three minutes
each, the proofs about a minute per module, two to three for `RefinementProofs`,
`ExecutorProofs` and `TransactionProofs`.

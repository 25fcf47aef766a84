--------------------------- MODULE HistoryProofs ---------------------------
(***************************************************************************)
(* The order of the SCNs, over every run of the server and every crash.    *)
(* The history is the log with the buffer behind it.  What a statement     *)
(* appends to it is not below the clock; a flush, whole or cut, and the    *)
(* merging of an unterminated line only take lines out of it.              *)
(***************************************************************************)
EXTENDS DatabaseProofs

History == redo_log \o redo_buffer

Bounded(log, n) == \A i \in Parsed(log) : log[i].scn <= n
CommitsNumbered(log) == \A i \in Parsed(log) : log[i].type = "commit" => log[i].scn >= 1

\* A history whose SCNs are in order and at most n.
Chronicle(log, n) == ScnOrdered(log) /\ CommitsNumbered(log) /\ Bounded(log, n)

(***************************************************************************)
(* Taking lines out.                                                       *)
(***************************************************************************)
LEMMA EmbedsChronicle ==
    ASSUME NEW new, NEW old, NEW n, Embeds(new, old), Chronicle(old, n)
    PROVE  Chronicle(new, n)
<1>1. PICK e : Embedding(e, new, old)
  BY DEF Embeds
<1>2. \A i \in Parsed(new) : e[i] \in Parsed(old) /\ new[i] = old[e[i]]
  BY <1>1 DEF Embedding
<1>3. \A i, j \in Parsed(new) : i < j => e[i] < e[j]
  BY <1>1 DEF Embedding
<1> QED BY <1>2, <1>3 DEF Chronicle, ScnOrdered, CommitsNumbered, Bounded

\* Losing the buffer.
LEMMA PrefixEmbeds ==
    ASSUME NEW log \in Seq(LogLines), NEW rest \in Seq(LogLines)
    PROVE  Embeds(log, log \o rest)
<1> DEFINE e == [i \in Parsed(log) |-> i]
<1>1. /\ Len(log) \in Nat /\ Len(rest) \in Nat
      /\ log \o rest \in Seq(LogLines)
      /\ Len(log \o rest) = Len(log) + Len(rest)
      /\ \A i \in 1..Len(log) + Len(rest) :
            (log \o rest)[i] = IF i <= Len(log) THEN log[i] ELSE rest[i - Len(log)]
  BY ConcatProperties
<1>2. ASSUME NEW i \in Parsed(log) PROVE i \in Parsed(log \o rest) /\ (log \o rest)[i] = log[i]
  <2>1. i \in 1..Len(log) /\ log[i] \notin {Garbage, BadUtf8}
    BY DEF Parsed
  <2>2. i \in 1..Len(log) + Len(rest) /\ i <= Len(log)
    BY <2>1, <1>1
  <2> QED BY <2>1, <2>2, <1>1 DEF Parsed
<1>3. Embedding(e, log, log \o rest)
  BY <1>2 DEF Embedding
<1> QED BY <1>3 DEF Embeds

(***************************************************************************)
(* Putting records behind.                                                 *)
(***************************************************************************)
LEMMA ConcatChronicle ==
    ASSUME NEW log \in Seq(LogLines), NEW recs \in Seq(RedoRecords),
           NEW m \in Nat, NEW n \in Nat, m <= n, Chronicle(log, m),
           \A k \in 1..Len(recs) :
               recs[k].scn = n /\ (recs[k].type = "commit" => m < n /\ Len(recs) = 1)
    PROVE  Chronicle(log \o recs, n)
<1> DEFINE new == log \o recs
<1>1. recs \in Seq(LogLines) /\ Len(log) \in Nat /\ Len(recs) \in Nat
  BY SeqMonotonic DEF LogLines
<1>2. /\ new \in Seq(LogLines)
      /\ Len(new) = Len(log) + Len(recs)
      /\ \A i \in 1..Len(log) + Len(recs) :
            new[i] = IF i <= Len(log) THEN log[i] ELSE recs[i - Len(log)]
  BY <1>1, ConcatProperties
<1> HIDE DEF new
<1>3. ASSUME NEW i \in Parsed(new)
      PROVE  \/ i \in Parsed(log) /\ i <= Len(log) /\ new[i] = log[i]
             \/ /\ i > Len(log) /\ i - Len(log) \in 1..Len(recs)
                /\ new[i] = recs[i - Len(log)]
  <2>1. i \in 1..Len(log) + Len(recs) /\ new[i] \notin {Garbage, BadUtf8}
    BY <1>2 DEF Parsed
  <2>2. CASE i <= Len(log)
    <3>1. i \in 1..Len(log) /\ new[i] = log[i]
      BY <2>1, <2>2, <1>1, <1>2
    <3> QED BY <3>1, <2>1 DEF Parsed
  <2>3. CASE ~(i <= Len(log))
    <3>1. i - Len(log) \in 1..Len(recs) /\ i > Len(log)
      BY <2>1, <2>3, <1>1
    <3> QED BY <3>1, <2>1, <2>3, <1>2
  <2> QED BY <2>2, <2>3
<1>4. ASSUME NEW i \in Parsed(new)
      PROVE  /\ i \in Nat /\ new[i].scn \in Nat
             /\ new[i].scn <= n
             /\ new[i].type = "commit" => new[i].scn >= 1
  <2>1. i \in Nat /\ new[i].scn \in Nat
    BY <1>2, ParsedFields
  <2>2. CASE i \in Parsed(log) /\ new[i] = log[i]
    <3>1. new[i].scn <= m /\ (new[i].type = "commit" => new[i].scn >= 1)
      BY <2>2 DEF Chronicle, Bounded, CommitsNumbered
    <3> QED BY <3>1, <2>1
  <2>3. CASE i - Len(log) \in 1..Len(recs) /\ new[i] = recs[i - Len(log)]
    <3>1. new[i].scn = n /\ (new[i].type = "commit" => m < n)
      BY <2>3
    <3> QED BY <3>1, <2>1
  <2> QED BY <1>3, <2>1, <2>2, <2>3
<1>5. ASSUME NEW j \in Parsed(new), NEW i \in Parsed(new), i < j
      PROVE  /\ new[i].scn <= new[j].scn
             /\ new[j].type = "commit" => new[i].scn < new[j].scn
  <2>1. CASE j \in Parsed(log) /\ j <= Len(log) /\ new[j] = log[j]
    <3>1. i \in Parsed(log) /\ new[i] = log[i]
      BY <2>1, <1>1, <1>3, <1>4, <1>5
    <3> QED BY <2>1, <3>1, <1>5 DEF Chronicle, ScnOrdered
  <2>2. CASE /\ j > Len(log) /\ j - Len(log) \in 1..Len(recs)
             /\ new[j] = recs[j - Len(log)]
    <3>1. new[j].scn = n /\ (new[j].type = "commit" => m < n /\ Len(recs) = 1)
      BY <2>2
    <3>2. new[i].scn <= new[j].scn
      BY <3>1, <1>4
    <3>3. ASSUME new[j].type = "commit" PROVE new[i].scn < new[j].scn
      <4>1. m < n /\ Len(recs) = 1
        BY <3>1, <3>3
      <4>2. j - Len(log) = 1
        BY <4>1, <2>2
      <4>3. ~(i > Len(log))
        BY <4>2, <1>4, <1>5, <1>1
      <4>4. i \in Parsed(log) /\ new[i] = log[i]
        BY <4>3, <1>3
      <4>5. new[i].scn <= m
        BY <4>4 DEF Chronicle, Bounded
      <4> QED BY <4>1, <4>5, <3>1, <1>4
    <3> QED BY <3>2, <3>3
  <2> QED BY <1>3, <2>1, <2>2
<1> QED BY <1>4, <1>5 DEF Chronicle, ScnOrdered, CommitsNumbered, Bounded, new

\* The records a statement adds to the buffer end the history.
LEMMA BufferedChronicle ==
    ASSUME Typed, NEW recs \in Seq(RedoRecords), NEW n \in Nat, scn <= n,
           Chronicle(History, scn),
           \A k \in 1..Len(recs) :
               recs[k].scn = n /\ (recs[k].type = "commit" => scn < n /\ Len(recs) = 1)
    PROVE  Chronicle(redo_log \o (redo_buffer \o recs), n)
<1>1. redo_log \in Seq(LogLines) /\ redo_buffer \in Seq(RedoRecords) /\ scn \in Nat
  BY DEF Typed, TypeOK
<1>2. redo_buffer \in Seq(LogLines) /\ recs \in Seq(LogLines)
  BY <1>1, SeqMonotonic DEF LogLines
<1>3. History \in Seq(LogLines)
  BY <1>1, <1>2, ConcatProperties DEF History
<1>4. History \o recs = redo_log \o (redo_buffer \o recs)
  BY <1>1, <1>2, ConcatAssociative DEF History
<1>5. Chronicle(History \o recs, n)
  BY <1>1, <1>3, ConcatChronicle
<1> QED BY <1>4, <1>5

\* One record behind the buffer: a BEGIN's, a COMMIT's or a ROLLBACK's.
LEMMA AppendedChronicle ==
    ASSUME Typed, NEW rec \in RedoRecords, Chronicle(History, scn),
           \/ rec.scn = scn /\ rec.type # "commit"
           \/ rec.scn = scn + 1
    PROVE  Chronicle(redo_log \o Append(redo_buffer, rec), rec.scn)
<1> DEFINE recs == <<rec>>
<1>1. recs \in Seq(RedoRecords) /\ Len(recs) = 1 /\ recs[1] = rec
  OBVIOUS
<1>2. scn \in Nat /\ redo_buffer \in Seq(RedoRecords)
  BY DEF Typed, TypeOK
<1>3. Append(redo_buffer, rec) = redo_buffer \o recs
  BY <1>2, AppendIsConcat
<1>4. rec.scn \in Nat /\ scn <= rec.scn /\ (rec.type = "commit" => scn < rec.scn)
  BY <1>2
<1> HIDE DEF recs
<1>5. \A k \in 1..Len(recs) :
         recs[k].scn = rec.scn /\ (recs[k].type = "commit" => scn < rec.scn /\ Len(recs) = 1)
  BY <1>1, <1>4
<1>6. Chronicle(redo_log \o (redo_buffer \o recs), rec.scn)
  BY <1>1, <1>4, <1>5, BufferedChronicle
<1> QED BY <1>3, <1>6

-----------------------------------------------------------------------------
(***************************************************************************)
(* The invariant: the history is in order, and the clock of a running      *)
(* server is not behind it.  While the server is down nothing is buffered, *)
(* so the history is the log that the next boot reads.                     *)
(***************************************************************************)
Ordered ==
    /\ Typed
    /\ ~up => redo_buffer = <<>>
    /\ ScnOrdered(History) /\ CommitsNumbered(History)
    /\ up => Bounded(History, scn)

LEMMA RunningChronicle ==
    ASSUME Ordered, up
    PROVE  Chronicle(History, scn)
BY DEF Ordered, Chronicle

\* A step that leaves an empty buffer: a flush or a death of the process.
LEMMA OrderedEmptied ==
    ASSUME Typed', redo_buffer' = <<>>, NEW n, Chronicle(redo_log', n),
           up' => scn' = n
    PROVE  Ordered'
<1>1. redo_log' \in Seq(LogLines)
  BY DEF Typed, TypeOK
<1>2. redo_log' \o <<>> = redo_log'
  BY <1>1, ConcatEmptySeq
<1>3. History' = redo_log'
  BY <1>2 DEF History
<1> QED BY <1>3 DEF Ordered, Chronicle

\* A step that adds to the buffer of a running server.
LEMMA OrderedGrown ==
    ASSUME Typed', up', redo_log' = redo_log,
           Chronicle(redo_log \o redo_buffer', scn')
    PROVE  Ordered'
BY DEF Ordered, Chronicle, History

\* A step of a running server that touches neither log, buffer nor clock.
LEMMA OrderedKept ==
    ASSUME Ordered, Typed', UNCHANGED <<redo_log, redo_buffer, scn, up>>
    PROVE  Ordered'
BY DEF Ordered, History, ScnOrdered, CommitsNumbered, Bounded

\* The buffers that COMMIT and ROLLBACK flush.
LEMMA FlushedChronicle ==
    ASSUME Ordered, up, NEW tx \in TxIds
    PROVE  /\ Chronicle(redo_log \o commit_buffer(tx), scn + 1)
           /\ Chronicle(redo_log \o rollback_buffer(tx), scn)
<1> DEFINE c == StatusRecord("commit", tx, scn + 1)
           r == StatusRecord("rollback", tx, scn)
<1>1. scn \in Nat /\ Typed /\ Chronicle(History, scn)
  BY RunningChronicle DEF Ordered, Typed, TypeOK
<1>2. /\ c \in RedoRecords /\ c.scn = scn + 1
      /\ r \in RedoRecords /\ r.scn = scn /\ r.type = "rollback"
  <2>1. scn + 1 \in Nat
    BY <1>1
  <2>2. c \in RedoRecords /\ r \in RedoRecords
    BY <1>1, <2>1, RecordTypes
  <2>3. c.scn = scn + 1 /\ r.scn = scn /\ r.type = "rollback"
    BY DEF StatusRecord
  <2> QED BY <2>2, <2>3
<1>3. commit_buffer(tx) = Append(redo_buffer, c) /\ rollback_buffer(tx) = Append(redo_buffer, r)
  BY DEF commit_buffer, rollback_buffer
<1> HIDE DEF c, r
<1>4. Chronicle(redo_log \o Append(redo_buffer, c), c.scn)
  BY <1>1, <1>2, AppendedChronicle
<1>5. Chronicle(redo_log \o Append(redo_buffer, r), r.scn)
  BY <1>1, <1>2, AppendedChronicle
<1> QED BY <1>2, <1>3, <1>4, <1>5

LEMMA OrderedBoot ==
    ASSUME Ordered, Typed', Boot
    PROVE  Ordered'
<1>1. redo_log \in Seq(LogLines) /\ redo_buffer = <<>>
  BY DEF Boot, Ordered, Typed, TypeOK
<1>2. History = redo_log
  BY <1>1, ConcatEmptySeq DEF History
<1>3. /\ redo_log' = redo_log /\ redo_buffer' = <<>>
      /\ scn' = RecoveredScn(redo_log)
  BY DEF Boot, NewManager, logVars
<1>4. Bounded(redo_log, RecoveredScn(redo_log))
  <2>1. \A i \in Parsed(redo_log) :
           /\ redo_log[i].scn \in Nat /\ RecoveredScn(redo_log) \in Nat
           /\ redo_log[i].scn < RecoveredScn(redo_log)
    BY <1>1, ParsedFields, RecoveredScnAhead
  <2> QED BY <2>1 DEF Bounded
<1>5. Chronicle(redo_log, RecoveredScn(redo_log))
  BY <1>2, <1>4 DEF Ordered, Chronicle
<1> QED BY <1>3, <1>5, OrderedEmptied

LEMMA OrderedInsert ==
    ASSUME Ordered, Typed', NEW s \in Sessions, NEW t \in Tables, NEW rows \in Inserts,
           Insert(s, t, rows)
    PROVE  Ordered'
<1>1. PICK n \in 1..Len(rows) :
         IF current_tx_id[s] = NoTx
         THEN UNCHANGED <<logVars, txVars>>
         ELSE record_inserts(current_tx_id[s], t, SubSeq(rows, 1, n), Len(tables[t]))
  BY DEF Insert
<1>2. up /\ up' = up
  BY DEF Insert, procVars
<1>3. CASE current_tx_id[s] = NoTx
  BY <1>1, <1>2, <1>3, OrderedKept DEF logVars, txVars
<1>4. CASE current_tx_id[s] # NoTx
  <2> DEFINE new == SubSeq(rows, 1, n)
             tx == current_tx_id[s]
             recs == [i \in DOMAIN new |-> InsertRecord(tx, scn, t, new[i])]
  <2>1. tx \in TxIds /\ scn \in Nat
    BY <1>4 DEF Ordered, Typed, TypeOK
  <2>2. rows \in Seq(Values) /\ n \in 1..Len(rows)
    BY DatabaseAssumption
  <2>3. new \in Seq(Values) /\ DOMAIN new = 1..Len(new) /\ Len(new) \in Nat
    BY <2>2
  <2>4. /\ redo_buffer' = redo_buffer \o recs
        /\ UNCHANGED <<scn, redo_log>>
    BY <1>1, <1>4 DEF record_inserts
  <2> HIDE DEF new, tx
  <2>5. \A i \in 1..Len(new) : /\ InsertRecord(tx, scn, t, new[i]) \in RedoRecords
                               /\ InsertRecord(tx, scn, t, new[i]).scn = scn
                               /\ InsertRecord(tx, scn, t, new[i]).type = "insert"
    <3>1. \A i \in 1..Len(new) : new[i] \in Values
      BY <2>3
    <3> QED BY <3>1, <2>1, RecordTypes DEF InsertRecord
  <2>6. recs \in Seq(RedoRecords) /\ Len(recs) = Len(new)
        /\ \A i \in 1..Len(new) : recs[i] = InsertRecord(tx, scn, t, new[i])
    BY <2>3, <2>5
  <2> HIDE DEF recs
  <2>7. \A k \in 1..Len(recs) : recs[k].scn = scn /\ recs[k].type = "insert"
    BY <2>5, <2>6
  <2>8. Chronicle(History, scn) /\ Typed /\ scn <= scn
    BY <1>2, <2>1, RunningChronicle DEF Ordered
  <2>9. Chronicle(redo_log \o (redo_buffer \o recs), scn)
    BY <2>1, <2>6, <2>7, <2>8, BufferedChronicle
  <2> QED BY <1>2, <2>4, <2>9, OrderedGrown
<1> QED BY <1>3, <1>4

LEMMA OrderedStep == Ordered /\ [Next]_vars => Ordered'
<1> SUFFICES ASSUME Ordered, [Next]_vars PROVE Ordered'
  OBVIOUS
<1>0. Typed' /\ Typed
  BY TypedStep DEF Ordered
<1>1. CASE Boot
  BY <1>0, <1>1, OrderedBoot
<1>2. CASE Crash
  <2>1. up /\ up' = FALSE /\ redo_buffer' = <<>> /\ redo_log' = redo_log
    BY <1>2 DEF Crash, Lost, NewManager, logVars
  <2>2. redo_log \in Seq(LogLines) /\ redo_buffer \in Seq(LogLines)
    BY <1>0, SeqMonotonic DEF Typed, TypeOK, LogLines
  <2>3. Embeds(redo_log, History)
    BY <2>2, PrefixEmbeds DEF History
  <2>4. Chronicle(redo_log', scn)
    BY <2>1, <2>3, RunningChronicle, EmbedsChronicle
  <2> QED BY <1>0, <2>1, <2>4, OrderedEmptied
<1>3. ASSUME NEW s \in Sessions, Begin(s) PROVE Ordered'
  <2> DEFINE rec == StatusRecord("begin", next_tx_id, scn)
  <2>1. next_tx_id \in TxIds /\ scn \in Nat
    BY <1>0, <1>3, BeginTyped DEF Typed, TypeOK
  <2>2. rec \in RedoRecords /\ rec.scn = scn /\ rec.type = "begin"
    BY <2>1, RecordTypes DEF StatusRecord
  <2>3. /\ up /\ up' = up /\ redo_log' = redo_log /\ scn' = scn
        /\ redo_buffer' = Append(redo_buffer, rec)
    BY <1>3 DEF Begin, begin, procVars
  <2> HIDE DEF rec
  <2>4. Chronicle(History, scn)
    BY <2>3, RunningChronicle
  <2>5. Chronicle(redo_log \o Append(redo_buffer, rec), rec.scn)
    BY <1>0, <2>2, <2>4, AppendedChronicle
  <2> QED BY <1>0, <2>2, <2>3, <2>5, OrderedGrown
<1>4. ASSUME NEW s \in Sessions, Commit(s) PROVE Ordered'
  <2>1. /\ up /\ current_tx_id[s] \in TxIds
        /\ lgwr_flush(commit_buffer(current_tx_id[s])) /\ scn' = scn + 1
    BY <1>0, <1>4 DEF Commit, commit, Typed, TypeOK
  <2>2. /\ Embeds(redo_log', redo_log \o commit_buffer(current_tx_id[s]))
        /\ redo_buffer' = <<>>
    BY <1>0, <2>1, BufferTypes, FlushTyped
  <2>3. Chronicle(redo_log', scn + 1)
    BY <2>1, <2>2, FlushedChronicle, EmbedsChronicle
  <2> QED BY <1>0, <2>1, <2>2, <2>3, OrderedEmptied
<1>5. ASSUME NEW s \in Sessions, Rollback(s) PROVE Ordered'
  <2>1. /\ up /\ current_tx_id[s] \in TxIds
        /\ lgwr_flush(rollback_buffer(current_tx_id[s])) /\ scn' = scn
    BY <1>0, <1>5 DEF Rollback, rollback, Typed, TypeOK
  <2>2. /\ Embeds(redo_log', redo_log \o rollback_buffer(current_tx_id[s]))
        /\ redo_buffer' = <<>>
    BY <1>0, <2>1, BufferTypes, FlushTyped
  <2>3. Chronicle(redo_log', scn)
    BY <2>1, <2>2, FlushedChronicle, EmbedsChronicle
  <2> QED BY <1>0, <2>1, <2>2, <2>3, OrderedEmptied
<1>6. ASSUME NEW s \in Sessions, FlushCrash(s) PROVE Ordered'
  <2>1. up /\ up' = FALSE /\ redo_buffer' = <<>> /\ current_tx_id[s] \in TxIds
    BY <1>0, <1>6 DEF FlushCrash, Lost, NewManager, Typed, TypeOK
  <2>2. PICK buffer \in {commit_buffer(current_tx_id[s]), rollback_buffer(current_tx_id[s])} :
          \E outcomes : WroteRecords(buffer, outcomes)
    BY <1>0, <1>6, CrashWrites
  <2>3. Embeds(redo_log', redo_log \o buffer)
    BY <1>0, <2>2, WroteEffect
  <2>4. \/ Chronicle(redo_log \o buffer, scn)
        \/ Chronicle(redo_log \o buffer, scn + 1)
    BY <2>1, <2>2, FlushedChronicle
  <2>5. \/ Chronicle(redo_log', scn)
        \/ Chronicle(redo_log', scn + 1)
    BY <2>3, <2>4, EmbedsChronicle
  <2> QED BY <1>0, <2>1, <2>5, OrderedEmptied
<1>7. ASSUME NEW s \in Sessions, NEW t \in Tables, NEW rows \in Inserts,
             Insert(s, t, rows)
      PROVE  Ordered'
  BY <1>0, <1>7, OrderedInsert
<1>8. CASE \/ UNCHANGED vars
           \/ \E s \in Sessions : Query(s) \/ Reconnect(s)
           \/ \E t \in Tables, w \in Widths : CreateTable(t, w)
  <2>1. UNCHANGED <<redo_log, redo_buffer, scn, up>>
    BY <1>8 DEF vars, Query, Reconnect, CreateTable, logVars, txVars, procVars
  <2> QED BY <1>0, <2>1, OrderedKept
<1> QED BY <1>1, <1>2, <1>3, <1>4, <1>5, <1>6, <1>7, <1>8 DEF Next

LEMMA OrderedInit == Init => Ordered
<1> SUFFICES ASSUME Init PROVE Ordered
  OBVIOUS
<1>1. Typed /\ ~up /\ redo_log = <<>> /\ redo_buffer = <<>>
  BY TypedInit DEF Init
<1>2. History = <<>> /\ Parsed(<<>>) = {}
  BY <1>1 DEF History, Parsed
<1> QED BY <1>1, <1>2 DEF Ordered, ScnOrdered, CommitsNumbered, Bounded

LEMMA AlwaysOrdered == Spec => []Ordered
BY OrderedInit, OrderedStep, PTL DEF Spec

\* Along the log and the buffer behind it the SCNs never decrease, and a
\* COMMIT has a greater one than every record before it, whichever records of a
\* flush crashes and failing writes take out, damage or join (the "global
\* monotonic logical clock" of tx.rs:10).
THEOREM LogOrder == Spec => []LogScnOrdered
<1>1. Ordered => LogScnOrdered
  BY DEF Ordered, LogScnOrdered, History
<1> QED BY <1>1, AlwaysOrdered, PTL

\* A running server's clock is never behind a readable record of this or of an
\* earlier run (recovery.rs:76: the clock resumes at max_scn + 1), whichever
\* records of earlier flushes are missing from the file.
THEOREM ClockNeverBehind == Spec => []ClockAhead
<1>1. Ordered => ClockAhead
  BY DEF Ordered, ClockAhead, Bounded, History
<1> QED BY <1>1, AlwaysOrdered, PTL

-----------------------------------------------------------------------------
(***************************************************************************)
(* Commit SCNs in memory: distinct, and reached by the clock.  At a boot   *)
(* this follows from the order of the log, afterwards from the clock.      *)
(***************************************************************************)
Published == Ordered /\ CommitsVisible

\* A transaction that recovery finds Committed has a commit record, with the
\* commit SCN that recovery gives it.
LEMMA RecoveredCommit ==
    ASSUME NEW log \in Seq(LogLines), NEW x \in TxIds,
           RecoveredStatuses(log)[x] = "Committed"
    PROVE  \E k \in Parsed(log) : /\ log[k].type = "commit" /\ log[k].tx_id = x
                                  /\ log[k].scn = RecoveredCommitScns(log)[x]
<1> DEFINE own == OfTx(log, x, {"begin", "commit", "rollback"})
           commits == OfTx(log, x, {"commit"})
<1>1. own # {} /\ StatusOf(log[Max(own)].type) = "Committed"
  BY DEF RecoveredStatuses
<1>2. own \in SUBSET (1..Len(log)) /\ commits \in SUBSET (1..Len(log))
  BY DEF OfTx, OfKind
<1>3. Max(own) \in own
  <2> HIDE DEF own
  <2> QED BY <1>1, <1>2, LastPosition
<1>4. Max(own) \in commits
  <2>1. /\ Max(own) \in DOMAIN log /\ log[Max(own)].tx_id = x
        /\ log[Max(own)].type \in {"begin", "commit", "rollback"}
    <3> DEFINE m == Max(own)
    <3>1. m \in own
      BY <1>3
    <3> HIDE DEF m
    <3>2. m \in DOMAIN log /\ log[m].tx_id = x /\ log[m].type \in {"begin", "commit", "rollback"}
      BY <3>1 DEF OfTx, OfKind
    <3> QED BY <3>2 DEF m
  <2>2. log[Max(own)].type = "commit"
    BY <1>1, <2>1 DEF StatusOf
  <2> QED BY <2>1, <2>2 DEF OfTx, OfKind
<1>5. Max(commits) \in commits
  <2> HIDE DEF commits, own
  <2> QED BY <1>2, <1>4, LastPosition
<1>6. RecoveredCommitScns(log)[x] = log[Max(commits)].scn
  BY <1>4 DEF RecoveredCommitScns
<1>7. OfKind(log, {"commit"}) \subseteq Parsed(log)
  BY OfKindParsed
<1> DEFINE k == Max(commits)
<1>8. k \in commits /\ log[k].scn = RecoveredCommitScns(log)[x]
  BY <1>5, <1>6
<1> HIDE DEF k
<1>9. k \in Parsed(log) /\ log[k].type = "commit" /\ log[k].tx_id = x
  BY <1>7, <1>8 DEF OfTx, OfKind
<1> QED BY <1>8, <1>9

LEMMA PublishedBoot ==
    ASSUME Published, Ordered', Boot
    PROVE  Published'
<1>1. redo_log \in Seq(LogLines) /\ redo_buffer = <<>>
  BY DEF Boot, Published, Ordered, Typed, TypeOK
<1>2. ScnOrdered(redo_log) /\ CommitsNumbered(redo_log)
  <2>1. History = redo_log
    BY <1>1, ConcatEmptySeq DEF History
  <2> QED BY <2>1 DEF Published, Ordered
<1>3. /\ scn' = RecoveredScn(redo_log) /\ scn' \in Nat
      /\ statuses' = RecoveredStatuses(redo_log)
      /\ commit_scns' = RecoveredCommitScns(redo_log)
  BY DEF Boot, NewManager, Ordered, Typed, TypeOK
<1> DEFINE Of(k, x) == /\ k \in Parsed(redo_log)
                       /\ redo_log[k].type = "commit" /\ redo_log[k].tx_id = x
                       /\ redo_log[k].scn = commit_scns'[x]
<1>4. \A x \in TxIds : statuses'[x] = "Committed" => \E k : Of(k, x)
  BY <1>1, <1>3, RecoveredCommit
<1>5. ASSUME NEW x \in TxIds, statuses'[x] = "Committed"
      PROVE  commit_scns'[x] \in 1..scn'
  <2>1. PICK k : Of(k, x)
    BY <1>4, <1>5
  <2>2. redo_log[k].scn >= 1
    BY <1>2, <2>1 DEF CommitsNumbered
  <2>3. redo_log[k].scn \in Nat /\ redo_log[k].scn < scn'
    BY <1>1, <1>3, <2>1, ParsedFields, RecoveredScnAhead
  <2> QED BY <1>3, <2>1, <2>2, <2>3
<1>6. ASSUME NEW x \in TxIds, NEW y \in TxIds \ {x},
             statuses'[x] = "Committed", statuses'[y] = "Committed"
      PROVE  commit_scns'[y] # commit_scns'[x]
  <2>1. PICK i : Of(i, x)
    BY <1>4, <1>6
  <2>2. PICK j : Of(j, y)
    BY <1>4, <1>6
  <2>3. i # j /\ i \in Nat /\ j \in Nat
    BY <1>1, <2>1, <2>2, ParsedFields
  <2>4. redo_log[i].scn \in Nat /\ redo_log[j].scn \in Nat
    BY <1>1, <2>1, <2>2, ParsedFields
  <2>5. redo_log[i].scn < redo_log[j].scn \/ redo_log[j].scn < redo_log[i].scn
    BY <1>2, <2>1, <2>2, <2>3 DEF ScnOrdered
  <2> QED BY <2>1, <2>2, <2>4, <2>5
<1> QED BY <1>5, <1>6 DEF Published, CommitsVisible

LEMMA PublishedCommit ==
    ASSUME Published, Ordered', NEW s \in Sessions, Commit(s)
    PROVE  Published'
<1> DEFINE tx == current_tx_id[s]
<1>1. /\ tx \in TxIds /\ scn \in Nat
      /\ statuses \in [TxIds -> TxStatus] /\ commit_scns \in [TxIds -> Nat]
  BY DEF Commit, Published, Ordered, Typed, TypeOK
<1>2. /\ scn' = scn + 1
      /\ statuses' = [statuses EXCEPT ![tx] = "Committed"]
      /\ commit_scns' = [commit_scns EXCEPT ![tx] = scn + 1]
  BY DEF Commit, commit
<1> HIDE DEF tx
<1>3. ASSUME NEW x \in TxIds, statuses'[x] = "Committed"
      PROVE  /\ x = tx => commit_scns'[x] = scn + 1
             /\ x # tx => /\ commit_scns'[x] = commit_scns[x]
                          /\ commit_scns[x] \in 1..scn
                          /\ statuses[x] = "Committed"
  BY <1>1, <1>2, <1>3 DEF Published, CommitsVisible
<1>4. \A x \in TxIds : statuses'[x] = "Committed" => commit_scns'[x] \in 1..scn'
  BY <1>1, <1>2, <1>3
<1>5. ASSUME NEW x \in TxIds, NEW y \in TxIds \ {x},
             statuses'[x] = "Committed", statuses'[y] = "Committed"
      PROVE  commit_scns'[y] # commit_scns'[x]
  <2>1. CASE x = tx \/ y = tx
    BY <1>1, <1>3, <1>5, <2>1
  <2>2. CASE x # tx /\ y # tx
    BY <1>3, <1>5, <2>2 DEF Published, CommitsVisible
  <2> QED BY <2>1, <2>2
<1> QED BY <1>4, <1>5 DEF Published, CommitsVisible

\* A step that commits nothing.
LEMMA PublishedKept ==
    ASSUME Published, Ordered', UNCHANGED <<scn, commit_scns>>,
           \A x \in TxIds : statuses'[x] = "Committed" => statuses[x] = "Committed"
    PROVE  Published'
BY DEF Published, CommitsVisible

LEMMA PublishedStep == Published /\ [Next]_vars => Published'
<1> SUFFICES ASSUME Published, [Next]_vars PROVE Published'
  OBVIOUS
<1>0. Ordered'
  BY OrderedStep DEF Published
<1>1. CASE Boot
  BY <1>0, <1>1, PublishedBoot
<1>2. CASE Crash \/ \E s \in Sessions : FlushCrash(s)
  <2>1. statuses' = NoStatuses
    BY <1>2 DEF Crash, FlushCrash, Lost, NewManager
  <2> QED BY <1>0, <2>1 DEF Published, CommitsVisible, NoStatuses
<1>3. ASSUME NEW s \in Sessions, Commit(s) PROVE Published'
  BY <1>0, <1>3, PublishedCommit
<1>4. ASSUME NEW s \in Sessions, Begin(s) \/ Rollback(s) PROVE Published'
  <2>1. /\ UNCHANGED <<scn, commit_scns>>
        /\ \E x, k : k # "Committed" /\ statuses' = [statuses EXCEPT ![x] = k]
    <3>1. CASE Begin(s)
      BY <3>1 DEF Begin, begin
    <3>2. CASE Rollback(s)
      BY <3>2 DEF Rollback, rollback
    <3> QED BY <1>4, <3>1, <3>2
  <2>2. statuses \in [TxIds -> TxStatus]
    BY DEF Published, Ordered, Typed, TypeOK
  <2>3. \A x \in TxIds : statuses'[x] = "Committed" => statuses[x] = "Committed"
    BY <2>1, <2>2
  <2> QED BY <1>0, <2>1, <2>3, PublishedKept
<1>5. CASE \/ UNCHANGED vars
           \/ \E s \in Sessions : Query(s) \/ Reconnect(s)
           \/ \E s \in Sessions, t \in Tables, rows \in Inserts : Insert(s, t, rows)
           \/ \E t \in Tables, w \in Widths : CreateTable(t, w)
  <2>1. UNCHANGED <<scn, commit_scns, statuses>>
    BY <1>5 DEF vars, Query, Reconnect, Insert, record_inserts, CreateTable, txVars
  <2> QED BY <1>0, <2>1, PublishedKept
<1> QED BY <1>1, <1>2, <1>3, <1>4, <1>5 DEF Next

\* Every committed transaction has a commit SCN of its own that the clock has
\* reached, so a SELECT that reads the clock now sees it, also when it was
\* committed before a crash (tx.rs: commit, is_visible; recovery.rs).
THEOREM CommittedIsVisible == Spec => []CommitsVisible
<1>1. Init => Published
  BY OrderedInit DEF Init, NoStatuses, Published, CommitsVisible
<1>2. Spec => []Published
  BY <1>1, PublishedStep, PTL DEF Spec
<1>3. Published => CommitsVisible
  BY DEF Published
<1> QED BY <1>2, <1>3, PTL
=============================================================================

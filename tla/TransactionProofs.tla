-------------------------- MODULE TransactionProofs --------------------------
(***************************************************************************)
(* What becomes of transactions.                                           *)
(*   Story: what recovery makes of them, whichever way writes are cut and  *)
(*     however often the server dies, as long as no run of the server      *)
(*     reuses the ids of an earlier one.  The counter restarts at 1 with   *)
(*     every start (tx.rs:70), so NoReuse says that only the first run     *)
(*     begins any.                                                         *)
(*   Undoable: their undo segments and ROLLBACK, when moreover one session *)
(*     inserts into each table; and that committed rows stay.              *)
(*   Fitting: the columns of rows, in the first run of the server.         *)
(*   Ahead: write-ahead logging, by counting rows and records.             *)
(***************************************************************************)
EXTENDS HistoryProofs, FiniteSetTheorems

NoReuse == \A b \in 1..MaxBoots : b > 1 => BeginBudget[b] = 0

Ending == {"commit", "rollback"}

\* A transaction's records in order: nothing of it is before its BEGIN and
\* nothing behind its COMMIT or ROLLBACK.
Whole(log) ==
    \A i, j \in Parsed(log) : i < j /\ log[i].tx_id = log[j].tx_id =>
        log[i].type \notin Ending /\ log[j].type # "begin"

\* The records are of transactions already begun, and those of an open one do
\* not end it.
Current(log) ==
    \A i \in Parsed(log) :
        /\ log[i].tx_id < next_tx_id
        /\ log[i].type \in Ending => statuses[log[i].tx_id] # "Active"

\* The invariant.  After the first run no session is in a transaction, so the
\* history only loses lines.
Story ==
    /\ Owned
    /\ ~up => redo_buffer = <<>>
    /\ boots = 0 => redo_log = <<>>
    /\ Whole(History)
    /\ up /\ boots = 1 => Current(History)
    /\ up /\ boots # 1 => \A s \in Sessions : current_tx_id[s] = NoTx

LEMMA EmbedsWhole ==
    ASSUME NEW new, NEW old, Embeds(new, old), Whole(old)
    PROVE  Whole(new)
<1>1. PICK e : Embedding(e, new, old)
  BY DEF Embeds
<1>2. \A i \in Parsed(new) : e[i] \in Parsed(old) /\ new[i] = old[e[i]]
  BY <1>1 DEF Embedding
<1>3. \A i, j \in Parsed(new) : i < j => e[i] < e[j]
  BY <1>1 DEF Embedding
<1> QED BY <1>2, <1>3 DEF Whole

LEMMA SelfEmbeds ==
    ASSUME NEW log \in Seq(LogLines)
    PROVE  Embeds(log, log)
<1>1. log \o <<>> = log /\ <<>> \in Seq(LogLines)
  BY ConcatEmptySeq
<1> QED BY <1>1, PrefixEmbeds

LEMMA EmbedsCurrent ==
    ASSUME NEW new, NEW old, Embeds(new, old), NEW n, NEW stats,
           \A i \in Parsed(old) : /\ old[i].tx_id < n
                                  /\ old[i].type \in Ending => stats[old[i].tx_id] # "Active"
    PROVE  \A i \in Parsed(new) : /\ new[i].tx_id < n
                                  /\ new[i].type \in Ending => stats[new[i].tx_id] # "Active"
<1>1. PICK e : Embedding(e, new, old)
  BY DEF Embeds
<1>2. \A i \in Parsed(new) : e[i] \in Parsed(old) /\ new[i] = old[e[i]]
  BY <1>1 DEF Embedding
<1> QED BY <1>2

\* Where the records of a longer history come from.
LEMMA ConcatRecords ==
    ASSUME NEW log \in Seq(LogLines), NEW recs \in Seq(RedoRecords)
    PROVE  /\ Len(log) \in Nat /\ Len(recs) \in Nat
           /\ Parsed(log \o recs) \subseteq Nat
           /\ \A i \in Parsed(log \o recs) :
                 \/ i \in Parsed(log) /\ i <= Len(log) /\ (log \o recs)[i] = log[i]
                 \/ /\ i > Len(log) /\ i - Len(log) \in 1..Len(recs)
                    /\ (log \o recs)[i] = recs[i - Len(log)]
<1> DEFINE new == log \o recs
<1>1. recs \in Seq(LogLines) /\ Len(log) \in Nat /\ Len(recs) \in Nat
  BY SeqMonotonic DEF LogLines
<1>2. /\ new \in Seq(LogLines)
      /\ Len(new) = Len(log) + Len(recs)
      /\ \A i \in 1..Len(log) + Len(recs) :
            new[i] = IF i <= Len(log) THEN log[i] ELSE recs[i - Len(log)]
  BY <1>1, ConcatProperties
<1> HIDE DEF new
<1>3. ASSUME NEW i \in Parsed(new)
      PROVE  \/ i \in Parsed(log) /\ i <= Len(log) /\ new[i] = log[i]
             \/ /\ i > Len(log) /\ i - Len(log) \in 1..Len(recs)
                /\ new[i] = recs[i - Len(log)]
  <2>1. i \in 1..Len(log) + Len(recs) /\ new[i] \notin {Garbage, BadUtf8}
    BY <1>2 DEF Parsed
  <2>2. CASE i <= Len(log)
    <3>1. i \in 1..Len(log) /\ new[i] = log[i]
      BY <2>1, <2>2, <1>1, <1>2
    <3> QED BY <3>1, <2>1 DEF Parsed
  <2>3. CASE ~(i <= Len(log))
    <3>1. i - Len(log) \in 1..Len(recs) /\ i > Len(log)
      BY <2>1, <2>3, <1>1
    <3> QED BY <3>1, <2>1, <2>3, <1>2
  <2> QED BY <2>2, <2>3
<1>4. Parsed(new) \subseteq Nat
  BY <1>2, ParsedFields
<1> QED BY <1>1, <1>3, <1>4 DEF new

\* A statement of transaction x adds records behind a history in which x has
\* not ended: inserts, or one record, which is a BEGIN only if x is new.
LEMMA ConcatWhole ==
    ASSUME NEW log \in Seq(LogLines), NEW recs \in Seq(RedoRecords), NEW x,
           Whole(log),
           \A k \in 1..Len(recs) : /\ recs[k].tx_id = x
                                   /\ recs[k].type = "insert" \/ Len(recs) = 1,
           \A i \in Parsed(log) : log[i].tx_id = x =>
               /\ log[i].type \notin Ending
               /\ \A k \in 1..Len(recs) : recs[k].type # "begin"
    PROVE  Whole(log \o recs)
<1> DEFINE new == log \o recs
<1>1. /\ Len(log) \in Nat /\ Len(recs) \in Nat /\ Parsed(new) \subseteq Nat
      /\ \A i \in Parsed(new) :
            \/ i \in Parsed(log) /\ i <= Len(log) /\ new[i] = log[i]
            \/ /\ i > Len(log) /\ i - Len(log) \in 1..Len(recs)
               /\ new[i] = recs[i - Len(log)]
  BY ConcatRecords
<1> HIDE DEF new
<1>2. SUFFICES ASSUME NEW i \in Parsed(new), NEW j \in Parsed(new), i < j,
                      new[i].tx_id = new[j].tx_id
               PROVE  new[i].type \notin Ending /\ new[j].type # "begin"
  BY DEF Whole, new
<1>3. CASE j <= Len(log)
  <2>1. j \in Parsed(log) /\ new[j] = log[j] /\ i \in Parsed(log) /\ new[i] = log[i]
    BY <1>1, <1>2, <1>3
  <2> QED BY <2>1, <1>2 DEF Whole
<1>4. CASE ~(j <= Len(log)) /\ i <= Len(log)
  <2>1. /\ i \in Parsed(log) /\ new[i] = log[i]
        /\ j - Len(log) \in 1..Len(recs) /\ new[j] = recs[j - Len(log)]
    BY <1>1, <1>2, <1>4
  <2>2. log[i].tx_id = x
    BY <2>1, <1>2
  <2> QED BY <2>1, <2>2
<1>5. CASE ~(j <= Len(log)) /\ ~(i <= Len(log))
  <2>1. /\ i - Len(log) \in 1..Len(recs) /\ new[i] = recs[i - Len(log)]
        /\ j - Len(log) \in 1..Len(recs) /\ new[j] = recs[j - Len(log)]
    BY <1>1, <1>2, <1>5
  <2>2. Len(recs) # 1
    BY <1>1, <1>2, <2>1
  <2>3. new[i].type = "insert" /\ new[j].type = "insert"
    BY <2>1, <2>2
  <2> QED BY <2>3 DEF Ending
<1> QED BY <1>3, <1>4, <1>5

LEMMA ConcatCurrent ==
    ASSUME NEW log \in Seq(LogLines), NEW recs \in Seq(RedoRecords), NEW n, NEW stats,
           \A i \in Parsed(log) : /\ log[i].tx_id < n
                                  /\ log[i].type \in Ending => stats[log[i].tx_id] # "Active",
           \A k \in 1..Len(recs) : /\ recs[k].tx_id < n
                                   /\ recs[k].type \in Ending => stats[recs[k].tx_id] # "Active"
    PROVE  \A i \in Parsed(log \o recs) :
               /\ (log \o recs)[i].tx_id < n
               /\ (log \o recs)[i].type \in Ending => stats[(log \o recs)[i].tx_id] # "Active"
<1> SUFFICES ASSUME NEW i \in Parsed(log \o recs)
             PROVE  /\ (log \o recs)[i].tx_id < n
                    /\ (log \o recs)[i].type \in Ending
                          => stats[(log \o recs)[i].tx_id] # "Active"
  OBVIOUS
<1>1. \/ i \in Parsed(log) /\ (log \o recs)[i] = log[i]
      \/ i - Len(log) \in 1..Len(recs) /\ (log \o recs)[i] = recs[i - Len(log)]
  BY ConcatRecords
<1> QED BY <1>1

-----------------------------------------------------------------------------
(***************************************************************************)
(* The step.  Every one leaves a history that embeds in the one before it  *)
(* with the records of one statement behind.                               *)
(***************************************************************************)
LEMMA HistoryTyped ==
    ASSUME Typed
    PROVE  /\ History \in Seq(LogLines)
           /\ redo_buffer = <<>> => History = redo_log
           /\ Embeds(redo_log, History)
           /\ \A recs \in Seq(RedoRecords) :
                 redo_log \o (redo_buffer \o recs) = History \o recs
<1>1. redo_log \in Seq(LogLines) /\ redo_buffer \in Seq(RedoRecords)
  BY DEF Typed, TypeOK
<1>2. redo_buffer \in Seq(LogLines) /\ \A recs \in Seq(RedoRecords) : recs \in Seq(LogLines)
  BY <1>1, SeqMonotonic DEF LogLines
<1>3. History \in Seq(LogLines) /\ Embeds(redo_log, History)
  BY <1>1, <1>2, ConcatProperties, PrefixEmbeds DEF History
<1>4. redo_buffer = <<>> => History = redo_log
  BY <1>1, ConcatEmptySeq DEF History
<1>5. ASSUME NEW recs \in Seq(RedoRecords)
      PROVE  redo_log \o (redo_buffer \o recs) = History \o recs
  <2>1. recs \in Seq(LogLines)
    BY <1>2
  <2> QED BY <1>1, <1>2, <2>1, ConcatAssociative DEF History
<1> QED BY <1>3, <1>4, <1>5

\* Statement records of x behind a history in which x is open, or new.
StoryOf(recs, x) ==
    /\ recs \in Seq(RedoRecords)
    /\ \A k \in 1..Len(recs) : /\ recs[k].tx_id = x
                               /\ recs[k].type = "insert" \/ Len(recs) = 1
    /\ \/ /\ statuses[x] = "Active"
          /\ \A k \in 1..Len(recs) : recs[k].type # "begin"
       \/ x = next_tx_id

LEMMA StoryWhole ==
    ASSUME Story, up, boots = 1, NEW recs, NEW x, StoryOf(recs, x)
    PROVE  Whole(History \o recs)
<1>1. History \in Seq(LogLines) /\ next_tx_id \in Nat
  BY HistoryTyped DEF Story, Owned, Typed, TypeOK
<1>2. Whole(History) /\ Current(History)
  BY DEF Story
<1>3. ASSUME NEW i \in Parsed(History), History[i].tx_id = x
      PROVE  History[i].type \notin Ending /\ \A k \in 1..Len(recs) : recs[k].type # "begin"
  <2>1. x < next_tx_id /\ (History[i].type \in Ending => statuses[x] # "Active")
    BY <1>2, <1>3 DEF Current
  <2>2. x # next_tx_id
    BY <2>1, <1>1
  <2> QED BY <2>1, <2>2 DEF StoryOf
<1>4. /\ recs \in Seq(RedoRecords)
      /\ \A k \in 1..Len(recs) : /\ recs[k].tx_id = x
                                 /\ recs[k].type = "insert" \/ Len(recs) = 1
  BY DEF StoryOf
<1> QED BY <1>1, <1>2, <1>3, <1>4, ConcatWhole

\* A step that leaves a running server in its first run.
LEMMA StoryGrown ==
    ASSUME Story, Owned', up, boots = 1, up', boots' = 1, NEW recs, NEW x,
           StoryOf(recs, x), x < next_tx_id', next_tx_id <= next_tx_id',
           Embeds(History', History \o recs),
           \A k \in 1..Len(recs) : recs[k].type \in Ending => statuses'[x] # "Active",
           \A y \in TxIds : y # x /\ statuses[y] # "Active" => statuses'[y] # "Active",
           x # next_tx_id /\ statuses[x] # "Active" => statuses'[x] # "Active"
    PROVE  Story'
<1>1. Whole(History')
  BY StoryWhole, EmbedsWhole
<1>2. /\ History \in Seq(LogLines) /\ recs \in Seq(RedoRecords)
      /\ next_tx_id \in Nat /\ next_tx_id' \in Nat
  BY HistoryTyped DEF Story, Owned, Typed, TypeOK, StoryOf
<1>3. ASSUME NEW i \in Parsed(History)
      PROVE  /\ History[i].tx_id < next_tx_id'
             /\ History[i].type \in Ending => statuses'[History[i].tx_id] # "Active"
  <2>1. /\ History[i].tx_id < next_tx_id
        /\ History[i].type \in Ending => statuses[History[i].tx_id] # "Active"
    BY DEF Story, Current
  <2>2. History[i].tx_id \in TxIds /\ History[i].tx_id \in Nat
    BY <1>2, ParsedFields, LogAssumption
  <2> QED BY <1>2, <2>1, <2>2
<1>4. \A k \in 1..Len(recs) : /\ recs[k].tx_id < next_tx_id'
                              /\ recs[k].type \in Ending => statuses'[recs[k].tx_id] # "Active"
  BY DEF StoryOf
<1>5. \A i \in Parsed(History \o recs) :
         /\ (History \o recs)[i].tx_id < next_tx_id'
         /\ (History \o recs)[i].type \in Ending
               => statuses'[(History \o recs)[i].tx_id] # "Active"
  BY <1>2, <1>3, <1>4, ConcatCurrent
<1>6. Current(History)'
  <2>1. \A i \in Parsed(History') :
           /\ History'[i].tx_id < next_tx_id'
           /\ History'[i].type \in Ending => statuses'[History'[i].tx_id] # "Active"
    BY <1>5, EmbedsCurrent
  <2> QED BY <2>1 DEF Current
<1> QED BY <1>1, <1>6 DEF Story

\* A step that ends with the server down, or with no transaction in a later run.
LEMMA StoryEnds ==
    ASSUME Owned', boots' # 0, Whole(History'),
           \/ ~up' /\ redo_buffer' = <<>>
           \/ up' /\ boots' # 1 /\ \A s \in Sessions : current_tx_id'[s] = NoTx
    PROVE  Story'
BY DEF Story

\* A step that touches neither the history, the statuses nor the counter.
LEMMA StoryKept ==
    ASSUME Story, Owned',
           UNCHANGED <<redo_log, redo_buffer, up, boots, statuses, next_tx_id>>,
           \A s \in Sessions : current_tx_id'[s] \in {current_tx_id[s], NoTx}
    PROVE  Story'
<1>1. History' = History
  BY DEF History
<1>2. up /\ boots = 1 => Current(History)'
  BY <1>1 DEF Story, Current
<1> QED BY <1>1, <1>2 DEF Story, Whole

LEMMA StoryBegin ==
    ASSUME NoReuse, Story, Owned', NEW s \in Sessions, Begin(s)
    PROVE  Story'
<1> DEFINE rec == StatusRecord("begin", next_tx_id, scn)
           recs == <<rec>>
<1>1. /\ next_tx_id \in TxIds /\ scn \in Nat /\ next_tx_id \in Nat \ {0}
      /\ redo_log \in Seq(LogLines) /\ redo_buffer \in Seq(RedoRecords)
      /\ boots \in 1..MaxBoots /\ next_tx_id <= BeginBudget[boots]
  <2>1. Typed /\ next_tx_id \in TxIds
    BY BeginTyped DEF Story, Owned
  <2>2. up /\ next_tx_id <= BeginBudget[boots]
    BY DEF Begin
  <2> QED BY <2>1, <2>2, DatabaseAssumption DEF Typed, TypeOK
<1>2. boots = 1
  <2>1. BeginBudget[boots] # 0
    BY <1>1
  <2> QED BY <1>1, <2>1 DEF NoReuse
<1>3. /\ redo_log' = redo_log /\ redo_buffer' = Append(redo_buffer, rec)
      /\ next_tx_id' = next_tx_id + 1 /\ up /\ up' = up /\ boots' = boots
      /\ statuses' = [statuses EXCEPT ![next_tx_id] = "Active"]
  BY DEF Begin, begin, procVars
<1>4. rec \in RedoRecords /\ rec.tx_id = next_tx_id /\ rec.type = "begin"
  BY <1>1, RecordTypes DEF StatusRecord
<1> HIDE DEF rec
<1>5. /\ recs \in Seq(RedoRecords) /\ Len(recs) = 1 /\ recs[1] = rec
      /\ Append(redo_buffer, rec) = redo_buffer \o recs
  BY <1>1, <1>4, AppendIsConcat
<1> HIDE DEF recs
<1>6. StoryOf(recs, next_tx_id)
  BY <1>4, <1>5 DEF StoryOf
<1>7. Embeds(History', History \o recs)
  <2>1. History' = History \o recs
    BY <1>3, <1>5, HistoryTyped DEF Story, Owned, History
  <2>2. History \o recs \in Seq(LogLines)
    <3>1. History \in Seq(LogLines) /\ recs \in Seq(LogLines)
      BY <1>5, HistoryTyped, SeqMonotonic DEF Story, Owned, LogLines
    <3> QED BY <3>1, ConcatProperties
  <2> QED BY <2>1, <2>2, SelfEmbeds
<1>8. statuses \in [TxIds -> TxStatus]
  BY DEF Story, Owned, Typed, TypeOK
<1>9. \A k \in 1..Len(recs) : recs[k].type \notin Ending
  BY <1>4, <1>5 DEF Ending
<1> QED BY <1>1, <1>2, <1>3, <1>6, <1>7, <1>8, <1>9, StoryGrown

\* COMMIT and ROLLBACK, and the crash inside their flush: the buffer gets the
\* transaction's last record and the file gets what is written of it.
LEMMA LastRecord ==
    ASSUME Story, up, NEW s \in Sessions, current_tx_id[s] # NoTx,
           NEW rec \in RedoRecords, rec.tx_id = current_tx_id[s], rec.type \in Ending
    PROVE  /\ boots = 1 /\ current_tx_id[s] \in TxIds
           /\ StoryOf(<<rec>>, current_tx_id[s])
           /\ redo_log \o Append(redo_buffer, rec) = History \o <<rec>>
<1> DEFINE recs == <<rec>>
<1>1. /\ redo_buffer \in Seq(RedoRecords) /\ current_tx_id[s] \in TxIds
      /\ statuses[current_tx_id[s]] = "Active"
  BY DEF Story, Owned, Typed, TypeOK, TxOwnedOnce
<1>2. boots = 1
  BY DEF Story
<1>3. /\ recs \in Seq(RedoRecords) /\ Len(recs) = 1 /\ recs[1] = rec
      /\ Append(redo_buffer, rec) = redo_buffer \o recs
  BY <1>1, AppendIsConcat
<1> HIDE DEF recs
<1>4. StoryOf(recs, current_tx_id[s])
  BY <1>1, <1>3 DEF StoryOf, Ending
<1>5. redo_log \o (redo_buffer \o recs) = History \o recs
  BY <1>3, HistoryTyped DEF Story, Owned
<1> QED BY <1>1, <1>2, <1>3, <1>4, <1>5 DEF recs

LEMMA EndingRecords ==
    ASSUME Typed, NEW tx \in TxIds
    PROVE  \A buffer \in {commit_buffer(tx), rollback_buffer(tx)} :
              \E rec \in RedoRecords : /\ rec.tx_id = tx /\ rec.type \in Ending
                                       /\ buffer = Append(redo_buffer, rec)
<1>1. scn \in Nat /\ scn + 1 \in Nat
  BY DEF Typed, TypeOK
<1> DEFINE c == StatusRecord("commit", tx, scn + 1)
           r == StatusRecord("rollback", tx, scn)
<1>2. /\ c \in RedoRecords /\ c.tx_id = tx /\ c.type \in Ending
      /\ r \in RedoRecords /\ r.tx_id = tx /\ r.type \in Ending
  BY <1>1, RecordTypes DEF StatusRecord, Ending
<1>3. commit_buffer(tx) = Append(redo_buffer, c) /\ rollback_buffer(tx) = Append(redo_buffer, r)
  BY DEF commit_buffer, rollback_buffer
<1> HIDE DEF c, r
<1> QED BY <1>2, <1>3

LEMMA StoryEnding ==
    ASSUME Story, Owned', NEW s \in Sessions, Commit(s) \/ Rollback(s)
    PROVE  Story'
<1> DEFINE tx == current_tx_id[s]
<1>1. /\ up /\ up' = up /\ boots' = boots /\ tx # NoTx
      /\ next_tx_id' = next_tx_id
      /\ \E k \in {"Committed", "RolledBack"} : statuses' = [statuses EXCEPT ![tx] = k]
      /\ \E buffer \in {commit_buffer(tx), rollback_buffer(tx)} : lgwr_flush(buffer)
  BY DEF Commit, commit, Rollback, rollback, procVars
<1>2. /\ tx \in TxIds /\ Typed /\ statuses \in [TxIds -> TxStatus]
      /\ tx < next_tx_id /\ next_tx_id \in Nat
  BY <1>1 DEF Story, Owned, TxOwnedOnce, Typed, TypeOK
<1>3. PICK buffer \in {commit_buffer(tx), rollback_buffer(tx)} : lgwr_flush(buffer)
  BY <1>1
<1>4. PICK rec \in RedoRecords : /\ rec.tx_id = tx /\ rec.type \in Ending
                                 /\ buffer = Append(redo_buffer, rec)
  BY <1>2, <1>3, EndingRecords
<1>5. buffer \in Seq(RedoRecords)
  BY <1>2, <1>3, BufferTypes
<1> HIDE DEF tx
<1>6. boots = 1 /\ StoryOf(<<rec>>, tx) /\ redo_log \o buffer = History \o <<rec>>
  BY <1>1, <1>4, LastRecord DEF tx
<1>7. redo_buffer' = <<>> /\ Embeds(redo_log', redo_log \o buffer)
  BY <1>2, <1>3, <1>5, FlushTyped
<1>8. History' = redo_log'
  <2>1. redo_log' \in Seq(LogLines)
    BY DEF Owned, Typed, TypeOK
  <2> QED BY <2>1, <1>7, ConcatEmptySeq DEF History
<1>9. /\ statuses'[tx] # "Active"
      /\ \A y \in TxIds : y # tx => statuses'[y] = statuses[y]
  BY <1>1, <1>2
<1> DEFINE recs == <<rec>>
<1>10. StoryOf(recs, tx) /\ Embeds(History', History \o recs)
  BY <1>6, <1>7, <1>8
<1> HIDE DEF recs
<1> QED BY <1>1, <1>2, <1>6, <1>9, <1>10, StoryGrown

LEMMA StoryFlushCrash ==
    ASSUME Story, Owned', NEW s \in Sessions, FlushCrash(s)
    PROVE  Story'
<1> DEFINE tx == current_tx_id[s]
<1>1. up /\ up' = FALSE /\ redo_buffer' = <<>> /\ boots' = boots /\ tx # NoTx
  BY DEF FlushCrash, Lost, NewManager
<1>2. tx \in TxIds /\ Typed
  BY <1>1 DEF Story, Owned, Typed, TypeOK
<1>3. PICK buffer \in {commit_buffer(tx), rollback_buffer(tx)} :
         \E outcomes : WroteRecords(buffer, outcomes)
  BY <1>2, CrashWrites
<1>4. PICK rec \in RedoRecords : /\ rec.tx_id = tx /\ rec.type \in Ending
                                 /\ buffer = Append(redo_buffer, rec)
  BY <1>2, <1>3, EndingRecords
<1>5. buffer \in Seq(RedoRecords)
  BY <1>2, <1>3, BufferTypes
<1> HIDE DEF tx
<1> DEFINE recs == <<rec>>
<1>6. boots = 1 /\ StoryOf(recs, tx) /\ redo_log \o buffer = History \o recs
  BY <1>1, <1>4, LastRecord DEF tx
<1>7. Embeds(redo_log', redo_log \o buffer)
  BY <1>2, <1>3, WroteEffect
<1>8. History' = redo_log'
  <2>1. redo_log' \in Seq(LogLines)
    BY DEF Owned, Typed, TypeOK
  <2> QED BY <2>1, <1>1, ConcatEmptySeq DEF History
<1> HIDE DEF recs
<1>9. Whole(History \o recs)
  BY <1>1, <1>6, StoryWhole
<1>10. Whole(History')
  BY <1>6, <1>7, <1>8, <1>9, EmbedsWhole
<1> QED BY <1>1, <1>6, <1>10, StoryEnds

LEMMA StoryInsert ==
    ASSUME Story, Owned', NEW s \in Sessions, NEW t \in Tables, NEW rows \in Inserts,
           Insert(s, t, rows)
    PROVE  Story'
<1>1. PICK n \in 1..Len(rows) :
         IF current_tx_id[s] = NoTx
         THEN UNCHANGED <<logVars, txVars>>
         ELSE record_inserts(current_tx_id[s], t, SubSeq(rows, 1, n), Len(tables[t]))
  BY DEF Insert
<1>2. /\ up /\ up' = up /\ boots' = boots /\ current_tx_id' = current_tx_id
      /\ current_tx_id \in [Sessions -> TxIds \cup {NoTx}]
  BY DEF Insert, procVars, sessionVars, Story, Owned, Typed, TypeOK
<1>3. CASE current_tx_id[s] = NoTx
  BY <1>1, <1>2, <1>3, StoryKept DEF logVars, txVars
<1>4. CASE current_tx_id[s] # NoTx
  <2> DEFINE new == SubSeq(rows, 1, n)
             tx == current_tx_id[s]
             recs == [i \in DOMAIN new |-> InsertRecord(tx, scn, t, new[i])]
  <2>1. /\ tx \in TxIds /\ scn \in Nat /\ Typed
        /\ tx < next_tx_id /\ next_tx_id \in Nat /\ statuses[tx] = "Active" /\ boots = 1
    BY <1>2, <1>4 DEF Story, Owned, TxOwnedOnce, Typed, TypeOK
  <2>2. rows \in Seq(Values) /\ n \in 1..Len(rows)
    BY DatabaseAssumption
  <2>3. new \in Seq(Values) /\ DOMAIN new = 1..Len(new) /\ Len(new) \in Nat
    BY <2>2
  <2>4. /\ redo_buffer' = redo_buffer \o recs
        /\ UNCHANGED <<redo_log, statuses, next_tx_id>>
    BY <1>1, <1>4 DEF record_inserts
  <2> HIDE DEF new, tx
  <2>5. \A i \in 1..Len(new) : /\ InsertRecord(tx, scn, t, new[i]) \in RedoRecords
                               /\ InsertRecord(tx, scn, t, new[i]).tx_id = tx
                               /\ InsertRecord(tx, scn, t, new[i]).type = "insert"
    <3>1. \A i \in 1..Len(new) : new[i] \in Values
      BY <2>3
    <3> QED BY <3>1, <2>1, RecordTypes DEF InsertRecord
  <2>6. recs \in Seq(RedoRecords) /\ Len(recs) = Len(new)
        /\ \A i \in 1..Len(new) : recs[i] = InsertRecord(tx, scn, t, new[i])
    BY <2>3, <2>5
  <2> HIDE DEF recs
  <2>7. \A k \in 1..Len(recs) : recs[k].tx_id = tx /\ recs[k].type = "insert"
    BY <2>5, <2>6
  <2>8. StoryOf(recs, tx)
    BY <2>1, <2>6, <2>7 DEF StoryOf
  <2>9. History' = History \o recs
    BY <2>1, <2>4, <2>6, HistoryTyped DEF History
  <2>10. Embeds(History', History \o recs)
    <3>1. History \in Seq(LogLines) /\ recs \in Seq(LogLines)
      BY <2>1, <2>6, HistoryTyped, SeqMonotonic DEF LogLines
    <3>2. History \o recs \in Seq(LogLines)
      BY <3>1, ConcatProperties
    <3> QED BY <2>9, <3>2, SelfEmbeds
  <2>11. \A k \in 1..Len(recs) : recs[k].type \notin Ending
    BY <2>7 DEF Ending
  <2>12. /\ up /\ up' /\ boots = 1 /\ boots' = 1
         /\ tx < next_tx_id' /\ next_tx_id <= next_tx_id' /\ statuses' = statuses
    BY <1>2, <2>1, <2>4
  <2> QED BY <2>8, <2>10, <2>11, <2>12, StoryGrown
<1> QED BY <1>3, <1>4

LEMMA StoryBoot ==
    ASSUME Story, Owned', Boot
    PROVE  Story'
<1>1. /\ ~up /\ redo_buffer = <<>> /\ redo_log' = redo_log /\ redo_buffer' = <<>>
      /\ up' = TRUE /\ boots' = boots + 1 /\ boots \in Nat
      /\ \A s \in Sessions : current_tx_id'[s] = NoTx
  BY DatabaseAssumption
     DEF Story, Boot, NewManager, NoSessions, logVars, Owned, Typed, TypeOK
<1>2. History' = History
  BY <1>1 DEF History
<1>3. Whole(History')
  BY <1>2 DEF Story
<1>4. CASE boots = 0
  <2>1. redo_log = <<>> /\ History = <<>>
    BY <1>1, <1>4 DEF Story, History
  <2>2. Parsed(History') = {}
    BY <1>2, <2>1 DEF Parsed
  <2> QED BY <1>1, <1>3, <1>4, <2>2 DEF Story, Current
<1>5. CASE boots # 0
  BY <1>1, <1>3, <1>5, StoryEnds
<1> QED BY <1>4, <1>5

LEMMA StoryCrash ==
    ASSUME Story, Owned', Crash
    PROVE  Story'
<1>1. up /\ up' = FALSE /\ redo_buffer' = <<>> /\ redo_log' = redo_log /\ boots' = boots
  BY DEF Crash, Lost, NewManager, logVars
<1>2. boots # 0 /\ redo_log \in Seq(LogLines)
  BY <1>1 DEF Story, Owned, Typed, TypeOK
<1>3. History' = redo_log
  BY <1>1, <1>2, ConcatEmptySeq DEF History
<1>4. Whole(History')
  BY <1>3, HistoryTyped, EmbedsWhole DEF Story, Owned
<1> QED BY <1>1, <1>2, <1>4, StoryEnds

LEMMA StoryStep == ASSUME NoReuse PROVE Story /\ [Next]_vars => Story'
<1> SUFFICES ASSUME Story, [Next]_vars PROVE Story'
  OBVIOUS
<1>0. Owned'
  BY OwnedStep DEF Story
<1>1. CASE Boot
  BY <1>0, <1>1, StoryBoot
<1>2. CASE Crash
  BY <1>0, <1>2, StoryCrash
<1>3. ASSUME NEW s \in Sessions, Begin(s) PROVE Story'
  BY <1>0, <1>3, StoryBegin
<1>4. ASSUME NEW s \in Sessions, Commit(s) \/ Rollback(s) PROVE Story'
  BY <1>0, <1>4, StoryEnding
<1>5. ASSUME NEW s \in Sessions, FlushCrash(s) PROVE Story'
  BY <1>0, <1>5, StoryFlushCrash
<1>6. ASSUME NEW s \in Sessions, NEW t \in Tables, NEW rows \in Inserts,
             Insert(s, t, rows)
      PROVE  Story'
  BY <1>0, <1>6, StoryInsert
<1>7. CASE \/ UNCHANGED vars
           \/ \E s \in Sessions : Query(s) \/ Reconnect(s)
           \/ \E t \in Tables, w \in Widths : CreateTable(t, w)
  <2>1. /\ UNCHANGED <<redo_log, redo_buffer, up, boots, statuses, next_tx_id>>
        /\ \/ current_tx_id' = current_tx_id
           \/ \E s \in Sessions : current_tx_id' = [current_tx_id EXCEPT ![s] = NoTx]
    BY <1>7 DEF vars, Query, Reconnect, CreateTable, logVars, txVars, procVars, sessionVars
  <2>2. current_tx_id \in [Sessions -> TxIds \cup {NoTx}]
    BY DEF Story, Owned, Typed, TypeOK
  <2>3. \A s \in Sessions : current_tx_id'[s] \in {current_tx_id[s], NoTx}
    BY <2>1, <2>2
  <2> QED BY <1>0, <2>1, <2>3, StoryKept
<1> QED BY <1>1, <1>2, <1>3, <1>4, <1>5, <1>6, <1>7 DEF Next

LEMMA StoryInit == Init => Story
<1> SUFFICES ASSUME Init PROVE Story
  OBVIOUS
<1>1. Owned
  BY TypedInit DEF Init, Owned, TxOwnedOnce
<1>2. /\ redo_log = <<>> /\ redo_buffer = <<>> /\ ~up /\ boots = 0
  BY DEF Init
<1>3. Parsed(History) = {}
  BY <1>2 DEF History, Parsed
<1> QED BY <1>1, <1>2, <1>3 DEF Story, Whole

LEMMA AlwaysStory == ASSUME NoReuse PROVE Spec => []Story
<1>1. Story /\ [Next]_vars => Story'
  BY StoryStep
<1> QED BY StoryInit, <1>1, PTL DEF Spec

-----------------------------------------------------------------------------
(***************************************************************************)
(* In a log of whole transactions a commit record follows all records of   *)
(* its transaction, so the sets of ids that recover() collects say the     *)
(* same as the order of the records.                                       *)
(***************************************************************************)
LEMMA WholeLog ==
    ASSUME Story
    PROVE  redo_log \in Seq(LogLines) /\ Whole(redo_log)
BY HistoryTyped, EmbedsWhole DEF Story, Owned, Typed, TypeOK

LEMMA WholeKinds ==
    ASSUME NEW log \in Seq(LogLines), Whole(log),
           NEW i \in OfKind(log, {"insert"}), NEW j \in OfTx(log, log[i].tx_id, {"commit"})
    PROVE  /\ i < j
           /\ \A k \in OfTx(log, log[i].tx_id, {"begin", "rollback"}) : ~(i < k)  \/ ~(k < j)
           /\ OfTx(log, log[i].tx_id, {"rollback"}) = {}
<1> DEFINE x == log[i].tx_id
<1>1. /\ i \in Parsed(log) /\ log[i].type = "insert"
      /\ j \in Parsed(log) /\ log[j].type = "commit" /\ log[j].tx_id = x
  BY OfKindParsed DEF OfTx, OfKind
<1>2. \A k \in OfTx(log, x, {"begin", "rollback"}) :
         /\ k \in Parsed(log) /\ log[k].type \in {"begin", "rollback"} /\ log[k].tx_id = x
  BY OfKindParsed DEF OfTx, OfKind
<1>3. Parsed(log) \subseteq Nat
  BY ParsedFields
<1> HIDE DEF x
<1>4. log[i].tx_id = x
  BY DEF x
<1>5. i < j
  <2>1. ~(j < i) /\ i # j
    BY <1>1, <1>4 DEF Whole, Ending
  <2> QED BY <2>1, <1>1, <1>3
<1>6. \A k \in OfTx(log, x, {"begin", "rollback"}) : ~(i < k) \/ ~(k < j)
  BY <1>1, <1>2, <1>4 DEF Whole, Ending
<1>7. OfTx(log, x, {"rollback"}) = {}
  <2>1. SUFFICES ASSUME NEW k \in OfTx(log, x, {"rollback"}) PROVE FALSE
    OBVIOUS
  <2>2. k \in Parsed(log) /\ log[k].type = "rollback" /\ log[k].tx_id = x
    BY OfKindParsed DEF OfTx, OfKind
  <2>3. ~(k < j) /\ ~(j < k) /\ k # j
    BY <1>1, <2>2 DEF Whole, Ending
  <2> QED BY <2>2, <2>3, <1>1, <1>3
<1> QED BY <1>5, <1>6, <1>7 DEF x

\* When no transaction id is used twice, the next boot brings back no row of a
\* transaction that did not commit (README.md:44), wherever crashes and a
\* failing disk cut the log.
THEOREM UncommittedAreDropped ==
    ASSUME NoReuse
    PROVE  Spec => []RecoveryDropsUncommitted
<1>1. ASSUME Story PROVE RecoveryDropsUncommitted
  <2>1. redo_log \in Seq(LogLines) /\ Whole(redo_log)
    BY <1>1, WholeLog
  <2>2. SUFFICES ASSUME NEW t \in Tables, NEW i \in Replayed(redo_log, t)
                 PROVE  BelongsToCommitted(redo_log, i)
    BY DEF RecoveryDropsUncommitted
  <2>3. i \in OfKind(redo_log, {"insert"}) /\ redo_log[i].tx_id \in committed(redo_log)
    BY DEF Replayed, Kept
  <2>4. PICK j \in OfTx(redo_log, redo_log[i].tx_id, {"commit"}) : TRUE
    BY <2>3 DEF committed, OfTx
  <2> QED BY <2>1, <2>3, <2>4, WholeKinds DEF BelongsToCommitted
<1>2. Spec => []Story
  BY AlwaysStory
<1> QED BY <1>1, <1>2, PTL

\* And it brings back every row of one that did, as far as its records are
\* readable (README.md:256).
THEOREM CommittedAreKept ==
    ASSUME NoReuse
    PROVE  Spec => []RecoveryKeepsCommitted
<1>1. ASSUME Story PROVE RecoveryKeepsCommitted
  <2>1. redo_log \in Seq(LogLines) /\ Whole(redo_log)
    BY <1>1, WholeLog
  <2>2. SUFFICES ASSUME NEW i \in OfKind(redo_log, {"insert"}),
                        BelongsToCommitted(redo_log, i)
                 PROVE  i \in Replayed(redo_log, redo_log[i].table)
    BY DEF RecoveryKeepsCommitted
  <2>3. PICK j \in OfTx(redo_log, redo_log[i].tx_id, {"commit"}) : TRUE
    BY <2>2 DEF BelongsToCommitted
  <2>4. OfTx(redo_log, redo_log[i].tx_id, {"rollback"}) = {}
    BY <2>1, <2>3, WholeKinds
  <2>5. redo_log[i].tx_id \in Kept(redo_log)
    BY <2>3, <2>4 DEF Kept, committed, rolled_back, OfTx
  <2> QED BY <2>5 DEF Replayed
<1>2. Spec => []Story
  BY AlwaysStory
<1> QED BY <1>1, <1>2, PTL

-----------------------------------------------------------------------------
(***************************************************************************)
(* The undo loop.  The rows of an open transaction are the last rows of    *)
(* their tables, and its undo records name them in the order they were     *)
(* inserted; read backwards they take the rows off, one by one.            *)
(***************************************************************************)
Places(undo, n, t) == {undo[k].row_idx : k \in {k \in 1..n : undo[k].table = t}}

LastRows(rows, undo, x, t, m) ==
    /\ m \in 0..Len(rows)
    /\ \A i \in 1..Len(rows) : rows[i].tx_id = x <=> i > m
    /\ Places(undo, Len(undo), t) = (m + 1)..Len(rows)
    /\ \A j, k \in 1..Len(undo) :
          j < k /\ undo[j].table = t /\ undo[k].table = t
              => undo[j].row_idx < undo[k].row_idx

LEMMA PlacesOneMore ==
    ASSUME NEW undo \in Seq(UndoRecord), NEW n \in 1..Len(undo), NEW t
    PROVE  /\ undo[n].table = t => Places(undo, n, t) = Places(undo, n - 1, t) \cup {undo[n].row_idx}
           /\ undo[n].table # t => Places(undo, n, t) = Places(undo, n - 1, t)
<1>1. 1..n = 1..(n - 1) \cup {n}
  OBVIOUS
<1> QED BY <1>1 DEF Places

\* Taking the last row off.
LEMMA RemoveLast ==
    ASSUME NEW s \in Seq(Row), NEW c \in 1..Len(s)
    PROVE  /\ Len(SubSeq(s, 1, c)) = c
           /\ RemoveAt(SubSeq(s, 1, c), c) = SubSeq(s, 1, c - 1)
<1> DEFINE r == SubSeq(s, 1, c)
<1>1. /\ r \in Seq(Row) /\ Len(r) = c
      /\ SubSeq(r, 1, c - 1) = SubSeq(s, 1, c - 1) /\ SubSeq(r, c + 1, c) = <<>>
  OBVIOUS
<1>2. SubSeq(s, 1, c - 1) \in Seq(Row)
  OBVIOUS
<1> HIDE DEF r
<1>3. RemoveAt(r, c) = SubSeq(s, 1, c - 1) \o <<>>
  BY <1>1 DEF RemoveAt
<1> QED BY <1>1, <1>2, <1>3, ConcatEmptySeq DEF r

\* The undo loop cuts every table to its first rows.
LastRowsOf(tbls, undo, x, m) == \A t \in Tables : LastRows(tbls[t], undo, x, t, m[t])
FirstParts(tbls, undo, m) == \A t \in Tables : Undone(tbls, undo)[t] = SubSeq(tbls[t], 1, m[t])

LEMMA UndoneLastRows ==
    ASSUME NEW tbls \in [Tables -> Seq(Row)], NEW undo \in Seq(UndoRecord), NEW x,
           NEW m, LastRowsOf(tbls, undo, x, m)
    PROVE  FirstParts(tbls, undo, m)
<1> DEFINE TS == [Tables -> Seq(Row)]
           len == Len(undo)
           Cut(y, t, c, n) == /\ c \in m[t]..Len(tbls[t])
                              /\ y[t] = SubSeq(tbls[t], 1, c)
                              /\ Places(undo, n, t) = (m[t] + 1)..c
           A == [k \in 0..len |-> {y \in TS : \A t \in Tables : \E c : Cut(y, t, c, len - k)}]
<1>0. \A t \in Tables : LastRows(tbls[t], undo, x, t, m[t])
  BY DEF LastRowsOf
<1>1. len \in Nat /\ \A t \in Tables : tbls[t] \in Seq(Row) /\ Len(tbls[t]) \in Nat
                                       /\ m[t] \in 0..Len(tbls[t])
  BY <1>0 DEF LastRows
<1>2. tbls \in A[0]
  <2>1. ASSUME NEW t \in Tables PROVE Cut(tbls, t, Len(tbls[t]), len)
    <3>1. SubSeq(tbls[t], 1, Len(tbls[t])) = tbls[t]
      BY <1>1
    <3> QED BY <1>0, <3>1, <1>1 DEF LastRows
  <2>2. 0 \in 0..len /\ len - 0 = len
    BY <1>1
  <2> HIDE DEF Cut, len
  <2> QED BY <2>1, <2>2
<1>3. ASSUME NEW k \in 1..len, NEW y \in TS, y \in A[k - 1]
      PROVE  RemoveRow(y, undo[len + 1 - k]) \in A[k]
  <2> DEFINE n == len + 1 - k
             rec == undo[n]
             z == RemoveRow(y, rec)
  <2>1. n \in 1..len /\ len - (k - 1) = n /\ len - k = n - 1 /\ k \in 0..len /\ k - 1 \in 0..len
    BY <1>1
  <2> HIDE DEF n
  <2>2. \A t \in Tables : \E c : Cut(y, t, c, n)
    <3> HIDE DEF Cut, TS, len
    <3> DEFINE h == k - 1
    <3>1. h \in 0..len /\ y \in A[h] /\ len - h = n
      BY <1>3, <2>1
    <3> HIDE DEF h
    <3>2. y \in {v \in TS : \A t \in Tables : \E c : Cut(v, t, c, len - h)}
      BY <3>1, Zenon
    <3>3. \A t \in Tables : \E c : Cut(y, t, c, len - h)
      BY <3>2
    <3> QED BY <3>1, <3>3
  <2>3. rec \in UndoRecord /\ rec.table \in Tables /\ rec.row_idx \in Nat \ {0}
    <3>1. rec \in UndoRecord
      BY <2>1
    <3> QED BY <3>1 DEF UndoRecord
  <2>4. z \in TS
    BY <2>3, RemoveRowType
  <2>5. ASSUME NEW t \in Tables, t # rec.table PROVE \E c : Cut(z, t, c, n - 1)
    <3>1. PICK c : Cut(y, t, c, n)
      BY <2>2
    <3>2. z[t] = y[t]
      BY <2>3, <2>5 DEF RemoveRow
    <3>3. Places(undo, n, t) = Places(undo, n - 1, t)
      BY <2>1, <2>5, PlacesOneMore
    <3> QED BY <3>1, <3>2, <3>3
  <2>6. \E c : Cut(z, rec.table, c, n - 1)
    <3> DEFINE t == rec.table
               i == rec.row_idx
    <3>1. PICK c : Cut(y, t, c, n)
      BY <2>2, <2>3
    <3>2. Places(undo, n, t) = Places(undo, n - 1, t) \cup {i}
      <4>1. n \in 1..Len(undo) /\ undo[n].table = t /\ undo[n].row_idx = i
        BY <2>1
      <4> HIDE DEF t, i
      <4>2. Places(undo, n, t) = Places(undo, n - 1, t) \cup {undo[n].row_idx}
        BY <4>1, PlacesOneMore
      <4> QED BY <4>1, <4>2
    <3>3. \A j \in Places(undo, n - 1, t) : j < i
      <4>1. \A q \in 1..len : q < n /\ undo[q].table = t => undo[q].row_idx < i
        BY <1>0, <2>1, <2>3 DEF LastRows
      <4>2. \A q \in 1..(n - 1) : q \in 1..len /\ q < n
        BY <2>1
      <4> QED BY <4>1, <4>2 DEF Places
    <3> HIDE DEF i, t
    <3>4. /\ t \in Tables /\ m[t] \in Nat /\ c \in m[t]..Len(tbls[t])
          /\ tbls[t] \in Seq(Row) /\ Len(tbls[t]) \in Nat
          /\ (m[t] + 1)..c = Places(undo, n - 1, t) \cup {i}
      <4>1. t \in Tables
        BY <2>3 DEF t
      <4>2. m[t] \in 0..Len(tbls[t]) /\ tbls[t] \in Seq(Row) /\ Len(tbls[t]) \in Nat
        BY <4>1, <1>1
      <4>3. c \in m[t]..Len(tbls[t]) /\ Places(undo, n, t) = (m[t] + 1)..c
        BY <3>1
      <4> QED BY <4>1, <4>2, <4>3, <3>2
    <3>5. i \in (m[t] + 1)..c /\ c \in (m[t] + 1)..c
      <4>1. i \in Places(undo, n - 1, t) \cup {i}
        OBVIOUS
      <4>2. i \in (m[t] + 1)..c
        BY <3>4, <4>1
      <4> QED BY <4>2, <3>4
    <3>6. i = c
      <4>1. c = i \/ c < i
        BY <3>3, <3>4, <3>5
      <4> QED BY <4>1, <3>4, <3>5
    <3>7. Places(undo, n - 1, t) = (m[t] + 1)..(c - 1)
      <4>1. ASSUME NEW j \in Places(undo, n - 1, t) PROVE j \in (m[t] + 1)..(c - 1)
        <5>1. j \in (m[t] + 1)..c /\ j < c
          BY <3>3, <3>4, <3>6
        <5> QED BY <5>1, <3>4
      <4>2. ASSUME NEW j \in (m[t] + 1)..(c - 1) PROVE j \in Places(undo, n - 1, t)
        <5>1. j \in (m[t] + 1)..c /\ j # c
          BY <3>4
        <5> QED BY <5>1, <3>4, <3>6
      <4> QED BY <4>1, <4>2
    <3>8. y[t] = SubSeq(tbls[t], 1, c) /\ c \in 1..Len(tbls[t])
      BY <3>1, <3>4, <3>5
    <3>9. z[t] = SubSeq(tbls[t], 1, c - 1)
      <4>1. z[t] = IF i <= Len(y[t]) THEN RemoveAt(y[t], i) ELSE y[t]
        BY <3>4 DEF RemoveRow, t, i
      <4>2. Len(y[t]) = c /\ RemoveAt(y[t], c) = SubSeq(tbls[t], 1, c - 1)
        BY <3>4, <3>8, RemoveLast
      <4> QED BY <4>1, <4>2, <3>4, <3>6
    <3>10. c - 1 \in m[t]..Len(tbls[t])
      BY <3>4, <3>5
    <3>11. Cut(z, t, c - 1, n - 1)
      BY <3>7, <3>9, <3>10
    <3> QED BY <3>11 DEF t
  <2>7. \A t \in Tables : \E c : Cut(z, t, c, len - k)
    <3> HIDE DEF Cut, z, rec
    <3> QED BY <2>1, <2>5, <2>6
  <2>8. z \in A[k]
    <3> HIDE DEF Cut, z
    <3> QED BY <2>1, <2>4, <2>7
  <2> QED BY <2>8 DEF n
<1>4. Undone(tbls, undo) \in A[len]
  <2> HIDE DEF A
  <2> QED BY <1>2, <1>3, UndoneStages
<1>5. ASSUME NEW t \in Tables PROVE Undone(tbls, undo)[t] = SubSeq(tbls[t], 1, m[t])
  <2>1. len \in 0..len /\ len - len = 0
    BY <1>1
  <2>2. \E c : Cut(Undone(tbls, undo), t, c, 0)
    <3> HIDE DEF Cut, len
    <3> QED BY <1>4, <2>1
  <2>3. PICK c : Cut(Undone(tbls, undo), t, c, 0)
    BY <2>2
  <2>4. Places(undo, 0, t) = {}
    BY DEF Places
  <2>5. c = m[t]
    <3>1. (m[t] + 1)..c = {} /\ c \in m[t]..Len(tbls[t])
      BY <2>3, <2>4
    <3>2. c \notin (m[t] + 1)..c
      BY <3>1
    <3> QED BY <3>1, <3>2, <1>1
  <2> QED BY <2>3, <2>5
<1> QED BY <1>5 DEF FirstParts

\* A table that an undo segment does not name.
LEMMA NoLastRows ==
    ASSUME NEW rows \in Seq(Row), NEW undo \in Seq(UndoRecord), NEW x, NEW t,
           \A k \in 1..Len(undo) : undo[k].table # t
    PROVE  /\ (\A i \in 1..Len(rows) : rows[i].tx_id # x) => LastRows(rows, undo, x, t, Len(rows))
           /\ \A m : LastRows(rows, undo, x, t, m) =>
                 m = Len(rows) /\ \A i \in 1..Len(rows) : rows[i].tx_id # x
<1>1. Len(rows) \in Nat
  OBVIOUS
<1>2. Places(undo, Len(undo), t) = {}
  BY DEF Places
<1>3. ASSUME \A i \in 1..Len(rows) : rows[i].tx_id # x
      PROVE  LastRows(rows, undo, x, t, Len(rows))
  <2>1. (Len(rows) + 1)..Len(rows) = {}
    BY <1>1
  <2> QED BY <1>1, <1>2, <1>3, <2>1 DEF LastRows
<1>4. ASSUME NEW m, LastRows(rows, undo, x, t, m)
      PROVE  m = Len(rows) /\ \A i \in 1..Len(rows) : rows[i].tx_id # x
  <2>1. /\ m \in 0..Len(rows) /\ (m + 1)..Len(rows) = {}
        /\ \A i \in 1..Len(rows) : rows[i].tx_id = x <=> i > m
    BY <1>2, <1>4 DEF LastRows
  <2>2. Len(rows) \notin (m + 1)..Len(rows)
    BY <2>1
  <2>3. m = Len(rows)
    BY <1>1, <2>1, <2>2
  <2> QED BY <1>1, <2>1, <2>3
<1> QED BY <1>3, <1>4

LEMMA FunctionSeq ==
    ASSUME NEW n \in Nat, NEW S, NEW f \in [1..n -> S]
    PROVE  f \in Seq(S) /\ Len(f) = n
<1>1. f = [i \in 1..n |-> f[i]] /\ \A i \in 1..n : f[i] \in S
  OBVIOUS
<1>2. [i \in 1..n |-> f[i]] \in Seq(S) /\ Len([i \in 1..n |-> f[i]]) = n
  BY <1>1
<1> QED BY <1>1, <1>2

\* An INSERT of transaction x into table t: to its undo segment, and to t.
NewPlaces(t, len, n) == [i \in 1..n |-> [table |-> t, row_idx |-> len + i]]

Extended(more, undo, t, len, n) ==
    /\ more \in Seq(UndoRecord)
    /\ Len(more) = Len(undo) + n /\ Len(undo) \in Nat
    /\ \A k \in 1..Len(undo) : more[k] = undo[k]
    /\ \A k \in 1..Len(more) : k > Len(undo) =>
          more[k].table = t /\ more[k].row_idx = len + (k - Len(undo))

LEMMA MorePlaces ==
    ASSUME NEW undo \in Seq(UndoRecord), NEW t \in Tables, NEW len \in Nat, NEW n \in Nat
    PROVE  Extended(undo \o NewPlaces(t, len, n), undo, t, len, n)
<1> DEFINE add == NewPlaces(t, len, n)
<1>1. ASSUME NEW i \in 1..n
      PROVE  [table |-> t, row_idx |-> len + i] \in UndoRecord
  <2>1. len + i \in Nat \ {0}
    OBVIOUS
  <2> QED BY <2>1 DEF UndoRecord
<1>2. /\ add \in Seq(UndoRecord) /\ Len(add) = n
      /\ \A i \in 1..n : add[i] = [table |-> t, row_idx |-> len + i]
  <2>1. add = [i \in 1..n |-> [table |-> t, row_idx |-> len + i]]
    BY DEF NewPlaces
  <2> HIDE DEF add
  <2>2. add \in [1..n -> UndoRecord]
    BY <1>1, <2>1
  <2> QED BY <2>1, <2>2, FunctionSeq
<1> HIDE DEF add
<1>3. /\ undo \o add \in Seq(UndoRecord) /\ Len(undo \o add) = Len(undo) + n
      /\ Len(undo) \in Nat
      /\ \A k \in 1..(Len(undo) + n) :
            (undo \o add)[k] = IF k <= Len(undo) THEN undo[k] ELSE add[k - Len(undo)]
  <2>1. /\ undo \o add \in Seq(UndoRecord)
        /\ Len(undo \o add) = Len(undo) + Len(add)
        /\ \A k \in 1..(Len(undo) + Len(add)) :
              (undo \o add)[k] = IF k <= Len(undo) THEN undo[k] ELSE add[k - Len(undo)]
    BY <1>2, ConcatProperties
  <2> QED BY <1>2, <2>1
<1>4. \A k \in 1..Len(undo) : (undo \o add)[k] = undo[k]
  BY <1>3
<1>5. ASSUME NEW k \in 1..(Len(undo) + n), k > Len(undo)
      PROVE  /\ (undo \o add)[k].table = t
             /\ (undo \o add)[k].row_idx = len + (k - Len(undo))
  <2>1. k - Len(undo) \in 1..n /\ ~(k <= Len(undo))
    BY <1>3, <1>5
  <2>2. (undo \o add)[k] = [table |-> t, row_idx |-> len + (k - Len(undo))]
    BY <1>2, <1>3, <2>1
  <2> QED BY <2>2
<1> QED BY <1>3, <1>4, <1>5 DEF Extended, add

\* The tables that the INSERT does not touch.
LEMMA LastRowsElsewhere ==
    ASSUME NEW rows \in Seq(Row), NEW undo \in Seq(UndoRecord), NEW x, NEW u, NEW m,
           LastRows(rows, undo, x, u, m),
           NEW t \in Tables, t # u, NEW len \in Nat, NEW n \in Nat
    PROVE  LastRows(rows, undo \o NewPlaces(t, len, n), x, u, m)
<1> DEFINE more == undo \o NewPlaces(t, len, n)
<1>0. Extended(more, undo, t, len, n)
  BY MorePlaces
<1> HIDE DEF more
<1>1. /\ Len(more) = Len(undo) + n /\ Len(undo) \in Nat
      /\ \A k \in 1..Len(undo) : more[k] = undo[k]
      /\ \A k \in 1..Len(more) : k > Len(undo) => more[k].table = t
  BY <1>0 DEF Extended
<1>2. \A k \in 1..Len(more) : more[k].table = u => k \in 1..Len(undo)
  BY <1>1
<1>3. Places(more, Len(more), u) = Places(undo, Len(undo), u)
  <2>1. \A k \in 1..Len(undo) : k \in 1..Len(more)
    BY <1>1
  <2> QED BY <1>1, <1>2, <2>1 DEF Places
<1>4. ASSUME NEW j \in 1..Len(more), NEW k \in 1..Len(more),
             j < k, more[j].table = u, more[k].table = u
      PROVE  more[j].row_idx < more[k].row_idx
  <2>1. j \in 1..Len(undo) /\ k \in 1..Len(undo) /\ more[j] = undo[j] /\ more[k] = undo[k]
    BY <1>1, <1>2, <1>4
  <2> QED BY <2>1, <1>4 DEF LastRows
<1> QED BY <1>3, <1>4 DEF LastRows, more

\* The table that it extends.
LEMMA LastRowsInserted ==
    ASSUME NEW rows \in Seq(Row), NEW undo \in Seq(UndoRecord), NEW x, NEW t \in Tables,
           NEW m, LastRows(rows, undo, x, t, m),
           NEW new \in Seq(Row), \A i \in 1..Len(new) : new[i].tx_id = x
    PROVE  LastRows(rows \o new, undo \o NewPlaces(t, Len(rows), Len(new)), x, t, m)
<1> DEFINE more == undo \o NewPlaces(t, Len(rows), Len(new))
           all == rows \o new
           old == Len(undo)
           len == Len(rows)
           n == Len(new)
<1>0. len \in Nat /\ n \in Nat /\ old \in Nat
  OBVIOUS
<1>1. Extended(more, undo, t, len, n)
  BY <1>0, MorePlaces
<1>2. /\ Len(all) = len + n
      /\ \A i \in 1..(len + n) : all[i] = IF i <= len THEN rows[i] ELSE new[i - len]
  BY ConcatProperties
<1>3. /\ m \in 0..len /\ \A i \in 1..len : rows[i].tx_id = x <=> i > m
      /\ Places(undo, old, t) = (m + 1)..len
      /\ \A j, k \in 1..old : j < k /\ undo[j].table = t /\ undo[k].table = t
            => undo[j].row_idx < undo[k].row_idx
  BY DEF LastRows
<1> HIDE DEF more, all, len, n
<1>10. /\ Len(more) = old + n
       /\ \A k \in 1..old : more[k] = undo[k]
       /\ \A k \in 1..Len(more) : k > old =>
             more[k].table = t /\ more[k].row_idx = len + (k - old)
  BY <1>1 DEF Extended
<1> HIDE DEF old
<1>4. ASSUME NEW i \in 1..Len(all) PROVE all[i].tx_id = x <=> i > m
  <2>1. CASE i <= len
    <3>1. i \in 1..len /\ all[i] = rows[i]
      BY <2>1, <1>0, <1>2
    <3> QED BY <3>1, <1>3
  <2>2. CASE ~(i <= len)
    <3>1. all[i] = new[i - len] /\ i - len \in 1..n /\ i > m
      BY <2>2, <1>0, <1>2, <1>3
    <3> QED BY <3>1 DEF n
  <2> QED BY <2>1, <2>2
<1>5. \A k \in 1..old : undo[k].table = t => undo[k].row_idx \in (m + 1)..len
  BY <1>3 DEF Places
<1>6. Places(more, Len(more), t) = (m + 1)..Len(all)
  <2>1. ASSUME NEW k \in 1..Len(more), more[k].table = t
        PROVE  more[k].row_idx \in (m + 1)..Len(all)
    <3>1. CASE k <= old
      <4>1. k \in 1..old /\ more[k] = undo[k]
        BY <3>1, <1>0, <1>10
      <4>2. undo[k].row_idx \in (m + 1)..len
        BY <4>1, <2>1, <1>5
      <4> QED BY <4>1, <4>2, <1>0, <1>2, <1>3
    <3>2. CASE ~(k <= old)
      <4>1. more[k].row_idx = len + (k - old) /\ k - old \in 1..n
        BY <3>2, <1>0, <1>10
      <4> QED BY <4>1, <1>0, <1>2, <1>3
    <3> QED BY <3>1, <3>2
  <2>2. ASSUME NEW i \in (m + 1)..Len(all)
        PROVE  \E k \in 1..Len(more) : more[k].table = t /\ more[k].row_idx = i
    <3>1. CASE i <= len
      <4>1. i \in (m + 1)..len
        BY <3>1, <1>0, <1>3
      <4>2. PICK k \in 1..old : undo[k].table = t /\ undo[k].row_idx = i
        BY <4>1, <1>3 DEF Places
      <4>3. k \in 1..Len(more) /\ more[k] = undo[k]
        BY <1>0, <1>10
      <4> QED BY <4>2, <4>3
    <3>2. CASE ~(i <= len)
      <4> DEFINE k == old + (i - len)
      <4>1. k \in 1..Len(more) /\ k > old /\ len + (k - old) = i
        BY <3>2, <1>0, <1>10, <1>2, <1>3
      <4> HIDE DEF k
      <4>2. more[k].table = t /\ more[k].row_idx = i
        BY <4>1, <1>10
      <4> QED BY <4>1, <4>2
    <3> QED BY <3>1, <3>2
  <2> QED BY <2>1, <2>2 DEF Places
<1>7. ASSUME NEW j \in 1..Len(more), NEW k \in 1..Len(more),
             j < k, more[j].table = t, more[k].table = t
      PROVE  more[j].row_idx < more[k].row_idx
  <2>1. CASE k <= old
    <3>1. j \in 1..old /\ k \in 1..old
      BY <2>1, <1>0, <1>7
    <3>2. more[j] = undo[j] /\ more[k] = undo[k]
      BY <3>1, <1>10
    <3> QED BY <3>1, <3>2, <1>3, <1>7
  <2>2. CASE ~(k <= old) /\ j <= old
    <3>0. j \in 1..old /\ k > old
      BY <2>2, <1>0
    <3>1. j \in 1..old /\ more[j] = undo[j] /\ more[k].row_idx = len + (k - old)
      BY <3>0, <1>10
    <3>2. undo[j].row_idx \in (m + 1)..len
      BY <3>1, <1>5, <1>7
    <3> QED BY <3>1, <3>2, <2>2, <1>0, <1>3
  <2>3. CASE ~(k <= old) /\ ~(j <= old)
    <3>1. more[j].row_idx = len + (j - old) /\ more[k].row_idx = len + (k - old)
      BY <2>3, <1>0, <1>10
    <3> QED BY <3>1, <1>0, <1>7
  <2> QED BY <2>1, <2>2, <2>3
<1>8. m \in 0..Len(all)
  BY <1>0, <1>2, <1>3
<1> QED BY <1>4, <1>6, <1>7, <1>8 DEF LastRows, more, all, len, n

-----------------------------------------------------------------------------
(***************************************************************************)
(* Undo positions stay right.  OneWriter: into a table only one session    *)
(* inserts (what happens otherwise the run rollback_shared shows), so      *)
(* nobody else's rows come behind those of an open transaction.            *)
(***************************************************************************)
OneWriter == \A t \in Tables : \A r, s \in Writers[t] : r = s

Placed(tbls, undo, s, x) ==
    /\ \A k \in 1..Len(undo) : s \in Writers[undo[k].table]
    /\ \A t \in Tables : \E m : LastRows(tbls[t], undo, x, t, m)

InPlace(s) ==
    current_tx_id[s] # NoTx =>
        Placed(tables, undo_segments[current_tx_id[s]], s, current_tx_id[s])

\* The invariant; only the first run of the server has open transactions, and
\* no row of it is of one that is still to come.
Undoable ==
    /\ Story
    /\ ~up => \A x \in TxIds : statuses[x] # "Active"
    /\ up /\ boots = 1 =>
          \A t \in Tables : \A i \in 1..Len(tables[t]) : tables[t][i].tx_id < next_tx_id
    /\ \A s \in Sessions : InPlace(s)

RowTxs == TxIds \cup {NoTx}

LEMMA UndoTypes ==
    ASSUME Story
    PROVE  /\ \A t \in Tables : tables[t] \in Seq(Row) /\ Len(tables[t]) \in Nat
           /\ \A t \in Tables : \A i \in 1..Len(tables[t]) : tables[t][i].tx_id \in RowTxs
           /\ RowTxs \subseteq Nat /\ NoTx < next_tx_id
           /\ \A s \in Sessions : current_tx_id[s] \in TxIds \cup {NoTx}
           /\ \A x \in TxIds : x \in Nat /\ undo_segments[x] \in Seq(UndoRecord)
           /\ \A x \in TxIds : \A k \in 1..Len(undo_segments[x]) :
                 undo_segments[x][k].table \in Tables
           /\ next_tx_id \in Nat \ {0}
<1>1. /\ tables \in [Tables -> Seq(Row)] /\ next_tx_id \in Nat \ {0}
      /\ current_tx_id \in [Sessions -> TxIds \cup {NoTx}]
      /\ undo_segments \in [TxIds -> Seq(UndoRecord)]
  BY DEF Story, Owned, Typed, TypeOK
<1>2. ASSUME NEW x \in TxIds, NEW k \in 1..Len(undo_segments[x])
      PROVE  undo_segments[x][k].table \in Tables
  <2>1. undo_segments[x][k] \in UndoRecord
    BY <1>1
  <2> QED BY <2>1 DEF UndoRecord
<1>3. \A t \in Tables : tables[t] \in Seq(Row) /\ Len(tables[t]) \in Nat
  BY <1>1
<1>4. ASSUME NEW t \in Tables, NEW i \in 1..Len(tables[t])
      PROVE  tables[t][i].tx_id \in RowTxs
  <2>1. tables[t][i] \in Row
    BY <1>3
  <2> QED BY <2>1 DEF Row, RowTxs
<1>5. RowTxs \subseteq Nat /\ NoTx < next_tx_id
  BY <1>1, LogAssumption DEF RowTxs, NoTx
<1> QED BY <1>1, <1>2, <1>3, <1>4, <1>5, LogAssumption

\* What the invariant says of the tables that a session may not write.
LEMMA NotMine ==
    ASSUME Undoable, NEW s \in Sessions, current_tx_id[s] # NoTx,
           NEW t \in Tables, s \notin Writers[t]
    PROVE  LET x == current_tx_id[s] IN
           /\ \A k \in 1..Len(undo_segments[x]) : undo_segments[x][k].table # t
           /\ \A i \in 1..Len(tables[t]) : tables[t][i].tx_id # x
           /\ \A m : LastRows(tables[t], undo_segments[x], x, t, m) => m = Len(tables[t])
<1> DEFINE x == current_tx_id[s]
           undo == undo_segments[x]
<1>1. x \in TxIds /\ undo \in Seq(UndoRecord) /\ tables[t] \in Seq(Row)
  BY UndoTypes DEF Undoable
<1>2. Placed(tables, undo, s, x)
  BY DEF Undoable, InPlace
<1>3. \A k \in 1..Len(undo) : undo[k].table # t
  BY <1>2 DEF Placed
<1>4. PICK m : LastRows(tables[t], undo, x, t, m)
  BY <1>2 DEF Placed
<1> HIDE DEF undo
<1>5. \A i \in 1..Len(tables[t]) : tables[t][i].tx_id # x
  BY <1>1, <1>3, <1>4, NoLastRows
<1>6. \A q : LastRows(tables[t], undo, x, t, q) => q = Len(tables[t])
  BY <1>1, <1>3, NoLastRows
<1> QED BY <1>3, <1>5, <1>6 DEF undo

\* Steps that touch neither tables nor undo segments.
LEMMA UndoableKept ==
    ASSUME Undoable, Story', UNCHANGED <<tables, undo_segments, up, boots, next_tx_id>>,
           \A s \in Sessions : current_tx_id'[s] \in {current_tx_id[s], NoTx},
           up
    PROVE  Undoable'
<1>1. ASSUME NEW s \in Sessions PROVE InPlace(s)'
  BY DEF Undoable, InPlace
<1> QED BY <1>1 DEF Undoable

\* Steps after which no session has a transaction: boots and deaths.
LEMMA UndoableNone ==
    ASSUME Story', \A s \in Sessions : current_tx_id'[s] = NoTx,
           \/ ~up' /\ \A x \in TxIds : statuses'[x] # "Active"
           \/ /\ up'
              /\ boots' = 1 => \A t \in Tables : \A i \in 1..Len(tables'[t]) :
                                   tables'[t][i].tx_id < next_tx_id'
    PROVE  Undoable'
BY DEF Undoable, InPlace

LEMMA UndoableBegin ==
    ASSUME Undoable, Story', NEW s \in Sessions, Begin(s)
    PROVE  Undoable'
<1> DEFINE x == next_tx_id
<1>1. /\ x \in TxIds /\ x \in Nat
      /\ undo_segments \in [TxIds -> Seq(UndoRecord)]
      /\ current_tx_id \in [Sessions -> TxIds \cup {NoTx}]
  BY BeginTyped DEF Undoable, Story, Owned, Typed, TypeOK
<1>2. /\ up /\ up' = up /\ boots' = boots /\ tables' = tables
      /\ next_tx_id' = x + 1
      /\ undo_segments' = [undo_segments EXCEPT ![x] = <<>>]
      /\ current_tx_id' = [current_tx_id EXCEPT ![s] = x]
  BY DEF Begin, begin, procVars, dbVars
<1>3. boots = 1
  <2>1. \E r \in Sessions : current_tx_id'[r] # NoTx
    BY <1>1, <1>2, TxIdAssumption
  <2> QED BY <1>2, <2>1 DEF Story
<1>4. \A t \in Tables : /\ tables[t] \in Seq(Row)
                        /\ \A i \in 1..Len(tables[t]) : tables[t][i].tx_id < x
  BY <1>2, <1>3, UndoTypes DEF Undoable
<1>5. \A t \in Tables : \A i \in 1..Len(tables[t]) :
         tables[t][i].tx_id \in Nat /\ tables[t][i].tx_id < x
  BY <1>4, UndoTypes DEF Undoable
<1>6. ASSUME NEW t \in Tables
      PROVE  \E m : LastRows(tables[t], <<>>, x, t, m)
  <2>1. \A i \in 1..Len(tables[t]) : tables[t][i].tx_id # x
    BY <1>1, <1>5
  <2>2. <<>> \in Seq(UndoRecord) /\ \A k \in 1..Len(<<>>) : <<>>[k].table # t
    OBVIOUS
  <2> DEFINE none == <<>>
  <2> HIDE DEF none, x
  <2>3. LastRows(tables[t], none, x, t, Len(tables[t]))
    BY <1>4, <2>1, <2>2, NoLastRows DEF none
  <2> QED BY <2>3 DEF none
<1>7. \A r \in Sessions \ {s} : current_tx_id'[r] # NoTx =>
         current_tx_id'[r] = current_tx_id[r] /\ current_tx_id[r] # x
  BY <1>1, <1>2 DEF Undoable, Story, Owned, TxOwnedOnce
<1>8. ASSUME NEW r \in Sessions, current_tx_id'[r] # NoTx
      PROVE  Placed(tables', undo_segments'[current_tx_id'[r]], r, current_tx_id'[r])
  <2>1. CASE r = s
    <3>1. current_tx_id'[r] = x /\ undo_segments'[x] = <<>>
      BY <1>1, <1>2, <2>1
    <3>2. Placed(tables, <<>>, r, x)
      <4> HIDE DEF x
      <4> QED BY <1>6 DEF Placed
    <3> QED BY <1>2, <3>1, <3>2
  <2>2. CASE r # s
    <3> DEFINE y == current_tx_id[r]
    <3>1. /\ current_tx_id'[r] = y /\ y # x /\ y \in TxIds
          /\ Placed(tables, undo_segments[y], r, y)
      BY <1>1, <1>7, <1>8, <2>2 DEF Undoable, InPlace
    <3>2. undo_segments'[y] = undo_segments[y]
      BY <1>1, <1>2, <3>1
    <3> QED BY <1>2, <3>1, <3>2
  <2> QED BY <2>1, <2>2
<1>9. \A t \in Tables : \A i \in 1..Len(tables'[t]) : tables'[t][i].tx_id < next_tx_id'
  BY <1>1, <1>2, <1>5
<1> QED BY <1>2, <1>8, <1>9 DEF Undoable, InPlace

\* Rows put behind those of a table.
LEMMA MoreRows ==
    ASSUME NEW old \in Seq(Row), NEW new \in Seq(Row), NEW P,
           \A i \in 1..Len(old) : old[i].tx_id \in P,
           \A i \in 1..Len(new) : new[i].tx_id \in P
    PROVE  \A i \in 1..Len(old \o new) : (old \o new)[i].tx_id \in P
<1> SUFFICES ASSUME NEW i \in 1..Len(old \o new)
             PROVE  (old \o new)[i].tx_id \in P
  OBVIOUS
<1>1. /\ Len(old) \in Nat /\ Len(new) \in Nat
      /\ i \in 1..(Len(old) + Len(new))
      /\ (old \o new)[i] = IF i <= Len(old) THEN old[i] ELSE new[i - Len(old)]
  BY ConcatProperties
<1>2. CASE i <= Len(old)
  BY <1>1, <1>2
<1>3. CASE ~(i <= Len(old))
  <2>1. i - Len(old) \in 1..Len(new)
    BY <1>1, <1>3
  <2> QED BY <1>1, <1>3, <2>1
<1> QED BY <1>2, <1>3

LEMMA UndoableInsert ==
    ASSUME OneWriter, Undoable, Story', NEW s \in Sessions, NEW t \in Tables,
           NEW rows \in Inserts, Insert(s, t, rows)
    PROVE  Undoable'
<1> DEFINE x == current_tx_id[s]
<1>1. PICK n \in 1..Len(rows) :
         /\ tables' = [tables EXCEPT ![t] = @ \o NewRows(SubSeq(rows, 1, n), x)]
         /\ IF x = NoTx
            THEN UNCHANGED <<logVars, txVars>>
            ELSE record_inserts(x, t, SubSeq(rows, 1, n), Len(tables[t]))
  BY DEF Insert
<1>2. /\ up /\ up' = up /\ boots' = boots /\ s \in Writers[t]
      /\ current_tx_id' = current_tx_id /\ next_tx_id' = next_tx_id
  BY <1>1 DEF Insert, procVars, sessionVars, record_inserts, txVars
<1>3. /\ \A u \in Tables : tables[u] \in Seq(Row) /\ Len(tables[u]) \in Nat
      /\ x \in TxIds \cup {NoTx}
      /\ next_tx_id \in Nat \ {0}
      /\ tables \in [Tables -> Seq(Row)]
      /\ undo_segments \in [TxIds -> Seq(UndoRecord)]
  BY UndoTypes DEF Undoable, Story, Owned, Typed, TypeOK
<1> DEFINE vals == SubSeq(rows, 1, n)
           new == NewRows(vals, x)
<1>4. /\ vals \in Seq(Values) /\ Len(vals) \in Nat
      /\ new \in Seq(Row) /\ Len(new) = Len(vals)
      /\ \A i \in 1..Len(new) : new[i].tx_id = x
  <2>1. rows \in Seq(Values) /\ n \in 1..Len(rows)
    BY DatabaseAssumption
  <2>2. vals \in Seq(Values)
    BY <2>1
  <2> HIDE DEF vals, x
  <2>3. new \in Seq(Row)
    BY <1>3, <2>2, NewRowsType
  <2>4. new = [i \in 1..Len(vals) |-> [val |-> vals[i], tx_id |-> x]]
    BY <2>2 DEF NewRows
  <2>5. Len(new) = Len(vals) /\ \A i \in 1..Len(vals) : new[i].tx_id = x
    <3>1. new \in [1..Len(vals) -> Row] /\ Len(vals) \in Nat
      BY <2>2, <2>3, <2>4
    <3>2. Len(new) = Len(vals)
      BY <3>1, FunctionSeq
    <3> QED BY <2>4, <3>2
  <2> QED BY <2>2, <2>3, <2>5
<1>5. x # NoTx =>
         undo_segments' = [undo_segments EXCEPT ![x] =
             @ \o NewPlaces(t, Len(tables[t]), Len(new))]
  <2>1. ASSUME x # NoTx
        PROVE  undo_segments' = [undo_segments EXCEPT ![x] = @ \o
                   [i \in DOMAIN vals |-> [table |-> t, row_idx |-> Len(tables[t]) + i]]]
    BY <1>1, <2>1 DEF record_inserts
  <2>2. DOMAIN vals = 1..Len(new)
    <3> HIDE DEF vals, new
    <3> QED BY <1>4
  <2> HIDE DEF vals, new, x
  <2> QED BY <2>1, <2>2 DEF NewPlaces
<1>6. x = NoTx => undo_segments' = undo_segments
  BY <1>1 DEF txVars
<1>7. /\ tables'[t] = tables[t] \o new
      /\ \A u \in Tables : u # t => tables'[u] = tables[u]
  BY <1>1, <1>3
<1> HIDE DEF x, vals, new
<1>8. ASSUME NEW r \in Sessions, current_tx_id[r] # NoTx, r # s
      PROVE  Placed(tables', undo_segments'[current_tx_id[r]], r, current_tx_id[r])
  <2> DEFINE y == current_tx_id[r]
             undo == undo_segments[y]
  <2>1. y \in TxIds /\ y # x /\ undo \in Seq(UndoRecord) /\ Placed(tables, undo, r, y)
    BY <1>8, UndoTypes DEF Undoable, InPlace, Story, Owned, TxOwnedOnce, x
  <2>2. undo_segments'[y] = undo
    BY <1>3, <1>5, <1>6, <2>1
  <2>3. r \notin Writers[t]
    BY <1>2, <1>8 DEF OneWriter
  <2>4. /\ \A k \in 1..Len(undo) : undo[k].table # t
        /\ \A i \in 1..Len(tables[t]) : tables[t][i].tx_id # y
    BY <1>8, <2>3, NotMine
  <2> HIDE DEF undo, y
  <2>5. \E m : LastRows(tables'[t], undo, y, t, m)
    <3> DEFINE all == tables[t] \o new
    <3>1. all \in Seq(Row)
      BY <1>3, <1>4, ConcatProperties
    <3>2. \A i \in 1..Len(all) : all[i].tx_id \in RowTxs \ {y}
      <4>1. \A i \in 1..Len(tables[t]) : tables[t][i].tx_id \in RowTxs \ {y}
        BY <2>4, UndoTypes DEF Undoable
      <4>2. \A i \in 1..Len(new) : new[i].tx_id \in RowTxs \ {y}
        BY <1>3, <1>4, <2>1 DEF RowTxs
      <4> QED BY <1>3, <1>4, <4>1, <4>2, MoreRows
    <3>3. \A i \in 1..Len(all) : all[i].tx_id # y
      BY <3>2
    <3> HIDE DEF all
    <3>4. LastRows(all, undo, y, t, Len(all))
      BY <2>1, <2>4, <3>1, <3>3, NoLastRows
    <3> QED BY <3>4, <1>7 DEF all
  <2>6. \A u \in Tables : \E m : LastRows(tables'[u], undo, y, u, m)
    BY <1>7, <2>1, <2>5 DEF Placed
  <2>7. Placed(tables', undo, r, y)
    BY <2>1, <2>6 DEF Placed
  <2> QED BY <2>2, <2>7 DEF y
<1>9. ASSUME x # NoTx PROVE Placed(tables', undo_segments'[x], s, x)
  <2> DEFINE undo == undo_segments[x]
             more == undo \o NewPlaces(t, Len(tables[t]), Len(new))
  <2>1. x \in TxIds /\ undo \in Seq(UndoRecord) /\ Placed(tables, undo, s, x)
    BY <1>3, <1>9, UndoTypes DEF Undoable, InPlace, x
  <2>2. undo_segments'[x] = more
    BY <1>3, <1>5, <1>9, <2>1
  <2>3. ASSUME NEW k \in 1..Len(more) PROVE s \in Writers[more[k].table]
    <3>1. Extended(more, undo, t, Len(tables[t]), Len(new))
      BY <1>3, <1>4, <2>1, MorePlaces
    <3> HIDE DEF more, undo
    <3>2. CASE k <= Len(undo)
      <4>1. k \in 1..Len(undo) /\ more[k] = undo[k]
        BY <3>1, <3>2 DEF Extended
      <4> QED BY <2>1, <4>1 DEF Placed
    <3>3. CASE ~(k <= Len(undo))
      <4>1. more[k].table = t
        BY <3>1, <3>3 DEF Extended
      <4> QED BY <4>1, <1>2
    <3> QED BY <3>2, <3>3
  <2>4. ASSUME NEW u \in Tables PROVE \E m : LastRows(tables'[u], more, x, u, m)
    <3>1. PICK m : LastRows(tables[u], undo, x, u, m)
      BY <2>1 DEF Placed
    <3> HIDE DEF undo
    <3>2. CASE u = t
      <4>1. LastRows(tables[t] \o new, more, x, t, m)
        BY <1>3, <1>4, <2>1, <3>1, <3>2, LastRowsInserted
      <4> QED BY <4>1, <3>2, <1>7
    <3>3. CASE u # t
      <4>1. LastRows(tables[u], more, x, u, m)
        BY <1>3, <1>4, <2>1, <3>1, <3>3, LastRowsElsewhere
      <4> QED BY <4>1, <3>3, <1>7
    <3> QED BY <3>2, <3>3
  <2> HIDE DEF more
  <2>5. Placed(tables', more, s, x)
    BY <2>3, <2>4 DEF Placed
  <2> QED BY <2>2, <2>5
<1>10. ASSUME boots = 1, NEW u \in Tables
       PROVE  \A i \in 1..Len(tables'[u]) : tables'[u][i].tx_id < next_tx_id
  <2>1. \A v \in Tables : \A i \in 1..Len(tables[v]) : tables[v][i].tx_id < next_tx_id
    BY <1>2, <1>10 DEF Undoable
  <2>2. CASE u # t
    BY <2>1, <2>2, <1>7
  <2>3. CASE u = t
    <3> DEFINE P == {z \in Int : z < next_tx_id}
               all == tables[t] \o new
    <3>1. x < next_tx_id /\ x \in Int
      <4>1. x # NoTx => x < next_tx_id
        BY DEF Undoable, Story, Owned, TxOwnedOnce, x
      <4>2. NoTx < next_tx_id /\ x \in RowTxs /\ RowTxs \subseteq Nat
        BY <1>3, UndoTypes DEF Undoable, RowTxs
      <4> QED BY <4>1, <4>2
    <3>2. \A i \in 1..Len(new) : new[i].tx_id \in P
      BY <1>4, <3>1
    <3>3. \A i \in 1..Len(tables[t]) : tables[t][i].tx_id \in P
      BY <2>1, UndoTypes DEF Undoable
    <3> HIDE DEF P
    <3>4. \A i \in 1..Len(all) : all[i].tx_id \in P
      BY <1>3, <1>4, <3>2, <3>3, MoreRows
    <3>5. \A i \in 1..Len(all) : all[i].tx_id < next_tx_id
      BY <3>4 DEF P
    <3> QED BY <3>5, <1>7, <2>3
  <2> QED BY <2>2, <2>3
<1>11. \A r \in Sessions : InPlace(r)'
  BY <1>2, <1>8, <1>9 DEF InPlace, x
<1> QED BY <1>2, <1>10, <1>11 DEF Undoable

\* ROLLBACK takes the rows of its transaction off the ends of the tables, and
\* whoever else has rows in a table has the table for itself.
LEMMA RolledBack ==
    ASSUME Undoable, NEW s \in Sessions, Rollback(s)
    PROVE  \E m : \A t \in Tables :
              /\ LastRows(tables[t], undo_segments[current_tx_id[s]], current_tx_id[s], t, m[t])
              /\ tables'[t] = SubSeq(tables[t], 1, m[t])
<1> DEFINE x == current_tx_id[s]
           undo == undo_segments[x]
           m == [t \in Tables |-> CHOOSE c : LastRows(tables[t], undo, x, t, c)]
<1>1. /\ x \in TxIds /\ undo \in Seq(UndoRecord) /\ tables \in [Tables -> Seq(Row)]
      /\ Placed(tables, undo, s, x) /\ tables' = Undone(tables, undo)
  BY UndoTypes DEF Undoable, InPlace, Rollback, Story, Owned, Typed, TypeOK
<1> HIDE DEF x, undo
<1>2. ASSUME NEW t \in Tables PROVE LastRows(tables[t], undo, x, t, m[t])
  BY <1>1 DEF Placed
<1> HIDE DEF m
<1>3. \A t \in Tables : Undone(tables, undo)[t] = SubSeq(tables[t], 1, m[t])
  <2>1. tables \in [Tables -> Seq(Row)] /\ undo \in Seq(UndoRecord)
    BY <1>1
  <2>2. LastRowsOf(tables, undo, x, m)
    BY <1>2 DEF LastRowsOf
  <2>3. FirstParts(tables, undo, m)
    BY <2>1, <2>2, UndoneLastRows
  <2> QED BY <2>3 DEF FirstParts
<1> QED BY <1>1, <1>2, <1>3 DEF x, undo

LEMMA FirstPart ==
    ASSUME NEW rows \in Seq(Row), NEW c \in 0..Len(rows)
    PROVE  /\ SubSeq(rows, 1, c) \in Seq(Row) /\ Len(SubSeq(rows, 1, c)) = c
           /\ \A i \in 1..c : SubSeq(rows, 1, c)[i] = rows[i]
           /\ c = Len(rows) => SubSeq(rows, 1, c) = rows
OBVIOUS

LEMMA UndoableRollback ==
    ASSUME OneWriter, Undoable, Story', NEW s \in Sessions, Rollback(s)
    PROVE  Undoable'
<1> DEFINE x == current_tx_id[s]
<1>1. /\ up /\ up' = up /\ boots' = boots /\ x \in TxIds
      /\ undo_segments' = [undo_segments EXCEPT ![x] = <<>>]
      /\ undo_segments \in [TxIds -> Seq(UndoRecord)]
      /\ current_tx_id' = [current_tx_id EXCEPT ![s] = NoTx]
      /\ current_tx_id \in [Sessions -> TxIds \cup {NoTx}]
      /\ next_tx_id' = next_tx_id
      /\ Placed(tables, undo_segments[x], s, x)
  BY DEF Rollback, rollback, procVars, Undoable, InPlace, Story, Owned, Typed, TypeOK
<1>2. PICK m : \A t \in Tables :
         /\ LastRows(tables[t], undo_segments[x], x, t, m[t])
         /\ tables'[t] = SubSeq(tables[t], 1, m[t])
  BY RolledBack
<1>3. \A t \in Tables : tables[t] \in Seq(Row) /\ Len(tables[t]) \in Nat /\ m[t] \in 0..Len(tables[t])
  BY <1>2, UndoTypes DEF Undoable, LastRows
<1>4. ASSUME NEW t \in Tables
      PROVE  /\ tables'[t] \in Seq(Row) /\ Len(tables'[t]) = m[t]
             /\ \A i \in 1..Len(tables'[t]) : i \in 1..Len(tables[t]) /\ tables'[t][i] = tables[t][i]
  <2> DEFINE rows == tables[t]
             c == m[t]
  <2>1. rows \in Seq(Row) /\ c \in 0..Len(rows) /\ Len(rows) \in Nat
    BY <1>3
  <2>2. tables'[t] = SubSeq(rows, 1, c)
    BY <1>2
  <2> DEFINE part == SubSeq(rows, 1, c)
  <2> HIDE DEF rows, c
  <2>3. part \in Seq(Row) /\ Len(part) = c /\ \A i \in 1..c : part[i] = rows[i]
    BY <2>1, FirstPart
  <2> HIDE DEF part
  <2>4. /\ tables'[t] = part
        /\ \A i \in 1..Len(part) : i \in 1..Len(rows) /\ part[i] = rows[i]
    BY <2>1, <2>2, <2>3 DEF part
  <2> QED BY <2>3, <2>4 DEF rows, c
<1>5. ASSUME boots = 1
      PROVE  \A t \in Tables : \A i \in 1..Len(tables'[t]) : tables'[t][i].tx_id < next_tx_id
  BY <1>1, <1>4, <1>5 DEF Undoable
<1> HIDE DEF x
<1>6. ASSUME NEW r \in Sessions, r # s, current_tx_id[r] # NoTx
      PROVE  Placed(tables', undo_segments'[current_tx_id[r]], r, current_tx_id[r])
  <2> DEFINE y == current_tx_id[r]
             undo == undo_segments[y]
  <2>1. y \in TxIds /\ y # x /\ undo \in Seq(UndoRecord) /\ Placed(tables, undo, r, y)
    BY <1>1, <1>6, UndoTypes, TxIdAssumption
       DEF Undoable, InPlace, Story, Owned, TxOwnedOnce, x
  <2>2. undo_segments'[y] = undo
    BY <1>1, <2>1
  <2>3. ASSUME NEW t \in Tables PROVE \E c : LastRows(tables'[t], undo, y, t, c)
    <3>1. CASE r \in Writers[t]
      <4>1. s \notin Writers[t]
        BY <3>1, <1>6 DEF OneWriter
      <4>2. m[t] = Len(tables[t])
        <5>1. LastRows(tables[t], undo_segments[x], x, t, m[t])
          BY <1>2 DEF x
        <5>2. x # NoTx
          BY <1>1, TxIdAssumption
        <5>3. \A c : LastRows(tables[t], undo_segments[x], x, t, c) => c = Len(tables[t])
          BY <4>1, <5>2, NotMine DEF x
        <5> QED BY <5>1, <5>3
      <4>3. tables'[t] = tables[t]
        BY <4>2, <1>2, <1>3, FirstPart
      <4> QED BY <4>3, <2>1 DEF Placed
    <3>2. CASE r \notin Writers[t]
      <4>1. /\ \A k \in 1..Len(undo) : undo[k].table # t
            /\ \A i \in 1..Len(tables[t]) : tables[t][i].tx_id # y
        BY <3>2, <1>6, NotMine
      <4> HIDE DEF y, undo
      <4>2. \A i \in 1..Len(tables'[t]) : tables'[t][i].tx_id # y
        BY <4>1, <1>4
      <4> DEFINE rows == tables'[t]
      <4>3. rows \in Seq(Row)
        BY <1>4
      <4> HIDE DEF rows
      <4>4. LastRows(rows, undo, y, t, Len(rows))
        BY <2>1, <4>1, <4>2, <4>3, NoLastRows DEF rows
      <4> QED BY <4>4 DEF rows
    <3> QED BY <3>1, <3>2
  <2>4. Placed(tables', undo, r, y)
    <3> HIDE DEF y, undo
    <3> QED BY <2>1, <2>3 DEF Placed
  <2> QED BY <2>2, <2>4
<1>7. \A r \in Sessions : InPlace(r)'
  BY <1>1, <1>6 DEF InPlace
<1> QED BY <1>1, <1>5, <1>7 DEF Undoable

\* The first boot finds an empty log: all rows are those of the demo data.
LEMMA FirstRows ==
    ASSUME NEW t \in Tables
    PROVE  BootRows(<<>>, t) = NewRows(DemoRows[t], NoTx)
<1> DEFINE recs == Picked(<<>>, Replayed(<<>>, t))
<1>1. <<>> \in Seq(LogLines) /\ Len(<<>>) = 0
  OBVIOUS
<1>2. recs \in Seq({<<>>[i] : i \in Replayed(<<>>, t) \cap 1..Len(<<>>)})
  BY <1>1, PickedType
<1>3. recs \in Seq({})
  BY <1>2
<1>4. DOMAIN recs = {}
  <2> HIDE DEF recs
  <2>1. Len(recs) \in Nat /\ \A i \in 1..Len(recs) : recs[i] \in {}
    BY <1>3
  <2>2. Len(recs) = 0
    BY <2>1
  <2> QED BY <1>3, <2>2
<1>5. RecoveredRows(<<>>, t) = <<>>
  <2> HIDE DEF recs
  <2>1. [i \in DOMAIN recs |-> [val |-> recs[i].val, tx_id |-> recs[i].tx_id]] = <<>>
    BY <1>4
  <2> QED BY <2>1 DEF RecoveredRows, recs
<1>6. NewRows(DemoRows[t], NoTx) \in Seq(Row)
  BY DatabaseAssumption, NewRowsType
<1> QED BY <1>5, <1>6, ConcatEmptySeq DEF BootRows

LEMMA UndoableBoot ==
    ASSUME Undoable, Story', Boot
    PROVE  Undoable'
<1>1. /\ \A s \in Sessions : current_tx_id'[s] = NoTx
      /\ up' /\ boots' = boots + 1 /\ next_tx_id' = 1 /\ boots \in Nat
      /\ tables' = [t \in Tables |-> BootRows(redo_log, t)]
  BY DatabaseAssumption
     DEF Boot, NewManager, NoSessions, Undoable, Story, Owned, Typed, TypeOK
<1>2. ASSUME boots' = 1, NEW t \in Tables, NEW i \in 1..Len(tables'[t])
      PROVE  tables'[t][i].tx_id < next_tx_id'
  <2>1. redo_log = <<>>
    BY <1>1, <1>2 DEF Undoable, Story
  <2>2. tables'[t] = NewRows(DemoRows[t], NoTx)
    BY <1>1, <2>1, FirstRows
  <2> DEFINE rows == DemoRows[t]
  <2>3. rows \in Seq(Values)
    BY DatabaseAssumption
  <2>4. NewRows(rows, NoTx) = [j \in 1..Len(rows) |-> [val |-> rows[j], tx_id |-> NoTx]]
    BY <2>3 DEF NewRows
  <2>5. Len(NewRows(rows, NoTx)) = Len(rows)
    <3>1. NewRows(rows, NoTx) \in [1..Len(rows) -> Row] /\ Len(rows) \in Nat
      BY <2>3, <2>4, NewRowsType, TxIdAssumption
    <3> QED BY <3>1, FunctionSeq
  <2> HIDE DEF rows
  <2>6. tables'[t][i] = [val |-> rows[i], tx_id |-> NoTx]
    BY <1>2, <2>2, <2>4, <2>5 DEF rows
  <2>7. tables'[t][i].tx_id = NoTx
    BY <2>6
  <2> QED BY <1>1, <2>7 DEF NoTx
<1> QED BY <1>1, <1>2, UndoableNone

LEMMA UndoableStep == ASSUME NoReuse, OneWriter PROVE Undoable /\ [Next]_vars => Undoable'
<1> SUFFICES ASSUME Undoable, [Next]_vars PROVE Undoable'
  OBVIOUS
<1>0. Story'
  BY StoryStep DEF Undoable
<1>1. CASE Boot
  BY <1>0, <1>1, UndoableBoot
<1>2. CASE Crash \/ \E s \in Sessions : FlushCrash(s)
  <2>1. /\ ~up' /\ statuses' = NoStatuses
        /\ \A s \in Sessions : current_tx_id'[s] = NoTx
    BY <1>2 DEF Crash, FlushCrash, Lost, NewManager, NoSessions
  <2> QED BY <1>0, <2>1, UndoableNone DEF NoStatuses
<1>3. ASSUME NEW s \in Sessions, Begin(s) PROVE Undoable'
  BY <1>0, <1>3, UndoableBegin
<1>4. ASSUME NEW s \in Sessions, Rollback(s) PROVE Undoable'
  BY <1>0, <1>4, UndoableRollback
<1>5. ASSUME NEW s \in Sessions, NEW t \in Tables, NEW rows \in Inserts,
             Insert(s, t, rows)
      PROVE  Undoable'
  BY <1>0, <1>5, UndoableInsert
<1>6. CASE \/ \E s \in Sessions : Commit(s) \/ Query(s) \/ Reconnect(s)
           \/ \E t \in Tables, w \in Widths : CreateTable(t, w)
  <2>1. /\ up /\ UNCHANGED <<tables, undo_segments, up, boots, next_tx_id>>
        /\ \/ current_tx_id' = current_tx_id
           \/ \E s \in Sessions : current_tx_id' = [current_tx_id EXCEPT ![s] = NoTx]
    BY <1>6 DEF Commit, commit, Query, Reconnect, CreateTable,
                txVars, dbVars, sessionVars, procVars
  <2>2. current_tx_id \in [Sessions -> TxIds \cup {NoTx}]
    BY DEF Undoable, Story, Owned, Typed, TypeOK
  <2>3. \A s \in Sessions : current_tx_id'[s] \in {current_tx_id[s], NoTx}
    BY <2>1, <2>2
  <2> QED BY <1>0, <2>1, <2>3, UndoableKept
<1>7. CASE UNCHANGED vars
  <2>1. UNCHANGED <<tables, undo_segments, up, boots, next_tx_id, current_tx_id, statuses>>
    BY <1>7 DEF vars, txVars, dbVars, sessionVars, procVars
  <2> QED BY <1>0, <2>1 DEF Undoable, InPlace
<1> QED BY <1>1, <1>2, <1>3, <1>4, <1>5, <1>6, <1>7 DEF Next

LEMMA AlwaysUndoable == ASSUME NoReuse, OneWriter PROVE Spec => []Undoable
<1>1. Init => Undoable
  BY StoryInit DEF Init, Undoable, InPlace, NoStatuses
<1>2. Undoable /\ [Next]_vars => Undoable'
  BY UndoableStep
<1> QED BY <1>1, <1>2, PTL DEF Spec
-----------------------------------------------------------------------------
(***************************************************************************)
(* The two properties of the undo segments.                                *)
(***************************************************************************)
LEMMA RecordIs ==
    ASSUME NEW rec \in UndoRecord, NEW t, NEW i
    PROVE  rec = [table |-> t, row_idx |-> i] <=> rec.table = t /\ rec.row_idx = i
BY DEF UndoRecord

\* UndoExact, of one table.
LEMMA PlacesOfTable ==
    ASSUME NEW rows \in Seq(Row), NEW undo \in Seq(UndoRecord), NEW x, NEW t, NEW m,
           LastRows(rows, undo, x, t, m)
    PROVE  /\ \A j, k \in DOMAIN undo : undo[j] = undo[k] /\ undo[j].table = t => j = k
           /\ \A k \in DOMAIN undo : undo[k].table = t => undo[k].row_idx <= Len(rows)
           /\ \A i \in DOMAIN rows :
                 rows[i].tx_id = x <=> [table |-> t, row_idx |-> i] \in Range(undo)
<1>1. /\ DOMAIN undo = 1..Len(undo) /\ Len(undo) \in Nat
      /\ DOMAIN rows = 1..Len(rows) /\ Len(rows) \in Nat
  OBVIOUS
<1>2. \A k \in 1..Len(undo) : undo[k] \in UndoRecord /\ undo[k].row_idx \in Nat
  <2>1. \A k \in 1..Len(undo) : undo[k] \in UndoRecord
    OBVIOUS
  <2> QED BY <2>1 DEF UndoRecord
<1>3. ASSUME NEW j \in DOMAIN undo, NEW k \in DOMAIN undo,
             undo[j] = undo[k], undo[j].table = t
      PROVE  j = k
  <2>1. ~(j < k) /\ ~(k < j)
    BY <1>1, <1>2, <1>3 DEF LastRows
  <2> QED BY <1>1, <2>1
<1>4. Places(undo, Len(undo), t) = (m + 1)..Len(rows) /\ m \in 0..Len(rows)
  BY DEF LastRows
<1>5. ASSUME NEW k \in DOMAIN undo, undo[k].table = t PROVE undo[k].row_idx <= Len(rows)
  <2>1. undo[k].row_idx \in Places(undo, Len(undo), t)
    BY <1>1, <1>5 DEF Places
  <2> QED BY <1>1, <1>4, <2>1
<1>6. ASSUME NEW i \in DOMAIN rows
      PROVE  rows[i].tx_id = x <=> [table |-> t, row_idx |-> i] \in Range(undo)
  <2>1. rows[i].tx_id = x <=> i > m
    BY <1>1 DEF LastRows
  <2>2. i > m <=> i \in Places(undo, Len(undo), t)
    BY <1>1, <1>4
  <2>3. i \in Places(undo, Len(undo), t)
           <=> \E k \in 1..Len(undo) : undo[k].table = t /\ undo[k].row_idx = i
    BY DEF Places
  <2>4. \A k \in 1..Len(undo) : undo[k] = [table |-> t, row_idx |-> i]
                                   <=> undo[k].table = t /\ undo[k].row_idx = i
    BY <1>2, RecordIs
  <2>5. [table |-> t, row_idx |-> i] \in Range(undo)
           <=> \E k \in 1..Len(undo) : undo[k] = [table |-> t, row_idx |-> i]
    BY <1>1 DEF Range
  <2> QED BY <2>1, <2>2, <2>3, <2>4, <2>5
<1> QED BY <1>3, <1>5, <1>6

\* At all times the undo segment of an open transaction names exactly the
\* places of its rows, each once (handler.rs:71-80 relies on it), as long as
\* into every table one session inserts.
THEOREM UndoPlacesRight == ASSUME NoReuse, OneWriter PROVE Spec => []UndoExact
<1>1. Undoable => UndoExact
  <2> SUFFICES ASSUME Undoable, NEW s \in Sessions, current_tx_id[s] # NoTx
               PROVE  LET undo == undo_segments[current_tx_id[s]]
                      IN  /\ \A i, j \in DOMAIN undo : undo[i] = undo[j] => i = j
                          /\ \A k \in DOMAIN undo : undo[k].row_idx <= Len(tables[undo[k].table])
                          /\ \A t \in Tables : \A i \in DOMAIN tables[t] :
                                tables[t][i].tx_id = current_tx_id[s]
                                  <=> [table |-> t, row_idx |-> i] \in Range(undo)
    BY DEF UndoExact
  <2> DEFINE x == current_tx_id[s]
             undo == undo_segments[x]
  <2>1. /\ undo \in Seq(UndoRecord) /\ Placed(tables, undo, s, x)
        /\ \A t \in Tables : tables[t] \in Seq(Row)
        /\ \A k \in DOMAIN undo : undo[k].table \in Tables
    BY UndoTypes DEF Undoable, InPlace
  <2> HIDE DEF undo, x
  <2>2. ASSUME NEW t \in Tables
        PROVE  /\ \A j, k \in DOMAIN undo : undo[j] = undo[k] /\ undo[j].table = t => j = k
               /\ \A k \in DOMAIN undo : undo[k].table = t => undo[k].row_idx <= Len(tables[t])
               /\ \A i \in DOMAIN tables[t] :
                     tables[t][i].tx_id = x <=> [table |-> t, row_idx |-> i] \in Range(undo)
    <3>1. PICK m : LastRows(tables[t], undo, x, t, m)
      BY <2>1 DEF Placed
    <3> QED BY <2>1, <3>1, PlacesOfTable
  <2>3. \A i, j \in DOMAIN undo : undo[i] = undo[j] => i = j
    BY <2>1, <2>2
  <2>4. \A k \in DOMAIN undo : undo[k].row_idx <= Len(tables[undo[k].table])
    BY <2>1, <2>2
  <2> QED BY <2>2, <2>3, <2>4 DEF undo, x
<1>2. Spec => []Undoable
  BY AlwaysUndoable
<1> QED BY <1>1, <1>2, PTL

\* Only ROLLBACK turns an open transaction into one that is rolled back.
LEMMA EndedByRollback ==
    ASSUME Undoable, [Next]_vars, NEW x \in TxIds,
           statuses[x] = "Active", statuses'[x] = "RolledBack"
    PROVE  \E s \in Sessions : Rollback(s) /\ x = current_tx_id[s]
<1>1. statuses \in [TxIds -> TxStatus] /\ up
  BY DEF Undoable, Story, Owned, Typed, TypeOK
<1>2. ~Boot
  BY <1>1 DEF Boot
<1>3. ~Crash /\ \A s \in Sessions : ~FlushCrash(s)
  BY DEF Crash, FlushCrash, Lost, NewManager, NoStatuses
<1>4. \A s \in Sessions : ~Begin(s)
  BY <1>1 DEF Begin, begin
<1>5. \A s \in Sessions : ~Commit(s)
  BY <1>1 DEF Commit, commit
<1>6. \A s \in Sessions : ~Query(s) /\ ~Reconnect(s)
  BY DEF Query, Reconnect, txVars
<1>7. ASSUME NEW s \in Sessions, NEW t \in Tables, NEW rows \in Inserts,
             Insert(s, t, rows)
      PROVE  FALSE
  <2>1. CASE current_tx_id[s] = NoTx
    <3>1. UNCHANGED txVars
      BY <1>7, <2>1 DEF Insert
    <3> QED BY <3>1 DEF txVars
  <2>2. CASE current_tx_id[s] # NoTx
    <3>1. \E n \in 1..Len(rows) :
             record_inserts(current_tx_id[s], t, SubSeq(rows, 1, n), Len(tables[t]))
      BY <1>7, <2>2 DEF Insert
    <3>2. statuses' = statuses
      BY <3>1 DEF record_inserts
    <3> QED BY <3>2
  <2> QED BY <2>1, <2>2
<1>8. \A t \in Tables, w \in Widths : ~CreateTable(t, w)
  BY DEF CreateTable, txVars
<1>9. PICK s \in Sessions : Rollback(s)
  BY <1>2, <1>3, <1>4, <1>5, <1>6, <1>7, <1>8 DEF Next, vars, txVars
<1>10. statuses' = [statuses EXCEPT ![current_tx_id[s]] = "RolledBack"]
  BY <1>9 DEF Rollback, rollback
<1>11. x = current_tx_id[s]
  BY <1>1, <1>10
<1> QED BY <1>9, <1>11

\* ROLLBACK removes the rows of its transaction from every table and no other
\* row ("Rollback removes the inserted row", README.md:202), as long as into
\* every table one session inserts.
THEOREM RollbackTakesItsRows == ASSUME NoReuse, OneWriter PROVE Spec => RollbackExact
<1> DEFINE Exact == \A x \in TxIds :
          statuses[x] = "Active" /\ statuses'[x] = "RolledBack" =>
              \A t \in Tables :
                  tables'[t] = Picked(tables[t],
                      {i \in DOMAIN tables[t] : tables[t][i].tx_id # x})
<1>1. Undoable /\ [Next]_vars => Exact
  <2> SUFFICES ASSUME Undoable, [Next]_vars, NEW x \in TxIds,
                      statuses[x] = "Active", statuses'[x] = "RolledBack",
                      NEW t \in Tables
               PROVE  tables'[t] = Picked(tables[t],
                          {i \in DOMAIN tables[t] : tables[t][i].tx_id # x})
    OBVIOUS
  <2>1. PICK s \in Sessions : Rollback(s) /\ x = current_tx_id[s]
    BY EndedByRollback
  <2>2. PICK m : \A u \in Tables :
           /\ LastRows(tables[u], undo_segments[current_tx_id[s]], current_tx_id[s], u, m[u])
           /\ tables'[u] = SubSeq(tables[u], 1, m[u])
    BY <2>1, RolledBack
  <2> DEFINE rows == tables[t]
             c == m[t]
             others == {i \in DOMAIN rows : rows[i].tx_id # x}
  <2>3. rows \in Seq(Row) /\ LastRows(rows, undo_segments[x], x, t, c)
    BY <2>1, <2>2, UndoTypes DEF Undoable
  <2> HIDE DEF rows, c
  <2>4. c \in 0..Len(rows) /\ Len(rows) \in Nat /\ DOMAIN rows = 1..Len(rows)
    BY <2>3 DEF LastRows
  <2>5. \A i \in 1..Len(rows) : i \in others <=> i <= c
    BY <2>3, <2>4 DEF LastRows
  <2> HIDE DEF others
  <2>6. Picked(rows, others) = SubSeq(rows, 1, c)
    BY <2>3, <2>4, <2>5, PickedPrefix
  <2> QED BY <2>2, <2>6 DEF others, rows, c
<1>2. Spec => []Undoable
  BY AlwaysUndoable
<1> QED BY <1>1, <1>2, PTL DEF Spec, RollbackExact
-----------------------------------------------------------------------------
(***************************************************************************)
(* Rows have the columns of their schema as long as the server is not      *)
(* started again.  (Recovered rows may meet a later CREATE TABLE.)         *)
(***************************************************************************)
DemoFits ==
    \A t \in Tables : \A i \in 1..Len(DemoRows[t]) :
        DemoSchema(t) # NoSchema /\ Width[DemoRows[t][i]] = DemoSchema(t)

Fits(rows, w) ==
    \A i \in 1..Len(rows) : w # NoSchema /\ Width[rows[i].val] = w

LEMMA FitsTogether ==
    ASSUME NEW a \in Seq(Row), NEW b \in Seq(Row), NEW w, Fits(a, w), Fits(b, w)
    PROVE  a \o b \in Seq(Row) /\ Fits(a \o b, w)
<1>1. a \o b \in Seq(Row)
  BY ConcatProperties
<1>2. ASSUME NEW i \in 1..Len(a \o b)
      PROVE  w # NoSchema /\ Width[(a \o b)[i].val] = w
  <2>1. /\ Len(a) \in Nat /\ Len(b) \in Nat
        /\ i \in 1..(Len(a) + Len(b))
        /\ (a \o b)[i] = IF i <= Len(a) THEN a[i] ELSE b[i - Len(a)]
    BY <1>2, ConcatProperties
  <2>2. CASE i <= Len(a)
    BY <2>1, <2>2 DEF Fits
  <2>3. CASE ~(i <= Len(a))
    <3> DEFINE j == i - Len(a)
    <3>1. j \in 1..Len(b) /\ (a \o b)[i] = b[j]
      BY <2>1, <2>3
    <3> HIDE DEF j
    <3> QED BY <3>1 DEF Fits
  <2> QED BY <2>2, <2>3
<1> QED BY <1>1, <1>2 DEF Fits

LEMMA FitsWithout ==
    ASSUME NEW s \in Seq(Row), NEW c \in 1..Len(s), NEW w, Fits(s, w)
    PROVE  Fits(RemoveAt(s, c), w)
<1> DEFINE a == SubSeq(s, 1, c - 1)
           b == SubSeq(s, c + 1, Len(s))
<1>1. Len(s) \in Nat
  OBVIOUS
<1>2. a \in Seq(Row) /\ Len(a) = c - 1 /\ \A i \in 1..Len(a) : i \in 1..Len(s) /\ a[i] = s[i]
  BY <1>1
<1>3. b \in Seq(Row) /\ \A i \in 1..Len(b) : i + c \in 1..Len(s) /\ b[i] = s[i + c]
  BY <1>1
<1> HIDE DEF a, b
<1>4. Fits(a, w)
  BY <1>2 DEF Fits
<1>5. Fits(b, w)
  <2>1. ASSUME NEW i \in 1..Len(b) PROVE w # NoSchema /\ Width[b[i].val] = w
    <3> DEFINE j == i + c
    <3>1. j \in 1..Len(s) /\ b[i] = s[j]
      BY <1>3
    <3> HIDE DEF j
    <3> QED BY <3>1 DEF Fits
  <2> QED BY <2>1 DEF Fits
<1>6. Fits(a \o b, w)
  BY <1>2, <1>3, <1>4, <1>5, FitsTogether
<1> QED BY <1>6 DEF RemoveAt, a, b

\* What RemoveRow leaves of a table.
LEMMA RemoveRowOf ==
    ASSUME NEW tbls \in [Tables -> Seq(Row)], NEW rec \in UndoRecord, NEW t \in Tables
    PROVE  \/ RemoveRow(tbls, rec)[t] = tbls[t]
           \/ /\ rec.row_idx <= Len(tbls[t])
              /\ RemoveRow(tbls, rec)[t] = RemoveAt(tbls[t], rec.row_idx)
<1>1. rec.table \in Tables /\ rec.row_idx \in Nat
  BY DEF UndoRecord
<1> QED BY <1>1 DEF RemoveRow

AllFit(tbls, cat) == \A t \in Tables : Fits(tbls[t], cat[t])

LEMMA FitsUndone ==
    ASSUME NEW tbls \in [Tables -> Seq(Row)], NEW undo \in Seq(UndoRecord), NEW cat,
           AllFit(tbls, cat)
    PROVE  AllFit(Undone(tbls, undo), cat)
<1> DEFINE TS == [Tables -> Seq(Row)]
           F == {y \in TS : AllFit(y, cat)}
           A == [k \in 0..Len(undo) |-> F]
<1>1. Len(undo) \in Nat /\ tbls \in A[0]
  OBVIOUS
<1>2. ASSUME NEW k \in 1..Len(undo), NEW y \in TS, y \in A[k - 1]
      PROVE  RemoveRow(y, undo[Len(undo) + 1 - k]) \in A[k]
  <2> DEFINE rec == undo[Len(undo) + 1 - k]
             z == RemoveRow(y, rec)
  <2>1. rec \in UndoRecord
    BY <1>1
  <2>2. rec.table \in Tables /\ rec.row_idx \in Nat \ {0}
    BY <2>1 DEF UndoRecord
  <2>3. k \in 0..Len(undo) /\ k - 1 \in 0..Len(undo)
    BY <1>1
  <2>4. AllFit(y, cat)
    BY <1>2, <2>3
  <2> HIDE DEF rec
  <2>5. z \in TS
    BY <2>1, RemoveRowType
  <2>6. ASSUME NEW t \in Tables PROVE Fits(z[t], cat[t])
    <3>1. y[t] \in Seq(Row) /\ Fits(y[t], cat[t]) /\ Len(y[t]) \in Nat
      BY <2>4 DEF AllFit
    <3>2. \/ z[t] = y[t]
          \/ rec.row_idx <= Len(y[t]) /\ z[t] = RemoveAt(y[t], rec.row_idx)
      BY <2>1, RemoveRowOf
    <3>3. ASSUME rec.row_idx <= Len(y[t])
          PROVE  Fits(RemoveAt(y[t], rec.row_idx), cat[t])
      <4> DEFINE rows == y[t]
                 c == rec.row_idx
      <4>1. rows \in Seq(Row) /\ c \in 1..Len(rows) /\ Fits(rows, cat[t])
        BY <2>2, <3>1, <3>3
      <4> HIDE DEF rows, c
      <4>2. Fits(RemoveAt(rows, c), cat[t])
        BY <4>1, FitsWithout
      <4> QED BY <4>2 DEF rows, c
    <3> QED BY <3>1, <3>2, <3>3
  <2>7. AllFit(z, cat)
    BY <2>6 DEF AllFit
  <2> HIDE DEF z
  <2>8. z \in A[k]
    BY <2>3, <2>5, <2>7
  <2> QED BY <2>8 DEF z, rec
<1>3. Undone(tbls, undo) \in A[Len(undo)]
  <2> HIDE DEF A
  <2> QED BY <1>1, <1>2, UndoneStages
<1> QED BY <1>1, <1>3

\* Rows of values that fit.
LEMMA FitsNew ==
    ASSUME NEW rows \in Seq(Values), NEW x \in TxIds \cup {NoTx}, NEW w,
           \A i \in 1..Len(rows) : w # NoSchema /\ Width[rows[i]] = w
    PROVE  NewRows(rows, x) \in Seq(Row) /\ Fits(NewRows(rows, x), w)
<1> DEFINE new == NewRows(rows, x)
<1>1. new \in Seq(Row) /\ Len(rows) \in Nat
  BY NewRowsType
<1>2. new = [i \in 1..Len(rows) |-> [val |-> rows[i], tx_id |-> x]]
  BY DEF NewRows
<1>3. Len(new) = Len(rows)
  BY <1>1, <1>2, FunctionSeq
<1>4. \A i \in 1..Len(rows) : new[i].val = rows[i]
  BY <1>2
<1> HIDE DEF new
<1>5. Fits(new, w)
  BY <1>3, <1>4 DEF Fits
<1> QED BY <1>1, <1>5 DEF new

Fitting == Story /\ AllFit(tables, catalog)

LEMMA FittingBoot ==
    ASSUME MaxBoots = 1, DemoFits, Fitting, Boot
    PROVE  AllFit(tables', catalog')
<1>1. redo_log = <<>>
  BY DEF Fitting, Story, Owned, Typed, TypeOK, Boot
<1>2. ASSUME NEW t \in Tables PROVE Fits(tables'[t], catalog'[t])
  <2> DEFINE rows == DemoRows[t]
             w == DemoSchema(t)
  <2>1. tables'[t] = NewRows(rows, NoTx) /\ catalog'[t] = w
    <3>1. tables'[t] = BootRows(redo_log, t) /\ catalog'[t] = w
      BY DEF Boot
    <3>2. BootRows(<<>>, t) = NewRows(rows, NoTx)
      BY FirstRows
    <3> QED BY <1>1, <3>1, <3>2
  <2>2. rows \in Seq(Values) /\ \A i \in 1..Len(rows) : w # NoSchema /\ Width[rows[i]] = w
    BY DatabaseAssumption DEF DemoFits
  <2> HIDE DEF rows, w
  <2> QED BY <2>1, <2>2, FitsNew
<1> QED BY <1>2 DEF AllFit

LEMMA FittingInsert ==
    ASSUME Fitting, NEW s \in Sessions, NEW t \in Tables, NEW rows \in Inserts,
           Insert(s, t, rows)
    PROVE  AllFit(tables', catalog')
<1> DEFINE x == current_tx_id[s]
<1>1. PICK n \in 1..Len(rows) :
         /\ Accepted(rows, catalog[t], n)
         /\ tables' = [tables EXCEPT ![t] = @ \o NewRows(SubSeq(rows, 1, n), x)]
  BY DEF Insert
<1>2. /\ catalog' = catalog /\ catalog[t] # NoSchema
      /\ tables \in [Tables -> Seq(Row)] /\ x \in TxIds \cup {NoTx}
      /\ AllFit(tables, catalog)
  BY DEF Insert, Fitting, Story, Owned, Typed, TypeOK
<1> DEFINE vals == SubSeq(rows, 1, n)
           w == catalog[t]
<1>3. vals \in Seq(Values) /\ Len(vals) = n /\ \A i \in 1..n : vals[i] = rows[i]
  <2>1. rows \in Seq(Values) /\ n \in 1..Len(rows)
    BY DatabaseAssumption
  <2> QED BY <2>1
<1>4. \A i \in 1..Len(vals) : w # NoSchema /\ Width[vals[i]] = w
  BY <1>1, <1>2, <1>3 DEF Accepted
<1> HIDE DEF x, vals, w
<1>5. NewRows(vals, x) \in Seq(Row) /\ Fits(NewRows(vals, x), w)
  BY <1>2, <1>3, <1>4, FitsNew
<1>6. ASSUME NEW u \in Tables PROVE Fits(tables'[u], catalog'[u])
  <2>1. tables[u] \in Seq(Row) /\ Fits(tables[u], catalog[u])
    BY <1>2 DEF AllFit
  <2>2. CASE u = t
    <3>1. tables'[u] = tables[u] \o NewRows(vals, x) /\ catalog'[u] = w
      BY <1>1, <1>2, <2>2 DEF vals, w
    <3>2. catalog[u] = w
      BY <2>2 DEF w
    <3> QED BY <1>5, <2>1, <3>1, <3>2, FitsTogether
  <2>3. CASE u # t
    BY <1>1, <1>2, <2>1, <2>3
  <2> QED BY <2>2, <2>3
<1> QED BY <1>6 DEF AllFit

\* A table without a schema has no rows yet, whatever its columns will be.
LEMMA FittingCreate ==
    ASSUME Fitting, NEW t \in Tables, NEW w \in Widths, CreateTable(t, w)
    PROVE  AllFit(tables', catalog')
<1>1. /\ catalog' = [catalog EXCEPT ![t] = w] /\ tables' = tables
      /\ catalog \in [Tables -> Nat] /\ catalog[t] = NoSchema
      /\ AllFit(tables, catalog)
  BY DEF CreateTable, Fitting, Story, Owned, Typed, TypeOK
<1>2. ASSUME NEW u \in Tables PROVE Fits(tables'[u], catalog'[u])
  <2>1. CASE u = t
    BY <1>1, <2>1 DEF AllFit, Fits
  <2>2. CASE u # t
    BY <1>1, <2>2 DEF AllFit
  <2> QED BY <2>1, <2>2
<1> QED BY <1>2 DEF AllFit

\* In the first run of the server every row has as many columns as the schema
\* of its table, so that the executor's column positions exist in every row.
THEOREM RowsHaveTheirColumns ==
    ASSUME MaxBoots = 1, DemoFits PROVE Spec => []RowsFitSchema
<1>1. NoReuse
  BY DEF NoReuse
<1>2. Init => Fitting
  <2>1. \A t \in Tables : Init => Fits(tables[t], catalog[t])
    BY DEF Init, Fits
  <2> QED BY <1>1, <2>1, StoryInit DEF Fitting, AllFit
<1>3. Fitting /\ [Next]_vars => Fitting'
  <2> SUFFICES ASSUME Fitting, [Next]_vars PROVE AllFit(tables', catalog')
    BY <1>1, StoryStep DEF Fitting
  <2>1. CASE Boot
    BY <2>1, FittingBoot
  <2>2. CASE Crash \/ \E s \in Sessions : FlushCrash(s)
    BY <2>2 DEF Crash, FlushCrash, Fitting, Story, Owned, Typed, TypeOK
  <2>3. ASSUME NEW s \in Sessions, Rollback(s) PROVE AllFit(tables', catalog')
    <3> DEFINE undo == undo_segments[current_tx_id[s]]
    <3>1. /\ tables \in [Tables -> Seq(Row)] /\ undo \in Seq(UndoRecord)
          /\ AllFit(tables, catalog)
      BY <2>3 DEF Rollback, Fitting, Story, Owned, Typed, TypeOK
    <3>2. tables' = Undone(tables, undo) /\ catalog' = catalog
      BY <2>3 DEF Rollback
    <3> HIDE DEF undo
    <3> QED BY <3>1, <3>2, FitsUndone
  <2>4. ASSUME NEW s \in Sessions, NEW t \in Tables, NEW rows \in Inserts,
               Insert(s, t, rows)
        PROVE  AllFit(tables', catalog')
    BY <2>4, FittingInsert
  <2>5. ASSUME NEW t \in Tables, NEW w \in Widths, CreateTable(t, w)
        PROVE  AllFit(tables', catalog')
    BY <2>5, FittingCreate
  <2>6. CASE \/ \E s \in Sessions : Begin(s) \/ Commit(s) \/ Query(s) \/ Reconnect(s)
             \/ UNCHANGED vars
    <3>1. UNCHANGED <<tables, catalog>>
      BY <2>6 DEF Begin, Commit, Query, Reconnect, dbVars, vars
    <3> QED BY <3>1 DEF Fitting
  <2> QED BY <2>1, <2>2, <2>3, <2>4, <2>5, <2>6 DEF Next
<1>4. Fitting => RowsFitSchema
  <2> SUFFICES ASSUME Fitting, NEW t \in Tables, NEW i \in DOMAIN tables[t]
               PROVE  Width[tables[t][i].val] = catalog[t]
    BY DEF RowsFitSchema
  <2>1. tables[t] \in Seq(Row) /\ Fits(tables[t], catalog[t])
    BY DEF Fitting, AllFit, Story, Owned, Typed, TypeOK
  <2>2. i \in 1..Len(tables[t])
    BY <2>1
  <2> QED BY <2>1, <2>2 DEF Fits
<1> QED BY <1>2, <1>3, <1>4, PTL DEF Spec
-----------------------------------------------------------------------------
(***************************************************************************)
(* Committed rows stay.  A row that everyone sees keeps its place: behind  *)
(* the rows that a ROLLBACK takes off there are none of anybody else.      *)
(***************************************************************************)
Visible(x) ==
    \/ x = NoTx
    \/ statuses[x] = "Committed" /\ commit_scns[x] # NoScn /\ commit_scns[x] <= scn

Stay(t) ==
    \A x \in RowTxs : \A i \in 1..Len(tables[t]) :
        tables[t][i].tx_id = x /\ Visible(x) =>
            /\ i \in 1..Len(tables'[t]) /\ tables'[t][i] = tables[t][i]
            /\ Visible(x)'

LEMMA CopiesStay ==
    ASSUME Story, Story', NEW t \in Tables, NEW row \in Row, Stay(t)
    PROVE  PublishedCopies(t, row) <= PublishedCopies(t, row)'
<1> DEFINE now == {i \in 1..Len(tables[t]) : tables[t][i] = row /\ Visible(row.tx_id)}
           then == {i \in 1..Len(tables'[t]) : tables'[t][i] = row /\ Visible(row.tx_id)'}
<1>1. /\ DOMAIN tables[t] = 1..Len(tables[t]) /\ Len(tables[t]) \in Nat
      /\ DOMAIN tables'[t] = 1..Len(tables'[t]) /\ Len(tables'[t]) \in Nat
  BY DEF Story, Owned, Typed, TypeOK
<1>2. PublishedCopies(t, row) = Cardinality(now)
  BY <1>1 DEF PublishedCopies, is_visible, Visible
<1>3. PublishedCopies(t, row)' = Cardinality(then)
  BY <1>1 DEF PublishedCopies, is_visible, Visible
<1>4. now \subseteq then
  <2>1. row.tx_id \in RowTxs
    BY DEF Row, RowTxs
  <2> QED BY <2>1 DEF Stay
<1>5. IsFiniteSet(then)
  <2>1. IsFiniteSet(1..Len(tables'[t]))
    BY <1>1, FS_Interval
  <2>2. then \subseteq 1..Len(tables'[t])
    OBVIOUS
  <2> HIDE DEF then
  <2> QED BY <2>1, <2>2, FS_Subset
<1> HIDE DEF now, then
<1>6. Cardinality(now) <= Cardinality(then)
  BY <1>4, <1>5, FS_Subset
<1> QED BY <1>2, <1>3, <1>6

\* Steps that keep the tables and make no commit undone.
LEMMA StayKept ==
    ASSUME Story, tables' = tables, NEW t \in Tables,
           \A x \in RowTxs : \A i \in 1..Len(tables[t]) :
               tables[t][i].tx_id = x /\ Visible(x) => Visible(x)'
    PROVE  Stay(t)
BY DEF Stay

LEMMA StayBegin ==
    ASSUME Undoable, Story', NEW s \in Sessions, Begin(s), NEW t \in Tables
    PROVE  Stay(t)
<1> DEFINE x == next_tx_id
<1>1. /\ up /\ up' = up /\ boots' = boots /\ tables' = tables
      /\ statuses' = [statuses EXCEPT ![x] = "Active"]
      /\ UNCHANGED <<scn, commit_scns>>
      /\ current_tx_id' = [current_tx_id EXCEPT ![s] = x]
  BY DEF Begin, begin, procVars, dbVars
<1>2. /\ x \in TxIds /\ x \in Nat /\ statuses \in [TxIds -> TxStatus]
      /\ current_tx_id \in [Sessions -> TxIds \cup {NoTx}]
  BY BeginTyped DEF Undoable, Story, Owned, Typed, TypeOK
<1>3. boots = 1
  <2>1. \E r \in Sessions : current_tx_id'[r] # NoTx
    BY <1>1, <1>2, TxIdAssumption
  <2> QED BY <1>1, <2>1 DEF Story
<1>4. \A i \in 1..Len(tables[t]) : tables[t][i].tx_id \in RowTxs \ {x}
  <2>1. \A i \in 1..Len(tables[t]) : tables[t][i].tx_id < x /\ tables[t][i].tx_id \in RowTxs
    BY <1>1, <1>3, UndoTypes DEF Undoable
  <2>2. \A y \in RowTxs : y \in Nat
    BY UndoTypes DEF Undoable
  <2> QED BY <1>2, <2>1, <2>2
<1>5. ASSUME NEW y \in RowTxs \ {x}, Visible(y) PROVE Visible(y)'
  BY <1>1, <1>2, <1>5 DEF Visible, RowTxs
<1> QED BY <1>1, <1>4, <1>5, StayKept DEF Undoable

LEMMA StayCommit ==
    ASSUME Undoable, NEW s \in Sessions, Commit(s), NEW t \in Tables
    PROVE  Stay(t)
<1> DEFINE x == current_tx_id[s]
<1>1. /\ tables' = tables /\ scn' = scn + 1
      /\ statuses' = [statuses EXCEPT ![x] = "Committed"]
      /\ commit_scns' = [commit_scns EXCEPT ![x] = scn + 1]
  BY DEF Commit, commit, dbVars
<1>2. /\ x \in TxIds /\ statuses[x] = "Active" /\ scn \in Nat
      /\ statuses \in [TxIds -> TxStatus] /\ commit_scns \in [TxIds -> Nat]
  BY DEF Commit, Undoable, Story, Owned, TxOwnedOnce, Typed, TypeOK
<1> HIDE DEF x
<1>3. ASSUME NEW y \in RowTxs, Visible(y) PROVE Visible(y)'
  <2>1. CASE y = NoTx
    BY <2>1 DEF Visible
  <2>2. CASE y # NoTx
    <3>1. /\ y \in TxIds /\ y # x
          /\ statuses[y] = "Committed" /\ commit_scns[y] # NoScn /\ commit_scns[y] <= scn
      BY <1>2, <1>3, <2>2 DEF Visible, RowTxs
    <3>2. statuses'[y] = statuses[y] /\ commit_scns'[y] = commit_scns[y] /\ commit_scns[y] \in Nat
      BY <1>1, <1>2, <3>1
    <3> QED BY <1>1, <1>2, <3>1, <3>2 DEF Visible
  <2> QED BY <2>1, <2>2
<1> QED BY <1>1, <1>3, StayKept, UndoTypes DEF Undoable

LEMMA StayRollback ==
    ASSUME Undoable, NEW s \in Sessions, Rollback(s), NEW t \in Tables
    PROVE  Stay(t)
<1> DEFINE x == current_tx_id[s]
<1>1. /\ UNCHANGED <<scn, commit_scns>>
      /\ statuses' = [statuses EXCEPT ![x] = "RolledBack"]
  BY DEF Rollback, rollback
<1>2. /\ x \in TxIds /\ statuses[x] = "Active"
      /\ statuses \in [TxIds -> TxStatus]
  BY DEF Rollback, Undoable, Story, Owned, TxOwnedOnce, Typed, TypeOK
<1>3. PICK m : \A u \in Tables :
         /\ LastRows(tables[u], undo_segments[x], x, u, m[u])
         /\ tables'[u] = SubSeq(tables[u], 1, m[u])
  BY RolledBack
<1> HIDE DEF x
<1> DEFINE rows == tables[t]
           c == m[t]
<1>4. rows \in Seq(Row) /\ LastRows(rows, undo_segments[x], x, t, c)
  BY <1>3, UndoTypes DEF Undoable
<1>5. /\ \A i \in 1..Len(rows) : rows[i].tx_id \in RowTxs
      /\ tables'[t] = SubSeq(rows, 1, c)
  BY <1>3, UndoTypes DEF Undoable
<1> HIDE DEF rows
<1>6. c \in 0..Len(rows) /\ Len(rows) \in Nat
  BY <1>4 DEF LastRows
<1> HIDE DEF c
<1>7. Len(tables'[t]) = c /\ \A i \in 1..c : tables'[t][i] = rows[i]
  BY <1>4, <1>5, <1>6, FirstPart
<1>8. ASSUME NEW y \in RowTxs, NEW i \in 1..Len(rows),
             rows[i].tx_id = y, Visible(y)
      PROVE  i \in 1..c /\ Visible(y)'
  <2>1. y # x
    BY <1>2, <1>8, TxIdAssumption DEF Visible
  <2>2. i <= c
    BY <1>4, <1>6, <1>8, <2>1 DEF LastRows
  <2>3. y \in RowTxs /\ Visible(y)
    BY <1>8
  <2>4. Visible(y)'
    <3>1. CASE y = NoTx
      BY <3>1 DEF Visible
    <3>2. CASE y # NoTx
      <4>1. y \in TxIds /\ statuses'[y] = statuses[y]
        BY <1>1, <1>2, <2>1, <2>3, <3>2 DEF RowTxs
      <4> QED BY <1>1, <2>3, <4>1 DEF Visible
    <3> QED BY <3>1, <3>2
  <2> QED BY <1>6, <2>2, <2>4
<1> QED BY <1>7, <1>8 DEF Stay, rows

LEMMA StayInsert ==
    ASSUME Undoable, NEW s \in Sessions, NEW t \in Tables, NEW rows \in Inserts,
           Insert(s, t, rows), NEW u \in Tables
    PROVE  Stay(u)
<1> DEFINE x == current_tx_id[s]
<1>1. PICK n \in 1..Len(rows) :
         /\ tables' = [tables EXCEPT ![t] = @ \o NewRows(SubSeq(rows, 1, n), x)]
         /\ IF x = NoTx
            THEN UNCHANGED <<logVars, txVars>>
            ELSE record_inserts(x, t, SubSeq(rows, 1, n), Len(tables[t]))
  BY DEF Insert
<1>2. UNCHANGED <<statuses, commit_scns, scn>>
  BY <1>1 DEF record_inserts, txVars
<1>3. tables \in [Tables -> Seq(Row)] /\ x \in TxIds \cup {NoTx}
  BY DEF Undoable, Story, Owned, Typed, TypeOK
<1> DEFINE vals == SubSeq(rows, 1, n)
           new == NewRows(vals, x)
           old == tables[u]
<1>4. new \in Seq(Row)
  <2>1. rows \in Seq(Values) /\ n \in 1..Len(rows)
    BY DatabaseAssumption
  <2>2. vals \in Seq(Values)
    BY <2>1
  <2> HIDE DEF vals, x
  <2> QED BY <1>3, <2>2, NewRowsType
<1>5. old \in Seq(Row) /\ tables'[u] \in {old, old \o new}
  BY <1>1, <1>3
<1> HIDE DEF x, new
<1>6. ASSUME NEW i \in 1..Len(old)
      PROVE  i \in 1..Len(tables'[u]) /\ tables'[u][i] = old[i]
  <2> HIDE DEF old
  <2>1. /\ Len(old) \in Nat /\ Len(old \o new) = Len(old) + Len(new) /\ Len(new) \in Nat
        /\ (old \o new)[i] = old[i]
    BY <1>4, <1>5, ConcatProperties
  <2> QED BY <1>5, <2>1
<1>7. ASSUME NEW y, Visible(y) PROVE Visible(y)'
  BY <1>2, <1>7 DEF Visible
<1> QED BY <1>6, <1>7 DEF Stay

\* What a session outside any transaction sees of a table never goes away while
\* the server runs (tx.rs:152): no statement of anyone hides or removes a
\* committed row, as long as into every table one session inserts and no id is
\* begun again after a restart.
THEOREM CommittedRowsStay == ASSUME NoReuse, OneWriter PROVE Spec => PublishedRowsStay
<1>1. Undoable /\ Undoable' /\ [Next]_vars =>
         (up /\ up' => \A t \in Tables, row \in Row :
                           PublishedCopies(t, row) <= PublishedCopies(t, row)')
  <2> SUFFICES ASSUME Undoable, Undoable', [Next]_vars, up, up', NEW t \in Tables
               PROVE  Stay(t)
    BY CopiesStay DEF Undoable
  <2>1. ~Boot
    BY DEF Boot
  <2>2. ~Crash /\ \A s \in Sessions : ~FlushCrash(s)
    BY DEF Crash, FlushCrash, Lost
  <2>3. ASSUME NEW s \in Sessions, Begin(s) PROVE Stay(t)
    BY <2>3, StayBegin DEF Undoable
  <2>4. ASSUME NEW s \in Sessions, Commit(s) PROVE Stay(t)
    BY <2>4, StayCommit
  <2>5. ASSUME NEW s \in Sessions, Rollback(s) PROVE Stay(t)
    BY <2>5, StayRollback
  <2>6. ASSUME NEW s \in Sessions, NEW u \in Tables, NEW rows \in Inserts,
               Insert(s, u, rows)
        PROVE  Stay(t)
    BY <2>6, StayInsert
  <2>7. CASE \/ \E s \in Sessions : Query(s) \/ Reconnect(s)
             \/ \E u \in Tables, w \in Widths : CreateTable(u, w)
             \/ UNCHANGED vars
    <3>1. UNCHANGED <<tables, statuses, commit_scns, scn>>
      BY <2>7 DEF Query, Reconnect, CreateTable, dbVars, txVars, vars
    <3>2. ASSUME NEW y, Visible(y) PROVE Visible(y)'
      BY <3>1, <3>2 DEF Visible
    <3> QED BY <3>1, <3>2, StayKept DEF Undoable
  <2> QED BY <2>1, <2>2, <2>3, <2>4, <2>5, <2>6, <2>7 DEF Next
<1>2. Spec => []Undoable
  BY AlwaysUndoable
<1> QED BY <1>1, <1>2, PTL DEF Spec, PublishedRowsStay
-----------------------------------------------------------------------------
(***************************************************************************)
(* Counting in sequences.                                                  *)
(***************************************************************************)
Hits(s, G) == {i \in 1..Len(s) : s[i] \in G}
Count(s, G) == Cardinality(Hits(s, G))

LEMMA CountType ==
    ASSUME NEW S, NEW s \in Seq(S), NEW G
    PROVE  IsFiniteSet(Hits(s, G)) /\ Count(s, G) \in Nat /\ Hits(s, G) \subseteq 1..Len(s)
<1>1. Len(s) \in Nat /\ Hits(s, G) \subseteq 1..Len(s)
  BY DEF Hits
<1>2. IsFiniteSet(1..Len(s))
  BY <1>1, FS_Interval
<1>3. IsFiniteSet(Hits(s, G))
  BY <1>1, <1>2, FS_Subset
<1> QED BY <1>1, <1>3, FS_CardinalityType DEF Count

\* A sequence whose hits are hits of another, at the same positions.
LEMMA CountLess ==
    ASSUME NEW S, NEW T, NEW a \in Seq(S), NEW b \in Seq(T), NEW G, NEW H,
           Len(a) <= Len(b), \A i \in 1..Len(a) : a[i] \in G => b[i] \in H
    PROVE  Count(a, G) <= Count(b, H)
<1>1. Hits(a, G) \subseteq Hits(b, H)
  <2>1. Len(a) \in Nat /\ Len(b) \in Nat
    OBVIOUS
  <2> QED BY <2>1 DEF Hits
<1>2. IsFiniteSet(Hits(b, H))
  BY CountType
<1> QED BY <1>1, <1>2, FS_Subset DEF Count

\* No hits.
LEMMA CountNone ==
    ASSUME NEW s, NEW G, \A i \in 1..Len(s) : s[i] \notin G
    PROVE  Count(s, G) = 0
<1>1. Hits(s, G) = {}
  BY DEF Hits
<1> QED BY <1>1, FS_EmptySet DEF Count

LEMMA CountConcat ==
    ASSUME NEW S, NEW a \in Seq(S), NEW b \in Seq(S), NEW G
    PROVE  Count(a \o b, G) = Count(a, G) + Count(b, G)
<1> DEFINE A == Hits(a, G)
           B == Hits(b, G)
           all == a \o b
           Moved == {Len(a) + i : i \in B}
           shift == [i \in B |-> Len(a) + i]
<1>1. /\ Len(a) \in Nat /\ Len(b) \in Nat /\ all \in Seq(S) /\ Len(all) = Len(a) + Len(b)
      /\ \A i \in 1..Len(a) : i \in 1..Len(all) /\ all[i] = a[i]
      /\ \A i \in 1..Len(b) : Len(a) + i \in 1..Len(all) /\ all[Len(a) + i] = b[i]
  <2>1. /\ Len(a) \in Nat /\ Len(b) \in Nat /\ all \in Seq(S) /\ Len(all) = Len(a) + Len(b)
        /\ \A i \in 1..(Len(a) + Len(b)) :
              all[i] = IF i <= Len(a) THEN a[i] ELSE b[i - Len(a)]
    BY ConcatProperties
  <2>2. \A i \in 1..Len(a) : i \in 1..Len(all) /\ all[i] = a[i]
    BY <2>1
  <2>3. ASSUME NEW i \in 1..Len(b)
        PROVE  Len(a) + i \in 1..Len(all) /\ all[Len(a) + i] = b[i]
    <3> DEFINE j == Len(a) + i
    <3>1. j \in 1..(Len(a) + Len(b)) /\ ~(j <= Len(a)) /\ j - Len(a) = i
      BY <2>1
    <3> HIDE DEF j
    <3>2. all[j] = b[j - Len(a)]
      BY <2>1, <3>1
    <3> QED BY <2>1, <3>1, <3>2 DEF j
  <2> QED BY <2>1, <2>2, <2>3
<1>2. /\ IsFiniteSet(A) /\ IsFiniteSet(B) /\ Count(a, G) \in Nat /\ Count(b, G) \in Nat
      /\ A \subseteq 1..Len(a) /\ B \subseteq 1..Len(b)
  BY CountType
<1> HIDE DEF all
<1>3. Hits(all, G) = A \cup Moved
  <2>1. ASSUME NEW i \in Hits(all, G) PROVE i \in A \cup Moved
    <3>1. i \in 1..Len(all) /\ all[i] \in G
      BY <2>1 DEF Hits
    <3>2. CASE i <= Len(a)
      <4>1. i \in 1..Len(a) /\ a[i] \in G
        BY <1>1, <3>1, <3>2
      <4> QED BY <4>1 DEF Hits
    <3>3. CASE ~(i <= Len(a))
      <4> DEFINE j == i - Len(a)
      <4>1. j \in 1..Len(b) /\ Len(a) + j = i
        BY <1>1, <3>1, <3>3
      <4> HIDE DEF j
      <4>2. b[j] \in G
        BY <1>1, <3>1, <4>1
      <4>3. j \in B
        BY <4>1, <4>2 DEF Hits
      <4> QED BY <4>1, <4>3
    <3> QED BY <3>2, <3>3
  <2>2. ASSUME NEW i \in A PROVE i \in Hits(all, G)
    BY <1>1, <2>2 DEF Hits
  <2>3. ASSUME NEW i \in B PROVE Len(a) + i \in Hits(all, G)
    BY <1>1, <2>3 DEF Hits
  <2> QED BY <2>1, <2>2, <2>3
<1> HIDE DEF A, B
<1>4. A \cap Moved = {}
  BY <1>1, <1>2
<1>5. IsFiniteSet(Moved) /\ Cardinality(Moved) = Cardinality(B)
  <2>1. shift \in [B -> Moved]
    OBVIOUS
  <2>2. \A i, j \in B : i # j => shift[i] # shift[j]
    BY <1>1, <1>2
  <2>3. \A y \in Moved : \E i \in B : shift[i] = y
    OBVIOUS
  <2> HIDE DEF shift, Moved
  <2>4. shift \in Bijection(B, Moved)
    BY <2>1, <2>2, <2>3 DEF Bijection, Injection, Surjection, IsInjective
  <2>5. ExistsBijection(B, Moved)
    BY <2>4 DEF ExistsBijection
  <2> QED BY <1>2, <2>5, FS_Bijection
<1> HIDE DEF Moved
<1>6. Cardinality(A \cup Moved) = Cardinality(A) + Cardinality(Moved) - Cardinality({})
  BY <1>2, <1>4, <1>5, FS_Union
<1>7. Cardinality({}) = 0
  BY FS_EmptySet
<1> QED BY <1>2, <1>3, <1>5, <1>6, <1>7 DEF Count, A, B, all

LEMMA CountWithout ==
    ASSUME NEW S, NEW s \in Seq(S), NEW c \in 1..Len(s), NEW G
    PROVE  Count(RemoveAt(s, c), G) <= Count(s, G)
<1> DEFINE a == SubSeq(s, 1, c - 1)
           d == SubSeq(s, 1, c)
           b == SubSeq(s, c + 1, Len(s))
<1>1. Len(s) \in Nat /\ b \in Seq(S)
  OBVIOUS
<1>2. a \in Seq(S) /\ Len(a) = c - 1 /\ \A i \in 1..(c - 1) : a[i] = s[i]
  BY <1>1
<1>3. d \in Seq(S) /\ Len(d) = c /\ \A i \in 1..c : d[i] = s[i]
  BY <1>1
<1>4. s = d \o b
  BY <1>1
<1> HIDE DEF a, b, d
<1>5. Count(a, G) <= Count(d, G)
  <2>1. Len(a) <= Len(d) /\ \A i \in 1..Len(a) : a[i] \in G => d[i] \in G
    BY <1>2, <1>3
  <2> QED BY <1>2, <1>3, <2>1, CountLess
<1>6. Count(a \o b, G) = Count(a, G) + Count(b, G) /\ Count(d \o b, G) = Count(d, G) + Count(b, G)
  BY <1>1, <1>2, <1>3, CountConcat
<1>7. Count(a, G) \in Nat /\ Count(b, G) \in Nat /\ Count(d, G) \in Nat
  BY <1>1, <1>2, <1>3, CountType
<1>8. Count(a \o b, G) <= Count(d \o b, G)
  BY <1>5, <1>6, <1>7
<1>9. RemoveAt(s, c) = a \o b
  BY DEF RemoveAt, a, b
<1> QED BY <1>4, <1>8, <1>9

\* Two lines that are not counted may merge into one.
LEMMA CountJoined ==
    ASSUME NEW log \in Seq(LogLines), NEW lines \in Seq(LogLines),
           NEW terminated \in BOOLEAN, ~terminated, log # <<>>, lines # <<>>, NEW G,
           Last(log) \notin G, Head(lines) \notin G
    PROVE  Count(log \o lines, G) <= Count(Appended(log, terminated, lines), G)
<1> DEFINE new == Appended(log, terminated, lines)
           m == Len(log)
           n == Len(lines)
           a == SubSeq(new, 1, m)
           b == SubSeq(new, m + 1, m + n - 1)
           h == SubSeq(lines, 1, 1)
           r == SubSeq(lines, 2, n)
<1>1. /\ m \in Nat /\ n \in Nat /\ m >= 1 /\ n >= 1
      /\ new \in Seq(LogLines) /\ Len(new) = m + n - 1
      /\ \A i \in 1..m + n - 1 : i <= m - 1 => new[i] = log[i]
      /\ \A i \in 1..m + n - 1 : i > m => new[i] = lines[i - m + 1]
  <2>1. m \in Nat /\ n \in Nat
    OBVIOUS
  <2>2. /\ m >= 1 /\ n >= 1 /\ new \in Seq(LogLines) /\ Len(new) = m + n - 1
        /\ \A i \in 1..m + n - 1 : new[i]
              = IF i <= m - 1 THEN log[i]
                ELSE IF i = m THEN Joined(Last(log), Head(lines)) ELSE lines[i - m + 1]
    BY AppendedJoins
  <2> HIDE DEF new, m, n
  <2>3. \A i \in 1..m + n - 1 : i > m => ~(i <= m - 1) /\ i # m
    BY <2>1
  <2> QED BY <2>1, <2>2, <2>3
<1>2. Last(log) = log[m] /\ Head(lines) = lines[1]
  BY DEF Last
<1>3. lines \in Seq(LogLines) /\ log \in Seq(LogLines) /\ Len(lines) = n /\ Len(log) = m
  OBVIOUS
<1> HIDE DEF new, m, n
<1>4. /\ a \in Seq(LogLines) /\ Len(a) = m /\ \A i \in 1..m : a[i] = new[i]
      /\ b \in Seq(LogLines) /\ Len(b) = n - 1 /\ \A i \in 1..n - 1 : b[i] = new[m + i]
      /\ a \o b = new
  BY <1>1, ConcatAdjacentSubSeq
<1>5. /\ h \in Seq(LogLines) /\ Len(h) = 1 /\ h[1] = lines[1]
      /\ r \in Seq(LogLines) /\ Len(r) = n - 1 /\ \A i \in 1..n - 1 : r[i] = lines[i + 1]
      /\ h \o r = lines
  BY <1>1, <1>3, ConcatAdjacentSubSeq
<1> HIDE DEF a, b, h, r
<1>6. Count(log, G) <= Count(a, G)
  <2>1. ASSUME NEW i \in 1..m, log[i] \in G PROVE a[i] \in G
    <3>1. i # m
      BY <2>1, <1>2
    <3>2. i <= m - 1 /\ i \in 1..m + n - 1
      BY <3>1, <1>1
    <3> QED BY <2>1, <3>2, <1>1, <1>4
  <2> QED BY <2>1, <1>1, <1>3, <1>4, CountLess
<1>7. Count(r, G) <= Count(b, G)
  <2>1. ASSUME NEW i \in 1..n - 1, r[i] \in G PROVE b[i] \in G
    <3>1. m + i \in 1..m + n - 1 /\ m + i > m /\ m + i - m + 1 = i + 1
      BY <1>1
    <3>2. new[m + i] = lines[i + 1]
      BY <3>1, <1>1
    <3> QED BY <2>1, <3>2, <1>4, <1>5
  <2>2. Len(r) <= Len(b) /\ \A i \in 1..Len(r) : r[i] \in G => b[i] \in G
    BY <2>1, <1>1, <1>4, <1>5
  <2>3. r \in Seq(LogLines) /\ b \in Seq(LogLines)
    BY <1>4, <1>5
  <2> QED BY <2>2, <2>3, CountLess
<1>8. Count(h, G) = 0
  <2>1. \A i \in 1..Len(h) : h[i] \notin G
    BY <1>2, <1>5
  <2> QED BY <2>1, CountNone
<1>9. /\ Count(lines, G) = Count(h, G) + Count(r, G)
      /\ Count(new, G) = Count(a, G) + Count(b, G)
      /\ Count(log \o lines, G) = Count(log, G) + Count(lines, G)
  <2>1. Count(h \o r, G) = Count(h, G) + Count(r, G)
    BY <1>5, CountConcat
  <2>2. Count(a \o b, G) = Count(a, G) + Count(b, G)
    BY <1>4, CountConcat
  <2>3. Count(log \o lines, G) = Count(log, G) + Count(lines, G)
    BY CountConcat
  <2> QED BY <2>1, <2>2, <2>3, <1>4, <1>5
<1>10. /\ Count(log, G) \in Nat /\ Count(a, G) \in Nat /\ Count(b, G) \in Nat
       /\ Count(r, G) \in Nat
  BY <1>3, <1>4, <1>5, CountType
<1>11. Count(log \o lines, G) <= Count(new, G)
  BY <1>6, <1>7, <1>8, <1>9, <1>10
<1> QED BY <1>11 DEF new

LEMMA CountPicked ==
    ASSUME NEW S, NEW s \in Seq(S), NEW K, NEW G
    PROVE  Picked(s, K) \in Seq(S) /\ Count(Picked(s, K), G) <= Count(s, G)
<1> DEFINE few(x, i) == Count(x, G) <= Count(SubSeq(s, 1, i), G)
           A == [i \in 0..Len(s) |-> {x \in Seq(S) : few(x, i)}]
<1>1. Len(s) \in Nat
  OBVIOUS
<1>2. <<>> \in A[0]
  <2>1. <<>> \in Seq(S) /\ SubSeq(s, 1, 0) = <<>>
    BY <1>1
  <2>2. Count(<<>>, G) \in Nat
    BY <2>1, CountType
  <2>3. few(<<>>, 0)
    <3> DEFINE c == Count(<<>>, G)
    <3>1. c <= c
      <4> HIDE DEF c
      <4> QED BY <2>2 DEF c
    <3> QED BY <2>1, <3>1
  <2> HIDE DEF few
  <2> QED BY <1>1, <2>1, <2>3
<1>3. ASSUME NEW i \in 1..Len(s), NEW x \in Seq(S), x \in A[i - 1]
      PROVE  (IF i \in K THEN Append(x, s[i]) ELSE x) \in A[i]
  <2> DEFINE h == i - 1
             e == <<s[i]>>
             p == SubSeq(s, 1, h)
  <2>1. h \in 0..Len(s) /\ i \in 0..Len(s)
    BY <1>1
  <2>2. e \in Seq(S) /\ p \in Seq(S) /\ SubSeq(s, 1, i) = p \o e /\ Append(x, s[i]) = x \o e
    BY <1>1
  <2>3. x \in A[h]
    BY <1>3
  <2> HIDE DEF h, e, p
  <2>4. Count(x, G) <= Count(p, G)
    <3>1. x \in {v \in Seq(S) : few(v, h)}
      BY <2>1, <2>3, Zenon
    <3> QED BY <3>1 DEF p
  <2>5. /\ Count(p \o e, G) = Count(p, G) + Count(e, G)
        /\ Count(x \o e, G) = Count(x, G) + Count(e, G)
        /\ Count(x, G) \in Nat /\ Count(p, G) \in Nat /\ Count(e, G) \in Nat
    BY <2>2, CountConcat, CountType
  <2>6. few(x \o e, i) /\ few(x, i)
    <3>1. Count(x \o e, G) <= Count(p \o e, G) /\ Count(x, G) <= Count(p \o e, G)
      BY <2>4, <2>5
    <3> QED BY <2>2, <3>1
  <2>7. x \o e \in Seq(S)
    BY <2>2, ConcatProperties
  <2> HIDE DEF few
  <2>8. x \o e \in A[i] /\ x \in A[i]
    BY <2>1, <2>6, <2>7
  <2> HIDE DEF A
  <2> QED BY <2>2, <2>8
<1>4. Picked(s, K) \in Seq(S) /\ Picked(s, K) \in A[Len(s)]
  <2> HIDE DEF A
  <2> QED BY <1>2, <1>3, PickedStages
<1>5. Len(s) \in 0..Len(s) /\ SubSeq(s, 1, Len(s)) = s
  BY <1>1
<1> QED BY <1>4, <1>5
-----------------------------------------------------------------------------
(***************************************************************************)
(* Write-ahead logging, for a disk that does not fail, values that JSON    *)
(* can hold, and crashes that cut no write between a record and its        *)
(* newline (or no later run that begins transactions).  Counted per        *)
(* transaction, table and value there are never more rows in the tables    *)
(* than insert records in log and buffer; what is in the buffer is of open *)
(* transactions only, as every COMMIT and ROLLBACK empties it; and the     *)
(* line that a crash left torn costs the next run no more than a BEGIN.    *)
(***************************************************************************)
SoundDisk == DiskTails = {} /\ NonFinite = {}

CleanWrites ==
    /\ SoundDisk
    /\ NoBareRecord \/ NoReuse

InsertsInto(x, t, v) == {r \in InsertRecords : r.tx_id = x /\ r.table = t /\ r.val = v}
RowWith(x, v) == {[val |-> v, tx_id |-> x]}

Logged(log, tbls) ==
    \A x \in TxIds, t \in Tables, v \in Values :
        Count(tbls[t], RowWith(x, v)) <= Count(log, InsertsInto(x, t, v))

CommitsIn(log, stats, scns) ==
    \A x \in TxIds : stats[x] = "Committed" =>
        \E i \in 1..Len(log) :
            log[i].type = "commit" /\ log[i].tx_id = x /\ log[i].scn = scns[x]

BufferOpen ==
    \A i \in 1..Len(redo_buffer) : statuses[redo_buffer[i].tx_id] = "Active"

\* What a crash may leave unterminated: a line that cannot be read, which the
\* first record of a run, a BEGIN, will be joined to; or any, if no run comes
\* to write behind it.
Resumed ==
    ~eol =>
        /\ \/ Last(redo_log) \in Unreadable
           \/ NoReuse /\ redo_buffer = <<>> /\ boots # 0 /\ (up => boots # 1)
        /\ IF redo_buffer = <<>>
           THEN \A s \in Sessions : current_tx_id[s] = NoTx
           ELSE Head(redo_buffer).type = "begin"

Ahead ==
    /\ Ordered /\ Owned
    /\ Resumed
    /\ BufferOpen
    /\ CommitsIn(redo_log, statuses, commit_scns)
    /\ Logged(History, tables)

LEMMA AheadTypes ==
    ASSUME Ordered
    PROVE  /\ redo_log \in Seq(LogLines) /\ redo_buffer \in Seq(RedoRecords)
           /\ redo_buffer \in Seq(LogLines) /\ History \in Seq(LogLines)
           /\ statuses \in [TxIds -> TxStatus] /\ commit_scns \in [TxIds -> Nat]
           /\ tables \in [Tables -> Seq(Row)] /\ scn \in Nat
           /\ undo_segments \in [TxIds -> Seq(UndoRecord)]
           /\ current_tx_id \in [Sessions -> TxIds \cup {NoTx}]
           /\ \A r \in Seq(RedoRecords) : r \in Seq(LogLines)
<1>1. /\ redo_log \in Seq(LogLines) /\ redo_buffer \in Seq(RedoRecords)
      /\ statuses \in [TxIds -> TxStatus] /\ commit_scns \in [TxIds -> Nat]
      /\ tables \in [Tables -> Seq(Row)] /\ scn \in Nat
      /\ undo_segments \in [TxIds -> Seq(UndoRecord)]
      /\ current_tx_id \in [Sessions -> TxIds \cup {NoTx}]
  BY DEF Ordered, Typed, TypeOK
<1>2. \A r \in Seq(RedoRecords) : r \in Seq(LogLines)
  BY SeqMonotonic DEF LogLines
<1>3. History \in Seq(LogLines)
  BY HistoryTyped DEF Ordered
<1> QED BY <1>1, <1>2, <1>3

Fewer(new, old) ==
    \A t \in Tables : \A x \in TxIds, v \in Values :
        Count(new[t], RowWith(x, v)) <= Count(old[t], RowWith(x, v))

\* More log, fewer rows.
LEMMA LoggedGrown ==
    ASSUME NEW log \in Seq(LogLines), NEW recs \in Seq(LogLines),
           NEW old \in [Tables -> Seq(Row)], NEW new \in [Tables -> Seq(Row)],
           Logged(log, old), Fewer(new, old)
    PROVE  Logged(log \o recs, new)
<1> SUFFICES ASSUME NEW x \in TxIds, NEW t \in Tables, NEW v \in Values
             PROVE  Count(new[t], RowWith(x, v)) <= Count(log \o recs, InsertsInto(x, t, v))
  BY DEF Logged
<1> DEFINE a == Count(new[t], RowWith(x, v))
           b == Count(old[t], RowWith(x, v))
           c == Count(log, InsertsInto(x, t, v))
           d == Count(recs, InsertsInto(x, t, v))
<1>1. a \in Nat /\ b \in Nat /\ c \in Nat /\ d \in Nat
  <2>1. new[t] \in Seq(Row) /\ old[t] \in Seq(Row)
    OBVIOUS
  <2> QED BY <2>1, CountType
<1>2. a <= b /\ b <= c
  BY DEF Fewer, Logged
<1>3. Count(log \o recs, InsertsInto(x, t, v)) = c + d
  BY CountConcat
<1> HIDE DEF a, b, c, d
<1>4. a <= c + d
  BY <1>1, <1>2
<1> QED BY <1>3, <1>4 DEF a

LEMMA FewerSame ==
    ASSUME NEW old \in [Tables -> Seq(Row)]
    PROVE  Fewer(old, old)
<1>1. \A t \in Tables : \A G : Count(old[t], G) \in Nat
  <2>1. \A t \in Tables : old[t] \in Seq(Row)
    OBVIOUS
  <2> QED BY <2>1, CountType
<1> QED BY <1>1 DEF Fewer

LEMMA FewerUndone ==
    ASSUME NEW old \in [Tables -> Seq(Row)], NEW undo \in Seq(UndoRecord)
    PROVE  Undone(old, undo) \in [Tables -> Seq(Row)] /\ Fewer(Undone(old, undo), old)
<1> DEFINE TS == [Tables -> Seq(Row)]
           F == {y \in TS : Fewer(y, old)}
           A == [k \in 0..Len(undo) |-> F]
<1>1. Len(undo) \in Nat /\ old \in A[0]
  BY FewerSame
<1>2. ASSUME NEW k \in 1..Len(undo), NEW y \in TS, y \in A[k - 1]
      PROVE  RemoveRow(y, undo[Len(undo) + 1 - k]) \in A[k]
  <2> DEFINE rec == undo[Len(undo) + 1 - k]
             z == RemoveRow(y, rec)
  <2>1. rec \in UndoRecord
    BY <1>1
  <2>2. rec.table \in Tables /\ rec.row_idx \in Nat \ {0}
    BY <2>1 DEF UndoRecord
  <2>3. k \in 0..Len(undo) /\ k - 1 \in 0..Len(undo)
    BY <1>1
  <2>4. Fewer(y, old)
    BY <1>2, <2>3
  <2> HIDE DEF rec
  <2>5. z \in TS
    BY <2>1, RemoveRowType
  <2>6. ASSUME NEW t \in Tables, NEW x \in TxIds, NEW v \in Values
        PROVE  Count(z[t], RowWith(x, v)) <= Count(old[t], RowWith(x, v))
    <3> DEFINE G == RowWith(x, v)
               rows == y[t]
               c == rec.row_idx
    <3>1. /\ rows \in Seq(Row) /\ old[t] \in Seq(Row) /\ z[t] \in Seq(Row)
          /\ Len(rows) \in Nat /\ Count(rows, G) <= Count(old[t], G)
      BY <2>4, <2>5 DEF Fewer
    <3>2. z[t] = rows \/ (c <= Len(rows) /\ z[t] = RemoveAt(rows, c))
      <4>1. \/ z[t] = y[t]
            \/ rec.row_idx <= Len(y[t]) /\ z[t] = RemoveAt(y[t], rec.row_idx)
        BY <2>1, RemoveRowOf
      <4> QED BY <4>1
    <3> HIDE DEF G, rows, z
    <3>3. Count(z[t], G) \in Nat /\ Count(rows, G) \in Nat /\ Count(old[t], G) \in Nat
      BY <3>1, CountType
    <3>4. Count(z[t], G) <= Count(rows, G)
      <4>1. CASE z[t] = rows
        BY <3>3, <4>1
      <4>2. CASE c <= Len(rows) /\ z[t] = RemoveAt(rows, c)
        <5>1. c \in 1..Len(rows)
          BY <2>2, <3>1, <4>2
        <5> HIDE DEF c
        <5>2. Count(RemoveAt(rows, c), G) <= Count(rows, G)
          BY <3>1, <5>1, CountWithout
        <5> QED BY <4>2, <5>2
      <4> QED BY <3>2, <4>1, <4>2
    <3>5. Count(z[t], G) <= Count(old[t], G)
      BY <3>1, <3>3, <3>4
    <3> QED BY <3>5 DEF G
  <2>7. Fewer(z, old)
    BY <2>6 DEF Fewer
  <2> HIDE DEF z
  <2>8. z \in A[k]
    BY <2>3, <2>5, <2>7
  <2> QED BY <2>8 DEF z, rec
<1>3. Undone(old, undo) \in A[Len(undo)] /\ Undone(old, undo) \in TS
  <2> HIDE DEF A
  <2> QED BY <1>1, <1>2, UndoneStages
<1> QED BY <1>1, <1>3

LEMMA CommitsGrown ==
    ASSUME NEW log \in Seq(LogLines), NEW recs \in Seq(LogLines),
           NEW stats, NEW scns, NEW stats2, NEW scns2,
           CommitsIn(log, stats, scns),
           \A x \in TxIds : stats2[x] = "Committed" =>
               \/ stats[x] = "Committed" /\ scns2[x] = scns[x]
               \/ \E k \in 1..Len(recs) : /\ recs[k].type = "commit" /\ recs[k].tx_id = x
                                          /\ recs[k].scn = scns2[x]
    PROVE  CommitsIn(log \o recs, stats2, scns2)
<1> DEFINE new == log \o recs
<1>1. /\ Len(log) \in Nat /\ Len(recs) \in Nat /\ Len(new) = Len(log) + Len(recs)
      /\ \A i \in 1..Len(new) : new[i] = IF i <= Len(log) THEN log[i] ELSE recs[i - Len(log)]
  BY ConcatProperties
<1> HIDE DEF new
<1>2. \A i \in 1..Len(log) : i \in 1..Len(new) /\ new[i] = log[i]
  BY <1>1
<1>3. ASSUME NEW k \in 1..Len(recs)
      PROVE  \E i \in 1..Len(new) : new[i] = recs[k]
  <2> DEFINE i == Len(log) + k
  <2>1. i \in 1..Len(new) /\ ~(i <= Len(log)) /\ i - Len(log) = k
    BY <1>1
  <2> HIDE DEF i
  <2>2. new[i] = recs[i - Len(log)]
    BY <1>1, <2>1
  <2> QED BY <2>1, <2>2
<1> SUFFICES ASSUME NEW x \in TxIds, stats2[x] = "Committed"
             PROVE  \E i \in 1..Len(new) :
                        new[i].type = "commit" /\ new[i].tx_id = x /\ new[i].scn = scns2[x]
  BY DEF CommitsIn, new
<1>4. CASE stats[x] = "Committed" /\ scns2[x] = scns[x]
  BY <1>2, <1>4 DEF CommitsIn
<1>5. ASSUME NEW k \in 1..Len(recs),
             recs[k].type = "commit" /\ recs[k].tx_id = x /\ recs[k].scn = scns2[x]
      PROVE  \E i \in 1..Len(new) :
                 new[i].type = "commit" /\ new[i].tx_id = x /\ new[i].scn = scns2[x]
  BY <1>3, <1>5
<1> QED BY <1>4, <1>5

LEMMA HeadTailConcat ==
    ASSUME NEW S, NEW s \in Seq(S), NEW t \in Seq(S), s # <<>>
    PROVE  Head(s \o t) = Head(s) /\ Tail(s \o t) = Tail(s) \o t
<1> DEFINE m == Len(s)
           n == Len(t)
<1>1. m \in Nat /\ n \in Nat /\ m >= 1
  BY EmptySeq
<1>2. /\ s \o t \in Seq(S) /\ Len(s \o t) = m + n
      /\ \A i \in 1..m + n : (s \o t)[i] = IF i <= m THEN s[i] ELSE t[i - m]
  BY ConcatProperties
<1>3. s \o t # <<>>
  BY <1>1, <1>2, EmptySeq
<1>4. Head(s \o t) = Head(s)
  BY <1>1, <1>2
<1>5. /\ Tail(s) \in Seq(S) /\ Len(Tail(s)) = m - 1
      /\ \A i \in 1..m - 1 : Tail(s)[i] = s[i + 1]
  BY <1>1, HeadTailProperties
<1>6. /\ Tail(s \o t) \in Seq(S) /\ Len(Tail(s \o t)) = m + n - 1
      /\ \A i \in 1..m + n - 1 : Tail(s \o t)[i] = (s \o t)[i + 1]
  BY <1>1, <1>2, <1>3, HeadTailProperties
<1>7. /\ Tail(s) \o t \in Seq(S) /\ Len(Tail(s) \o t) = m - 1 + n
      /\ \A i \in 1..m - 1 + n :
            (Tail(s) \o t)[i] = IF i <= m - 1 THEN Tail(s)[i] ELSE t[i - (m - 1)]
  <2> DEFINE r == Tail(s)
  <2>1. r \in Seq(S) /\ Len(r) = m - 1
    BY <1>5
  <2> HIDE DEF r
  <2>2. /\ r \o t \in Seq(S) /\ Len(r \o t) = Len(r) + n
        /\ \A i \in 1..Len(r) + n : (r \o t)[i] = IF i <= Len(r) THEN r[i] ELSE t[i - Len(r)]
    BY <2>1, ConcatProperties
  <2> QED BY <2>1, <2>2 DEF r
<1> DEFINE u == Tail(s \o t)
           w == Tail(s) \o t
<1>8. \A i \in 1..m + n - 1 : u[i] = w[i]
  <2> TAKE i \in 1..m + n - 1
  <2>1. i + 1 \in 1..m + n /\ i \in 1..m - 1 + n
    BY <1>1
  <2>2. u[i] = IF i + 1 <= m THEN s[i + 1] ELSE t[i + 1 - m]
    BY <1>2, <1>6, <2>1
  <2>3. w[i] = IF i <= m - 1 THEN Tail(s)[i] ELSE t[i - (m - 1)]
    BY <1>7, <2>1
  <2>4. CASE i <= m - 1
    <3>1. i + 1 <= m /\ Tail(s)[i] = s[i + 1]
      BY <1>1, <1>5, <2>4
    <3> QED BY <2>2, <2>3, <2>4, <3>1
  <2>5. CASE ~(i <= m - 1)
    <3>1. ~(i + 1 <= m) /\ i + 1 - m = i - (m - 1)
      BY <1>1, <2>5
    <3> QED BY <2>2, <2>3, <2>5, <3>1
  <2> QED BY <2>4, <2>5
<1>9. Len(u) = Len(w) /\ Len(u) = m + n - 1
  BY <1>1, <1>6, <1>7
<1> HIDE DEF u, w, m, n
<1>10. u = w
  <2>1. u \in Seq(S) /\ w \in Seq(S)
    BY <1>6, <1>7 DEF u, w
  <2> QED BY <1>8, <1>9, <2>1, SeqEqual
<1> QED BY <1>4, <1>10 DEF u, w

\* Text written in two goes is the text written at once.
LEMMA AppendedTwice ==
    ASSUME NEW log \in Seq(LogLines), NEW terminated \in BOOLEAN, ~terminated => log # <<>>,
           NEW lines \in Seq(LogLines), NEW more \in Seq(LogLines),
           NEW ended \in BOOLEAN, ended <=> terminated \/ lines # <<>>
    PROVE  Appended(Appended(log, terminated, lines), ended, more)
             = Appended(log, terminated, lines \o more)
<1> DEFINE once == Appended(log, terminated, lines)
           joint == Front(log) \o <<Joined(Last(log), Head(lines))>>
<1>1. CASE lines = <<>>
  <2>1. once = log /\ lines \o more = more /\ (ended <=> terminated)
    BY <1>1, ConcatEmptySeq DEF Appended
  <2>2. Appended(log, ended, more) = Appended(log, terminated, more)
    BY <2>1 DEF Appended
  <2> HIDE DEF once
  <2> QED BY <2>1, <2>2 DEF once
<1>2. CASE lines # <<>> /\ terminated
  <2>1. once = log \o lines
    BY <1>2 DEF Appended
  <2>2. Appended(once, ended, more) = (log \o lines) \o more
    BY <1>2, <2>1 DEF Appended
  <2>3. Appended(log, terminated, lines \o more) = log \o (lines \o more)
    BY <1>2 DEF Appended
  <2>4. (log \o lines) \o more = log \o (lines \o more)
    BY ConcatAssociative
  <2> QED BY <2>2, <2>3, <2>4
<1>3. CASE lines # <<>> /\ ~terminated
  <2>1. once = joint \o Tail(lines)
    BY <1>3 DEF Appended
  <2>2. Appended(once, ended, more) = (joint \o Tail(lines)) \o more
    <3> HIDE DEF joint
    <3> QED BY <1>3, <2>1 DEF Appended
  <2>3. /\ lines \o more # <<>> /\ Head(lines \o more) = Head(lines)
        /\ Tail(lines \o more) = Tail(lines) \o more
    BY <1>3, HeadTailConcat, ConcatEqualIffEmpty
  <2>4. Appended(log, terminated, lines \o more) = joint \o (Tail(lines) \o more)
    BY <1>3, <2>3 DEF Appended
  <2>5. joint \in Seq(LogLines) /\ Tail(lines) \in Seq(LogLines)
    <3>1. <<Joined(Last(log), Head(lines))>> \in Seq(LogLines)
      BY DEF Joined, LogLines
    <3>2. Front(log) \in Seq(LogLines)
      BY <1>3 DEF Front
    <3>3. Tail(lines) \in Seq(LogLines)
      BY <1>3, HeadTailProperties
    <3> QED BY <3>1, <3>2, <3>3, ConcatProperties
  <2> HIDE DEF joint, once
  <2>6. (joint \o Tail(lines)) \o more = joint \o (Tail(lines) \o more)
    BY <2>5, ConcatAssociative
  <2> QED BY <2>2, <2>4, <2>6 DEF once
<1> QED BY <1>1, <1>2, <1>3

FileTyped ==
    /\ redo_log \in Seq(LogLines) /\ eol \in BOOLEAN
    /\ ~eol => redo_log # <<>>

\* The file holds some lines behind the log, all of them whole.
Holds(f, lines) == f.lines = Appended(redo_log, eol, lines)

HoldsWhole(f, lines) ==
    /\ Holds(f, lines)
    /\ f.eol \in BOOLEAN /\ (f.eol <=> eol \/ lines # <<>>)

LEMMA WrittenBehind ==
    ASSUME FileTyped,
           NEW f, NEW lines \in Seq(LogLines), HoldsWhole(f, lines),
           NEW rec \in RedoRecords, NEW outcome \in Outcomes
    PROVE  /\ Holds(Written(f, rec, outcome), lines \o Put(rec, outcome))
           /\ outcome = "whole" =>
                 HoldsWhole(Written(f, rec, outcome), lines \o Put(rec, outcome))
<1>1. Put(rec, outcome) \in Seq(LogLines)
      /\ (outcome = "whole" => Put(rec, outcome) # <<>>)
  <2>1. CASE outcome = "line" /\ Put(rec, outcome) = <<>>
    <3>1. <<>> \in Seq(LogLines) /\ "line" # "whole"
      OBVIOUS
    <3> QED BY <2>1, <3>1
  <2>2. CASE \E l \in LogLines : Put(rec, outcome) = <<l>>
    BY <2>2
  <2> QED BY <2>1, <2>2, PutLine
<1>2. Written(f, rec, outcome).lines = Appended(f.lines, f.eol, Put(rec, outcome))
  BY DEF Written
<1>3. outcome = "whole" => Written(f, rec, outcome).eol = TRUE
  BY DEF Written
<1> DEFINE more == Put(rec, outcome)
           ended == f.eol
<1> HIDE DEF more, ended
<1>4. Appended(Appended(redo_log, eol, lines), ended, more)
        = Appended(redo_log, eol, lines \o more)
  BY <1>1, AppendedTwice DEF HoldsWhole, FileTyped, ended, more
<1>5. outcome = "whole" => lines \o more # <<>>
  BY <1>1, ConcatEqualIffEmpty DEF more
<1> QED BY <1>2, <1>3, <1>4, <1>5 DEF Holds, HoldsWhole, more, ended

\* On a sound disk the records before the last are written as they are.
LEMMA WholeBefore ==
    ASSUME SoundDisk, FileTyped,
           NEW buffer \in Seq(RedoRecords), NEW outcomes \in Seq(Outcomes),
           Len(outcomes) <= Len(buffer), NEW file, Run(file, buffer, outcomes),
           NEW n \in 0..Len(outcomes), \A k \in 1..n : outcomes[k] = "whole"
    PROVE  HoldsWhole(file[n], SubSeq(buffer, 1, n))
<1> DEFINE sub(m) == SubSeq(buffer, 1, m)
           T == {m \in Nat : m <= n => HoldsWhole(file[m], sub(m))}
<1>1. n \in Nat /\ n <= Len(outcomes) /\ Len(buffer) \in Nat /\ n <= Len(buffer)
  OBVIOUS
<1>2. \A m \in 0..Len(buffer) : sub(m) \in Seq(RedoRecords) /\ Len(sub(m)) = m
                                /\ sub(m) \in Seq(LogLines)
  <2>1. RedoRecords \subseteq LogLines
    BY DEF LogLines
  <2> TAKE m \in 0..Len(buffer)
  <2>2. sub(m) \in Seq(RedoRecords) /\ Len(sub(m)) = m
    BY <1>1
  <2> QED BY <2>1, <2>2, SeqMonotonic
<1>3. 0 \in T
  <2>1. sub(0) = <<>>
    BY <1>1, <1>2, EmptySeq
  <2>2. Appended(redo_log, eol, <<>>) = redo_log
    BY ConcatEmptySeq DEF Appended, FileTyped
  <2>3. file[0].lines = redo_log /\ file[0].eol = eol
    BY DEF Run
  <2>4. HoldsWhole(file[0], <<>>)
    BY <2>2, <2>3 DEF Holds, HoldsWhole, FileTyped
  <2> QED BY <2>1, <2>4
<1>4. ASSUME NEW m \in Nat, m \in T PROVE m + 1 \in T
  <2>0. m + 1 \in Nat
    OBVIOUS
  <2> SUFFICES ASSUME m + 1 <= n PROVE HoldsWhole(file[m + 1], sub(m + 1))
    <3> HIDE DEF sub
    <3> QED BY <2>0
  <2>1. /\ m <= n /\ m + 1 <= Len(outcomes) /\ m + 1 \in 1..n /\ m + 1 \in 1..Len(buffer)
        /\ m \in 0..Len(buffer)
    BY <1>1
  <2>2. /\ buffer[m + 1] \in RedoRecords /\ outcomes[m + 1] \in Outcomes
        /\ file[m + 1] = Written(file[m], buffer[m + 1], outcomes[m + 1])
    BY <2>1, RunStep
  <2>3. outcomes[m + 1] = "whole" /\ HoldsWhole(file[m], sub(m))
    BY <1>4, <2>1
  <2>4. Put(buffer[m + 1], "whole") = <<buffer[m + 1]>>
    BY <2>2 DEF Put, Serialise, SoundDisk
  <2>5. sub(m) \o <<buffer[m + 1]>> = sub(m + 1)
    <3>1. sub(m + 1) = Append(sub(m), buffer[m + 1])
      BY <1>1, <2>1
    <3>2. Append(sub(m), buffer[m + 1]) = sub(m) \o <<buffer[m + 1]>>
      BY <1>2, <2>1, <2>2, AppendIsConcat
    <3> QED BY <3>1, <3>2
  <2>6. sub(m) \in Seq(LogLines)
    BY <1>2, <2>1
  <2> HIDE DEF sub
  <2> QED BY <2>2, <2>3, <2>4, <2>5, <2>6, WrittenBehind
<1>5. n \in T
  <2> HIDE DEF T
  <2>1. Nat \subseteq T
    BY <1>3, <1>4, NatSetInduction
  <2> QED BY <1>1, <2>1
<1> HIDE DEF sub
<1>6. HoldsWhole(file[n], sub(n))
  BY <1>1, <1>5
<1> QED BY <1>6 DEF sub

\* A whole flush on such a disk, and one that a crash cuts in record n + 1.
LEMMA WholeFlush ==
    ASSUME SoundDisk, FileTyped,
           NEW buffer \in Seq(RedoRecords), lgwr_flush(buffer)
    PROVE  /\ redo_log' = Appended(redo_log, eol, buffer)
           /\ eol \/ buffer # <<>> => eol'
           /\ redo_buffer' = <<>>
<1>1. PICK outcomes \in [1..Len(buffer) -> {"whole"}] : WriteRecords(buffer, outcomes)
  <2>1. {"whole"} \cup DiskTails = {"whole"}
    BY DEF SoundDisk
  <2> QED BY <2>1 DEF lgwr_flush
<1> DEFINE n == Len(buffer)
<1>2. n \in Nat /\ SubSeq(buffer, 1, n) = buffer
  OBVIOUS
<1>3. outcomes \in Seq(Outcomes) /\ Len(outcomes) = n
  <2>1. outcomes \in [1..n -> Outcomes]
    BY DEF Outcomes
  <2>2. outcomes \in Seq(Outcomes)
    BY <1>2, <2>1, SeqDef
  <2> QED BY <1>2, <2>2
<1>4. PICK file : /\ Run(file, buffer, outcomes)
                  /\ redo_log' = file[Len(outcomes)].lines
                  /\ eol' = file[Len(outcomes)].eol
  BY <1>1, <1>2, <1>3, WriteRun DEF FileTyped
<1>5. n \in 0..Len(outcomes) /\ \A k \in 1..n : outcomes[k] = "whole"
  BY <1>1, <1>2, <1>3
<1> HIDE DEF n
<1>6. Len(outcomes) <= Len(buffer)
  BY <1>2, <1>3 DEF n
<1>7. HoldsWhole(file[n], SubSeq(buffer, 1, n))
  BY <1>3, <1>4, <1>5, <1>6, WholeBefore
<1> QED BY <1>2, <1>3, <1>4, <1>7 DEF lgwr_flush, Holds, HoldsWhole

CutLines(buffer, n, tail) == SubSeq(buffer, 1, n) \o Put(buffer[n + 1], tail)

LEMMA CutFlush ==
    ASSUME SoundDisk, FileTyped,
           NEW buffer \in Seq(RedoRecords), NEW n \in Nat, n < Len(buffer),
           NEW tail \in Tails, NEW before \in [1..n -> {"whole"}],
           WriteRecords(buffer, Append(before, tail))
    PROVE  redo_log' = Appended(redo_log, eol, CutLines(buffer, n, tail))
<1> DEFINE outcomes == Append(before, tail)
<1>1. before \in Seq(Outcomes) /\ Len(before) = n /\ tail \in Outcomes
  <2>1. before \in [1..n -> Outcomes]
    BY DEF Outcomes
  <2>2. before \in Seq(Outcomes)
    BY <2>1, SeqDef
  <2> QED BY <2>2 DEF Outcomes
<1>2. /\ outcomes \in Seq(Outcomes) /\ Len(outcomes) = n + 1 /\ outcomes[n + 1] = tail
      /\ \A k \in 1..n : outcomes[k] = before[k]
  BY <1>1, AppendProperties
<1>3. Len(buffer) \in Nat /\ n + 1 <= Len(buffer) /\ n + 1 <= Len(outcomes)
      /\ Len(outcomes) <= Len(buffer) /\ n \in 0..Len(outcomes) /\ n \in 0..Len(buffer)
  BY <1>2
<1> HIDE DEF outcomes
<1>4. PICK file : Run(file, buffer, outcomes) /\ redo_log' = file[Len(outcomes)].lines
  BY <1>2, <1>3, WriteRun DEF outcomes, FileTyped
<1>5. HoldsWhole(file[n], SubSeq(buffer, 1, n))
  <2>1. \A k \in 1..n : outcomes[k] = "whole"
    BY <1>2
  <2> QED BY <1>2, <1>3, <1>4, <2>1, WholeBefore
<1>6. /\ buffer[n + 1] \in RedoRecords
      /\ file[n + 1] = Written(file[n], buffer[n + 1], tail)
  BY <1>2, <1>3, <1>4, RunStep
<1>7. SubSeq(buffer, 1, n) \in Seq(LogLines)
  <2>1. SubSeq(buffer, 1, n) \in Seq(RedoRecords)
    BY <1>3
  <2> QED BY <2>1, SeqMonotonic DEF LogLines
<1>8. Holds(file[n + 1], CutLines(buffer, n, tail))
  BY <1>1, <1>5, <1>6, <1>7, WrittenBehind DEF CutLines
<1> QED BY <1>2, <1>4, <1>8 DEF Holds

\* The flush of a COMMIT or ROLLBACK writes the whole history and its record.
LEMMA FlushWhole ==
    ASSUME SoundDisk, Ordered, eol, NEW rec \in RedoRecords,
           lgwr_flush(Append(redo_buffer, rec))
    PROVE  /\ redo_log' = redo_log \o Append(redo_buffer, rec)
           /\ redo_log \o Append(redo_buffer, rec) = History \o <<rec>>
           /\ redo_buffer' = <<>> /\ eol' /\ History' = redo_log'
           /\ Append(redo_buffer, rec) \in Seq(RedoRecords)
<1> DEFINE buffer == Append(redo_buffer, rec)
           recs == <<rec>>
<1>1. buffer \in Seq(RedoRecords) /\ recs \in Seq(RedoRecords) /\ buffer = redo_buffer \o recs
  BY AheadTypes, AppendIsConcat
<1> HIDE DEF buffer, recs
<1>2. redo_log \in Seq(LogLines) /\ eol \in BOOLEAN /\ (~eol => redo_log # <<>>)
  BY DEF Ordered, Typed, TypeOK
<1>3. /\ redo_log' = Appended(redo_log, eol, buffer) /\ (eol \/ buffer # <<>> => eol')
      /\ redo_buffer' = <<>>
  BY <1>1, <1>2, WholeFlush DEF buffer, FileTyped
<1>4. redo_log' = redo_log \o buffer /\ eol'
  BY <1>3 DEF Appended
<1>5. redo_log \o buffer = History \o recs
  BY <1>1, HistoryTyped DEF Ordered
<1>6. redo_log \o buffer \in Seq(LogLines)
  BY <1>1, AheadTypes, ConcatProperties
<1>7. History' = redo_log'
  BY <1>3, <1>4, <1>6, ConcatEmptySeq DEF History
<1> QED BY <1>1, <1>3, <1>4, <1>5, <1>7 DEF buffer, recs

\* The same when it joins its first record, a BEGIN, to an unreadable line.
LEMMA FlushJoined ==
    ASSUME SoundDisk, Ahead, ~eol, NEW s \in Sessions, current_tx_id[s] # NoTx,
           NEW rec \in RedoRecords, lgwr_flush(Append(redo_buffer, rec))
    PROVE  LET buffer == Append(redo_buffer, rec)
           IN  /\ buffer \in Seq(RedoRecords) /\ Len(buffer) >= 2
               /\ redo_log # <<>> /\ Last(redo_log) \in Unreadable
               /\ Head(buffer).type = "begin"
               /\ redo_log \o buffer = History \o <<rec>>
               /\ redo_log' = Appended(redo_log, eol, buffer)
               /\ redo_log' \in Seq(LogLines)
               /\ redo_buffer' = <<>> /\ eol' /\ History' = redo_log'
<1> DEFINE buffer == Append(redo_buffer, rec)
           recs == <<rec>>
<1>1. /\ buffer \in Seq(RedoRecords) /\ recs \in Seq(RedoRecords)
      /\ buffer = redo_buffer \o recs /\ redo_buffer \in Seq(RedoRecords)
      /\ Len(buffer) = Len(redo_buffer) + 1
  BY AheadTypes, AppendIsConcat DEF Ahead
<1>2. redo_buffer # <<>>
  BY DEF Ahead, Resumed
<1>3. /\ Last(redo_log) \in Unreadable /\ Head(redo_buffer).type = "begin"
      /\ redo_log # <<>> /\ redo_log \in Seq(LogLines) /\ eol \in BOOLEAN
  BY <1>2 DEF Ahead, Resumed, Ordered, Typed, TypeOK
<1>4. Head(buffer) = Head(redo_buffer) /\ Len(buffer) >= 2
  <2>1. Len(redo_buffer) \in Nat /\ Len(redo_buffer) # 0
    BY <1>1, <1>2, EmptySeq
  <2>2. Head(buffer) = Head(redo_buffer)
    BY <1>1, <1>2, HeadTailAppend
  <2> QED BY <1>1, <2>1, <2>2
<1>5. redo_log \o buffer = History \o recs
  BY <1>1, HistoryTyped DEF Ahead, Ordered
<1> HIDE DEF buffer, recs
<1>6. /\ redo_log' = Appended(redo_log, eol, buffer) /\ (eol \/ buffer # <<>> => eol')
      /\ redo_buffer' = <<>>
  BY <1>1, <1>3, WholeFlush DEF buffer, FileTyped
<1>7. buffer # <<>>
  BY <1>1, <1>4, EmptySeq
<1>8. redo_log' = Appended(redo_log, eol, buffer) /\ eol'
  BY <1>6, <1>7
<1>9. redo_log' \in Seq(LogLines)
  <2>1. buffer \in Seq(LogLines)
    BY <1>1, AheadTypes DEF Ahead
  <2> QED BY <1>3, <1>8, <2>1, AppendedType
<1>10. History' = redo_log'
  BY <1>6, <1>9, ConcatEmptySeq DEF History
<1> QED BY <1>1, <1>3, <1>4, <1>5, <1>6, <1>8, <1>9, <1>10 DEF buffer, recs

LEMMA AheadKept ==
    ASSUME Ahead, Ordered', Owned',
           UNCHANGED <<redo_log, eol, redo_buffer, statuses, commit_scns, tables>>,
           UNCHANGED procVars,
           \A s \in Sessions : current_tx_id'[s] \in {current_tx_id[s], NoTx}
    PROVE  Ahead'
<1>1. Resumed'
  BY DEF Ahead, Resumed, procVars
<1> QED BY <1>1 DEF Ahead, BufferOpen, CommitsIn, Logged, History

\* The process is dead: nothing in memory that the log would have to hold.
LEMMA AheadNone ==
    ASSUME Ordered', Owned', Lost,
           ~eol' => Last(redo_log') \in Unreadable \/ (NoReuse /\ boots # 0)
    PROVE  Ahead'
<1>0. Resumed'
  BY DEF Lost, NewManager, NoSessions, Resumed
<1>1. /\ redo_buffer' = <<>> /\ statuses' = NoStatuses
      /\ tables' = [t \in Tables |-> <<>>]
  BY DEF Lost, NewManager
<1>2. ASSUME NEW x \in TxIds, NEW t \in Tables, NEW v \in Values
      PROVE  Count(tables'[t], RowWith(x, v)) <= Count(History', InsertsInto(x, t, v))
  <2>1. History' \in Seq(LogLines)
    <3>1. redo_log' \in Seq(LogLines)
      BY DEF Ordered, Typed, TypeOK
    <3> QED BY <1>1, <3>1, ConcatEmptySeq DEF History
  <2>2. Count(<<>>, RowWith(x, v)) = 0
    <3>1. \A i \in 1..Len(<<>>) : <<>>[i] \notin RowWith(x, v)
      OBVIOUS
    <3> QED BY <3>1, CountNone
  <2>3. Count(History', InsertsInto(x, t, v)) \in Nat
    BY <2>1, CountType
  <2> QED BY <1>1, <2>2, <2>3
<1>3. Logged(History, tables)'
  BY <1>2 DEF Logged
<1>4. CommitsIn(redo_log, statuses, commit_scns)' /\ BufferOpen'
  BY <1>1 DEF CommitsIn, BufferOpen, NoStatuses
<1> QED BY <1>0, <1>3, <1>4 DEF Ahead

LEMMA RecordFields ==
    ASSUME NEW rec \in RedoRecords
    PROVE  rec.tx_id \in TxIds
BY DEF RedoRecords, StatusRecords, InsertRecords

LEMMA AheadBegin ==
    ASSUME Ahead, Ordered', Owned', NEW s \in Sessions, Begin(s)
    PROVE  Ahead'
<1> DEFINE x == next_tx_id
           rec == StatusRecord("begin", x, scn)
           recs == <<rec>>
<1>1. /\ tables' = tables /\ redo_log' = redo_log /\ eol' = eol /\ commit_scns' = commit_scns
      /\ statuses' = [statuses EXCEPT ![x] = "Active"]
      /\ redo_buffer' = Append(redo_buffer, rec)
  BY DEF Begin, begin, dbVars
<1>2. x \in TxIds /\ rec \in RedoRecords /\ rec.tx_id = x
  <2>1. x \in TxIds /\ scn \in Nat
    BY BeginTyped, AheadTypes DEF Ahead, Owned
  <2> QED BY <2>1, RecordTypes DEF StatusRecord
<1> HIDE DEF rec
<1>3. /\ recs \in Seq(RedoRecords) /\ Len(recs) = 1 /\ recs[1] = rec
      /\ redo_buffer' = redo_buffer \o recs
  BY <1>1, <1>2, AheadTypes, AppendIsConcat DEF Ahead
<1> HIDE DEF recs, x
<1>4. History' = History \o recs
  BY <1>1, <1>3, HistoryTyped DEF Ahead, Owned, History
<1>5. Logged(History, tables)'
  <2>1. Logged(History \o recs, tables)
    BY <1>3, AheadTypes, LoggedGrown, FewerSame DEF Ahead
  <2> QED BY <1>1, <1>4, <2>1 DEF Logged
<1>6. BufferOpen'
  <2>1. ASSUME NEW i \in 1..Len(redo_buffer') PROVE statuses'[redo_buffer'[i].tx_id] = "Active"
    <3>1. redo_buffer \in Seq(RedoRecords) /\ Len(redo_buffer) \in Nat
      BY AheadTypes DEF Ahead
    <3>2. \/ i \in 1..Len(redo_buffer) /\ redo_buffer'[i] = redo_buffer[i]
          \/ redo_buffer'[i] = rec
      BY <1>1, <1>2, <2>1, <3>1
    <3>3. statuses \in [TxIds -> TxStatus]
      BY AheadTypes DEF Ahead
    <3>4. CASE i \in 1..Len(redo_buffer) /\ redo_buffer'[i] = redo_buffer[i]
      <4>1. redo_buffer[i].tx_id \in TxIds
        BY <3>1, <3>4, RecordFields
      <4> QED BY <1>1, <1>2, <3>3, <3>4, <4>1 DEF Ahead, BufferOpen
    <3>5. CASE redo_buffer'[i] = rec
      BY <1>1, <1>2, <3>3, <3>5
    <3> QED BY <3>2, <3>4, <3>5
  <2> QED BY <2>1 DEF BufferOpen
<1>7. CommitsIn(redo_log, statuses, commit_scns)'
  <2>1. \A y \in TxIds : statuses'[y] = "Committed" => statuses[y] = "Committed"
    BY <1>1, <1>2, AheadTypes DEF Ahead
  <2> QED BY <1>1, <2>1 DEF Ahead, CommitsIn
<1>8. Resumed'
  <2> SUFFICES ASSUME ~eol PROVE Resumed'
    BY <1>1 DEF Resumed
  <2>1. ~(NoReuse /\ boots # 0 /\ (up => boots # 1))
    <3>1. /\ up /\ next_tx_id <= BeginBudget[boots] /\ next_tx_id \in Nat \ {0}
          /\ boots \in 0..MaxBoots
      BY DEF Begin, Ahead, Ordered, Typed, TypeOK
    <3>2. ASSUME NoReuse, boots # 0, boots # 1 PROVE FALSE
      <4>1. boots \in 1..MaxBoots /\ boots > 1
        BY <3>1, <3>2, DatabaseAssumption
      <4>2. BeginBudget[boots] = 0
        BY <4>1, <3>2 DEF NoReuse
      <4> QED BY <3>1, <4>2
    <3> QED BY <3>1, <3>2
  <2>2. Last(redo_log') \in Unreadable
    BY <1>1, <2>1 DEF Ahead, Resumed
  <2>3. redo_buffer' # <<>> /\ Head(redo_buffer').type = "begin"
    <3>1. redo_buffer \in Seq(RedoRecords) /\ rec.type = "begin"
      BY AheadTypes DEF Ahead, rec, StatusRecord
    <3>2. redo_buffer # <<>> => Head(redo_buffer).type = "begin"
      BY DEF Ahead, Resumed
    <3> QED BY <1>1, <1>2, <3>1, <3>2, HeadTailAppend, AppendProperties
  <2> QED BY <2>2, <2>3 DEF Resumed
<1> QED BY <1>1, <1>5, <1>6, <1>7, <1>8 DEF Ahead

\* COMMIT and ROLLBACK: the tables keep or lose rows, the file gets all, but
\* perhaps for a BEGIN.
EndOf(rec) ==
    /\ Fewer(tables', tables)
    /\ \A x \in TxIds : statuses'[x] = "Committed" =>
          \/ statuses[x] = "Committed" /\ commit_scns'[x] = commit_scns[x]
          \/ rec.type = "commit" /\ rec.tx_id = x /\ rec.scn = commit_scns'[x]

LEMMA AheadEndWhole ==
    ASSUME SoundDisk, Ahead, eol, Ordered', Owned', NEW rec \in RedoRecords,
           lgwr_flush(Append(redo_buffer, rec)), EndOf(rec)
    PROVE  Ahead'
<1> DEFINE buffer == Append(redo_buffer, rec)
           recs == <<rec>>
<1>1. /\ redo_log' = redo_log \o buffer /\ History' = History \o recs
      /\ redo_buffer' = <<>> /\ eol' /\ buffer \in Seq(RedoRecords)
  BY FlushWhole DEF Ahead
<1>2. /\ buffer \in Seq(LogLines) /\ recs \in Seq(LogLines) /\ History \in Seq(LogLines)
      /\ redo_log \in Seq(LogLines)
      /\ tables \in [Tables -> Seq(Row)] /\ tables' \in [Tables -> Seq(Row)]
  <2>1. tables' \in [Tables -> Seq(Row)]
    BY DEF Ordered, Typed, TypeOK
  <2>2. recs \in Seq(RedoRecords)
    OBVIOUS
  <2> QED BY <1>1, <2>1, <2>2, AheadTypes DEF Ahead
<1>3. Logged(History, tables)'
  <2>1. Logged(History \o recs, tables')
    <3> HIDE DEF recs
    <3> QED BY <1>2, LoggedGrown DEF Ahead, EndOf
  <2> QED BY <1>1, <2>1 DEF Logged
<1>4. \E k \in 1..Len(buffer) : buffer[k] = rec
  <2> DEFINE k == Len(redo_buffer) + 1
  <2>1. Len(redo_buffer) \in Nat /\ Len(buffer) = k /\ buffer[k] = rec
    BY AheadTypes, AppendProperties DEF Ahead
  <2>2. k \in 1..Len(buffer)
    BY <2>1
  <2> QED BY <2>1, <2>2
<1> HIDE DEF buffer
<1>5. CommitsIn(redo_log, statuses, commit_scns)'
  <2>1. \A x \in TxIds : statuses'[x] = "Committed" =>
           \/ statuses[x] = "Committed" /\ commit_scns'[x] = commit_scns[x]
           \/ \E k \in 1..Len(buffer) : /\ buffer[k].type = "commit" /\ buffer[k].tx_id = x
                                        /\ buffer[k].scn = commit_scns'[x]
    BY <1>4 DEF EndOf
  <2>2. CommitsIn(redo_log \o buffer, statuses', commit_scns')
    BY <1>2, <2>1, CommitsGrown DEF Ahead
  <2> QED BY <1>1, <2>2 DEF CommitsIn
<1>6. BufferOpen'
  BY <1>1 DEF BufferOpen
<1>7. Resumed'
  BY <1>1 DEF Resumed
<1> QED BY <1>1, <1>3, <1>5, <1>6, <1>7 DEF Ahead

\* Commit records are neither unreadable nor a BEGIN: they all stay.
LEMMA CommitsJoined ==
    ASSUME NEW log \in Seq(LogLines), NEW buffer \in Seq(LogLines),
           NEW terminated \in BOOLEAN, ~terminated, log # <<>>, buffer # <<>>,
           Last(log) \in Unreadable, Head(buffer).type = "begin",
           NEW i \in 1..Len(log \o buffer), (log \o buffer)[i].type = "commit"
    PROVE  \E k \in 1..Len(Appended(log, terminated, buffer)) :
               Appended(log, terminated, buffer)[k] = (log \o buffer)[i]
<1> DEFINE new == Appended(log, terminated, buffer)
           old == log \o buffer
           m == Len(log)
           n == Len(buffer)
<1>1. m \in Nat /\ n \in Nat
  OBVIOUS
<1>2. /\ m >= 1 /\ n >= 1 /\ Len(new) = m + n - 1
      /\ \A k \in 1..m + n - 1 : new[k]
            = IF k <= m - 1 THEN log[k]
              ELSE IF k = m THEN Joined(Last(log), Head(buffer)) ELSE buffer[k - m + 1]
  BY AppendedJoins
<1>3. /\ Len(old) = m + n
      /\ \A k \in 1..m + n : old[k] = IF k <= m THEN log[k] ELSE buffer[k - m]
  BY ConcatProperties
<1>4. log[m].type # "commit" /\ buffer[1].type # "commit"
  <2>1. Last(log) = log[m] /\ Head(buffer) = buffer[1]
    BY DEF Last
  <2> QED BY <2>1 DEF Unreadable, Garbage, BadUtf8
<1> HIDE DEF new, old, m, n
<1>5. i \in 1..m + n /\ old[i].type = "commit"
  BY <1>3 DEF old
<1>6. CASE i <= m
  <2>1. old[i] = log[i]
    BY <1>3, <1>5, <1>6
  <2>2. i # m
    BY <1>4, <1>5, <2>1
  <2>3. i <= m - 1 /\ i \in 1..m + n - 1
    BY <1>1, <1>2, <1>5, <1>6, <2>2
  <2>4. new[i] = log[i]
    BY <1>2, <2>3
  <2>5. i \in 1..Len(new) /\ new[i] = old[i]
    BY <1>2, <2>1, <2>3, <2>4
  <2> QED BY <2>5 DEF new, old
<1>7. CASE ~(i <= m)
  <2> DEFINE k == i - 1
  <2>1. old[i] = buffer[i - m]
    BY <1>3, <1>5, <1>7
  <2>2. i - m # 1
    BY <1>4, <1>5, <2>1
  <2>3. /\ k \in 1..m + n - 1 /\ ~(k <= m - 1) /\ k # m /\ k - m + 1 = i - m
    BY <1>1, <1>5, <1>7, <2>2
  <2> HIDE DEF k
  <2>4. new[k] = buffer[k - m + 1]
    BY <1>2, <2>3
  <2>5. k \in 1..Len(new) /\ new[k] = old[i]
    BY <1>2, <2>1, <2>3, <2>4
  <2> QED BY <2>5 DEF new, old
<1> QED BY <1>6, <1>7

LEMMA AheadEndJoined ==
    ASSUME SoundDisk, Ahead, ~eol, Ordered', Owned', NEW rec \in RedoRecords,
           NEW s \in Sessions, current_tx_id[s] # NoTx,
           lgwr_flush(Append(redo_buffer, rec)), EndOf(rec)
    PROVE  Ahead'
<1> DEFINE buffer == Append(redo_buffer, rec)
           recs == <<rec>>
<1>1. /\ buffer \in Seq(RedoRecords) /\ Len(buffer) >= 2
      /\ redo_log # <<>> /\ Last(redo_log) \in Unreadable
      /\ Head(buffer).type = "begin"
      /\ redo_log \o buffer = History \o recs
      /\ redo_log' = Appended(redo_log, eol, buffer)
      /\ redo_log' \in Seq(LogLines)
      /\ redo_buffer' = <<>> /\ eol' /\ History' = redo_log'
  BY FlushJoined
<1>2. /\ buffer \in Seq(LogLines) /\ recs \in Seq(LogLines) /\ History \in Seq(LogLines)
      /\ redo_log \in Seq(LogLines) /\ eol \in BOOLEAN
      /\ tables \in [Tables -> Seq(Row)] /\ tables' \in [Tables -> Seq(Row)]
  <2>1. tables' \in [Tables -> Seq(Row)]
    BY DEF Ordered, Typed, TypeOK
  <2>2. eol \in BOOLEAN
    BY DEF Ahead, Ordered, Typed, TypeOK
  <2>3. recs \in Seq(RedoRecords)
    OBVIOUS
  <2> QED BY <1>1, <2>1, <2>2, <2>3, AheadTypes DEF Ahead
<1>3. \E k \in 1..Len(buffer) : buffer[k] = rec
  <2> DEFINE k == Len(redo_buffer) + 1
  <2>1. Len(redo_buffer) \in Nat /\ Len(buffer) = k /\ buffer[k] = rec
    BY AheadTypes, AppendProperties DEF Ahead
  <2>2. k \in 1..Len(buffer)
    BY <2>1
  <2> QED BY <2>1, <2>2
<1> HIDE DEF buffer, recs
<1>4. buffer # <<>>
  BY <1>1, EmptySeq
<1>5. Logged(History, tables)'
  <2>1. Logged(History \o recs, tables')
    BY <1>2, LoggedGrown DEF Ahead, EndOf
  <2>2. ASSUME NEW x \in TxIds, NEW t \in Tables, NEW v \in Values
        PROVE  Count(tables'[t], RowWith(x, v)) <= Count(redo_log', InsertsInto(x, t, v))
    <3> DEFINE G == InsertsInto(x, t, v)
    <3>1. Last(redo_log) \notin G /\ Head(buffer) \notin G
      <4>1. \A l \in G : l.type = "insert"
        BY DEF InsertsInto, InsertRecords
      <4> QED BY <1>1, <4>1 DEF Unreadable, Garbage, BadUtf8
    <3> HIDE DEF G
    <3>2. Count(redo_log \o buffer, G) <= Count(redo_log', G)
      BY <1>1, <1>2, <1>4, <3>1, CountJoined
    <3>3. Count(tables'[t], RowWith(x, v)) <= Count(redo_log \o buffer, G)
      BY <1>1, <2>1 DEF Logged, G
    <3>4. /\ Count(tables'[t], RowWith(x, v)) \in Nat
          /\ Count(redo_log \o buffer, G) \in Nat /\ Count(redo_log', G) \in Nat
      <4>1. tables'[t] \in Seq(Row)
        BY <1>2
      <4>2. redo_log \o buffer \in Seq(LogLines)
        BY <1>2, ConcatProperties
      <4> QED BY <1>1, <4>1, <4>2, CountType
    <3>5. Count(tables'[t], RowWith(x, v)) <= Count(redo_log', G)
      BY <3>2, <3>3, <3>4
    <3> QED BY <3>5 DEF G
  <2> QED BY <1>1, <2>2 DEF Logged
<1>6. CommitsIn(redo_log, statuses, commit_scns)'
  <2>1. \A x \in TxIds : statuses'[x] = "Committed" =>
           \/ statuses[x] = "Committed" /\ commit_scns'[x] = commit_scns[x]
           \/ \E k \in 1..Len(buffer) : /\ buffer[k].type = "commit" /\ buffer[k].tx_id = x
                                        /\ buffer[k].scn = commit_scns'[x]
    BY <1>3 DEF EndOf
  <2>2. CommitsIn(redo_log \o buffer, statuses', commit_scns')
    BY <1>2, <2>1, CommitsGrown DEF Ahead
  <2>3. ASSUME NEW i \in 1..Len(redo_log \o buffer), (redo_log \o buffer)[i].type = "commit"
        PROVE  \E k \in 1..Len(redo_log') : redo_log'[k] = (redo_log \o buffer)[i]
    BY <1>1, <1>2, <1>4, <2>3, CommitsJoined
  <2>4. CommitsIn(redo_log', statuses', commit_scns')
    <3> SUFFICES ASSUME NEW x \in TxIds, statuses'[x] = "Committed"
                 PROVE  \E i \in 1..Len(redo_log') :
                            /\ redo_log'[i].type = "commit" /\ redo_log'[i].tx_id = x
                            /\ redo_log'[i].scn = commit_scns'[x]
      BY DEF CommitsIn
    <3>1. PICK i \in 1..Len(redo_log \o buffer) :
             /\ (redo_log \o buffer)[i].type = "commit"
             /\ (redo_log \o buffer)[i].tx_id = x
             /\ (redo_log \o buffer)[i].scn = commit_scns'[x]
      BY <2>2 DEF CommitsIn
    <3> QED BY <2>3, <3>1
  <2> QED BY <2>4 DEF CommitsIn
<1>7. BufferOpen'
  BY <1>1 DEF BufferOpen
<1>8. Resumed'
  BY <1>1 DEF Resumed
<1> QED BY <1>5, <1>6, <1>7, <1>8 DEF Ahead

LEMMA AheadEnd ==
    ASSUME CleanWrites, Ahead, Ordered', Owned', NEW rec \in RedoRecords,
           NEW s \in Sessions, current_tx_id[s] # NoTx,
           lgwr_flush(Append(redo_buffer, rec)), EndOf(rec)
    PROVE  Ahead'
BY AheadEndWhole, AheadEndJoined DEF CleanWrites

LEMMA AheadCommit ==
    ASSUME CleanWrites, Ahead, Ordered', Owned', NEW s \in Sessions, Commit(s)
    PROVE  Ahead'
<1> DEFINE x == current_tx_id[s]
           rec == StatusRecord("commit", x, scn + 1)
<1>0. current_tx_id[s] # NoTx
  BY DEF Commit, Rollback
<1>1. /\ tables' = tables
      /\ statuses' = [statuses EXCEPT ![x] = "Committed"]
      /\ commit_scns' = [commit_scns EXCEPT ![x] = scn + 1]
      /\ lgwr_flush(Append(redo_buffer, rec))
      /\ x # NoTx
  BY DEF Commit, commit, commit_buffer, dbVars
<1>2. /\ x \in TxIds /\ scn + 1 \in Nat /\ scn \in Nat /\ tables \in [Tables -> Seq(Row)]
      /\ statuses \in [TxIds -> TxStatus] /\ commit_scns \in [TxIds -> Nat]
  BY <1>1, AheadTypes DEF Ahead
<1>3. /\ rec \in RedoRecords /\ rec.type = "commit" /\ rec.tx_id = x /\ rec.scn = scn + 1
  BY <1>2, RecordTypes DEF StatusRecord
<1> HIDE DEF x, rec
<1>4. \A y \in TxIds : statuses'[y] = "Committed" =>
         \/ statuses[y] = "Committed" /\ commit_scns'[y] = commit_scns[y]
         \/ rec.type = "commit" /\ rec.tx_id = y /\ rec.scn = commit_scns'[y]
  BY <1>1, <1>2, <1>3
<1>5. Fewer(tables', tables)
  BY <1>1, <1>2, FewerSame
<1>6. EndOf(rec)
  BY <1>4, <1>5 DEF EndOf
<1> QED BY <1>0, <1>1, <1>3, <1>6, AheadEnd

LEMMA AheadRollback ==
    ASSUME CleanWrites, Ahead, Ordered', Owned', NEW s \in Sessions, Rollback(s)
    PROVE  Ahead'
<1> DEFINE x == current_tx_id[s]
           rec == StatusRecord("rollback", x, scn)
<1>0. current_tx_id[s] # NoTx
  BY DEF Commit, Rollback
<1>1. /\ tables' = Undone(tables, undo_segments[x])
      /\ statuses' = [statuses EXCEPT ![x] = "RolledBack"]
      /\ commit_scns' = commit_scns
      /\ lgwr_flush(Append(redo_buffer, rec))
      /\ x # NoTx
  BY DEF Rollback, rollback, rollback_buffer
<1>2. /\ x \in TxIds /\ scn \in Nat /\ tables \in [Tables -> Seq(Row)]
      /\ statuses \in [TxIds -> TxStatus] /\ undo_segments[x] \in Seq(UndoRecord)
  BY <1>1, AheadTypes DEF Ahead
<1>3. rec \in RedoRecords
  BY <1>2, RecordTypes DEF StatusRecord
<1> HIDE DEF x, rec
<1>4. \A y \in TxIds : statuses'[y] = "Committed" =>
         statuses[y] = "Committed" /\ commit_scns'[y] = commit_scns[y]
  BY <1>1, <1>2
<1>5. Fewer(tables', tables)
  BY <1>1, <1>2, FewerUndone
<1>6. EndOf(rec)
  BY <1>4, <1>5 DEF EndOf
<1> QED BY <1>0, <1>1, <1>3, <1>6, AheadEnd

\* Rows that a statement or a recovery puts behind those of a table.
LEMMA LoggedMore ==
    ASSUME NEW log \in Seq(LogLines), NEW recs \in Seq(LogLines),
           NEW old \in [Tables -> Seq(Row)], NEW t \in Tables, NEW rows \in Seq(Row),
           Logged(log, old),
           \A x \in TxIds, v \in Values :
               Count(rows, RowWith(x, v)) <= Count(recs, InsertsInto(x, t, v))
    PROVE  Logged(log \o recs, [old EXCEPT ![t] = @ \o rows])
<1> DEFINE new == [old EXCEPT ![t] = @ \o rows]
<1> SUFFICES ASSUME NEW x \in TxIds, NEW u \in Tables, NEW v \in Values
             PROVE  Count(new[u], RowWith(x, v)) <= Count(log \o recs, InsertsInto(x, u, v))
  BY DEF Logged
<1>1. old[u] \in Seq(Row) /\ (u = t => new[u] = old[u] \o rows) /\ (u # t => new[u] = old[u])
  OBVIOUS
<1> DEFINE R == RowWith(x, v)
           I == InsertsInto(x, u, v)
<1>2. Count(old[u], R) <= Count(log, I) /\ (u = t => Count(rows, R) <= Count(recs, I))
  BY DEF Logged
<1> HIDE DEF R, I, new
<1>3. /\ Count(old[u], R) \in Nat /\ Count(rows, R) \in Nat
      /\ Count(log, I) \in Nat /\ Count(recs, I) \in Nat
  BY <1>1, CountType
<1>4. Count(log \o recs, I) = Count(log, I) + Count(recs, I)
  BY CountConcat
<1>5. CASE u = t
  <2>1. Count(old[u] \o rows, R) = Count(old[u], R) + Count(rows, R)
    BY <1>1, CountConcat
  <2>2. Count(old[u] \o rows, R) <= Count(log \o recs, I)
    BY <1>2, <1>3, <1>4, <1>5, <2>1
  <2> QED BY <1>1, <1>5, <2>2 DEF R, I
<1>6. CASE u # t
  <2>1. Count(old[u], R) <= Count(log \o recs, I)
    BY <1>2, <1>3, <1>4
  <2> QED BY <1>1, <1>6, <2>1 DEF R, I
<1> QED BY <1>5, <1>6

\* Rows outside every transaction.
LEMMA CountOutside ==
    ASSUME NEW vals \in Seq(Values), NEW x \in TxIds, NEW v
    PROVE  NewRows(vals, NoTx) \in Seq(Row) /\ Count(NewRows(vals, NoTx), RowWith(x, v)) = 0
<1> DEFINE new == NewRows(vals, NoTx)
<1>1. new \in Seq(Row) /\ Len(vals) \in Nat
  BY NewRowsType
<1>2. new = [i \in 1..Len(vals) |-> [val |-> vals[i], tx_id |-> NoTx]]
  BY DEF NewRows
<1>3. Len(new) = Len(vals)
  BY <1>1, <1>2, FunctionSeq
<1>4. \A i \in 1..Len(vals) : new[i].tx_id = NoTx
  BY <1>2
<1> HIDE DEF new
<1>5. \A i \in 1..Len(new) : new[i] \notin RowWith(x, v)
  BY <1>3, <1>4, TxIdAssumption DEF RowWith
<1> QED BY <1>1, <1>5, CountNone DEF new

\* The rows of an INSERT and its records.
RecordsOf(tx, n, t, vals) == [i \in DOMAIN vals |-> InsertRecord(tx, n, t, vals[i])]

InsertLogged(recs, rows, tx, t) ==
    /\ recs \in Seq(RedoRecords)
    /\ \A k \in 1..Len(recs) : recs[k].tx_id = tx
    /\ rows \in Seq(Row)
    /\ \A x \in TxIds, v \in Values :
          Count(rows, RowWith(x, v)) <= Count(recs, InsertsInto(x, t, v))

LEMMA CountInserted ==
    ASSUME NEW vals \in Seq(Values), NEW tx \in TxIds, NEW n \in Nat, NEW t \in Tables
    PROVE  InsertLogged(RecordsOf(tx, n, t, vals), NewRows(vals, tx), tx, t)
<1> DEFINE recs == RecordsOf(tx, n, t, vals)
<1> DEFINE new == NewRows(vals, tx)
<1>1. new \in Seq(Row) /\ Len(vals) \in Nat /\ DOMAIN vals = 1..Len(vals)
  BY NewRowsType
<1>2. new = [i \in 1..Len(vals) |-> [val |-> vals[i], tx_id |-> tx]]
  BY DEF NewRows
<1>3. Len(new) = Len(vals)
  BY <1>1, <1>2, FunctionSeq
<1>4. \A i \in 1..Len(vals) : new[i] = [val |-> vals[i], tx_id |-> tx]
  BY <1>2
<1>5. \A i \in 1..Len(vals) :
         /\ InsertRecord(tx, n, t, vals[i]) \in RedoRecords
         /\ InsertRecord(tx, n, t, vals[i]) \in InsertsInto(tx, t, vals[i])
         /\ InsertRecord(tx, n, t, vals[i]).tx_id = tx
  <2>1. \A i \in 1..Len(vals) : vals[i] \in Values
    OBVIOUS
  <2>2. \A v \in Values : /\ InsertRecord(tx, n, t, v) \in RedoRecords
                          /\ InsertRecord(tx, n, t, v) \in InsertsInto(tx, t, v)
                          /\ InsertRecord(tx, n, t, v).tx_id = tx
    BY DEF InsertRecord, InsertsInto, InsertRecords, RedoRecords
  <2> QED BY <2>1, <2>2
<1>6. /\ recs \in Seq(RedoRecords) /\ Len(recs) = Len(vals)
      /\ \A i \in 1..Len(vals) : recs[i] = InsertRecord(tx, n, t, vals[i])
  BY <1>1, <1>5 DEF RecordsOf
<1> HIDE DEF recs
<1>7. \A k \in 1..Len(recs) : recs[k].tx_id = tx
  BY <1>5, <1>6
<1> HIDE DEF new
<1>8. ASSUME NEW x \in TxIds, NEW v \in Values
      PROVE  Count(new, RowWith(x, v)) <= Count(recs, InsertsInto(x, t, v))
  <2>1. ASSUME NEW i \in 1..Len(new), new[i] \in RowWith(x, v)
        PROVE  recs[i] \in InsertsInto(x, t, v)
    <3>1. [val |-> vals[i], tx_id |-> tx] = [val |-> v, tx_id |-> x]
      BY <1>3, <1>4, <2>1 DEF RowWith
    <3>2. vals[i] = v /\ tx = x
      BY <3>1
    <3> QED BY <1>3, <1>5, <1>6, <2>1, <3>2
  <2>2. Len(new) <= Len(recs)
    BY <1>1, <1>3, <1>6
  <2> QED BY <1>1, <1>6, <2>1, <2>2, CountLess
<1>9. InsertLogged(recs, new, tx, t)
  BY <1>1, <1>6, <1>7, <1>8 DEF InsertLogged
<1> QED BY <1>9 DEF new, recs

LEMMA HeadOfConcat ==
    ASSUME NEW S, NEW a \in Seq(S), NEW b \in Seq(S), a # <<>>
    PROVE  a \o b # <<>> /\ Head(a \o b) = Head(a)
<1>1. Len(a) \in Nat /\ Len(b) \in Nat /\ Len(a) # 0
  BY EmptySeq
<1>2. a \o b \in Seq(S) /\ Len(a \o b) = Len(a) + Len(b) /\ (a \o b)[1] = a[1]
  BY <1>1, ConcatProperties
<1> QED BY <1>1, <1>2, EmptySeq

LEMMA AheadInsert ==
    ASSUME Ahead, Ordered', Owned', NEW s \in Sessions, NEW t \in Tables,
           NEW rows \in Inserts, Insert(s, t, rows)
    PROVE  Ahead'
<1> DEFINE x == current_tx_id[s]
<1>1. PICK n \in 1..Len(rows) :
         /\ tables' = [tables EXCEPT ![t] = @ \o NewRows(SubSeq(rows, 1, n), x)]
         /\ IF x = NoTx
            THEN UNCHANGED <<logVars, txVars>>
            ELSE record_inserts(x, t, SubSeq(rows, 1, n), Len(tables[t]))
  BY DEF Insert
<1> DEFINE vals == SubSeq(rows, 1, n)
           recs == [i \in DOMAIN vals |-> InsertRecord(x, scn, t, vals[i])]
<1>2. vals \in Seq(Values)
  <2>1. rows \in Seq(Values) /\ n \in 1..Len(rows)
    BY DatabaseAssumption
  <2> QED BY <2>1
<1>3. /\ UNCHANGED <<redo_log, eol, statuses, commit_scns>>
      /\ tables' = [tables EXCEPT ![t] = @ \o NewRows(vals, x)]
  BY <1>1 DEF record_inserts, logVars, txVars
<1>4. /\ x \in TxIds \cup {NoTx} /\ scn \in Nat /\ tables \in [Tables -> Seq(Row)]
      /\ History \in Seq(LogLines) /\ redo_buffer \in Seq(RedoRecords)
      /\ x # NoTx => statuses[x] = "Active"
  BY AheadTypes DEF Ahead, Owned, TxOwnedOnce
<1>7. UNCHANGED <<current_tx_id, up, boots>>
  BY DEF Insert, sessionVars, procVars
<1>5. CASE x = NoTx
  <2>1. redo_buffer' = redo_buffer
    BY <1>1, <1>5 DEF txVars
  <2>2. History' = History /\ History \o <<>> = History
    BY <1>3, <1>4, <2>1, ConcatEmptySeq DEF History
  <2> DEFINE none == <<>>
  <2>3. none \in Seq(LogLines) /\ \A G : Count(none, G) \in Nat
    <3>1. none \in Seq(LogLines)
      OBVIOUS
    <3> QED BY <3>1, CountType
  <2> HIDE DEF vals, none, x
  <2>4. NewRows(vals, x) \in Seq(Row) /\ \A y \in TxIds, v \in Values : Count(NewRows(vals, x), RowWith(y, v)) = 0
    BY <1>2, <1>4, <1>5, CountOutside, NewRowsType
  <2>5. \A y \in TxIds, v \in Values :
           Count(NewRows(vals, x), RowWith(y, v)) <= Count(none, InsertsInto(y, t, v))
    BY <2>3, <2>4
  <2>6. Logged(History \o none, tables')
    BY <1>3, <1>4, <2>3, <2>4, <2>5, LoggedMore DEF Ahead
  <2>7. Logged(History, tables)'
    BY <2>2, <2>6 DEF Logged, none
  <2>8. Resumed'
    BY <1>3, <1>7, <2>1 DEF Ahead, Resumed
  <2> QED BY <1>3, <2>1, <2>7, <2>8 DEF Ahead, BufferOpen, CommitsIn
<1>6. CASE x # NoTx
  <2>1. redo_buffer' = redo_buffer \o recs
    BY <1>1, <1>6 DEF record_inserts
  <2>2. x \in TxIds /\ statuses[x] = "Active"
    BY <1>4, <1>6
  <2> HIDE DEF vals, x
  <2> HIDE DEF recs
  <2>3. /\ recs \in Seq(RedoRecords)
        /\ \A k \in 1..Len(recs) : recs[k].tx_id = x
        /\ NewRows(vals, x) \in Seq(Row)
        /\ \A y \in TxIds, v \in Values :
              Count(NewRows(vals, x), RowWith(y, v)) <= Count(recs, InsertsInto(y, t, v))
    <3>1. recs = RecordsOf(x, scn, t, vals)
      BY DEF recs, RecordsOf
    <3>2. InsertLogged(recs, NewRows(vals, x), x, t)
      BY <1>2, <1>4, <2>2, <3>1, CountInserted
    <3> QED BY <3>2 DEF InsertLogged
  <2>4. History' = History \o recs
    BY <1>3, <2>1, <2>3, HistoryTyped DEF Ahead, Owned, History
  <2>5. recs \in Seq(LogLines)
    BY <2>3, AheadTypes DEF Ahead
  <2>6. Logged(History \o recs, tables')
    BY <1>3, <1>4, <2>3, <2>5, LoggedMore DEF Ahead
  <2>7. Logged(History, tables)'
    BY <2>4, <2>6 DEF Logged
  <2>8. BufferOpen'
    <3>1. ASSUME NEW i \in 1..Len(redo_buffer \o recs)
          PROVE  statuses[(redo_buffer \o recs)[i].tx_id] = "Active"
      <4>1. /\ Len(redo_buffer) \in Nat /\ Len(recs) \in Nat
            /\ i \in 1..(Len(redo_buffer) + Len(recs))
            /\ (redo_buffer \o recs)[i] =
                  IF i <= Len(redo_buffer) THEN redo_buffer[i] ELSE recs[i - Len(redo_buffer)]
        BY <1>4, <2>3, <3>1, ConcatProperties
      <4>2. CASE i <= Len(redo_buffer)
        BY <4>1, <4>2 DEF Ahead, BufferOpen
      <4>3. CASE ~(i <= Len(redo_buffer))
        <5>1. i - Len(redo_buffer) \in 1..Len(recs)
          BY <4>1, <4>3
        <5> QED BY <2>2, <2>3, <4>1, <4>3, <5>1
      <4> QED BY <4>2, <4>3
    <3> QED BY <1>3, <2>1, <3>1 DEF BufferOpen
  <2>9. Resumed'
    <3> SUFFICES ASSUME ~eol PROVE Resumed'
      BY <1>3 DEF Resumed
    <3>1. redo_buffer # <<>>
      BY <1>6 DEF Ahead, Resumed, x
    <3>2. Last(redo_log) \in Unreadable /\ Head(redo_buffer).type = "begin"
      BY <3>1 DEF Ahead, Resumed
    <3>3. redo_buffer' # <<>> /\ Head(redo_buffer') = Head(redo_buffer)
      BY <1>4, <2>1, <2>3, <3>1, HeadOfConcat
    <3> QED BY <1>3, <3>2, <3>3 DEF Resumed
  <2> QED BY <1>3, <2>7, <2>8, <2>9 DEF Ahead, CommitsIn
<1> QED BY <1>5, <1>6

\* Recovery puts no more rows into a table than the log has records of.
LEMMA CountRecovered ==
    ASSUME NEW log \in Seq(LogLines), NEW t \in Tables, NEW x \in TxIds, NEW v \in Values
    PROVE  /\ RecoveredRows(log, t) \in Seq(Row)
           /\ Count(RecoveredRows(log, t), RowWith(x, v)) <= Count(log, InsertsInto(x, t, v))
<1> DEFINE K == Replayed(log, t)
           recs == Picked(log, K)
           rows == RecoveredRows(log, t)
           G == InsertsInto(x, t, v)
           E == {log[i] : i \in K \cap 1..Len(log)}
<1>1. recs \in Seq(LogLines) /\ Count(recs, G) <= Count(log, G)
  <2> HIDE DEF K, G
  <2> QED BY CountPicked
<1>2. \A i \in 1..Len(recs) : recs[i] \in E
  <2>1. recs \in Seq(E)
    <3> HIDE DEF K
    <3> QED BY PickedType
  <2> HIDE DEF recs, E
  <2> QED BY <2>1
<1>3. \A l \in E : l \in InsertRecords /\ l.table = t
  <2>1. ASSUME NEW i \in K PROVE log[i] \in InsertRecords /\ log[i].table = t
    <3>1. i \in 1..Len(log) /\ log[i].type = "insert" /\ log[i].table = t
      BY DEF Replayed, OfKind
    <3>2. log[i] \in LogLines
      BY <3>1
    <3> QED BY <3>1, <3>2 DEF LogLines, RedoRecords, StatusRecords, InsertRecords, Garbage, BadUtf8
  <2> QED BY <2>1
<1> HIDE DEF K, recs, E
<1>4. rows = [i \in 1..Len(recs) |-> [val |-> recs[i].val, tx_id |-> recs[i].tx_id]]
  BY <1>1 DEF RecoveredRows, recs, K
<1>5. /\ \A i \in 1..Len(recs) : rows[i] = [val |-> recs[i].val, tx_id |-> recs[i].tx_id]
      /\ Len(recs) \in Nat
  BY <1>1, <1>4
<1>6. rows \in Seq(Row) /\ Len(rows) = Len(recs)
  <2>1. \A i \in 1..Len(recs) : [val |-> recs[i].val, tx_id |-> recs[i].tx_id] \in Row
    BY <1>2, <1>3 DEF InsertRecords, Row
  <2> QED BY <1>4, <1>5, <2>1
<1> HIDE DEF rows
<1>7. ASSUME NEW i \in 1..Len(rows), rows[i] \in RowWith(x, v) PROVE recs[i] \in G
  <2>1. [val |-> recs[i].val, tx_id |-> recs[i].tx_id] = [val |-> v, tx_id |-> x]
    BY <1>5, <1>6, <1>7 DEF RowWith
  <2>2. recs[i].val = v /\ recs[i].tx_id = x
    BY <2>1
  <2> QED BY <1>2, <1>3, <1>6, <2>2 DEF InsertsInto
<1> HIDE DEF G
<1>8. Count(rows, RowWith(x, v)) <= Count(recs, G)
  BY <1>1, <1>5, <1>6, <1>7, CountLess
<1>9. Count(rows, RowWith(x, v)) \in Nat /\ Count(recs, G) \in Nat /\ Count(log, G) \in Nat
  BY <1>1, <1>6, CountType
<1>10. Count(rows, RowWith(x, v)) <= Count(log, G)
  BY <1>1, <1>8, <1>9
<1> QED BY <1>6, <1>10 DEF rows, G

\* Recovery finds the commit record and the insert records it replays.
LEMMA AheadBoot ==
    ASSUME Ahead, Ordered', Owned', Boot
    PROVE  Ahead'
<1>1. /\ redo_log' = redo_log /\ eol' = eol /\ redo_buffer' = <<>>
      /\ statuses' = RecoveredStatuses(redo_log)
      /\ commit_scns' = RecoveredCommitScns(redo_log)
      /\ tables' = [t \in Tables |-> BootRows(redo_log, t)]
  BY DEF Boot, NewManager, logVars
<1>2. redo_log \in Seq(LogLines) /\ History' = redo_log
  BY <1>1, AheadTypes, ConcatEmptySeq DEF Ahead, History
<1>3. ASSUME NEW x \in TxIds, NEW t \in Tables, NEW v \in Values
      PROVE  Count(BootRows(redo_log, t), RowWith(x, v)) <= Count(redo_log, InsertsInto(x, t, v))
  <2> DEFINE old == RecoveredRows(redo_log, t)
             demo == NewRows(DemoRows[t], NoTx)
  <2>1. old \in Seq(Row) /\ Count(old, RowWith(x, v)) <= Count(redo_log, InsertsInto(x, t, v))
    BY <1>2, CountRecovered
  <2>2. DemoRows[t] \in Seq(Values)
    BY DatabaseAssumption
  <2>3. demo \in Seq(Row) /\ Count(demo, RowWith(x, v)) = 0
    BY <2>2, CountOutside
  <2>4. BootRows(redo_log, t) = old \o demo
    BY DEF BootRows
  <2> HIDE DEF old, demo
  <2>5. Count(old \o demo, RowWith(x, v)) = Count(old, RowWith(x, v)) + Count(demo, RowWith(x, v))
    BY <2>1, <2>3, CountConcat
  <2>6. Count(old, RowWith(x, v)) \in Nat
    BY <2>1, CountType
  <2> QED BY <2>1, <2>3, <2>4, <2>5, <2>6
<1>4. Logged(History, tables)'
  BY <1>1, <1>2, <1>3 DEF Logged
<1>5. CommitsIn(redo_log, statuses, commit_scns)'
  <2>1. ASSUME NEW x \in TxIds, statuses'[x] = "Committed"
        PROVE  \E i \in 1..Len(redo_log) : /\ redo_log[i].type = "commit" /\ redo_log[i].tx_id = x
                                           /\ redo_log[i].scn = commit_scns'[x]
    <3>1. PICK k \in Parsed(redo_log) : /\ redo_log[k].type = "commit" /\ redo_log[k].tx_id = x
                                        /\ redo_log[k].scn = RecoveredCommitScns(redo_log)[x]
      BY <1>1, <1>2, <2>1, RecoveredCommit
    <3>2. k \in 1..Len(redo_log)
      BY <1>2, ParsedFields
    <3> QED BY <1>1, <3>1, <3>2
  <2> QED BY <1>1, <2>1 DEF CommitsIn
<1>6. BufferOpen'
  BY <1>1 DEF BufferOpen
<1>7. Resumed'
  <2>1. boots \in Nat /\ boots' = boots + 1
    BY DEF Boot, Ahead, Ordered, Typed, TypeOK
  <2>2. \A s \in Sessions : current_tx_id'[s] = NoTx
    BY DEF Boot, NoSessions
  <2>3. boots # 0 => boots' # 0 /\ boots' # 1
    BY <2>1
  <2> QED BY <1>1, <2>2, <2>3 DEF Ahead, Resumed
<1> QED BY <1>1, <1>4, <1>5, <1>6, <1>7 DEF Ahead

\* A process that dies inside a flush leaves whole lines, or an unterminated one
\* that nothing more is written to or that cannot be read.
LEMMA AheadFlushCrash ==
    ASSUME CleanWrites, Ahead, Ordered', Owned', NEW s \in Sessions, FlushCrash(s)
    PROVE  Ahead'
<1>1. Lost
  BY DEF FlushCrash
<1>2. Typed /\ boots # 0
  BY DEF FlushCrash, Ahead, Ordered, Typed
<1>3. PICK buffer, outcomes : WroteRecords(buffer, outcomes)
  BY <1>2, CrashWrites
<1>4. ASSUME ~eol' PROVE Last(redo_log') \in Unreadable \/ NoReuse
  <2>1. CASE NoReuse
    BY <2>1
  <2>2. CASE ~NoReuse
    <3>1. NoBareRecord
      BY <2>2 DEF CleanWrites
    <3>2. Sealed
      BY <1>2, <2>2 DEF Ahead, Resumed, Sealed
    <3> QED BY <1>3, <1>4, <3>1, <3>2, WroteSealed
  <2> QED BY <2>1, <2>2
<1> QED BY <1>1, <1>2, <1>4, AheadNone

LEMMA AheadStep == CleanWrites /\ Ahead /\ [Next]_vars => Ahead'
<1> SUFFICES ASSUME CleanWrites, Ahead, [Next]_vars PROVE Ahead'
  OBVIOUS
<1>0. Ordered' /\ Owned'
  BY OrderedStep, OwnedStep DEF Ahead
<1>1. CASE Boot
  BY <1>0, <1>1, AheadBoot
<1>2. CASE Crash
  <2>1. Lost /\ redo_log' = redo_log /\ eol' = eol
    BY <1>2 DEF Crash, logVars
  <2> QED BY <1>0, <2>1, AheadNone DEF Ahead, Resumed
<1>3. ASSUME NEW s \in Sessions, Begin(s) PROVE Ahead'
  BY <1>0, <1>3, AheadBegin
<1>4. ASSUME NEW s \in Sessions, Commit(s) PROVE Ahead'
  BY <1>0, <1>4, AheadCommit
<1>5. ASSUME NEW s \in Sessions, Rollback(s) PROVE Ahead'
  BY <1>0, <1>5, AheadRollback
<1>6. ASSUME NEW s \in Sessions, FlushCrash(s) PROVE Ahead'
  BY <1>0, <1>6, AheadFlushCrash
<1>7. ASSUME NEW s \in Sessions, NEW t \in Tables, NEW rows \in Inserts,
             Insert(s, t, rows)
      PROVE  Ahead'
  BY <1>0, <1>7, AheadInsert
<1>8. CASE \/ UNCHANGED vars
           \/ \E s \in Sessions : Query(s) \/ Reconnect(s)
           \/ \E t \in Tables, w \in Widths : CreateTable(t, w)
  <2>1. UNCHANGED <<redo_log, eol, redo_buffer, statuses, commit_scns, tables>>
    BY <1>8 DEF vars, Query, Reconnect, CreateTable, logVars, txVars, dbVars
  <2>2. UNCHANGED procVars
    BY <1>8 DEF vars, Query, Reconnect, CreateTable
  <2>3. \A s \in Sessions : current_tx_id'[s] \in {current_tx_id[s], NoTx}
    <3>1. current_tx_id \in [Sessions -> TxIds \cup {NoTx}]
      BY AheadTypes DEF Ahead
    <3> QED BY <1>8, <3>1 DEF vars, Query, Reconnect, CreateTable, sessionVars
  <2> QED BY <1>0, <2>1, <2>2, <2>3, AheadKept
<1> QED BY <1>1, <1>2, <1>3, <1>4, <1>5, <1>6, <1>7, <1>8 DEF Next

LEMMA AheadInit == Init => Ahead
<1> SUFFICES ASSUME Init PROVE Ahead
  OBVIOUS
<1>1. Ordered /\ Owned
  BY OrderedInit, TypedInit DEF Init, Owned, TxOwnedOnce
<1>2. /\ eol /\ redo_log = <<>> /\ redo_buffer = <<>> /\ statuses = NoStatuses
      /\ tables = [t \in Tables |-> <<>>]
  BY DEF Init
<1>3. BufferOpen /\ CommitsIn(redo_log, statuses, commit_scns)
  BY <1>2 DEF BufferOpen, CommitsIn, NoStatuses
<1>4. ASSUME NEW x \in TxIds, NEW t \in Tables, NEW v \in Values
      PROVE  Count(tables[t], RowWith(x, v)) <= Count(History, InsertsInto(x, t, v))
  <2>1. Count(<<>>, RowWith(x, v)) = 0
    <3>1. \A i \in 1..Len(<<>>) : <<>>[i] \notin RowWith(x, v)
      OBVIOUS
    <3> QED BY <3>1, CountNone
  <2>2. Count(History, InsertsInto(x, t, v)) \in Nat
    BY <1>1, AheadTypes, CountType
  <2> QED BY <1>2, <2>1, <2>2
<1>5. Resumed
  BY <1>2 DEF Resumed
<1> QED BY <1>1, <1>2, <1>3, <1>4, <1>5 DEF Ahead, Logged

LEMMA AlwaysAhead == ASSUME CleanWrites PROVE Spec => []Ahead
<1>1. Ahead /\ [Next]_vars => Ahead'
  BY AheadStep
<1> QED BY <1>1, AheadInit, PTL DEF Spec

\* What the buffer holds is not of a committed transaction, so the file has it.
LEMMA AheadWritten ==
    ASSUME Ahead, NEW x \in TxIds, statuses[x] = "Committed",
           NEW t \in Tables, NEW v \in Values
    PROVE  Count(History, InsertsInto(x, t, v)) = Count(redo_log, InsertsInto(x, t, v))
<1> DEFINE G == InsertsInto(x, t, v)
<1>1. redo_log \in Seq(LogLines) /\ redo_buffer \in Seq(LogLines)
  BY AheadTypes DEF Ahead
<1>2. \A i \in 1..Len(redo_buffer) : redo_buffer[i] \notin G
  BY DEF Ahead, BufferOpen, InsertsInto
<1> HIDE DEF G
<1>3. Count(redo_buffer, G) = 0
  BY <1>1, <1>2, CountNone
<1>4. Count(redo_log \o redo_buffer, G) = Count(redo_log, G) + Count(redo_buffer, G)
  BY <1>1, CountConcat
<1>5. Count(redo_log, G) \in Nat
  BY <1>1, CountType
<1> QED BY <1>3, <1>4, <1>5 DEF History, G

LEMMA LogHits ==
    ASSUME NEW log \in Seq(LogLines), NEW x \in TxIds, NEW t \in Tables, NEW v \in Values
    PROVE  InsertsOf(log, x, t, v) = Hits(log, InsertsInto(x, t, v))
<1>1. ASSUME NEW i \in InsertsOf(log, x, t, v) PROVE i \in Hits(log, InsertsInto(x, t, v))
  <2>1. /\ i \in 1..Len(log) /\ log[i].type = "insert" /\ log[i].tx_id = x
        /\ log[i].table = t /\ log[i].val = v
    BY <1>1 DEF InsertsOf, OfTx, OfKind
  <2>2. log[i] \in LogLines
    BY <2>1
  <2>3. log[i] \in InsertRecords
    BY <2>1, <2>2 DEF LogLines, RedoRecords, StatusRecords, InsertRecords, Garbage, BadUtf8
  <2> QED BY <2>1, <2>3 DEF Hits, InsertsInto
<1>2. ASSUME NEW i \in Hits(log, InsertsInto(x, t, v)) PROVE i \in InsertsOf(log, x, t, v)
  <2>1. /\ i \in 1..Len(log) /\ log[i] \in InsertRecords
        /\ log[i].tx_id = x /\ log[i].table = t /\ log[i].val = v
    BY <1>2 DEF Hits, InsertsInto
  <2>2. log[i].type = "insert"
    BY <2>1 DEF InsertRecords
  <2> QED BY <2>1, <2>2 DEF InsertsOf, OfTx, OfKind
<1> QED BY <1>1, <1>2

\* Write-ahead logging (README.md:39): with a disk that does not fail, values
\* that JSON can hold and no write cut between a record and its newline (or no
\* later run that begins transactions), the file holds the commit record of
\* every transaction that is Committed in memory, and at least as many insert
\* records of a value as the transaction has rows with it in a table, for every
\* number of runs, sessions, transactions, tables and rows.  A torn line takes
\* the first line written behind it with it (tx.rs:63), but that is the BEGIN
\* of a transaction (tx.rs:75-88, 100-144).
THEOREM CommittedIsLogged == ASSUME CleanWrites PROVE Spec => []WriteAhead
<1>1. Ahead => WriteAhead
  <2> SUFFICES ASSUME Ahead, NEW x \in TxIds, statuses[x] = "Committed"
               PROVE  /\ \E i \in OfTx(redo_log, x, {"commit"}) : redo_log[i].scn = commit_scns[x]
                      /\ \A t \in Tables, v \in Values :
                            Cardinality(RowsOf(x, t, v)) <= Cardinality(InsertsOf(redo_log, x, t, v))
    BY DEF WriteAhead
  <2>1. redo_log \in Seq(LogLines) /\ tables \in [Tables -> Seq(Row)]
    BY AheadTypes DEF Ahead
  <2>2. \E i \in OfTx(redo_log, x, {"commit"}) : redo_log[i].scn = commit_scns[x]
    <3>1. PICK i \in 1..Len(redo_log) : /\ redo_log[i].type = "commit" /\ redo_log[i].tx_id = x
                                        /\ redo_log[i].scn = commit_scns[x]
      BY DEF Ahead, CommitsIn
    <3>2. i \in OfTx(redo_log, x, {"commit"})
      BY <2>1, <3>1 DEF OfTx, OfKind
    <3> QED BY <3>1, <3>2
  <2>3. ASSUME NEW t \in Tables, NEW v \in Values
        PROVE  Cardinality(RowsOf(x, t, v)) <= Cardinality(InsertsOf(redo_log, x, t, v))
    <3>1. RowsOf(x, t, v) = Hits(tables[t], RowWith(x, v))
      <4>1. tables[t] \in Seq(Row)
        BY <2>1
      <4> QED BY <4>1 DEF RowsOf, Hits, RowWith
    <3>2. InsertsOf(redo_log, x, t, v) = Hits(redo_log, InsertsInto(x, t, v))
      BY <2>1, LogHits
    <3>3. Count(tables[t], RowWith(x, v)) <= Count(redo_log, InsertsInto(x, t, v))
      <4>1. Count(tables[t], RowWith(x, v)) <= Count(History, InsertsInto(x, t, v))
        BY DEF Ahead, Logged
      <4> QED BY <4>1, AheadWritten
    <3> QED BY <3>1, <3>2, <3>3 DEF Count
  <2> QED BY <2>2, <2>3
<1>2. Spec => []Ahead
  BY AlwaysAhead
<1> QED BY <1>1, <1>2, PTL
=============================================================================

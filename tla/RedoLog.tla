------------------------------ MODULE RedoLog ------------------------------
(***************************************************************************)
(* The file ./redo.log: an append-only text file of JSON lines, written    *)
(* only by TransactionManager::lgwr_flush (src/src/tx.rs) and read only by *)
(* recovery::recover (src/src/recovery.rs).                                *)
(*                                                                         *)
(* A line is the record it parses to, Garbage when serde_json rejects it,  *)
(* or BadUtf8 when BufRead::lines() itself fails on it.  The flush writes  *)
(* each record with writeln!, that is the text and then the newline, and   *)
(* drops the error of each (.ok()), so any write may stop at any point and *)
(* the next record still be written: the variable eol says whether the     *)
(* last line of the file is terminated.                                    *)
(***************************************************************************)
EXTENDS Integers, Sequences, SequencesExt

CONSTANTS
    Tables,      \* table names
    Values,      \* row contents (a Vec<Value>)
    TxIds,       \* transaction ids, 1..MaxTxId
    NonFinite,   \* rows with an infinite or NaN FLOAT: JSON null, unreadable
    MultiByte,   \* rows with non-ASCII text, whose bytes can be cut apart
    CrashTails,  \* how a crash may cut the record being written
    DiskTails    \* how the disk may fail any record ({}: it never fails)

\* A write may stop before the record, before its newline, inside it or inside
\* a character of it.
Tails == {"line", "noeol", "torn", "torn8"}

ASSUME LogAssumption ==
    /\ TxIds \subseteq Nat
    /\ NonFinite \subseteq Values /\ MultiByte \subseteq Values
    /\ CrashTails \subseteq Tails /\ DiskTails \subseteq Tails

VARIABLES
    redo_log,    \* the lines of the file
    eol          \* TRUE iff the file is empty or ends in a newline

logVars == <<redo_log, eol>>

(***************************************************************************)
(* RedoRecord.  The row_idx of an insert record is never read back         *)
(* (recovery.rs:56), so it is left out.                                    *)
(***************************************************************************)
StatusRecords == [type : {"begin", "commit", "rollback"}, tx_id : TxIds, scn : Nat]
InsertRecords == [type : {"insert"}, tx_id : TxIds, scn : Nat,
                  table : Tables, val : Values]
RedoRecords == StatusRecords \cup InsertRecords

Garbage == [type |-> "garbage"]
BadUtf8 == [type |-> "badutf8"]
LogLines == RedoRecords \cup {Garbage, BadUtf8}

StatusRecord(kind, tx, n) == [type |-> kind, tx_id |-> tx, scn |-> n]
InsertRecord(tx, n, t, v) ==
    [type |-> "insert", tx_id |-> tx, scn |-> n, table |-> t, val |-> v]

(***************************************************************************)
(* serde_json writes an infinite FLOAT as null, which no longer parses as  *)
(* a Value::Float; every other record reads back as written.               *)
(***************************************************************************)
Serialise(rec) ==
    IF rec.type = "insert" /\ rec.val \in NonFinite THEN Garbage ELSE rec

\* Text appended to an unterminated line becomes part of that line.
Joined(a, b) == IF BadUtf8 \in {a, b} THEN BadUtf8 ELSE Garbage

Appended(log, terminated, lines) ==
    IF terminated \/ lines = <<>> THEN log \o lines
    ELSE Front(log) \o <<Joined(Last(log), Head(lines))>> \o Tail(lines)

\* What a writeln! of rec puts behind the text of the file.
Put(rec, outcome) ==
    CASE outcome \in {"whole", "noeol"} -> <<Serialise(rec)>>
      [] outcome = "line"  -> <<>>
      [] outcome = "torn"  -> <<Garbage>>
      [] outcome = "torn8" -> <<BadUtf8>>

\* torn8 cuts a multi-byte character, so the record must hold one.
CanPut(rec, outcome) ==
    outcome = "torn8" => rec.type = "insert" /\ rec.val \in MultiByte

Written(file, rec, outcome) ==
    [lines |-> Appended(file.lines, file.eol, Put(rec, outcome)),
     eol |-> IF outcome = "line" THEN file.eol ELSE outcome = "whole"]

(***************************************************************************)
(* The loop of the flush over the records: what each write came to.  It    *)
(* goes on after a write that failed, so the next record may be joined to  *)
(* what is left of the failed one; it ends early if the process dies.      *)
(***************************************************************************)
WriteRecords(buffer, outcomes) ==
    LET file[k \in 0..Len(outcomes)] ==
            IF k = 0 THEN [lines |-> redo_log, eol |-> eol]
            ELSE Written(file[k - 1], buffer[k], outcomes[k])
    IN  /\ \A k \in 1..Len(outcomes) : CanPut(buffer[k], outcomes[k])
        /\ redo_log' = file[Len(outcomes)].lines
        /\ eol' = file[Len(outcomes)].eol

\* recover() reads the whole file before it replays: `line?` ends the boot.
Readable(log) == \A i \in DOMAIN log : log[i] # BadUtf8

\* The positions of the lines that parse, and of those of one kind.
Parsed(log) == {i \in DOMAIN log : log[i] \notin {Garbage, BadUtf8}}
OfKind(log, kinds) == {i \in DOMAIN log : log[i].type \in kinds}
=============================================================================

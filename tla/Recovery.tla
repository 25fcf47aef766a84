------------------------------ MODULE Recovery ------------------------------
(***************************************************************************)
(* recovery::recover (src/src/recovery.rs) as operators on the lines of    *)
(* the log.  It runs once, before the server listens: what it computes is  *)
(* the state the Boot action of Database starts from.                      *)
(***************************************************************************)
EXTENDS TxManager

\* The elements of s at the positions K, in order.
Picked(s, K) ==
    LET pick[i \in 0..Len(s)] ==
            IF i = 0 THEN <<>>
            ELSE IF i \in K THEN Append(pick[i - 1], s[i]) ELSE pick[i - 1]
    IN  pick[Len(s)]

\* The sets `committed` and `rolled_back` of the first pass.
committed(log) == {log[i].tx_id : i \in OfKind(log, {"commit"})}
rolled_back(log) == {log[i].tx_id : i \in OfKind(log, {"rollback"})}

\* Variant: a transaction without a rollback record is kept.
KeptUnlessRolledBack(log) == {log[i].tx_id : i \in OfKind(log, {"begin"})} \ rolled_back(log)

\* The second pass keeps the rows of these transactions and of no other.
Kept(log) == committed(log) \ rolled_back(log)

\* Variant: the commit records do not count for max_scn.
RecoveredScnOfBegins(log) ==
    LET begins == OfKind(log, {"begin"})
    IN  IF begins = {} THEN 0 ELSE Max({log[i].scn : i \in begins}) + 1

RecoveredScn(log) ==
    IF Parsed(log) = {} THEN 0 ELSE Max({log[i].scn : i \in Parsed(log)}) + 1

\* HashMap::insert in log order: the last record of a transaction decides.
StatusOf(kind) ==
    CASE kind = "begin" -> "Active"
      [] kind = "commit" -> "Committed"
      [] kind = "rollback" -> "RolledBack"

OfTx(log, tx, kinds) == {i \in OfKind(log, kinds) : log[i].tx_id = tx}

RecoveredStatuses(log) ==
    [x \in TxIds |->
        LET own == OfTx(log, x, {"begin", "commit", "rollback"})
        IN  IF own = {} THEN "None" ELSE StatusOf(log[Max(own)].type)]

RecoveredCommitScns(log) ==
    [x \in TxIds |->
        LET own == OfTx(log, x, {"commit"})
        IN  IF own = {} THEN NoScn ELSE log[Max(own)].scn]

\* Variant: one pass, which knows only the commits it has already read.
ReplayedInOnePass(log, t) ==
    {i \in OfKind(log, {"insert"}) :
        log[i].table = t /\ \E j \in OfTx(log, log[i].tx_id, {"commit"}) : j < i}

\* Every insert record is replayed, whatever its row_idx; losers are removed.
Replayed(log, t) ==
    {i \in OfKind(log, {"insert"}) : log[i].table = t /\ log[i].tx_id \in Kept(log)}

RecoveredRows(log, t) ==
    LET recs == Picked(log, Replayed(log, t))
    IN  [i \in DOMAIN recs |-> [val |-> recs[i].val, tx_id |-> recs[i].tx_id]]
=============================================================================

------------------------- MODULE DatabaseRefinement -------------------------
(***************************************************************************)
(* Database implements ReadCommitted.  The durable rows are what recovery  *)
(* would make of the log if the process died now; the others are the rows  *)
(* in memory that recovery would not bring back.                           *)
(***************************************************************************)
EXTENDS Database

ValuesOf(rows) == ToBag([i \in DOMAIN rows |-> rows[i].val])
InMemory(t, tx) ==
    ValuesOf(Picked(tables[t], {i \in DOMAIN tables[t] : tables[t][i].tx_id = tx}))

durable == [t \in Tables |-> ValuesOf(RecoveredRows(redo_log, t))]
temporary == [t \in Tables |-> InMemory(t, NoTx)]
open == [s \in Sessions |-> current_tx_id[s] # NoTx]
pending ==
    [s \in Sessions |-> [t \in Tables |->
        IF current_tx_id[s] = NoTx THEN EmptyBag ELSE InMemory(t, current_tx_id[s])]]

RC == INSTANCE ReadCommitted WITH running <- up

\* Every behaviour of the server is one of the promised ones: a COMMIT moves
\* exactly the transaction's rows into what a restart brings back, ROLLBACK,
\* a lost connection and a crash bring back nothing else, and no statement of
\* one session disturbs the pending rows of another (README.md:36-45).
ImplementsReadCommitted == RC!Spec

\* A SELECT returns the promised rows: all that a restart would bring back,
\* the unlogged ones, the session's own, and nothing of other transactions
\* (tx.rs:152-174, README.md:40-41).
ViewsAgree ==
    up => \A s \in Sessions, t \in Tables :
              ValuesOf(VisibleRows(s, t)) = RC!View(s, t)
=============================================================================

--------------------------- MODULE ReadCommitted ---------------------------
(***************************************************************************)
(* What the database promises its sessions (README.md, "Transaction &      *)
(* Recovery"): rows committed by a transaction are durable and seen by     *)
(* all; rows of an open transaction are seen by its session alone and      *)
(* vanish with ROLLBACK, with the connection and with the process; rows    *)
(* inserted outside a transaction, the demo rows among them, are seen by   *)
(* all and last as long as the process.  No log, no ids, no clock: a table *)
(* is a bag of row contents.                                               *)
(***************************************************************************)
EXTENDS Integers, SequencesExt

CONSTANTS Tables, Values, Sessions, DemoRows, Inserts

VARIABLES
    running,    \* is the server up?
    durable,    \* [Tables -> bag]: survives a crash
    temporary,  \* [Tables -> bag]: seen by all until the process ends
    open,       \* [Sessions -> BOOLEAN]: is the session in a transaction?
    pending     \* [Sessions -> [Tables -> bag]]: the transaction's own rows

abstractVars == <<running, durable, temporary, open, pending>>

NoRows == [t \in Tables |-> EmptyBag]

Init ==
    /\ running = FALSE
    /\ durable = NoRows
    /\ temporary = NoRows
    /\ open = [s \in Sessions |-> FALSE]
    /\ pending = [s \in Sessions |-> NoRows]

View(s, t) == durable[t] (+) temporary[t] (+) pending[s][t]

Start ==
    /\ ~running
    /\ running' = TRUE
    /\ temporary' = [t \in Tables |-> ToBag(DemoRows[t])]
    /\ UNCHANGED <<durable, open, pending>>

Begin(s) ==
    /\ running /\ ~open[s]
    /\ open' = [open EXCEPT ![s] = TRUE]
    /\ UNCHANGED <<running, durable, temporary, pending>>

\* An INSERT may stop at a row that does not fit; the rows before it count.
Insert(s, t) ==
    /\ running
    /\ \E rows \in Inserts : \E n \in 1..Len(rows) :
          LET new == ToBag(SubSeq(rows, 1, n))
          IN  IF open[s]
              THEN /\ pending' = [pending EXCEPT ![s][t] = @ (+) new]
                   /\ UNCHANGED temporary
              ELSE /\ temporary' = [temporary EXCEPT ![t] = @ (+) new]
                   /\ UNCHANGED pending
    /\ UNCHANGED <<running, durable, open>>

Close(s) ==
    /\ open' = [open EXCEPT ![s] = FALSE]
    /\ pending' = [pending EXCEPT ![s] = NoRows]

Save(s) == durable' = [t \in Tables |-> durable[t] (+) pending[s][t]]

Commit(s) ==
    /\ running /\ open[s]
    /\ Save(s) /\ Close(s)
    /\ UNCHANGED <<running, temporary>>

\* ROLLBACK, or the connection is gone.
Abandon(s) ==
    /\ running /\ open[s]
    /\ Close(s)
    /\ UNCHANGED <<running, durable, temporary>>

Lose ==
    /\ running /\ running' = FALSE
    /\ temporary' = NoRows
    /\ open' = [s \in Sessions |-> FALSE]
    /\ pending' = [s \in Sessions |-> NoRows]

Crash == Lose /\ UNCHANGED durable

\* The process dies in a COMMIT whose record has reached the log.
CommitThenCrash(s) == open[s] /\ Save(s) /\ Lose

Next ==
    \/ Start
    \/ Crash
    \/ \E s \in Sessions :
          \/ Begin(s)
          \/ Commit(s)
          \/ Abandon(s)
          \/ CommitThenCrash(s)
          \/ \E t \in Tables : Insert(s, t)

Spec == Init /\ [][Next]_abstractVars
=============================================================================

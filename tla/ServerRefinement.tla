-------------------------- MODULE ServerRefinement --------------------------
(***************************************************************************)
(* Server implements StatementService.  A client is lost when its process  *)
(* is gone, and from the moment a frame was sent whose length does not fit *)
(* into its header: of such a connection nothing is promised any more.     *)
(***************************************************************************)
EXTENDS Server

Lost(c) == client[c] = "off" \/ overlong[c]
Known(f) == [c \in Clients |-> IF Lost(c) THEN <<>> ELSE f[c]]

StateOf(c) ==
    CASE Lost(c) -> "lost"
      [] ~Lost(c) /\ client[c] = "idle" -> "idle"
      [] ~Lost(c) /\ client[c] # "idle" /\ reply[c] = <<>> -> "asked"
      [] ~Lost(c) /\ client[c] # "idle" /\ reply[c] # <<>> -> "done"

Service == INSTANCE StatementService WITH
    Statements <- Seq(Byte),
    state <- [c \in Clients |-> StateOf(c)],
    asked <- Known(statement),
    answer <- Known(reply),
    shown <- Known(shown),
    sound <- ~broken

\* A statement is executed once, whole, as its client sent it, by one thread
\* at a time, and on a sound database; and its client prints what came out of
\* it and nothing else, however the bytes arrive and whoever dies meanwhile
\* (server.rs:44-58, protocol.rs, client.rs; README.md:50-52).
ImplementsStatementService == Service!Spec
=============================================================================

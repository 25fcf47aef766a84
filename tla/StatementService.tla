-------------------------- MODULE StatementService --------------------------
(***************************************************************************)
(* What the server promises its clients about statements (README.md,       *)
(* "Client-Server Architecture"): a statement is performed in one step,    *)
(* once, after it was asked for, and its client is shown what came out of  *)
(* it.  A client may lose its connection at any time and then knows        *)
(* nothing of its last statement; after a statement that broke the         *)
(* database none is performed until the server is started again.  No       *)
(* threads, no lock, no bytes.                                             *)
(***************************************************************************)
CONSTANTS
    Clients,
    Statements,
    Texts,          \* replies
    Returns(_, _)   \* may the statement get the reply?

VARIABLES
    state,      \* of a client: "lost", "idle", "asked" or "done"
    asked,      \* its statement
    answer,     \* the reply it got: <<>> or <<reply>>
    shown,      \* the reply the client was shown: <<>> or <<reply>>
    sound       \* has no statement broken the database?

serviceVars == <<state, asked, answer, shown, sound>>

Init ==
    /\ state = [c \in Clients |-> "lost"]
    /\ asked = [c \in Clients |-> <<>>]
    /\ answer = [c \in Clients |-> <<>>]
    /\ shown = [c \in Clients |-> <<>>]
    /\ sound = TRUE

Open(c) ==
    /\ state[c] = "lost"
    /\ state' = [state EXCEPT ![c] = "idle"]
    /\ asked' = [asked EXCEPT ![c] = <<>>]
    /\ answer' = [answer EXCEPT ![c] = <<>>]
    /\ shown' = [shown EXCEPT ![c] = <<>>]
    /\ UNCHANGED sound

Ask(c) ==
    /\ state[c] = "idle"
    /\ state' = [state EXCEPT ![c] = "asked"]
    /\ asked'[c] \in Statements
    /\ asked' = [asked EXCEPT ![c] = asked'[c]]
    /\ answer' = [answer EXCEPT ![c] = <<>>]
    /\ shown' = [shown EXCEPT ![c] = <<>>]
    /\ UNCHANGED sound

Perform(c) ==
    /\ state[c] = "asked" /\ sound
    /\ state' = [state EXCEPT ![c] = "done"]
    /\ \E r \in Texts :
          /\ Returns(asked[c], r)
          /\ answer' = [answer EXCEPT ![c] = <<r>>]
    /\ UNCHANGED <<asked, shown, sound>>

Show(c) ==
    /\ state[c] = "done"
    /\ state' = [state EXCEPT ![c] = "idle"]
    /\ shown' = [shown EXCEPT ![c] = answer[c]]
    /\ UNCHANGED <<asked, answer, sound>>

Lose(c) ==
    /\ state' = [state EXCEPT ![c] = "lost"]
    /\ asked' = [asked EXCEPT ![c] = <<>>]
    /\ answer' = [answer EXCEPT ![c] = <<>>]
    /\ shown' = [shown EXCEPT ![c] = <<>>]
    /\ UNCHANGED sound

Break == sound' = FALSE /\ UNCHANGED <<state, asked, answer, shown>>
Restart == sound' = TRUE /\ UNCHANGED <<state, asked, answer, shown>>

Next ==
    \/ \E c \in Clients : Open(c) \/ Ask(c) \/ Perform(c) \/ Show(c) \/ Lose(c)
    \/ Break
    \/ Restart

Spec == Init /\ [][Next]_serviceVars
=============================================================================

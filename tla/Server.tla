------------------------------- MODULE Server -------------------------------
(***************************************************************************)
(* The connections (src/src/server.rs), their clients (src/src/client.rs)  *)
(* and the mutex around the database.                                      *)
(*                                                                         *)
(* A connection has a slot c: the client's process, a thread of the server *)
(* and a stream of bytes in each direction, which holds at most Capacity   *)
(* bytes, so that a writer may have to wait.  A thread reads a frame,      *)
(* waits for the mutex, executes the statement, drops the guard, and       *)
(* writes the reply.  A statement may panic and leave the database half    *)
(* changed; its guard then poisons the mutex.  What statements do to the   *)
(* database otherwise is the subject of module Database: to it a           *)
(* connection is a session, and a statement one step.                      *)
(***************************************************************************)
EXTENDS Protocol

CONSTANTS
    Clients,    \* the connections' slots
    Lines,      \* what the user of each may type: [kind, text], text without ";"
    Texts,      \* the replies there are
    Returns(_, _), \* may the statement return the reply?
    Panics(_),  \* may the statement panic?
    Crashes(_), \* is it /crash?
    Capacity,   \* bytes a stream holds
    MaxInput    \* bound: bytes of a statement before its last line

Free == "free"

ASSUME ServerAssumption ==
    /\ Free \notin Clients
    /\ \A c \in Clients :
          Lines[c] \subseteq [kind : {"part", "last", "command"}, text : Seq(Byte)]
    /\ Capacity \in Nat \ {0}
    /\ Texts \subseteq Seq(Byte)

VARIABLES
    up,         \* is the server process running?
    lock,       \* the client whose thread has the mutex, or Free
    poisoned,   \* is the mutex poisoned?
    broken,     \* has a panic left the database half changed?
    thread,     \* [Clients -> "none", "read", "lock", "execute", "write"]
    inbox,      \* the bytes a thread has got of the frame it reads
    request,    \* the statement it has read
    outbox,     \* the bytes of the reply it still has to write
    client,     \* [Clients -> "off", "idle", "write", "read"]
    input,      \* the text typed since the last statement was sent
    sending,    \* the bytes a client still has to write
    receiving,  \* the bytes it has got of the reply
    toServer,   \* the bytes under way
    toClient,
    statement,  \* of a client: the last one it sent,
    reply,      \* what came out of it, each time it was executed,
    shown,      \* and what it printed: <<>> or <<reply>>
    overlong    \* has a frame been sent whose length does not fit?

mutexVars == <<lock, poisoned, broken>>
threadVars == <<thread, inbox, request, outbox>>
clientVars == <<client, input, sending, receiving>>
historyVars == <<statement, reply, shown, overlong>>
vars == <<up, mutexVars, threadVars, clientVars, toServer, toClient, historyVars>>

Everywhere(x) == [c \in Clients |-> x]

Init ==
    /\ up = FALSE
    /\ lock = Free /\ poisoned = FALSE /\ broken = FALSE
    /\ thread = Everywhere("none") /\ client = Everywhere("off")
    /\ inbox = Everywhere(<<>>) /\ request = Everywhere(<<>>)
    /\ outbox = Everywhere(<<>>) /\ input = Everywhere(<<>>)
    /\ sending = Everywhere(<<>>) /\ receiving = Everywhere(<<>>)
    /\ toServer = Everywhere(<<>>) /\ toClient = Everywhere(<<>>)
    /\ statement = Everywhere(<<>>)
    /\ reply = Everywhere(<<>>) /\ shown = Everywhere(<<>>)
    /\ overlong = Everywhere(FALSE)

(***************************************************************************)
(* An end that goes away: what it has written may still arrive, or be lost *)
(* if the connection is reset.                                             *)
(***************************************************************************)
EndThread(c) ==
    /\ thread' = [thread EXCEPT ![c] = "none"]
    /\ inbox' = [inbox EXCEPT ![c] = <<>>]
    /\ request' = [request EXCEPT ![c] = <<>>]
    /\ outbox' = [outbox EXCEPT ![c] = <<>>]
    /\ toClient' \in {toClient, [toClient EXCEPT ![c] = <<>>]}

EndClient(c) ==
    /\ client' = [client EXCEPT ![c] = "off"]
    /\ input' = [input EXCEPT ![c] = <<>>]
    /\ sending' = [sending EXCEPT ![c] = <<>>]
    /\ receiving' = [receiving EXCEPT ![c] = <<>>]
    /\ toServer' \in {toServer, [toServer EXCEPT ![c] = <<>>]}

(***************************************************************************)
(* The process.  Boot is run() up to listen(): a new mutex.  Stop is the   *)
(* end of the process: killed, or run() has returned because accept()      *)
(* failed; all threads end with it, wherever they are.                     *)
(***************************************************************************)
Boot ==
    /\ ~up /\ up' = TRUE
    /\ lock' = Free /\ poisoned' = FALSE /\ broken' = FALSE
    /\ UNCHANGED <<threadVars, clientVars, toServer, toClient, historyVars>>

EndProcess ==
    /\ up' = FALSE
    /\ lock' = Free /\ poisoned' = FALSE /\ broken' = FALSE
    /\ thread' = Everywhere("none")
    /\ inbox' = Everywhere(<<>>)
    /\ request' = Everywhere(<<>>)
    /\ outbox' = Everywhere(<<>>)
    /\ toClient' \in {toClient, Everywhere(<<>>)}
    /\ UNCHANGED <<clientVars, toServer, historyVars>>

Stop == up /\ EndProcess

(***************************************************************************)
(* The client: it connects, sends a statement, reads the reply, prints it. *)
(***************************************************************************)
Connect(c) ==
    /\ up /\ client[c] = "off" /\ thread[c] = "none"
    /\ client' = [client EXCEPT ![c] = "idle"]
    /\ thread' = [thread EXCEPT ![c] = "read"]
    /\ toServer' = [toServer EXCEPT ![c] = <<>>]
    /\ toClient' = [toClient EXCEPT ![c] = <<>>]
    /\ statement' = [statement EXCEPT ![c] = <<>>]
    /\ reply' = [reply EXCEPT ![c] = <<>>]
    /\ shown' = [shown EXCEPT ![c] = <<>>]
    /\ overlong' = [overlong EXCEPT ![c] = FALSE]
    /\ UNCHANGED <<up, mutexVars, inbox, request, outbox, input, sending, receiving>>

\* A line without a semicolon; the statement goes on.
TypePart(c, line) ==
    /\ client[c] = "idle" /\ line.kind = "part"
    /\ Len(input[c] \o line.text) <= MaxInput
    /\ input' = [input EXCEPT ![c] = @ \o line.text]
    /\ UNCHANGED <<up, mutexVars, threadVars, client, sending, receiving,
                   toServer, toClient, historyVars>>

\* A command is sent alone, and what was typed before it is forgotten.
Typed(c, line) == IF line.kind = "command" THEN line.text ELSE input[c] \o line.text

SendTyped(c, line) ==
    LET s == Typed(c, line)
    IN /\ client[c] = "idle" /\ line.kind \in {"last", "command"}
       /\ s # <<>>
       /\ client' = [client EXCEPT ![c] = "write"]
       /\ input' = [input EXCEPT ![c] = <<>>]
       /\ sending' = [sending EXCEPT ![c] = Frame(s)]
       /\ statement' = [statement EXCEPT ![c] = s]
       /\ reply' = [reply EXCEPT ![c] = <<>>]
       /\ shown' = [shown EXCEPT ![c] = <<>>]
       /\ overlong' = [overlong EXCEPT ![c] = @ \/ ~Fits(s)]
       /\ UNCHANGED <<up, mutexVars, threadVars, receiving, toServer, toClient>>

\* What a stream has room for.
Room(stream, bytes) ==
    IF Capacity - Len(stream) < Len(bytes) THEN Capacity - Len(stream) ELSE Len(bytes)
Written(stream, bytes) == stream \o SubSeq(bytes, 1, Room(stream, bytes))
Unwritten(stream, bytes) == SubSeq(bytes, Room(stream, bytes) + 1, Len(bytes))

ClientWrite(c) ==
    /\ client[c] = "write" /\ thread[c] # "none"
    /\ Room(toServer[c], sending[c]) > 0
    /\ toServer' = [toServer EXCEPT ![c] = Written(toServer[c], sending[c])]
    /\ sending' = [sending EXCEPT ![c] = Unwritten(toServer[c], @)]
    /\ client' = [client EXCEPT ![c] = IF sending'[c] = <<>> THEN "read" ELSE @]
    /\ UNCHANGED <<up, mutexVars, threadVars, input, receiving, toClient, historyVars>>

ClientRead(c) ==
    /\ client[c] = "read" /\ toClient[c] # <<>>
    /\ toClient' = [toClient EXCEPT ![c] = Left(toClient[c], receiving[c])]
    /\ LET got == Taken(toClient[c], receiving[c])
       IN \/ /\ Missing(got) > 0
             /\ receiving' = [receiving EXCEPT ![c] = got]
             /\ UNCHANGED <<client, input, sending, toServer, shown>>
          \/ /\ Missing(got) = 0 /\ Utf8(Payload(got))
             /\ receiving' = [receiving EXCEPT ![c] = <<>>]
             /\ client' = [client EXCEPT ![c] = "idle"]
             /\ shown' = [shown EXCEPT ![c] = <<Payload(got)>>]
             /\ UNCHANGED <<input, sending, toServer>>
          \/ /\ Missing(got) = 0 /\ ~Utf8(Payload(got))
             /\ EndClient(c)
             /\ UNCHANGED shown
    /\ UNCHANGED <<up, mutexVars, threadVars, statement, reply, overlong>>

\* Variant: the client connects again by itself and repeats its statement.
Retry(c) ==
    /\ up /\ thread[c] = "none" /\ client[c] \in {"write", "read"}
    /\ thread' = [thread EXCEPT ![c] = "read"]
    /\ client' = [client EXCEPT ![c] = "write"]
    /\ sending' = [sending EXCEPT ![c] = Frame(statement[c])]
    /\ receiving' = [receiving EXCEPT ![c] = <<>>]
    /\ toServer' = [toServer EXCEPT ![c] = <<>>]
    /\ toClient' = [toClient EXCEPT ![c] = <<>>]
    /\ UNCHANGED <<up, mutexVars, inbox, request, outbox, input, historyVars>>

\* The server's end is gone: a write or a read of the client fails.
ClientFails(c) ==
    /\ thread[c] = "none"
    /\ \/ client[c] = "write"
       \/ client[c] = "read" /\ toClient[c] = <<>>
    /\ EndClient(c)
    /\ UNCHANGED <<up, mutexVars, threadVars, toClient, historyVars>>

\* exit, or the client's process is killed.
Quit(c) ==
    /\ client[c] # "off"
    /\ EndClient(c)
    /\ UNCHANGED <<up, mutexVars, threadVars, toClient, historyVars>>

(***************************************************************************)
(* The thread of a connection.                                             *)
(***************************************************************************)
ThreadRead(c) ==
    /\ thread[c] = "read" /\ toServer[c] # <<>>
    /\ toServer' = [toServer EXCEPT ![c] = Left(toServer[c], inbox[c])]
    /\ LET got == Taken(toServer[c], inbox[c])
       IN \/ /\ Missing(got) > 0
             /\ inbox' = [inbox EXCEPT ![c] = got]
             /\ UNCHANGED <<thread, request, outbox, toClient>>
          \/ /\ Missing(got) = 0 /\ Utf8(Payload(got))
             /\ inbox' = [inbox EXCEPT ![c] = <<>>]
             /\ thread' = [thread EXCEPT ![c] = "lock"]
             /\ request' = [request EXCEPT ![c] = Payload(got)]
             /\ UNCHANGED <<outbox, toClient>>
          \/ /\ Missing(got) = 0 /\ ~Utf8(Payload(got))
             /\ EndThread(c)
    /\ UNCHANGED <<up, mutexVars, clientVars, historyVars>>

\* Variant: after an error the thread reads on.
IgnoresEof(c) ==
    /\ thread[c] = "read" /\ toServer[c] = <<>> /\ client[c] = "off"
    /\ inbox' = [inbox EXCEPT ![c] = <<>>]
    /\ UNCHANGED <<up, mutexVars, thread, request, outbox, clientVars,
                   toServer, toClient, historyVars>>

\* The end of the stream, inside a frame or between two.
ThreadEof(c) ==
    /\ thread[c] = "read" /\ toServer[c] = <<>> /\ client[c] = "off"
    /\ EndThread(c)
    /\ UNCHANGED <<up, mutexVars, clientVars, toServer, historyVars>>

\* lock().unwrap(): the unwrap of a poisoned mutex panics, and frees it.
Acquire(c) ==
    /\ lock' = c
    /\ thread' = [thread EXCEPT ![c] = "execute"]
    /\ UNCHANGED <<inbox, request, outbox, toClient>>

\* Variants: the poison is ignored; a poisoned mutex is never got.
IgnoresPoison(c) ==
    /\ thread[c] = "lock" /\ lock = Free
    /\ Acquire(c)
    /\ UNCHANGED <<up, poisoned, broken, clientVars, toServer, historyVars>>

WaitsIfPoisoned(c) ==
    /\ thread[c] = "lock" /\ lock = Free /\ ~poisoned
    /\ Acquire(c)
    /\ UNCHANGED <<up, poisoned, broken, clientVars, toServer, historyVars>>

Lock(c) ==
    /\ thread[c] = "lock" /\ lock = Free
    /\ \/ ~poisoned /\ Acquire(c)
       \/ poisoned /\ EndThread(c) /\ UNCHANGED lock
    /\ UNCHANGED <<up, poisoned, broken, clientVars, toServer, historyVars>>

\* Variant: the reply is written under the lock.
RepliesUnderLock(c) ==
    /\ thread[c] = "execute" /\ ~Crashes(request[c])
    /\ lock' = Free
    /\ thread' = [thread EXCEPT ![c] = "read"]
    /\ request' = [request EXCEPT ![c] = <<>>]
    /\ \E r \in Texts :
          /\ Returns(request[c], r)
          /\ Len(toClient[c] \o Frame(r)) <= Capacity
          /\ toClient' = [toClient EXCEPT ![c] = @ \o Frame(r)]
          /\ reply' = [reply EXCEPT ![c] = Append(@, r)]
    /\ UNCHANGED <<up, poisoned, broken, inbox, outbox, clientVars, toServer,
                   statement, shown, overlong>>

\* handle_statement returns; the guard is dropped before the reply is written.
Finish(c) ==
    /\ thread[c] = "execute" /\ ~Crashes(request[c])
    /\ lock' = Free
    /\ thread' = [thread EXCEPT ![c] = "write"]
    /\ request' = [request EXCEPT ![c] = <<>>]
    /\ \E r \in Texts :
          /\ Returns(request[c], r)
          /\ outbox' = [outbox EXCEPT ![c] = Frame(r)]
          /\ reply' = [reply EXCEPT ![c] = Append(@, r)]
          /\ overlong' = [overlong EXCEPT ![c] = @ \/ ~Fits(r)]
    /\ UNCHANGED <<up, poisoned, broken, inbox, clientVars, toServer, toClient,
                   statement, shown>>

\* Variant: a panic does not free the mutex.
LeaksLock(c) ==
    /\ thread[c] = "execute" /\ Panics(request[c])
    /\ poisoned' = TRUE /\ broken' = TRUE
    /\ EndThread(c)
    /\ UNCHANGED <<up, lock, clientVars, toServer, historyVars>>

Panic(c) ==
    /\ thread[c] = "execute" /\ Panics(request[c])
    /\ lock' = Free /\ poisoned' = TRUE /\ broken' = TRUE
    /\ EndThread(c)
    /\ UNCHANGED <<up, clientVars, toServer, historyVars>>

\* process::exit, under the lock.
Exit(c) ==
    /\ thread[c] = "execute" /\ Crashes(request[c])
    /\ EndProcess

ThreadWrite(c) ==
    /\ thread[c] = "write"
    /\ Room(toClient[c], outbox[c]) > 0
    /\ toClient' = [toClient EXCEPT ![c] = Written(toClient[c], outbox[c])]
    /\ outbox' = [outbox EXCEPT ![c] = Unwritten(toClient[c], @)]
    /\ thread' = [thread EXCEPT ![c] = IF outbox'[c] = <<>> THEN "read" ELSE @]
    /\ UNCHANGED <<up, mutexVars, inbox, request, clientVars, toServer, historyVars>>

ThreadWriteFails(c) ==
    /\ thread[c] = "write" /\ client[c] = "off"
    /\ EndThread(c)
    /\ UNCHANGED <<up, mutexVars, clientVars, toServer, historyVars>>

Next ==
    \/ Boot
    \/ Stop
    \/ \E c \in Clients :
          \/ Connect(c)
          \/ \E line \in Lines[c] : TypePart(c, line) \/ SendTyped(c, line)
          \/ ClientWrite(c)
          \/ ClientRead(c)
          \/ ClientFails(c)
          \/ Quit(c)
          \/ ThreadRead(c)
          \/ ThreadEof(c)
          \/ Lock(c)
          \/ Finish(c)
          \/ Panic(c)
          \/ Exit(c)
          \/ ThreadWrite(c)
          \/ ThreadWriteFails(c)

(***************************************************************************)
(* A thread that can run does run, and a thread that waits for a mutex     *)
(* that is free again and again gets it.  Nothing is assumed of users, of  *)
(* how long a process lives, or of clients that do not read.               *)
(***************************************************************************)
ThreadStep(c) ==
    ThreadRead(c) \/ ThreadEof(c) \/ Finish(c) \/ Panic(c) \/ Exit(c)
    \/ ThreadWrite(c) \/ ThreadWriteFails(c)

Fairness ==
    \A c \in Clients :
        /\ WF_vars(ThreadStep(c))
        /\ SF_vars(Lock(c))

Spec == Init /\ [][Next]_vars /\ Fairness
-----------------------------------------------------------------------------
(***************************************************************************)
(* Properties.                                                             *)
(***************************************************************************)

\* What the threads, the clients and the connections between them hold; a
\* thread is in a statement exactly while it has the mutex (server.rs:50-54).
Running(c) == thread[c] = "execute"

TypeOK ==
    /\ up \in BOOLEAN /\ poisoned \in BOOLEAN /\ broken \in BOOLEAN
    /\ lock \in Clients \cup {Free}
    /\ thread \in [Clients -> {"none", "read", "lock", "execute", "write"}]
    /\ client \in [Clients -> {"off", "idle", "write", "read"}]
    /\ {inbox, request, outbox, input, sending, receiving, toServer, toClient, statement}
          \subseteq [Clients -> Seq(Byte)]
    /\ {reply, shown} \subseteq [Clients -> Seq(Seq(Byte))]
    /\ overlong \in [Clients -> BOOLEAN]
    /\ \A c \in Clients : Running(c) <=> lock = c
    /\ \A c \in Clients : thread[c] # "none" => up

\* No statement sees what a panicking one has left half done: from the panic
\* on none runs, until a restart (server.rs:52; handler.rs works on the
\* shared DatabaseState in place).
BrokenStateUnseen == broken => \A c \in Clients : ~Running(c)

\* Whatever clients do, also one that does not read its reply, the mutex
\* comes free: the reply is written after the guard is dropped
\* (server.rs:51-55).
MutexComesFree == lock # Free ~> lock = Free

\* A client that reads gets an answer to its statement, or learns that the
\* connection is gone, whatever the others do, and after a panic, too.  A
\* frame of 2^32 bytes and more voids this (protocol.rs:7).
Waiting(c) == client[c] \in {"write", "read"} /\ ~overlong[c]
ClientRuns(c) == WF_vars(ClientWrite(c)) /\ WF_vars(ClientRead(c)) /\ WF_vars(ClientFails(c))
EveryStatementAnswered ==
    \A c \in Clients : ClientRuns(c) => (Waiting(c) ~> ~Waiting(c))

\* The thread of a connection whose client is gone ends (server.rs:46-57).
ThreadsEnd == \A c \in Clients : client[c] = "off" ~> thread[c] = "none"
=============================================================================

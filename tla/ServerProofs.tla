---------------------------- MODULE ServerProofs ----------------------------
(***************************************************************************)
(* Server keeps its types and implements StatementService, whatever the    *)
(* number of clients, what they type, what statements return and where     *)
(* they panic, and however small the streams are.                          *)
(*                                                                         *)
(* The invariant follows one statement on its way: its frame is what the   *)
(* thread has got, what is under way and what the client has still to      *)
(* write; then the thread has it; then the frame of the reply is what the  *)
(* client has got, what is under way and what the thread has still to      *)
(* write.                                                                  *)
(***************************************************************************)
EXTENDS ServerRefinement, SequenceTheorems, TLAPS

(***************************************************************************)
(* Frames: what a reader gets out of one is what the writer put in,        *)
(* however the bytes arrive.                                               *)
(***************************************************************************)

(***************************************************************************)
(* Lengths.                                                                *)
(***************************************************************************)
LEMMA BaseNat == Base \in Nat /\ Base > 1
  BY BaseAssumption

LEMMA Division ==
    ASSUME NEW n \in Nat
    PROVE  /\ n \div Base \in Nat /\ n % Base \in Byte
           /\ n = (n \div Base) * Base + (n % Base)
  BY BaseNat DEF Byte

\* A division by Base takes a factor of Base off a bound.
LEMMA Shrinks ==
    ASSUME NEW n \in Nat, NEW m \in Nat, n < Base * m
    PROVE  n \div Base < m
<1> DEFINE q == n \div Base
<1>1. q \in Nat /\ n >= q * Base
  BY Division, BaseNat DEF Byte
<1>2. SUFFICES ASSUME q >= m PROVE FALSE
  BY <1>1
<1> HIDE DEF q
<1>3. q * Base >= m * Base
  BY <1>1, <1>2, BaseNat
<1> QED BY <1>1, <1>3, BaseNat

LEMMA Small ==
    ASSUME NEW n \in Nat, n < Base
    PROVE  n % Base = n
  BY BaseNat

\* The header holds every length that fits.
LEMMA HeaderRoundTrip ==
    ASSUME NEW n \in Nat
    PROVE  /\ to_be_bytes(n) \in Seq(Byte) /\ Len(to_be_bytes(n)) = 4
           /\ n < LengthLimit => from_be_bytes(to_be_bytes(n)) = n
<1> DEFINE q1 == n \div Base
           q2 == q1 \div Base
           q3 == q2 \div Base
           b == to_be_bytes(n)
<1>1. q1 \in Nat /\ n % Base \in Byte /\ n = q1 * Base + (n % Base)
  BY Division
<1>2. q2 \in Nat /\ q1 % Base \in Byte /\ q1 = q2 * Base + (q1 % Base)
  BY Division, <1>1
<1>3. q3 \in Nat /\ q2 % Base \in Byte /\ q2 = q3 * Base + (q2 % Base)
  BY Division, <1>2
<1>4. q3 % Base \in Byte
  BY Division, <1>3
<1>5. b = <<q3 % Base, q2 % Base, q1 % Base, n % Base>>
  BY DEF to_be_bytes
<1>6. b \in Seq(Byte) /\ Len(b) = 4
  BY <1>1, <1>2, <1>3, <1>4, <1>5
<1>7. ASSUME n < LengthLimit PROVE from_be_bytes(b) = n
  <2>1. n < Base * (Base * (Base * Base))
    BY <1>7 DEF LengthLimit
  <2>2. q1 < Base * (Base * Base)
    BY <2>1, Shrinks, BaseNat
  <2>3. q2 < Base * Base
    BY <2>2, <1>1, Shrinks, BaseNat
  <2>4. q3 < Base
    BY <2>3, <1>2, Shrinks, BaseNat
  <2>5. q3 % Base = q3
    BY <2>4, <1>3, Small
  <2> HIDE DEF q1, q2, q3, b
  <2>6. from_be_bytes(b) = ((q3 * Base + (q2 % Base)) * Base + (q1 % Base)) * Base + (n % Base)
    BY <1>5, <2>5 DEF from_be_bytes
  <2> QED BY <2>6, <1>1, <1>2, <1>3
<1> QED BY <1>6, <1>7

LEMMA HeaderNat ==
    ASSUME NEW b \in Seq(Byte), Len(b) >= 4
    PROVE  from_be_bytes(b) \in Nat
<1>1. b[1] \in Nat /\ b[2] \in Nat /\ b[3] \in Nat /\ b[4] \in Nat
  BY BaseNat DEF Byte
<1>2. \A x, y \in Nat : x * Base + y \in Nat
  BY BaseNat
<1> QED BY <1>1, <1>2 DEF from_be_bytes

(***************************************************************************)
(* Sequences cut in two.                                                   *)
(***************************************************************************)
LEMMA Cut ==
    ASSUME NEW S, NEW s \in Seq(S), NEW k \in 0..Len(s)
    PROVE  /\ SubSeq(s, 1, k) \in Seq(S) /\ Len(SubSeq(s, 1, k)) = k
           /\ SubSeq(s, k + 1, Len(s)) \in Seq(S)
           /\ Len(SubSeq(s, k + 1, Len(s))) = Len(s) - k
           /\ SubSeq(s, 1, k) \o SubSeq(s, k + 1, Len(s)) = s
<1>1. SubSeq(s, 1, k) \in Seq(S) /\ Len(SubSeq(s, 1, k)) = k
  BY SubSeqProperties
<1>2. SubSeq(s, k + 1, Len(s)) \in Seq(S) /\ Len(SubSeq(s, k + 1, Len(s))) = Len(s) - k
  BY SubSeqProperties
<1>3. SubSeq(s, 1, k) \o SubSeq(s, k + 1, Len(s)) = SubSeq(s, 1, Len(s))
  <2>1. 1 \in 1..Len(s) + 1 /\ k \in 1 - 1..Len(s) /\ Len(s) \in k..Len(s)
    OBVIOUS
  <2> QED BY <2>1, ConcatAdjacentSubSeq
<1> QED BY <1>1, <1>2, <1>3, SubSeqFull

\* The beginning of a concatenation, and what comes after it.
LEMMA ConcatParts ==
    ASSUME NEW S, NEW s \in Seq(S), NEW t \in Seq(S)
    PROVE  /\ \A i \in 1..Len(s) : (s \o t)[i] = s[i]
           /\ SubSeq(s \o t, Len(s) + 1, Len(s \o t)) = t
<1>1. s \o t \in Seq(S) /\ Len(s \o t) = Len(s) + Len(t)
  BY ConcatProperties
<1>2. SubSeq(s \o t, 1, Len(s)) \o SubSeq(s \o t, Len(s) + 1, Len(s \o t)) = s \o t
  <2>1. Len(s) \in 0..Len(s \o t)
    BY <1>1
  <2> QED BY <1>1, <2>1, Cut
<1>3. SubSeq(s \o t, 1, Len(s)) = s
  <2>1. SubSeq(s \o t, 1, Len(s)) \in Seq(S) /\ Len(SubSeq(s \o t, 1, Len(s))) = Len(s)
    BY <1>1, Cut
  <2>2. \A i \in 1..Len(s) : SubSeq(s \o t, 1, Len(s))[i] = s[i]
    BY <1>1, SubSeqProperties, ConcatProperties
  <2> QED BY <2>1, <2>2, SeqEqual
<1>4. SubSeq(s \o t, Len(s) + 1, Len(s \o t)) \in Seq(S)
  BY <1>1, Cut
<1>5. SubSeq(s \o t, Len(s) + 1, Len(s \o t)) = t
  BY <1>2, <1>3, <1>4, ConcatSimplifications
<1> QED BY <1>5, ConcatProperties

(***************************************************************************)
(* Frames.                                                                 *)
(***************************************************************************)
LEMMA FrameFacts ==
    ASSUME NEW p \in Seq(Byte)
    PROVE  /\ Frame(p) \in Seq(Byte) /\ Len(Frame(p)) = HeaderLength + Len(p)
           /\ Frame(p) # <<>>
           /\ Payload(Frame(p)) = p
           /\ Fits(p) => from_be_bytes(Frame(p)) = Len(p)
<1> DEFINE h == to_be_bytes(Len(p))
<1>1. Len(p) \in Nat
  OBVIOUS
<1>2. h \in Seq(Byte) /\ Len(h) = 4 /\ (Len(p) < LengthLimit => from_be_bytes(h) = Len(p))
  BY <1>1, HeaderRoundTrip
<1> HIDE DEF h
<1>3. Frame(p) = h \o p
  BY DEF Frame, h
<1>4. Frame(p) \in Seq(Byte) /\ Len(Frame(p)) = 4 + Len(p)
  <2>1. h \o p \in Seq(Byte)
    BY <1>2, ConcatProperties
  <2>2. Len(h \o p) = Len(h) + Len(p)
    BY <1>2, ConcatProperties
  <2> QED BY <1>2, <1>3, <2>1, <2>2
<1>5. Payload(Frame(p)) = p
  BY <1>2, <1>3, ConcatParts DEF Payload, HeaderLength
<1>6. \A i \in 1..4 : Frame(p)[i] = h[i]
  <2>1. \A i \in 1..Len(h) : (h \o p)[i] = h[i]
    BY <1>2, ConcatParts
  <2> QED BY <1>2, <1>3, <2>1
<1>7. from_be_bytes(Frame(p)) = from_be_bytes(h)
  BY <1>6 DEF from_be_bytes
<1> QED BY <1>2, <1>4, <1>5, <1>7 DEF Fits, HeaderLength

\* A reader that has part of a frame misses no more than the rest of it; when
\* nothing is missing it has the frame, and the payload that was written.
THEOREM ReaderGetsFrame ==
    ASSUME NEW p \in Seq(Byte), Fits(p),
           NEW got \in Seq(Byte), NEW rest \in Seq(Byte), got \o rest = Frame(p)
    PROVE  /\ Missing(got) \in Nat
           /\ Missing(got) = 0 => rest = <<>> /\ Payload(got) = p
<1>1. Len(Frame(p)) = 4 + Len(p) /\ from_be_bytes(Frame(p)) = Len(p) /\ Payload(Frame(p)) = p
  BY FrameFacts DEF HeaderLength
<1>2. Len(got) + Len(rest) = 4 + Len(p) /\ Len(p) \in Nat /\ Len(got) \in Nat /\ Len(rest) \in Nat
  BY <1>1, ConcatProperties
<1>3. CASE Len(got) < 4
  <2>1. Missing(got) = 4 - Len(got)
    BY <1>3 DEF Missing, HeaderLength
  <2>2. \A n \in Nat : n < 4 => 4 - n \in Nat /\ 4 - n # 0
    OBVIOUS
  <2>3. 4 - Len(got) \in Nat /\ 4 - Len(got) # 0
    BY <1>2, <1>3, <2>2
  <2> QED BY <2>1, <2>3
<1>4. CASE Len(got) >= 4
  <2>1. \A i \in 1..4 : got[i] = Frame(p)[i]
    BY <1>4, ConcatParts
  <2>2. from_be_bytes(got) = Len(p)
    BY <1>1, <2>1 DEF from_be_bytes
  <2>3. Missing(got) = Len(rest)
    BY <1>2, <1>4, <2>2 DEF Missing, HeaderLength
  <2>4. Len(rest) = 0 => rest = <<>> /\ got = Frame(p)
    BY EmptySeq, ConcatEmptySeq
  <2> QED BY <1>1, <1>2, <2>3, <2>4
<1> QED BY <1>2, <1>3, <1>4

(***************************************************************************)
(* One read.                                                               *)
(***************************************************************************)
LEMMA TakenFacts ==
    ASSUME NEW stream \in Seq(Byte), NEW got \in Seq(Byte), Missing(got) \in Nat
    PROVE  /\ Taken(stream, got) \in Seq(Byte) /\ Left(stream, got) \in Seq(Byte)
           /\ Taken(stream, got) \o Left(stream, got) = got \o stream
           /\ Missing(Taken(stream, got)) \in Nat
<1> DEFINE k == Available(stream, got)
           front == SubSeq(stream, 1, k)
           back == SubSeq(stream, k + 1, Len(stream))
<1>1. k \in 0..Len(stream) /\ k <= Missing(got)
  BY DEF Available
<1>2. /\ front \in Seq(Byte) /\ Len(front) = k /\ back \in Seq(Byte)
      /\ front \o back = stream
  BY <1>1, Cut
<1>3. Taken(stream, got) = got \o front /\ Left(stream, got) = back
  BY DEF Taken, Left
<1> HIDE DEF k, front, back
<1>4. got \o front \in Seq(Byte) /\ Len(got \o front) = Len(got) + k
  BY <1>2, ConcatProperties
<1>5. (got \o front) \o back = got \o stream
  <2>1. front \in Seq(Byte) /\ back \in Seq(Byte)
    BY <1>2
  <2>2. (got \o front) \o back = got \o (front \o back)
    BY <2>1, ConcatAssociative
  <2> QED BY <1>2, <2>2
<1>6. Missing(got \o front) \in Nat
  <2>1. CASE Len(got) < 4
    <3>1. Len(got \o front) <= 4
      BY <1>1, <1>4, <2>1 DEF Missing, HeaderLength
    <3>2. CASE Len(got \o front) < 4
      BY <1>4, <3>2 DEF Missing, HeaderLength
    <3>3. CASE Len(got \o front) = 4
      <4>1. from_be_bytes(got \o front) \in Nat
        <5>1. got \o front \in Seq(Byte) /\ Len(got \o front) >= 4
          BY <1>4, <3>3
        <5> QED BY <5>1, HeaderNat
      <4>2. Missing(got \o front) = from_be_bytes(got \o front)
        BY <3>3, <4>1 DEF Missing, HeaderLength
      <4> QED BY <4>1, <4>2
    <3> QED BY <1>4, <3>1, <3>2, <3>3
  <2>2. CASE Len(got) >= 4
    <3>1. \A i \in 1..4 : (got \o front)[i] = got[i]
      <4>1. \A i \in 1..Len(got) : (got \o front)[i] = got[i]
        BY <1>2, ConcatParts
      <4> QED BY <2>2, <4>1
    <3>2. from_be_bytes(got \o front) = from_be_bytes(got) /\ from_be_bytes(got) \in Nat
      BY <2>2, <3>1, HeaderNat DEF from_be_bytes
    <3>3. Missing(got \o front) = Missing(got) - k
      BY <1>1, <1>4, <2>2, <3>2 DEF Missing, HeaderLength
    <3> QED BY <1>1, <3>3
  <2> QED BY <2>1, <2>2
<1> QED BY <1>2, <1>3, <1>4, <1>5, <1>6
-----------------------------------------------------------------------------
(***************************************************************************)
(* The server.                                                             *)
(***************************************************************************)
Bytes == Seq(Byte)

LEMMA ServerFacts ==
    /\ Free \notin Clients
    /\ \A c \in Clients : Lines[c] \subseteq [kind : {"part", "last", "command"}, text : Bytes]
    /\ Capacity \in Nat
    /\ Texts \subseteq Bytes
  BY ServerAssumption DEF Bytes

\* What a frame, and a command or a statement, are made of.
LEMMA FramesAreBytes == \A p \in Bytes : Frame(p) \in Bytes /\ Frame(p) # <<>>
  BY FrameFacts DEF Bytes

LEMMA EmptyBytes == <<>> \in Bytes /\ <<>> \in Seq(Bytes)
  BY DEF Bytes

LEMMA PayloadBytes ==
    ASSUME NEW got \in Bytes, Missing(got) = 0
    PROVE  Payload(got) \in Bytes
<1>1. Len(got) \in Nat
  BY DEF Bytes
<1>2. Len(got) >= 4
  <2>1. SUFFICES ASSUME Len(got) < 4 PROVE FALSE
    BY <1>1
  <2>2. Missing(got) = 4 - Len(got)
    BY <2>1 DEF Missing, HeaderLength
  <2> QED BY <1>1, <2>1, <2>2
<1>3. SubSeq(got, 4 + 1, Len(got)) \in Seq(Byte)
  <2>1. 4 \in 0..Len(got)
    BY <1>1, <1>2
  <2> QED BY <2>1, Cut DEF Bytes
<1> QED BY <1>3 DEF Payload, HeaderLength, Bytes

\* One write.
LEMMA WrittenFacts ==
    ASSUME NEW stream \in Bytes, NEW bytes \in Bytes, Room(stream, bytes) > 0
    PROVE  /\ Written(stream, bytes) \in Bytes /\ Unwritten(stream, bytes) \in Bytes
           /\ Written(stream, bytes) \o Unwritten(stream, bytes) = stream \o bytes
<1> DEFINE k == Room(stream, bytes)
           front == SubSeq(bytes, 1, k)
           back == SubSeq(bytes, k + 1, Len(bytes))
<1>1. k \in 0..Len(bytes)
  BY ServerFacts DEF Room, Bytes
<1>2. front \in Bytes /\ back \in Bytes /\ front \o back = bytes
  BY <1>1, Cut DEF Bytes
<1>3. Written(stream, bytes) = stream \o front /\ Unwritten(stream, bytes) = back
  BY DEF Written, Unwritten
<1> HIDE DEF k, front, back
<1>4. stream \o front \in Bytes
  BY <1>2, ConcatProperties DEF Bytes
<1>5. (stream \o front) \o back = stream \o (front \o back)
  <2>1. stream \in Seq(Byte) /\ front \in Seq(Byte) /\ back \in Seq(Byte)
    BY <1>2 DEF Bytes
  <2> QED BY <2>1, ConcatAssociative
<1> QED BY <1>2, <1>3, <1>4, <1>5

(***************************************************************************)
(* The two ends of a connection.  A frame read in part is missing bytes,   *)
(* and only who writes has bytes to write.                                 *)
(***************************************************************************)
Ends(c) ==
    /\ thread[c] # "read" => inbox[c] = <<>>
    /\ thread[c] = "write" <=> outbox[c] # <<>>
    /\ client[c] = "write" <=> sending[c] # <<>>
    /\ client[c] # "read" => receiving[c] = <<>>
    /\ Missing(inbox[c]) \in Nat \ {0}
    /\ Missing(receiving[c]) \in Nat \ {0}

Sound == TypeOK /\ \A c \in Clients : Ends(c)

Streams == [Clients -> Bytes]
Types ==
    /\ up \in BOOLEAN /\ poisoned \in BOOLEAN /\ broken \in BOOLEAN
    /\ lock \in Clients \cup {Free}
    /\ thread \in [Clients -> {"none", "read", "lock", "execute", "write"}]
    /\ client \in [Clients -> {"off", "idle", "write", "read"}]
    /\ inbox \in Streams /\ request \in Streams /\ outbox \in Streams
    /\ input \in Streams /\ sending \in Streams /\ receiving \in Streams
    /\ toServer \in Streams /\ toClient \in Streams /\ statement \in Streams
    /\ reply \in [Clients -> Seq(Bytes)] /\ shown \in [Clients -> Seq(Bytes)]
    /\ overlong \in [Clients -> BOOLEAN]

Locked ==
    /\ \A c \in Clients : Running(c) <=> lock = c
    /\ \A c \in Clients : thread[c] # "none" => up

LEMMA TypeParts == TypeOK <=> Types /\ Locked
  BY DEF TypeOK, Types, Locked, Streams, Bytes

LEMMA NothingRead == Missing(<<>>) \in Nat \ {0}
<1>1. Missing(<<>>) = 4
  BY DEF Missing, HeaderLength
<1> QED BY <1>1

LEMMA SoundAtStart == Init => Sound
<1> SUFFICES ASSUME Init PROVE Sound
  OBVIOUS
<1>1. Types
  BY EmptyBytes DEF Init, Types, Everywhere, Streams
<1>2. Locked
  BY ServerFacts DEF Init, Locked, Running, Everywhere
<1>3. \A c \in Clients : Ends(c)
  BY NothingRead DEF Init, Ends, Everywhere
<1> QED BY <1>1, <1>2, <1>3, TypeParts DEF Sound

(***************************************************************************)
(* Types.                                                                  *)
(***************************************************************************)
LEMMA EndThreadTypes ==
    ASSUME Types, NEW c \in Clients, EndThread(c)
    PROVE  /\ thread' \in [Clients -> {"none", "read", "lock", "execute", "write"}]
           /\ inbox' \in Streams /\ request' \in Streams /\ outbox' \in Streams
           /\ toClient' \in Streams
<1>1. thread' \in [Clients -> {"none", "read", "lock", "execute", "write"}]
  BY DEF Types, EndThread
<1>2. \A f \in Streams : [f EXCEPT ![c] = <<>>] \in Streams
  BY EmptyBytes DEF Streams
<1>3. toClient' \in Streams
  BY <1>2 DEF Types, EndThread
<1>4. inbox' \in Streams /\ request' \in Streams /\ outbox' \in Streams
  BY <1>2 DEF Types, EndThread
<1> QED BY <1>1, <1>3, <1>4

LEMMA EndClientTypes ==
    ASSUME Types, NEW c \in Clients, EndClient(c)
    PROVE  /\ client' \in [Clients -> {"off", "idle", "write", "read"}]
           /\ input' \in Streams /\ sending' \in Streams /\ receiving' \in Streams
           /\ toServer' \in Streams
<1>1. client' \in [Clients -> {"off", "idle", "write", "read"}]
  BY DEF Types, EndClient
<1>2. \A f \in Streams : [f EXCEPT ![c] = <<>>] \in Streams
  BY EmptyBytes DEF Streams
<1>3. toServer' \in Streams
  BY <1>2 DEF Types, EndClient
<1>4. input' \in Streams /\ sending' \in Streams /\ receiving' \in Streams
  BY <1>2 DEF Types, EndClient
<1> QED BY <1>1, <1>3, <1>4

LEMMA EndProcessTypes ==
    ASSUME Types, EndProcess
    PROVE  Types'
  BY EmptyBytes DEF Types, EndProcess, Streams, Everywhere, clientVars, historyVars

LEMMA ClientTypes ==
    ASSUME Types, NEW c \in Clients
    PROVE  /\ Connect(c) => Types'
           /\ \A line \in Lines[c] : TypePart(c, line) \/ SendTyped(c, line) => Types'
           /\ ClientWrite(c) => Types'
           /\ ClientFails(c) \/ Quit(c) => Types'
<1>1. ASSUME Connect(c) PROVE Types'
  BY <1>1, EmptyBytes DEF Types, Connect, Streams, mutexVars
<1>2. ASSUME NEW line \in Lines[c], TypePart(c, line) PROVE Types'
  <2>1. input[c] \o line.text \in Bytes
    BY ServerFacts, ConcatProperties DEF Types, Streams, Bytes
  <2> QED BY <1>2, <2>1 DEF Types, TypePart, Streams, mutexVars, threadVars, historyVars
<1>3. ASSUME NEW line \in Lines[c], SendTyped(c, line) PROVE Types'
  <2>1. line.text \in Bytes /\ input[c] \in Bytes
    BY ServerFacts DEF Types, Streams
  <2>2. input[c] \o line.text \in Bytes
    BY <2>1, ConcatProperties DEF Bytes
  <2>3. Typed(c, line) \in Bytes
    BY <2>1, <2>2 DEF Typed
  <2>4. Frame(Typed(c, line)) \in Bytes
    BY <2>3, FramesAreBytes
  <2> QED BY <1>3, <2>3, <2>4, EmptyBytes
          DEF Types, SendTyped, Streams, mutexVars, threadVars
<1>4. ASSUME ClientWrite(c) PROVE Types'
  <2>1. Written(toServer[c], sending[c]) \in Bytes /\ Unwritten(toServer[c], sending[c]) \in Bytes
    BY <1>4, WrittenFacts DEF ClientWrite, Types, Streams
  <2> QED BY <1>4, <2>1 DEF Types, ClientWrite, Streams, mutexVars, threadVars, historyVars
<1>5. ASSUME ClientFails(c) \/ Quit(c) PROVE Types'
  <2>1. EndClient(c)
    BY <1>5 DEF ClientFails, Quit
  <2> QED BY <1>5, <2>1, EndClientTypes
          DEF Types, ClientFails, Quit, mutexVars, threadVars, historyVars
<1> QED BY <1>1, <1>2, <1>3, <1>4, <1>5

LEMMA ReadTypes ==
    ASSUME Sound, NEW c \in Clients
    PROVE  /\ ClientRead(c) => Types' /\ Missing(receiving[c])' \in Nat \ {0}
           /\ ThreadRead(c) => Types' /\ Missing(inbox[c])' \in Nat \ {0}
<1>1. Types /\ Ends(c)
  BY TypeParts DEF Sound
<1>2. /\ inbox[c] \in Seq(Byte) /\ receiving[c] \in Seq(Byte)
      /\ toServer[c] \in Seq(Byte) /\ toClient[c] \in Seq(Byte)
      /\ Missing(inbox[c]) \in Nat /\ Missing(receiving[c]) \in Nat
  BY <1>1 DEF Types, Streams, Bytes, Ends
<1>3. ASSUME ClientRead(c) PROVE Types' /\ Missing(receiving[c])' \in Nat \ {0}
  <2> DEFINE got == Taken(toClient[c], receiving[c])
             left == Left(toClient[c], receiving[c])
  <2>1. got \in Bytes /\ left \in Bytes /\ Missing(got) \in Nat
    BY <1>2, TakenFacts DEF Bytes
  <2>2. toClient' = [toClient EXCEPT ![c] = left]
    BY <1>3 DEF ClientRead
  <2>3. toClient' \in Streams
    BY <1>1, <2>1, <2>2 DEF Types, Streams
  <2> HIDE DEF got, left
  <2>4. CASE /\ Missing(got) > 0
             /\ receiving' = [receiving EXCEPT ![c] = got]
             /\ UNCHANGED <<client, input, sending, toServer, shown>>
    BY <1>1, <1>3, <2>1, <2>3, <2>4
       DEF Types, ClientRead, Streams, mutexVars, threadVars
  <2>5. CASE /\ Missing(got) = 0
             /\ receiving' = [receiving EXCEPT ![c] = <<>>]
             /\ client' = [client EXCEPT ![c] = "idle"]
             /\ shown' = [shown EXCEPT ![c] = <<Payload(got)>>]
             /\ UNCHANGED <<input, sending, toServer>>
    <3>1. <<Payload(got)>> \in Seq(Bytes)
      BY <2>1, <2>5, PayloadBytes
    <3> QED BY <1>1, <1>3, <2>3, <2>5, <3>1, EmptyBytes, NothingRead
            DEF Types, ClientRead, Streams, mutexVars, threadVars
  <2>6. CASE EndClient(c) /\ UNCHANGED shown
    <3>1. receiving'[c] = <<>>
      BY <1>1, <2>6 DEF EndClient, Types, Streams
    <3> QED BY <1>1, <1>3, <2>3, <2>6, <3>1, EndClientTypes, NothingRead
            DEF Types, ClientRead, mutexVars, threadVars
  <2> QED BY <1>3, <2>4, <2>5, <2>6 DEF ClientRead, got
<1>4. ASSUME ThreadRead(c) PROVE Types' /\ Missing(inbox[c])' \in Nat \ {0}
  <2> DEFINE got == Taken(toServer[c], inbox[c])
             left == Left(toServer[c], inbox[c])
  <2>1. got \in Bytes /\ left \in Bytes /\ Missing(got) \in Nat
    BY <1>2, TakenFacts DEF Bytes
  <2>2. toServer' = [toServer EXCEPT ![c] = left]
    BY <1>4 DEF ThreadRead
  <2>3. toServer' \in Streams
    BY <1>1, <2>1, <2>2 DEF Types, Streams
  <2> HIDE DEF got, left
  <2>4. CASE /\ Missing(got) > 0
             /\ inbox' = [inbox EXCEPT ![c] = got]
             /\ UNCHANGED <<thread, request, outbox, toClient>>
    BY <1>1, <1>4, <2>1, <2>3, <2>4
       DEF Types, ThreadRead, Streams, mutexVars, clientVars, historyVars
  <2>5. CASE /\ Missing(got) = 0
             /\ inbox' = [inbox EXCEPT ![c] = <<>>]
             /\ thread' = [thread EXCEPT ![c] = "lock"]
             /\ request' = [request EXCEPT ![c] = Payload(got)]
             /\ UNCHANGED <<outbox, toClient>>
    <3>1. Payload(got) \in Bytes
      BY <2>1, <2>5, PayloadBytes
    <3> QED BY <1>1, <1>4, <2>3, <2>5, <3>1, EmptyBytes, NothingRead
            DEF Types, ThreadRead, Streams, mutexVars, clientVars, historyVars
  <2>6. CASE EndThread(c)
    <3>1. inbox'[c] = <<>>
      BY <1>1, <2>6 DEF EndThread, Types, Streams
    <3> QED BY <1>1, <1>4, <2>3, <2>6, <3>1, EndThreadTypes, NothingRead
            DEF Types, ThreadRead, mutexVars, clientVars, historyVars
  <2> QED BY <1>4, <2>4, <2>5, <2>6 DEF ThreadRead, got
<1> QED BY <1>3, <1>4

LEMMA ThreadTypes ==
    ASSUME Types, NEW c \in Clients
    PROVE  /\ ThreadEof(c) \/ ThreadWriteFails(c) \/ Lock(c) \/ Panic(c) => Types'
           /\ Finish(c) => Types'
           /\ ThreadWrite(c) => Types'
<1>1. ASSUME ThreadEof(c) \/ ThreadWriteFails(c) \/ Panic(c) PROVE Types'
  <2>1. EndThread(c)
    BY <1>1 DEF ThreadEof, ThreadWriteFails, Panic
  <2> QED BY <1>1, <2>1, EndThreadTypes
          DEF Types, ThreadEof, ThreadWriteFails, Panic, mutexVars, clientVars, historyVars
<1>2. ASSUME Lock(c) PROVE Types'
  <2>1. CASE Acquire(c)
    BY <1>2, <2>1 DEF Types, Lock, Acquire, clientVars, historyVars
  <2>2. CASE EndThread(c) /\ UNCHANGED lock
    BY <1>2, <2>2, EndThreadTypes DEF Types, Lock, clientVars, historyVars
  <2> QED BY <1>2, <2>1, <2>2 DEF Lock
<1>3. ASSUME Finish(c) PROVE Types'
  <2>1. PICK r \in Texts :
            /\ outbox' = [outbox EXCEPT ![c] = Frame(r)]
            /\ reply' = [reply EXCEPT ![c] = Append(@, r)]
            /\ overlong' = [overlong EXCEPT ![c] = @ \/ ~Fits(r)]
    BY <1>3 DEF Finish
  <2>2. r \in Bytes /\ Frame(r) \in Bytes
    BY ServerFacts, FramesAreBytes
  <2>3. Append(reply[c], r) \in Seq(Bytes)
    BY <2>2, AppendProperties DEF Types
  <2>4. reply' \in [Clients -> Seq(Bytes)]
    BY <2>1, <2>3 DEF Types
  <2>5. (overlong[c] \/ ~Fits(r)) \in BOOLEAN
    OBVIOUS
  <2>6. overlong' \in [Clients -> BOOLEAN]
    BY <2>1, <2>5 DEF Types
  <2> QED BY <1>3, <2>1, <2>2, <2>4, <2>6, EmptyBytes DEF Types, Finish, Streams, clientVars
<1>4. ASSUME ThreadWrite(c) PROVE Types'
  <2>1. Written(toClient[c], outbox[c]) \in Bytes /\ Unwritten(toClient[c], outbox[c]) \in Bytes
    BY <1>4, WrittenFacts DEF ThreadWrite, Types, Streams
  <2> QED BY <1>4, <2>1 DEF Types, ThreadWrite, Streams, mutexVars, clientVars, historyVars
<1> QED BY <1>1, <1>2, <1>3, <1>4

(***************************************************************************)
(* The steps of a connection, and what they leave alone.                   *)
(***************************************************************************)
ClientStep(c) ==
    \/ Connect(c)
    \/ \E line \in Lines[c] : TypePart(c, line) \/ SendTyped(c, line)
    \/ ClientWrite(c) \/ ClientRead(c) \/ ClientFails(c) \/ Quit(c)

ServerStep(c) ==
    \/ ThreadRead(c) \/ ThreadEof(c) \/ Lock(c) \/ Finish(c) \/ Panic(c)
    \/ ThreadWrite(c) \/ ThreadWriteFails(c)

LEMMA Steps ==
    ASSUME [Next]_vars
    PROVE  \/ Boot
           \/ EndProcess
           \/ \E c \in Clients : ClientStep(c) \/ ServerStep(c)
           \/ UNCHANGED vars
  BY DEF Next, ClientStep, ServerStep, Stop, Exit

LEMMA StepTypes ==
    ASSUME Sound, [Next]_vars
    PROVE  Types'
<1>1. Types
  BY TypeParts DEF Sound
<1>2. CASE Boot
  BY <1>1, <1>2 DEF Types, Boot, threadVars, clientVars, historyVars
<1>3. CASE EndProcess
  BY <1>1, <1>3, EndProcessTypes
<1>4. ASSUME NEW c \in Clients, ClientStep(c) PROVE Types'
  BY <1>1, <1>4, ClientTypes, ReadTypes DEF ClientStep
<1>5. ASSUME NEW c \in Clients, ServerStep(c) PROVE Types'
  BY <1>1, <1>5, ThreadTypes, ReadTypes DEF ServerStep
<1>6. CASE UNCHANGED vars
  BY <1>1, <1>6 DEF Types, vars, mutexVars, threadVars, clientVars, historyVars
<1> QED BY <1>2, <1>3, <1>4, <1>5, <1>6, Steps

(***************************************************************************)
(* The mutex.                                                              *)
(***************************************************************************)
LEMMA StepLocked ==
    ASSUME Sound, [Next]_vars
    PROVE  Locked'
<1>1. Types /\ Locked
  BY TypeParts DEF Sound
<1>2. CASE Boot
  BY <1>1, <1>2, ServerFacts DEF Types, Locked, Running, Boot, threadVars
<1>3. CASE EndProcess
  BY <1>1, <1>3, ServerFacts DEF Types, Locked, Running, EndProcess, Everywhere
<1>4. ASSUME NEW c \in Clients, ClientStep(c) PROVE Locked'
  <2>1. CASE Connect(c)
    BY <1>1, <2>1 DEF Types, Locked, Running, Connect, mutexVars
  <2>2. CASE UNCHANGED <<thread, lock, up>>
    BY <1>1, <2>2 DEF Locked, Running
  <2> QED BY <1>4, <2>1, <2>2
          DEF ClientStep, TypePart, SendTyped, ClientWrite, ClientRead, ClientFails, Quit,
              threadVars, mutexVars
<1>5. ASSUME NEW c \in Clients, ServerStep(c) PROVE Locked'
  <2>1. CASE ThreadRead(c)
    BY <1>1, <2>1 DEF Types, Locked, Running, ThreadRead, EndThread, mutexVars
  <2>2. CASE ThreadEof(c) \/ ThreadWriteFails(c)
    BY <1>1, <2>2 DEF Types, Locked, Running, ThreadEof, ThreadWriteFails, EndThread, mutexVars
  <2>3. CASE Lock(c)
    BY <1>1, <2>3, ServerFacts DEF Types, Locked, Running, Lock, Acquire, EndThread
  <2>4. CASE Finish(c)
    BY <1>1, <2>4, ServerFacts DEF Types, Locked, Running, Finish
  <2>5. CASE Panic(c)
    BY <1>1, <2>5, ServerFacts DEF Types, Locked, Running, Panic, EndThread
  <2>6. CASE ThreadWrite(c)
    BY <1>1, <2>6 DEF Types, Locked, Running, ThreadWrite, mutexVars
  <2> QED BY <1>5, <2>1, <2>2, <2>3, <2>4, <2>5, <2>6 DEF ServerStep
<1>6. CASE UNCHANGED vars
  BY <1>1, <1>6 DEF Locked, Running, vars, mutexVars, threadVars
<1> QED BY <1>2, <1>3, <1>4, <1>5, <1>6, Steps

(***************************************************************************)
(* What a step leaves of the other connections.                            *)
(***************************************************************************)
Same(d) ==
    /\ thread'[d] = thread[d] /\ client'[d] = client[d]
    /\ inbox'[d] = inbox[d] /\ request'[d] = request[d] /\ outbox'[d] = outbox[d]
    /\ sending'[d] = sending[d] /\ receiving'[d] = receiving[d]
    /\ toServer'[d] = toServer[d] /\ toClient'[d] = toClient[d]
    /\ statement'[d] = statement[d] /\ reply'[d] = reply[d]
    /\ shown'[d] = shown[d] /\ overlong'[d] = overlong[d]

LEMMA OthersSame ==
    ASSUME Types, NEW c \in Clients, ClientStep(c) \/ ServerStep(c),
           NEW d \in Clients, d # c
    PROVE  Same(d)
<1> USE DEF Same, Types, Streams, mutexVars, threadVars, clientVars, historyVars, EndThread, EndClient
<1>1. CASE Connect(c)
  BY <1>1 DEF Connect
<1>2. ASSUME NEW line \in Lines[c], TypePart(c, line) \/ SendTyped(c, line) PROVE Same(d)
  BY <1>2 DEF TypePart, SendTyped
<1>3. CASE ClientWrite(c)
  BY <1>3 DEF ClientWrite
<1>4. CASE ClientRead(c)
  BY <1>4 DEF ClientRead
<1>5. CASE ClientFails(c) \/ Quit(c)
  BY <1>5 DEF ClientFails, Quit
<1>6. CASE ThreadRead(c)
  BY <1>6 DEF ThreadRead
<1>7. CASE ThreadEof(c) \/ ThreadWriteFails(c)
  BY <1>7 DEF ThreadEof, ThreadWriteFails
<1>8. CASE Lock(c)
  BY <1>8 DEF Lock, Acquire
<1>9. CASE Finish(c)
  BY <1>9 DEF Finish
<1>10. CASE Panic(c)
  BY <1>10 DEF Panic
<1>11. CASE ThreadWrite(c)
  BY <1>11 DEF ThreadWrite
<1> QED BY <1>1, <1>2, <1>3, <1>4, <1>5, <1>6, <1>7, <1>8, <1>9, <1>10, <1>11
        DEF ClientStep, ServerStep

LEMMA SameEnds ==
    ASSUME NEW d, Ends(d), Same(d)
    PROVE  Ends(d)'
  BY DEF Ends, Same

(***************************************************************************)
(* The ends.                                                               *)
(***************************************************************************)
LEMMA ClientEnds ==
    ASSUME Sound, NEW c \in Clients, ClientStep(c)
    PROVE  Ends(c)'
<1>1. Types /\ Ends(c)
  BY TypeParts DEF Sound
<1>2. CASE Connect(c)
  BY <1>1, <1>2 DEF Types, Ends, Connect, Streams
<1>3. ASSUME NEW line \in Lines[c], TypePart(c, line) PROVE Ends(c)'
  BY <1>1, <1>3 DEF Types, Ends, TypePart, threadVars
<1>4. ASSUME NEW line \in Lines[c], SendTyped(c, line) PROVE Ends(c)'
  <2>1. line.text \in Bytes /\ input[c] \in Bytes
    BY <1>1, ServerFacts DEF Types, Streams
  <2>2. Typed(c, line) \in Bytes
    BY <2>1, ConcatProperties DEF Typed, Bytes
  <2>3. Frame(Typed(c, line)) # <<>>
    BY <2>2, FramesAreBytes
  <2> QED BY <1>1, <1>4, <2>3 DEF Types, Streams, Ends, SendTyped, threadVars
<1>5. CASE ClientWrite(c)
  BY <1>1, <1>5 DEF Types, Streams, Ends, ClientWrite, threadVars
<1>6. CASE ClientRead(c)
  <2>1. Missing(receiving[c])' \in Nat \ {0}
    BY <1>6, ReadTypes
  <2>2. client[c] = "read" /\ sending[c] = <<>> /\ UNCHANGED threadVars
    BY <1>1, <1>6 DEF Ends, ClientRead
  <2>3. CASE UNCHANGED <<client, sending>>
    BY <1>1, <2>1, <2>2, <2>3 DEF Ends, threadVars
  <2>4. CASE /\ receiving' = [receiving EXCEPT ![c] = <<>>]
             /\ client' = [client EXCEPT ![c] = "idle"]
             /\ UNCHANGED sending
    BY <1>1, <2>1, <2>2, <2>4 DEF Types, Streams, Ends, threadVars
  <2>5. CASE EndClient(c)
    BY <1>1, <2>1, <2>2, <2>5 DEF Types, Streams, Ends, EndClient, threadVars
  <2> QED BY <1>6, <2>3, <2>4, <2>5 DEF ClientRead
<1>7. CASE ClientFails(c) \/ Quit(c)
  <2>1. EndClient(c) /\ UNCHANGED threadVars
    BY <1>7 DEF ClientFails, Quit
  <2> QED BY <1>1, <2>1, NothingRead DEF Types, Streams, Ends, EndClient, threadVars
<1> QED BY <1>2, <1>3, <1>4, <1>5, <1>6, <1>7 DEF ClientStep

LEMMA ServerEnds ==
    ASSUME Sound, NEW c \in Clients, ServerStep(c)
    PROVE  Ends(c)'
<1>1. Types /\ Ends(c)
  BY TypeParts DEF Sound
<1>2. CASE ThreadRead(c)
  <2>1. Missing(inbox[c])' \in Nat \ {0}
    BY <1>2, ReadTypes
  <2> QED BY <1>1, <1>2, <2>1 DEF Types, Streams, Ends, ThreadRead, EndThread, clientVars
<1>3. CASE EndThread(c) /\ UNCHANGED clientVars
  BY <1>1, <1>3, NothingRead DEF Types, Streams, Ends, EndThread, clientVars
<1>4. CASE thread[c] = "lock" /\ Acquire(c) /\ UNCHANGED clientVars
  BY <1>1, <1>4 DEF Types, Streams, Ends, Acquire, clientVars
<1>5. CASE Finish(c)
  <2>1. PICK r \in Texts : outbox' = [outbox EXCEPT ![c] = Frame(r)]
    BY <1>5 DEF Finish
  <2>2. Frame(r) # <<>>
    BY ServerFacts, FramesAreBytes
  <2> QED BY <1>1, <1>5, <2>1, <2>2 DEF Types, Streams, Ends, Finish, clientVars
<1>6. CASE ThreadWrite(c)
  BY <1>1, <1>6 DEF Types, Streams, Ends, ThreadWrite, clientVars
<1> QED BY <1>2, <1>3, <1>4, <1>5, <1>6
        DEF ServerStep, ThreadEof, ThreadWriteFails, Lock, Panic

LEMMA StepSound ==
    ASSUME Sound, [Next]_vars
    PROVE  Sound'
<1>1. Types /\ \A d \in Clients : Ends(d)
  BY TypeParts DEF Sound
<1>2. TypeOK'
  BY StepTypes, StepLocked, TypeParts DEF TypeOK, Types, Locked, Streams, Bytes, Running
<1>3. SUFFICES ASSUME NEW d \in Clients PROVE Ends(d)'
  BY <1>2 DEF Sound
<1>4. CASE Boot \/ UNCHANGED vars
  BY <1>1, <1>4 DEF Ends, Boot, vars, threadVars, clientVars
<1>5. CASE EndProcess
  BY <1>1, <1>5, NothingRead DEF Ends, EndProcess, Everywhere, clientVars
<1>6. ASSUME NEW c \in Clients, ClientStep(c) \/ ServerStep(c) PROVE Ends(d)'
  <2>1. CASE d = c
    BY <1>6, <2>1, ClientEnds, ServerEnds
  <2>2. CASE d # c
    BY <1>1, <1>6, <2>2, OthersSame, SameEnds
  <2> QED BY <2>1, <2>2
<1> QED BY <1>4, <1>5, <1>6, Steps

\* The threads, the clients and the mutex are always in states of their
\* types, and a statement runs exactly under the mutex (server.rs:50-54).
THEOREM TypeCorrect == Spec => []TypeOK
<1>1. Init => Sound
  BY SoundAtStart
<1>2. Sound /\ [Next]_vars => Sound'
  BY StepSound
<1>3. Sound => TypeOK
  BY DEF Sound
<1> QED BY <1>1, <1>2, <1>3, PTL DEF Spec

LEMMA AlwaysSound == Spec => []Sound
<1>1. Init => Sound
  BY SoundAtStart
<1>2. Sound /\ [Next]_vars => Sound'
  BY StepSound
<1> QED BY <1>1, <1>2, PTL DEF Spec

(***************************************************************************)
(* A panic frees the mutex, but poisons it: who gets it afterwards panics, *)
(* too, before it has it.                                                  *)
(***************************************************************************)
Poisoning == (broken => poisoned) /\ (poisoned => lock = Free)

LEMMA StepPoisoning ==
    ASSUME Poisoning, [Next]_vars
    PROVE  Poisoning'
<1>1. CASE Boot \/ EndProcess
  BY <1>1 DEF Poisoning, Boot, EndProcess
<1>2. ASSUME NEW c \in Clients, Lock(c) PROVE Poisoning'
  BY <1>2 DEF Poisoning, Lock, Acquire
<1>3. ASSUME NEW c \in Clients, Finish(c) \/ Panic(c) PROVE Poisoning'
  BY <1>3 DEF Poisoning, Finish, Panic
<1>4. CASE UNCHANGED mutexVars
  BY <1>4 DEF Poisoning, mutexVars
<1> QED
  <2>1. ASSUME NEW c \in Clients, ClientStep(c) PROVE UNCHANGED mutexVars
    BY <2>1 DEF ClientStep, Connect, TypePart, SendTyped, ClientWrite, ClientRead, ClientFails, Quit
  <2>2. ASSUME NEW c \in Clients, ServerStep(c)
        PROVE  Lock(c) \/ Finish(c) \/ Panic(c) \/ UNCHANGED mutexVars
    BY <2>2 DEF ServerStep, ThreadRead, ThreadEof, ThreadWrite, ThreadWriteFails
  <2>3. UNCHANGED vars => UNCHANGED mutexVars
    BY DEF vars
  <2> QED BY <1>1, <1>2, <1>3, <1>4, <2>1, <2>2, <2>3, Steps

\* However many clients there are, no statement runs on a database that a
\* panicking statement has left half changed (server.rs:52).
THEOREM PanicStopsStatements == Spec => []BrokenStateUnseen
<1>1. Init => Poisoning
  BY DEF Init, Poisoning
<1>2. Poisoning /\ [Next]_vars => Poisoning'
  BY StepPoisoning
<1>3. Sound /\ Poisoning => BrokenStateUnseen
  BY ServerFacts, TypeParts DEF Sound, Poisoning, BrokenStateUnseen, Locked
<1> QED BY <1>1, <1>2, <1>3, AlwaysSound, PTL DEF Spec

(***************************************************************************)
(* The dialogue of a client and its thread, as long as the client is not   *)
(* lost.                                                                   *)
(***************************************************************************)
\* What was read, what is under way, and what has still to be written.
Joined(x, y, z) == (x \o y) \o z

Resting(c) ==
    /\ thread[c] \in {"none", "read"}
    /\ toClient[c] = <<>>
    /\ thread[c] = "read" => inbox[c] = <<>> /\ toServer[c] = <<>>

Asking(c) ==
    /\ reply[c] = <<>> /\ toClient[c] = <<>> /\ receiving[c] = <<>>
    /\ thread[c] # "write"
    /\ thread[c] = "read" => Joined(inbox[c], toServer[c], sending[c]) = Frame(statement[c])
    /\ thread[c] \in {"lock", "execute"} =>
          client[c] = "read" /\ request[c] = statement[c] /\ toServer[c] = <<>>

\* After the thread is gone the rest of the reply is, too.
Answering(c) ==
    /\ client[c] = "read" /\ thread[c] \notin {"lock", "execute"}
    /\ \E r \in Bytes, rest \in Bytes :
          /\ reply[c] = <<r>> /\ Fits(r)
          /\ Joined(receiving[c], toClient[c], rest) = Frame(r)
          /\ thread[c] # "none" =>
                rest = outbox[c] /\ inbox[c] = <<>> /\ toServer[c] = <<>>

Talking(c) ==
    /\ client[c] = "idle" => Resting(c)
    /\ client[c] # "idle" => Fits(statement[c]) /\ (Asking(c) \/ Answering(c))

Dialogue(c) == ~Lost(c) => Talking(c)

LEMMA LocalTypes ==
    ASSUME Sound, NEW c \in Clients
    PROVE  /\ Types /\ Ends(c)
           /\ inbox[c] \in Bytes /\ request[c] \in Bytes /\ outbox[c] \in Bytes
           /\ sending[c] \in Bytes /\ receiving[c] \in Bytes
           /\ toServer[c] \in Bytes /\ toClient[c] \in Bytes /\ statement[c] \in Bytes
           /\ Missing(inbox[c]) \in Nat /\ Missing(receiving[c]) \in Nat
<1>1. Types /\ Ends(c)
  BY TypeParts DEF Sound
<1> QED BY <1>1 DEF Types, Streams, Ends

LEMMA JoinedFacts == \A x, y, z \in Bytes : Joined(x, y, z) = x \o (y \o z)
<1> SUFFICES ASSUME NEW x \in Seq(Byte), NEW y \in Seq(Byte), NEW z \in Seq(Byte)
             PROVE  Joined(x, y, z) = x \o (y \o z)
  BY DEF Bytes
<1>1. (x \o y) \o z = x \o (y \o z)
  BY ConcatAssociative
<1> QED BY <1>1 DEF Joined

LEMMA NothingLeft ==
    ASSUME NEW x \in Bytes, NEW y \in Bytes, x \o y = <<>>
    PROVE  x = <<>> /\ y = <<>>
<1>1. Len(x \o y) = Len(x) + Len(y) /\ Len(x \o y) = 0
  BY ConcatProperties DEF Bytes
<1>2. Len(x) \in Nat /\ Len(y) \in Nat
  BY DEF Bytes
<1>3. Len(x) = 0 /\ Len(y) = 0
  BY <1>1, <1>2
<1> QED BY <1>3, EmptySeq DEF Bytes

\* A reader that has a whole frame has the one that was written, and there is
\* nothing behind it.
LEMMA WholeFrame ==
    ASSUME NEW p \in Bytes, Fits(p), NEW stream \in Bytes, NEW got \in Bytes,
           Missing(got) \in Nat, NEW rest \in Bytes,
           Joined(got, stream, rest) = Frame(p)
    PROVE  /\ Taken(stream, got) \in Bytes /\ Left(stream, got) \in Bytes
           /\ Joined(Taken(stream, got), Left(stream, got), rest) = Frame(p)
           /\ Missing(Taken(stream, got)) = 0 =>
                 /\ Left(stream, got) = <<>> /\ rest = <<>>
                 /\ Payload(Taken(stream, got)) = p
<1>1. PICK taken \in Bytes, left \in Bytes :
          /\ taken = Taken(stream, got) /\ left = Left(stream, got)
          /\ taken \o left = got \o stream
  BY TakenFacts DEF Bytes
<1>2. Joined(taken, left, rest) = Frame(p)
  BY <1>1 DEF Joined
<1>3. taken \o (left \o rest) = Frame(p)
  BY <1>2, JoinedFacts, ZenonT(60)
<1>4. Missing(taken) = 0 => left \o rest = <<>> /\ Payload(taken) = p
  <2>1. left \o rest \in Seq(Byte)
    BY ConcatProperties DEF Bytes
  <2> QED BY <1>3, <2>1, ReaderGetsFrame, ZenonT(60) DEF Bytes
<1>5. left \o rest = <<>> => left = <<>> /\ rest = <<>>
  BY NothingLeft
<1> QED BY <1>1, <1>2, <1>4, <1>5

LEMMA ThreadGets ==
    ASSUME Sound, NEW c \in Clients, Talking(c), client[c] # "off", ThreadRead(c)
    PROVE  LET got == Taken(toServer[c], inbox[c])
               left == Left(toServer[c], inbox[c])
           IN /\ client[c] # "idle" /\ Fits(statement[c])
              /\ reply[c] = <<>> /\ toClient[c] = <<>> /\ receiving[c] = <<>>
              /\ Joined(got, left, sending[c]) = Frame(statement[c])
              /\ Missing(got) = 0 =>
                    left = <<>> /\ client[c] = "read" /\ Payload(got) = statement[c]
<1>1. thread[c] = "read" /\ toServer[c] # <<>>
  BY DEF ThreadRead
<1>2. client[c] # "idle" /\ Fits(statement[c]) /\ Asking(c)
  BY <1>1 DEF Talking, Resting, Answering
<1>3. Joined(inbox[c], toServer[c], sending[c]) = Frame(statement[c])
  BY <1>1, <1>2 DEF Asking
<1>4. /\ statement[c] \in Bytes /\ toServer[c] \in Bytes /\ inbox[c] \in Bytes
      /\ sending[c] \in Bytes /\ Missing(inbox[c]) \in Nat
  BY LocalTypes
<1>5. /\ Joined(Taken(toServer[c], inbox[c]), Left(toServer[c], inbox[c]), sending[c])
         = Frame(statement[c])
      /\ Missing(Taken(toServer[c], inbox[c])) = 0 =>
            /\ Left(toServer[c], inbox[c]) = <<>> /\ sending[c] = <<>>
            /\ Payload(Taken(toServer[c], inbox[c])) = statement[c]
  BY <1>2, <1>3, <1>4, WholeFrame
<1>6. sending[c] = <<>> => client[c] = "read"
  BY <1>2, LocalTypes DEF Types, Ends
<1> QED BY <1>2, <1>5, <1>6 DEF Asking

LEMMA ClientGets ==
    ASSUME Sound, NEW c \in Clients, Talking(c), ClientRead(c)
    PROVE  LET got == Taken(toClient[c], receiving[c])
               left == Left(toClient[c], receiving[c])
           IN /\ Fits(statement[c]) /\ thread[c] \notin {"lock", "execute"}
              /\ \E r \in Bytes, rest \in Bytes :
                    /\ reply[c] = <<r>> /\ Fits(r)
                    /\ Joined(got, left, rest) = Frame(r)
                    /\ thread[c] # "none" =>
                          rest = outbox[c] /\ inbox[c] = <<>> /\ toServer[c] = <<>>
                    /\ Missing(got) = 0 => left = <<>> /\ rest = <<>> /\ Payload(got) = r
<1>1. client[c] = "read" /\ toClient[c] # <<>>
  BY DEF ClientRead
<1>2. Fits(statement[c]) /\ Answering(c)
  BY <1>1 DEF Talking, Asking
<1>3. PICK r \in Bytes, rest \in Bytes :
          /\ reply[c] = <<r>> /\ Fits(r)
          /\ Joined(receiving[c], toClient[c], rest) = Frame(r)
          /\ thread[c] # "none" =>
                rest = outbox[c] /\ inbox[c] = <<>> /\ toServer[c] = <<>>
  BY <1>2 DEF Answering
<1>4. toClient[c] \in Bytes /\ receiving[c] \in Bytes /\ Missing(receiving[c]) \in Nat
  BY LocalTypes
<1>5. /\ Joined(Taken(toClient[c], receiving[c]), Left(toClient[c], receiving[c]), rest) = Frame(r)
      /\ Missing(Taken(toClient[c], receiving[c])) = 0 =>
            /\ Left(toClient[c], receiving[c]) = <<>> /\ rest = <<>>
            /\ Payload(Taken(toClient[c], receiving[c])) = r
  BY <1>3, <1>4, WholeFrame
<1> QED BY <1>2, <1>3, <1>5 DEF Answering

LEMMA JoinedStart ==
    ASSUME NEW z \in Bytes
    PROVE  Joined(<<>>, <<>>, z) = z
<1>1. z \in Seq(Byte) /\ <<>> \in Seq(Byte)
  BY DEF Bytes
<1>2. <<>> \o <<>> = <<>>
  BY <1>1, ConcatEmptySeq
<1>3. <<>> \o z = z
  BY <1>1, ConcatEmptySeq
<1> QED BY <1>2, <1>3 DEF Joined

\* A write moves bytes on, and loses none.
LEMMA JoinedWritten ==
    ASSUME NEW x \in Bytes, NEW stream \in Bytes, NEW bytes \in Bytes,
           Room(stream, bytes) > 0
    PROVE  Joined(x, Written(stream, bytes), Unwritten(stream, bytes)) = Joined(x, stream, bytes)
<1>1. PICK front \in Bytes, back \in Bytes :
          /\ front = Written(stream, bytes) /\ back = Unwritten(stream, bytes)
          /\ front \o back = stream \o bytes
  BY WrittenFacts
<1>2. Joined(x, front, back) = x \o (front \o back)
  BY JoinedFacts, ZenonT(60)
<1>3. Joined(x, stream, bytes) = x \o (stream \o bytes)
  BY JoinedFacts, ZenonT(60)
<1> QED BY <1>1, <1>2, <1>3

\* What is lost on the way is part of what does not arrive.
LEMMA JoinedLost ==
    ASSUME NEW x \in Bytes, NEW y \in Bytes, NEW z \in Bytes
    PROVE  y \o z \in Bytes /\ Joined(x, <<>>, y \o z) = Joined(x, y, z)
<1>1. x \in Seq(Byte) /\ y \in Seq(Byte) /\ z \in Seq(Byte)
  BY DEF Bytes
<1>2. x \o <<>> = x
  BY <1>1, ConcatEmptySeq
<1>3. y \o z \in Bytes
  BY <1>1, ConcatProperties DEF Bytes
<1>4. Joined(x, y, z) = x \o (y \o z)
  BY JoinedFacts, ZenonT(60)
<1> QED BY <1>2, <1>3, <1>4 DEF Joined

(***************************************************************************)
(* A thread may end at any time, and what it has written may be lost.      *)
(***************************************************************************)
LEMMA ThreadGone ==
    ASSUME Sound, NEW c \in Clients, Dialogue(c),
           thread'[c] = "none", toClient'[c] \in {toClient[c], <<>>},
           client'[c] = client[c], receiving'[c] = receiving[c],
           statement'[c] = statement[c], reply'[c] = reply[c], overlong'[c] = overlong[c]
    PROVE  Dialogue(c)'
<1>1. SUFFICES ASSUME ~Lost(c)' PROVE Talking(c)'
  BY DEF Dialogue
<1>2. Talking(c)
  BY <1>1 DEF Dialogue, Lost
<1>3. CASE client[c] = "idle"
  BY <1>2, <1>3 DEF Talking, Resting
<1>4. CASE client[c] # "idle" /\ Asking(c)
  BY <1>2, <1>4 DEF Talking, Asking
<1>5. CASE client[c] # "idle" /\ Answering(c)
  <2>1. PICK r \in Bytes, rest \in Bytes :
            reply[c] = <<r>> /\ Fits(r) /\ Joined(receiving[c], toClient[c], rest) = Frame(r)
    BY <1>5 DEF Answering
  <2>2. PICK more \in Bytes : Joined(receiving[c], toClient'[c], more) = Frame(r)
    <3>1. CASE toClient'[c] = toClient[c]
      BY <2>1, <3>1
    <3>2. CASE toClient'[c] = <<>>
      <4>1. /\ toClient[c] \o rest \in Bytes
            /\ Joined(receiving[c], <<>>, toClient[c] \o rest)
                  = Joined(receiving[c], toClient[c], rest)
        BY LocalTypes, JoinedLost
      <4> QED BY <2>1, <3>2, <4>1
    <3> QED BY <3>1, <3>2
  <2>3. Answering(c)'
    BY <1>5, <2>1, <2>2 DEF Answering
  <2> QED BY <1>2, <1>5, <2>3 DEF Talking
<1> QED BY <1>2, <1>3, <1>4, <1>5 DEF Talking

LEMMA EndedThread ==
    ASSUME Sound, NEW c \in Clients, Dialogue(c), EndThread(c),
           UNCHANGED <<clientVars, historyVars>>
    PROVE  Dialogue(c)'
<1>1. Types
  BY LocalTypes
<1>2. thread'[c] = "none" /\ toClient'[c] \in {toClient[c], <<>>}
  BY <1>1 DEF Types, Streams, EndThread
<1> QED BY <1>2, ThreadGone DEF clientVars, historyVars

LEMMA ClientDialogue ==
    ASSUME Sound, NEW c \in Clients, Dialogue(c), ClientStep(c)
    PROVE  Dialogue(c)'
<1>1. /\ Types /\ Ends(c)
      /\ inbox[c] \in Bytes /\ toServer[c] \in Bytes /\ sending[c] \in Bytes
  BY LocalTypes
<1>2. SUFFICES ASSUME ~Lost(c)' PROVE Talking(c)'
  BY DEF Dialogue
<1>3. CASE Connect(c)
  BY <1>1, <1>3 DEF Types, Streams, Ends, Connect, Talking, Resting
<1>4. ASSUME NEW line \in Lines[c], TypePart(c, line) PROVE Talking(c)'
  <2>1. Talking(c)
    BY <1>2, <1>4 DEF Dialogue, Lost, TypePart, historyVars
  <2> QED BY <1>4, <2>1
          DEF TypePart, Talking, Resting, Asking, Answering, threadVars, historyVars
<1>5. ASSUME NEW line \in Lines[c], SendTyped(c, line) PROVE Talking(c)'
  <2> DEFINE s == Typed(c, line)
  <2>1. /\ client[c] = "idle"
        /\ client' = [client EXCEPT ![c] = "write"]
        /\ sending' = [sending EXCEPT ![c] = Frame(s)]
        /\ statement' = [statement EXCEPT ![c] = s]
        /\ reply' = [reply EXCEPT ![c] = <<>>]
        /\ overlong' = [overlong EXCEPT ![c] = @ \/ ~Fits(s)]
        /\ UNCHANGED <<threadVars, receiving, toServer, toClient>>
    BY <1>5 DEF SendTyped
  <2>2. s \in Bytes
    <3>1. line.text \in Bytes /\ input[c] \in Bytes
      BY <1>1, ServerFacts DEF Types, Streams
    <3> QED BY <3>1, ConcatProperties DEF Typed, Bytes
  <2> HIDE DEF s
  <2>3. overlong'[c] = (overlong[c] \/ ~Fits(s))
    BY <1>1, <2>1 DEF Types
  <2>4. ~overlong[c] /\ Fits(s)
    BY <1>2, <2>3 DEF Lost
  <2>5. Resting(c)
    BY <2>1, <2>4 DEF Dialogue, Lost, Talking
  <2>6. Joined(<<>>, <<>>, Frame(s)) = Frame(s)
    BY <2>2, FramesAreBytes, JoinedStart
  <2>7. /\ client'[c] = "write" /\ sending'[c] = Frame(s) /\ statement'[c] = s
        /\ reply'[c] = <<>> /\ receiving'[c] = <<>> /\ toClient'[c] = <<>>
        /\ thread'[c] \in {"none", "read"}
        /\ thread'[c] = "read" => inbox'[c] = <<>> /\ toServer'[c] = <<>>
    BY <1>1, <2>1, <2>5 DEF Types, Streams, Ends, Resting, threadVars
  <2>8. Asking(c)'
    BY <2>6, <2>7 DEF Asking
  <2> QED BY <2>4, <2>7, <2>8 DEF Talking
<1>6. CASE ClientWrite(c)
  <2>1. /\ client[c] = "write" /\ thread[c] # "none" /\ Room(toServer[c], sending[c]) > 0
        /\ UNCHANGED <<threadVars, receiving, toClient, historyVars>>
    BY <1>6 DEF ClientWrite
  <2>2. Fits(statement[c]) /\ Asking(c)
    BY <1>2, <2>1 DEF Dialogue, Lost, Talking, Answering, historyVars
  <2>3. thread[c] = "read"
    BY <1>1, <2>1, <2>2 DEF Types, Asking
  <2>4. toServer'[c] = Written(toServer[c], sending[c])
        /\ sending'[c] = Unwritten(toServer[c], sending[c])
        /\ client'[c] \in {"write", "read"}
    BY <1>1, <1>6 DEF Types, Streams, ClientWrite
  <2>5. Joined(inbox[c], toServer'[c], sending'[c]) = Joined(inbox[c], toServer[c], sending[c])
    BY <1>1, <2>1, <2>4, JoinedWritten
  <2>6. Asking(c)'
    BY <2>1, <2>2, <2>3, <2>5 DEF Asking, threadVars, historyVars
  <2> QED BY <2>1, <2>2, <2>4, <2>6 DEF Talking, historyVars
<1>7. CASE ClientRead(c)
  <2> DEFINE got == Taken(toClient[c], receiving[c])
             left == Left(toClient[c], receiving[c])
  <2>1. client[c] = "read" /\ toClient'[c] = left /\ UNCHANGED <<threadVars, statement, reply, overlong>>
    BY <1>1, <1>7 DEF Types, Streams, ClientRead
  <2>2. ~Lost(c)
    BY <1>2, <2>1 DEF Lost
  <2>3. Fits(statement[c]) /\ thread[c] \notin {"lock", "execute"}
    BY <1>7, <2>2, ClientGets DEF Dialogue
  <2>4. PICK r \in Bytes, rest \in Bytes :
            /\ reply[c] = <<r>> /\ Fits(r)
            /\ Joined(got, left, rest) = Frame(r)
            /\ thread[c] # "none" =>
                  rest = outbox[c] /\ inbox[c] = <<>> /\ toServer[c] = <<>>
            /\ Missing(got) = 0 => left = <<>> /\ rest = <<>> /\ Payload(got) = r
    BY <1>7, <2>2, ClientGets DEF Dialogue
  <2> HIDE DEF got, left
  <2>5. CASE /\ Missing(got) > 0
             /\ receiving' = [receiving EXCEPT ![c] = got]
             /\ UNCHANGED <<client, input, sending, toServer, shown>>
    <3>1. receiving'[c] = got
      BY <1>1, <2>5 DEF Types, Streams
    <3>2. Answering(c)'
      BY <2>1, <2>3, <2>4, <2>5, <3>1 DEF Answering, threadVars
    <3> QED BY <2>1, <2>3, <2>5, <3>2 DEF Talking
  <2>6. CASE /\ Missing(got) = 0
             /\ client' = [client EXCEPT ![c] = "idle"]
             /\ UNCHANGED <<input, sending, toServer>>
    <3>1. client'[c] = "idle"
      BY <1>1, <2>6 DEF Types
    <3>2. thread[c] # "none" => thread[c] = "read"
      BY <1>1, <2>3, <2>4, <2>6 DEF Types, Ends
    <3>3. Resting(c)'
      BY <2>1, <2>4, <2>6, <3>2 DEF Resting, threadVars
    <3> QED BY <3>1, <3>3 DEF Talking
  <2>7. CASE EndClient(c)
    BY <1>1, <1>2, <2>7 DEF Types, EndClient, Lost
  <2> QED BY <1>7, <2>5, <2>6, <2>7 DEF ClientRead, got
<1>8. CASE ClientFails(c) \/ Quit(c)
  BY <1>1, <1>2, <1>8 DEF Types, ClientFails, Quit, EndClient, Lost
<1> QED BY <1>3, <1>4, <1>5, <1>6, <1>7, <1>8 DEF ClientStep

LEMMA ServerDialogue ==
    ASSUME Sound, NEW c \in Clients, Dialogue(c), ServerStep(c)
    PROVE  Dialogue(c)'
<1>1. /\ Types /\ Ends(c)
      /\ toClient[c] \in Bytes /\ receiving[c] \in Bytes /\ outbox[c] \in Bytes
  BY LocalTypes
<1>2. CASE ThreadRead(c)
  <2> DEFINE got == Taken(toServer[c], inbox[c])
             left == Left(toServer[c], inbox[c])
  <2>1. SUFFICES ASSUME ~Lost(c)' PROVE Talking(c)'
    BY DEF Dialogue
  <2>2. toServer'[c] = left /\ thread[c] = "read" /\ UNCHANGED <<clientVars, historyVars>>
    BY <1>1, <1>2 DEF Types, Streams, ThreadRead
  <2>3. client[c] # "off" /\ Talking(c) /\ Dialogue(c)
    BY <2>1, <2>2 DEF Dialogue, Lost, clientVars, historyVars
  <2>4. /\ client[c] # "idle" /\ Fits(statement[c])
        /\ reply[c] = <<>> /\ toClient[c] = <<>> /\ receiving[c] = <<>>
        /\ Joined(got, left, sending[c]) = Frame(statement[c])
        /\ Missing(got) = 0 =>
              left = <<>> /\ client[c] = "read" /\ Payload(got) = statement[c]
    BY <1>2, <2>3, ThreadGets
  <2> HIDE DEF got, left
  <2>5. CASE /\ inbox' = [inbox EXCEPT ![c] = got]
             /\ UNCHANGED <<thread, request, outbox, toClient>>
    <3>1. inbox'[c] = got
      BY <1>1, <2>5 DEF Types, Streams
    <3>2. Asking(c)'
      BY <2>2, <2>4, <2>5, <3>1 DEF Asking, clientVars, historyVars
    <3> QED BY <2>2, <2>4, <3>2 DEF Talking, clientVars, historyVars
  <2>6. CASE /\ Missing(got) = 0
             /\ thread' = [thread EXCEPT ![c] = "lock"]
             /\ request' = [request EXCEPT ![c] = Payload(got)]
             /\ UNCHANGED <<outbox, toClient>>
    <3>1. thread'[c] = "lock" /\ request'[c] = Payload(got)
      BY <1>1, <2>6 DEF Types, Streams
    <3>2. Asking(c)'
      BY <2>2, <2>4, <2>6, <3>1 DEF Asking, clientVars, historyVars
    <3> QED BY <2>2, <2>4, <3>2 DEF Talking, clientVars, historyVars
  <2>7. CASE EndThread(c)
    BY <2>1, <2>2, <2>3, <2>7, EndedThread DEF Dialogue
  <2> QED BY <1>2, <2>5, <2>6, <2>7 DEF ThreadRead, got
<1>3. CASE EndThread(c) /\ UNCHANGED <<clientVars, historyVars>>
  BY <1>3, EndedThread
<1>4. CASE thread[c] = "lock" /\ Acquire(c) /\ UNCHANGED <<clientVars, toServer, historyVars>>
  <2>1. SUFFICES ASSUME ~Lost(c)' PROVE Talking(c)'
    BY DEF Dialogue
  <2>2. Talking(c)
    BY <1>4, <2>1 DEF Dialogue, Lost, clientVars, historyVars
  <2>3. thread'[c] = "execute"
    BY <1>1, <1>4 DEF Types, Acquire
  <2> QED BY <1>4, <2>2, <2>3
          DEF Talking, Resting, Asking, Answering, Acquire, clientVars, historyVars
<1>5. CASE Finish(c)
  <2>1. SUFFICES ASSUME ~Lost(c)' PROVE Talking(c)'
    BY DEF Dialogue
  <2>2. PICK r \in Texts :
            /\ outbox' = [outbox EXCEPT ![c] = Frame(r)]
            /\ reply' = [reply EXCEPT ![c] = Append(@, r)]
            /\ overlong' = [overlong EXCEPT ![c] = @ \/ ~Fits(r)]
    BY <1>5 DEF Finish
  <2>3. /\ thread[c] = "execute" /\ thread' = [thread EXCEPT ![c] = "write"]
        /\ UNCHANGED <<inbox, clientVars, toServer, toClient, statement>>
    BY <1>5 DEF Finish
  <2>4. /\ outbox'[c] = Frame(r) /\ reply'[c] = Append(reply[c], r)
        /\ overlong'[c] = (overlong[c] \/ ~Fits(r)) /\ thread'[c] = "write"
    BY <1>1, <2>2, <2>3 DEF Types, Streams
  <2>5. ~overlong[c] /\ Fits(r) /\ client[c] # "off"
    BY <2>1, <2>3, <2>4 DEF Lost, clientVars
  <2>6. client[c] # "idle" /\ Fits(statement[c]) /\ Asking(c)
    BY <2>3, <2>5 DEF Dialogue, Lost, Talking, Resting, Answering
  <2>7. /\ client[c] = "read" /\ reply[c] = <<>> /\ toClient[c] = <<>>
        /\ receiving[c] = <<>> /\ toServer[c] = <<>> /\ inbox[c] = <<>>
    BY <1>1, <2>3, <2>6 DEF Asking, Ends
  <2>8. r \in Bytes /\ Frame(r) \in Bytes /\ Joined(<<>>, <<>>, Frame(r)) = Frame(r)
    BY ServerFacts, FramesAreBytes, JoinedStart
  <2>9. reply'[c] = <<r>>
    BY <2>4, <2>7
  <2>10. Answering(c)'
    BY <2>3, <2>4, <2>5, <2>7, <2>8, <2>9 DEF Answering, clientVars
  <2> QED BY <2>3, <2>6, <2>7, <2>10 DEF Talking, clientVars
<1>6. CASE ThreadWrite(c)
  <2>1. SUFFICES ASSUME ~Lost(c)' PROVE Talking(c)'
    BY DEF Dialogue
  <2>2. /\ thread[c] = "write" /\ Room(toClient[c], outbox[c]) > 0
        /\ UNCHANGED <<inbox, clientVars, toServer, historyVars>>
    BY <1>6 DEF ThreadWrite
  <2>3. client[c] # "idle" /\ Fits(statement[c]) /\ Answering(c)
    BY <2>1, <2>2 DEF Dialogue, Lost, Talking, Resting, Asking, clientVars, historyVars
  <2>4. /\ toClient'[c] = Written(toClient[c], outbox[c])
        /\ outbox'[c] = Unwritten(toClient[c], outbox[c])
        /\ thread'[c] \in {"write", "read"}
    BY <1>1, <1>6 DEF Types, Streams, ThreadWrite
  <2>5. Joined(receiving[c], toClient'[c], outbox'[c])
           = Joined(receiving[c], toClient[c], outbox[c]) /\ outbox'[c] \in Bytes
    BY <1>1, <2>2, <2>4, JoinedWritten, WrittenFacts
  <2>6. Answering(c)'
    BY <2>2, <2>3, <2>4, <2>5 DEF Answering, clientVars, historyVars
  <2> QED BY <2>2, <2>3, <2>6 DEF Talking, clientVars, historyVars
<1> QED BY <1>2, <1>3, <1>4, <1>5, <1>6
        DEF ServerStep, ThreadEof, ThreadWriteFails, Lock, Panic

LEMMA SameDialogue ==
    ASSUME NEW d, Dialogue(d), Same(d)
    PROVE  Dialogue(d)'
  BY DEF Dialogue, Lost, Talking, Resting, Asking, Answering, Same

Dialogues == \A c \in Clients : Dialogue(c)

LEMMA StepDialogues ==
    ASSUME Sound, Dialogues, [Next]_vars
    PROVE  Dialogues'
<1>1. Types
  BY TypeParts DEF Sound
<1>2. SUFFICES ASSUME NEW d \in Clients PROVE Dialogue(d)'
  BY DEF Dialogues
<1>3. Dialogue(d)
  BY DEF Dialogues
<1>4. CASE Boot \/ UNCHANGED vars
  <2>1. Same(d)
    BY <1>4 DEF Boot, Same, vars, threadVars, clientVars, historyVars
  <2> QED BY <1>3, <2>1, SameDialogue
<1>5. CASE EndProcess
  <2>1. thread'[d] = "none" /\ toClient'[d] \in {toClient[d], <<>>}
    BY <1>5 DEF EndProcess, Everywhere
  <2> QED BY <1>3, <1>5, <2>1, ThreadGone DEF EndProcess, clientVars, historyVars
<1>6. ASSUME NEW c \in Clients, ClientStep(c) \/ ServerStep(c) PROVE Dialogue(d)'
  <2>1. CASE d = c
    BY <1>3, <1>6, <2>1, ClientDialogue, ServerDialogue
  <2>2. CASE d # c
    BY <1>1, <1>3, <1>6, <2>2, OthersSame, SameDialogue
  <2> QED BY <2>1, <2>2
<1> QED BY <1>4, <1>5, <1>6, Steps

(***************************************************************************)
(* The refinement: what a client is to the service, and what a step of one *)
(* connection leaves of the others.                                        *)
(***************************************************************************)
StateMap == [c \in Clients |-> StateOf(c)]

StateValues(c) ==
    /\ StateOf(c) = "lost" <=> Lost(c)
    /\ StateOf(c) = "idle" <=> ~Lost(c) /\ client[c] = "idle"
    /\ StateOf(c) = "asked" <=> ~Lost(c) /\ client[c] # "idle" /\ reply[c] = <<>>
    /\ StateOf(c) = "done" <=> ~Lost(c) /\ client[c] # "idle" /\ reply[c] # <<>>

LEMMA StateOfValues == ASSUME NEW c PROVE StateValues(c) /\ StateValues(c)'
<1>1. StateValues(c)
  BY DEF StateValues, StateOf
<1>2. StateValues(c)'
  BY DEF StateValues, StateOf
<1> QED BY <1>1, <1>2

LEMMA SameState ==
    ASSUME NEW d, Same(d)
    PROVE  StateOf(d)' = StateOf(d) /\ Lost(d)' = Lost(d)
<1>1. Lost(d)' = Lost(d)
  BY DEF Same, Lost
<1> QED BY <1>1 DEF Same, StateOf

LEMMA OneChanges ==
    ASSUME NEW c \in Clients, \A d \in Clients \ {c} : Same(d)
    PROVE  /\ StateMap' = [StateMap EXCEPT ![c] = StateOf(c)']
           /\ Known(statement)' =
                 [Known(statement) EXCEPT ![c] = IF Lost(c)' THEN <<>> ELSE statement'[c]]
           /\ Known(reply)' =
                 [Known(reply) EXCEPT ![c] = IF Lost(c)' THEN <<>> ELSE reply'[c]]
           /\ Known(shown)' =
                 [Known(shown) EXCEPT ![c] = IF Lost(c)' THEN <<>> ELSE shown'[c]]
<1>1. \A d \in Clients \ {c} : StateOf(d)' = StateOf(d) /\ Lost(d)' = Lost(d)
  BY SameState
<1>2. StateMap' = [StateMap EXCEPT ![c] = StateOf(c)']
  BY <1>1 DEF StateMap
<1>3. Known(statement)' = [Known(statement) EXCEPT ![c] = IF Lost(c)' THEN <<>> ELSE statement'[c]]
  BY <1>1 DEF Known, Same
<1>4. Known(reply)' = [Known(reply) EXCEPT ![c] = IF Lost(c)' THEN <<>> ELSE reply'[c]]
  BY <1>1 DEF Known, Same
<1>5. Known(shown)' = [Known(shown) EXCEPT ![c] = IF Lost(c)' THEN <<>> ELSE shown'[c]]
  BY <1>1 DEF Known, Same
<1> QED BY <1>2, <1>3, <1>4, <1>5

\* A step that changes neither the user's view nor the history of a client.
LEMMA NothingChanges ==
    ASSUME UNCHANGED <<client, historyVars>>
    PROVE  UNCHANGED <<StateMap, Known(statement), Known(reply), Known(shown)>>
<1>1. \A d : Lost(d)' = Lost(d)
  BY DEF Lost, historyVars
<1>2. \A d : StateOf(d)' = StateOf(d)
  BY <1>1 DEF StateOf, historyVars
<1>3. StateMap' = StateMap
  BY <1>2 DEF StateMap
<1>4. UNCHANGED <<Known(statement), Known(reply), Known(shown)>>
  BY <1>1 DEF Known, historyVars
<1> QED BY <1>3, <1>4

LEMMA ServiceLoses ==
    ASSUME NEW c \in Clients, \A d \in Clients \ {c} : Same(d), Lost(c)', UNCHANGED broken
    PROVE  Service!Lose(c)
<1>1. StateOf(c)' = "lost"
  BY StateOfValues DEF StateValues
<1> QED BY <1>1, OneChanges DEF Service!Lose, StateMap

LEMMA ServiceStutters ==
    ASSUME UNCHANGED <<StateMap, Known(statement), Known(reply), Known(shown), broken>>
    PROVE  UNCHANGED Service!serviceVars
  BY DEF Service!serviceVars, StateMap

LEMMA ClientService ==
    ASSUME Sound, NEW c \in Clients, Dialogue(c), ClientStep(c), UNCHANGED broken,
           \A d \in Clients \ {c} : Same(d)
    PROVE  [Service!Next]_Service!serviceVars
<1>1. Types
  BY LocalTypes
<1>2. CASE Lost(c)'
  BY <1>2, ServiceLoses DEF Service!Next
<1>3. CASE Connect(c)
  <2>1. /\ client[c] = "off" /\ client'[c] = "idle" /\ ~overlong'[c]
        /\ statement'[c] = <<>> /\ reply'[c] = <<>> /\ shown'[c] = <<>>
    BY <1>1, <1>3 DEF Types, Streams, Connect
  <2>2. StateOf(c) = "lost" /\ StateOf(c)' = "idle" /\ ~Lost(c)'
    BY <2>1, StateOfValues DEF StateValues, Lost
  <2>3. Service!Open(c)
    BY <2>1, <2>2, OneChanges DEF Service!Open, StateMap
  <2> QED BY <2>3 DEF Service!Next
<1>4. ASSUME NEW line \in Lines[c], TypePart(c, line)
      PROVE  [Service!Next]_Service!serviceVars
  <2>1. UNCHANGED <<client, historyVars>>
    BY <1>4 DEF TypePart
  <2> QED BY <2>1, NothingChanges, ServiceStutters
<1>5. ASSUME NEW line \in Lines[c], SendTyped(c, line), ~Lost(c)'
      PROVE  [Service!Next]_Service!serviceVars
  <2> DEFINE s == Typed(c, line)
  <2>1. /\ client[c] = "idle" /\ client'[c] = "write" /\ statement'[c] = s
        /\ reply'[c] = <<>> /\ shown'[c] = <<>> /\ overlong'[c] = (overlong[c] \/ ~Fits(s))
    BY <1>1, <1>5 DEF Types, Streams, SendTyped
  <2>2. StateOf(c) = "idle" /\ StateOf(c)' = "asked"
    BY <1>5, <2>1, StateOfValues DEF StateValues, Lost
  <2>3. statement'[c] \in Seq(Byte)
    <3>1. Types'
      BY <1>1, <1>5, ClientTypes
    <3> QED BY <3>1 DEF Types, Streams, Bytes
  <2>4. Known(statement)'[c] = statement'[c]
    BY <1>5 DEF Known
  <2>5. Service!Ask(c)
    BY <1>5, <2>1, <2>2, <2>3, <2>4, OneChanges DEF Service!Ask, StateMap
  <2> QED BY <2>5 DEF Service!Next
<1>6. CASE ClientWrite(c)
  <2>1. /\ client[c] = "write" /\ client'[c] \in {"write", "read"}
        /\ UNCHANGED historyVars
    BY <1>1, <1>6 DEF Types, ClientWrite
  <2>2. StateOf(c)' = StateOf(c) /\ Lost(c)' = Lost(c)
    BY <2>1 DEF StateOf, Lost, historyVars
  <2>3. \A d \in Clients : StateOf(d)' = StateOf(d) /\ Lost(d)' = Lost(d)
    BY <2>2, SameState
  <2>4. UNCHANGED <<StateMap, Known(statement), Known(reply), Known(shown)>>
    BY <2>1, <2>3 DEF StateMap, Known, historyVars
  <2> QED BY <2>4, ServiceStutters
<1>7. ASSUME ClientRead(c), ~Lost(c)'
      PROVE  [Service!Next]_Service!serviceVars
  <2> DEFINE got == Taken(toClient[c], receiving[c])
             left == Left(toClient[c], receiving[c])
  <2>1. client[c] = "read" /\ UNCHANGED <<statement, reply, overlong>>
    BY <1>7 DEF ClientRead
  <2>2. ~Lost(c)
    BY <1>7, <2>1 DEF Lost
  <2>3. PICK r \in Bytes : reply[c] = <<r>> /\ (Missing(got) = 0 => Payload(got) = r)
    BY <1>7, <2>2, ClientGets DEF Dialogue
  <2> HIDE DEF got, left
  <2>4. CASE UNCHANGED <<client, shown>>
    <3>1. UNCHANGED <<client, historyVars>>
      BY <2>1, <2>4 DEF historyVars
    <3> QED BY <3>1, NothingChanges, ServiceStutters
  <2>5. CASE /\ Missing(got) = 0
             /\ client' = [client EXCEPT ![c] = "idle"]
             /\ shown' = [shown EXCEPT ![c] = <<Payload(got)>>]
    <3>1. client'[c] = "idle" /\ shown'[c] = reply[c]
      BY <1>1, <2>3, <2>5 DEF Types
    <3>2. StateOf(c) = "done" /\ StateOf(c)' = "idle"
      BY <1>7, <2>1, <2>2, <2>3, <3>1, StateOfValues DEF StateValues
    <3>3. Known(statement)' = Known(statement) /\ Known(reply)' = Known(reply)
      <4>1. \A d \in Clients : Lost(d)' <=> Lost(d)
        BY <1>7, <2>2, SameState
      <4> QED BY <2>1, <4>1 DEF Known
    <3>4. Known(shown)' = [Known(shown) EXCEPT ![c] = Known(reply)[c]]
      BY <1>7, <2>2, <3>1, OneChanges DEF Known
    <3>5. Service!Show(c)
      BY <3>2, <3>3, <3>4, OneChanges DEF Service!Show, StateMap
    <3> QED BY <3>5 DEF Service!Next
  <2>6. CASE EndClient(c)
    BY <1>1, <1>7, <2>6 DEF Types, EndClient, Lost
  <2> QED BY <1>7, <2>4, <2>5, <2>6 DEF ClientRead, got
<1>8. ASSUME ClientFails(c) \/ Quit(c) PROVE Lost(c)'
  BY <1>1, <1>8 DEF Types, ClientFails, Quit, EndClient, Lost
<1> QED BY <1>2, <1>3, <1>4, <1>5, <1>6, <1>7, <1>8 DEF ClientStep

LEMMA ServerService ==
    ASSUME Sound, BrokenStateUnseen, NEW c \in Clients, Dialogue(c), ServerStep(c),
           \A d \in Clients \ {c} : Same(d)
    PROVE  [Service!Next]_Service!serviceVars
<1>1. Types
  BY LocalTypes
<1>2. CASE UNCHANGED <<broken, clientVars, historyVars>>
  <2>1. UNCHANGED <<client, historyVars>>
    BY <1>2 DEF clientVars
  <2> QED BY <1>2, <2>1, NothingChanges, ServiceStutters
<1>3. CASE Panic(c)
  <2>1. broken' = TRUE /\ UNCHANGED <<client, historyVars>>
    BY <1>3 DEF Panic, clientVars
  <2>2. Service!Break
    BY <2>1, NothingChanges DEF Service!Break, StateMap
  <2> QED BY <2>2 DEF Service!Next
<1>4. CASE Finish(c)
  <2>1. /\ thread[c] = "execute" /\ UNCHANGED <<broken, clientVars, statement, shown>>
    BY <1>4 DEF Finish
  <2>2. CASE Lost(c)'
    BY <2>1, <2>2, ServiceLoses DEF Service!Next
  <2>3. CASE ~Lost(c)'
    <3>1. PICK r \in Texts :
              /\ Returns(request[c], r)
              /\ reply' = [reply EXCEPT ![c] = Append(@, r)]
              /\ overlong' = [overlong EXCEPT ![c] = @ \/ ~Fits(r)]
      BY <1>4 DEF Finish
    <3>2. /\ reply'[c] = Append(reply[c], r)
          /\ overlong'[c] = (overlong[c] \/ ~Fits(r))
      BY <1>1, <3>1 DEF Types
    <3>3. ~Lost(c) /\ Talking(c)
      BY <2>1, <2>3, <3>2 DEF Dialogue, Lost, clientVars
    <3>4. client[c] = "read" /\ reply[c] = <<>> /\ request[c] = statement[c]
      BY <2>1, <3>3 DEF Talking, Resting, Asking, Answering
    <3>5. ~broken
      BY <2>1 DEF BrokenStateUnseen, Running
    <3>6. reply'[c] = <<r>> /\ client'[c] = "read"
      BY <2>1, <3>2, <3>4 DEF clientVars
    <3>7. StateOf(c) = "asked" /\ StateOf(c)' = "done"
      BY <2>3, <3>3, <3>4, <3>6, StateOfValues DEF StateValues
    <3>8. Known(statement)' = Known(statement) /\ Known(shown)' = Known(shown)
      <4>1. \A d \in Clients : Lost(d)' <=> Lost(d)
        BY <2>3, <3>3, SameState
      <4> QED BY <2>1, <4>1 DEF Known
    <3>9. /\ Known(statement)[c] = request[c]
          /\ Known(reply)' = [Known(reply) EXCEPT ![c] = <<r>>]
      BY <2>3, <3>3, <3>4, <3>6, OneChanges DEF Known
    <3>10. Service!Perform(c)
      BY <2>1, <3>1, <3>5, <3>7, <3>8, <3>9, OneChanges DEF Service!Perform, StateMap
    <3> QED BY <3>10 DEF Service!Next
  <2> QED BY <2>2, <2>3
<1> QED BY <1>2, <1>3, <1>4
        DEF ServerStep, ThreadRead, ThreadEof, Lock, ThreadWrite, ThreadWriteFails, mutexVars

LEMMA ServiceStep ==
    ASSUME Sound, Dialogues, BrokenStateUnseen, [Next]_vars
    PROVE  [Service!Next]_Service!serviceVars
<1>1. Types
  BY TypeParts DEF Sound
<1>2. CASE Boot \/ EndProcess
  <2>1. broken' = FALSE /\ UNCHANGED <<client, historyVars>>
    BY <1>2 DEF Boot, EndProcess, clientVars
  <2>2. Service!Restart
    BY <2>1, NothingChanges DEF Service!Restart, StateMap
  <2> QED BY <2>2 DEF Service!Next
<1>3. ASSUME NEW c \in Clients, ClientStep(c) \/ ServerStep(c)
      PROVE  [Service!Next]_Service!serviceVars
  <2>1. \A d \in Clients \ {c} : Same(d)
    BY <1>1, <1>3, OthersSame
  <2>2. CASE ClientStep(c)
    <3>1. UNCHANGED broken
      BY <2>2 DEF ClientStep, Connect, TypePart, SendTyped, ClientWrite, ClientRead,
                  ClientFails, Quit, mutexVars
    <3> QED BY <2>1, <2>2, <3>1, ClientService DEF Dialogues
  <2>3. CASE ServerStep(c)
    BY <2>1, <2>3, ServerService DEF Dialogues
  <2> QED BY <1>3, <2>2, <2>3
<1>4. CASE UNCHANGED vars
  <2>1. UNCHANGED <<client, historyVars, broken>>
    BY <1>4 DEF vars, clientVars, mutexVars
  <2> QED BY <2>1, NothingChanges, ServiceStutters
<1> QED BY <1>2, <1>3, <1>4, Steps

LEMMA ServiceStart == Init => Service!Init
<1> SUFFICES ASSUME Init PROVE Service!Init
  OBVIOUS
<1>1. \A c \in Clients : Lost(c) /\ StateOf(c) = "lost"
  BY DEF Init, Everywhere, Lost, StateOf
<1>2. broken = FALSE
  BY DEF Init
<1> QED BY <1>1, <1>2 DEF Service!Init, Known

\* With any number of clients, streams of any size, and whoever dies or panics
\* when, a statement is executed at most once, as its client sent it and on a
\* sound database, and what its client prints is what came out of it
\* (server.rs:44-58, protocol.rs, client.rs).
THEOREM ServerImplementsService == Spec => ImplementsStatementService
<1>1. Init => Service!Init
  BY ServiceStart
<1>2. Init => Dialogues
  BY DEF Init, Dialogues, Dialogue, Lost, Everywhere
<1>3. Sound /\ Dialogues /\ [Next]_vars => Dialogues'
  BY StepDialogues
<1>4. Sound /\ Dialogues /\ BrokenStateUnseen /\ [Next]_vars
        => [Service!Next]_Service!serviceVars
  BY ServiceStep
<1>5. Spec => []Dialogues
  BY <1>2, <1>3, AlwaysSound, PTL DEF Spec
<1> QED BY <1>1, <1>4, <1>5, AlwaysSound, PanicStopsStatements, PTL
        DEF Spec, ImplementsStatementService, Service!Spec
=============================================================================

------------------------------ MODULE Protocol ------------------------------
(***************************************************************************)
(* Frames on a byte stream (src/src/protocol.rs): four bytes of length,    *)
(* most significant first, then the payload.                               *)
(*                                                                         *)
(* read_frame takes from the stream what is missing of the length and then *)
(* of the payload; what it has taken so far is here a sequence of bytes.   *)
(***************************************************************************)
EXTENDS Integers, Sequences

CONSTANTS
    Base,       \* the values of a byte: 256
    Utf8(_)     \* is a sequence of bytes well-formed text?

ASSUME BaseAssumption == Base \in Nat \ {0, 1}

Byte == 0..Base - 1
HeaderLength == 4

\* `as u32`: a length keeps its low 32 bits.
LengthLimit == Base * (Base * (Base * Base))
Fits(payload) == Len(payload) < LengthLimit

to_be_bytes(n) ==
    << (((n \div Base) \div Base) \div Base) % Base,
       ((n \div Base) \div Base) % Base,
       (n \div Base) % Base,
       n % Base >>

from_be_bytes(b) == ((b[1] * Base + b[2]) * Base + b[3]) * Base + b[4]

\* write_frame
Frame(payload) == to_be_bytes(Len(payload)) \o payload

\* The bytes that read_frame, having got these, still has to read.
Missing(got) ==
    IF Len(got) < HeaderLength
      THEN HeaderLength - Len(got)
      ELSE HeaderLength + from_be_bytes(got) - Len(got)

Payload(got) == SubSeq(got, HeaderLength + 1, Len(got))

\* A read takes what there is, but never bytes of the next frame.
Available(stream, got) ==
    IF Len(stream) < Missing(got) THEN Len(stream) ELSE Missing(got)

Taken(stream, got) == got \o SubSeq(stream, 1, Available(stream, got))
Left(stream, got) == SubSeq(stream, Available(stream, got) + 1, Len(stream))
=============================================================================

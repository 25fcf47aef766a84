------------------------------ MODULE MCServer ------------------------------
(***************************************************************************)
(* Two connections, bits for bytes: a length is 0 to 15.                   *)
(***************************************************************************)
EXTENDS ServerRefinement

CONSTANTS c1, c2
TwoClients == {c1, c2}

\* A 1 is the first byte of a character of two.
MCUtf8(bytes) == IF bytes = <<>> THEN TRUE ELSE bytes[Len(bytes)] = 0

Question == <<0>>
Faulty == <<1, 0>>
Crash == <<1, 1, 0>>
Bits(n) == [i \in 1..n |-> IF i = n THEN 0 ELSE 1]

Part(text) == [kind |-> "part", text |-> text]
Command(text) == [kind |-> "command", text |-> text]
Last(text) == [kind |-> "last", text |-> text]

MCLines ==
    [c \in TwoClients |->
        IF c = c1
          THEN {Part(<<1>>), Last(Question), Command(Crash), Command(Bits(16))}
          ELSE {Last(Question)}]

MCTexts == {<<>>, Bits(2), Bits(16)}
MCReturns(s, r) ==
    CASE s = Question -> r = Bits(2)
      [] s = Faulty -> r = Bits(16)
      [] s \notin {Question, Faulty} -> r = <<>>
MCPanics(s) == s = Faulty
MCCrashes(s) == s = Crash
=============================================================================

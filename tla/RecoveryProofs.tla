--------------------------- MODULE RecoveryProofs ---------------------------
(***************************************************************************)
(* What a write does to the log, and what recovery computes from a log,    *)
(* for every log and every buffer: the lines that can be read afterwards   *)
(* are lines that could be read before or records of the buffer, in that   *)
(* order; recovery keeps the types and puts the clock beyond every record. *)
(*                                                                         *)
(* First come facts about natural numbers and recursion that all the       *)
(* proofs rest on.  They are stated for sets and functions, so that the    *)
(* recursive functions of the modules, which are functions over 0..n, can  *)
(* be reasoned about.                                                      *)
(***************************************************************************)
EXTENDS Recovery, FiniteSetsExt, SequenceTheorems, WellFoundedInduction, TLAPS

\* Induction on the natural numbers, as the closure of a set under successor.
LEMMA NatSetInduction ==
    ASSUME NEW T, 0 \in T, \A n \in Nat : n \in T => n + 1 \in T
    PROVE  Nat \subseteq T
<1> DEFINE R == OpToRel(<, Nat)
<1>1. IsWellFoundedOn(R, Nat)
  BY NatLessThanWellFounded
<1>2. SUFFICES ASSUME Nat \ T # {} PROVE FALSE
  OBVIOUS
<1> HIDE DEF R
<1>3. PICK m \in Nat \ T : \A y \in Nat \ T : ~(<<y, m>> \in R)
  BY <1>1, <1>2, WFMin
<1>4. m - 1 \in Nat /\ m - 1 < m
  BY <1>3
<1>5. <<m - 1, m>> \in R
  BY <1>3, <1>4 DEF R, OpToRel
<1>6. m - 1 \in T
  BY <1>3, <1>4, <1>5
<1> QED BY <1>3, <1>4, <1>6

\* A set of naturals that is not empty and has a bound has a maximum.
LEMMA MaxOfBounded ==
    ASSUME NEW K \in SUBSET Nat, K # {}, NEW b \in Nat, \A k \in K : k <= b
    PROVE  Max(K) \in K /\ \A k \in K : k <= Max(K)
<1> DEFINE Bounds == {c \in Nat : \A k \in K : k <= c}
           T == {n \in Nat : n \in Bounds => \E m \in K : \A k \in K : m >= k}
<1>1. 0 \in T
  <2>1. PICK m \in K : TRUE
    OBVIOUS
  <2>2. ASSUME \A k \in K : k <= 0 PROVE \A k \in K : m >= k
    BY <2>2
  <2> QED BY <2>2
<1>2. ASSUME NEW n \in Nat, n \in T PROVE n + 1 \in T
  <2>1. CASE n + 1 \in K
    BY <2>1
  <2>2. CASE n + 1 \notin K
    <3>1. n + 1 \in Bounds => n \in Bounds
      BY <2>2
    <3> QED BY <3>1, <1>2
  <2> QED BY <2>1, <2>2
<1>3. Nat \subseteq T
  <2> HIDE DEF T
  <2> QED BY <1>1, <1>2, NatSetInduction
<1>4. \E m \in K : \A k \in K : m >= k
  BY <1>3
<1>5. Max(K) \in K /\ \A k \in K : Max(K) >= k
  BY <1>4 DEF Max
<1> QED BY <1>5

\* The naturals that a function takes on 1..n are bounded.
LEMMA ImageBounded ==
    ASSUME NEW n \in Nat, NEW f \in [1..n -> Nat]
    PROVE  \E b \in Nat : \A i \in 1..n : f[i] <= b
<1> DEFINE T == {m \in Nat : m <= n => \E b \in Nat : \A i \in 1..m : f[i] <= b}
<1>1. 0 \in T
  OBVIOUS
<1>2. ASSUME NEW m \in Nat, m \in T PROVE m + 1 \in T
  <2>1. SUFFICES ASSUME m + 1 <= n
                 PROVE  \E b \in Nat : \A i \in 1..m+1 : f[i] <= b
    OBVIOUS
  <2>2. PICK b \in Nat : \A i \in 1..m : f[i] <= b
    BY <1>2, <2>1
  <2>3. f[m + 1] \in Nat
    BY <2>1
  <2>4. b + f[m + 1] \in Nat /\ \A i \in 1..m+1 : f[i] <= b + f[m + 1]
    <3>1. ASSUME NEW i \in 1..m+1 PROVE f[i] <= b + f[m + 1]
      <4>1. CASE i = m + 1
        BY <4>1, <2>3
      <4>2. CASE i \in 1..m
        <5>1. f[i] \in Nat /\ f[i] <= b
          BY <4>2, <2>1, <2>2
        <5> QED BY <5>1, <2>3
      <4> QED BY <4>1, <4>2
    <3> QED BY <3>1, <2>3
  <2> QED BY <2>4
<1>3. Nat \subseteq T
  <2> HIDE DEF T
  <2> QED BY <1>1, <1>2, NatSetInduction
<1>4. n \in T
  BY <1>3
<1> QED BY <1>4

\* g starts at a and follows the steps, one function for each k \in 1..n.
Follows(g, n, S, a, step) ==
    /\ g \in [0..n -> S]
    /\ g[0] = a
    /\ \A k \in 1..n : g[k] = step[k][g[k - 1]]

\* A function on 0..n can be defined by its value at 0 and its steps.
LEMMA RecursionExists ==
    ASSUME NEW n \in Nat, NEW S, NEW a \in S, NEW step \in [1..n -> [S -> S]]
    PROVE  \E g : Follows(g, n, S, a, step)
<1> USE DEF Follows
<1> DEFINE Good(m, g) == Follows(g, m, S, a, step)
           T == {m \in Nat : m <= n => \E g : Good(m, g)}
<1>1. 0 \in T
  <2>1. Good(0, [k \in 0..0 |-> a])
    OBVIOUS
  <2> QED BY <2>1
<1>2. ASSUME NEW m \in Nat, m \in T PROVE m + 1 \in T
  <2>1. SUFFICES ASSUME m + 1 <= n PROVE \E g : Good(m + 1, g)
    OBVIOUS
  <2>2. PICK g : Good(m, g)
    BY <1>2, <2>1
  <2> DEFINE h == [k \in 0..m+1 |-> IF k <= m THEN g[k] ELSE step[m + 1][g[m]]]
  <2>3. step[m + 1] \in [S -> S] /\ g[m] \in S
    BY <2>1, <2>2
  <2>4. h \in [0..m+1 -> S]
    <3>1. ASSUME NEW k \in 0..m+1 PROVE h[k] \in S
      <4>1. CASE k <= m
        BY <4>1, <2>2
      <4>2. CASE ~(k <= m)
        BY <4>2, <2>3
      <4> QED BY <4>1, <4>2
    <3> QED BY <3>1
  <2>5. h[0] = a
    BY <2>2
  <2>6. ASSUME NEW k \in 1..m+1 PROVE h[k] = step[k][h[k - 1]]
    <3>1. CASE k \in 1..m
      BY <3>1, <2>2
    <3>2. CASE k = m + 1
      BY <3>2
    <3> QED BY <3>1, <3>2
  <2>7. Good(m + 1, h)
    BY <2>4, <2>5, <2>6
  <2> QED BY <2>7
<1>3. Nat \subseteq T
  <2> HIDE DEF T
  <2> QED BY <1>1, <1>2, NatSetInduction
<1>4. n \in T
  BY <1>3
<1> QED BY <1>4
-----------------------------------------------------------------------------
\* The fields of a line by its kind.
LEMMA LineFields ==
    ASSUME NEW l \in LogLines
    PROVE  /\ l.type \in {"begin", "insert", "commit", "rollback"}
                => l \in RedoRecords /\ l.tx_id \in TxIds /\ l.scn \in Nat
           /\ l.type = "insert" => l.table \in Tables /\ l.val \in Values
           /\ l \in {Garbage, BadUtf8}
                \/ l.type \in {"begin", "insert", "commit", "rollback"}
BY DEF LogLines, RedoRecords, StatusRecords, InsertRecords, Garbage, BadUtf8

LEMMA ParsedFields ==
    ASSUME NEW log \in Seq(LogLines), NEW i \in Parsed(log)
    PROVE  /\ i \in 1..Len(log)
           /\ log[i] \in RedoRecords
           /\ log[i].tx_id \in TxIds /\ log[i].scn \in Nat
           /\ log[i].type \in {"begin", "insert", "commit", "rollback"}
<1>1. i \in 1..Len(log) /\ log[i] \in LogLines
  BY DEF Parsed
<1>2. log[i] \notin {Garbage, BadUtf8}
  BY DEF Parsed
<1> QED BY <1>1, <1>2, LineFields

\* The records of one or more kinds are among those that parse.
LEMMA OfKindParsed ==
    ASSUME NEW log \in Seq(LogLines),
           NEW kinds \in SUBSET {"begin", "insert", "commit", "rollback"}
    PROVE  OfKind(log, kinds) \subseteq Parsed(log)
<1>1. Garbage.type \notin kinds /\ BadUtf8.type \notin kinds
  BY DEF Garbage, BadUtf8
<1> QED BY <1>1 DEF OfKind, Parsed

\* The readable lines of log `new` are readable in `old`, in the same order.
Embedding(e, new, old) ==
    /\ e \in [Parsed(new) -> Parsed(old)]
    /\ \A i \in Parsed(new) : new[i] = old[e[i]]
    /\ \A i, j \in Parsed(new) : i < j => e[i] < e[j]

Embeds(new, old) == \E e : Embedding(e, new, old)

LEMMA SerialiseType ==
    ASSUME NEW rec \in RedoRecords
    PROVE  Serialise(rec) \in LogLines /\ Serialise(rec) \in {rec, Garbage}
BY DEF Serialise, LogLines

\* Appending lines, to a terminated or to an unterminated last line.
LEMMA AppendedType ==
    ASSUME NEW log \in Seq(LogLines), NEW terminated \in BOOLEAN,
           NEW lines \in Seq(LogLines), ~terminated => log # <<>>
    PROVE  Appended(log, terminated, lines) \in Seq(LogLines)
<1>1. CASE terminated \/ lines = <<>>
  BY <1>1 DEF Appended
<1>2. CASE ~(terminated \/ lines = <<>>)
  <2>1. Appended(log, terminated, lines)
          = Front(log) \o <<Joined(Last(log), Head(lines))>> \o Tail(lines)
    BY <1>2 DEF Appended
  <2>2. Joined(Last(log), Head(lines)) \in LogLines
    BY DEF Joined, LogLines
  <2>3. Front(log) \in Seq(LogLines) /\ Tail(lines) \in Seq(LogLines)
    BY <1>2 DEF Front
  <2>4. <<Joined(Last(log), Head(lines))>> \in Seq(LogLines)
    BY <2>2
  <2>5. Front(log) \o <<Joined(Last(log), Head(lines))>> \in Seq(LogLines)
    BY <2>3, <2>4, ConcatProperties
  <2>6. (Front(log) \o <<Joined(Last(log), Head(lines))>>) \o Tail(lines) \in Seq(LogLines)
    BY <2>3, <2>5, ConcatProperties
  <2> QED BY <2>1, <2>6
<1> QED BY <1>1, <1>2

\* Lines written behind an unterminated one: the first of them becomes part of
\* it, and what the two make together cannot be read.
LEMMA AppendedJoins ==
    ASSUME NEW log \in Seq(LogLines), NEW lines \in Seq(LogLines),
           NEW terminated \in BOOLEAN, ~terminated, log # <<>>, lines # <<>>
    PROVE  LET new == Appended(log, terminated, lines)
               joined == Joined(Last(log), Head(lines))
           IN  /\ Len(log) >= 1 /\ Len(lines) >= 1 /\ joined \in {Garbage, BadUtf8}
               /\ new \in Seq(LogLines)
               /\ Len(new) = Len(log) + Len(lines) - 1
               /\ \A i \in 1..Len(log) + Len(lines) - 1 : new[i]
                     = IF i <= Len(log) - 1 THEN log[i]
                       ELSE IF i = Len(log) THEN joined ELSE lines[i - Len(log) + 1]
<1> DEFINE new == Appended(log, terminated, lines)
           joint == <<Joined(Last(log), Head(lines))>>
<1>1. Len(log) \in Nat /\ Len(lines) \in Nat
  OBVIOUS
<1>2. Len(log) >= 1 /\ Len(lines) >= 1
  BY <1>1, EmptySeq
<1>3. /\ Front(log) \in Seq(LogLines)
      /\ Len(Front(log)) = Len(log) - 1
      /\ \A i \in 1..Len(log) - 1 : Front(log)[i] = log[i]
  <2> DEFINE m == Len(log) - 1
  <2>1. m \in Nat /\ m - 1 + 1 = m /\ (1 <= m \/ m = 0)
    <3>1. Len(log) \in Nat /\ Len(log) >= 1
      BY <1>2, <1>1
    <3> DEFINE len == Len(log)
    <3>2. len \in Nat /\ len >= 1 => len - 1 \in Nat /\ len - 1 - 1 + 1 = len - 1
                                      /\ (1 <= len - 1 \/ len - 1 = 0)
      <4> HIDE DEF len
      <4> QED OBVIOUS
    <3> QED BY <3>1, <3>2
  <2>2. \A i \in 1..m : log[i] \in LogLines /\ 1 + i - 1 = i
    BY <1>1
  <2>3. /\ SubSeq(log, 1, m) \in Seq(LogLines)
        /\ Len(SubSeq(log, 1, m)) = IF 1 <= m THEN m - 1 + 1 ELSE 0
        /\ \A i \in 1..m - 1 + 1 : SubSeq(log, 1, m)[i] = log[1 + i - 1]
    <3> HIDE DEF m
    <3> QED BY <2>1, <2>2, SubSeqProperties
  <2>4. Front(log) = SubSeq(log, 1, m)
    BY DEF Front
  <2>5. /\ Front(log) \in Seq(LogLines)
        /\ Len(Front(log)) = m
        /\ \A i \in 1..m : Front(log)[i] = log[i]
    <3> HIDE DEF m
    <3> QED BY <2>1, <2>2, <2>3, <2>4
  <2> QED BY <2>5
<1>4. /\ Tail(lines) \in Seq(LogLines)
      /\ Len(Tail(lines)) = Len(lines) - 1
      /\ \A i \in 1..Len(lines) - 1 : Tail(lines)[i] = lines[i + 1]
  BY <1>1, HeadTailProperties
<1>5. joint \in Seq(LogLines) /\ Len(joint) = 1 /\ joint[1] \in {Garbage, BadUtf8}
  BY DEF Joined, LogLines
<1>6. /\ Front(log) \o joint \in Seq(LogLines)
      /\ Len(Front(log) \o joint) = Len(log)
      /\ \A i \in 1..Len(log) : (Front(log) \o joint)[i]
            = IF i <= Len(log) - 1 THEN log[i] ELSE joint[1]
  <2> HIDE DEF joint
  <2>1. /\ Front(log) \o joint \in Seq(LogLines)
        /\ Len(Front(log) \o joint) = Len(Front(log)) + Len(joint)
        /\ \A i \in 1..Len(Front(log)) + Len(joint) : (Front(log) \o joint)[i]
              = IF i <= Len(Front(log)) THEN Front(log)[i] ELSE joint[i - Len(Front(log))]
    BY <1>3, <1>5, ConcatProperties
  <2> QED BY <2>1, <1>3, <1>5, <1>2, <1>1
<1>7. /\ new \in Seq(LogLines)
      /\ Len(new) = Len(log) + Len(lines) - 1
      /\ \A i \in 1..Len(log) + Len(lines) - 1 : new[i]
            = IF i <= Len(log) - 1 THEN log[i]
              ELSE IF i = Len(log) THEN joint[1] ELSE lines[i - Len(log) + 1]
  <2> DEFINE head == Front(log) \o joint
             rest == Tail(lines)
  <2>1. new = head \o rest
    BY DEF Appended
  <2>2. /\ head \in Seq(LogLines)
        /\ Len(head) = Len(log)
        /\ \A i \in 1..Len(log) : head[i] = IF i <= Len(log) - 1 THEN log[i] ELSE joint[1]
    BY <1>6
  <2>3. /\ rest \in Seq(LogLines)
        /\ Len(rest) = Len(lines) - 1
        /\ \A i \in 1..Len(lines) - 1 : rest[i] = lines[i + 1]
    BY <1>4
  <2> HIDE DEF head, rest, joint, new
  <2>4. /\ head \o rest \in Seq(LogLines)
        /\ Len(head \o rest) = Len(head) + Len(rest)
        /\ \A i \in 1..Len(head) + Len(rest) : (head \o rest)[i]
              = IF i <= Len(head) THEN head[i] ELSE rest[i - Len(head)]
    <3>1. head \in Seq(LogLines) /\ rest \in Seq(LogLines)
      BY <2>2, <2>3
    <3> QED BY <3>1, ConcatProperties
  <2>5. new \in Seq(LogLines) /\ Len(new) = Len(log) + Len(lines) - 1
    BY <2>1, <2>2, <2>3, <2>4, <1>2, <1>1
  <2>6. ASSUME NEW i \in 1..Len(log) + Len(lines) - 1
        PROVE  new[i] = IF i <= Len(log) - 1 THEN log[i]
                        ELSE IF i = Len(log) THEN joint[1] ELSE lines[i - Len(log) + 1]
    <3>1. new[i] = IF i <= Len(log) THEN head[i] ELSE rest[i - Len(log)]
      BY <2>1, <2>2, <2>3, <2>4, <1>2, <1>1
    <3>2. CASE i <= Len(log)
      BY <3>1, <3>2, <2>2, <1>1
    <3>3. CASE ~(i <= Len(log))
      <4>1. i - Len(log) \in 1..Len(lines) - 1
        BY <3>3, <1>2, <1>1
      <4>2. rest[i - Len(log)] = lines[(i - Len(log)) + 1]
        BY <4>1, <2>3
      <4>3. ~(i <= Len(log) - 1) /\ i # Len(log) /\ (i - Len(log)) + 1 = i - Len(log) + 1
        BY <3>3, <1>1
      <4> QED BY <3>1, <3>3, <4>2, <4>3
    <3> QED BY <3>2, <3>3
  <2> QED BY <2>5, <2>6
<1>8. joint[1] = Joined(Last(log), Head(lines))
  OBVIOUS
<1> HIDE DEF joint, new
<1> QED BY <1>2, <1>5, <1>7, <1>8 DEF new

\* One line written behind a log.
LEMMA AppendedLine ==
    ASSUME NEW log \in Seq(LogLines), NEW terminated \in BOOLEAN, NEW l \in LogLines,
           ~terminated => log # <<>>
    PROVE  LET new == Appended(log, terminated, <<l>>)
           IN  /\ new \in Seq(LogLines)
               /\ terminated => /\ Len(new) = Len(log) + 1 /\ new[Len(log) + 1] = l
                                /\ \A i \in 1..Len(log) : new[i] = log[i]
               /\ ~terminated => /\ Len(log) >= 1 /\ Len(new) = Len(log)
                                 /\ new[Len(log)] = Joined(Last(log), l)
                                 /\ \A i \in 1..Len(log) - 1 : new[i] = log[i]
<1> DEFINE lines == <<l>>
           new == Appended(log, terminated, lines)
<1>1. /\ lines \in Seq(LogLines) /\ Len(lines) = 1 /\ lines[1] = l /\ lines # <<>>
      /\ Head(lines) = l
  OBVIOUS
<1>2. Len(log) \in Nat
  OBVIOUS
<1> HIDE DEF lines
<1>3. CASE terminated
  <2>1. new = log \o lines
    BY <1>3 DEF Appended
  <2>2. /\ log \o lines \in Seq(LogLines)
        /\ Len(log \o lines) = Len(log) + Len(lines)
        /\ \A i \in 1..Len(log) + Len(lines) :
              (log \o lines)[i] = IF i <= Len(log) THEN log[i] ELSE lines[i - Len(log)]
    BY <1>1, ConcatProperties
  <2> HIDE DEF new
  <2>3. Len(log) + 1 \in 1..Len(log) + 1 /\ ~(Len(log) + 1 <= Len(log))
        /\ Len(log) + 1 - Len(log) = 1
    BY <1>2
  <2>4. new \in Seq(LogLines) /\ Len(new) = Len(log) + 1 /\ new[Len(log) + 1] = l
    BY <1>1, <2>1, <2>2, <2>3
  <2>5. \A i \in 1..Len(log) : new[i] = log[i]
    BY <1>1, <1>2, <2>1, <2>2
  <2> QED BY <1>3, <2>4, <2>5 DEF new, lines
<1>4. CASE ~terminated
  <2>1. /\ Len(log) >= 1 /\ new \in Seq(LogLines)
        /\ Len(new) = Len(log) + Len(lines) - 1
        /\ \A i \in 1..Len(log) + Len(lines) - 1 : new[i]
              = IF i <= Len(log) - 1 THEN log[i]
                ELSE IF i = Len(log) THEN Joined(Last(log), Head(lines))
                     ELSE lines[i - Len(log) + 1]
    BY <1>1, <1>4, AppendedJoins
  <2> HIDE DEF new
  <2> QED BY <1>1, <1>2, <1>4, <2>1 DEF new, lines
<1> QED BY <1>3, <1>4

Unreadable == {Garbage, BadUtf8}
Outcomes == {"whole"} \cup Tails

\* A file: a last line that is not terminated is a line.
Files == {f \in [lines : Seq(LogLines), eol : BOOLEAN] : ~f.eol => f.lines # <<>>}

\* What a write puts behind the file, by what it came to.
LEMMA PutLine ==
    ASSUME NEW rec \in RedoRecords, NEW outcome \in Outcomes
    PROVE  \/ outcome = "line" /\ Put(rec, outcome) = <<>>
           \/ /\ outcome # "line"
              /\ \E l \in LogLines :
                    /\ Put(rec, outcome) = <<l>>
                    /\ l \in {rec} \cup Unreadable
                    /\ l = BadUtf8 => outcome = "torn8"
                    /\ outcome \in {"torn", "torn8"} => l \in Unreadable
<1>1. CASE outcome = "line"
  BY <1>1 DEF Put
<1>2. CASE outcome \in {"whole", "noeol"}
  <2>1. Put(rec, outcome) = <<Serialise(rec)>>
    BY <1>2 DEF Put
  <2>2. Serialise(rec) \in LogLines /\ Serialise(rec) \in {rec, Garbage}
    BY SerialiseType
  <2>3. rec.type \in {"begin", "insert", "commit", "rollback"}
    BY DEF RedoRecords, StatusRecords, InsertRecords
  <2>4. Serialise(rec) # BadUtf8
    BY <2>2, <2>3 DEF Garbage, BadUtf8
  <2> QED BY <1>2, <2>1, <2>2, <2>4 DEF Unreadable
<1>3. CASE outcome = "torn"
  BY <1>3 DEF Put, LogLines, Unreadable, Garbage, BadUtf8
<1>4. CASE outcome = "torn8"
  BY <1>4 DEF Put, LogLines, Unreadable
<1> QED BY <1>1, <1>2, <1>3, <1>4 DEF Outcomes, Tails

(***************************************************************************)
(* What one write does to a file: whatever its outcome, the lines that can *)
(* be read are those before, at their places, and the record last; no      *)
(* other outcome than a cut inside a character makes it unreadable; none   *)
(* but a missing newline lets a later write damage a record.               *)
(***************************************************************************)
\* The readable lines of new are those of log, at their places, and rec last.
LinesOf(new, log, rec) ==
    \A i \in Parsed(new) :
        /\ i \in 1..Len(log) + 1
        /\ i <= Len(log) => i \in Parsed(log) /\ new[i] = log[i]
        /\ i = Len(log) + 1 => new[i] = rec

\* The records that can be read in log stay at their places in new.
LinesStay(log, new) == \A i \in Parsed(log) : i \in DOMAIN new /\ new[i] = log[i]

\* A line that is not terminated is one that cannot be read.
Sound(f) == ~f.eol => Last(f.lines) \in Unreadable

LEMMA WrittenEffect ==
    ASSUME NEW f \in Files, NEW rec \in RedoRecords, NEW outcome \in Outcomes
    PROVE  LET new == Written(f, rec, outcome)
           IN  /\ new \in Files
               /\ LinesOf(new.lines, f.lines, rec)
               /\ Readable(f.lines) /\ outcome # "torn8" => Readable(new.lines)
               /\ Sound(f) /\ outcome # "noeol" => LinesStay(f.lines, new.lines) /\ Sound(new)
<1> DEFINE log == f.lines
           n == Len(log)
           lines == Appended(log, f.eol, Put(rec, outcome))
           ended == IF outcome = "line" THEN f.eol ELSE outcome = "whole"
<1>1. log \in Seq(LogLines) /\ f.eol \in BOOLEAN /\ (~f.eol => log # <<>>) /\ n \in Nat
      /\ DOMAIN log = 1..n
  BY DEF Files
<1>2. Written(f, rec, outcome) = [lines |-> lines, eol |-> ended]
  BY DEF Written
<1>3. CASE outcome = "line" /\ Put(rec, outcome) = <<>>
  <2>1. lines = log
    BY <1>1, <1>3, ConcatEmptySeq DEF Appended
  <2>2. ended = f.eol
    BY <1>3
  <2> HIDE DEF lines, ended
  <2>3. Written(f, rec, outcome).lines = log /\ Written(f, rec, outcome).eol = f.eol
        /\ Written(f, rec, outcome) \in Files
    BY <1>1, <1>2, <2>1, <2>2 DEF Files
  <2>4. LinesOf(log, log, rec) /\ LinesStay(log, log)
    BY <1>1 DEF Parsed, LinesOf, LinesStay
  <2> QED BY <2>3, <2>4 DEF Sound
<1>4. ASSUME NEW l \in LogLines, Put(rec, outcome) = <<l>>, outcome # "line",
             l \in {rec} \cup Unreadable, l = BadUtf8 => outcome = "torn8",
             outcome \in {"torn", "torn8"} => l \in Unreadable
      PROVE  /\ lines \in Seq(LogLines) /\ (~ended => lines # <<>>)
             /\ LinesOf(lines, log, rec)
             /\ Readable(log) /\ outcome # "torn8" => Readable(lines)
             /\ (~f.eol => Last(log) \in Unreadable) /\ outcome # "noeol"
                   => LinesStay(log, lines) /\ (~ended => Last(lines) \in Unreadable)
  <2>1. lines = Appended(log, f.eol, <<l>>)
    BY <1>4
  <2> HIDE DEF lines
  <2>2. lines \in Seq(LogLines) /\ Last(lines) = lines[Len(lines)] /\ Last(log) = log[n]
        /\ Len(lines) \in Nat /\ DOMAIN lines = 1..Len(lines)
    BY <1>1, <2>1, AppendedLine DEF Last
  <2>3. Parsed(log) = {i \in 1..n : log[i] \notin Unreadable}
        /\ Parsed(lines) = {i \in 1..Len(lines) : lines[i] \notin Unreadable}
    BY <1>1, <2>2 DEF Parsed, Unreadable
  <2>4. ~ended /\ outcome # "noeol" => l \in Unreadable
    BY <1>4 DEF Outcomes, Tails
  <2> HIDE DEF ended, n
  <2>5. CASE f.eol
    <3>1. /\ Len(lines) = n + 1 /\ lines[n + 1] = l
          /\ \A i \in 1..n : lines[i] = log[i]
      BY <1>1, <2>1, <2>5, AppendedLine DEF n
    <3>2. \A i \in 1..n + 1 : i \in 1..n \/ i = n + 1
      BY <1>1
    <3>3. lines # <<>>
      BY <1>1, <3>1, EmptySeq
    <3>4. LinesOf(lines, log, rec)
      BY <1>1, <1>4, <2>3, <3>1, <3>2 DEF LinesOf, n
    <3>5. Readable(log) /\ outcome # "torn8" => Readable(lines)
      BY <1>1, <1>4, <2>2, <3>1, <3>2 DEF Readable
    <3>6. LinesStay(log, lines)
      BY <1>1, <2>2, <2>3, <3>1 DEF LinesStay
    <3> QED BY <2>2, <2>4, <3>1, <3>3, <3>4, <3>5, <3>6
  <2>6. CASE ~f.eol
    <3>1. /\ n >= 1 /\ Len(lines) = n /\ lines[n] = Joined(Last(log), l)
          /\ \A i \in 1..n - 1 : lines[i] = log[i]
      BY <1>1, <2>1, <2>2, <2>6, AppendedLine DEF n
    <3>2. \A i \in 1..n : i \in 1..n - 1 \/ i = n
      BY <1>1
    <3>3. lines[n] \in Unreadable
          /\ (log[n] # BadUtf8 /\ l # BadUtf8 => lines[n] # BadUtf8)
      BY <2>2, <3>1 DEF Joined, Unreadable, Garbage, BadUtf8
    <3>4. lines # <<>>
      BY <1>1, <3>1, EmptySeq
    <3>5. n \notin Parsed(lines)
      BY <2>3, <3>1, <3>3
    <3>6. LinesOf(lines, log, rec)
      BY <1>1, <2>3, <3>1, <3>2, <3>5 DEF LinesOf, n
    <3>7. Readable(log) /\ outcome # "torn8" => Readable(lines)
      BY <1>1, <1>4, <2>2, <3>1, <3>2, <3>3 DEF Readable
    <3>8. log[n] \in Unreadable => LinesStay(log, lines)
      BY <1>1, <2>2, <2>3, <3>1, <3>2 DEF LinesStay
    <3> QED BY <2>2, <2>6, <3>1, <3>3, <3>4, <3>6, <3>7, <3>8
  <2> QED BY <1>1, <2>5, <2>6
<1>5. ASSUME outcome # "line", lines \in Seq(LogLines), ~ended => lines # <<>>
      PROVE  /\ Written(f, rec, outcome) \in Files
             /\ Written(f, rec, outcome).lines = lines
             /\ Written(f, rec, outcome).eol = ended
  <2>1. ended \in BOOLEAN
    BY <1>5
  <2> HIDE DEF lines, ended
  <2> QED BY <1>2, <1>5, <2>1 DEF Files
<1> HIDE DEF lines, ended
<1>6. CASE outcome # "line" /\ \E l \in LogLines :
                    /\ Put(rec, outcome) = <<l>>
                    /\ l \in {rec} \cup Unreadable
                    /\ l = BadUtf8 => outcome = "torn8"
                    /\ outcome \in {"torn", "torn8"} => l \in Unreadable
  BY <1>4, <1>5, <1>6 DEF Sound
<1> QED BY <1>3, <1>6, PutLine

\* The file after each of the writes.
Run(file, buffer, outcomes) ==
    /\ file \in [0..Len(outcomes) -> Files]
    /\ file[0] = [lines |-> redo_log, eol |-> eol]
    /\ \A k \in 1..Len(outcomes) :
          file[k] = Written(file[k - 1], buffer[k], outcomes[k])

LEMMA WriteRun ==
    ASSUME redo_log \in Seq(LogLines), eol \in BOOLEAN, ~eol => redo_log # <<>>,
           NEW buffer \in Seq(RedoRecords), NEW outcomes \in Seq(Outcomes),
           Len(outcomes) <= Len(buffer), WriteRecords(buffer, outcomes)
    PROVE  \E file : /\ Run(file, buffer, outcomes)
                     /\ redo_log' = file[Len(outcomes)].lines
                     /\ eol' = file[Len(outcomes)].eol
<1> DEFINE n == Len(outcomes)
           a == [lines |-> redo_log, eol |-> eol]
           step == [k \in 1..n |-> [f \in Files |-> Written(f, buffer[k], outcomes[k])]]
           body(f) == [k \in 0..n |-> IF k = 0 THEN a
                                      ELSE Written(f[k - 1], buffer[k], outcomes[k])]
           file == CHOOSE f : f = body(f)
<1>1. n \in Nat /\ a \in Files
  BY DEF Files
<1>2. \A k \in 1..n : buffer[k] \in RedoRecords /\ outcomes[k] \in Outcomes
  OBVIOUS
<1>3. step \in [1..n -> [Files -> Files]]
  <2>1. \A k \in 1..n : \A f \in Files : Written(f, buffer[k], outcomes[k]) \in Files
    BY <1>2, WrittenEffect
  <2> QED BY <2>1
<1>4. redo_log' = file[n].lines /\ eol' = file[n].eol
  BY DEF WriteRecords
<1> HIDE DEF a, n
<1>5. PICK g : Follows(g, n, Files, a, step)
  <2> HIDE DEF step
  <2> QED BY <1>1, <1>3, RecursionExists
<1>6. g = body(g)
  <2>1. g \in [0..n -> Files] /\ g[0] = a /\ \A k \in 1..n : g[k] = step[k][g[k - 1]]
    BY <1>5 DEF Follows
  <2>2. \A k \in 1..n : g[k - 1] \in Files
    BY <1>1, <2>1
  <2>3. \A k \in 1..n : g[k] = Written(g[k - 1], buffer[k], outcomes[k])
    BY <2>1, <2>2
  <2>4. \A k \in 0..n : g[k] = IF k = 0 THEN a ELSE Written(g[k - 1], buffer[k], outcomes[k])
    BY <1>1, <2>1, <2>3
  <2>5. \A k \in 0..n : g[k] = body(g)[k]
    BY <2>4
  <2> QED BY <2>1, <2>5
<1>7. file = body(file)
  <2> HIDE DEF body
  <2> QED BY <1>6
<1> HIDE DEF file
<1>8. /\ file[0] = a
      /\ \A k \in 1..n : file[k] = Written(file[k - 1], buffer[k], outcomes[k])
  BY <1>1, <1>7
<1>9. \A k \in 0..n : file[k] \in Files
  <2> DEFINE T == {m \in Nat : m <= n => file[m] \in Files}
  <2>1. 0 \in T
    BY <1>1, <1>8
  <2>2. ASSUME NEW m \in Nat, m \in T PROVE m + 1 \in T
    <3> SUFFICES ASSUME m + 1 <= n PROVE file[m + 1] \in Files
      OBVIOUS
    <3>1. m + 1 \in 1..n /\ m + 1 - 1 = m /\ file[m] \in Files
      BY <1>1, <2>2
    <3>2. file[m + 1] = Written(file[m], buffer[m + 1], outcomes[m + 1])
      BY <1>8, <3>1
    <3> QED BY <1>2, <3>1, <3>2, WrittenEffect
  <2>3. Nat \subseteq T
    <3> HIDE DEF T
    <3> QED BY <2>1, <2>2, NatSetInduction
  <2> QED BY <1>1, <2>3
<1>10. file \in [0..n -> Files]
  BY <1>7, <1>9
<1> QED BY <1>4, <1>8, <1>10 DEF Run, a, n

\* The steps of a run lead from one file to the next.
LEMMA RunStep ==
    ASSUME NEW file, NEW buffer \in Seq(RedoRecords), NEW outcomes \in Seq(Outcomes),
           Len(outcomes) <= Len(buffer), Run(file, buffer, outcomes),
           NEW m \in Nat, m + 1 <= Len(outcomes)
    PROVE  /\ file[m] \in Files /\ m <= Len(outcomes) /\ m + 1 \in 1..Len(buffer)
           /\ buffer[m + 1] \in RedoRecords /\ outcomes[m + 1] \in Outcomes
           /\ m + 1 \in 1..Len(outcomes)
           /\ file[m + 1] = Written(file[m], buffer[m + 1], outcomes[m + 1])
<1>1. m + 1 \in 1..Len(outcomes) /\ m + 1 - 1 = m /\ m \in 0..Len(outcomes)
      /\ Len(buffer) \in Nat
  OBVIOUS
<1>2. m + 1 \in 1..Len(buffer)
  BY <1>1
<1> QED BY <1>1, <1>2 DEF Run

(***************************************************************************)
(* Every flush, by induction over the records it writes: whatever becomes  *)
(* of each write, and whatever the loop goes on to write behind it.        *)
(***************************************************************************)
LEMMA WriteEffect ==
    ASSUME redo_log \in Seq(LogLines), eol \in BOOLEAN, ~eol => redo_log # <<>>,
           NEW buffer \in Seq(RedoRecords), NEW outcomes \in Seq(Outcomes),
           Len(outcomes) <= Len(buffer), WriteRecords(buffer, outcomes)
    PROVE  /\ redo_log' \in Seq(LogLines) /\ eol' \in BOOLEAN
           /\ ~eol' => redo_log' # <<>>
           /\ Embeds(redo_log', redo_log \o buffer)
<1> DEFINE old == redo_log \o buffer
           Good(f, m) == \E e : /\ Embedding(e, f.lines, old)
                                /\ \A i \in Parsed(f.lines) : e[i] <= Len(redo_log) + m
           n == Len(outcomes)
<1>1. PICK file : /\ Run(file, buffer, outcomes)
                  /\ redo_log' = file[n].lines /\ eol' = file[n].eol
  BY WriteRun
<1>2. n \in Nat /\ Len(redo_log) \in Nat /\ Len(buffer) \in Nat /\ file[n] \in Files
  BY <1>1 DEF Run
<1>3. /\ old \in Seq(LogLines)
      /\ Len(old) = Len(redo_log) + Len(buffer)
      /\ \A i \in 1..Len(redo_log) + Len(buffer) :
            old[i] = IF i <= Len(redo_log) THEN redo_log[i] ELSE buffer[i - Len(redo_log)]
  <2>1. buffer \in Seq(LogLines)
    BY SeqMonotonic DEF LogLines
  <2> QED BY <1>2, <2>1, ConcatProperties
<1> HIDE DEF old
<1> DEFINE T == {m \in Nat : m <= n => Good(file[m], m)}
<1>4. 0 \in T
  <2> DEFINE e == [i \in Parsed(redo_log) |-> i]
  <2>1. file[0].lines = redo_log
    BY <1>1 DEF Run
  <2>2. \A i \in Parsed(redo_log) : i \in 1..Len(redo_log) /\ redo_log[i] \notin Unreadable
    BY DEF Parsed, Unreadable
  <2>3. \A i \in Parsed(redo_log) : old[i] = redo_log[i] /\ i \in Parsed(old)
    BY <1>2, <1>3, <2>2 DEF Parsed, Unreadable
  <2>4. Embedding(e, redo_log, old) /\ \A i \in Parsed(redo_log) : e[i] <= Len(redo_log) + 0
    BY <1>2, <2>2, <2>3 DEF Embedding
  <2> HIDE DEF e
  <2> QED BY <2>1, <2>4
<1>5. ASSUME NEW m \in Nat, m \in T PROVE m + 1 \in T
  <2> SUFFICES ASSUME m + 1 <= n PROVE Good(file[m + 1], m + 1)
    OBVIOUS
  <2> DEFINE f == file[m]
             new == file[m + 1]
             len == Len(f.lines)
             last == Len(redo_log) + m + 1
  <2>1. /\ f \in Files /\ m + 1 \in 1..Len(buffer) /\ m <= n
        /\ buffer[m + 1] \in RedoRecords /\ outcomes[m + 1] \in Outcomes
        /\ new = Written(f, buffer[m + 1], outcomes[m + 1])
    BY <1>1, RunStep
  <2>2. \A i \in Parsed(new.lines) :
           /\ i \in 1..len + 1
           /\ i <= len => i \in Parsed(f.lines) /\ new.lines[i] = f.lines[i]
           /\ i = len + 1 => new.lines[i] = buffer[m + 1]
    <3>1. LinesOf(new.lines, f.lines, buffer[m + 1])
      BY <2>1, WrittenEffect
    <3> QED BY <3>1 DEF LinesOf
  <2>3. PICK e : /\ Embedding(e, f.lines, old)
                 /\ \A i \in Parsed(f.lines) : e[i] <= Len(redo_log) + m
    BY <1>5, <2>1
  <2>4. old[last] = buffer[m + 1] /\ last \in Parsed(old)
    <3>1. last \in 1..Len(redo_log) + Len(buffer) /\ ~(last <= Len(redo_log))
          /\ last - Len(redo_log) = m + 1
      BY <1>2, <2>1
    <3>2. old[last] = buffer[m + 1]
      BY <1>3, <3>1
    <3>3. buffer[m + 1] \notin {Garbage, BadUtf8}
      <4>1. \A r \in RedoRecords : r.type \in {"begin", "insert", "commit", "rollback"}
        BY DEF RedoRecords, StatusRecords, InsertRecords
      <4> QED BY <2>1, <4>1 DEF Garbage, BadUtf8
    <3>4. last \in DOMAIN old
      BY <1>3, <3>1
    <3> QED BY <3>2, <3>3, <3>4 DEF Parsed
  <2>5. Parsed(old) \subseteq Int /\ len \in Nat /\ last \in Nat
    BY <1>2, <1>3, <2>1 DEF Parsed, Files
  <2> HIDE DEF f, new, len, last
  <2> DEFINE d == [i \in Parsed(new.lines) |-> IF i <= len THEN e[i] ELSE last]
  <2>6. ASSUME NEW i \in Parsed(new.lines)
        PROVE  /\ d[i] \in Parsed(old) /\ new.lines[i] = old[d[i]] /\ d[i] <= last
               /\ i <= len => d[i] < last
               /\ ~(i <= len) => i = len + 1 /\ d[i] = last
    <3>1. CASE i <= len
      <4>1. /\ i \in Parsed(f.lines) /\ new.lines[i] = f.lines[i] /\ d[i] = e[i]
        BY <2>2, <3>1
      <4>2. /\ e[i] \in Parsed(old) /\ f.lines[i] = old[e[i]] /\ e[i] <= Len(redo_log) + m
        BY <2>3, <4>1 DEF Embedding
      <4>3. e[i] < last
        BY <1>2, <2>5, <4>2 DEF last
      <4> QED BY <2>5, <3>1, <4>1, <4>2, <4>3
    <3>2. CASE ~(i <= len)
      <4>1. i = len + 1 /\ d[i] = last /\ new.lines[i] = buffer[m + 1]
        BY <2>2, <2>5, <3>2
      <4> QED BY <2>4, <2>5, <3>2, <4>1
    <3> QED BY <3>1, <3>2
  <2>7. ASSUME NEW i \in Parsed(new.lines), NEW j \in Parsed(new.lines), i < j
        PROVE  d[i] < d[j]
    <3>1. i \in 1..len + 1 /\ j \in 1..len + 1
      BY <2>2
    <3>2. i <= len
      BY <2>5, <2>7, <3>1
    <3>3. CASE j <= len
      <4>1. i \in Parsed(f.lines) /\ j \in Parsed(f.lines)
        BY <2>2, <3>2, <3>3
      <4> QED BY <2>3, <2>7, <3>2, <3>3, <4>1 DEF Embedding
    <3>4. CASE ~(j <= len)
      BY <2>6, <3>2, <3>4
    <3> QED BY <3>3, <3>4
  <2>8. Embedding(d, new.lines, old)
    <3>1. d \in [Parsed(new.lines) -> Parsed(old)]
      BY <2>6
    <3> HIDE DEF d
    <3> QED BY <2>6, <2>7, <3>1 DEF Embedding
  <2>9. \A i \in Parsed(new.lines) : d[i] <= Len(redo_log) + (m + 1)
    <3>1. last = Len(redo_log) + (m + 1)
      BY <1>2 DEF last
    <3> HIDE DEF d
    <3> QED BY <2>6, <3>1
  <2> HIDE DEF d
  <2> QED BY <2>8, <2>9 DEF new
<1>6. Nat \subseteq T
  <2> HIDE DEF T
  <2> QED BY <1>4, <1>5, NatSetInduction
<1>7. Good(file[n], n)
  <2>1. n \in T
    <3> HIDE DEF T, n
    <3> QED BY <1>2, <1>6
  <2> HIDE DEF n
  <2> QED BY <1>2, <2>1
<1> QED BY <1>1, <1>2, <1>7 DEF Files, Embeds, old

\* Nothing but a cut inside a character makes the file unreadable.
LEMMA WriteReadable ==
    ASSUME redo_log \in Seq(LogLines), eol \in BOOLEAN, ~eol => redo_log # <<>>,
           NEW buffer \in Seq(RedoRecords), NEW outcomes \in Seq(Outcomes),
           Len(outcomes) <= Len(buffer), WriteRecords(buffer, outcomes),
           \A k \in 1..Len(outcomes) : outcomes[k] # "torn8", Readable(redo_log)
    PROVE  Readable(redo_log')
<1> DEFINE n == Len(outcomes)
<1>1. PICK file : /\ Run(file, buffer, outcomes)
                  /\ redo_log' = file[n].lines
  BY WriteRun
<1> DEFINE T == {m \in Nat : m <= n => Readable(file[m].lines)}
<1>2. 0 \in T
  BY <1>1 DEF Run
<1>3. ASSUME NEW m \in Nat, m \in T PROVE m + 1 \in T
  <2> SUFFICES ASSUME m + 1 <= n PROVE Readable(file[m + 1].lines)
    OBVIOUS
  <2>1. /\ file[m] \in Files /\ m <= n /\ m + 1 \in 1..n
        /\ buffer[m + 1] \in RedoRecords /\ outcomes[m + 1] \in Outcomes
        /\ file[m + 1] = Written(file[m], buffer[m + 1], outcomes[m + 1])
    BY <1>1, RunStep
  <2>2. Readable(file[m].lines) /\ outcomes[m + 1] # "torn8"
    BY <1>3, <2>1
  <2> QED BY <2>1, <2>2, WrittenEffect
<1>4. Nat \subseteq T
  <2> HIDE DEF T
  <2> QED BY <1>2, <1>3, NatSetInduction
<1> QED BY <1>1, <1>4

\* If no newline alone goes missing, now or before, every record that can be
\* read stays at its place, and an unterminated line is one that cannot.
LEMMA WriteKeeps ==
    ASSUME redo_log \in Seq(LogLines), eol \in BOOLEAN, ~eol => redo_log # <<>>,
           NEW buffer \in Seq(RedoRecords), NEW outcomes \in Seq(Outcomes),
           Len(outcomes) <= Len(buffer), WriteRecords(buffer, outcomes),
           \A k \in 1..Len(outcomes) : outcomes[k] # "noeol",
           ~eol => Last(redo_log) \in Unreadable
    PROVE  /\ LinesStay(redo_log, redo_log')
           /\ ~eol' => Last(redo_log') \in Unreadable
<1> DEFINE n == Len(outcomes)
           Good(f) == LinesStay(redo_log, f.lines) /\ Sound(f)
<1>1. PICK file : /\ Run(file, buffer, outcomes)
                  /\ redo_log' = file[n].lines /\ eol' = file[n].eol
  BY WriteRun
<1> DEFINE T == {m \in Nat : m <= n => Good(file[m])}
<1>2. 0 \in T
  <2>1. file[0].lines = redo_log /\ file[0].eol = eol
    BY <1>1 DEF Run
  <2> QED BY <2>1 DEF Parsed, LinesStay, Sound
<1>3. ASSUME NEW m \in Nat, m \in T PROVE m + 1 \in T
  <2> SUFFICES ASSUME m + 1 <= n PROVE Good(file[m + 1])
    OBVIOUS
  <2>1. /\ file[m] \in Files /\ m <= n /\ m + 1 \in 1..n
        /\ buffer[m + 1] \in RedoRecords /\ outcomes[m + 1] \in Outcomes
        /\ file[m + 1] = Written(file[m], buffer[m + 1], outcomes[m + 1])
    BY <1>1, RunStep
  <2>2. Good(file[m]) /\ outcomes[m + 1] # "noeol"
    BY <1>3, <2>1
  <2>3. LinesStay(file[m].lines, file[m + 1].lines) /\ Sound(file[m + 1])
    BY <2>1, <2>2, WrittenEffect
  <2>4. \A i \in Parsed(redo_log) : i \in Parsed(file[m].lines)
    BY <2>2 DEF Parsed, LinesStay
  <2> QED BY <2>2, <2>3, <2>4 DEF LinesStay
<1>4. Nat \subseteq T
  <2> HIDE DEF T
  <2> QED BY <1>2, <1>3, NatSetInduction
<1>5. n \in Nat
  OBVIOUS
<1> QED BY <1>1, <1>4, <1>5 DEF Sound
-----------------------------------------------------------------------------
(***************************************************************************)
(* What recovery computes from a log: its types, and a clock beyond every  *)
(* record.                                                                 *)
(***************************************************************************)
\* A[i] holds of what is picked among the first i elements, if every element
\* leads from each A[i - 1] to A[i].
LEMMA PickedStages ==
    ASSUME NEW S, NEW s \in Seq(S), NEW K, NEW A, <<>> \in A[0],
           \A i \in 1..Len(s) : \A x \in Seq(S) : x \in A[i - 1] =>
               (IF i \in K THEN Append(x, s[i]) ELSE x) \in A[i]
    PROVE  Picked(s, K) \in Seq(S) /\ Picked(s, K) \in A[Len(s)]
<1> DEFINE Next0(f, i) == IF i = 0 THEN <<>>
                          ELSE IF i \in K THEN Append(f[i - 1], s[i]) ELSE f[i - 1]
           pick == CHOOSE f : f = [i \in 0..Len(s) |-> Next0(f, i)]
           step == [i \in 1..Len(s) |->
                       [x \in Seq(S) |-> IF i \in K THEN Append(x, s[i]) ELSE x]]
<1>1. Len(s) \in Nat
  OBVIOUS
<1>2. step \in [1..Len(s) -> [Seq(S) -> Seq(S)]]
  <2>1. ASSUME NEW i \in 1..Len(s), NEW x \in Seq(S)
        PROVE  (IF i \in K THEN Append(x, s[i]) ELSE x) \in Seq(S)
    <3>1. CASE i \in K
      <4>1. s[i] \in S
        OBVIOUS
      <4> QED BY <3>1, <4>1
    <3>2. CASE i \notin K
      BY <3>2
    <3> QED BY <3>1, <3>2
  <2> QED BY <2>1
<1>3. <<>> \in Seq(S)
  OBVIOUS
<1>4. \E g : Follows(g, Len(s), Seq(S), <<>>, step)
  <2> HIDE DEF step, pick, Next0
  <2> QED BY <1>1, <1>2, <1>3, RecursionExists
<1>5. PICK g : /\ g \in [0..Len(s) -> Seq(S)]
               /\ g[0] = <<>>
               /\ \A k \in 1..Len(s) : g[k] = step[k][g[k - 1]]
  BY <1>4 DEF Follows
<1>6. g = [i \in 0..Len(s) |-> Next0(g, i)]
  <2>1. ASSUME NEW i \in 0..Len(s) PROVE g[i] = Next0(g, i)
    <3>1. CASE i = 0
      BY <3>1, <1>5
    <3>2. CASE i \in 1..Len(s)
      <4>1. g[i - 1] \in Seq(S)
        BY <3>2, <1>5
      <4>2. g[i] = step[i][g[i - 1]]
        BY <3>2, <1>5
      <4> QED BY <3>2, <4>1, <4>2
    <3> QED BY <3>1, <3>2
  <2> HIDE DEF Next0, step
  <2> QED BY <2>1, <1>5
<1>7. pick = [i \in 0..Len(s) |-> Next0(pick, i)]
  <2> HIDE DEF Next0
  <2> QED BY <1>6
<1>8. Picked(s, K) = pick[Len(s)]
  BY DEF Picked
<1> DEFINE T == {n \in Nat : n <= Len(s) => pick[n] \in Seq(S) /\ pick[n] \in A[n]}
<1>9. 0 \in T
  <2>1. pick[0] = Next0(pick, 0)
    <3>1. 0 \in 0..Len(s)
      BY <1>1
    <3> HIDE DEF Next0, pick
    <3> QED BY <1>7, <3>1, Zenon
  <2>2. pick[0] = <<>>
    <3> HIDE DEF pick
    <3> QED BY <2>1
  <2> HIDE DEF pick
  <2> QED BY <2>2, <1>3
<1>10. ASSUME NEW n \in Nat, n \in T PROVE n + 1 \in T
  <2>1. SUFFICES ASSUME n + 1 <= Len(s)
                 PROVE  pick[n + 1] \in Seq(S) /\ pick[n + 1] \in A[n + 1]
    OBVIOUS
  <2>2. pick[n] \in Seq(S) /\ pick[n] \in A[n]
    BY <1>10, <2>1
  <2> DEFINE m == n + 1
  <2>3. m \in 0..Len(s) /\ m \in 1..Len(s) /\ m # 0 /\ m - 1 = n
    BY <2>1
  <2> HIDE DEF m
  <2>4. pick[m] = Next0(pick, m)
    <3> HIDE DEF Next0, pick
    <3> QED BY <1>7, <2>3, Zenon
  <2> HIDE DEF pick
  <2>5. pick[m] = IF m \in K THEN Append(pick[n], s[m]) ELSE pick[n]
    BY <2>3, <2>4
  <2>6. pick[n] \in A[m - 1]
    BY <2>2, <2>3
  <2>7. pick[m] \in A[m]
    BY <2>2, <2>3, <2>5, <2>6
  <2>8. pick[m] \in Seq(S)
    BY <2>2, <2>3, <2>5
  <2> QED BY <2>7, <2>8 DEF m
<1>11. Nat \subseteq T
  <2> HIDE DEF T
  <2> QED BY <1>9, <1>10, NatSetInduction
<1>12. Len(s) \in T
  BY <1>11, <1>1
<1> QED BY <1>12, <1>8

\* Picked only picks: its elements are those of the positions.
LEMMA PickedType ==
    ASSUME NEW S, NEW s \in Seq(S), NEW K
    PROVE  Picked(s, K) \in Seq({s[i] : i \in K \cap 1..Len(s)})
<1> DEFINE E == {s[i] : i \in K \cap 1..Len(s)}
           A == [i \in 0..Len(s) |-> Seq(E)]
<1>1. Len(s) \in Nat /\ <<>> \in Seq(E)
  OBVIOUS
<1>2. <<>> \in A[0]
  BY <1>1
<1>3. ASSUME NEW i \in 1..Len(s), NEW x, x \in A[i - 1]
      PROVE  (IF i \in K THEN Append(x, s[i]) ELSE x) \in A[i]
  <2>1. x \in Seq(E) /\ A[i] = Seq(E)
    BY <1>3
  <2>2. i \in K => s[i] \in E
    OBVIOUS
  <2> HIDE DEF E, A
  <2>3. i \in K => Append(x, s[i]) \in Seq(E)
    BY <2>1, <2>2
  <2> QED BY <2>1, <2>3
<1>4. A[Len(s)] = Seq(E)
  BY <1>1
<1> HIDE DEF A, E
<1>5. Picked(s, K) \in A[Len(s)]
  BY <1>2, <1>3, PickedStages
<1> QED BY <1>4, <1>5 DEF E

\* Picking the first m elements.
LEMMA PickedPrefix ==
    ASSUME NEW S, NEW s \in Seq(S), NEW m \in 0..Len(s), NEW K,
           \A i \in 1..Len(s) : i \in K <=> i <= m
    PROVE  Picked(s, K) = SubSeq(s, 1, m)
<1> DEFINE A == [i \in 0..Len(s) |-> {SubSeq(s, 1, IF i <= m THEN i ELSE m)}]
<1>1. <<>> \in A[0]
  OBVIOUS
<1>2. ASSUME NEW i \in 1..Len(s), NEW x, x \in A[i - 1]
      PROVE  (IF i \in K THEN Append(x, s[i]) ELSE x) \in A[i]
  <2>1. CASE i <= m
    <3>1. x = SubSeq(s, 1, i - 1) /\ A[i] = {SubSeq(s, 1, i)} /\ i \in K
      BY <1>2, <2>1
    <3>2. Append(SubSeq(s, 1, i - 1), s[i]) = SubSeq(s, 1, i)
      OBVIOUS
    <3> QED BY <3>1, <3>2
  <2>2. CASE ~(i <= m)
    <3>1. x = SubSeq(s, 1, m) /\ A[i] = {SubSeq(s, 1, m)} /\ i \notin K
      BY <1>2, <2>2
    <3> QED BY <3>1
  <2> QED BY <2>1, <2>2
<1>3. A[Len(s)] = {SubSeq(s, 1, m)}
  OBVIOUS
<1> HIDE DEF A
<1>4. Picked(s, K) \in A[Len(s)]
  BY <1>1, <1>2, PickedStages
<1> QED BY <1>3, <1>4

\* Positions in a log are bounded, so a set of them has a greatest.
LEMMA LastPosition ==
    ASSUME NEW log \in Seq(LogLines), NEW K \in SUBSET (1..Len(log)), K # {}
    PROVE  Max(K) \in K /\ \A k \in K : k <= Max(K)
<1>1. K \in SUBSET Nat /\ Len(log) \in Nat /\ \A k \in K : k <= Len(log)
  OBVIOUS
<1> QED BY <1>1, MaxOfBounded

\* The clock resumes beyond every record of the log (recovery.rs:75).
LEMMA RecoveredScnAhead ==
    ASSUME NEW log \in Seq(LogLines)
    PROVE  /\ RecoveredScn(log) \in Nat
           /\ \A i \in Parsed(log) : log[i].scn < RecoveredScn(log)
<1>1. CASE Parsed(log) = {}
  BY <1>1 DEF RecoveredScn
<1>2. CASE Parsed(log) # {}
  <2> DEFINE scns == {log[i].scn : i \in Parsed(log)}
             f == [i \in 1..Len(log) |-> IF i \in Parsed(log) THEN log[i].scn ELSE 0]
  <2>1. Len(log) \in Nat /\ \A i \in Parsed(log) : i \in 1..Len(log) /\ log[i].scn \in Nat
    BY ParsedFields
  <2>2. f \in [1..Len(log) -> Nat]
    BY <2>1
  <2>3. PICK b \in Nat : \A i \in 1..Len(log) : f[i] <= b
    <3> HIDE DEF f
    <3> QED BY <2>1, <2>2, ImageBounded
  <2>4. scns \in SUBSET Nat /\ scns # {} /\ \A k \in scns : k <= b
    BY <1>2, <2>1, <2>3
  <2>5. Max(scns) \in scns /\ \A k \in scns : k <= Max(scns)
    <3> HIDE DEF scns
    <3> QED BY <2>4, MaxOfBounded
  <2>6. RecoveredScn(log) = Max(scns) + 1
    BY <1>2 DEF RecoveredScn
  <2>7. Max(scns) \in Nat /\ \A i \in Parsed(log) : log[i].scn <= Max(scns)
    BY <2>4, <2>5
  <2> HIDE DEF scns
  <2> QED BY <2>1, <2>6, <2>7
<1> QED BY <1>1, <1>2

LEMMA RecoveredStatusesType ==
    ASSUME NEW log \in Seq(LogLines)
    PROVE  RecoveredStatuses(log) \in [TxIds -> TxStatus]
<1> DEFINE kinds == {"begin", "commit", "rollback"}
           own(x) == OfTx(log, x, kinds)
<1>1. ASSUME NEW x \in TxIds, own(x) # {}
      PROVE  StatusOf(log[Max(own(x))].type) \in TxStatus
  <2>1. own(x) \subseteq OfKind(log, kinds)
    BY DEF OfTx
  <2>2. own(x) \in SUBSET (1..Len(log))
    BY <2>1 DEF OfKind
  <2>3. Max(own(x)) \in own(x)
    <3> HIDE DEF own
    <3> QED BY <1>1, <2>2, LastPosition
  <2>4. log[Max(own(x))].type \in kinds
    BY <2>1, <2>3 DEF OfKind
  <2> QED BY <2>4 DEF StatusOf, TxStatus
<1>2. \A x \in TxIds :
        (IF own(x) = {} THEN "None" ELSE StatusOf(log[Max(own(x))].type)) \in TxStatus
  BY <1>1 DEF TxStatus
<1> QED BY <1>2 DEF RecoveredStatuses

LEMMA RecoveredCommitScnsType ==
    ASSUME NEW log \in Seq(LogLines)
    PROVE  RecoveredCommitScns(log) \in [TxIds -> Nat]
<1> DEFINE own(x) == OfTx(log, x, {"commit"})
<1>1. ASSUME NEW x \in TxIds, own(x) # {}
      PROVE  log[Max(own(x))].scn \in Nat
  <2>1. own(x) \subseteq OfKind(log, {"commit"})
    BY DEF OfTx
  <2>2. own(x) \in SUBSET (1..Len(log))
    BY <2>1 DEF OfKind
  <2>3. Max(own(x)) \in own(x)
    <3> HIDE DEF own
    <3> QED BY <1>1, <2>2, LastPosition
  <2>4. OfKind(log, {"commit"}) \subseteq Parsed(log)
    BY OfKindParsed
  <2> QED BY <2>1, <2>3, <2>4, ParsedFields
<1>2. \A x \in TxIds : (IF own(x) = {} THEN NoScn ELSE log[Max(own(x))].scn) \in Nat
  BY <1>1 DEF NoScn
<1> QED BY <1>2 DEF RecoveredCommitScns

LEMMA RecoveredRowsType ==
    ASSUME NEW log \in Seq(LogLines), NEW t
    PROVE  RecoveredRows(log, t) \in Seq([val : Values, tx_id : TxIds])
<1> DEFINE recs == Picked(log, Replayed(log, t))
<1>1. recs \in Seq({log[i] : i \in Replayed(log, t) \cap 1..Len(log)})
  BY PickedType
<1>2. \A i \in Replayed(log, t) : log[i].val \in Values /\ log[i].tx_id \in TxIds
  <2>1. SUFFICES ASSUME NEW i \in Replayed(log, t)
                 PROVE  log[i].val \in Values /\ log[i].tx_id \in TxIds
    OBVIOUS
  <2>2. i \in 1..Len(log) /\ log[i].type = "insert"
    BY DEF Replayed, OfKind
  <2>3. log[i] \in LogLines
    BY <2>2
  <2> QED BY <2>2, <2>3, LineFields
<1>3. \A j \in 1..Len(recs) : recs[j].val \in Values /\ recs[j].tx_id \in TxIds
  <2>1. SUFFICES ASSUME NEW j \in 1..Len(recs)
                 PROVE  recs[j].val \in Values /\ recs[j].tx_id \in TxIds
    OBVIOUS
  <2>2. recs[j] \in {log[i] : i \in Replayed(log, t) \cap 1..Len(log)}
    <3> HIDE DEF recs
    <3> QED BY <1>1, ElementOfSeq
  <2> QED BY <2>2, <1>2
<1>4. RecoveredRows(log, t) = [j \in 1..Len(recs) |->
                                  [val |-> recs[j].val, tx_id |-> recs[j].tx_id]]
  <2>1. DOMAIN recs = 1..Len(recs)
    <3> HIDE DEF recs
    <3> QED BY <1>1, LenProperties
  <2> QED BY <2>1 DEF RecoveredRows
<1>5. Len(recs) \in Nat
  <2> HIDE DEF recs
  <2> QED BY <1>1, LenProperties
<1> HIDE DEF recs
<1> QED BY <1>3, <1>4, <1>5
=============================================================================

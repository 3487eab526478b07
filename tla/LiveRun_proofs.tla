---------------------------- MODULE LiveRun_proofs ----------------------------
(***************************************************************************)
(* What a live run hears, for every value of LiveRun's constants.          *)
(*                                                                         *)
(* The units on their way to the reader are taken as one stream: what is   *)
(* in its buffer, in the pipe, and still with the daemon.  Its units       *)
(* follow each other as those of the answers do, and begin where the       *)
(* reader stands, until the reader loses its way; from then on it finds no *)
(* code any more.                                                          *)
(***************************************************************************)
EXTENDS LiveRun, SequenceTheorems, FiniteSetTheorems, TLAPS

\* Concatenation under a name of its own, for the provers to leave alone.
Cat(s, t) == s \o t

Stream == Cat(Cat(buffer, outgoing), out)

\* How one unit follows another, within an answer and from one to the next.
Follows(u, w) ==
  /\ u.part = "lo" => w.part = "hi" /\ w.no = u.no /\ w.code = u.code
  /\ u.part = "hi" => w.part = "body" /\ w.no = u.no /\ w.code = u.code
  /\ u.part = "body" => w.part = "lo" /\ w.no = IF u.code = "NEXT" THEN u.no ELSE u.no + 1
Chained(s) == \A i \in 1..(Len(s) - 1) : Follows(s[i], s[i + 1])

\* How run r answers request k, and whether replay has left something of an
\* answer before that: Final and LostBefore with the run as a parameter.
FinalIn(r, k) == r.kinds[k][Len(r.kinds[k])]
UnreadIn(r, k) == r.tool = "replay" /\ (r.kinds[k] = <<"ERROR">> \/ k \in r.unknown)
LostIn(r, k) == \E i \in 1..Len(r.kinds) : i < k /\ UnreadIn(r, i)

\* Of the answers h to run r, the k-th is that of request k.
Matched(r, h, k) == k \in 1..Len(r.kinds) /\ h[k] = <<k, FinalIn(r, k)>>

\* A unit of one of the first n answers of run r.
Genuine(r, n, u) == u.no \in 1..n /\ (u.code = "NEXT" \/ u.code = FinalIn(r, u.no))

\* The units that are under way.
StreamInv ==
  /\ Chained(Stream)
  /\ \A i \in 1..Len(Stream) : Genuine(run, taken, Stream[i])
  /\ daemon = "serving" /\ Stream # <<>> =>
       /\ Stream[Len(Stream)].no = taken
       /\ Stream[Len(Stream)].part = "body" /\ Stream[Len(Stream)].code # "NEXT"

\* The two pipes.
PipeInv ==
  /\ sent = taken + incoming
  /\ daemon # "serving" => out = <<>>
  /\ ~SplitReads => /\ buffer # <<>> => buffer[Len(buffer)].part # "lo"
                    /\ outgoing # <<>> => outgoing[Len(outgoing)].part # "lo"

\* Who goes away, and when.
EndInv ==
  /\ writing = "failed" => daemon # "serving"
  /\ daemon = "gone" => writing = "closed"
  /\ writing = "closed" => daemon = "dead" \/ reading \in {"done", "failed", "exited"}
  /\ reading = "failed" => daemon = "dead"
  /\ reading = "done" => daemon = "dead" \/ Len(heard) >= run.found
  /\ reading = "exited" =>
       daemon = "dead" \/ SplitReads \/ (run.stopAt # 0 /\ Len(heard) = run.stopAt)

\* The reader has heard every answer so far, and left nothing of them.
SyncIn(r, h) == ~LostIn(r, Len(h) + 1) /\ \A k \in 1..Len(h) : Matched(r, h, k)
InSync == SyncIn(run, heard)

\* Where in the stream the reader stands.
PlaceInv ==
  /\ reading \in Codes => InSync /\ ~LeavesBody(reading)
  /\ InSync /\ Stream # <<>> /\ reading = "peek" =>
       Stream[1].part = "lo" /\ Stream[1].no = Len(heard) + 1
  /\ InSync /\ Stream = <<>> /\ reading = "peek" /\ daemon = "serving" =>
       taken = Len(heard)
  /\ Stream # <<>> /\ reading \in Codes =>
       /\ Stream[1].part = "body" /\ Stream[1].code = reading
       /\ Stream[1].no = Len(heard) + 1
  /\ Stream = <<>> /\ reading \in Codes => daemon # "serving"
  /\ ~InSync /\ Stream # <<>> /\ reading = "peek" =>
       Stream[1].part = "body" \/ Len(buffer) = 1
  /\ ~InSync /\ Stream = <<>> /\ reading = "peek" => daemon # "serving"

\* What it has heard, and why there was no answer where there was none.
HeardInv ==
  /\ reading # "astray"
  /\ \A k \in 1..Len(heard) :
       \/ Matched(run, heard, k)
       \/ /\ daemon = "dead" \/ LostIn(run, k) \/ SplitReads
          /\ \A i \in k..Len(heard) : heard[i][1] = Unanswered

ErrorsIn(h) == {k \in 1..Len(h) : h[k][2] = "ERROR"}
CountInv ==
  tool = "replay" /\ daemon # "dead" => mismatches = Cardinality(ErrorsIn(heard))

IInv == TypeOK /\ StreamInv /\ PipeInv /\ EndInv /\ PlaceInv /\ HeardInv /\ CountInv

-----------------------------------------------------------------------------
(* Sequences of units.                                                     *)

\* What is known of two sequences put together.
LEMMA Joined ==
  ASSUME NEW S, NEW s \in Seq(S), NEW t \in Seq(S)
  PROVE  /\ Cat(s, t) \in Seq(S) /\ Len(s) \in Nat /\ Len(t) \in Nat
         /\ Len(Cat(s, t)) = Len(s) + Len(t)
         /\ \A i \in 1..Len(s) : Cat(s, t)[i] = s[i]
         /\ \A i \in (Len(s) + 1)..(Len(s) + Len(t)) : Cat(s, t)[i] = t[i - Len(s)]
BY ConcatProperties, LenProperties DEF Cat

\* How three sequences are put together does not matter.
LEMMA Regrouped ==
  ASSUME NEW S, NEW s \in Seq(S), NEW t \in Seq(S), NEW u \in Seq(S)
  PROVE  Cat(Cat(s, t), u) = Cat(s, Cat(t, u))
BY ConcatAssociative DEF Cat

\* Nothing comes of adding the empty sequence.
LEMMA JoinedEmpty ==
  ASSUME NEW S, NEW s \in Seq(S)
  PROVE  Cat(s, <<>>) = s /\ Cat(<<>>, s) = s
BY ConcatEmptySeq DEF Cat

\* A sequence taken apart behind its n-th element.
LEMMA Parted ==
  ASSUME NEW S, NEW s \in Seq(S), NEW n \in 0..Len(s)
  PROVE  LET a == SubSeq(s, 1, n)
             b == SubSeq(s, n + 1, Len(s))
         IN  /\ a \in Seq(S) /\ b \in Seq(S) /\ Cat(a, b) = s
             /\ Len(a) = n /\ Len(b) = Len(s) - n /\ Len(s) \in Nat
             /\ \A i \in 1..n : a[i] = s[i]
             /\ \A i \in 1..(Len(s) - n) : b[i] = s[n + i]
             /\ b # <<>> => b[Len(b)] = s[Len(s)]
<1> DEFINE a == SubSeq(s, 1, n)
           b == SubSeq(s, n + 1, Len(s))
<1>1. Len(s) \in Nat /\ \A i \in 1..Len(s) : s[i] \in S
  BY LenProperties, ElementOfSeq
<1>2. a \in Seq(S) /\ Len(a) = n /\ \A i \in 1..n : a[i] = s[i]
  BY <1>1, SubSeqProperties
<1>3. b \in Seq(S) /\ Len(b) = Len(s) - n /\ \A i \in 1..(Len(s) - n) : b[i] = s[n + i]
  BY <1>1, SubSeqProperties
<1> HIDE DEF a, b
<1>4. Cat(a, b) = s
  <2>1. /\ Cat(a, b) \in Seq(S) /\ Len(Cat(a, b)) = Len(a) + Len(b)
        /\ \A i \in 1..Len(a) : Cat(a, b)[i] = a[i]
        /\ \A i \in (Len(a) + 1)..(Len(a) + Len(b)) : Cat(a, b)[i] = b[i - Len(a)]
    <3>1. a \in Seq(S) /\ b \in Seq(S)
      BY <1>2, <1>3
    <3> QED
      BY <3>1, Joined
  <2>2. \A i \in 1..Len(s) : Cat(a, b)[i] = s[i]
    <3>1. \A i \in 1..n : Cat(a, b)[i] = s[i]
      BY <1>2, <2>1
    <3>2. ASSUME NEW i \in (n + 1)..Len(s)
          PROVE  Cat(a, b)[i] = s[i]
      <4>1. i - n \in 1..(Len(s) - n) /\ n + (i - n) = i
        BY <1>1
      <4>2. b[i - n] = s[i]
        BY <1>3, <4>1
      <4>3. i \in (Len(a) + 1)..(Len(a) + Len(b))
        BY <1>1, <1>2, <1>3
      <4> QED
        BY <1>2, <2>1, <4>2, <4>3
    <3> QED
      BY <1>1, <3>1, <3>2
  <2>3. Len(Cat(a, b)) = Len(s)
    BY <1>1, <1>2, <1>3, <2>1
  <2> QED
    BY <2>1, <2>2, <2>3, SeqEqual
<1>5. b # <<>> => b[Len(b)] = s[Len(s)]
  <2>1. b # <<>> => Len(b) # 0
    BY <1>3, EmptySeq
  <2>2. Len(b) # 0 => /\ Len(s) - n \in 1..(Len(s) - n) /\ n + (Len(s) - n) = Len(s)
                      /\ Len(b) = Len(s) - n
    BY <1>1, <1>3
  <2> QED
    BY <1>3, <2>1, <2>2
<1> QED
  BY <1>1, <1>2, <1>3, <1>4, <1>5 DEF a, b

\* Of three sequences put together, the first part of the last is moved on.
LEMMA Moved ==
  ASSUME NEW S, NEW a \in Seq(S), NEW b \in Seq(S), NEW c \in Seq(S), NEW n \in 0..Len(c)
  PROVE  Cat(Cat(a, Cat(b, SubSeq(c, 1, n))), SubSeq(c, n + 1, Len(c))) = Cat(Cat(a, b), c)
<1> DEFINE x == SubSeq(c, 1, n)
           y == SubSeq(c, n + 1, Len(c))
<1>1. x \in Seq(S) /\ y \in Seq(S) /\ Cat(x, y) = c
  BY Parted
<1> HIDE DEF x, y
<1>2. Cat(a, b) \in Seq(S)
  BY Joined
<1>3. Cat(a, Cat(b, x)) = Cat(Cat(a, b), x)
  BY <1>1, Regrouped
<1>4. Cat(Cat(Cat(a, b), x), y) = Cat(Cat(a, b), Cat(x, y))
  BY <1>1, <1>2, Regrouped
<1> QED
  BY <1>1, <1>3, <1>4 DEF x, y

\* Of three sequences put together, the first part of the first is dropped.
LEMMA Dropped ==
  ASSUME NEW S, NEW a \in Seq(S), NEW b \in Seq(S), NEW c \in Seq(S), NEW n \in 0..Len(a)
  PROVE  LET s == Cat(Cat(a, b), c)
             t == Cat(Cat(SubSeq(a, n + 1, Len(a)), b), c)
         IN  t = SubSeq(s, n + 1, Len(s)) /\ n \in 0..Len(s) /\ s \in Seq(S)
<1> DEFINE s == Cat(Cat(a, b), c)
           x == SubSeq(a, 1, n)
           y == SubSeq(a, n + 1, Len(a))
           t == Cat(Cat(y, b), c)
           u == SubSeq(s, n + 1, Len(s))
<1>0. n \in Nat
  BY LenProperties
<1>1. x \in Seq(S) /\ y \in Seq(S) /\ Len(x) = n /\ Cat(x, y) = a
  <2>1. x \in Seq(S) /\ y \in Seq(S)
    BY Parted
  <2>2. Len(x) = n
    BY Parted
  <2>3. Cat(x, y) = a
    BY Parted
  <2> QED
    BY <2>1, <2>2, <2>3
<1> HIDE DEF x, y
<1>2. Cat(y, b) \in Seq(S) /\ Cat(a, b) \in Seq(S)
  BY <1>1, Joined
<1>3. t \in Seq(S) /\ s \in Seq(S)
  BY <1>2, Joined
<1>4. s = Cat(x, t)
  <2>1. Cat(Cat(x, y), b) = Cat(x, Cat(y, b))
    BY <1>1, Regrouped
  <2>2. Cat(Cat(x, Cat(y, b)), c) = Cat(x, Cat(Cat(y, b), c))
    BY <1>1, <1>2, Regrouped
  <2> QED
    BY <1>1, <2>1, <2>2
<1> HIDE DEF s, t
<1>5. /\ Len(Cat(x, t)) = Len(x) + Len(t) /\ Len(t) \in Nat
      /\ \A i \in (Len(x) + 1)..(Len(x) + Len(t)) : Cat(x, t)[i] = t[i - Len(x)]
  BY <1>1, <1>3, Joined
<1>6. /\ Len(s) = n + Len(t) /\ Len(t) \in Nat
      /\ \A i \in (n + 1)..(n + Len(t)) : s[i] = t[i - n]
  BY <1>1, <1>4, <1>5
<1>7. n \in 0..Len(s)
  BY <1>0, <1>6
<1>8. /\ u \in Seq(S) /\ Len(u) = Len(s) - n
      /\ \A i \in 1..(Len(s) - n) : u[i] = s[n + i]
  BY <1>3, <1>7, Parted
<1> HIDE DEF u
<1>9. Len(u) = Len(t) /\ \A i \in 1..Len(u) : u[i] = t[i]
  <2>1. Len(u) = Len(t)
    BY <1>0, <1>6, <1>8
  <2>2. ASSUME NEW i \in 1..Len(t)
        PROVE  u[i] = t[i]
    <3>1. n + i \in (n + 1)..(n + Len(t)) /\ (n + i) - n = i
      BY <1>0, <1>6
    <3>2. s[n + i] = t[i]
      BY <1>6, <3>1
    <3>3. u[i] = s[n + i]
      BY <1>0, <1>6, <1>8
    <3> QED
      BY <3>2, <3>3
  <2> QED
    BY <2>1, <2>2
<1>10. t = u
  BY <1>3, <1>8, <1>9, SeqEqual
<1> QED
  BY <1>3, <1>7, <1>10 DEF s, t, u, y

\* Only the empty sequence has no elements.
LEMMA Emptiness ==
  ASSUME NEW S, NEW s \in Seq(S)
  PROVE  Len(s) \in Nat /\ (s = <<>> <=> Len(s) = 0) /\ \A i \in 1..Len(s) : s[i] \in S
BY EmptySeq, LenProperties, ElementOfSeq

\* A chain is one up to and from any place on.
LEMMA ChainParts ==
  ASSUME NEW s \in Seq(Unit), Chained(s), NEW n \in 0..Len(s)
  PROVE  Chained(SubSeq(s, 1, n)) /\ Chained(SubSeq(s, n + 1, Len(s)))
<1> DEFINE a == SubSeq(s, 1, n)
           b == SubSeq(s, n + 1, Len(s))
<1>1. /\ Len(a) = n /\ Len(b) = Len(s) - n /\ Len(s) \in Nat
      /\ \A i \in 1..n : a[i] = s[i]
      /\ \A i \in 1..(Len(s) - n) : b[i] = s[n + i]
  BY Parted
<1>2. \A i \in 1..(Len(s) - 1) : Follows(s[i], s[i + 1])
  BY DEF Chained
<1> HIDE DEF a, b
<1>3. ASSUME NEW i \in 1..(n - 1)
      PROVE  Follows(a[i], a[i + 1])
  <2>1. i \in 1..n /\ i + 1 \in 1..n /\ i \in 1..(Len(s) - 1)
    BY <1>1
  <2>2. a[i] = s[i] /\ a[i + 1] = s[i + 1]
    BY <1>1, <2>1
  <2> QED
    BY <1>2, <2>1, <2>2
<1>4. ASSUME NEW i \in 1..(Len(s) - n - 1)
      PROVE  Follows(b[i], b[i + 1])
  <2>1. i \in 1..(Len(s) - n) /\ i + 1 \in 1..(Len(s) - n) /\ n + i \in 1..(Len(s) - 1)
    BY <1>1
  <2>2. b[i] = s[n + i] /\ b[i + 1] = s[n + (i + 1)] /\ n + (i + 1) = (n + i) + 1
    BY <1>1, <2>1
  <2> QED
    BY <1>2, <2>1, <2>2
<1>5. Chained(a)
  BY <1>1, <1>3 DEF Chained
<1>6. Chained(b)
  BY <1>1, <1>4 DEF Chained
<1> QED
  BY <1>5, <1>6 DEF a, b

\* Two chains are one if the second follows the first.
LEMMA ChainJoins ==
  ASSUME NEW s \in Seq(Unit), NEW t \in Seq(Unit), Chained(s), Chained(t),
         s # <<>> /\ t # <<>> => Follows(s[Len(s)], t[1])
  PROVE  Chained(Cat(s, t))
<1>1. /\ Len(s) \in Nat /\ Len(t) \in Nat /\ Len(Cat(s, t)) = Len(s) + Len(t)
      /\ \A i \in 1..Len(s) : Cat(s, t)[i] = s[i]
      /\ \A i \in (Len(s) + 1)..(Len(s) + Len(t)) : Cat(s, t)[i] = t[i - Len(s)]
  BY Joined
<1> SUFFICES ASSUME NEW i \in 1..(Len(s) + Len(t) - 1)
             PROVE  Follows(Cat(s, t)[i], Cat(s, t)[i + 1])
  BY <1>1 DEF Chained
<1>2. CASE i < Len(s)
  <2>1. i \in 1..(Len(s) - 1) /\ i \in 1..Len(s) /\ i + 1 \in 1..Len(s)
    BY <1>1, <1>2
  <2> QED
    BY <1>1, <2>1 DEF Chained
<1>3. CASE i = Len(s)
  <2>1. i \in 1..Len(s) /\ 1 \in 1..Len(t) /\ s # <<>> /\ t # <<>>
    BY <1>1, <1>3, EmptySeq
  <2>2. i + 1 \in (Len(s) + 1)..(Len(s) + Len(t)) /\ i + 1 - Len(s) = 1
    BY <1>1, <1>3
  <2>3. Cat(s, t)[i + 1] = t[1]
    BY <1>1, <2>2
  <2> QED
    BY <1>1, <1>3, <2>1, <2>3
<1>4. CASE i > Len(s)
  <2> DEFINE j == i - Len(s)
  <2>1. j \in 1..(Len(t) - 1) /\ j \in 1..Len(t) /\ j + 1 \in 1..Len(t)
    BY <1>1, <1>4
  <2>2. /\ i \in (Len(s) + 1)..(Len(s) + Len(t))
        /\ i + 1 \in (Len(s) + 1)..(Len(s) + Len(t)) /\ i + 1 - Len(s) = j + 1
    BY <1>1, <1>4
  <2>3. Cat(s, t)[i] = t[j] /\ Cat(s, t)[i + 1] = t[j + 1]
    BY <1>1, <2>1, <2>2
  <2> QED
    BY <2>1, <2>3 DEF Chained
<1> QED
  BY <1>1, <1>2, <1>3, <1>4

-----------------------------------------------------------------------------
(* Runs and answers.                                                       *)

\* What the assumption says of the run in hand.
LEMMA RunFacts ==
  ASSUME TypeOK
  PROVE  /\ kinds \in Seq(Kinds) /\ Requests \in Nat
         /\ \A k \in Ids : kinds[k] \in Kinds
         /\ run.found \in Nat /\ run.stopAt \in 0..Requests
         /\ run.unknown \subseteq Ids
         /\ tool = "replay" \/ tool = "script"
         /\ tool = "script" => run.unknown = {}
         /\ tool = "replay" => run.stopAt = 0
<1>1. run \in Runs
  BY DEF TypeOK
<1>2. kinds \in Seq(Kinds) /\ run \in RunType(Requests)
  BY <1>1, LiveAssumption DEF kinds, Requests
<1>3. Requests \in Nat /\ \A k \in Ids : kinds[k] \in Kinds
  BY <1>2, Emptiness DEF kinds, Requests, Ids
<1> QED
  BY <1>1, <1>2, <1>3, LiveAssumption DEF RunType, tool, Ids

\* Only the last message of an answer ends it.
LEMMA FinalFacts ==
  ASSUME TypeOK, NEW k \in Ids
  PROVE  /\ FinalIn(run, k) \in {"LAST", "ERROR"}
         /\ UnreadIn(run, k) <=>
              tool = "replay" /\ (FinalIn(run, k) = "ERROR" \/ k \in run.unknown)
<1>1. kinds[k] \in Kinds
  BY RunFacts
<1>2. CASE kinds[k] = <<"LAST">>
  BY <1>2 DEF FinalIn, UnreadIn, kinds, tool
<1>3. CASE kinds[k] = <<"NEXT", "LAST">>
  BY <1>3 DEF FinalIn, UnreadIn, kinds, tool
<1>4. CASE kinds[k] = <<"ERROR">>
  BY <1>4 DEF FinalIn, UnreadIn, kinds, tool
<1> QED
  BY <1>1, <1>2, <1>3, <1>4 DEF Kinds

\* A message is three units of one code.
LEMMA MessageFacts ==
  ASSUME NEW k \in Ids, NEW code \in Codes
  PROVE  LET m == Message(k, code)
         IN  /\ m \in Seq(Unit) /\ Len(m) = 3 /\ m # <<>> /\ Chained(m)
             /\ \A i \in 1..3 : m[i].no = k /\ m[i].code = code
             /\ m[1].part = "lo" /\ m[3].part = "body"
<1> DEFINE m == Message(k, code)
<1>1. m = [i \in 1..3 |-> [no |-> k, code |-> code, part |-> <<"lo", "hi", "body">>[i]]]
  BY DEF Message
<1>2. /\ m[1] = [no |-> k, code |-> code, part |-> "lo"]
      /\ m[2] = [no |-> k, code |-> code, part |-> "hi"]
      /\ m[3] = [no |-> k, code |-> code, part |-> "body"]
  BY <1>1
<1>3. \A i \in 1..3 : i = 1 \/ i = 2 \/ i = 3
  OBVIOUS
<1>4. \A i \in 1..3 : m[i] \in Unit
  BY <1>2, <1>3 DEF Unit, Parts
<1>5. m \in [1..3 -> Unit]
  BY <1>1, <1>4
<1>6. m \in Seq(Unit) /\ Len(m) = 3
  <2>1. m \in Seq(Unit)
    BY <1>5, SeqDef
  <2>2. DOMAIN m = 1..3 /\ DOMAIN m = 1..Len(m) /\ Len(m) \in Nat
    BY <1>5, <2>1, LenProperties
  <2> QED
    BY <2>1, <2>2
<1> HIDE DEF m
<1>7. Chained(m)
  <2>1. \A i \in 1..2 : i = 1 \/ i = 2
    OBVIOUS
  <2>2. Follows(m[1], m[2]) /\ Follows(m[2], m[3])
    BY <1>2 DEF Follows
  <2> QED
    BY <1>6, <2>1, <2>2 DEF Chained
<1>8. m # <<>>
  <2>1. Len(m) # 0 /\ m \in Seq(Unit)
    BY <1>6
  <2> QED
    BY <2>1, Emptiness
<1>9. \A i \in 1..3 : m[i].no = k /\ m[i].code = code
  BY <1>2, <1>3
<1>10. m[1].part = "lo" /\ m[3].part = "body"
  BY <1>2
<1> QED
  BY <1>6, <1>7, <1>8, <1>9, <1>10, Zenon DEF m

\* What the daemon writes for request k.
LEMMA AnswerFacts ==
  ASSUME TypeOK, NEW k \in Ids
  PROVE  LET a == AnswerOf(k)
         IN  /\ a \in Seq(Unit) /\ Len(a) \in Nat \ {0} /\ a # <<>> /\ Chained(a)
             /\ a[1].part = "lo"
             /\ \A i \in 1..Len(a) :
                  a[i].no = k /\ (a[i].code = "NEXT" \/ a[i].code = FinalIn(run, k))
             /\ a[Len(a)].part = "body" /\ a[Len(a)].code # "NEXT"
<1>1. kinds[k] \in Kinds
  BY RunFacts
<1>2. ASSUME NEW c \in {"LAST", "ERROR"}, kinds[k] = <<c>>
      PROVE  AnswerOf(k) = Message(k, c) /\ FinalIn(run, k) = c /\ c \in Codes /\ c # "NEXT"
  BY <1>2 DEF AnswerOf, kinds, FinalIn, Codes
<1>3. CASE kinds[k] = <<"NEXT", "LAST">>
  <2> DEFINE m == Message(k, "NEXT")
             n == Message(k, "LAST")
  <2>1. AnswerOf(k) = Cat(m, n) /\ FinalIn(run, k) = "LAST"
    BY <1>3 DEF AnswerOf, kinds, FinalIn, Cat
  <2>2. /\ m \in Seq(Unit) /\ Len(m) = 3 /\ m # <<>> /\ Chained(m)
        /\ \A i \in 1..3 : m[i].no = k /\ m[i].code = "NEXT"
        /\ m[1].part = "lo" /\ m[3].part = "body"
    BY MessageFacts DEF Codes
  <2>3. /\ n \in Seq(Unit) /\ Len(n) = 3 /\ n # <<>> /\ Chained(n)
        /\ \A i \in 1..3 : n[i].no = k /\ n[i].code = "LAST"
        /\ n[1].part = "lo" /\ n[3].part = "body"
    BY MessageFacts DEF Codes
  <2> HIDE DEF m, n
  <2>4. Chained(Cat(m, n))
    <3>1. Follows(m[3], n[1])
      BY <2>2, <2>3 DEF Follows
    <3> QED
      BY <2>2, <2>3, <3>1, ChainJoins
  <2>5. /\ Cat(m, n) \in Seq(Unit) /\ Len(Cat(m, n)) = 6
        /\ \A i \in 1..3 : Cat(m, n)[i] = m[i]
        /\ \A i \in 4..6 : Cat(m, n)[i] = n[i - 3]
    <3>1. /\ Cat(m, n) \in Seq(Unit) /\ Len(Cat(m, n)) = Len(m) + Len(n)
          /\ \A i \in 1..Len(m) : Cat(m, n)[i] = m[i]
          /\ \A i \in (Len(m) + 1)..(Len(m) + Len(n)) : Cat(m, n)[i] = n[i - Len(m)]
      <4>1. m \in Seq(Unit) /\ n \in Seq(Unit)
        BY <2>2, <2>3
      <4> QED
        BY <4>1, Joined
    <3> QED
      BY <2>2, <2>3, <3>1
  <2>6. \A i \in 1..6 : i \in 1..3 \/ (i \in 4..6 /\ i - 3 \in 1..3)
    OBVIOUS
  <2>7. \A i \in 1..6 : /\ Cat(m, n)[i].no = k
                        /\ Cat(m, n)[i].code \in {"NEXT", "LAST"}
    BY <2>2, <2>3, <2>5, <2>6
  <2>8. Cat(m, n)[1] = m[1] /\ Cat(m, n)[6] = n[3]
    <3>1. 6 - 3 = 3 /\ 6 \in 4..6 /\ 1 \in 1..3
      OBVIOUS
    <3> QED
      BY <2>5, <3>1
  <2>9. Cat(m, n) # <<>>
    <3>1. Len(Cat(m, n)) # 0 /\ Cat(m, n) \in Seq(Unit)
      BY <2>5
    <3> QED
      BY <3>1, Emptiness
  <2> QED
    BY <2>1, <2>2, <2>3, <2>4, <2>5, <2>7, <2>8, <2>9
<1>4. ASSUME NEW c \in {"LAST", "ERROR"}, kinds[k] = <<c>>
      PROVE  LET a == AnswerOf(k)
             IN  /\ a \in Seq(Unit) /\ Len(a) \in Nat \ {0} /\ a # <<>> /\ Chained(a)
                 /\ a[1].part = "lo"
                 /\ \A i \in 1..Len(a) : a[i].no = k /\ a[i].code = FinalIn(run, k)
                 /\ a[Len(a)].part = "body" /\ a[Len(a)].code # "NEXT"
  BY <1>2, <1>4, MessageFacts
<1> QED
  BY <1>1, <1>3, <1>4 DEF Kinds

-----------------------------------------------------------------------------
(* The stream and what a step does to it.                                  *)

HeardType == (Ids \cup {Unanswered}) \X (Codes \cup {"none"})

\* The stream begins with the buffer, or where that is empty with the pipe.
LEMMA StreamFacts ==
  ASSUME TypeOK
  PROVE  /\ buffer \in Seq(Unit) /\ outgoing \in Seq(Unit) /\ out \in Seq(Unit)
         /\ Cat(buffer, outgoing) \in Seq(Unit) /\ Stream \in Seq(Unit)
         /\ Len(buffer) \in Nat /\ Len(outgoing) \in Nat /\ Len(out) \in Nat
         /\ Len(Cat(buffer, outgoing)) = Len(buffer) + Len(outgoing)
         /\ Len(Stream) = Len(buffer) + Len(outgoing) + Len(out)
         /\ Stream = <<>> <=> Len(Stream) = 0
         /\ \A i \in 1..Len(buffer) : Stream[i] = buffer[i]
         /\ buffer # <<>> <=> Len(buffer) # 0
         /\ outgoing # <<>> <=> Len(outgoing) # 0
         /\ out # <<>> <=> Len(out) # 0
         /\ Stream = Cat(buffer, Cat(outgoing, out))
<1>1. buffer \in Seq(Unit) /\ outgoing \in Seq(Unit) /\ out \in Seq(Unit)
  BY DEF TypeOK
<1>2. /\ Cat(buffer, outgoing) \in Seq(Unit)
      /\ Len(Cat(buffer, outgoing)) = Len(buffer) + Len(outgoing)
      /\ \A i \in 1..Len(buffer) : Cat(buffer, outgoing)[i] = buffer[i]
  BY <1>1, Joined
<1>3. /\ Stream \in Seq(Unit)
      /\ Len(Stream) = Len(Cat(buffer, outgoing)) + Len(out)
      /\ \A i \in 1..Len(Cat(buffer, outgoing)) : Stream[i] = Cat(buffer, outgoing)[i]
  <2> DEFINE s == Cat(buffer, outgoing)
  <2>1. s \in Seq(Unit) /\ Stream = Cat(s, out)
    BY <1>2 DEF Stream
  <2> HIDE DEF s
  <2>2. Cat(s, out) \in Seq(Unit) /\ Len(Cat(s, out)) = Len(s) + Len(out)
    BY <1>1, <2>1, Joined
  <2>3. \A i \in 1..Len(s) : Cat(s, out)[i] = s[i]
    BY <1>1, <2>1, Joined
  <2> QED
    BY <2>1, <2>2, <2>3 DEF s
<1>4. /\ Len(buffer) \in Nat /\ Len(outgoing) \in Nat /\ Len(out) \in Nat
      /\ buffer # <<>> <=> Len(buffer) # 0
      /\ outgoing # <<>> <=> Len(outgoing) # 0
      /\ out # <<>> <=> Len(out) # 0
      /\ Stream = <<>> <=> Len(Stream) = 0
  BY <1>1, <1>3, Emptiness
<1>5. Stream = Cat(buffer, Cat(outgoing, out))
  BY <1>1, Regrouped DEF Stream
<1> QED
  BY <1>1, <1>2, <1>3, <1>4, <1>5

\* Units that move on stay in the stream.
LEMMA FillKeeps ==
  ASSUME TypeOK, buffer = <<>>, UNCHANGED out, NEW n \in 1..Len(outgoing),
         buffer' = SubSeq(outgoing, 1, n),
         outgoing' = SubSeq(outgoing, n + 1, Len(outgoing))
  PROVE  /\ Stream' = Stream /\ buffer' \in Seq(Unit) /\ outgoing' \in Seq(Unit)
         /\ Len(outgoing') <= Len(outgoing)
         /\ buffer'[Len(buffer')] = outgoing[n]
         /\ outgoing' # <<>> => outgoing'[Len(outgoing')] = outgoing[Len(outgoing)]
<1>1. outgoing \in Seq(Unit) /\ out \in Seq(Unit) /\ Len(outgoing) \in Nat
  BY StreamFacts
<1>2. n \in 0..Len(outgoing) /\ n \in 1..n
  BY <1>1
<1> DEFINE x == SubSeq(outgoing, 1, n)
           y == SubSeq(outgoing, n + 1, Len(outgoing))
<1>3. Cat(x, y) = outgoing
  BY <1>1, <1>2, Parted
<1>4. /\ x \in Seq(Unit) /\ y \in Seq(Unit)
      /\ Len(x) = n /\ Len(y) = Len(outgoing) - n
      /\ x[n] = outgoing[n]
      /\ y # <<>> => y[Len(y)] = outgoing[Len(outgoing)]
  BY <1>1, <1>2, Parted
<1>5. buffer' = x /\ outgoing' = y
  OBVIOUS
<1> HIDE DEF x, y
<1>6. Stream' = Cat(Cat(x, y), out)
  BY <1>5 DEF Stream
<1>7. Stream = Cat(outgoing, out)
  BY <1>1, JoinedEmpty DEF Stream
<1>8. Len(y) <= Len(outgoing)
  BY <1>1, <1>2, <1>4
<1>9. Stream' = Stream
  BY <1>3, <1>6, <1>7
<1> QED
  BY <1>4, <1>5, <1>8, <1>9

LEMMA WriteKeeps ==
  ASSUME TypeOK, UNCHANGED buffer, NEW n \in 1..Len(out),
         outgoing' = Cat(outgoing, SubSeq(out, 1, n)),
         out' = SubSeq(out, n + 1, Len(out))
  PROVE  /\ Stream' = Stream /\ outgoing' \in Seq(Unit) /\ out' \in Seq(Unit)
         /\ Len(outgoing') = Len(outgoing) + n /\ outgoing' # <<>>
         /\ outgoing'[Len(outgoing')] = out[n]
<1>1. outgoing \in Seq(Unit) /\ out \in Seq(Unit) /\ buffer \in Seq(Unit)
      /\ Len(outgoing) \in Nat /\ Len(out) \in Nat
  BY StreamFacts
<1>2. n \in 0..Len(out) /\ n \in 1..n /\ n \in Nat
  BY <1>1
<1>3. Stream' = Stream
  <2>1. Stream' = Cat(Cat(buffer, Cat(outgoing, SubSeq(out, 1, n))), SubSeq(out, n + 1, Len(out)))
    BY DEF Stream
  <2>2. Cat(Cat(buffer, Cat(outgoing, SubSeq(out, 1, n))), SubSeq(out, n + 1, Len(out)))
          = Cat(Cat(buffer, outgoing), out)
    BY <1>1, <1>2, Moved
  <2> QED
    BY <2>1, <2>2 DEF Stream
<1> DEFINE x == SubSeq(out, 1, n)
           y == SubSeq(out, n + 1, Len(out))
<1>4. x \in Seq(Unit) /\ y \in Seq(Unit)
  BY <1>1, <1>2, Parted
<1>5. Len(x) = n /\ x[n] = out[n]
  BY <1>1, <1>2, Parted
<1> HIDE DEF x
<1>6. /\ Cat(outgoing, x) \in Seq(Unit) /\ Len(Cat(outgoing, x)) = Len(outgoing) + Len(x)
      /\ \A i \in (Len(outgoing) + 1)..(Len(outgoing) + Len(x)) :
           Cat(outgoing, x)[i] = x[i - Len(outgoing)]
  BY <1>1, <1>4, Joined
<1>7. /\ Len(Cat(outgoing, x)) = Len(outgoing) + n
      /\ Cat(outgoing, x)[Len(outgoing) + n] = out[n]
  <2>1. /\ Len(outgoing) + n \in (Len(outgoing) + 1)..(Len(outgoing) + n)
        /\ Len(outgoing) + n - Len(outgoing) = n
    BY <1>1, <1>2
  <2> QED
    BY <1>5, <1>6, <2>1
<1>8. Len(outgoing) + n # 0
  BY <1>1, <1>2
<1>9. Cat(outgoing, x) # <<>>
  BY <1>6, <1>7, <1>8, Emptiness
<1>10. outgoing' = Cat(outgoing, x)
  BY DEF x
<1> HIDE DEF y
<1>11. out' = y
  BY DEF y
<1> QED
  BY <1>3, <1>4, <1>6, <1>7, <1>9, <1>10, <1>11

\* Units that the reader consumes, and those of an answer that is never written.
LEMMA ConsumeDrops ==
  ASSUME TypeOK, UNCHANGED <<outgoing, out>>, NEW n \in 0..Len(buffer),
         buffer' = SubSeq(buffer, n + 1, Len(buffer))
  PROVE  /\ buffer' \in Seq(Unit) /\ Len(buffer') = Len(buffer) - n
         /\ buffer' # <<>> => buffer'[Len(buffer')] = buffer[Len(buffer)]
         /\ Stream' = SubSeq(Stream, n + 1, Len(Stream)) /\ n \in 0..Len(Stream)
         /\ Len(Stream') = Len(Stream) - n
         /\ \A i \in 1..(Len(Stream) - n) : Stream'[i] = Stream[n + i]
         /\ Stream' = <<>> <=> Len(Stream') = 0
<1>1. buffer \in Seq(Unit) /\ outgoing \in Seq(Unit) /\ out \in Seq(Unit)
  BY StreamFacts
<1>2. /\ buffer' \in Seq(Unit) /\ Len(buffer') = Len(buffer) - n
      /\ buffer' # <<>> => buffer'[Len(buffer')] = buffer[Len(buffer)]
  BY <1>1, Parted
<1>3. Stream' = SubSeq(Stream, n + 1, Len(Stream)) /\ n \in 0..Len(Stream)
      /\ Stream \in Seq(Unit)
  <2> DEFINE s == Cat(Cat(buffer, outgoing), out)
  <2>1. /\ Cat(Cat(SubSeq(buffer, n + 1, Len(buffer)), outgoing), out) = SubSeq(s, n + 1, Len(s))
        /\ n \in 0..Len(s) /\ s \in Seq(Unit)
    BY <1>1, Dropped
  <2>2. Stream' = Cat(Cat(SubSeq(buffer, n + 1, Len(buffer)), outgoing), out)
    BY DEF Stream
  <2> QED
    BY <2>1, <2>2 DEF Stream
<1> DEFINE t == SubSeq(Stream, n + 1, Len(Stream))
<1>4. /\ t \in Seq(Unit) /\ Len(t) = Len(Stream) - n
      /\ \A i \in 1..(Len(Stream) - n) : t[i] = Stream[n + i]
  BY <1>3, Parted
<1> HIDE DEF t
<1>5. t = <<>> <=> Len(t) = 0
  BY <1>4, Emptiness
<1>6. Stream' = t
  BY <1>3 DEF t
<1> QED
  BY <1>2, <1>3, <1>4, <1>5, <1>6

LEMMA QuitDrops ==
  ASSUME TypeOK, UNCHANGED <<buffer, outgoing>>, out' = <<>>
  PROVE  LET n == Len(buffer) + Len(outgoing)
         IN  /\ n \in 0..Len(Stream) /\ Stream' = SubSeq(Stream, 1, n)
             /\ Len(Stream') = n /\ \A i \in 1..n : Stream'[i] = Stream[i]
             /\ Stream' = <<>> <=> n = 0
<1> DEFINE s == Cat(buffer, outgoing)
           n == Len(buffer) + Len(outgoing)
<1>1. /\ s \in Seq(Unit) /\ out \in Seq(Unit) /\ Stream \in Seq(Unit) /\ Len(s) = n
      /\ Len(Stream) = n + Len(out) /\ n \in Nat /\ Len(out) \in Nat
  BY StreamFacts
<1>2. Stream = Cat(s, out)
  BY DEF Stream
<1>3. Stream' = s
  BY <1>1, JoinedEmpty DEF Stream
<1> HIDE DEF s
<1>4. n \in 0..Len(Stream)
  BY <1>1
<1>5. \A i \in 1..n : Stream[i] = s[i]
  <2>1. s \in Seq(Unit) /\ out \in Seq(Unit)
    BY <1>1
  <2>2. \A i \in 1..Len(s) : Cat(s, out)[i] = s[i]
    BY <2>1, Joined
  <2> QED
    BY <1>1, <1>2, <2>2
<1>6. s = SubSeq(Stream, 1, n)
  <2> DEFINE t == SubSeq(Stream, 1, n)
  <2>1. t \in Seq(Unit) /\ Len(t) = n /\ \A i \in 1..n : t[i] = Stream[i]
    BY <1>1, <1>4, Parted
  <2> HIDE DEF t
  <2>2. Len(s) = Len(t) /\ \A i \in 1..Len(s) : s[i] = t[i]
    BY <1>1, <1>5, <2>1
  <2>3. s = t
    BY <1>1, <2>1, <2>2, SeqEqual
  <2> QED
    BY <2>3 DEF t
<1>7. s = <<>> <=> n = 0
  BY <1>1, Emptiness
<1> QED
  BY <1>1, <1>3, <1>4, <1>5, <1>6, <1>7

\* An answer that is begun comes behind all others.
LEMMA TakeAdds ==
  ASSUME TypeOK, UNCHANGED <<buffer, outgoing>>, out = <<>>,
         NEW k \in Ids, out' = AnswerOf(k)
  PROVE  Stream' = Cat(Stream, AnswerOf(k)) /\ out' \in Seq(Unit)
<1>1. Cat(buffer, outgoing) \in Seq(Unit) /\ AnswerOf(k) \in Seq(Unit)
  BY StreamFacts, AnswerFacts
<1>2. Stream = Cat(buffer, outgoing)
  BY <1>1, JoinedEmpty DEF Stream
<1> QED
  BY <1>1, <1>2 DEF Stream

-----------------------------------------------------------------------------
(* The parts of the invariant that a step leaves alone.                    *)

\* The stream is the same if nothing is done to what it is made of.
LEMMA StreamSame ==
  ASSUME UNCHANGED <<buffer, outgoing, out>>
  PROVE  Stream' = Stream
BY DEF Stream

LEMMA StreamStays ==
  ASSUME StreamInv, Stream' = Stream, UNCHANGED <<run, taken, daemon>>
  PROVE  StreamInv'
BY DEF StreamInv

LEMMA PlaceStays ==
  ASSUME PlaceInv, Stream' = Stream, UNCHANGED <<run, heard, reading, taken, daemon, buffer>>
  PROVE  PlaceInv'
BY DEF PlaceInv, InSync, LeavesBody, tool

LEMMA HeardStays ==
  ASSUME HeardInv, UNCHANGED <<run, heard, reading, daemon>>
  PROVE  HeardInv'
BY DEF HeardInv

LEMMA CountStays ==
  ASSUME CountInv, UNCHANGED <<run, heard, mismatches, daemon>>
  PROVE  CountInv'
BY DEF CountInv, tool

\* Everything is of the same run.
LEMMA RunSame ==
  ASSUME UNCHANGED run
  PROVE  UNCHANGED <<kinds, tool, Requests, Ids, Unit>>
BY DEF kinds, tool, Requests, Ids, Unit

\* What IInv says of the units that come next.
LEMMA FirstUnits ==
  ASSUME IInv
  PROVE  /\ \A i \in 1..Len(Stream) : /\ Stream[i] \in Unit
                                      /\ Genuine(run, taken, Stream[i])
                                      /\ Stream[i].no \in Ids
         /\ \A i \in 1..(Len(Stream) - 1) : Follows(Stream[i], Stream[i + 1])
         /\ taken \in 0..Requests /\ Requests \in Nat
<1>1. TypeOK /\ StreamInv
  BY DEF IInv
<1>2. Stream \in Seq(Unit) /\ \A i \in 1..Len(Stream) : Stream[i] \in Unit
  BY <1>1, StreamFacts, Emptiness
<1>3. taken \in 0..Requests /\ Requests \in Nat
  BY <1>1, RunFacts DEF TypeOK
<1> QED
  BY <1>1, <1>2, <1>3 DEF StreamInv, Chained, Unit

\* What Hear does.
LEMMA HearFacts ==
  ASSUME TypeOK, NEW no \in Ids \cup {Unanswered}, NEW end \in Codes \cup {"none"},
         UNCHANGED run, Hear(no, end)
  PROVE  /\ heard' \in Seq(HeardType) /\ Len(heard') = Len(heard) + 1 /\ Len(heard) \in Nat
         /\ heard'[Len(heard) + 1] = <<no, end>>
         /\ \A k \in 1..Len(heard) : heard'[k] = heard[k]
         /\ reading' \in {"peek", "exited"}
         /\ reading' = "exited" =>
              run.stopAt # 0 /\ (no = Unanswered \/ Len(heard') = run.stopAt)
<1>1. heard \in Seq(HeardType) /\ <<no, end>> \in HeardType
  BY DEF TypeOK, HeardType
<1>2. heard' = Append(heard, <<no, end>>)
  BY DEF Hear
<1>3. /\ heard' \in Seq(HeardType) /\ Len(heard') = Len(heard) + 1 /\ Len(heard) \in Nat
      /\ heard'[Len(heard) + 1] = <<no, end>>
      /\ \A k \in 1..Len(heard) : heard'[k] = heard[k]
  BY <1>1, <1>2, AppendProperties, LenProperties
<1> QED
  BY <1>3 DEF Hear

\* A request without an answer is one more that lacks it.
LEMMA HeardNone ==
  ASSUME IInv, NEW end \in Codes \cup {"none"}, end # "ERROR", UNCHANGED <<run, daemon>>,
         Hear(Unanswered, end),
         daemon = "dead" \/ SplitReads \/ ~InSync
  PROVE  HeardInv' /\ ~InSync' /\ ErrorsIn(heard') = ErrorsIn(heard)
<1>1. TypeOK /\ HeardInv
  BY DEF IInv
<1>2. /\ Len(heard') = Len(heard) + 1 /\ Len(heard) \in Nat
      /\ heard'[Len(heard) + 1] = <<Unanswered, end>>
      /\ \A k \in 1..Len(heard) : heard'[k] = heard[k]
      /\ reading' \in {"peek", "exited"}
  BY <1>1, HearFacts
<1>3. \A k \in 1..Len(heard') : k \in 1..Len(heard) \/ k = Len(heard) + 1
  BY <1>2
<1>4. ~InSync'
  <2>1. ~Matched(run, heard', Len(heard) + 1)
    BY <1>2 DEF Matched, Unanswered
  <2> QED
    BY <1>2, <2>1 DEF InSync, SyncIn
<1>5. ErrorsIn(heard') = ErrorsIn(heard)
  BY <1>2, <1>3 DEF ErrorsIn
<1>6. daemon = "dead" \/ LostIn(run, Len(heard) + 1) \/ SplitReads
  <2> SUFFICES ASSUME ~InSync, ~LostIn(run, Len(heard) + 1), daemon # "dead", ~SplitReads
               PROVE  FALSE
    OBVIOUS
  <2>1. PICK k \in 1..Len(heard) : ~Matched(run, heard, k)
    BY DEF InSync, SyncIn
  <2>2. LostIn(run, k)
    BY <1>1, <2>1 DEF HeardInv
  <2>3. LostIn(run, Len(heard) + 1)
    <3>1. PICK i \in 1..Len(run.kinds) : i < k /\ UnreadIn(run, i)
      BY <2>2 DEF LostIn
    <3>2. i < Len(heard) + 1
      <4>1. i \in Nat /\ k \in Nat
        BY <1>1, <1>2, RunFacts DEF Requests
      <4> QED
        BY <1>2, <3>1, <4>1
    <3> QED
      BY <3>1, <3>2 DEF LostIn
  <2> QED
    BY <2>3
<1>7. ASSUME NEW k \in 1..Len(heard')
      PROVE  \/ Matched(run, heard', k)
             \/ /\ daemon = "dead" \/ LostIn(run, k) \/ SplitReads
                /\ \A i \in k..Len(heard') : heard'[i][1] = Unanswered
  <2>1. CASE k = Len(heard) + 1
    <3>1. \A i \in k..Len(heard') : i = Len(heard) + 1
      BY <1>2, <2>1
    <3> QED
      BY <1>2, <1>6, <2>1, <3>1
  <2>2. CASE k \in 1..Len(heard)
    <3>1. CASE Matched(run, heard, k)
      BY <1>2, <2>2, <3>1 DEF Matched
    <3>2. CASE /\ daemon = "dead" \/ LostIn(run, k) \/ SplitReads
               /\ \A i \in k..Len(heard) : heard[i][1] = Unanswered
      <4>1. \A i \in k..Len(heard') : i \in k..Len(heard) \/ i = Len(heard) + 1
        BY <1>2, <2>2
      <4>2. \A i \in k..Len(heard) : heard'[i] = heard[i]
        BY <1>2, <2>2
      <4> QED
        BY <1>2, <3>2, <4>1, <4>2
    <3> QED
      BY <1>1, <2>2, <3>1, <3>2 DEF HeardInv
  <2> QED
    BY <1>3, <2>1, <2>2
<1>8. HeardInv'
  BY <1>2, <1>7 DEF HeardInv
<1> QED
  BY <1>4, <1>5, <1>8

\* An answer that is heard in its place is one more that is matched.
LEMMA HeardOne ==
  ASSUME IInv, InSync, NEW end \in {"LAST", "ERROR"}, UNCHANGED <<run, daemon>>,
         Len(heard) + 1 \in Ids, end = FinalIn(run, Len(heard) + 1),
         Hear(Len(heard) + 1, end)
  PROVE  /\ HeardInv' /\ (InSync' <=> ~UnreadIn(run, Len(heard) + 1))
         /\ ErrorsIn(heard') = IF end = "ERROR" THEN ErrorsIn(heard) \cup {Len(heard) + 1}
                                                ELSE ErrorsIn(heard)
<1> DEFINE n == Len(heard) + 1
<1>1. TypeOK /\ HeardInv
  BY DEF IInv
<1>2. /\ Len(heard') = n /\ Len(heard) \in Nat
      /\ heard'[n] = <<n, end>>
      /\ \A k \in 1..Len(heard) : heard'[k] = heard[k]
      /\ reading' \in {"peek", "exited"}
  BY <1>1, HearFacts DEF Codes
<1>3. \A k \in 1..Len(heard') : k \in 1..Len(heard) \/ k = n
  BY <1>2
<1>4. \A k \in 1..Len(heard') : Matched(run, heard', k)
  <2>1. Matched(run, heard', n)
    BY <1>2 DEF Matched, Ids, Requests
  <2>2. \A k \in 1..Len(heard) : Matched(run, heard', k)
    BY <1>2 DEF InSync, SyncIn, Matched
  <2> QED
    BY <1>3, <2>1, <2>2
<1>5. HeardInv'
  BY <1>2, <1>4 DEF HeardInv
<1>6. LostIn(run, n + 1) <=> UnreadIn(run, n)
  <2>1. ~LostIn(run, n)
    BY DEF InSync, SyncIn
  <2>2. \A i \in 1..Len(run.kinds) : i < n + 1 <=> i < n \/ i = n
    BY <1>1, <1>2, RunFacts DEF Requests
  <2>3. n \in 1..Len(run.kinds)
    BY DEF Ids, Requests
  <2> QED
    BY <2>1, <2>2, <2>3 DEF LostIn
<1>7. InSync' <=> ~UnreadIn(run, n)
  BY <1>2, <1>4, <1>6 DEF InSync, SyncIn
<1>8. ErrorsIn(heard') = IF end = "ERROR" THEN ErrorsIn(heard) \cup {n} ELSE ErrorsIn(heard)
  BY <1>2, <1>3 DEF ErrorsIn
<1> QED
  BY <1>5, <1>7, <1>8

-----------------------------------------------------------------------------
(* One step, side by side.                                                 *)

\* Nothing happens.
LEMMA StutterStep ==
  ASSUME IInv, UNCHANGED vars
  PROVE  IInv'
<1> USE DEF vars, writer, server, reader
<1>1. Stream' = Stream
  BY StreamSame
<1>2. TypeOK'
  BY DEF IInv, TypeOK, Ids, Requests, Unit
<1>3. PipeInv' /\ EndInv'
  BY DEF IInv, PipeInv, EndInv
<1> QED
  BY <1>1, <1>2, <1>3, StreamStays, PlaceStays, HeardStays, CountStays DEF IInv

\* The writer sends a request, or finds that the daemon is gone.
LEMMA SendStep ==
  ASSUME IInv, Send
  PROVE  IInv'
<1> USE DEF server, reader
<1>1. TypeOK
  BY DEF IInv
<1>2. Stream' = Stream
  BY StreamSame DEF Send
<1>3. TypeOK'
  <2>1. /\ sent' \in 0..Requests /\ taken' \in 0..sent'
        /\ incoming' \in 0..RequestCap /\ writing' \in {"open", "failed", "closed"}
    BY SMTT(20), <1>1, RunFacts, LiveAssumption DEF Send, TypeOK
  <2> QED
    BY <1>1, <2>1, RunSame DEF Send, TypeOK
<1>4. PipeInv' /\ EndInv'
  BY <1>1 DEF IInv, PipeInv, EndInv, Send, TypeOK
<1> QED
  BY <1>2, <1>3, <1>4, StreamStays, PlaceStays, HeardStays, CountStays DEF IInv, Send

\* The writer is dropped.
LEMMA CloseStep ==
  ASSUME IInv, Close
  PROVE  IInv'
<1> USE DEF server, reader
<1>1. Stream' = Stream
  BY StreamSame DEF Close
<1>2. TypeOK'
  BY DEF IInv, Close, TypeOK, Ids, Requests, Unit
<1>3. PipeInv' /\ EndInv'
  BY DEF IInv, PipeInv, EndInv, Close, Over, Written, ReadOut, TypeOK
<1> QED
  BY <1>1, <1>2, <1>3, StreamStays, PlaceStays, HeardStays, CountStays DEF IInv, Close

\* The daemon takes the next request.
LEMMA TakeStep ==
  ASSUME IInv, Take
  PROVE  IInv'
<1> USE DEF writer, reader
<1> DEFINE k == taken + 1
           a == AnswerOf(k)
<1>1. TypeOK /\ PipeInv /\ StreamInv
  BY DEF IInv
<1>2. k \in Ids /\ taken \in Nat /\ Requests \in Nat
  BY <1>1, RunFacts DEF Take, TypeOK, PipeInv, Ids
<1>3. out' = a /\ taken' = k /\ daemon = "serving" /\ UNCHANGED <<run, daemon>>
  BY <1>2 DEF Take, AnswerOf, kinds, Message
<1>4. /\ a \in Seq(Unit) /\ Len(a) \in Nat \ {0} /\ a # <<>> /\ Chained(a)
      /\ a[1].part = "lo"
      /\ \A i \in 1..Len(a) :
           a[i].no = k /\ (a[i].code = "NEXT" \/ a[i].code = FinalIn(run, k))
      /\ a[Len(a)].part = "body" /\ a[Len(a)].code # "NEXT"
  BY <1>1, <1>2, AnswerFacts
<1>5. Stream' = Cat(Stream, a)
  BY <1>1, <1>2, <1>3, TakeAdds DEF Take
<1> HIDE DEF a
<1>6. Stream \in Seq(Unit) /\ Len(Stream) \in Nat /\ (Stream = <<>> <=> Len(Stream) = 0)
  BY <1>1, StreamFacts
<1>7. /\ Cat(Stream, a) \in Seq(Unit) /\ Len(Cat(Stream, a)) = Len(Stream) + Len(a)
      /\ \A i \in 1..Len(Stream) : Cat(Stream, a)[i] = Stream[i]
      /\ \A i \in (Len(Stream) + 1)..(Len(Stream) + Len(a)) :
           Cat(Stream, a)[i] = a[i - Len(Stream)]
  <2>1. Stream \in Seq(Unit) /\ a \in Seq(Unit)
    BY <1>4, <1>6
  <2> QED
    BY <2>1, Joined
<1>8. /\ Len(Stream') = Len(Stream) + Len(a)
      /\ \A i \in 1..Len(Stream) : Stream'[i] = Stream[i]
      /\ \A i \in 1..Len(a) : Stream'[Len(Stream) + i] = a[i]
      /\ Stream' # <<>>
  <2>1. ASSUME NEW i \in 1..Len(a)
        PROVE  Cat(Stream, a)[Len(Stream) + i] = a[i]
    <3>1. /\ Len(Stream) + i \in (Len(Stream) + 1)..(Len(Stream) + Len(a))
          /\ Len(Stream) + i - Len(Stream) = i
      BY <1>4, <1>6
    <3> QED
      BY <1>7, <3>1
  <2>2. Len(Cat(Stream, a)) # 0
    BY <1>4, <1>6, <1>7
  <2>3. Cat(Stream, a) # <<>>
    BY <1>7, <2>2, Emptiness
  <2> QED
    BY <1>5, <1>7, <2>1, <2>3
<1>9. TypeOK'
  <2>1. taken' \in 0..sent' /\ incoming' \in 0..RequestCap
    BY <1>1, LiveAssumption DEF Take, TypeOK, PipeInv
  <2> QED
    BY <1>1, <1>3, <1>4, <2>1, RunSame DEF Take, TypeOK
<1>10. PipeInv'
  BY <1>1, <1>2, <1>3 DEF PipeInv, Take, TypeOK
<1>11. StreamInv'
  <2>1. Chained(Stream')
    <3>1. ASSUME Stream # <<>>
          PROVE  Follows(Stream[Len(Stream)], a[1])
      <4>1. /\ Stream[Len(Stream)].no = taken
            /\ Stream[Len(Stream)].part = "body" /\ Stream[Len(Stream)].code # "NEXT"
        BY <1>1, <1>3, <3>1 DEF StreamInv
      <4>2. a[1].part = "lo" /\ a[1].no = taken + 1
        BY <1>4
      <4> QED
        BY <4>1, <4>2 DEF Follows
    <3>2. Chained(Stream)
      BY <1>1 DEF StreamInv
    <3> QED
      BY <1>4, <1>5, <1>6, <3>1, <3>2, ChainJoins
  <2>2. ASSUME NEW i \in 1..Len(Stream')
        PROVE  Genuine(run, k, Stream'[i])
    <3>1. CASE i \in 1..Len(Stream)
      <4>1. Genuine(run, taken, Stream[i])
        BY <1>1, <3>1 DEF StreamInv
      <4> QED
        BY <1>2, <1>8, <3>1, <4>1 DEF Genuine
    <3>2. CASE i \notin 1..Len(Stream)
      <4>1. i - Len(Stream) \in 1..Len(a) /\ Len(Stream) + (i - Len(Stream)) = i
        BY <1>4, <1>6, <1>8, <3>2
      <4>2. Stream'[i] = a[i - Len(Stream)]
        BY <1>8, <4>1
      <4>3. k \in 1..k
        BY <1>2
      <4> QED
        BY <1>4, <4>1, <4>2, <4>3 DEF Genuine
    <3> QED
      BY <3>1, <3>2
  <2>3. Stream'[Len(Stream')] = a[Len(a)] /\ a[Len(a)].no = k
    <3>1. Len(a) \in 1..Len(a)
      BY <1>4
    <3> QED
      BY <1>4, <1>8, <3>1
  <2> QED
    BY <1>3, <1>4, <2>1, <2>2, <2>3 DEF StreamInv
<1>12. PlaceInv'
  <2>1. CASE Stream # <<>>
    <3>1. Stream'[1] = Stream[1]
      BY <1>6, <1>8, <2>1
    <3> QED
      BY <1>3, <1>8, <2>1, <3>1 DEF IInv, PlaceInv, InSync, LeavesBody, tool, Take
  <2>2. CASE Stream = <<>>
    <3>1. Stream'[1] = a[1]
      <4>1. 1 \in 1..Len(a) /\ Len(Stream) + 1 = 1
        BY <1>4, <1>6, <2>2
      <4> QED
        BY <1>8, <4>1
    <3>2. 1 \in 1..Len(a)
      BY <1>4
    <3>3. Stream'[1].part = "lo" /\ Stream'[1].no = k
      BY <1>4, <3>1, <3>2
    <3> QED
      BY <1>3, <1>8, <2>2, <3>3 DEF IInv, PlaceInv, InSync, LeavesBody, tool, Take
  <2> QED
    BY <2>1, <2>2
<1>13. EndInv'
  BY DEF IInv, EndInv, Take
<1> QED
  BY <1>9, <1>10, <1>11, <1>12, <1>13, HeardStays, CountStays DEF IInv, Take

\* The daemon writes some units.
LEMMA WriteStep ==
  ASSUME IInv, Write
  PROVE  IInv'
<1> USE DEF writer, reader
<1>1. TypeOK /\ PipeInv
  BY DEF IInv
<1>2. PICK n \in 1..Len(out) : /\ Room(n)
                               /\ outgoing' = outgoing \o SubSeq(out, 1, n)
                               /\ out' = SubSeq(out, n + 1, Len(out))
  BY DEF Write
<1>3. outgoing' = Cat(outgoing, SubSeq(out, 1, n))
  BY <1>2 DEF Cat
<1>4. /\ Stream' = Stream /\ outgoing' \in Seq(Unit) /\ out' \in Seq(Unit)
      /\ Len(outgoing') = Len(outgoing) + n /\ outgoing' # <<>>
      /\ outgoing'[Len(outgoing')] = out[n]
  BY <1>1, <1>2, <1>3, WriteKeeps DEF Write
<1>5. TypeOK'
  <2>1. Len(outgoing') <= AnswerCap
    BY <1>2, <1>4 DEF Room
  <2> QED
    BY <1>1, <1>4, <2>1 DEF TypeOK, Write, Ids, Requests, Unit
<1>6. PipeInv' /\ EndInv'
  BY <1>1, <1>2, <1>4 DEF IInv, PipeInv, EndInv, Write, Room, Cut
<1> QED
  BY <1>4, <1>5, <1>6, StreamStays, PlaceStays, HeardStays, CountStays DEF IInv, Write

\* The daemon goes away, with what it has not written.
LEMMA GoneStep ==
  ASSUME IInv, daemon = "serving", out' = <<>>,
         UNCHANGED <<run, writer, reader, incoming, outgoing, taken>>,
         daemon' = "dead" \/ (daemon' = "gone" /\ writing = "closed")
  PROVE  IInv'
<1> USE DEF writer, reader
<1> DEFINE n == Len(buffer) + Len(outgoing)
<1>1. TypeOK /\ PipeInv /\ StreamInv
  BY DEF IInv
<1>2. /\ n \in 0..Len(Stream) /\ Stream' = SubSeq(Stream, 1, n)
      /\ Len(Stream') = n /\ \A i \in 1..n : Stream'[i] = Stream[i]
      /\ Stream' = <<>> <=> n = 0
  BY <1>1, QuitDrops
<1>3. Stream \in Seq(Unit) /\ Len(Stream) \in Nat /\ (Stream = <<>> <=> Len(Stream) = 0)
  BY <1>1, StreamFacts
<1>4. TypeOK'
  <2>1. out' \in Seq(Unit)' /\ UNCHANGED <<Ids, Requests>>
    BY EmptySeq DEF Ids, Requests
  <2> QED
    BY <1>1, <2>1 DEF TypeOK, Unit
<1>5. StreamInv'
  <2>1. Chained(Stream')
    BY <1>1, <1>2, <1>3, ChainParts DEF StreamInv
  <2>2. \A i \in 1..Len(Stream') : Genuine(run, taken, Stream'[i])
    BY <1>1, <1>2, <1>3 DEF StreamInv
  <2> QED
    BY <2>1, <2>2 DEF StreamInv
<1>6. PipeInv' /\ EndInv'
  BY <1>1 DEF IInv, PipeInv, EndInv
<1>7. PlaceInv'
  <2>1. Stream' # <<>> => Stream # <<>> /\ Stream'[1] = Stream[1]
    BY <1>2, <1>3
  <2> QED
    BY <2>1 DEF IInv, PlaceInv, InSync, LeavesBody, tool
<1>8. HeardInv' /\ CountInv'
  BY DEF IInv, HeardInv, CountInv, tool
<1> QED
  BY <1>4, <1>5, <1>6, <1>7, <1>8 DEF IInv

\* The daemon finds nobody to write to, or goes away, or dies.
LEMMA WriteFailsStep ==
  ASSUME IInv, WriteFails
  PROVE  IInv'
BY GoneStep DEF WriteFails

LEMMA QuitStep ==
  ASSUME IInv, Quit
  PROVE  IInv'
BY GoneStep DEF Quit

\* The reader gets what is in the pipe, or the first part of it.
LEMMA FillStep ==
  ASSUME IInv, Fill
  PROVE  IInv'
<1> USE DEF writer, server
<1>1. TypeOK /\ PipeInv
  BY DEF IInv
<1>2. PICK n \in 1..Len(outgoing) : /\ Cut(outgoing, n)
                                    /\ buffer' = SubSeq(outgoing, 1, n)
                                    /\ outgoing' = SubSeq(outgoing, n + 1, Len(outgoing))
  BY DEF Fill
<1>3. /\ Stream' = Stream /\ buffer' \in Seq(Unit) /\ outgoing' \in Seq(Unit)
      /\ Len(outgoing') <= Len(outgoing) /\ Len(outgoing') \in Nat /\ Len(outgoing) \in Nat
      /\ buffer'[Len(buffer')] = outgoing[n]
      /\ outgoing' # <<>> => outgoing'[Len(outgoing')] = outgoing[Len(outgoing)]
      /\ outgoing # <<>>
  <2>1. /\ Stream' = Stream /\ buffer' \in Seq(Unit) /\ outgoing' \in Seq(Unit)
        /\ Len(outgoing') <= Len(outgoing)
        /\ buffer'[Len(buffer')] = outgoing[n]
        /\ outgoing' # <<>> => outgoing'[Len(outgoing')] = outgoing[Len(outgoing)]
    BY <1>1, <1>2, FillKeeps DEF Fill
  <2>2. Len(outgoing') \in Nat
    BY <2>1, LenProperties
  <2>3. Len(outgoing) \in Nat /\ outgoing # <<>>
    BY <1>1, <1>2, StreamFacts
  <2> QED
    BY <2>1, <2>2, <2>3
<1>4. TypeOK'
  <2>1. Len(outgoing') <= AnswerCap
    BY <1>1, <1>3, LiveAssumption DEF TypeOK
  <2> QED
    BY <1>1, <1>3, <2>1, RunSame DEF TypeOK, Fill
<1>5. StreamInv'
  BY <1>3, StreamStays DEF IInv, Fill
<1>6. PipeInv' /\ EndInv'
  BY <1>1, <1>2, <1>3 DEF IInv, PipeInv, EndInv, Fill, Cut
<1>7. PlaceInv'
  <2>1. Len(buffer) # 1
    BY <1>1, StreamFacts DEF Fill
  <2> QED
    BY <1>3, <2>1 DEF IInv, PlaceInv, InSync, LeavesBody, tool, Fill
<1> QED
  BY <1>4, <1>5, <1>6, <1>7, HeardStays, CountStays DEF IInv, Fill

\* The first unit of the buffer is that of the stream.
LEMMA BufferFirst ==
  ASSUME TypeOK, buffer # <<>>
  PROVE  /\ Stream # <<>> /\ Stream[1] = buffer[1]
         /\ Len(Stream) \in Nat \ {0} /\ 1 \in 1..Len(Stream)
         /\ Len(buffer) \in Nat \ {0} /\ Len(buffer) <= Len(Stream)
BY StreamFacts

\* Units that are consumed are missing from the stream, and from nothing else.
LEMMA StreamConsumed ==
  ASSUME IInv, UNCHANGED <<run, outgoing, out, taken, daemon, sent, incoming>>,
         NEW n \in 0..Len(buffer), buffer' = SubSeq(buffer, n + 1, Len(buffer))
  PROVE  StreamInv' /\ PipeInv' /\ buffer' \in Seq(Unit)
<1>1. TypeOK /\ StreamInv /\ PipeInv
  BY DEF IInv
<1>2. /\ buffer' \in Seq(Unit) /\ Len(buffer') = Len(buffer) - n
      /\ buffer' # <<>> => buffer'[Len(buffer')] = buffer[Len(buffer)]
      /\ Stream' = SubSeq(Stream, n + 1, Len(Stream)) /\ n \in 0..Len(Stream)
      /\ Len(Stream') = Len(Stream) - n
      /\ \A i \in 1..(Len(Stream) - n) : Stream'[i] = Stream[n + i]
      /\ Stream' = <<>> <=> Len(Stream') = 0
  BY <1>1, ConsumeDrops
<1>3. /\ Stream \in Seq(Unit) /\ Len(Stream) \in Nat /\ (Stream = <<>> <=> Len(Stream) = 0)
      /\ Len(buffer) \in Nat /\ (buffer # <<>> <=> Len(buffer) # 0)
  BY <1>1, StreamFacts
<1>4. StreamInv'
  <2>1. Chained(Stream')
    BY <1>1, <1>2, <1>3, ChainParts DEF StreamInv
  <2>2. ASSUME NEW i \in 1..Len(Stream')
        PROVE  Genuine(run, taken, Stream'[i])
    <3>1. i \in 1..(Len(Stream) - n) /\ n + i \in 1..Len(Stream)
      BY <1>2, <1>3
    <3>2. Stream'[i] = Stream[n + i]
      BY <1>2, <3>1
    <3>3. Genuine(run, taken, Stream[n + i])
      BY <1>1, <3>1 DEF StreamInv
    <3> QED
      BY <3>2, <3>3
  <2>3. Stream' # <<>> => Stream # <<>> /\ Stream'[Len(Stream')] = Stream[Len(Stream)]
    <3>1. Stream' # <<>> => /\ Len(Stream) - n \in 1..(Len(Stream) - n)
                            /\ n + (Len(Stream) - n) = Len(Stream) /\ Len(Stream) # 0
      BY <1>2, <1>3
    <3> QED
      BY <1>2, <1>3, <3>1
  <2> QED
    BY <1>1, <2>1, <2>2, <2>3 DEF StreamInv
<1>5. buffer' # <<>> => buffer # <<>>
  <2>1. buffer' # <<>> => Len(buffer') # 0 /\ Len(buffer') \in Nat
    BY <1>2, Emptiness
  <2> QED
    BY <1>2, <1>3, <2>1
<1>6. PipeInv'
  BY <1>1, <1>2, <1>5 DEF PipeInv
<1> QED
  BY <1>2, <1>4, <1>6

\* A reader that gives up, or is through.
LEMMA PeekFailsStep ==
  ASSUME IInv, PeekFails
  PROVE  IInv'
<1> USE DEF writer, server
<1>1. Stream' = Stream
  BY StreamSame DEF PeekFails
<1>2. TypeOK'
  BY RunSame DEF IInv, PeekFails, TypeOK
<1>3. PipeInv' /\ EndInv'
  BY DEF IInv, PipeInv, EndInv, PeekFails, Resets
<1>4. PlaceInv' /\ HeardInv' /\ CountInv'
  BY DEF IInv, PlaceInv, HeardInv, CountInv, PeekFails, Resets, tool, Codes
<1> QED
  BY <1>1, <1>2, <1>3, <1>4, StreamStays DEF IInv, PeekFails

LEMMA EndReadingStep ==
  ASSUME IInv, EndReading
  PROVE  IInv'
<1> USE DEF writer, server
<1>1. Stream' = Stream
  BY StreamSame DEF EndReading
<1>2. TypeOK'
  BY RunSame DEF IInv, EndReading, TypeOK
<1>3. PipeInv' /\ EndInv'
  <2>1. Len(heard) \in Nat /\ run.found \in Nat
    BY RunFacts, LenProperties DEF IInv, TypeOK
  <2> QED
    BY <2>1 DEF IInv, PipeInv, EndInv, EndReading, Expecting
<1>4. PlaceInv' /\ HeardInv' /\ CountInv'
  BY DEF IInv, PlaceInv, HeardInv, CountInv, EndReading, tool, Codes
<1> QED
  BY <1>1, <1>2, <1>3, <1>4, StreamStays DEF IInv, EndReading

\* The reader finds a code.
LEMMA PeekCodeStep ==
  ASSUME IInv, PeekCode
  PROVE  IInv'
<1> USE DEF writer, server
<1> DEFINE n == Len(heard) + 1
           code == buffer[1].code
<1>1. TypeOK /\ StreamInv /\ PipeInv /\ PlaceInv
  BY DEF IInv
<1>2. /\ Len(buffer) >= 2 /\ buffer[1].part = "lo" /\ reading = "peek" /\ writing # "closed"
      /\ buffer' = SubSeq(buffer, 2 + 1, Len(buffer))
      /\ UNCHANGED <<run, writing, sent, incoming, outgoing, out, taken, daemon>>
  BY DEF PeekCode, Running
<1>3. /\ Len(buffer) \in Nat /\ Len(Stream) \in Nat /\ Len(buffer) <= Len(Stream)
      /\ (Stream = <<>> <=> Len(Stream) = 0) /\ Stream # <<>>
      /\ Stream[1] = buffer[1] /\ 1 \in 1..Len(Stream)
      /\ 2 \in 0..Len(buffer) /\ Len(buffer) # 1
  <2>1. buffer # <<>> /\ Len(buffer) \in Nat /\ 2 \in 0..Len(buffer) /\ Len(buffer) # 1
    BY <1>1, <1>2, StreamFacts
  <2>2. Stream = <<>> <=> Len(Stream) = 0
    BY <1>1, StreamFacts
  <2> QED
    BY <1>1, <2>1, <2>2, BufferFirst
<1>4. /\ Len(Stream') = Len(Stream) - 2 /\ (Stream' = <<>> <=> Len(Stream') = 0)
      /\ \A i \in 1..(Len(Stream) - 2) : Stream'[i] = Stream[2 + i]
  BY <1>1, <1>2, <1>3, ConsumeDrops
<1>5. StreamInv' /\ PipeInv' /\ buffer' \in Seq(Unit)
  BY <1>2, <1>3, StreamConsumed
<1>6. InSync /\ buffer[1].no = n
  BY <1>1, <1>2, <1>3 DEF PlaceInv
<1>7. /\ n \in Ids /\ code \in Codes
      /\ code = "NEXT" \/ code = FinalIn(run, n)
  BY <1>3, <1>6, FirstUnits DEF Unit, Genuine
<1>8. Stream' # <<>> => /\ Stream'[1].part = "body" /\ Stream'[1].no = n
                        /\ Stream'[1].code = code
  <2> SUFFICES ASSUME Stream' # <<>>
               PROVE  /\ Stream'[1].part = "body" /\ Stream'[1].no = n
                      /\ Stream'[1].code = code
    OBVIOUS
  <2>1. Len(Stream) >= 3 /\ 1 \in 1..(Len(Stream) - 2)
    BY <1>3, <1>4
  <2>2. 1 \in 1..(Len(Stream) - 1) /\ 2 \in 1..(Len(Stream) - 1) /\ 1 + 1 = 2 /\ 2 + 1 = 3
    BY <1>3, <2>1
  <2>3. Follows(Stream[1], Stream[2]) /\ Follows(Stream[2], Stream[3])
    BY <2>2, FirstUnits
  <2>4. Stream'[1] = Stream[3]
    BY <1>4, <2>1
  <2> QED
    BY <1>2, <1>3, <1>6, <2>3, <2>4 DEF Follows
<1>9. Stream' = <<>> => daemon # "serving"
  <2> SUFFICES ASSUME Stream' = <<>>, daemon = "serving"
               PROVE  FALSE
    OBVIOUS
  <2>1. Len(Stream) = 2 /\ 1 \in 1..(Len(Stream) - 1) /\ 1 + 1 = 2
    BY <1>2, <1>3, <1>4
  <2>2. Follows(Stream[1], Stream[2])
    BY <2>1, FirstUnits
  <2>3. Stream[2].part = "body"
    BY <1>1, <1>3, <2>1 DEF StreamInv
  <2> QED
    BY <1>2, <1>3, <2>2, <2>3 DEF Follows
<1>10. CASE ~LeavesBody(code)
  <2>1. reading' = code /\ UNCHANGED <<heard, mismatches>>
    BY <1>10 DEF PeekCode
  <2>2. TypeOK'
    BY <1>1, <1>2, <1>5, <1>7, <2>1, RunSame DEF TypeOK
  <2>3. EndInv'
    BY <1>2, <1>7, <2>1 DEF IInv, EndInv, Codes
  <2>4. HeardInv' /\ CountInv'
    BY <1>2, <1>7, <2>1 DEF IInv, HeardInv, CountInv, Codes, tool
  <2>5. InSync' /\ ~LeavesBody(reading)'
    BY <1>2, <1>6, <1>10, <2>1 DEF InSync, LeavesBody, tool
  <2>6. reading' # "peek" /\ daemon' = daemon
    BY <1>2, <1>7, <2>1 DEF Codes
  <2>7. PlaceInv'
    BY <1>8, <1>9, <2>1, <2>5, <2>6 DEF PlaceInv
  <2> QED
    BY <1>5, <2>2, <2>3, <2>4, <2>7 DEF IInv
<1>11. CASE LeavesBody(code)
  <2>1. /\ Hear(n, code)
        /\ mismatches' = IF code = "ERROR" THEN mismatches + 1 ELSE mismatches
        /\ tool = "replay" /\ code \in {"LAST", "ERROR"}
        /\ code = "ERROR" \/ n \in run.unknown
    BY <1>6, <1>11 DEF PeekCode, LeavesBody
  <2>2. /\ heard' \in Seq(HeardType) /\ Len(heard') = n
        /\ reading' \in {"peek", "exited"}
        /\ reading' = "exited" => run.stopAt # 0
    BY <1>1, <1>2, <1>7, <2>1, HearFacts
  <2>3. reading' = "peek"
    BY <1>1, <2>1, <2>2, RunFacts
  <2>4. code = FinalIn(run, n)
    BY <1>7, <2>1
  <2>5. /\ HeardInv' /\ (InSync' <=> ~UnreadIn(run, n))
        /\ ErrorsIn(heard') = IF code = "ERROR" THEN ErrorsIn(heard) \cup {n}
                                                ELSE ErrorsIn(heard)
    BY <1>2, <1>6, <1>7, <2>1, <2>4, HeardOne
  <2>6. ~InSync'
    BY <1>1, <1>7, <2>1, <2>4, <2>5, FinalFacts
  <2>7. TypeOK'
    <3>1. mismatches' \in Nat
      BY <1>1, <2>1 DEF TypeOK
    <3> QED
      BY <1>1, <1>2, <1>5, <2>2, <2>3, <3>1, RunSame DEF TypeOK, HeardType
  <2>8. EndInv'
    BY <1>2, <2>3 DEF IInv, EndInv
  <2>9. PlaceInv'
    BY <1>2, <1>8, <1>9, <2>3, <2>6 DEF PlaceInv, Codes
  <2>10. CountInv'
    <3>1. Len(heard) \in Nat
      BY <1>1, LenProperties DEF TypeOK
    <3>2. /\ IsFiniteSet(ErrorsIn(heard)) /\ n \notin ErrorsIn(heard)
      <4>1. IsFiniteSet(1..Len(heard))
        BY <3>1, FS_Interval
      <4>2. ErrorsIn(heard) \subseteq 1..Len(heard)
        BY DEF ErrorsIn
      <4>3. n \notin 1..Len(heard)
        BY <3>1
      <4> QED
        BY <4>1, <4>2, <4>3, FS_Subset
    <3>3. Cardinality(ErrorsIn(heard) \cup {n}) = Cardinality(ErrorsIn(heard)) + 1
      BY <3>2, FS_AddElement
    <3>4. CountInv
      BY DEF IInv
    <3> QED
      BY <1>2, <2>1, <2>5, <3>3, <3>4 DEF CountInv, tool
  <2> QED
    BY <1>5, <2>5, <2>7, <2>8, <2>9, <2>10 DEF IInv
<1> QED
  BY <1>10, <1>11

\* The reader finds none.
LEMMA PeekNoneStep ==
  ASSUME IInv, PeekNone
  PROVE  IInv'
<1> USE DEF writer, server
<1>1. TypeOK /\ PipeInv /\ PlaceInv /\ EndInv
  BY DEF IInv
<1>2. /\ Hear(Unanswered, "none") /\ reading = "peek" /\ writing # "closed"
      /\ UNCHANGED <<run, writing, sent, incoming, outgoing, out, taken, daemon,
                     buffer, mismatches>>
  BY DEF PeekNone, Running
<1>3. Stream' = Stream
  BY <1>2, StreamSame
<1>4. daemon \in {"serving", "gone", "dead"} /\ (Eof => daemon = "dead")
  BY <1>1, <1>2 DEF Eof, EndInv, TypeOK
<1>5. Len(buffer) > 0 => buffer # <<>> /\ Stream # <<>> /\ Stream[1] = buffer[1]
  <2>1. Len(buffer) > 0 => buffer # <<>>
    BY <1>1, StreamFacts
  <2> QED
    BY <1>1, <2>1, BufferFirst
<1>6. daemon = "dead" \/ SplitReads \/ ~InSync
  <2> SUFFICES ASSUME daemon # "dead", ~SplitReads, InSync
               PROVE  FALSE
    OBVIOUS
  <2>1. CASE Len(buffer) = 1
    <3>1. buffer[1].part # "lo"
      BY <1>1, <1>5, <2>1 DEF PipeInv
    <3> QED
      BY <1>1, <1>2, <1>5, <2>1, <3>1 DEF PlaceInv
  <2>2. CASE Len(buffer) > 1 /\ buffer[1].part # "lo"
    <3>1. Len(buffer) > 0
      BY <1>1, <2>2, StreamFacts
    <3> QED
      BY <1>1, <1>2, <1>5, <2>2, <3>1 DEF PlaceInv
  <2> QED
    BY <1>4, <2>1, <2>2 DEF PeekNone
<1>7. /\ heard' \in Seq(HeardType) /\ Len(heard') = Len(heard) + 1
      /\ reading' \in {"peek", "exited"}
      /\ reading' = "exited" => run.stopAt # 0
  BY <1>1, <1>2, HearFacts
<1>8. HeardInv' /\ ~InSync' /\ ErrorsIn(heard') = ErrorsIn(heard)
  BY <1>2, <1>6, HeardNone
<1>9. TypeOK'
  BY <1>1, <1>2, <1>7, RunSame DEF TypeOK, HeardType
<1>10. PipeInv' /\ CountInv'
  BY <1>2, <1>8 DEF IInv, PipeInv, CountInv, tool
<1>11. EndInv'
  <2>1. ASSUME reading' = "exited"
        PROVE  daemon = "dead" \/ SplitReads
    <3> SUFFICES ASSUME daemon # "dead", ~SplitReads
                 PROVE  FALSE
      OBVIOUS
    <3>1. run.tool # "replay"
      BY <1>1, <1>7, <2>1, RunFacts DEF tool
    <3>2. \A k : ~LostIn(run, k)
      BY <3>1 DEF LostIn, UnreadIn
    <3>3. /\ Len(heard') \in 1..Len(heard') /\ heard'[Len(heard')] = <<Unanswered, "none">>
          /\ Len(heard) \in Nat
      BY <1>1, <1>2, HearFacts
    <3>4. ~Matched(run, heard', Len(heard'))
      BY <3>3 DEF Matched, Unanswered
    <3> QED
      BY <1>2, <1>8, <3>2, <3>3, <3>4 DEF HeardInv
  <2> QED
    BY <1>1, <1>2, <1>7, <2>1 DEF EndInv
<1>12. PlaceInv'
  <2>1. Stream # <<>> => Stream[1].part = "body" \/ Len(buffer) = 1
    <3> SUFFICES ASSUME Stream # <<>>, Len(buffer) # 1
                 PROVE  Stream[1].part = "body"
      OBVIOUS
    <3>1. ~Eof
      BY <1>1, StreamFacts DEF Eof, PipeInv
    <3>2. Len(buffer) > 1 /\ buffer[1].part # "lo"
      BY <3>1 DEF PeekNone
    <3>3. Len(buffer) > 0
      BY <1>1, <3>2, StreamFacts
    <3> QED
      BY <1>1, <1>2, <1>5, <3>2, <3>3 DEF PlaceInv
  <2>2. Stream = <<>> => daemon # "serving"
    BY <1>1, <1>4, <1>5 DEF PeekNone, Eof
  <2> QED
    BY <1>2, <1>3, <1>7, <1>8, <2>1, <2>2 DEF PlaceInv, Codes
<1> QED
  BY <1>2, <1>3, <1>8, <1>9, <1>10, <1>11, <1>12, StreamStays DEF IInv

\* The reader reads what belongs to the code.
LEMMA ReadBodyStep ==
  ASSUME IInv, ReadBody
  PROVE  IInv'
<1> USE DEF writer, server
<1> DEFINE n == Len(heard) + 1
<1>1. TypeOK /\ StreamInv /\ PipeInv /\ PlaceInv
  BY DEF IInv
<1>2. /\ reading \in Codes /\ buffer # <<>> /\ writing # "closed"
      /\ UNCHANGED <<run, writing, sent, incoming, outgoing, out, taken, daemon, mismatches>>
  BY DEF ReadBody, Running
<1>3. /\ Len(buffer) \in Nat /\ Len(Stream) \in Nat
      /\ (Stream = <<>> <=> Len(Stream) = 0) /\ Stream # <<>>
      /\ Stream[1] = buffer[1] /\ 1 \in 1..Len(Stream) /\ 1 \in 0..Len(buffer)
      /\ buffer \in Seq(Unit)
  BY <1>1, <1>2, StreamFacts, BufferFirst
<1>4. buffer' = SubSeq(buffer, 1 + 1, Len(buffer))
  <2>1. buffer' = Tail(buffer)
    BY DEF ReadBody
  <2>2. Tail(buffer) = SubSeq(buffer, 2, Len(buffer))
    BY <1>3
  <2> QED
    BY <2>1, <2>2
<1>5. /\ Len(Stream') = Len(Stream) - 1 /\ (Stream' = <<>> <=> Len(Stream') = 0)
      /\ \A i \in 1..(Len(Stream) - 1) : Stream'[i] = Stream[1 + i]
  BY <1>1, <1>2, <1>3, <1>4, ConsumeDrops
<1>6. StreamInv' /\ PipeInv' /\ buffer' \in Seq(Unit)
  BY <1>2, <1>3, <1>4, StreamConsumed
<1>7. /\ InSync /\ ~LeavesBody(reading)
      /\ Stream[1].no = n /\ Stream[1].part = "body" /\ Stream[1].code = reading
  BY <1>1, <1>2, <1>3 DEF PlaceInv
<1>8. n \in Ids /\ (reading = "NEXT" \/ reading = FinalIn(run, n))
  BY <1>3, <1>7, FirstUnits DEF Genuine
<1>9. Head(buffer).no = n /\ Head(buffer).part = "body" /\ Head(buffer).code = reading
  <2>1. Head(buffer) = buffer[1]
    BY <1>3
  <2> QED
    BY <1>3, <1>7, <2>1
<1>10. Stream' # <<>> =>
         /\ Stream'[1].part = "lo"
         /\ Stream'[1].no = IF reading = "NEXT" THEN n ELSE n + 1
  <2> SUFFICES ASSUME Stream' # <<>>
               PROVE  /\ Stream'[1].part = "lo"
                      /\ Stream'[1].no = IF reading = "NEXT" THEN n ELSE n + 1
    OBVIOUS
  <2>1. 1 \in 1..(Len(Stream) - 1) /\ 1 + 1 = 2
    BY <1>3, <1>5
  <2>2. Follows(Stream[1], Stream[2]) /\ Stream'[1] = Stream[2]
    BY <1>5, <2>1, FirstUnits
  <2> QED
    BY <1>7, <2>2 DEF Follows
<1>11. Stream' = <<>> /\ daemon = "serving" => taken = n /\ reading # "NEXT"
  <2> SUFFICES ASSUME Stream' = <<>>, daemon = "serving"
               PROVE  taken = n /\ reading # "NEXT"
    OBVIOUS
  <2>1. Len(Stream) = 1
    BY <1>3, <1>5
  <2> QED
    BY <1>1, <1>3, <1>7, <2>1 DEF StreamInv
<1>12. CASE reading = "NEXT"
  <2>1. reading' = "peek" /\ UNCHANGED heard
    BY <1>9, <1>12 DEF ReadBody
  <2>2. TypeOK'
    BY <1>1, <1>2, <1>6, <2>1, RunSame DEF TypeOK
  <2>3. EndInv' /\ HeardInv' /\ CountInv'
    BY <1>2, <2>1 DEF IInv, EndInv, HeardInv, CountInv, tool
  <2>4. InSync'
    BY <1>2, <1>7, <2>1 DEF InSync
  <2>5. PlaceInv'
    BY <1>2, <1>10, <1>11, <1>12, <2>1, <2>4 DEF PlaceInv, Codes
  <2> QED
    BY <1>6, <2>2, <2>3, <2>5 DEF IInv
<1>13. CASE reading # "NEXT"
  <2>1. Hear(n, reading) /\ reading \in {"LAST", "ERROR"} /\ reading = FinalIn(run, n)
    BY <1>2, <1>8, <1>9, <1>13 DEF ReadBody, Codes
  <2>2. /\ heard' \in Seq(HeardType) /\ Len(heard') = n /\ Len(heard) \in Nat
        /\ reading' \in {"peek", "exited"}
        /\ reading' = "exited" =>
             run.stopAt # 0 /\ (n = Unanswered \/ Len(heard') = run.stopAt)
    BY <1>1, <1>2, <1>8, <2>1, HearFacts
  <2>3. /\ HeardInv' /\ (InSync' <=> ~UnreadIn(run, n))
        /\ ErrorsIn(heard') = IF reading = "ERROR" THEN ErrorsIn(heard) \cup {n}
                                                   ELSE ErrorsIn(heard)
    BY <1>2, <1>7, <1>8, <2>1, HeardOne
  <2>4. ~(tool = "replay" /\ (reading = "ERROR" \/ n \in run.unknown))
    BY <1>7, <2>1 DEF LeavesBody
  <2>5. InSync'
    BY <1>1, <1>8, <2>1, <2>3, <2>4, FinalFacts
  <2>6. TypeOK'
    BY <1>1, <1>2, <1>6, <2>2, RunSame DEF TypeOK, HeardType
  <2>7. EndInv'
    <3>1. n # Unanswered
      BY <2>2 DEF Unanswered
    <3> QED
      BY <1>2, <2>2, <3>1 DEF IInv, EndInv
  <2>8. CountInv'
    BY <1>2, <2>3, <2>4 DEF IInv, CountInv, tool
  <2>9. PlaceInv'
    BY <1>2, <1>10, <1>11, <1>13, <2>2, <2>5 DEF PlaceInv, Codes
  <2> QED
    BY <1>6, <2>3, <2>6, <2>7, <2>8, <2>9 DEF IInv
<1> QED
  BY <1>12, <1>13

\* The stream ends where that should be.
LEMMA LoseBodyStep ==
  ASSUME IInv, LoseBody
  PROVE  IInv'
<1> USE DEF writer, server
<1>1. TypeOK /\ PipeInv /\ PlaceInv /\ EndInv
  BY DEF IInv
<1>2. /\ reading \in Codes /\ writing # "closed"
      /\ UNCHANGED <<run, writing, sent, incoming, outgoing, out, taken, daemon, buffer>>
      /\ mismatches' \in Nat
  BY <1>1 DEF LoseBody, Running, TypeOK
<1>3. Stream' = Stream
  BY <1>2, StreamSame
<1>4. daemon = "dead"
  BY <1>1, <1>2 DEF LoseBody, Eof, Resets, EndInv, TypeOK
<1>5. StreamInv' /\ PipeInv' /\ CountInv'
  BY <1>2, <1>3, <1>4, StreamStays DEF IInv, PipeInv, CountInv
<1>6. CASE reading = "LAST"
  <2>1. Hear(Unanswered, "LAST")
    BY <1>6 DEF LoseBody
  <2>2. heard' \in Seq(HeardType) /\ reading' \in {"peek", "exited"}
    BY <1>1, <1>2, <2>1, HearFacts DEF Codes
  <2>3. HeardInv' /\ ~InSync'
    BY <1>2, <1>4, <2>1, HeardNone DEF Codes
  <2>4. TypeOK'
    BY <1>1, <1>2, <2>2, RunSame DEF TypeOK, HeardType
  <2>5. EndInv' /\ PlaceInv'
    BY <1>1, <1>2, <1>3, <1>4, <2>2, <2>3 DEF EndInv, PlaceInv, Codes
  <2> QED
    BY <1>5, <2>3, <2>4, <2>5 DEF IInv
<1>7. CASE reading # "LAST"
  <2>1. reading' \in {"done", "failed"} /\ UNCHANGED heard
    BY <1>7 DEF LoseBody
  <2>2. TypeOK'
    BY <1>1, <1>2, <2>1, RunSame DEF TypeOK
  <2>3. EndInv' /\ PlaceInv' /\ HeardInv'
    BY <1>1, <1>2, <1>4, <2>1 DEF IInv, EndInv, PlaceInv, HeardInv, Codes
  <2> QED
    BY <1>5, <2>2, <2>3 DEF IInv
<1> QED
  BY <1>6, <1>7

-----------------------------------------------------------------------------
(* All steps.                                                              *)

\* The invariant holds of a run that has just begun.
LEMMA InitInvariant == Init => IInv
<1> SUFFICES ASSUME Init
             PROVE  IInv
  OBVIOUS
<1>1. <<>> \in Seq(Unit) /\ <<>> \in Seq((Ids \cup {Unanswered}) \X (Codes \cup {"none"}))
  BY EmptySeq
<1>2. Requests \in Nat
  BY LiveAssumption, LenProperties DEF Init, Requests
<1>3. TypeOK
  BY <1>1, <1>2, LiveAssumption DEF Init, TypeOK
<1>4. Stream = <<>> /\ Len(Stream) = 0 /\ Len(heard) = 0
  <2>1. Len(Stream) = 0
    BY <1>3, StreamFacts DEF Init
  <2> QED
    BY <1>3, <2>1, StreamFacts DEF Init
<1>5. StreamInv /\ PipeInv /\ EndInv
  BY <1>4 DEF Init, StreamInv, PipeInv, EndInv, Chained
<1>6. InSync
  <2>1. \A i \in 1..Len(run.kinds) : ~(i < 0 + 1)
    BY <1>2 DEF Requests
  <2> QED
    BY <1>4, <2>1 DEF InSync, SyncIn, LostIn
<1>7. PlaceInv /\ HeardInv
  BY <1>4, <1>6 DEF Init, PlaceInv, HeardInv, Codes
<1>8. CountInv
  <2>1. ErrorsIn(heard) = {}
    BY <1>4 DEF ErrorsIn
  <2> QED
    BY <2>1, FS_EmptySet DEF CountInv, Init
<1> QED
  BY <1>3, <1>5, <1>7, <1>8 DEF IInv

\* Every step keeps the invariant.
LEMMA NextInvariant == IInv /\ [Next]_vars => IInv'
<1> SUFFICES ASSUME IInv, [Next]_vars
             PROVE  IInv'
  OBVIOUS
<1>1. CASE Send
  BY <1>1, SendStep
<1>2. CASE Close
  BY <1>2, CloseStep
<1>3. CASE Serve
  BY <1>3, TakeStep, WriteStep, WriteFailsStep DEF Serve
<1>4. CASE Quit
  BY <1>4, QuitStep
<1>5. CASE Receive
  BY <1>5, FillStep, PeekCodeStep, PeekNoneStep, PeekFailsStep, ReadBodyStep,
     LoseBodyStep, EndReadingStep DEF Receive
<1>6. CASE UNCHANGED vars
  BY <1>6, StutterStep
<1> QED
  BY <1>1, <1>2, <1>3, <1>4, <1>5, <1>6 DEF Next

\* The invariant: the units under way are those of the answers in their order,
\* and the reader stands where the next one it takes for a code is one, or it
\* takes nothing for a code any more.
THEOREM LiveInvariant == Spec => []IInv
<1>1. Init => IInv
  BY InitInvariant
<1>2. IInv /\ [Next]_vars => IInv'
  BY NextInvariant
<1> QED
  BY <1>1, <1>2, PTL DEF Spec

\* Every variable of a live run has its type.
THEOREM LiveTypes == Spec => []TypeOK
<1>1. IInv => TypeOK
  BY DEF IInv
<1> QED
  BY <1>1, LiveInvariant, PTL

\* Each answer is heard for the request it answers, whatever is sent ahead of
\* it and however small the pipes are, if a code always comes in one piece.
THEOREM AnswersMatch == ~SplitReads => (Spec => []AnswersAreMatched)
<1> SUFFICES ASSUME ~SplitReads
             PROVE  Spec => []AnswersAreMatched
  OBVIOUS
<1>1. IInv => AnswersAreMatched
  BY DEF IInv, HeardInv, AnswersAreMatched, Matched, FinalIn, LostIn, UnreadIn,
         Ids, Requests, Final, LostBefore, Unread, kinds, tool
<1> QED
  BY <1>1, LiveInvariant, PTL

\* Split codes take requests their answers, but give none that of another: up
\* to some point each has its own, from there on they have none.
NoneOfAnother ==
  /\ reading # "astray"
  /\ \A k \in 1..Len(heard) :
       \/ k \in Ids /\ heard[k] = <<k, Final(k)>>
       \/ \A i \in k..Len(heard) : heard[i][1] = Unanswered
THEOREM NoAnswerIsAnothers == Spec => []NoneOfAnother
<1>1. IInv => NoneOfAnother
  BY DEF IInv, HeardInv, NoneOfAnother, Matched, FinalIn, Ids, Requests, Final, kinds
<1> QED
  BY <1>1, LiveInvariant, PTL

\* A finished run that the daemon has served to its end has heard every answer
\* up to where it stopped or lost its way, and counted every error it heard.
THEOREM RunHears == ~SplitReads => (Spec => []RunHearsAll)
<1> SUFFICES ASSUME ~SplitReads
             PROVE  Spec => []RunHearsAll
  OBVIOUS
<1>1. IInv => RunHearsAll
  <2> SUFFICES ASSUME IInv, writing = "closed", daemon # "dead"
               PROVE  RunHearsAll
    BY DEF RunHearsAll
  <2>1. TypeOK /\ HeardInv /\ EndInv /\ CountInv
    BY DEF IInv
  <2>2. heard \in Seq((Ids \cup {Unanswered}) \X (Codes \cup {"none"})) /\ Len(heard) \in Nat
    BY <2>1, LenProperties DEF TypeOK
  <2>3. \/ Len(heard) >= run.found
        \/ run.stopAt # 0 /\ Len(heard) = run.stopAt
    BY <2>1 DEF EndInv
  <2>4. ASSUME NEW k \in Ids, k <= run.found, run.stopAt \notin 1..(k - 1), ~LostBefore(k)
        PROVE  k <= Len(heard) /\ heard[k] = <<k, Final(k)>>
    <3>1. k \in Nat \ {0} /\ run.found \in Nat /\ run.stopAt \in Nat
      BY <2>1, RunFacts DEF Ids
    <3>2. k <= Len(heard)
      BY <2>2, <2>3, <2>4, <3>1
    <3>3. k \in 1..Len(heard)
      BY <2>2, <3>1, <3>2
    <3>4. ~LostIn(run, k)
      BY <2>4 DEF LostIn, UnreadIn, LostBefore, Unread, Ids, Requests, kinds, tool
    <3>5. Matched(run, heard, k)
      BY <2>1, <3>3, <3>4 DEF HeardInv
    <3> QED
      BY <3>2, <3>5 DEF Matched, FinalIn, Final, kinds
  <2>5. {k \in DOMAIN heard : heard[k][2] = "ERROR"} = ErrorsIn(heard)
    <3>1. DOMAIN heard = 1..Len(heard)
      BY <2>2, LenProperties
    <3> QED
      BY <3>1 DEF ErrorsIn
  <2>6. tool = "replay" =>
          mismatches = Cardinality({k \in DOMAIN heard : heard[k][2] = "ERROR"})
    BY <2>1, <2>5 DEF CountInv
  <2> QED
    BY <2>4, <2>6 DEF RunHearsAll
<1> QED
  BY <1>1, LiveInvariant, PTL
=============================================================================

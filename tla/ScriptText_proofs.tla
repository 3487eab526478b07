---- MODULE ScriptText_proofs ----
(***************************************************************************)
(* What is written and read back by the line: a text put together and      *)
(* split again, spaces and sets around a word, values in quotes, fields    *)
(* and headings.  For each of format.rs's pieces there is a lemma that     *)
(* parse.rs takes back out of it what was put in, of any length, under the *)
(* condition that the session can be written that way.                     *)
(***************************************************************************)
EXTENDS ScriptTool, SequenceTheorems, FiniteSetTheorems, TLAPS

-----------------------------------------------------------------------------
(* Induction over numbers, from finite sets being well-founded by inclusion. *)

\* A set of numbers has a least one: their initial segments are finite sets, on
\* which inclusion is well-founded.
LEMMA LeastOf ==
  ASSUME NEW T \in SUBSET Nat, T # {}
  PROVE  \E x \in T : \A y \in T : x <= y
<1> DEFINE U == {0..m : m \in T}
           R == StrictSubsetOrdering(Nat)
<1>1. IsWellFoundedOn(R, FiniteSubsetsOf(Nat))
  BY FS_StrictSubsetOrderingWellFounded
<1>2. U \subseteq FiniteSubsetsOf(Nat)
  <2> SUFFICES ASSUME NEW m \in T
               PROVE  0..m \in FiniteSubsetsOf(Nat)
    OBVIOUS
  <2>1. m \in Nat /\ 0 \in Int /\ m \in Int
    OBVIOUS
  <2>2. IsFiniteSet(0..m)
    BY <2>1, FS_Interval
  <2> QED
    BY <2>1, <2>2 DEF FiniteSubsetsOf
<1>3. U # {}
  OBVIOUS
<1>4. \A a \in T, b \in T : b < a => <<0..b, 0..a>> \in R
  <2> SUFFICES ASSUME NEW a \in T, NEW b \in T, b < a
               PROVE  <<0..b, 0..a>> \in R
    OBVIOUS
  <2>1. 0..b \in SUBSET Nat /\ 0..a \in SUBSET Nat /\ 0..b \subseteq 0..a
    OBVIOUS
  <2>2. a \in 0..a /\ a \notin 0..b
    OBVIOUS
  <2> QED
    BY <2>1, <2>2 DEF StrictSubsetOrdering
<1> HIDE DEF R
<1>5. \E u \in U : \A v \in U : ~(<<v, u>> \in R)
  <2> HIDE DEF U
  <2> QED
    BY <1>1, <1>2, <1>3, WFMin
<1>6. PICK x \in T : \A y \in T : ~(<<0..y, 0..x>> \in R)
  BY <1>5
<1>7. \A y \in T : ~(y < x)
  BY <1>4, <1>6
<1> QED
  BY <1>7

\* What holds of 0, and of the next number with each, holds up to n.
LEMMA Induction ==
  ASSUME NEW n \in Nat, NEW G, 0 \in G, \A m \in 0..(n - 1) : m \in G => m + 1 \in G
  PROVE  \A m \in 0..n : m \in G
<1> DEFINE T == {m \in 0..n : m \notin G}
<1> SUFFICES ASSUME T # {}
             PROVE  FALSE
  OBVIOUS
<1>1. T \in SUBSET Nat
  OBVIOUS
<1>2. PICK x \in T : \A y \in T : x <= y
  <2> HIDE DEF T
  <2> QED
    BY <1>1, LeastOf
<1>3. x # 0 /\ x - 1 \in 0..(n - 1) /\ x - 1 \notin T
  BY <1>2
<1> QED
  BY <1>2, <1>3

-----------------------------------------------------------------------------
(* Lists: sequences of anything.                                           *)

IsList(s) == \E S : s \in Seq(S)
IsLines(ss) == IsList(ss) /\ \A i \in 1..Len(ss) : IsList(ss[i])

\* A list has a length, and what it lists.
LEMMA ListFacts ==
  ASSUME NEW s, IsList(s)
  PROVE  /\ Len(s) \in Nat /\ DOMAIN s = 1..Len(s)
         /\ s \in Seq(Range(s)) /\ \A i \in 1..Len(s) : s[i] \in Range(s)
<1>1. PICK S : s \in Seq(S)
  BY DEF IsList
<1>2. /\ Len(s) \in Nat /\ DOMAIN s = 1..Len(s)
      /\ s \in [1..Len(s) -> S]
  BY <1>1, LenProperties
<1>3. \A i \in 1..Len(s) : s[i] \in Range(s)
  BY <1>2 DEF Range
<1>4. s \in [1..Len(s) -> Range(s)]
  BY <1>2, <1>3
<1> QED
  BY <1>2, <1>3, <1>4

\* A function on 1..n is a list of n.
LEMMA ListMade ==
  ASSUME NEW n \in Nat, NEW f, f = [i \in 1..n |-> f[i]]
  PROVE  IsList(f) /\ Len(f) = n /\ DOMAIN f = 1..n
<1> DEFINE S == {f[i] : i \in 1..n}
<1>1. f \in [1..n -> S]
  <2>1. \A i \in 1..n : f[i] \in S
    OBVIOUS
  <2> HIDE DEF S
  <2> QED
    BY <2>1
<1>2. f \in Seq(S) /\ DOMAIN f = 1..n
  <2> HIDE DEF S
  <2> QED
    BY <1>1
<1>3. Len(f) = n
  BY <1>2
<1> QED
  BY <1>2, <1>3 DEF IsList

\* What the lists put together list.
LEMMA ListConcat ==
  ASSUME NEW s, NEW t, IsList(s), IsList(t)
  PROVE  /\ IsList(s \o t) /\ Len(s \o t) = Len(s) + Len(t)
         /\ \A i \in 1..(Len(s) + Len(t)) :
              (s \o t)[i] = IF i <= Len(s) THEN s[i] ELSE t[i - Len(s)]
<1>1. PICK S : s \in Seq(S)
  BY DEF IsList
<1>2. PICK T : t \in Seq(T)
  BY DEF IsList
<1>3. s \in Seq(S \cup T) /\ t \in Seq(S \cup T)
  BY <1>1, <1>2
<1>4. s \o t \in Seq(S \cup T)
  BY <1>3, ConcatProperties
<1> QED
  BY <1>3, <1>4, ConcatProperties DEF IsList

\* Two lists of lists put together are one.
LEMMA LinesConcat ==
  ASSUME NEW s, NEW t, IsLines(s), IsLines(t)
  PROVE  IsLines(s \o t)
<1>1. IsList(s) /\ IsList(t)
  BY DEF IsLines
<1>2. Len(s) \in Nat /\ Len(t) \in Nat
  BY <1>1, ListFacts
<1>3. /\ IsList(s \o t) /\ Len(s \o t) = Len(s) + Len(t)
      /\ \A i \in 1..(Len(s) + Len(t)) :
           (s \o t)[i] = IF i <= Len(s) THEN s[i] ELSE t[i - Len(s)]
  BY <1>1, ListConcat
<1>4. ASSUME NEW i \in 1..Len(s \o t)
      PROVE  IsList((s \o t)[i])
  <2>1. i <= Len(s) \/ i - Len(s) \in 1..Len(t)
    BY <1>2, <1>3
  <2>2. i \in 1..(Len(s) + Len(t)) /\ i \in Nat
    BY <1>2, <1>3
  <2>3. CASE i <= Len(s)
    <3>1. (s \o t)[i] = s[i] /\ i \in 1..Len(s)
      BY <1>2, <1>3, <2>2, <2>3
    <3> QED
      BY <3>1 DEF IsLines
  <2>4. CASE ~(i <= Len(s))
    <3>1. (s \o t)[i] = t[i - Len(s)] /\ i - Len(s) \in 1..Len(t)
      BY <1>3, <2>1, <2>2, <2>4
    <3> QED
      BY <3>1 DEF IsLines
  <2> QED
    BY <2>3, <2>4
<1> QED
  BY <1>3, <1>4 DEF IsLines

\* What FlattenSeq has put together of the first i parts.
Together(ss, g, i) == IF i = 1 THEN ss[i] ELSE g[i - 1] \o ss[i]

\* FlattenSeq is a recursive function: there is one, built up part by part, that
\* satisfies its equation.
LEMMA FlattenUnfolds ==
  ASSUME NEW ss, Len(ss) \in Nat \ {0}
  PROVE  \E g : /\ g = [i \in 1..Len(ss) |-> Together(ss, g, i)]
                /\ FlattenSeq(ss) = g[Len(ss)]
<1> DEFINE Steps(m, g) == g = [i \in 1..m |-> Together(ss, g, i)]
           G == {m \in Nat : \E g : Steps(m, g)}
           n == Len(ss)
<1>1. 0 \in G
  <2>1. Steps(0, <<>>)
    OBVIOUS
  <2> QED
    BY <2>1
<1>2. ASSUME NEW m \in Nat, m \in G
      PROVE  m + 1 \in G
  <2>1. PICK g : Steps(m, g)
    BY <1>2
  <2> DEFINE h == [i \in 1..(m + 1) |-> IF i = m + 1 THEN Together(ss, g, i) ELSE g[i]]
  <2>2. \A i \in 1..(m + 1) : h[i] = Together(ss, h, i)
    <3> SUFFICES ASSUME NEW i \in 1..(m + 1)
                 PROVE  h[i] = Together(ss, h, i)
      OBVIOUS
    <3>1. i = 1 \/ h[i - 1] = g[i - 1]
      OBVIOUS
    <3>2. Together(ss, h, i) = Together(ss, g, i)
      BY <3>1 DEF Together
    <3>3. h[i] = Together(ss, g, i)
      BY <2>1
    <3> QED
      BY <3>2, <3>3
  <2>3. Steps(m + 1, h)
    <3>1. h = [i \in 1..(m + 1) |-> h[i]]
      OBVIOUS
    <3> HIDE DEF h
    <3> QED
      BY <2>2, <3>1
  <2>4. \E f : Steps(m + 1, f)
    <3> HIDE DEF h, Steps
    <3> QED
      BY <2>3
  <2> QED
    BY <2>4
<1>3. n \in G
  <2>1. \A m \in 0..(n - 1) : m \in G => m + 1 \in G
    BY <1>2
  <2> HIDE DEF G
  <2>2. \A m \in 0..n : m \in G
    BY <1>1, <2>1, Induction
  <2> QED
    BY <2>2
<1> DEFINE g == CHOOSE g : Steps(n, g)
<1>4. Steps(n, g)
  BY <1>3
<1>5. FlattenSeq(ss) = g[n]
  BY DEF FlattenSeq, Together
<1> QED
  BY <1>4, <1>5

\* Lists put together are a list.
LEMMA FlattenIsList ==
  ASSUME NEW ss, IsLines(ss)
  PROVE  IsList(FlattenSeq(ss))
<1>1. IsList(ss) /\ Len(ss) \in Nat
  BY ListFacts DEF IsLines
<1>2. CASE Len(ss) = 0
  BY <1>1, <1>2 DEF FlattenSeq
<1>3. CASE Len(ss) # 0
  <2>1. PICK g : g = [i \in 1..Len(ss) |-> Together(ss, g, i)] /\ FlattenSeq(ss) = g[Len(ss)]
    BY <1>1, <1>3, FlattenUnfolds
  <2> DEFINE G == {i \in 0..Len(ss) : i # 0 => IsList(g[i])}
  <2>2. 0 \in G
    BY <1>1
  <2>3. ASSUME NEW i \in 0..(Len(ss) - 1), i \in G
        PROVE  i + 1 \in G
    <3>1. i + 1 \in 1..Len(ss) /\ (i + 1) - 1 = i
      BY <1>1
    <3>2. g[i + 1] = Together(ss, g, i + 1) /\ IsList(ss[i + 1])
      BY <2>1, <3>1 DEF IsLines
    <3>3. IsList(g[i + 1])
      <4>1. CASE i = 0
        BY <3>2, <4>1 DEF Together
      <4>2. CASE i # 0
        <5>1. g[i + 1] = g[i] \o ss[i + 1] /\ IsList(g[i])
          <6>1. i + 1 # 1
            BY <1>1, <4>2
          <6>2. g[i + 1] = g[(i + 1) - 1] \o ss[i + 1]
            BY <3>2, <6>1 DEF Together
          <6> QED
            BY <2>3, <3>1, <4>2, <6>2
        <5> QED
          BY <3>2, <5>1, ListConcat
      <4> QED
        BY <4>1, <4>2
    <3> QED
      BY <3>1, <3>3
  <2>4. Len(ss) \in G
    <3>1. \A i \in 0..(Len(ss) - 1) : i \in G => i + 1 \in G
      BY <2>3
    <3> HIDE DEF G
    <3>2. \A i \in 0..Len(ss) : i \in G
      BY <1>1, <2>2, <3>1, Induction
    <3> QED
      BY <1>1, <3>2
  <2> QED
    BY <1>3, <2>1, <2>4
<1> QED
  BY <1>2, <1>3

\* What a text is split into is a list.
LEMMA SplitIsLines ==
  ASSUME NEW s, NEW c, IsList(s)
  PROVE  IsList(Split(s, c))
<1> DEFINE C == {i \in DOMAIN s : s[i] = c}
<1>1. Cardinality(C) + 1 \in Nat
  <2>1. IsFiniteSet(1..Len(s))
    BY ListFacts, FS_Interval
  <2>2. C \subseteq 1..Len(s)
    BY ListFacts
  <2>3. IsFiniteSet(C)
    BY <2>1, <2>2, FS_Subset
  <2>4. Cardinality(C) \in Nat
    BY <2>3, FS_CardinalityType
  <2> QED
    BY <2>4
<1>2. CASE ~Mentions(s, c)
  <2>1. Split(s, c) = <<s>>
    BY <1>2 DEF Split
  <2>2. <<s>> \in Seq({s})
    OBVIOUS
  <2> QED
    BY <2>1, <2>2 DEF IsList
<1>3. CASE Mentions(s, c)
  <2> DEFINE Part(k) == {i \in DOMAIN s : s[i] # c /\ Cardinality({j \in 1..i : s[j] = c}) = k}
             Piece(k) == IF Part(k - 1) = {} THEN <<>> ELSE SubSeq(s, Min(Part(k - 1)), Max(Part(k - 1)))
             f == [k \in 1..(Cardinality(C) + 1) |-> Piece(k)]
  <2>1. Split(s, c) = f
    BY <1>3 DEF Split
  <2>2. f = [k \in 1..(Cardinality(C) + 1) |-> f[k]]
    <3> HIDE DEF Piece, C
    <3> QED
      OBVIOUS
  <2>3. IsList(f)
    <3> HIDE DEF f, C
    <3> QED
      BY <1>1, <2>2, ListMade
  <2> QED
    BY <2>1, <2>3
<1> QED
  BY <1>2, <1>3

\* Putting lists together is associative.
LEMMA ConcatAssociates ==
  ASSUME NEW a, NEW b, NEW c, IsList(a), IsList(b), IsList(c)
  PROVE  (a \o b) \o c = a \o (b \o c)
<1>1. PICK A : a \in Seq(A)
  BY DEF IsList
<1>2. PICK B : b \in Seq(B)
  BY DEF IsList
<1>3. PICK C : c \in Seq(C)
  BY DEF IsList
<1> DEFINE S == A \cup B \cup C
<1>4. a \in Seq(S) /\ b \in Seq(S) /\ c \in Seq(S)
  BY <1>1, <1>2, <1>3
<1> HIDE DEF S
<1> QED
  BY <1>4, ConcatAssociative

\* Nothing is a list.
LEMMA EmptyIsList ==
  /\ IsList(<<>>) /\ Len(<<>>) = 0
  /\ \A s : IsList(s) => <<>> \o s = s /\ s \o <<>> = s
<1>1. <<>> \in Seq({}) /\ Len(<<>>) = 0
  OBVIOUS
<1>2. ASSUME NEW s, IsList(s)
      PROVE  <<>> \o s = s /\ s \o <<>> = s
  <2>1. PICK S : s \in Seq(S)
    BY <1>2 DEF IsList
  <2> QED
    BY <2>1, ConcatEmptySeq
<1> QED
  BY <1>1, <1>2 DEF IsList

\* Lists that list the same are the same.
LEMMA ListsEqual ==
  ASSUME NEW s, NEW t, IsList(s), IsList(t), Len(s) = Len(t),
         \A i \in 1..Len(s) : s[i] = t[i]
  PROVE  s = t
<1>1. PICK S : s \in Seq(S)
  BY DEF IsList
<1>2. PICK T : t \in Seq(T)
  BY DEF IsList
<1>3. s \in [1..Len(s) -> S] /\ t \in [1..Len(s) -> T]
  BY <1>1, <1>2, LenProperties
<1> QED
  BY <1>3

\* What tuples list.
LEMMA TupleFacts ==
  /\ \A a : Len(<<a>>) = 1 /\ <<a>>[1] = a
  /\ \A a, b : Len(<<a, b>>) = 2 /\ <<a, b>>[1] = a /\ <<a, b>>[2] = b
OBVIOUS

\* Where the one and the other are in two lists put together.
LEMMA ConcatAt ==
  ASSUME NEW s, NEW t, IsList(s), IsList(t)
  PROVE  /\ IsList(s \o t) /\ Len(s \o t) = Len(s) + Len(t)
         /\ Len(s) \in Nat /\ Len(t) \in Nat /\ Len(s \o t) \in Nat
         /\ Len(s) <= Len(s \o t)
         /\ \A j \in 1..Len(s) : (s \o t)[j] = s[j] /\ j \in 1..Len(s \o t)
         /\ \A j \in 1..Len(t) : /\ (s \o t)[Len(s) + j] = t[j]
                                /\ Len(s) + j \in 1..Len(s \o t)
<1> DEFINE m == Len(s)
           n == Len(t)
           u == s \o t
<1>1. m \in Nat /\ n \in Nat
  BY ListFacts
<1>2. /\ IsList(u) /\ Len(u) = m + n
      /\ \A i \in 1..(m + n) : u[i] = IF i <= m THEN s[i] ELSE t[i - m]
  BY ListConcat
<1> HIDE DEF m, n, u
<1>3. ASSUME NEW j \in 1..m
      PROVE  u[j] = s[j] /\ j \in 1..Len(u)
  <2>1. j \in 1..(m + n) /\ j <= m
    BY <1>1
  <2> QED
    BY <1>2, <2>1
<1>4. ASSUME NEW j \in 1..n
      PROVE  u[m + j] = t[j] /\ m + j \in 1..Len(u)
  <2>1. m + j \in 1..(m + n) /\ ~(m + j <= m) /\ (m + j) - m = j
    BY <1>1
  <2> QED
    BY <1>2, <2>1
<1>5. Len(u) \in Nat /\ m <= Len(u)
  BY <1>1, <1>2
<1> QED
  BY <1>1, <1>2, <1>3, <1>4, <1>5 DEF m, n, u

-----------------------------------------------------------------------------
(* What unpack writes.                                                     *)

\* The lines of a text.
LEMMA LinesAreList ==
  ASSUME NEW at, NEW s, IsList(s)
  PROVE  IsList(Lines(at, s))
<1> DEFINE p == Split(s, NL)
           f == [i \in DOMAIN p |-> [at |-> IF i = 1 THEN at ELSE None, text |-> p[i]]]
<1>1. IsList(p) /\ Len(p) \in Nat /\ DOMAIN p = 1..Len(p)
  BY SplitIsLines, ListFacts
<1>2. Lines(at, s) = f
  BY DEF Lines
<1>3. f = [i \in 1..Len(p) |-> f[i]]
  <2> HIDE DEF p
  <2> QED
    BY <1>1
<1> QED
  <2> HIDE DEF f, p
  <2> QED
    BY <1>1, <1>2, <1>3, ListMade

\* The lines of several texts, none with a time.
LEMMA UntimedIsList ==
  ASSUME NEW ss, IsLines(ss)
  PROVE  IsList(Untimed(ss))
<1> DEFINE f == [i \in DOMAIN ss |-> Lines(None, ss[i])]
<1>1. Len(ss) \in Nat /\ DOMAIN ss = 1..Len(ss)
  BY ListFacts DEF IsLines
<1>2. f = [i \in 1..Len(ss) |-> f[i]]
  BY <1>1
<1>3. IsList(f) /\ Len(f) = Len(ss)
  <2> HIDE DEF f
  <2> QED
    BY <1>1, <1>2, ListMade
<1>4. ASSUME NEW i \in 1..Len(f)
      PROVE  IsList(f[i])
  <2>1. i \in 1..Len(ss) /\ f[i] = Lines(None, ss[i])
    BY <1>1, <1>3
  <2>2. IsList(ss[i])
    BY <2>1 DEF IsLines
  <2> QED
    BY <2>1, <2>2, LinesAreList
<1>5. IsLines(f)
  BY <1>3, <1>4 DEF IsLines
<1> QED
  <2>1. Untimed(ss) = FlattenSeq(f)
    BY DEF Untimed
  <2> HIDE DEF f
  <2> QED
    BY <1>5, <2>1, FlattenIsList

\* A sequence of texts is a list of lists.
LEMMA TypedAreLines ==
  ASSUME NEW S, NEW ss \in Seq(Seq(S))
  PROVE  IsLines(ss)
<1>1. \A i \in 1..Len(ss) : ss[i] \in Seq(S)
  BY ElementOfSeq
<1> QED
  BY <1>1 DEF IsLines, IsList

\* Tuples are lists.
LEMMA TuplesAreLists ==
  /\ \A a : IsList(<<a>>)
  /\ \A a, b : IsList(<<a, b>>)
  /\ \A a, b, c : IsList(<<a, b, c>>)
  /\ \A a, b, c, d, e : IsList(<<a, b, c, d, e>>)
  /\ \A a, b, c, d, e, f : IsList(<<a, b, c, d, e, f>>)
<1>1. ASSUME NEW a
     PROVE  IsList(<<a>>)
  <2>1. <<a>> \in Seq({a})
    OBVIOUS
  <2> QED
    BY <2>1 DEF IsList
<1>2. ASSUME NEW a, NEW b
     PROVE  IsList(<<a, b>>)
  <2>1. <<a, b>> \in Seq({a, b})
    OBVIOUS
  <2> QED
    BY <2>1 DEF IsList
<1>3. ASSUME NEW a, NEW b, NEW c
     PROVE  IsList(<<a, b, c>>)
  <2>1. <<a, b, c>> \in Seq({a, b, c})
    OBVIOUS
  <2> QED
    BY <2>1 DEF IsList
<1>4. ASSUME NEW a, NEW b, NEW c, NEW d, NEW e
     PROVE  IsList(<<a, b, c, d, e>>)
  <2>1. <<a, b, c, d, e>> \in Seq({a, b, c, d, e})
    OBVIOUS
  <2> QED
    BY <2>1 DEF IsList
<1>5. ASSUME NEW a, NEW b, NEW c, NEW d, NEW e, NEW f
     PROVE  IsList(<<a, b, c, d, e, f>>)
  <2>1. <<a, b, c, d, e, f>> \in Seq({a, b, c, d, e, f})
    OBVIOUS
  <2> QED
    BY <2>1 DEF IsList
<1> QED
  BY <1>1, <1>2, <1>3, <1>4, <1>5

\* format_path_set writes a list of tokens.
LEMMA SetIsList ==
  ASSUME NEW ss, IsLines(ss)
  PROVE  IsList(FormatSet(ss))
<1> DEFINE sep == <<COMMA, SP>>
           f == [i \in DOMAIN ss |-> IF i = 1 THEN ss[i] ELSE sep \o ss[i]]
<1>1. Len(ss) \in Nat /\ DOMAIN ss = 1..Len(ss)
  BY ListFacts DEF IsLines
<1>2. f = [i \in 1..Len(ss) |-> f[i]]
  <2> HIDE DEF sep
  <2> QED
    BY <1>1
<1>3. IsList(f) /\ Len(f) = Len(ss)
  <2> HIDE DEF f
  <2> QED
    BY <1>1, <1>2, ListMade
<1>4. IsList(sep) /\ IsList(<<OPEN, SP>>) /\ IsList(<<SP, CLOSE>>) /\ IsList(<<OPEN, SP, CLOSE>>)
  BY TuplesAreLists
<1>5. ASSUME NEW i \in 1..Len(f)
      PROVE  IsList(f[i])
  <2>1. IsList(ss[i])
    BY <1>3 DEF IsLines
  <2>2. IsList(sep \o ss[i])
    <3> HIDE DEF sep
    <3> QED
      BY <1>4, <2>1, ListConcat
  <2> HIDE DEF sep
  <2>3. f[i] = ss[i] \/ f[i] = sep \o ss[i]
    BY <1>1, <1>3
  <2> QED
    BY <2>1, <2>2, <2>3
<1>6. IsList(Join(ss, sep))
  <2>1. Join(ss, sep) = FlattenSeq(f)
    BY DEF Join
  <2>2. IsLines(f)
    BY <1>3, <1>5 DEF IsLines
  <2> HIDE DEF f
  <2> QED
    BY <2>1, <2>2, FlattenIsList
<1>7. IsList(<<OPEN, SP>> \o Join(ss, sep))
  <2> HIDE DEF sep
  <2> QED
    BY <1>4, <1>6, ListConcat
<1>8. IsList((<<OPEN, SP>> \o Join(ss, sep)) \o <<SP, CLOSE>>)
  <2> HIDE DEF sep
  <2> QED
    BY <1>4, <1>7, ListConcat
<1> QED
  BY <1>4, <1>8 DEF FormatSet

\* A tuple of lists is a list of lists.
LEMMA OneLineIsLines ==
  ASSUME NEW s, IsList(s)
  PROVE  IsLines(<<s>>)
<1>1. <<s>> \in Seq({s}) /\ Len(<<s>>) = 1 /\ <<s>>[1] = s
  OBVIOUS
<1>2. \A i \in 1..Len(<<s>>) : <<s>>[i] = s
  BY <1>1
<1> QED
  BY <1>1, <1>2 DEF IsLines, IsList

-----------------------------------------------------------------------------
(* Values in quotes.                                                       *)

\* FlattenSeq, part by part.
MadeOf(ss, g) ==
  /\ g[0] = <<>>
  /\ \A i \in 1..Len(ss) : g[i] = g[i - 1] \o ss[i]
  /\ \A i \in 0..Len(ss) : IsList(g[i]) /\ Len(g[i]) \in Nat

\* There are such parts.
LEMMA FlattenByParts ==
  ASSUME NEW ss, IsLines(ss)
  PROVE  \E g : MadeOf(ss, g) /\ FlattenSeq(ss) = g[Len(ss)]
<1>1. IsList(ss) /\ Len(ss) \in Nat
  BY ListFacts DEF IsLines
<1>2. CASE Len(ss) = 0
  <2>1. ss = <<>>
    BY <1>1, <1>2, EmptyIsList, ListsEqual
  <2>2. FlattenSeq(ss) = <<>>
    BY <1>2, <2>1 DEF FlattenSeq
  <2> DEFINE g == [i \in 0..0 |-> <<>>]
  <2>3. g[0] = <<>>
    OBVIOUS
  <2> HIDE DEF g
  <2>4. MadeOf(ss, g)
    BY <1>2, <2>3, EmptyIsList DEF MadeOf
  <2> QED
    BY <1>2, <2>2, <2>3, <2>4
<1>3. CASE Len(ss) # 0
  <2>1. PICK f : f = [i \in 1..Len(ss) |-> Together(ss, f, i)] /\ FlattenSeq(ss) = f[Len(ss)]
    BY <1>1, <1>3, FlattenUnfolds
  <2> DEFINE g == [i \in 0..Len(ss) |-> IF i = 0 THEN <<>> ELSE f[i]]
  <2>2. g[0] = <<>> /\ g[Len(ss)] = f[Len(ss)]
    BY <1>1, <1>3
  <2>3. \A i \in 1..Len(ss) : IsList(ss[i]) /\ f[i] = Together(ss, f, i)
    BY <2>1 DEF IsLines
  <2>4. ASSUME NEW i \in 1..Len(ss)
        PROVE  g[i] = g[i - 1] \o ss[i]
    <3>1. g[i] = f[i] /\ f[i] = Together(ss, f, i) /\ IsList(ss[i])
      BY <2>3
    <3>2. CASE i = 1
      <4>1. g[i - 1] = <<>> /\ g[i] = ss[i]
        BY <1>1, <3>1, <3>2 DEF Together
      <4> QED
        BY <3>1, <4>1, EmptyIsList
    <3>3. CASE i # 1
      <4>1. g[i - 1] = f[i - 1] /\ g[i] = f[i - 1] \o ss[i]
        <5>1. i - 1 \in 0..Len(ss) /\ i - 1 # 0 /\ i # 0
          BY <1>1, <3>3
        <5> QED
          BY <3>1, <3>3, <5>1 DEF Together
      <4> QED
        BY <4>1
    <3> QED
      BY <3>2, <3>3
  <2> HIDE DEF g
  <2>5. \A i \in 0..Len(ss) : IsList(g[i])
    <3> DEFINE G == {i \in 0..Len(ss) : IsList(g[i])}
    <3>1. 0 \in G
      BY <1>1, <2>2, EmptyIsList
    <3>2. ASSUME NEW i \in 0..(Len(ss) - 1), i \in G
          PROVE  i + 1 \in G
      <4>1. i + 1 \in 1..Len(ss) /\ (i + 1) - 1 = i
        BY <1>1
      <4>2. g[i + 1] = g[i] \o ss[i + 1] /\ IsList(ss[i + 1]) /\ IsList(g[i])
        BY <2>3, <2>4, <3>2, <4>1
      <4>3. IsList(g[i + 1])
        BY <4>2, ConcatAt
      <4> QED
        BY <1>1, <4>1, <4>3
    <3>3. \A i \in 0..(Len(ss) - 1) : i \in G => i + 1 \in G
      BY <3>2
    <3>4. \A i \in 0..Len(ss) : i \in G
      <4> HIDE DEF G
      <4> QED
        BY <1>1, <3>1, <3>3, Induction
    <3> QED
      BY <3>4
  <2>6. \A i \in 0..Len(ss) : Len(g[i]) \in Nat
    BY <2>5, ListFacts
  <2>7. MadeOf(ss, g)
    BY <2>2, <2>4, <2>5, <2>6 DEF MadeOf
  <2> QED
    BY <2>1, <2>2, <2>7
<1> QED
  BY <1>2, <1>3

\* Where the parts are in the whole.
LEMMA PartsPlaced ==
  ASSUME NEW ss, NEW g, IsLines(ss), MadeOf(ss, g)
  PROVE  \A k \in 0..Len(ss) :
           /\ Len(g[k]) <= Len(g[Len(ss)])
           /\ \A j \in 1..Len(g[k]) : g[Len(ss)][j] = g[k][j]
<1>1. Len(ss) \in Nat
  BY ListFacts DEF IsLines
<1> DEFINE n == Len(ss)
           At(k) == /\ Len(g[k]) <= Len(g[n])
                    /\ \A j \in 1..Len(g[k]) : g[n][j] = g[k][j]
           G == {m \in 0..n : At(n - m)}
<1>2. \A k \in 0..n : IsList(g[k]) /\ Len(g[k]) \in Nat
  BY DEF MadeOf
<1>3. 0 \in G
  <2>1. n - 0 = n /\ n \in 0..n
    BY <1>1
  <2> QED
    BY <1>1, <1>2, <2>1
<1>4. ASSUME NEW m \in 0..(n - 1), m \in G
      PROVE  m + 1 \in G
  <2> DEFINE k == n - m
  <2>1. k \in 1..n /\ n - (m + 1) = k - 1 /\ k - 1 \in 0..n /\ k \in 0..n
    BY <1>1
  <2>2. At(k)
    BY <1>4
  <2> HIDE DEF k
  <2>3. g[k] = g[k - 1] \o ss[k] /\ IsList(g[k - 1]) /\ IsList(ss[k]) /\ Len(ss[k]) \in Nat
    BY <2>1, ListFacts DEF MadeOf, IsLines
  <2>4. /\ Len(g[k - 1]) <= Len(g[k]) /\ Len(g[k - 1]) \in Nat /\ Len(g[k]) \in Nat
        /\ \A j \in 1..Len(g[k - 1]) : g[k][j] = g[k - 1][j] /\ j \in 1..Len(g[k])
    <3> DEFINE s == g[k - 1]
               t == ss[k]
    <3>1. IsList(s) /\ IsList(t)
      BY <2>3
    <3>2. g[k] = s \o t
      BY <2>3
    <3> HIDE DEF s, t
    <3>3. /\ Len(s) <= Len(s \o t) /\ Len(s) \in Nat /\ Len(s \o t) \in Nat
          /\ \A j \in 1..Len(s) : (s \o t)[j] = s[j] /\ j \in 1..Len(s \o t)
      BY <3>1, ConcatAt
    <3> QED
      BY <3>2, <3>3, Zenon DEF s
  <2>5. At(k - 1)
    <3>1. Len(g[n]) \in Nat
      BY <1>1, <1>2
    <3>2. Len(g[k - 1]) <= Len(g[n])
      <4>1. Len(g[k]) <= Len(g[n])
        BY <2>2
      <4> QED
        BY <2>4, <3>1, <4>1
    <3>3. \A j \in 1..Len(g[k - 1]) : g[n][j] = g[k - 1][j]
      <4>1. \A j \in 1..Len(g[k]) : g[n][j] = g[k][j]
        BY <2>2
      <4> QED
        BY <2>4, <4>1
    <3> QED
      BY <3>2, <3>3
  <2> QED
    BY <1>1, <2>1, <2>5
<1>5. \A m \in 0..n : m \in G
  <2>1. \A m \in 0..(n - 1) : m \in G => m + 1 \in G
    BY <1>4
  <2> HIDE DEF G
  <2> QED
    BY <1>1, <1>3, <2>1, Induction
<1> SUFFICES ASSUME NEW k \in 0..Len(ss)
             PROVE  At(k)
  OBVIOUS
<1>6. n - k \in 0..n /\ n - (n - k) = k
  BY <1>1
<1> QED
  BY <1>5, <1>6

\* A piece, in a text behind its first p tokens and up to t.
Placed(u, p, t, piece) ==
  t = p + Len(piece) /\ t <= Len(u) /\ \A j \in 1..Len(piece) : u[p + j] = piece[j]

\* Each piece is behind the ones in front of it.
LEMMA PartAt ==
  ASSUME NEW ss, NEW g, IsLines(ss), MadeOf(ss, g), NEW k \in 1..Len(ss), NEW m, m = k - 1
  PROVE  Placed(g[Len(ss)], Len(g[m]), Len(g[k]), ss[k])
<1>1. Len(ss) \in Nat
  BY ListFacts DEF IsLines
<1>2. k \in 0..Len(ss) /\ m \in 0..Len(ss)
  BY <1>1
<1>0. g[k - 1] = g[m]
  OBVIOUS
<1>3. g[k] = g[m] \o ss[k] /\ IsList(g[m]) /\ IsList(ss[k]) /\ Len(ss[k]) \in Nat
        /\ Len(g[m]) \in Nat
  BY <1>0, <1>2, ListFacts DEF MadeOf, IsLines
<1>4. /\ Len(g[k]) = Len(g[m]) + Len(ss[k])
      /\ \A j \in 1..Len(ss[k]) : /\ g[k][Len(g[m]) + j] = ss[k][j]
                                 /\ Len(g[m]) + j \in 1..Len(g[k])
  <2> DEFINE s == g[m]
             t == ss[k]
  <2>1. IsList(s) /\ IsList(t)
    BY <1>3
  <2>2. g[k] = s \o t
    BY <1>3
  <2> HIDE DEF s, t
  <2>3. /\ Len(s \o t) = Len(s) + Len(t)
        /\ \A j \in 1..Len(t) : /\ (s \o t)[Len(s) + j] = t[j]
                               /\ Len(s) + j \in 1..Len(s \o t)
    BY <2>1, ConcatAt
  <2> QED
    BY <2>2, <2>3, Zenon DEF s, t
<1>5. Len(g[k]) <= Len(g[Len(ss)]) /\ \A j \in 1..Len(g[k]) : g[Len(ss)][j] = g[k][j]
  BY <1>2, PartsPlaced
<1>6. \A j \in 1..Len(ss[k]) : g[Len(ss)][Len(g[m]) + j] = ss[k][j]
  BY <1>4, <1>5
<1> QED
  BY <1>4, <1>5, <1>6 DEF Placed

\* What Put makes of one token.
Image(x, c, new) == IF x = c THEN new ELSE <<x>>

\* Put makes the k-th piece of h of that of f.
Replaced(f, h, k, c, new) ==
  \/ \E x : f[k] = <<x>> /\ h[k] = Image(x, c, new)
  \/ \E x, y : f[k] = <<x, y>> /\ h[k] = Image(x, c, new) \o Image(y, c, new)

\* Put takes a text that was put together piece by piece, piece by piece.
LEMMA PutFlattened ==
  ASSUME NEW c, NEW new, IsList(new), NEW f, NEW h,
         IsLines(f), IsLines(h), Len(h) = Len(f),
         \A k \in 1..Len(f) : Replaced(f, h, k, c, new)
  PROVE  Put(FlattenSeq(f), c, new) = FlattenSeq(h)
<1> DEFINE n == Len(f)
           u == FlattenSeq(f)
           r == [i \in DOMAIN u |-> Image(u[i], c, new)]
<1>1. n \in Nat /\ IsList(u) /\ Len(u) \in Nat /\ DOMAIN u = 1..Len(u)
  BY FlattenIsList, ListFacts DEF IsLines
<1>2. Put(u, c, new) = FlattenSeq(r)
  BY DEF Put, Image
<1>3. \A x : IsList(Image(x, c, new))
  BY TuplesAreLists DEF Image
<1>4. IsList(r) /\ Len(r) = Len(u) /\ \A i \in 1..Len(u) : r[i] = Image(u[i], c, new)
  <2>1. r = [i \in 1..Len(u) |-> r[i]] /\ \A i \in 1..Len(u) : r[i] = Image(u[i], c, new)
    <3> HIDE DEF u
    <3> QED
      BY <1>1
  <2> HIDE DEF r, u
  <2> QED
    BY <1>1, <2>1, ListMade
<1> HIDE DEF r, u
<1>5. IsLines(r)
  BY <1>3, <1>4 DEF IsLines
<1>6. PICK g : MadeOf(f, g) /\ u = g[n]
  BY FlattenByParts DEF u
<1>7. PICK e : MadeOf(h, e) /\ FlattenSeq(h) = e[n]
  BY FlattenByParts
<1>8. PICK q : MadeOf(r, q) /\ FlattenSeq(r) = q[Len(u)]
  BY <1>4, <1>5, FlattenByParts
<1>9. \A i \in 1..Len(u) : q[i] = q[i - 1] \o Image(u[i], c, new) /\ IsList(q[i - 1])
  <2>1. \A i \in 1..Len(u) : i - 1 \in 0..Len(u)
    BY <1>1
  <2> QED
    BY <1>4, <1>8, <2>1 DEF MadeOf
<1> DEFINE G == {k \in 0..n : q[Len(g[k])] = e[k]}
<1>10. 0 \in G
  <2>1. g[0] = <<>> /\ e[0] = <<>> /\ q[0] = <<>>
    BY <1>6, <1>7, <1>8 DEF MadeOf
  <2>2. Len(g[0]) = 0
    BY <2>1
  <2> QED
    BY <1>1, <2>1, <2>2
<1>11. ASSUME NEW m \in 0..(n - 1), m \in G
       PROVE  m + 1 \in G
  <2>1. PICK k \in 1..n : k = m + 1 /\ k - 1 = m /\ k \in 0..n
    <3>1. m + 1 \in 1..n /\ (m + 1) - 1 = m /\ m + 1 \in 0..n
      BY <1>1
    <3> QED
      BY <3>1
  <2>2. Placed(u, Len(g[m]), Len(g[k]), f[k])
    BY <1>6, <2>1, PartAt
  <2>3. e[k] = e[m] \o h[k] /\ IsList(e[m])
    <3>1. e[k] = e[k - 1] \o h[k]
      BY <1>7, <2>1 DEF MadeOf
    <3>2. IsList(e[m])
      BY <1>1, <1>7 DEF MadeOf
    <3> QED
      BY <2>1, <3>1, <3>2
  <2>4. q[Len(g[m])] = e[m]
    BY <1>11
  <2>5. Len(g[m]) \in Nat
    BY <1>6 DEF MadeOf
  <2> DEFINE p == Len(g[m])
             t == Len(g[k])
  <2>6. p \in Nat /\ q[p] = e[m]
    BY <2>4, <2>5
  <2>7. t = p + Len(f[k]) /\ t <= Len(u) /\ \A j \in 1..Len(f[k]) : u[p + j] = f[k][j]
    BY <2>2 DEF Placed
  <2> HIDE DEF p, t
  <2>8. ASSUME \E x : f[k] = <<x>> /\ h[k] = Image(x, c, new)
        PROVE  q[t] = e[k]
    <3>1. PICK x : f[k] = <<x>> /\ h[k] = Image(x, c, new)
      BY <2>8
    <3>2. t = p + 1 /\ u[p + 1] = x
      BY <2>7, <3>1, TupleFacts
    <3>3. q[p + 1] = q[p] \o Image(x, c, new)
      <4>1. p + 1 \in 1..Len(u) /\ (p + 1) - 1 = p
        BY <1>1, <2>6, <2>7, <3>2
      <4> QED
        BY <1>9, <3>2, <4>1
    <3> QED
      BY <2>3, <2>6, <3>1, <3>2, <3>3
  <2>9. ASSUME \E x, y : f[k] = <<x, y>> /\ h[k] = Image(x, c, new) \o Image(y, c, new)
        PROVE  q[t] = e[k]
    <3>1. PICK x, y : f[k] = <<x, y>> /\ h[k] = Image(x, c, new) \o Image(y, c, new)
      BY <2>9
    <3>2. t = p + 2 /\ u[p + 1] = x /\ u[p + 2] = y
      BY <2>7, <3>1, TupleFacts
    <3>3. q[p + 1] = q[p] \o Image(x, c, new) /\ q[p + 2] = q[p + 1] \o Image(y, c, new)
      <4>1. /\ p + 1 \in 1..Len(u) /\ (p + 1) - 1 = p
            /\ p + 2 \in 1..Len(u) /\ (p + 2) - 1 = p + 1
        BY <1>1, <2>6, <2>7, <3>2
      <4> QED
        BY <1>9, <3>2, <4>1
    <3>4. q[t] = (e[m] \o Image(x, c, new)) \o Image(y, c, new)
      BY <2>6, <3>2, <3>3
    <3>5. q[t] = e[m] \o (Image(x, c, new) \o Image(y, c, new))
      <4> DEFINE a == Image(x, c, new)
                 b == Image(y, c, new)
                 z == e[m]
      <4>1. IsList(z) /\ IsList(a) /\ IsList(b)
        BY <1>3, <2>3
      <4> HIDE DEF a, b, z
      <4>2. (z \o a) \o b = z \o (a \o b)
        BY <4>1, ConcatAssociates, SMTT(20)
      <4> QED
        BY <3>4, <4>2, Zenon DEF a, b, z
    <3> QED
      BY <2>3, <3>1, <3>5
  <2>10. \/ \E x : f[k] = <<x>> /\ h[k] = Image(x, c, new)
         \/ \E x, y : f[k] = <<x, y>> /\ h[k] = Image(x, c, new) \o Image(y, c, new)
    BY <2>1 DEF Replaced
  <2>11. q[t] = e[k]
    BY <2>8, <2>9, <2>10
  <2> QED
    BY <2>1, <2>11 DEF t
<1>12. n \in G
  <2>1. \A m \in 0..(n - 1) : m \in G => m + 1 \in G
    BY <1>11
  <2> HIDE DEF G
  <2> QED
    BY <1>1, <1>10, <2>1, Induction
<1>13. q[Len(u)] = e[n]
  BY <1>6, <1>12
<1> QED
  BY <1>2, <1>7, <1>8, <1>13 DEF u

\* What Undo makes of a text of n tokens from i on, given what it makes of what is behind.
From(s, n, c, new, from, i) ==
  IF i > n THEN <<>>
  ELSE IF i < n /\ s[i] = BS /\ s[i + 1] = c THEN <<new>> \o from[i + 2]
  ELSE <<s[i]>> \o from[i + 1]

Rests(s, n, c, new, from) == from = [i \in 1..(n + 1) |-> From(s, n, c, new, from, i)]

\* Undo is recursive from the end of the text.
LEMMA UndoUnfolds ==
  ASSUME NEW s, NEW c, NEW new, NEW n \in Nat, Len(s) = n
  PROVE  \E from : Rests(s, n, c, new, from) /\ Undo(s, c, new) = from[1]
<1> DEFINE Steps(m, g) == g = [i \in (n + 1 - m)..(n + 1) |-> From(s, n, c, new, g, i)]
           G == {m \in 0..n : \E g : Steps(m, g)}
<1>1. 0 \in G
  <2> DEFINE g == [i \in (n + 1 - 0)..(n + 1) |-> <<>>]
  <2>1. \A i \in (n + 1 - 0)..(n + 1) : From(s, n, c, new, g, i) = <<>>
    BY DEF From
  <2>2. g = [i \in (n + 1 - 0)..(n + 1) |-> From(s, n, c, new, g, i)]
    BY <2>1
  <2>3. \E f : Steps(0, f)
    <3> HIDE DEF g
    <3> QED
      BY <2>2
  <2> QED
    BY <2>3
<1>2. ASSUME NEW m \in 0..(n - 1), m \in G
      PROVE  m + 1 \in G
  <2>1. PICK g : Steps(m, g)
    BY <1>2
  <2> DEFINE k == n - m
             D == k..(n + 1)
             h == [i \in D |-> IF i = k THEN From(s, n, c, new, g, i) ELSE g[i]]
  <2>2. k \in 1..n /\ n + 1 - m = k + 1 /\ n + 1 - (m + 1) = k
    OBVIOUS
  <2>3. \A i \in (k + 1)..(n + 1) : h[i] = g[i] /\ g[i] = From(s, n, c, new, g, i)
    <3>1. g = [i \in (k + 1)..(n + 1) |-> From(s, n, c, new, g, i)]
      BY <2>1, <2>2
    <3>2. \A i \in (k + 1)..(n + 1) : h[i] = g[i]
      BY <2>2
    <3> HIDE DEF h, D, k
    <3>3. \A i \in (k + 1)..(n + 1) : g[i] = From(s, n, c, new, g, i)
      BY <3>1
    <3> QED
      BY <3>2, <3>3
  <2>4. h[k] = From(s, n, c, new, g, k)
    BY <2>2
  <2> HIDE DEF h
  <2>5. \A i \in D : From(s, n, c, new, h, i) = From(s, n, c, new, g, i)
    <3> SUFFICES ASSUME NEW i \in D
                 PROVE  From(s, n, c, new, h, i) = From(s, n, c, new, g, i)
      OBVIOUS
    <3>1. /\ i <= n => i + 1 \in (k + 1)..(n + 1)
          /\ i < n => i + 2 \in (k + 1)..(n + 1)
          /\ i \in Int
      BY <2>2
    <3>2. /\ i <= n => h[i + 1] = g[i + 1]
          /\ i < n => h[i + 2] = g[i + 2]
      BY <2>3, <3>1
    <3> QED
      BY <3>1, <3>2 DEF From
  <2>6. \A i \in D : h[i] = From(s, n, c, new, h, i)
    <3> SUFFICES ASSUME NEW i \in D
                 PROVE  h[i] = From(s, n, c, new, h, i)
      OBVIOUS
    <3>1. i = k \/ i \in (k + 1)..(n + 1)
      BY <2>2
    <3> QED
      BY <2>3, <2>4, <2>5, <3>1
  <2>7. h = [i \in D |-> From(s, n, c, new, h, i)]
    <3>1. h = [i \in D |-> h[i]]
      BY DEF h
    <3> QED
      BY <2>6, <3>1
  <2>8. Steps(m + 1, h)
    BY <2>2, <2>7
  <2>9. \E f : Steps(m + 1, f)
    <3> HIDE DEF Steps
    <3> QED
      BY <2>8
  <2> QED
    BY <2>9
<1>3. n \in G
  <2>1. \A m \in 0..(n - 1) : m \in G => m + 1 \in G
    BY <1>2
  <2> HIDE DEF G
  <2>2. \A m \in 0..n : m \in G
    BY <1>1, <2>1, Induction
  <2> QED
    BY <2>2
<1> DEFINE All(g) == g = [i \in 1..(n + 1) |-> From(s, n, c, new, g, i)]
           from == CHOOSE g : All(g)
<1>4. All(from)
  <2>1. PICK g : Steps(n, g)
    BY <1>3
  <2>2. n + 1 - n = 1
    OBVIOUS
  <2>3. All(g)
    BY <2>1, <2>2
  <2> QED
    BY <2>3
<1>5. Undo(s, c, new) = from[1]
  BY DEF Undo, From
<1> QED
  BY <1>4, <1>5 DEF Rests

\* What it makes of any rest of a text is a list.
LEMMA RestsAreLists ==
  ASSUME NEW s, NEW c, NEW new, NEW from, NEW n \in Nat, Rests(s, n, c, new, from)
  PROVE  \A i \in 1..(n + 1) : IsList(from[i]) /\ from[i] = From(s, n, c, new, from, i)
<1> DEFINE G == {m \in 0..n : \A i \in (n + 1 - m)..(n + 1) : IsList(from[i])}
<1>1. \A i \in 1..(n + 1) : from[i] = From(s, n, c, new, from, i)
  BY DEF Rests
<1>2. 0 \in G
  <2>1. /\ n + 1 \in 1..(n + 1) /\ n + 1 > n
        /\ \A i \in (n + 1 - 0)..(n + 1) : i = n + 1
    OBVIOUS
  <2>2. from[n + 1] = From(s, n, c, new, from, n + 1)
    BY <1>1, <2>1
  <2>3. from[n + 1] = <<>>
    BY <2>1, <2>2 DEF From
  <2>4. IsList(from[n + 1])
    BY <2>3, EmptyIsList
  <2> QED
    BY <2>1, <2>4
<1>3. ASSUME NEW m \in 0..(n - 1), m \in G
      PROVE  m + 1 \in G
  <2>1. PICK k \in 1..n : k = n - m /\ n + 1 - m = k + 1 /\ n + 1 - (m + 1) = k
    <3>1. n - m \in 1..n /\ n + 1 - m = (n - m) + 1 /\ n + 1 - (m + 1) = n - m
      OBVIOUS
    <3> QED
      BY <3>1
  <2>2. \A i \in (k + 1)..(n + 1) : IsList(from[i])
    BY <1>3, <2>1
  <2>3. from[k] = From(s, n, c, new, from, k)
    BY <1>1
  <2>4. IsList(from[k + 1]) /\ (k < n => IsList(from[k + 2]))
    BY <2>2
  <2>5. IsList(from[k])
    <3>1. IsList(<<new>>) /\ IsList(<<s[k]>>)
      BY TuplesAreLists
    <3>2. /\ IsList(<<s[k]>> \o from[k + 1])
          /\ k < n => IsList(<<new>> \o from[k + 2])
      BY <2>4, <3>1, ListConcat
    <3>3. \/ from[k] = <<s[k]>> \o from[k + 1]
          \/ k < n /\ from[k] = <<new>> \o from[k + 2]
      BY <2>3 DEF From
    <3> QED
      BY <3>2, <3>3
  <2>6. \A i \in k..(n + 1) : i = k \/ i \in (k + 1)..(n + 1)
    OBVIOUS
  <2> QED
    <3>1. \A i \in k..(n + 1) : IsList(from[i])
      BY <2>2, <2>5, <2>6
    <3> QED
      BY <2>1, <3>1
<1>4. n \in G
  <2>1. \A m \in 0..(n - 1) : m \in G => m + 1 \in G
    BY <1>3
  <2> HIDE DEF G
  <2>2. \A m \in 0..n : m \in G
    BY <1>2, <2>1, Induction
  <2> QED
    BY <2>2
<1> QED
  BY <1>1, <1>4

\* Undo makes one token of a piece, or it leaves a piece alone in which, with the
\* beginning of the next, no backslash stands before c.
Undone(f, h, k, c, new) ==
  LET apart == k < Len(f) => f[k + 1][1] # c
  IN  \/ f[k] = <<BS, c>> /\ h[k] = <<new>>
      \/ \E x : f[k] = <<x>> /\ h[k] = f[k] /\ (x = BS => apart)
      \/ \E y : f[k] = <<BS, y>> /\ h[k] = f[k] /\ y # c /\ (y = BS => apart)

\* Two tokens, one behind the other.
LEMMA PairConcat == \A a, b : <<a>> \o <<b>> = <<a, b>>
<1> SUFFICES ASSUME NEW a, NEW b
             PROVE  <<a>> \o <<b>> = <<a, b>>
  OBVIOUS
<1>1. <<a>> \in Seq({a, b}) /\ <<b>> \in Seq({a, b}) /\ <<a, b>> \in Seq({a, b})
  OBVIOUS
<1>2. IsList(<<a>>) /\ IsList(<<b>>) /\ IsList(<<a, b>>)
  BY TuplesAreLists
<1> DEFINE s == <<a>>
           t == <<b>>
<1>3. Len(s) = 1 /\ Len(t) = 1 /\ s[1] = a /\ t[1] = b /\ IsList(s) /\ IsList(t)
  BY <1>2, TupleFacts
<1> HIDE DEF s, t
<1>4. IsList(s \o t) /\ Len(s \o t) = 2 /\ (s \o t)[1] = a /\ (s \o t)[2] = b
  <2>1. /\ IsList(s \o t) /\ Len(s \o t) = Len(s) + Len(t)
        /\ \A i \in 1..(Len(s) + Len(t)) :
             (s \o t)[i] = IF i <= Len(s) THEN s[i] ELSE t[i - Len(s)]
    BY <1>3, ListConcat
  <2> QED
    BY <1>3, <2>1
<1> DEFINE v == s \o t
           w == <<a, b>>
<1>5. Len(w) = 2 /\ w[1] = a /\ w[2] = b /\ IsList(w)
  BY <1>2, TupleFacts
<1>6. IsList(v) /\ Len(v) = 2 /\ v[1] = a /\ v[2] = b
  BY <1>4
<1> HIDE DEF v, w
<1>7. \A i \in 1..2 : v[i] = w[i]
  BY <1>5, <1>6
<1>8. v = w
  BY <1>5, <1>6, <1>7, ListsEqual
<1> QED
  BY <1>8, Zenon DEF v, w, s, t

\* Undo takes a text that was put together piece by piece, piece by piece.
LEMMA UndoFlattened ==
  ASSUME NEW c, NEW new, NEW f, NEW h, IsLines(f), IsLines(h), Len(h) = Len(f),
         \A k \in 1..Len(f) : Undone(f, h, k, c, new)
  PROVE  Undo(FlattenSeq(f), c, new) = FlattenSeq(h)
<1>1. PICK n \in Nat : n = Len(f)
  BY ListFacts DEF IsLines
<1>2. PICK g : MadeOf(f, g) /\ FlattenSeq(f) = g[n]
  BY <1>1, FlattenByParts
<1>3. PICK e : MadeOf(h, e) /\ FlattenSeq(h) = e[n]
  BY <1>1, FlattenByParts
<1>4. PICK u : u = FlattenSeq(f)
  OBVIOUS
<1>5. PICK z \in Nat : z = Len(u) /\ z = Len(g[n])
  BY <1>1, <1>2, <1>4 DEF MadeOf
<1>6. PICK from : Rests(u, z, c, new, from) /\ Undo(u, c, new) = from[1]
  <2>1. Len(u) = z
    BY <1>5
  <2> QED
    BY <2>1, UndoUnfolds
<1>7. \A i \in 1..(z + 1) : IsList(from[i]) /\ from[i] = From(u, z, c, new, from, i)
  BY <1>6, RestsAreLists
<1>8. ASSUME NEW i \in 1..z, ~(i < z /\ u[i] = BS /\ u[i + 1] = c)
      PROVE  from[i] = <<u[i]>> \o from[i + 1]
  <2>1. i \in 1..(z + 1) /\ ~(i > z)
    OBVIOUS
  <2>2. from[i] = From(u, z, c, new, from, i)
    BY <1>7, <2>1
  <2> QED
    BY <1>8, <2>1, <2>2, Zenon DEF From
<1>9. ASSUME NEW k \in 1..n, NEW m \in 0..(n - 1), m = k - 1
      PROVE  /\ Placed(u, Len(g[m]), Len(g[k]), f[k])
             /\ Len(g[m]) \in Nat /\ Len(g[k]) \in Nat
  <2>1. Placed(g[Len(f)], Len(g[m]), Len(g[k]), f[k])
    BY <1>1, <1>2, <1>9, PartAt
  <2>2. m \in 0..n /\ k \in 0..n
    OBVIOUS
  <2>3. Len(g[m]) \in Nat /\ Len(g[k]) \in Nat
    BY <1>1, <1>2, <2>2 DEF MadeOf
  <2> QED
    BY <1>1, <1>2, <1>4, <2>1, <2>3
<1>10. \A k \in 1..n : 1 \in 1..Len(f[k])
  <2> SUFFICES ASSUME NEW k \in 1..n
               PROVE  1 \in 1..Len(f[k])
    OBVIOUS
  <2>1. Undone(f, h, k, c, new)
    BY <1>1
  <2>2. \/ \E x : f[k] = <<x>>
        \/ \E x, y : f[k] = <<x, y>>
    BY <2>1, Zenon DEF Undone
  <2>3. ASSUME NEW x, f[k] = <<x>>
        PROVE  Len(f[k]) = 1
    BY <2>3, TupleFacts
  <2>4. ASSUME NEW x, NEW y, f[k] = <<x, y>>
        PROVE  Len(f[k]) = 2
    BY <2>4, TupleFacts
  <2>5. Len(f[k]) = 1 \/ Len(f[k]) = 2
    BY <2>2, <2>3, <2>4, Zenon
  <2> QED
    BY <2>5
<1>11. ASSUME NEW k \in 1..(n - 1)
       PROVE  u[Len(g[k]) + 1] = f[k + 1][1]
  <2>1. PICK l \in 1..n : l = k + 1 /\ k = l - 1
    <3>1. k + 1 \in 1..n /\ k = (k + 1) - 1
      OBVIOUS
    <3> QED
      BY <3>1
  <2>2. Placed(u, Len(g[k]), Len(g[l]), f[l])
    BY <1>9, <2>1
  <2>3. 1 \in 1..Len(f[l])
    BY <1>10, Zenon
  <2>4. u[Len(g[k]) + 1] = f[l][1]
    BY <2>2, <2>3 DEF Placed
  <2> QED
    BY <2>1, <2>4
<1> DEFINE G == {k \in 0..n : e[k] \o from[Len(g[k]) + 1] = from[1]}
<1>12. 0 \in G
  <2>1. g[0] = <<>> /\ e[0] = <<>>
    BY <1>2, <1>3 DEF MadeOf
  <2>2. Len(g[0]) + 1 = 1 /\ 1 \in 1..(z + 1)
    BY <2>1
  <2>3. IsList(from[1])
    BY <1>7, <2>2
  <2>4. <<>> \o from[1] = from[1]
    BY <2>3, EmptyIsList
  <2>5. e[0] \o from[Len(g[0]) + 1] = from[1]
    BY <2>1, <2>2, <2>4, Zenon
  <2>6. 0 \in 0..n
    OBVIOUS
  <2> QED
    BY <2>5, <2>6, Zenon
<1>13. ASSUME NEW m \in 0..(n - 1), m \in G
       PROVE  m + 1 \in G
  <2>1. PICK k \in 1..n : k = m + 1 /\ m = k - 1 /\ k \in 0..n
    <3>1. m + 1 \in 1..n /\ m = (m + 1) - 1 /\ m + 1 \in 0..n
      OBVIOUS
    <3> QED
      BY <3>1
  <2>2. PICK p \in Nat : p = Len(g[m])
    BY <1>9, <2>1
  <2>3. PICK t \in Nat : t = Len(g[k])
    BY <1>9, <2>1
  <2>4. Placed(u, p, t, f[k])
    BY <1>9, <2>1, <2>2, <2>3
  <2>5. t = p + Len(f[k]) /\ t <= z /\ \A j \in 1..Len(f[k]) : u[p + j] = f[k][j]
    BY <1>5, <2>4 DEF Placed
  <2>6. Undone(f, h, k, c, new)
    BY <1>1
  <2>7. (k < Len(f) => f[k + 1][1] # c) => (t < z => u[t + 1] # c)
    <3>1. CASE k = n
      <4>1. t = z
        BY <1>5, <2>3, <3>1
      <4> QED
        BY <4>1
    <3>2. CASE k # n
      <4>1. k \in 1..(n - 1)
        BY <3>2
      <4>2. u[t + 1] = f[k + 1][1]
        BY <1>11, <2>3, <4>1
      <4> QED
        BY <1>1, <4>1, <4>2
    <3> QED
      BY <3>1, <3>2
  <2>8. from[p + 1] = h[k] \o from[t + 1]
    <3>1. CASE f[k] = <<BS, c>> /\ h[k] = <<new>>
      <4>1. t = p + 2 /\ u[p + 1] = BS /\ u[p + 2] = c
        BY <2>5, <3>1, TupleFacts
      <4>2. p + 1 \in 1..(z + 1) /\ p + 1 < z /\ ~(p + 1 > z) /\ (p + 1) + 1 = p + 2 /\ (p + 1) + 2 = t + 1
        BY <2>5, <4>1
      <4>3. from[p + 1] = From(u, z, c, new, from, p + 1)
        BY <1>7, <4>2
      <4>4. from[p + 1] = <<new>> \o from[t + 1]
        BY <4>1, <4>2, <4>3 DEF From
      <4> QED
        BY <3>1, <4>4
    <3>2. ASSUME NEW x, f[k] = <<x>>, h[k] = f[k], x = BS => (k < Len(f) => f[k + 1][1] # c)
          PROVE  from[p + 1] = h[k] \o from[t + 1]
      <4>1. t = p + 1 /\ u[p + 1] = x
        BY <2>5, <3>2, TupleFacts
      <4>2. t \in 1..z /\ ~(t < z /\ u[t] = BS /\ u[t + 1] = c)
        BY <2>5, <2>7, <3>2, <4>1
      <4>3. from[t] = <<u[t]>> \o from[t + 1]
        BY <1>8, <4>2
      <4> QED
        BY <3>2, <4>1, <4>3
    <3>3. ASSUME NEW y, f[k] = <<BS, y>>, h[k] = f[k], y # c,
                 y = BS => (k < Len(f) => f[k + 1][1] # c)
          PROVE  from[p + 1] = h[k] \o from[t + 1]
      <4>1. t = p + 2 /\ u[p + 1] = BS /\ u[p + 2] = y
        BY <2>5, <3>3, TupleFacts
      <4>2. /\ p + 1 \in 1..z /\ (p + 1) + 1 = t /\ t \in 1..z /\ t + 1 \in 1..(z + 1)
            /\ u[t] = y
        BY <2>5, <4>1
      <4>3. ~(t < z /\ u[t] = BS /\ u[t + 1] = c)
        BY <2>7, <3>3, <4>2
      <4>4. from[t] = <<y>> \o from[t + 1]
        BY <1>8, <4>2, <4>3
      <4>5. from[p + 1] = <<BS>> \o from[t]
        <5>1. u[(p + 1) + 1] # c
          BY <3>3, <4>2
        <5>2. from[p + 1] = <<u[p + 1]>> \o from[(p + 1) + 1]
          BY <1>8, <4>2, <5>1
        <5> QED
          BY <4>1, <4>2, <5>2
      <4>6. IsList(from[t + 1]) /\ IsList(<<BS>>) /\ IsList(<<y>>)
        BY <1>7, <4>2, TuplesAreLists
      <4>7. <<BS>> \o (<<y>> \o from[t + 1]) = (<<BS>> \o <<y>>) \o from[t + 1]
        BY <4>6, ConcatAssociates
      <4>8. <<BS>> \o <<y>> = <<BS, y>>
        BY PairConcat
      <4> QED
        BY <3>3, <4>4, <4>5, <4>7, <4>8
    <3> QED
      BY <2>6, <3>1, <3>2, <3>3 DEF Undone
  <2>9. e[k] = e[m] \o h[k] /\ IsList(e[m]) /\ IsList(h[k])
    <3>1. e[k] = e[k - 1] \o h[k]
      BY <1>1, <1>3 DEF MadeOf
    <3>2. m \in 0..n
      OBVIOUS
    <3>3. IsList(e[m])
      BY <1>1, <1>3, <3>2 DEF MadeOf
    <3>4. IsList(h[k])
      BY <1>1 DEF IsLines
    <3> QED
      BY <2>1, <3>1, <3>3, <3>4
  <2>10. e[m] \o from[p + 1] = from[1]
    BY <1>13, <2>2
  <2>11. e[k] \o from[t + 1] = from[1]
    <3> DEFINE a == e[m]
               b == h[k]
               d == from[t + 1]
    <3>1. IsList(a) /\ IsList(b)
      BY <2>9
    <3>2. IsList(d)
      <4>1. t + 1 \in 1..(z + 1)
        BY <2>5
      <4> QED
        BY <1>7, <4>1
    <3> HIDE DEF a, b, d
    <3>3. (a \o b) \o d = a \o (b \o d)
      BY <3>1, <3>2, ConcatAssociates
    <3> QED
      BY <2>8, <2>9, <2>10, <3>3, Zenon DEF a, b, d
  <2> QED
    BY <2>1, <2>3, <2>11
<1>14. n \in G
  <2>1. \A m \in 0..(n - 1) : m \in G => m + 1 \in G
    BY <1>13
  <2> HIDE DEF G
  <2>2. \A m \in 0..n : m \in G
    BY <1>12, <2>1, Induction
  <2> QED
    BY <2>2
<1>15. e[n] \o from[z + 1] = from[1]
  BY <1>5, <1>14
<1>16. from[z + 1] = <<>>
  <2>1. z + 1 \in 1..(z + 1) /\ z + 1 > z
    OBVIOUS
  <2>2. from[z + 1] = From(u, z, c, new, from, z + 1)
    BY <1>7, <2>1
  <2> QED
    BY <2>1, <2>2 DEF From
<1>17. IsList(e[n])
  BY <1>1, <1>3 DEF MadeOf
<1>18. e[n] \o <<>> = e[n]
  BY <1>17, EmptyIsList
<1> QED
  BY <1>3, <1>4, <1>6, <1>15, <1>16, <1>18

Singles(s) == [i \in DOMAIN s |-> <<s[i]>>]

\* A text is made of its tokens.
LEMMA SinglesFlattened ==
  ASSUME NEW s, IsList(s)
  PROVE  /\ IsLines(Singles(s)) /\ Len(Singles(s)) = Len(s)
         /\ FlattenSeq(Singles(s)) = s
<1>1. PICK n \in Nat : n = Len(s) /\ DOMAIN s = 1..n
  BY ListFacts
<1>2. PICK f : f = Singles(s)
  OBVIOUS
<1>3. f = [i \in 1..n |-> f[i]] /\ \A i \in 1..n : f[i] = <<s[i]>>
  BY <1>1, <1>2 DEF Singles
<1>4. IsList(f) /\ Len(f) = n
  BY <1>3, ListMade
<1>5. IsLines(f)
  BY <1>3, <1>4, TuplesAreLists DEF IsLines
<1>6. PICK g : MadeOf(f, g) /\ FlattenSeq(f) = g[n]
  BY <1>4, <1>5, FlattenByParts
<1>7. PICK u : u = FlattenSeq(f) /\ u = g[n]
  BY <1>6
<1>8. \A k \in 1..n : Len(f[k]) = 1 /\ f[k][1] = s[k]
  BY <1>3, TupleFacts
<1>9. ASSUME NEW k \in 1..n, NEW m, m = k - 1
      PROVE  /\ Len(g[k]) = Len(g[m]) + 1 /\ u[Len(g[m]) + 1] = s[k]
  <2>1. Placed(g[Len(f)], Len(g[m]), Len(g[k]), f[k])
    BY <1>4, <1>5, <1>6, <1>9, PartAt
  <2>2. Placed(u, Len(g[m]), Len(g[k]), f[k])
    BY <1>4, <1>7, <2>1
  <2>3. Len(f[k]) = 1 /\ f[k][1] = s[k] /\ 1 \in 1..1
    BY <1>8
  <2> QED
    BY <2>2, <2>3 DEF Placed
<1> DEFINE G == {k \in 0..n : Len(g[k]) = k}
<1>10. 0 \in G
  <2>1. g[0] = <<>>
    BY <1>6 DEF MadeOf
  <2> QED
    BY <2>1
<1>11. ASSUME NEW m \in 0..(n - 1), m \in G
       PROVE  m + 1 \in G
  <2>1. PICK k \in 1..n : k = m + 1 /\ m = k - 1
    <3>1. m + 1 \in 1..n /\ m = (m + 1) - 1
      OBVIOUS
    <3> QED
      BY <3>1
  <2>2. Len(g[k]) = Len(g[m]) + 1 /\ Len(g[m]) = m
    BY <1>9, <1>11, <2>1
  <2>3. Len(g[k]) = k /\ k \in 0..n
    BY <2>1, <2>2
  <2> QED
    BY <2>1, <2>3
<1>12. \A k \in 0..n : Len(g[k]) = k
  <2>1. \A m \in 0..(n - 1) : m \in G => m + 1 \in G
    BY <1>11
  <2> HIDE DEF G
  <2>2. \A m \in 0..n : m \in G
    BY <1>10, <2>1, Induction
  <2> QED
    BY <2>2 DEF G
<1>13. IsList(u) /\ Len(u) = n
  <2>1. IsList(u)
    BY <1>5, <1>7, FlattenIsList
  <2>2. n \in 0..n
    OBVIOUS
  <2> QED
    BY <1>7, <1>12, <2>1, <2>2
<1>14. \A k \in 1..n : u[k] = s[k]
  <2> SUFFICES ASSUME NEW k \in 1..n
               PROVE  u[k] = s[k]
    OBVIOUS
  <2>1. PICK m \in 0..n : m = k - 1 /\ m + 1 = k
    <3>1. k - 1 \in 0..n /\ (k - 1) + 1 = k
      OBVIOUS
    <3> QED
      BY <3>1
  <2>2. u[Len(g[m]) + 1] = s[k] /\ Len(g[m]) = m
    BY <1>9, <1>12, <2>1
  <2> QED
    BY <2>1, <2>2
<1>15. u = s
  BY <1>1, <1>13, <1>14, ListsEqual
<1> QED
  BY <1>1, <1>2, <1>4, <1>5, <1>7, <1>15

\* The stages of Escape: a backslash, a quote and then a newline are put in two.
Stage(s, cs) ==
  [i \in 1..Len(s) |->
     IF s[i] = BS /\ BS \in cs THEN <<BS, BS>>
     ELSE IF s[i] = QT /\ QT \in cs THEN <<BS, QT>>
     ELSE IF s[i] = NL /\ NL \in cs THEN <<BS, "n">>
     ELSE <<s[i]>>]

\* Each token and its piece.
LEMMA StageOf ==
  ASSUME NEW s, NEW cs, IsList(s)
  PROVE  /\ IsLines(Stage(s, cs)) /\ Len(Stage(s, cs)) = Len(s) /\ Len(s) \in Nat
         /\ \A i \in 1..Len(s) :
              /\ s[i] = BS /\ BS \in cs => Stage(s, cs)[i] = <<BS, BS>>
              /\ s[i] = QT /\ QT \in cs => Stage(s, cs)[i] = <<BS, QT>>
              /\ s[i] = NL /\ NL \in cs => Stage(s, cs)[i] = <<BS, "n">>
              /\ s[i] \notin cs \cap {BS, QT, NL} => Stage(s, cs)[i] = <<s[i]>>
<1>1. PICK n \in Nat : n = Len(s)
  BY ListFacts
<1>2. PICK f : f = Stage(s, cs)
  OBVIOUS
<1>3. /\ f = [i \in 1..n |-> f[i]]
      /\ \A i \in 1..n : f[i] = IF s[i] = BS /\ BS \in cs THEN <<BS, BS>>
                                ELSE IF s[i] = QT /\ QT \in cs THEN <<BS, QT>>
                                ELSE IF s[i] = NL /\ NL \in cs THEN <<BS, "n">>
                                ELSE <<s[i]>>
  BY <1>1, <1>2 DEF Stage
<1>4. IsList(f) /\ Len(f) = n
  BY <1>3, ListMade
<1>5. BS # QT /\ BS # NL /\ QT # NL
  BY DEF BS, QT, NL
<1>6. \A i \in 1..n :
        /\ s[i] = BS /\ BS \in cs => f[i] = <<BS, BS>>
        /\ s[i] = QT /\ QT \in cs => f[i] = <<BS, QT>>
        /\ s[i] = NL /\ NL \in cs => f[i] = <<BS, "n">>
        /\ s[i] \notin cs \cap {BS, QT, NL} => f[i] = <<s[i]>>
  BY <1>3, <1>5
<1>7. \A i \in 1..n : IsList(f[i])
  BY <1>3, TuplesAreLists
<1> QED
  BY <1>1, <1>2, <1>4, <1>6, <1>7 DEF IsLines

\* Each replace() of the escaping takes a text from one stage to the next.
LEMMA StagePut ==
  ASSUME NEW s, IsList(s), NEW c, NEW d, NEW cs, NEW all,
         \/ c = BS /\ d = BS /\ cs = {} /\ all = {BS}
         \/ c = QT /\ d = QT /\ cs = {BS} /\ all = {BS, QT}
         \/ c = NL /\ d = "n" /\ cs = {BS, QT} /\ all = {BS, QT, NL}
  PROVE  Put(FlattenSeq(Stage(s, cs)), c, <<BS, d>>) = FlattenSeq(Stage(s, all))
<1> DEFINE new == <<BS, d>>
<1>1. BS # QT /\ BS # NL /\ QT # NL
  BY DEF BS, QT, NL
<1>2. PICK f : f = Stage(s, cs)
  OBVIOUS
<1>3. PICK h : h = Stage(s, all)
  OBVIOUS
<1>4. /\ IsLines(f) /\ Len(f) = Len(s)
      /\ \A i \in 1..Len(s) :
              /\ s[i] = BS /\ BS \in cs => f[i] = <<BS, BS>>
              /\ s[i] = QT /\ QT \in cs => f[i] = <<BS, QT>>
              /\ s[i] = NL /\ NL \in cs => f[i] = <<BS, "n">>
              /\ s[i] \notin cs \cap {BS, QT, NL} => f[i] = <<s[i]>>
  BY <1>2, StageOf
<1>5. /\ IsLines(h) /\ Len(h) = Len(s)
      /\ \A i \in 1..Len(s) :
              /\ s[i] = BS /\ BS \in all => h[i] = <<BS, BS>>
              /\ s[i] = QT /\ QT \in all => h[i] = <<BS, QT>>
              /\ s[i] = NL /\ NL \in all => h[i] = <<BS, "n">>
              /\ s[i] \notin all \cap {BS, QT, NL} => h[i] = <<s[i]>>
  BY <1>3, StageOf
<1>6. /\ BS \in cs => c # BS /\ BS \in all
      /\ QT \in cs => c = NL /\ QT \in all
      /\ NL \notin cs
  BY <1>1
<1>7. \A x : x # c => Image(x, c, new) = <<x>>
  BY DEF Image
<1>8. Image(c, c, new) = new
  BY DEF Image
<1>9. ASSUME NEW k \in 1..Len(s)
      PROVE  Replaced(f, h, k, c, new)
  <2>1. CASE s[k] = BS /\ BS \in cs
    <3>1. f[k] = <<BS, BS>> /\ h[k] = <<BS, BS>>
      BY <1>4, <1>5, <1>6, <2>1
    <3>2. Image(BS, c, new) = <<BS>>
      BY <1>6, <1>7, <2>1
    <3>3. h[k] = Image(BS, c, new) \o Image(BS, c, new)
      BY <3>1, <3>2, PairConcat
    <3> QED
      BY <3>1, <3>3 DEF Replaced
  <2>2. CASE s[k] = QT /\ QT \in cs
    <3>1. f[k] = <<BS, QT>> /\ h[k] = <<BS, QT>>
      BY <1>4, <1>5, <1>6, <2>2
    <3>2. Image(BS, c, new) = <<BS>> /\ Image(QT, c, new) = <<QT>>
      BY <1>1, <1>6, <1>7, <2>2
    <3>3. h[k] = Image(BS, c, new) \o Image(QT, c, new)
      BY <3>1, <3>2, PairConcat
    <3> QED
      BY <3>1, <3>3 DEF Replaced
  <2>3. CASE s[k] \notin cs
    <3>1. f[k] = <<s[k]>>
      BY <1>4, <2>3
    <3>2. CASE s[k] = c
      <4>1. h[k] = <<BS, d>>
        BY <1>1, <1>5, <3>2
      <4>2. h[k] = Image(s[k], c, new)
        BY <1>8, <3>2, <4>1
      <4> QED
        BY <3>1, <4>2 DEF Replaced
    <3>3. CASE s[k] # c
      <4>1. s[k] \notin all
        BY <2>3, <3>3
      <4>2. h[k] = <<s[k]>>
        BY <1>5, <4>1
      <4>3. h[k] = Image(s[k], c, new)
        BY <1>7, <3>3, <4>2
      <4> QED
        BY <3>1, <4>3 DEF Replaced
    <3> QED
      BY <3>2, <3>3
  <2> QED
    BY <1>6, <2>1, <2>2, <2>3
<1>10. IsList(new)
  BY TuplesAreLists
<1>11. Put(FlattenSeq(f), c, new) = FlattenSeq(h)
  BY <1>4, <1>5, <1>9, <1>10, PutFlattened
<1> QED
  BY <1>2, <1>3, <1>11

\* Each replace() of the unescaping takes it back.
LEMMA StageUndo ==
  ASSUME NEW s, IsList(s), NEW c, NEW d, NEW cs, NEW all,
         \/ c = BS /\ d = BS /\ cs = {} /\ all = {BS}
         \/ c = QT /\ d = QT /\ cs = {BS} /\ all = {BS, QT}
         \/ /\ c = NL /\ d = "n" /\ cs = {BS, QT} /\ all = {BS, QT, NL}
            /\ NoBackslashBefore(s, {"n"})
  PROVE  Undo(FlattenSeq(Stage(s, all)), d, c) = FlattenSeq(Stage(s, cs))
<1>1. BS # QT /\ BS # NL /\ QT # NL /\ BS # "n" /\ QT # "n" /\ NL # "n"
  BY DEF BS, QT, NL
<1>2. PICK f : f = Stage(s, all)
  OBVIOUS
<1>3. PICK h : h = Stage(s, cs)
  OBVIOUS
<1>4. /\ IsLines(f) /\ Len(f) = Len(s) /\ Len(s) \in Nat
      /\ \A i \in 1..Len(s) :
              /\ s[i] = BS /\ BS \in all => f[i] = <<BS, BS>>
              /\ s[i] = QT /\ QT \in all => f[i] = <<BS, QT>>
              /\ s[i] = NL /\ NL \in all => f[i] = <<BS, "n">>
              /\ s[i] \notin all \cap {BS, QT, NL} => f[i] = <<s[i]>>
  BY <1>2, StageOf
<1>5. /\ IsLines(h) /\ Len(h) = Len(s)
      /\ \A i \in 1..Len(s) :
              /\ s[i] = BS /\ BS \in cs => h[i] = <<BS, BS>>
              /\ s[i] = QT /\ QT \in cs => h[i] = <<BS, QT>>
              /\ s[i] = NL /\ NL \in cs => h[i] = <<BS, "n">>
              /\ s[i] \notin cs \cap {BS, QT, NL} => h[i] = <<s[i]>>
  BY <1>3, StageOf
<1>6. \A i \in 1..Len(s) : f[i][1] = IF s[i] \in all THEN BS ELSE s[i]
  <2> SUFFICES ASSUME NEW i \in 1..Len(s)
               PROVE  f[i][1] = IF s[i] \in all THEN BS ELSE s[i]
    OBVIOUS
  <2>1. \/ s[i] \in all /\ f[i] = <<BS, BS>>
        \/ s[i] \in all /\ f[i] = <<BS, QT>>
        \/ s[i] \in all /\ f[i] = <<BS, "n">>
        \/ s[i] \notin all /\ f[i] = <<s[i]>>
    BY <1>1, <1>4
  <2> QED
    BY <2>1, TupleFacts
<1>7. ASSUME NEW k \in 1..Len(s)
      PROVE  Undone(f, h, k, d, c)
  <2>1. CASE s[k] = c
    <3>1. f[k] = <<BS, d>> /\ h[k] = <<c>>
      BY <1>1, <1>4, <1>5, <2>1
    <3> QED
      BY <3>1 DEF Undone
  <2>2. CASE s[k] # c /\ s[k] = BS
    <3>1. f[k] = <<BS, BS>> /\ h[k] = f[k] /\ BS # d
      BY <1>1, <1>4, <1>5, <2>2
    <3>2. k < Len(f) => f[k + 1][1] # d
      <4> SUFFICES ASSUME k < Len(f)
                   PROVE  f[k + 1][1] # d
        OBVIOUS
      <4>1. k + 1 \in 1..Len(s) /\ k \in 1..(Len(s) - 1)
        BY <1>4
      <4>2. f[k + 1][1] = IF s[k + 1] \in all THEN BS ELSE s[k + 1]
        BY <1>6, <4>1
      <4>3. CASE d = "n"
        <5>1. s[k + 1] # "n"
          BY <1>1, <2>2, <4>1, <4>3 DEF NoBackslashBefore
        <5> QED
          BY <1>1, <4>2, <4>3, <5>1
      <4>4. CASE d = QT
        <5>1. QT \in all
          BY <1>1, <4>4
        <5> QED
          BY <1>1, <4>2, <4>4, <5>1
      <4> QED
        BY <2>2, <4>3, <4>4
    <3> QED
      BY <3>1, <3>2 DEF Undone
  <2>3. CASE s[k] # c /\ s[k] # BS /\ s[k] \in cs
    <3>1. f[k] = <<BS, QT>> /\ h[k] = f[k] /\ QT # d
      BY <1>1, <1>4, <1>5, <2>3
    <3> QED
      BY <1>1, <3>1 DEF Undone
  <2>4. CASE s[k] # c /\ s[k] # BS /\ s[k] \notin cs
    <3>1. f[k] = <<s[k]>> /\ h[k] = f[k]
      BY <1>1, <1>4, <1>5, <2>4
    <3> QED
      BY <2>4, <3>1 DEF Undone
  <2> QED
    BY <2>1, <2>2, <2>3, <2>4
<1>8. Undo(FlattenSeq(f), d, c) = FlattenSeq(h)
  BY <1>4, <1>5, <1>7, UndoFlattened
<1> QED
  BY <1>2, <1>3, <1>8

\* The text is the first stage, and what Escape returns the last.
LEMMA EscapeIsStage ==
  ASSUME NEW s, IsList(s)
  PROVE  /\ FlattenSeq(Stage(s, {})) = s
         /\ Escape(s) = FlattenSeq(Stage(s, {BS, QT, NL}))
<1>1. FlattenSeq(Stage(s, {})) = s
  <2>1. DOMAIN s = 1..Len(s)
    BY ListFacts
  <2>2. Stage(s, {}) = Singles(s)
    BY <2>1 DEF Stage, Singles
  <2> QED
    BY <2>2, SinglesFlattened
<1>2. Put(s, BS, <<BS, BS>>) = FlattenSeq(Stage(s, {BS}))
  BY <1>1, StagePut
<1>3. Put(FlattenSeq(Stage(s, {BS})), QT, <<BS, QT>>) = FlattenSeq(Stage(s, {BS, QT}))
  BY StagePut
<1>4. Put(FlattenSeq(Stage(s, {BS, QT})), NL, <<BS, "n">>) = FlattenSeq(Stage(s, {BS, QT, NL}))
  BY StagePut
<1> QED
  BY <1>1, <1>2, <1>3, <1>4 DEF Escape

\* What is between the quotes is the text they were put around.
LEMMA UnquoteQuoted ==
  ASSUME NEW s, IsList(s)
  PROVE  Unquote(Quoted(s)) = Undo(Undo(Undo(s, "n", NL), QT, QT), BS, BS)
<1>1. PICK S : s \in Seq(S)
  BY DEF IsList
<1> DEFINE T == S \cup {QT}
           a == <<QT>> \o s
           q == a \o <<QT>>
<1>2. s \in Seq(T) /\ <<QT>> \in Seq(T) /\ Len(<<QT>>) = 1 /\ <<QT>>[1] = QT
  BY <1>1
<1>3. PICK n \in Nat : n = Len(s)
  BY <1>2, LenProperties
<1> HIDE DEF T
<1>4. /\ a \in Seq(T) /\ Len(a) = n + 1 /\ a[1] = QT
      /\ \A i \in 1..n : a[i + 1] = s[i]
  <2> DEFINE v == <<QT>>
  <2>1. v \in Seq(T) /\ Len(v) = 1 /\ v[1] = QT
    BY <1>2
  <2> HIDE DEF v
  <2>2. /\ v \o s \in Seq(T) /\ Len(v \o s) = Len(v) + Len(s)
        /\ \A i \in 1..(Len(v) + Len(s)) :
             (v \o s)[i] = IF i <= Len(v) THEN v[i] ELSE s[i - Len(v)]
    BY <1>2, <2>1, ConcatProperties
  <2>3. /\ v \o s \in Seq(T) /\ Len(v \o s) = n + 1 /\ (v \o s)[1] = QT
        /\ \A i \in 1..n : (v \o s)[i + 1] = s[i]
    BY <1>3, <2>1, <2>2
  <2> QED
    BY <2>3 DEF v
<1> HIDE DEF a
<1>5. /\ q \in Seq(T) /\ Len(q) = n + 2 /\ q[1] = QT /\ q[n + 2] = QT
      /\ \A i \in 1..n : q[i + 1] = s[i]
  <2> DEFINE v == <<QT>>
  <2>1. v \in Seq(T) /\ Len(v) = 1 /\ v[1] = QT
    BY <1>2
  <2> HIDE DEF v
  <2>2. /\ a \o v \in Seq(T) /\ Len(a \o v) = Len(a) + Len(v)
        /\ \A i \in 1..(Len(a) + Len(v)) :
             (a \o v)[i] = IF i <= Len(a) THEN a[i] ELSE v[i - Len(a)]
    BY <1>4, <2>1, ConcatProperties
  <2>3. /\ a \o v \in Seq(T) /\ Len(a \o v) = n + 2 /\ (a \o v)[1] = QT /\ (a \o v)[n + 2] = QT
        /\ \A i \in 1..n : (a \o v)[i + 1] = s[i]
    BY <1>4, <2>1, <2>2
  <2> QED
    BY <2>3 DEF v
<1>6. Quoted(s) = q
  BY DEF Quoted, a
<1> HIDE DEF q
<1>7. SubSeq(q, 2, Len(q) - 1) = s
  <2> DEFINE w == SubSeq(q, 2, n + 1)
  <2>1. w \in Seq(T) /\ Len(w) = n /\ \A i \in 1..n : w[i] = q[i + 1]
    <3>1. 2 \in 1..(Len(q) + 1) /\ n + 1 \in 1..Len(q) /\ 2 <= (n + 1) + 1
      BY <1>5
    <3>2. /\ w \in Seq(T)
          /\ Len(w) = IF 2 <= n + 1 THEN (n + 1) - 2 + 1 ELSE 0
          /\ \A i \in 1..((n + 1) - 2 + 1) : w[i] = q[2 + i - 1]
      BY <1>5, <3>1, SubSeqProperties
    <3> QED
      BY <3>2
  <2> HIDE DEF w
  <2>2. IsList(w)
    BY <2>1 DEF IsList
  <2>3. w = s
    BY <1>3, <1>5, <2>1, <2>2, ListsEqual
  <2>4. Len(q) - 1 = n + 1
    BY <1>5
  <2> QED
    BY <2>3, <2>4 DEF w
<1>8. Len(q) >= 2 /\ q[1] = QT /\ q[Len(q)] = QT
  BY <1>5
<1> QED
  BY <1>6, <1>7, <1>8 DEF Unquote

\* Undo leaves a text alone in which no backslash stands before c.
LEMMA UndoLeavesAlone ==
  ASSUME NEW s, NEW c, NEW new, IsList(s), NoBackslashBefore(s, {c})
  PROVE  Undo(s, c, new) = s
<1>1. PICK f : f = Singles(s)
  OBVIOUS
<1>2. IsLines(f) /\ Len(f) = Len(s) /\ FlattenSeq(f) = s /\ Len(s) \in Nat
  BY <1>1, SinglesFlattened, ListFacts
<1>3. \A k \in 1..Len(s) : f[k] = <<s[k]>> /\ f[k][1] = s[k]
  <2>1. \A k \in 1..Len(s) : f[k] = <<s[k]>>
    BY <1>1, ListFacts DEF Singles
  <2> QED
    BY <2>1, TupleFacts
<1>4. ASSUME NEW k \in 1..Len(f)
      PROVE  Undone(f, f, k, c, new)
  <2>1. f[k] = <<s[k]>>
    BY <1>2, <1>3
  <2>2. ASSUME s[k] = BS, k < Len(f)
        PROVE  f[k + 1][1] # c
    <3>1. k + 1 \in 1..Len(s) /\ k \in 1..(Len(s) - 1)
      BY <1>2, <2>2
    <3>2. f[k + 1][1] = s[k + 1]
      BY <1>3, <3>1
    <3> QED
      BY <2>2, <3>1, <3>2 DEF NoBackslashBefore
  <2> QED
    BY <2>1, <2>2 DEF Undone
<1> QED
  BY <1>2, <1>4, UndoFlattened

\* What the quotes of a text carry (format_escaped_string and the other values in
\* quotes, unquote): every value comes back, of any length, but for a backslash
\* before an n, and, where the quotes are put around a value as it is, before
\* another backslash or a quote.
THEOREM ValuesSurvive ==
  ASSUME NEW how \in {"quoted", "escaped"}, NEW s, IsList(s), Survives(how, s)
  PROVE  ParseValue("quoted", FormatValue(how, s)) = s
<1>1. CASE how = "escaped"
  <2>1. NoBackslashBefore(s, {"n"})
    BY <1>1 DEF Survives
  <2> DEFINE e == Escape(s)
  <2>2. e = FlattenSeq(Stage(s, {BS, QT, NL})) /\ IsList(e)
    BY EscapeIsStage, StageOf, FlattenIsList
  <2>3. Undo(FlattenSeq(Stage(s, {BS, QT, NL})), "n", NL) = FlattenSeq(Stage(s, {BS, QT}))
    BY <2>1, StageUndo
  <2>4. Undo(FlattenSeq(Stage(s, {BS, QT})), QT, QT) = FlattenSeq(Stage(s, {BS}))
    BY StageUndo
  <2>5. Undo(FlattenSeq(Stage(s, {BS})), BS, BS) = s
    BY StageUndo, EscapeIsStage
  <2>6. FormatValue(how, s) = Quoted(e)
    BY <1>1 DEF FormatValue
  <2> HIDE DEF e
  <2>7. Unquote(Quoted(e)) = s
    BY <2>2, <2>3, <2>4, <2>5, UnquoteQuoted
  <2> QED
    BY <2>6, <2>7 DEF ParseValue
<1>2. CASE how = "quoted"
  <2>1. NoBackslashBefore(s, {"n", QT, BS})
    BY <1>2 DEF Survives
  <2>2. NoBackslashBefore(s, {"n"}) /\ NoBackslashBefore(s, {QT}) /\ NoBackslashBefore(s, {BS})
    BY <2>1 DEF NoBackslashBefore
  <2>3. Undo(s, "n", NL) = s /\ Undo(s, QT, QT) = s /\ Undo(s, BS, BS) = s
    BY <2>2, UndoLeavesAlone
  <2>4. Unquote(Quoted(s)) = s
    BY <2>3, UnquoteQuoted
  <2>5. FormatValue(how, s) = Quoted(s)
    BY <1>2 DEF FormatValue
  <2> QED
    BY <2>4, <2>5 DEF ParseValue
<1> QED
  BY <1>1, <1>2

\* Two texts without c make one without.
LEMMA ConcatMentions ==
  ASSUME NEW a, NEW b, NEW c, IsList(a), IsList(b), ~Mentions(a, c), ~Mentions(b, c)
  PROVE  ~Mentions(a \o b, c)
<1>1. PICK m \in Nat, n \in Nat : m = Len(a) /\ n = Len(b) /\ DOMAIN a = 1..m /\ DOMAIN b = 1..n
  BY ListFacts
<1>2. (\A i \in 1..m : a[i] # c) /\ (\A i \in 1..n : b[i] # c)
  BY <1>1 DEF Mentions
<1>3. /\ IsList(a \o b) /\ Len(a \o b) = m + n
      /\ \A i \in 1..(m + n) : (a \o b)[i] = IF i <= m THEN a[i] ELSE b[i - m]
  BY <1>1, ListConcat
<1>4. DOMAIN (a \o b) = 1..(m + n)
  BY <1>3, ListFacts
<1>5. \A i \in 1..(m + n) : (i <= m => i \in 1..m) /\ (~(i <= m) => i - m \in 1..n)
  OBVIOUS
<1>6. \A i \in 1..(m + n) : (a \o b)[i] # c
  BY <1>2, <1>3, <1>5
<1> QED
  BY <1>4, <1>6 DEF Mentions

\* So do any number.
LEMMA FlattenMentions ==
  ASSUME NEW f, NEW c, IsLines(f), \A k \in 1..Len(f) : ~Mentions(f[k], c)
  PROVE  ~Mentions(FlattenSeq(f), c)
<1>1. PICK n \in Nat : n = Len(f)
  BY ListFacts DEF IsLines
<1>2. PICK g : MadeOf(f, g) /\ FlattenSeq(f) = g[n]
  BY <1>1, FlattenByParts
<1> DEFINE G == {k \in 0..n : ~Mentions(g[k], c)}
<1>3. 0 \in G
  <2>1. g[0] = <<>>
    BY <1>2 DEF MadeOf
  <2>2. DOMAIN <<>> = {}
    OBVIOUS
  <2>3. ~Mentions(<<>>, c)
    BY <2>2 DEF Mentions
  <2> QED
    BY <2>1, <2>3
<1>4. ASSUME NEW m \in 0..(n - 1), m \in G
      PROVE  m + 1 \in G
  <2>1. PICK k \in 1..n : k = m + 1 /\ m = k - 1 /\ k \in 0..n /\ m \in 0..n
    <3>1. m + 1 \in 1..n /\ m = (m + 1) - 1 /\ m + 1 \in 0..n /\ m \in 0..n
      OBVIOUS
    <3> QED
      BY <3>1
  <2>2. g[k] = g[k - 1] \o f[k]
    BY <1>1, <1>2 DEF MadeOf
  <2>3. g[k] = g[m] \o f[k]
    BY <2>1, <2>2
  <2>4. IsList(g[m]) /\ IsList(f[k])
    BY <1>1, <1>2, <2>1 DEF MadeOf, IsLines
  <2>5. ~Mentions(g[m], c) /\ ~Mentions(f[k], c)
    BY <1>1, <1>4
  <2> DEFINE a == g[m]
             b == f[k]
  <2>6. IsList(a) /\ IsList(b) /\ ~Mentions(a, c) /\ ~Mentions(b, c)
    BY <2>4, <2>5
  <2> HIDE DEF a, b
  <2>7. ~Mentions(a \o b, c)
    BY <2>6, ConcatMentions
  <2>8. ~Mentions(g[k], c)
    BY <2>3, <2>7, Zenon DEF a, b
  <2> QED
    BY <2>1, <2>8
<1>5. n \in G
  <2>1. \A m \in 0..(n - 1) : m \in G => m + 1 \in G
    BY <1>4
  <2> HIDE DEF G
  <2>2. \A m \in 0..n : m \in G
    BY <1>3, <2>1, Induction
  <2> QED
    BY <2>2
<1> QED
  BY <1>2, <1>5

\* A value that is escaped stays on its line, whatever is in it; one that is put in
\* quotes as it is, if it is on one line (format_escaped_string).
THEOREM ValuesStayOnTheirLine ==
  ASSUME NEW how \in {"quoted", "escaped"}, NEW s, IsList(s), how = "quoted" => OneLine(s)
  PROVE  OneLine(FormatValue(how, s))
<1>1. BS # NL /\ QT # NL /\ "n" # NL
  BY DEF BS, QT, NL
<1>2. ASSUME NEW t, IsList(t), ~Mentions(t, NL)
      PROVE  OneLine(Quoted(t))
  <2> DEFINE a == <<QT>>
  <2>1. DOMAIN a = {1} /\ a[1] = QT
    OBVIOUS
  <2>2. IsList(a) /\ ~Mentions(a, NL)
    BY <1>1, <2>1, TuplesAreLists DEF Mentions
  <2> HIDE DEF a
  <2>3. IsList(a \o t) /\ ~Mentions(a \o t, NL)
    BY <1>2, <2>2, ListConcat, ConcatMentions
  <2>4. ~Mentions((a \o t) \o a, NL)
    BY <2>2, <2>3, ConcatMentions
  <2> QED
    BY <2>4 DEF OneLine, Quoted, a
<1>3. CASE how = "quoted"
  BY <1>2, <1>3 DEF OneLine, FormatValue
<1>4. CASE how = "escaped"
  <2>1. PICK f : f = Stage(s, {BS, QT, NL})
    OBVIOUS
  <2>2. /\ IsLines(f) /\ Len(f) = Len(s)
        /\ \A i \in 1..Len(s) :
              /\ s[i] = BS => f[i] = <<BS, BS>>
              /\ s[i] = QT => f[i] = <<BS, QT>>
              /\ s[i] = NL => f[i] = <<BS, "n">>
              /\ s[i] \notin {BS, QT, NL} => f[i] = <<s[i]>>
    BY <2>1, StageOf
  <2>3. \A x : x # NL => ~Mentions(<<x>>, NL)
    BY DEF Mentions
  <2>4. \A x, y : x # NL /\ y # NL => ~Mentions(<<x, y>>, NL)
    BY DEF Mentions
  <2>5. \A k \in 1..Len(f) : ~Mentions(f[k], NL)
    BY <1>1, <2>2, <2>3, <2>4
  <2>6. IsList(FlattenSeq(f)) /\ ~Mentions(FlattenSeq(f), NL)
    BY <2>2, <2>5, FlattenIsList, FlattenMentions
  <2>7. Escape(s) = FlattenSeq(f)
    BY <2>1, EscapeIsStage
  <2> QED
    BY <1>2, <1>4, <2>6, <2>7 DEF FormatValue
<1> QED
  BY <1>3, <1>4

-----------------------------------------------------------------------------
(* Times.                                                                  *)

\* A time of the session that was written with three decimals of a millisecond,
\* rounded, and read back through floating point, which may fall short of it by a
\* nanosecond, is within half a microsecond, and no later time comes back as an
\* earlier one (format_entry, cmd_pack).
THEOREM RoundingIsClose ==
  \A a, b \in Nat :
    /\ Nanos(Micros(a)) \in (a - 500)..(a + 500)
    /\ a <= b => Nanos(Micros(a)) <= Nanos(Micros(b))
<1> SUFFICES ASSUME NEW a \in Nat, NEW b \in Nat
             PROVE  /\ Nanos(Micros(a)) \in (a - 500)..(a + 500)
                    /\ a <= b => Nanos(Micros(a)) <= Nanos(Micros(b))
  OBVIOUS
<1> DEFINE m == Micros(a)
           n == Micros(b)
<1>1. /\ m \in Nat /\ 1000 * m <= a + 500 /\ a + 500 < 1000 * m + 1000
      /\ n \in Nat /\ 1000 * n <= b + 500 /\ b + 500 < 1000 * n + 1000
  BY DEF Micros
<1>2. /\ Nanos(m) \in {1000 * m, 1000 * m - 1} /\ Nanos(n) \in {1000 * n, 1000 * n - 1}
      /\ m = n => Nanos(m) = Nanos(n)
  BY DEF Nanos
<1> HIDE DEF m, n
<1>3. Nanos(m) \in (a - 500)..(a + 500)
  BY <1>1, <1>2
<1>4. ASSUME a <= b
      PROVE  Nanos(m) <= Nanos(n)
  <2>1. m <= n
    BY <1>1, <1>4
  <2>2. m = n \/ m + 1 <= n
    BY <1>1, <2>1
  <2> QED
    BY <1>1, <1>2, <2>2
<1> QED
  BY <1>3, <1>4 DEF m, n

-----------------------------------------------------------------------------
(* Strings.                                                                *)

\* One text put in front of another, a single token, and two texts around it.
Cat(s, t) == s \o t
One(x) == <<x>>
Around(a, x, b) == Cat(a, Cat(One(x), b))

LEMMA CatIs ==
  ASSUME NEW s, NEW t, IsList(s), IsList(t)
  PROVE  /\ IsList(Cat(s, t)) /\ Len(Cat(s, t)) = Len(s) + Len(t)
         /\ Len(s) \in Nat /\ Len(t) \in Nat
         /\ \A j \in 1..Len(s) : Cat(s, t)[j] = s[j]
         /\ \A j \in 1..Len(t) : Cat(s, t)[Len(s) + j] = t[j]
BY ConcatAt DEF Cat

LEMMA CatAssociates ==
  ASSUME NEW a, NEW b, NEW c, IsList(a), IsList(b), IsList(c)
  PROVE  Cat(Cat(a, b), c) = Cat(a, Cat(b, c))
BY ConcatAssociates DEF Cat

LEMMA CatEmpty ==
  ASSUME NEW s, IsList(s)
  PROVE  Cat(<<>>, s) = s /\ Cat(s, <<>>) = s
BY EmptyIsList DEF Cat

LEMMA CatMentions ==
  ASSUME NEW a, NEW b, NEW c, IsList(a), IsList(b), ~Mentions(a, c), ~Mentions(b, c)
  PROVE  ~Mentions(Cat(a, b), c)
BY ConcatMentions DEF Cat

LEMMA OneIs == \A x : IsList(One(x)) /\ Len(One(x)) = 1 /\ One(x)[1] = x
BY TuplesAreLists DEF One

LEMMA AroundIs ==
  ASSUME NEW a, NEW x, NEW b, IsList(a), IsList(b)
  PROVE  /\ IsList(Around(a, x, b)) /\ Len(Around(a, x, b)) = Len(a) + (1 + Len(b))
         /\ Len(a) \in Nat /\ Len(b) \in Nat
         /\ Around(a, x, b)[Len(a) + 1] = x
         /\ \A i \in 1..Len(a) : Around(a, x, b)[i] = a[i]
         /\ \A i \in 1..Len(b) : Around(a, x, b)[(Len(a) + 1) + i] = b[i]
<1>1. PICK y, t : y = One(x) /\ t = Cat(y, b)
  OBVIOUS
<1>2. IsList(y) /\ Len(y) = 1 /\ y[1] = x
  BY <1>1, OneIs
<1>3. PICK n \in Nat, m \in Nat : n = Len(a) /\ m = Len(b)
  BY ListFacts
<1>4. /\ IsList(t) /\ Len(t) = 1 + m /\ t[1] = x
      /\ \A j \in 1..m : t[1 + j] = b[j]
  <2>1. /\ IsList(t) /\ Len(t) = Len(y) + Len(b)
        /\ \A j \in 1..Len(y) : t[j] = y[j]
        /\ \A j \in 1..Len(b) : t[Len(y) + j] = b[j]
    <3>1. IsList(y) /\ IsList(b)
      BY <1>2
    <3> QED
      BY <1>1, <3>1, CatIs
  <2>2. 1 \in 1..Len(y)
    BY <1>2
  <2> QED
    BY <1>2, <1>3, <2>1, <2>2
<1>5. PICK u : u = Cat(a, t)
  OBVIOUS
<1>6. /\ IsList(u) /\ Len(u) = n + (1 + m)
      /\ \A j \in 1..n : u[j] = a[j]
      /\ \A j \in 1..(1 + m) : u[n + j] = t[j]
  <2>1. /\ IsList(u) /\ Len(u) = Len(a) + Len(t)
        /\ \A j \in 1..Len(a) : u[j] = a[j]
        /\ \A j \in 1..Len(t) : u[Len(a) + j] = t[j]
    <3>1. IsList(a) /\ IsList(t)
      BY <1>4
    <3> QED
      BY <1>5, <3>1, CatIs
  <2> QED
    BY <1>3, <1>4, <2>1
<1>7. u[n + 1] = x /\ \A j \in 1..m : u[(n + 1) + j] = b[j]
  <2>1. u[n + 1] = x
    <3>1. 1 \in 1..(1 + m)
      OBVIOUS
    <3> QED
      BY <1>4, <1>6, <3>1
  <2>2. ASSUME NEW j \in 1..m
        PROVE  u[(n + 1) + j] = b[j]
    <3>1. 1 + j \in 1..(1 + m) /\ n + (1 + j) = (n + 1) + j
      OBVIOUS
    <3> QED
      BY <1>4, <1>6, <3>1
  <2> QED
    BY <2>1, <2>2
<1>8. u = Around(a, x, b)
  BY <1>1, <1>5 DEF Around
<1> QED
  BY <1>3, <1>6, <1>7, <1>8

\* A set of numbers up to n has a greatest one.
LEMMA GreatestOf ==
  ASSUME NEW n \in Nat, NEW T \in SUBSET (0..n), T # {}
  PROVE  \E x \in T : \A y \in T : y <= x
<1> DEFINE U == {n - y : y \in T}
<1>1. U \in SUBSET Nat /\ U # {}
  <2>1. \A y \in T : n - y \in Nat
    OBVIOUS
  <2> QED
    BY <2>1
<1>2. PICK u \in U : \A v \in U : u <= v
  <2> HIDE DEF U
  <2> QED
    BY <1>1, LeastOf
<1>3. PICK x \in T : u = n - x
  OBVIOUS
<1>4. \A y \in T : n - x <= n - y
  BY <1>2, <1>3
<1>5. \A y \in T : y <= x
  <2> SUFFICES ASSUME NEW y \in T
               PROVE  y <= x
    OBVIOUS
  <2>1. n - x <= n - y /\ x \in Nat /\ y \in Nat
    BY <1>4
  <2> QED
    BY <2>1
<1> QED
  BY <1>5

\* A piece of a list.
LEMMA PieceOf ==
  ASSUME NEW s, IsList(s), NEW a \in 1..(Len(s) + 1), NEW b \in 0..Len(s)
  PROVE  /\ IsList(SubSeq(s, a, b))
         /\ Len(SubSeq(s, a, b)) = IF a <= b THEN b - a + 1 ELSE 0
         /\ \A i \in 1..(b - a + 1) : SubSeq(s, a, b)[i] = s[a + i - 1]
         /\ a > b => SubSeq(s, a, b) = <<>>
<1>1. PICK S : s \in Seq(S)
  BY DEF IsList
<1>2. Len(s) \in Nat /\ a \in Int /\ b \in Int
  BY ListFacts
<1>3. \A i \in a..b : s[i] \in S
  <2> SUFFICES ASSUME NEW i \in a..b
               PROVE  s[i] \in S
    OBVIOUS
  <2>1. i \in 1..Len(s)
    BY <1>2
  <2> QED
    BY <1>1, <2>1, ElementOfSeq
<1>4. /\ SubSeq(s, a, b) \in Seq(S)
      /\ Len(SubSeq(s, a, b)) = IF a <= b THEN b - a + 1 ELSE 0
      /\ \A i \in 1..(b - a + 1) : SubSeq(s, a, b)[i] = s[a + i - 1]
  BY <1>2, <1>3, SubSeqProperties
<1>5. a > b => SubSeq(s, a, b) = <<>>
  BY <1>2, SubSeqEmpty
<1> QED
  BY <1>4, <1>5 DEF IsList

\* The pieces of two lists put together.
LEMMA PiecesOfConcat ==
  ASSUME NEW s, NEW t, IsList(s), IsList(t)
  PROVE  /\ SubSeq(Cat(s, t), 1, Len(s)) = s
         /\ SubSeq(Cat(s, t), Len(s) + 1, Len(Cat(s, t))) = t
<1>1. PICK u, m, n : u = Cat(s, t) /\ m = Len(s) /\ n = Len(t)
  OBVIOUS
<1>2. /\ IsList(u) /\ Len(u) = m + n /\ m \in Nat /\ n \in Nat
      /\ \A j \in 1..m : u[j] = s[j]
      /\ \A j \in 1..n : u[m + j] = t[j]
  BY <1>1, CatIs
<1>3. PICK a : a = SubSeq(u, 1, m)
  OBVIOUS
<1>4. PICK b : b = SubSeq(u, m + 1, m + n)
  OBVIOUS
<1>5. a = s
  <2>1. 1 \in 1..(Len(u) + 1) /\ m \in 0..Len(u)
    BY <1>2
  <2>2. /\ IsList(a) /\ Len(a) = (IF 1 <= m THEN m - 1 + 1 ELSE 0)
        /\ \A i \in 1..(m - 1 + 1) : a[i] = u[1 + i - 1]
    BY <1>2, <1>3, <2>1, PieceOf
  <2>3. Len(a) = Len(s) /\ \A i \in 1..Len(a) : a[i] = s[i]
    BY <1>1, <1>2, <2>2
  <2> QED
    BY <2>2, <2>3, ListsEqual
<1>6. b = t
  <2>1. m + 1 \in 1..(Len(u) + 1) /\ m + n \in 0..Len(u)
    BY <1>2
  <2>2. /\ IsList(b) /\ Len(b) = (IF m + 1 <= m + n THEN (m + n) - (m + 1) + 1 ELSE 0)
        /\ \A i \in 1..((m + n) - (m + 1) + 1) : b[i] = u[(m + 1) + i - 1]
    BY <1>2, <1>4, <2>1, PieceOf
  <2>3. Len(b) = n
    BY <1>2, <2>2
  <2>4. \A i \in 1..n : b[i] = t[i]
    <3> SUFFICES ASSUME NEW i \in 1..n
                 PROVE  b[i] = t[i]
      OBVIOUS
    <3>1. i \in 1..((m + n) - (m + 1) + 1) /\ (m + 1) + i - 1 = m + i
      BY <1>2
    <3> QED
      BY <1>2, <2>2, <3>1
  <2> QED
    BY <1>1, <2>2, <2>3, <2>4, ListsEqual
<1> QED
  BY <1>1, <1>2, <1>3, <1>4, <1>5, <1>6

\* Where the first and the last token are that are no spaces.
Ink(s, a, b) ==
  /\ a \in 1..Len(s) /\ b \in 1..Len(s) /\ a <= b /\ s[a] # SP /\ s[b] # SP
  /\ \A i \in 1..Len(s) : i < a \/ i > b => s[i] = SP

\* trim() takes the spaces around a text off.
LEMMA TrimIs ==
  ASSUME NEW s, IsList(s), NEW a, NEW b, Ink(s, a, b)
  PROVE  Trim(s) = SubSeq(s, a, b)
<1>1. Len(s) \in Nat /\ DOMAIN s = 1..Len(s)
  BY ListFacts
<1> DEFINE ink == {i \in DOMAIN s : s[i] # SP}
           first == CHOOSE i \in ink : \A j \in ink : i <= j
           last == CHOOSE i \in ink : \A j \in ink : j <= i
<1>2. a \in ink /\ b \in ink /\ (\A j \in ink : a <= j /\ j <= b) /\ ink \subseteq Nat
  BY <1>1 DEF Ink
<1>3. Trim(s) = SubSeq(s, first, last)
  BY <1>2 DEF Trim
<1> HIDE DEF ink
<1>4. first = a
  <2>1. first \in ink /\ \A j \in ink : first <= j
    BY <1>2
  <2>2. first <= a /\ a <= first /\ first \in Nat /\ a \in Nat
    BY <1>2, <2>1
  <2> HIDE DEF first
  <2> QED
    BY <2>2
<1>5. last = b
  <2>1. last \in ink /\ \A j \in ink : j <= last
    BY <1>2
  <2>2. last <= b /\ b <= last /\ last \in Nat /\ b \in Nat
    BY <1>2, <2>1
  <2> HIDE DEF last
  <2> QED
    BY <2>2
<1> HIDE DEF first, last
<1> QED
  BY <1>3, <1>4, <1>5

\* Nothing is left of spaces alone; anything else begins somewhere and ends somewhere.
LEMMA TrimCases ==
  ASSUME NEW s, IsList(s)
  PROVE  \/ (\A i \in 1..Len(s) : s[i] = SP) /\ Trim(s) = <<>>
         \/ \E a, b : Ink(s, a, b)
<1>1. Len(s) \in Nat /\ DOMAIN s = 1..Len(s)
  BY ListFacts
<1> DEFINE ink == {i \in DOMAIN s : s[i] # SP}
<1>2. CASE ink = {}
  <2>1. Trim(s) = <<>>
    BY <1>2 DEF Trim
  <2>2. \A i \in 1..Len(s) : s[i] = SP
    BY <1>1, <1>2
  <2> QED
    BY <2>1, <2>2
<1>3. CASE ink # {}
  <2>1. ink \in SUBSET Nat /\ ink \in SUBSET (0..Len(s))
    BY <1>1
  <2>2. PICK a \in ink : \A y \in ink : a <= y
    <3> HIDE DEF ink
    <3> QED
      BY <1>3, <2>1, LeastOf
  <2>3. PICK b \in ink : \A y \in ink : y <= b
    <3> HIDE DEF ink
    <3> QED
      BY <1>1, <1>3, <2>1, GreatestOf
  <2>4. a \in 1..Len(s) /\ b \in 1..Len(s) /\ a <= b /\ s[a] # SP /\ s[b] # SP
    BY <1>1, <2>2, <2>3
  <2>5. \A i \in 1..Len(s) : i < a \/ i > b => s[i] = SP
    <3> SUFFICES ASSUME NEW i \in 1..Len(s), i < a \/ i > b, s[i] # SP
                 PROVE  FALSE
      OBVIOUS
    <3>1. i \in ink
      BY <1>1
    <3> QED
      BY <1>1, <2>2, <2>3, <2>4, <3>1
  <2>6. Ink(s, a, b)
    BY <2>4, <2>5 DEF Ink
  <2> QED
    BY <2>6
<1> QED
  BY <1>2, <1>3

\* A text that neither begins nor ends with a space.
Tight(s) == IsList(s) /\ (s # <<>> => s[1] # SP /\ s[Len(s)] # SP)

\* trim() leaves such a text alone, and leaves one.
LEMMA TrimTight ==
  ASSUME NEW s, IsList(s)
  PROVE  Tight(Trim(s)) /\ (Tight(s) => Trim(s) = s)
<1>1. Len(s) \in Nat
  BY ListFacts
<1>2. CASE (\A i \in 1..Len(s) : s[i] = SP) /\ Trim(s) = <<>>
  <2>1. Tight(Trim(s))
    BY <1>2, EmptyIsList DEF Tight
  <2>2. ASSUME Tight(s), s # <<>>
        PROVE  FALSE
    <3>1. Len(s) # 0
      BY <2>2, EmptyIsList, ListsEqual
    <3>2. 1 \in 1..Len(s)
      BY <1>1, <3>1
    <3> QED
      BY <1>2, <2>2, <3>2 DEF Tight
  <2> QED
    BY <1>2, <2>1, <2>2
<1>3. ASSUME NEW a, NEW b, Ink(s, a, b)
      PROVE  Tight(Trim(s)) /\ (Tight(s) => Trim(s) = s)
  <2> DEFINE t == SubSeq(s, a, b)
  <2>1. Trim(s) = t
    BY <1>3, TrimIs
  <2>2. /\ a \in 1..Len(s) /\ b \in 1..Len(s) /\ a <= b /\ s[a] # SP /\ s[b] # SP
        /\ \A i \in 1..Len(s) : i < a \/ i > b => s[i] = SP
    BY <1>3 DEF Ink
  <2>3. a \in 1..(Len(s) + 1) /\ b \in 0..Len(s)
    BY <1>1, <2>2
  <2>4. IsList(t) /\ Len(t) = b - a + 1 /\ \A i \in 1..(b - a + 1) : t[i] = s[a + i - 1]
    <3>1. /\ IsList(t) /\ Len(t) = IF a <= b THEN b - a + 1 ELSE 0
          /\ \A i \in 1..(b - a + 1) : t[i] = s[a + i - 1]
      BY <2>3, PieceOf
    <3> QED
      BY <2>2, <3>1
  <2> HIDE DEF t
  <2>5. t[1] = s[a] /\ t[Len(t)] = s[b]
    <3>1. 1 \in 1..(b - a + 1) /\ b - a + 1 \in 1..(b - a + 1) /\ a + 1 - 1 = a /\ a + (b - a + 1) - 1 = b
      BY <1>1, <2>2
    <3>2. t[1] = s[a + 1 - 1] /\ t[b - a + 1] = s[a + (b - a + 1) - 1]
      BY <2>4, <3>1
    <3> QED
      BY <2>4, <3>1, <3>2
  <2>6. Tight(t)
    BY <2>2, <2>4, <2>5 DEF Tight
  <2>7. ASSUME Tight(s)
        PROVE  t = s
    <3>1. s # <<>> /\ 1 \in 1..Len(s) /\ Len(s) \in 1..Len(s)
      BY <1>1, <2>2, EmptyIsList
    <3>2. s[1] # SP /\ s[Len(s)] # SP
      BY <2>7, <3>1 DEF Tight
    <3>3. a = 1 /\ b = Len(s)
      BY <1>1, <2>2, <3>1, <3>2
    <3>4. Len(t) = Len(s) /\ \A i \in 1..Len(t) : t[i] = s[i]
      BY <1>1, <2>4, <3>3
    <3> QED
      BY <2>4, <3>4, ListsEqual
  <2> QED
    BY <2>1, <2>6, <2>7
<1> QED
  BY <1>2, <1>3, TrimCases

\* What is left begins with the first token that is no space.
LEMMA TrimBegins ==
  ASSUME NEW s, IsList(s), NEW a \in 1..Len(s), s[a] # SP, \A i \in 1..(a - 1) : s[i] = SP
  PROVE  IsList(Trim(s)) /\ Trim(s) # <<>> /\ Trim(s)[1] = s[a]
<1>1. Len(s) \in Nat
  BY ListFacts
<1>2. ~\A i \in 1..Len(s) : s[i] = SP
  OBVIOUS
<1>3. PICK c, b : Ink(s, c, b)
  BY <1>2, TrimCases
<1>4. /\ c \in 1..Len(s) /\ b \in 1..Len(s) /\ c <= b /\ s[c] # SP
      /\ \A i \in 1..Len(s) : i < c \/ i > b => s[i] = SP
  BY <1>3 DEF Ink
<1>5. c = a
  BY <1>1, <1>4
<1> DEFINE t == SubSeq(s, c, b)
<1>6. /\ IsList(t) /\ Len(t) = IF c <= b THEN b - c + 1 ELSE 0
      /\ \A i \in 1..(b - c + 1) : t[i] = s[c + i - 1]
  <2>1. c \in 1..(Len(s) + 1) /\ b \in 0..Len(s)
    BY <1>1, <1>4
  <2> QED
    BY <2>1, PieceOf
<1> HIDE DEF t
<1>7. Len(t) # 0 /\ t[1] = s[a]
  <2>1. 1 \in 1..(b - c + 1) /\ c + 1 - 1 = a /\ b - c + 1 # 0
    BY <1>1, <1>4, <1>5
  <2> QED
    BY <1>4, <1>6, <2>1
<1>8. Trim(s) = t
  BY <1>3, TrimIs DEF t
<1> QED
  BY <1>6, <1>7, <1>8, EmptyIsList

\* Spaces around a text are taken off.
LEMMA TrimPadded ==
  ASSUME NEW p, NEW s, NEW q, IsList(p), Tight(s), IsList(q), s # <<>>,
         \A i \in 1..Len(p) : p[i] = SP, \A i \in 1..Len(q) : q[i] = SP
  PROVE  Trim(Cat(p, Cat(s, q))) = s
<1> DEFINE u == Cat(p, Cat(s, q))
<1>1. IsList(s) /\ s[1] # SP /\ s[Len(s)] # SP
  BY DEF Tight
<1>2. Len(s) \in Nat \ {0} /\ Len(p) \in Nat /\ Len(q) \in Nat
  BY <1>1, ListFacts, EmptyIsList, ListsEqual
<1>3. /\ IsList(Cat(s, q)) /\ Len(Cat(s, q)) = Len(s) + Len(q)
      /\ \A i \in 1..(Len(s) + Len(q)) :
           Cat(s, q)[i] = IF i <= Len(s) THEN s[i] ELSE q[i - Len(s)]
  BY <1>1, ListConcat DEF Cat
<1>4. /\ IsList(u) /\ Len(u) = Len(p) + Len(Cat(s, q))
      /\ \A i \in 1..(Len(p) + Len(Cat(s, q))) :
           u[i] = IF i <= Len(p) THEN p[i] ELSE Cat(s, q)[i - Len(p)]
  <2> DEFINE t == Cat(s, q)
  <2> HIDE DEF t
  <2> QED
    BY <1>3, ListConcat DEF t, Cat
<1> DEFINE a == Len(p) + 1
           b == Len(p) + Len(s)
<1> HIDE DEF u
<1>5. a \in 1..Len(u) /\ b \in 1..Len(u) /\ a <= b
  BY <1>2, <1>3, <1>4
<1>6. \A j \in 1..Len(s) : u[Len(p) + j] = s[j]
  BY <1>2, <1>3, <1>4
<1>7. u[a] # SP /\ u[b] # SP
  BY <1>1, <1>2, <1>6
<1>8. \A i \in 1..Len(u) : i < a \/ i > b => u[i] = SP
  <2> SUFFICES ASSUME NEW i \in 1..Len(u), i < a \/ i > b
               PROVE  u[i] = SP
    OBVIOUS
  <2>1. CASE i < a
    <3>1. i \in 1..Len(p) /\ i <= Len(p) /\ i \in 1..(Len(p) + Len(Cat(s, q)))
      BY <1>2, <1>3, <1>4, <2>1
    <3> QED
      BY <1>4, <3>1
  <2>2. CASE i > b
    <3>1. ~(i <= Len(p)) /\ i \in 1..(Len(p) + Len(Cat(s, q)))
      BY <1>2, <1>3, <1>4, <2>2
    <3>2. u[i] = Cat(s, q)[i - Len(p)]
      BY <1>4, <3>1
    <3>3. i - Len(p) \in 1..(Len(s) + Len(q)) /\ ~(i - Len(p) <= Len(s)) /\ i - Len(p) - Len(s) \in 1..Len(q)
      BY <1>2, <1>3, <1>4, <2>2
    <3>4. Cat(s, q)[i - Len(p)] = q[i - Len(p) - Len(s)]
      BY <1>3, <3>3
    <3> QED
      BY <3>2, <3>3, <3>4
  <2> QED
    BY <2>1, <2>2
<1>9. Ink(u, a, b)
  BY <1>5, <1>7, <1>8 DEF Ink
<1>10. Trim(u) = SubSeq(u, a, b)
  <2> HIDE DEF a, b
  <2> QED
    BY <1>4, <1>9, TrimIs
<1> DEFINE t == SubSeq(u, a, b)
<1>11. /\ IsList(t) /\ Len(t) = (IF a <= b THEN b - a + 1 ELSE 0)
       /\ \A i \in 1..(b - a + 1) : t[i] = u[a + i - 1]
  <2>1. a \in 1..(Len(u) + 1) /\ b \in 0..Len(u)
    BY <1>2, <1>3, <1>4, <1>5
  <2> HIDE DEF a, b
  <2> QED
    BY <1>4, <2>1, PieceOf
<1> HIDE DEF t
<1>12. Len(t) = Len(s) /\ \A i \in 1..Len(t) : t[i] = s[i]
  BY <1>2, <1>6, <1>11
<1>13. t = s
  BY <1>1, <1>11, <1>12, ListsEqual
<1> QED
  BY <1>10, <1>13 DEF t, u

\* Least and greatest numbers of a set.
LEMMA MinIs ==
  ASSUME NEW T \in SUBSET Int, NEW x \in T, \A y \in T : x <= y
  PROVE  Min(T) = x
<1>1. PICK m : m = Min(T)
  OBVIOUS
<1>2. m \in T /\ \A y \in T : m <= y
  BY <1>1 DEF Min
<1>3. m <= x /\ x <= m /\ m \in Int /\ x \in Int
  BY <1>2
<1> QED
  BY <1>1, <1>3

LEMMA MaxIs ==
  ASSUME NEW T \in SUBSET Int, NEW x \in T, \A y \in T : y <= x
  PROVE  Max(T) = x
<1>1. PICK m : m = Max(T)
  OBVIOUS
<1>2. m \in T /\ \A y \in T : m >= y
  BY <1>1 DEF Max
<1>3. m <= x /\ x <= m /\ m \in Int /\ x \in Int
  BY <1>2
<1> QED
  BY <1>1, <1>3

\* A text can be cut at each of its tokens.
LEMMA CutHere ==
  ASSUME NEW s, IsList(s), NEW n \in 1..Len(s)
  PROVE  /\ IsList(SubSeq(s, 1, n - 1)) /\ IsList(SubSeq(s, n + 1, Len(s)))
         /\ Len(SubSeq(s, 1, n - 1)) = n - 1 /\ Len(SubSeq(s, n + 1, Len(s))) = Len(s) - n
         /\ \A i \in 1..(n - 1) : SubSeq(s, 1, n - 1)[i] = s[i]
         /\ \A i \in 1..(Len(s) - n) : SubSeq(s, n + 1, Len(s))[i] = s[n + i]
         /\ s = Around(SubSeq(s, 1, n - 1), s[n], SubSeq(s, n + 1, Len(s)))
<1>1. PICK m : m = Len(s)
  OBVIOUS
<1>2. m \in Nat /\ n \in 1..m
  BY <1>1, ListFacts
<1>3. PICK a, b : a = SubSeq(s, 1, n - 1) /\ b = SubSeq(s, n + 1, m)
  OBVIOUS
<1>4. 1 \in 1..(m + 1) /\ n - 1 \in 0..m /\ n + 1 \in 1..(m + 1) /\ m \in 0..m
  BY <1>2
<1>5. /\ IsList(a) /\ Len(a) = (IF 1 <= n - 1 THEN (n - 1) - 1 + 1 ELSE 0)
      /\ \A i \in 1..((n - 1) - 1 + 1) : a[i] = s[1 + i - 1]
  BY <1>1, <1>3, <1>4, PieceOf
<1>6. /\ IsList(b) /\ Len(b) = (IF n + 1 <= m THEN m - (n + 1) + 1 ELSE 0)
      /\ \A i \in 1..(m - (n + 1) + 1) : b[i] = s[(n + 1) + i - 1]
  BY <1>1, <1>3, <1>4, PieceOf
<1>7. Len(a) = n - 1 /\ \A i \in 1..(n - 1) : a[i] = s[i]
  BY <1>2, <1>5
<1>8. Len(b) = m - n
  BY <1>2, <1>6
<1>9. \A i \in 1..(m - n) : b[i] = s[n + i]
  <2> SUFFICES ASSUME NEW i \in 1..(m - n)
               PROVE  b[i] = s[n + i]
    OBVIOUS
  <2>1. i \in 1..(m - (n + 1) + 1) /\ (n + 1) + i - 1 = n + i
    BY <1>2
  <2> QED
    BY <1>6, <2>1
<1>10. PICK u : u = Around(a, s[n], b)
  OBVIOUS
<1>11. /\ IsList(u) /\ Len(u) = (n - 1) + (1 + (m - n)) /\ u[(n - 1) + 1] = s[n]
       /\ \A j \in 1..(n - 1) : u[j] = a[j]
       /\ \A j \in 1..(m - n) : u[((n - 1) + 1) + j] = b[j]
  <2>1. PICK x : x = s[n]
    OBVIOUS
  <2>2. u = Around(a, x, b) /\ IsList(a) /\ IsList(b)
    BY <1>5, <1>6, <1>10, <2>1
  <2>3. /\ IsList(u) /\ Len(u) = Len(a) + (1 + Len(b)) /\ u[Len(a) + 1] = x
        /\ \A j \in 1..Len(a) : u[j] = a[j]
        /\ \A j \in 1..Len(b) : u[(Len(a) + 1) + j] = b[j]
    BY <2>2, AroundIs
  <2> QED
    BY <1>7, <1>8, <2>1, <2>3
<1>15. u = s
  <2>1. Len(u) = m
    BY <1>2, <1>11
  <2>2. \A i \in 1..m : u[i] = s[i]
    <3> SUFFICES ASSUME NEW i \in 1..m
                 PROVE  u[i] = s[i]
      OBVIOUS
    <3>1. CASE i < n
      <4>1. i \in 1..(n - 1)
        BY <1>2, <3>1
      <4> QED
        BY <1>7, <1>11, <4>1
    <3>2. CASE i = n
      <4>1. (n - 1) + 1 = i
        BY <1>2, <3>2
      <4> QED
        BY <1>11, <3>2, <4>1
    <3>3. CASE i > n
      <4>1. i - n \in 1..(m - n) /\ ((n - 1) + 1) + (i - n) = i /\ n + (i - n) = i
        BY <1>2, <3>3
      <4>2. u[((n - 1) + 1) + (i - n)] = b[i - n] /\ b[i - n] = s[n + (i - n)]
        BY <1>9, <1>11, <4>1
      <4> QED
        BY <4>1, <4>2
    <3> QED
      BY <1>2, <3>1, <3>2, <3>3
  <2> QED
    BY <1>1, <1>11, <2>1, <2>2, ListsEqual
<1> QED
  BY <1>1, <1>3, <1>5, <1>6, <1>7, <1>8, <1>9, <1>10, <1>15

\* Where a token is first.
LEMMA IndexIs ==
  ASSUME NEW s, NEW c, IsList(s), NEW n \in 1..Len(s), s[n] = c, \A i \in 1..(n - 1) : s[i] # c
  PROVE  Index(s, c) = n
<1>1. PICK I : I = {i \in 1..Len(s) : s[i] = c}
  OBVIOUS
<1>2. n \in I /\ I \subseteq Int /\ \A i \in I : n <= i
  <2>1. Len(s) \in Nat
    BY ListFacts
  <2> QED
    BY <1>1, <2>1
<1>3. Index(s, c) = Min(I)
  BY <1>1, <1>2, Zenon DEF Index, SelectInSeq
<1> QED
  BY <1>2, <1>3, MinIs

\* splitn(2, c).
LEMMA CutAt ==
  ASSUME NEW a, NEW b, NEW c, IsList(a), IsList(b), ~Mentions(a, c)
  PROVE  /\ Mentions(Around(a, c, b), c)
         /\ Index(Around(a, c, b), c) = Len(a) + 1
         /\ Upto(Around(a, c, b), c) = a /\ Beyond(Around(a, c, b), c) = b
<1>1. PICK u, n : u = Around(a, c, b) /\ n = Len(a)
  OBVIOUS
<1>2. /\ IsList(u) /\ Len(u) = n + (1 + Len(b)) /\ n \in Nat /\ Len(b) \in Nat
      /\ u[n + 1] = c /\ \A j \in 1..n : u[j] = a[j]
  BY <1>1, AroundIs
<1>3. DOMAIN a = 1..n /\ DOMAIN u = 1..Len(u)
  BY <1>1, <1>2, ListFacts
<1>4. n + 1 \in 1..Len(u)
  BY <1>2
<1>5. \A i \in 1..n : u[i] # c
  BY <1>2, <1>3 DEF Mentions
<1>6. Mentions(u, c)
  BY <1>2, <1>3, <1>4 DEF Mentions
<1>7. Index(u, c) = n + 1
  <2>1. (n + 1) - 1 = n
    BY <1>2
  <2> QED
    BY <1>2, <1>4, <1>5, <2>1, IndexIs
<1>8. PICK t, y : y = One(c) /\ t = Cat(y, b)
  OBVIOUS
<1>9. IsList(y) /\ Len(y) = 1 /\ IsList(t)
  BY <1>8, OneIs, CatIs
<1>10. u = Cat(a, t)
  BY <1>1, <1>8 DEF Around
<1>11. SubSeq(u, 1, n) = a
  BY <1>1, <1>9, <1>10, PiecesOfConcat
<1>12. SubSeq(u, n + 1 + 1, Len(u)) = b
  <2>1. PICK d : d = Cat(a, y)
    OBVIOUS
  <2>2. u = Cat(d, b) /\ IsList(d) /\ Len(d) = n + 1
    <3>1. IsList(y) /\ Len(y) = 1
      BY <1>9
    <3>2. Cat(a, Cat(y, b)) = Cat(d, b)
      BY <2>1, <3>1, CatAssociates
    <3>3. IsList(d) /\ Len(d) = Len(a) + Len(y)
      BY <2>1, <3>1, CatIs
    <3> QED
      BY <1>1, <1>8, <1>10, <3>1, <3>2, <3>3
  <2> QED
    BY <2>2, PiecesOfConcat
<1>13. Upto(u, c) = a
  <2>1. (n + 1) - 1 = n
    BY <1>2
  <2> QED
    BY <1>6, <1>7, <1>11, <2>1 DEF Upto, Before
<1>14. Beyond(u, c) = b
  BY <1>6, <1>7, <1>12 DEF Beyond, After
<1> QED
  BY <1>1, <1>6, <1>7, <1>13, <1>14

\* Where a token is found first, and where last.
LEMMA FirstMention ==
  ASSUME NEW s, NEW c, IsList(s), Mentions(s, c)
  PROVE  \E a, b : /\ IsList(a) /\ IsList(b) /\ ~Mentions(a, c) /\ s = Around(a, c, b)
                   /\ Len(b) < Len(s) /\ Len(a) < Len(s)
<1>1. Len(s) \in Nat /\ DOMAIN s = 1..Len(s)
  BY ListFacts
<1>2. PICK T : T = {i \in 1..Len(s) : s[i] = c}
  OBVIOUS
<1>3. T \in SUBSET Nat /\ T # {}
  BY <1>1, <1>2 DEF Mentions
<1>4. PICK n \in T : \A y \in T : n <= y
  BY <1>3, LeastOf
<1>5. n \in 1..Len(s) /\ s[n] = c /\ \A i \in 1..(n - 1) : s[i] # c
  BY <1>1, <1>2, <1>4
<1>6. PICK a, b : a = SubSeq(s, 1, n - 1) /\ b = SubSeq(s, n + 1, Len(s))
  OBVIOUS
<1>7. /\ IsList(a) /\ IsList(b) /\ Len(a) = n - 1 /\ Len(b) = Len(s) - n
      /\ \A i \in 1..(n - 1) : a[i] = s[i]
      /\ s = Around(a, c, b)
  BY <1>5, <1>6, CutHere
<1>8. ~Mentions(a, c)
  <2>1. DOMAIN a = 1..(n - 1)
    BY <1>7, ListFacts
  <2> QED
    BY <1>5, <1>7, <2>1 DEF Mentions
<1>9. Len(b) < Len(s) /\ Len(a) < Len(s)
  BY <1>1, <1>5, <1>7
<1> QED
  BY <1>7, <1>8, <1>9

LEMMA LastMention ==
  ASSUME NEW s, NEW c, IsList(s), Mentions(s, c)
  PROVE  \E a, b : /\ IsList(a) /\ IsList(b) /\ ~Mentions(b, c) /\ s = Around(a, c, b)
                   /\ Len(b) < Len(s) /\ Len(a) < Len(s)
<1>1. Len(s) \in Nat /\ DOMAIN s = 1..Len(s)
  BY ListFacts
<1>2. PICK T : T = {i \in 1..Len(s) : s[i] = c}
  OBVIOUS
<1>3. T \in SUBSET (0..Len(s)) /\ T # {}
  BY <1>1, <1>2 DEF Mentions
<1>4. PICK n \in T : \A y \in T : y <= n
  BY <1>1, <1>3, GreatestOf
<1>5. n \in 1..Len(s) /\ s[n] = c /\ \A i \in (n + 1)..Len(s) : s[i] # c
  BY <1>1, <1>2, <1>4
<1>6. PICK a, b : a = SubSeq(s, 1, n - 1) /\ b = SubSeq(s, n + 1, Len(s))
  OBVIOUS
<1>7. /\ IsList(a) /\ IsList(b) /\ Len(a) = n - 1 /\ Len(b) = Len(s) - n
      /\ \A i \in 1..(Len(s) - n) : b[i] = s[n + i]
      /\ s = Around(a, c, b)
  BY <1>5, <1>6, CutHere
<1>8. ~Mentions(b, c)
  <2>1. DOMAIN b = 1..(Len(s) - n)
    BY <1>7, ListFacts
  <2>2. ASSUME NEW i \in 1..(Len(s) - n)
        PROVE  b[i] # c
    <3>1. n + i \in (n + 1)..Len(s)
      BY <1>1, <1>5
    <3> QED
      BY <1>5, <1>7, <3>1
  <2> QED
    BY <2>1, <2>2 DEF Mentions
<1>9. Len(b) < Len(s) /\ Len(a) < Len(s)
  BY <1>1, <1>5, <1>7
<1> QED
  BY <1>7, <1>8, <1>9

\* How often a token is among the first ones.
Count(s, c, i) == Cardinality({j \in 1..i : s[j] = c})

LEMMA CountStep ==
  ASSUME NEW s, NEW c, NEW i \in Nat
  PROVE  /\ Count(s, c, i) \in Nat /\ Count(s, c, 0) = 0
         /\ Count(s, c, i + 1) = Count(s, c, i) + (IF s[i + 1] = c THEN 1 ELSE 0)
<1>1. PICK S, T : S = {j \in 1..i : s[j] = c} /\ T = {j \in 1..(i + 1) : s[j] = c}
  OBVIOUS
<1>2. IsFiniteSet(S)
  <2>1. IsFiniteSet(1..i) /\ S \subseteq 1..i
    BY <1>1, FS_Interval
  <2> QED
    BY <2>1, FS_Subset
<1>3. Cardinality(S) \in Nat
  BY <1>2, FS_CardinalityType
<1>4. {j \in 1..0 : s[j] = c} = {}
  OBVIOUS
<1>5. Count(s, c, 0) = 0
  BY <1>4, FS_EmptySet DEF Count
<1>6. CASE s[i + 1] = c
  <2>1. T = S \cup {i + 1} /\ i + 1 \notin S
    BY <1>1, <1>6
  <2>2. Cardinality(T) = Cardinality(S) + 1
    BY <1>2, <2>1, FS_AddElement
  <2> QED
    BY <1>1, <1>3, <1>5, <1>6, <2>2 DEF Count
<1>7. CASE s[i + 1] # c
  <2>1. T = S
    BY <1>1, <1>7
  <2> QED
    BY <1>1, <1>3, <1>5, <1>7, <2>1 DEF Count
<1> QED
  BY <1>6, <1>7

LEMMA CountGrows ==
  ASSUME NEW s, NEW c, NEW n \in Nat, NEW i \in 0..n
  PROVE  Count(s, c, i) <= Count(s, c, n)
<1>1. PICK S, T : S = {j \in 1..i : s[j] = c} /\ T = {j \in 1..n : s[j] = c}
  OBVIOUS
<1>2. IsFiniteSet(1..n) /\ T \subseteq 1..n /\ S \subseteq T
  BY <1>1, FS_Interval
<1>3. IsFiniteSet(T)
  BY <1>2, FS_Subset
<1> QED
  BY <1>1, <1>2, <1>3, FS_Subset DEF Count

\* The tokens of a piece, and the piece.
Spot(s, c, k) == {i \in 1..Len(s) : s[i] # c /\ Count(s, c, i) = k}
Spanned(s, T) == IF T = {} THEN <<>> ELSE SubSeq(s, Min(T), Max(T))

\* split(c) makes a piece more than there are tokens to split at.
LEMMA SplitIs ==
  ASSUME NEW s, NEW c, IsList(s)
  PROVE  /\ IsList(Split(s, c)) /\ Count(s, c, Len(s)) \in Nat
         /\ Len(Split(s, c)) = Count(s, c, Len(s)) + 1
         /\ \A k \in 1..(Count(s, c, Len(s)) + 1) : Split(s, c)[k] = Spanned(s, Spot(s, c, k - 1))
         /\ ~Mentions(s, c) => Split(s, c) = <<s>>
<1>1. PICK n \in Nat : n = Len(s) /\ DOMAIN s = 1..n
  BY ListFacts
<1>2. PICK m \in Nat : m = Count(s, c, n)
  BY CountStep
<1>3. CASE ~Mentions(s, c)
  <2>1. \A i \in 1..n : s[i] # c
    BY <1>1, <1>3 DEF Mentions
  <2>2. \A i \in 0..n : Count(s, c, i) = 0
    <3> SUFFICES ASSUME NEW i \in 0..n
                 PROVE  Count(s, c, i) = 0
      OBVIOUS
    <3>1. {j \in 1..i : s[j] = c} = {}
      BY <2>1
    <3> QED
      BY <3>1, FS_EmptySet DEF Count
  <2>3. m = 0
    BY <1>2, <2>2
  <2>4. Split(s, c) = <<s>>
    BY <1>3 DEF Split
  <2>5. IsList(<<s>>) /\ Len(<<s>>) = 1 /\ <<s>>[1] = s
    BY TuplesAreLists
  <2>6. Spanned(s, Spot(s, c, 0)) = s
    <3>1. PICK T : T = Spot(s, c, 0)
      OBVIOUS
    <3>2. T = 1..n
      BY <1>1, <2>1, <2>2, <3>1 DEF Spot
    <3>3. CASE n = 0
      <4>1. T = {} /\ s = <<>>
        BY <1>1, <3>2, <3>3, EmptyIsList, ListsEqual
      <4> QED
        BY <3>1, <4>1 DEF Spanned
    <3>4. CASE n # 0
      <4>1. Min(T) = 1 /\ Max(T) = n /\ T # {}
        <5>1. T \in SUBSET Int /\ 1 \in T /\ n \in T /\ \A y \in T : 1 <= y /\ y <= n
          BY <3>2, <3>4
        <5> QED
          BY <5>1, MinIs, MaxIs
      <4>2. PICK a : a = SubSeq(s, 1, n)
        OBVIOUS
      <4>3. /\ IsList(a) /\ Len(a) = (IF 1 <= n THEN n - 1 + 1 ELSE 0)
            /\ \A i \in 1..(n - 1 + 1) : a[i] = s[1 + i - 1]
        <5>1. 1 \in 1..(n + 1) /\ n \in 0..n
          OBVIOUS
        <5> QED
          BY <1>1, <4>2, <5>1, PieceOf
      <4>4. Len(a) = n /\ \A i \in 1..n : a[i] = s[i]
        BY <3>4, <4>3
      <4>5. a = s
        BY <1>1, <4>3, <4>4, ListsEqual
      <4> QED
        BY <3>1, <4>1, <4>2, <4>5 DEF Spanned
    <3> QED
      BY <3>3, <3>4
  <2>7. \A k \in 1..(m + 1) : Split(s, c)[k] = Spanned(s, Spot(s, c, k - 1))
    <3> SUFFICES ASSUME NEW k \in 1..(m + 1)
                 PROVE  Split(s, c)[k] = Spanned(s, Spot(s, c, k - 1))
      OBVIOUS
    <3>1. k = 1 /\ k - 1 = 0
      BY <2>3
    <3> QED
      BY <2>4, <2>5, <2>6, <3>1
  <2> QED
    BY <1>1, <1>2, <2>3, <2>4, <2>5, <2>7
<1>4. CASE Mentions(s, c)
  <2>1. Cardinality({i \in DOMAIN s : s[i] = c}) = m
    BY <1>1, <1>2 DEF Count
  <2>2. PICK f : f = [k \in 1..(m + 1) |-> Spanned(s, Spot(s, c, k - 1))]
    OBVIOUS
  <2>3. \A k : {i \in DOMAIN s : s[i] # c /\ Cardinality({j \in 1..i : s[j] = c}) = k} = Spot(s, c, k)
    BY <1>1 DEF Spot, Count
  <2>4. Split(s, c) = [k \in 1..(m + 1) |->
          IF Spot(s, c, k - 1) = {} THEN <<>> ELSE SubSeq(s, Min(Spot(s, c, k - 1)), Max(Spot(s, c, k - 1)))]
    BY <1>4, <2>1, <2>3, Zenon DEF Split
  <2>5. Split(s, c) = f
    BY <2>2, <2>4 DEF Spanned
  <2>6. IsList(f) /\ Len(f) = m + 1
    <3>1. f = [k \in 1..(m + 1) |-> f[k]] /\ m + 1 \in Nat
      BY <2>2
    <3> QED
      BY <3>1, ListMade
  <2> QED
    BY <1>1, <1>2, <1>4, <2>2, <2>5, <2>6
<1> QED
  BY <1>3, <1>4

Shifted(T, U, d, n) ==
  T \subseteq 1..n /\ U \subseteq Int /\ (\A j \in T : d + j \in U) /\ (\A i \in U : i - d \in T)

\* A piece that lies behind something else.
LEMMA SpannedShift ==
  ASSUME NEW u, NEW b, NEW d \in Nat, NEW T, NEW U, IsList(u), IsList(b),
         d + Len(b) <= Len(u), \A j \in 1..Len(b) : u[d + j] = b[j], Shifted(T, U, d, Len(b))
  PROVE  Spanned(u, U) = Spanned(b, T)
<1>1. Len(u) \in Nat /\ Len(b) \in Nat /\ T \subseteq 1..Len(b)
  BY ListFacts DEF Shifted
<1>2. CASE T = {}
  <2>1. U = {}
    BY <1>2 DEF Shifted
  <2> QED
    BY <1>2, <2>1 DEF Spanned
<1>3. CASE T # {}
  <2>1. T \in SUBSET Nat /\ T \in SUBSET (0..Len(b)) /\ T \in SUBSET Int
    BY <1>1
  <2>2. PICK x \in T : \A y \in T : x <= y
    BY <1>3, <2>1, LeastOf
  <2>3. PICK z \in T : \A y \in T : y <= z
    BY <1>1, <1>3, <2>1, GreatestOf
  <2>4. Min(T) = x /\ Max(T) = z /\ x \in 1..Len(b) /\ z \in 1..Len(b) /\ x <= z
    BY <1>1, <2>1, <2>2, <2>3, MinIs, MaxIs
  <2>5. d + x \in U /\ d + z \in U /\ U \in SUBSET Int /\ \A y \in U : d + x <= y /\ y <= d + z
    <3>1. d + x \in U /\ d + z \in U
      BY DEF Shifted
    <3>2. ASSUME NEW y \in U
          PROVE  y \in Int /\ d + x <= y /\ y <= d + z
      <4>1. PICK j \in T : y = d + j
        <5>1. y \in Int /\ y - d \in T /\ d + (y - d) = y
          BY DEF Shifted
        <5> QED
          BY <5>1
      <4>2. x <= j /\ j <= z /\ j \in Nat
        BY <2>1, <2>2, <2>3
      <4> QED
        BY <2>4, <4>1, <4>2
    <3> QED
      BY <3>1, <3>2
  <2>6. Min(U) = d + x /\ Max(U) = d + z /\ U # {}
    BY <2>5, MinIs, MaxIs
  <2>7. PICK p, q : p = SubSeq(u, d + x, d + z) /\ q = SubSeq(b, x, z)
    OBVIOUS
  <2>8. /\ IsList(p) /\ Len(p) = (IF d + x <= d + z THEN (d + z) - (d + x) + 1 ELSE 0)
        /\ \A i \in 1..((d + z) - (d + x) + 1) : p[i] = u[(d + x) + i - 1]
    <3>1. d + x \in 1..(Len(u) + 1) /\ d + z \in 0..Len(u)
      BY <1>1, <2>4
    <3> QED
      BY <2>7, <3>1, PieceOf
  <2>9. /\ IsList(q) /\ Len(q) = (IF x <= z THEN z - x + 1 ELSE 0)
        /\ \A i \in 1..(z - x + 1) : q[i] = b[x + i - 1]
    <3>1. x \in 1..(Len(b) + 1) /\ z \in 0..Len(b)
      BY <1>1, <2>4
    <3> QED
      BY <2>7, <3>1, PieceOf
  <2>10. Len(p) = z - x + 1 /\ Len(q) = z - x + 1
    BY <1>1, <2>4, <2>8, <2>9
  <2>11. \A i \in 1..(z - x + 1) : p[i] = q[i]
    <3> SUFFICES ASSUME NEW i \in 1..(z - x + 1)
                 PROVE  p[i] = q[i]
      OBVIOUS
    <3>1. /\ i \in 1..((d + z) - (d + x) + 1) /\ x + i - 1 \in 1..Len(b)
          /\ (d + x) + i - 1 = d + (x + i - 1)
      BY <1>1, <2>4
    <3>2. p[i] = u[(d + x) + i - 1] /\ q[i] = b[x + i - 1]
      BY <2>8, <2>9, <3>1
    <3> QED
      BY <3>1, <3>2
  <2>12. p = q
    BY <2>8, <2>9, <2>10, <2>11, ListsEqual
  <2> QED
    BY <1>3, <2>4, <2>6, <2>7, <2>12 DEF Spanned
<1> QED
  BY <1>2, <1>3

\* What is split in front of a separator and behind it.
LEMMA SplitConcat ==
  ASSUME NEW a, NEW b, NEW c, IsList(a), IsList(b)
  PROVE  Split(Around(a, c, b), c) = Cat(Split(a, c), Split(b, c))
<1>3. PICK n \in Nat, m \in Nat : n = Len(a) /\ m = Len(b)
  BY ListFacts
<1>5. PICK u : u = Around(a, c, b)
  OBVIOUS
<1>6. /\ IsList(u) /\ Len(u) = n + (1 + m)
      /\ \A j \in 1..n : u[j] = a[j]
  BY <1>3, <1>5, AroundIs
<1>7. u[n + 1] = c /\ \A j \in 1..m : u[(n + 1) + j] = b[j]
  BY <1>3, <1>5, AroundIs
<1>8. PICK K \in Nat, L \in Nat : K = Count(a, c, n) /\ L = Count(b, c, m)
  BY CountStep
<1>9. \A i \in 0..n : Count(u, c, i) = Count(a, c, i) /\ Count(u, c, i) \in Nat /\ Count(u, c, i) <= K
  <2> SUFFICES ASSUME NEW i \in 0..n
               PROVE  Count(u, c, i) = Count(a, c, i) /\ Count(u, c, i) \in Nat /\ Count(u, c, i) <= K
    OBVIOUS
  <2>1. {j \in 1..i : u[j] = c} = {j \in 1..i : a[j] = c}
    BY <1>6
  <2>2. Count(u, c, i) = Count(a, c, i)
    BY <2>1 DEF Count
  <2>3. Count(a, c, i) \in Nat /\ Count(a, c, i) <= K
    BY <1>8, CountStep, CountGrows
  <2> QED
    BY <2>2, <2>3
<1>10. Count(u, c, n + 1) = K + 1
  <2>1. Count(u, c, n + 1) = Count(u, c, n) + (IF u[n + 1] = c THEN 1 ELSE 0)
    BY CountStep
  <2>2. Count(u, c, n) = K
    BY <1>8, <1>9
  <2> QED
    BY <1>7, <2>1, <2>2
<1>11. \A j \in 0..m : Count(u, c, (n + 1) + j) = (K + 1) + Count(b, c, j) /\ Count(b, c, j) \in Nat
  <2> DEFINE G == {j \in 0..m : Count(u, c, (n + 1) + j) = (K + 1) + Count(b, c, j) /\ Count(b, c, j) \in Nat}
  <2>1. 0 \in G
    <3>1. Count(b, c, 0) = 0 /\ (n + 1) + 0 = n + 1 /\ 0 \in 0..m
      BY CountStep
    <3> QED
      BY <1>10, <3>1
  <2>2. ASSUME NEW j \in 0..(m - 1), j \in G
        PROVE  j + 1 \in G
    <3>1. j \in Nat /\ (n + 1) + j \in Nat /\ j + 1 \in 1..m /\ j + 1 \in 0..m
      OBVIOUS
    <3>2. /\ Count(b, c, j + 1) = Count(b, c, j) + (IF b[j + 1] = c THEN 1 ELSE 0)
          /\ Count(u, c, ((n + 1) + j) + 1) = Count(u, c, (n + 1) + j) + (IF u[((n + 1) + j) + 1] = c THEN 1 ELSE 0)
      BY <3>1, CountStep
    <3>3. ((n + 1) + j) + 1 = (n + 1) + (j + 1) /\ u[(n + 1) + (j + 1)] = b[j + 1]
      BY <1>7, <3>1
    <3>4. Count(u, c, (n + 1) + j) = (K + 1) + Count(b, c, j) /\ Count(b, c, j) \in Nat
      BY <2>2
    <3>5. PICK z \in {0, 1} : z = (IF b[j + 1] = c THEN 1 ELSE 0)
      OBVIOUS
    <3>6. Count(b, c, j + 1) = Count(b, c, j) + z /\ Count(u, c, (n + 1) + (j + 1)) = ((K + 1) + Count(b, c, j)) + z
      BY <3>2, <3>3, <3>4, <3>5
    <3>7. Count(u, c, (n + 1) + (j + 1)) = (K + 1) + Count(b, c, j + 1) /\ Count(b, c, j + 1) \in Nat
      BY <3>4, <3>6
    <3> QED
      BY <3>1, <3>7
  <2>3. \A j \in 0..m : j \in G
    <3> HIDE DEF G
    <3> QED
      BY <2>1, <2>2, Induction
  <2> QED
    BY <2>3
<1>12. PICK N \in Nat : N = Len(u) /\ N = n + (1 + m)
  BY <1>6, ListFacts
<1>13. Count(u, c, N) = (K + 1) + L
  <2>1. N = (n + 1) + m /\ m \in 0..m
    BY <1>12
  <2> QED
    BY <1>8, <1>11, <2>1
<1>14. \A k \in 0..K : Spanned(u, Spot(u, c, k)) = Spanned(a, Spot(a, c, k))
  <2> SUFFICES ASSUME NEW k \in 0..K
               PROVE  Spanned(u, Spot(u, c, k)) = Spanned(a, Spot(a, c, k))
    OBVIOUS
  <2>1. PICK U, T : U = Spot(u, c, k) /\ T = Spot(a, c, k)
    OBVIOUS
  <2>2. \A i \in 1..N : i > n => i \notin U
    <3> SUFFICES ASSUME NEW i \in 1..N, i > n, i \in U
                 PROVE  FALSE
      OBVIOUS
    <3>1. u[i] # c /\ Count(u, c, i) = k
      BY <2>1 DEF Spot
    <3>2. i # n + 1
      BY <1>7, <3>1
    <3>3. i - (n + 1) \in 0..m /\ (n + 1) + (i - (n + 1)) = i
      BY <1>12, <3>2
    <3>4. Count(u, c, i) = (K + 1) + Count(b, c, i - (n + 1)) /\ Count(b, c, i - (n + 1)) \in Nat
      BY <1>11, <3>3
    <3> QED
      BY <3>1, <3>4
  <2>3. U = {0 + j : j \in T}
    <3>1. U = T
      <4>1. ASSUME NEW i \in U
            PROVE  i \in T
        <5>1. i \in 1..N
          BY <1>12, <2>1 DEF Spot
        <5>2. i \in 1..n
          BY <1>12, <2>2, <5>1
        <5>3. u[i] = a[i] /\ Count(u, c, i) = Count(a, c, i)
          BY <1>6, <1>9, <5>2
        <5> QED
          BY <1>3, <2>1, <5>2, <5>3 DEF Spot
      <4>2. ASSUME NEW i \in T
            PROVE  i \in U
        <5>1. i \in 1..n
          BY <1>3, <2>1 DEF Spot
        <5>2. u[i] = a[i] /\ Count(u, c, i) = Count(a, c, i) /\ i \in 1..N
          BY <1>6, <1>9, <1>12, <5>1
        <5> QED
          BY <1>12, <2>1, <5>2 DEF Spot
      <4> QED
        BY <4>1, <4>2
    <3>2. \A j \in T : 0 + j = j
      BY <1>3, <2>1 DEF Spot
    <3> QED
      BY <3>1, <3>2
  <2>4. T \subseteq 1..n
    BY <1>3, <2>1 DEF Spot
  <2>5. 0 + Len(a) <= Len(u) /\ \A j \in 1..Len(a) : u[0 + j] = a[j]
    BY <1>3, <1>6, <1>12
  <2>6. IsList(u) /\ 0 \in Nat /\ T \subseteq 1..Len(a)
    BY <1>3, <1>6, <2>4
  <2>7. Spanned(u, U) = Spanned(a, T)
    <3>1. PICK d \in Nat : d = 0
      OBVIOUS
    <3>2. d + Len(a) <= Len(u) /\ (\A j \in 1..Len(a) : u[d + j] = a[j]) 
          /\ Shifted(T, U, d, Len(a))
      <4>1. U = T /\ \A j \in T : j \in Int /\ 0 + j = j /\ j - 0 = j
        <5>1. \A j \in T : j \in Int /\ 0 + j = j /\ j - 0 = j
          BY <2>4
        <5> QED
          BY <2>3, <5>1
      <4>2. d + Len(a) <= Len(u) /\ \A j \in 1..Len(a) : u[d + j] = a[j]
        BY <2>5, <3>1
      <4>3. Shifted(T, U, d, Len(a))
        BY <2>5, <2>6, <3>1, <4>1 DEF Shifted
      <4> QED
        BY <4>2, <4>3
    <3> QED
      BY <2>6, <3>2, SpannedShift
  <2> QED
    BY <2>1, <2>7
<1>15. \A k \in 0..L : Spanned(u, Spot(u, c, (K + 1) + k)) = Spanned(b, Spot(b, c, k))
  <2> SUFFICES ASSUME NEW k \in 0..L
               PROVE  Spanned(u, Spot(u, c, (K + 1) + k)) = Spanned(b, Spot(b, c, k))
    OBVIOUS
  <2>1. PICK U, T : U = Spot(u, c, (K + 1) + k) /\ T = Spot(b, c, k)
    OBVIOUS
  <2>2. U = {(n + 1) + j : j \in T}
    <3>1. ASSUME NEW i \in U
          PROVE  i \in {(n + 1) + j : j \in T}
      <4>1. i \in 1..N /\ u[i] # c /\ Count(u, c, i) = (K + 1) + k
        BY <1>12, <2>1 DEF Spot
      <4>2. ~(i \in 0..n)
        BY <1>9, <4>1
      <4>3. i # n + 1
        BY <1>7, <4>1
      <4>4. PICK j : j = i - (n + 1)
        OBVIOUS
      <4>5. j \in 1..m /\ j \in 0..m /\ (n + 1) + j = i
        BY <1>12, <4>1, <4>2, <4>3, <4>4
      <4>6. u[i] = b[j] /\ Count(u, c, i) = (K + 1) + Count(b, c, j) /\ Count(b, c, j) \in Nat
        BY <1>7, <1>11, <4>5
      <4>7. Count(b, c, j) = k
        BY <4>1, <4>6
      <4>8. j \in T
        BY <1>3, <2>1, <4>1, <4>5, <4>6, <4>7 DEF Spot
      <4> QED
        BY <4>5, <4>8
    <3>2. ASSUME NEW j \in T
          PROVE  (n + 1) + j \in U
      <4>1. j \in 1..m /\ b[j] # c /\ Count(b, c, j) = k
        BY <1>3, <2>1 DEF Spot
      <4>2. j \in 0..m /\ (n + 1) + j \in 1..N
        BY <1>12, <4>1
      <4>3. u[(n + 1) + j] # c /\ Count(u, c, (n + 1) + j) = (K + 1) + k
        BY <1>7, <1>11, <4>1, <4>2
      <4> QED
        BY <1>12, <2>1, <4>2, <4>3 DEF Spot
    <3> QED
      BY <3>1, <3>2
  <2>3. T \subseteq 1..Len(b)
    BY <2>1 DEF Spot
  <2>4. (n + 1) + Len(b) <= Len(u) /\ \A j \in 1..Len(b) : u[(n + 1) + j] = b[j]
    BY <1>3, <1>7, <1>12
  <2>5. n + 1 \in Nat
    OBVIOUS
  <2>6. IsList(u)
    BY <1>6
  <2>7. Spanned(u, U) = Spanned(b, T)
    <3>1. PICK d \in Nat : d = n + 1
      OBVIOUS
    <3>2. d + Len(b) <= Len(u) /\ (\A j \in 1..Len(b) : u[d + j] = b[j]) 
          /\ Shifted(T, U, d, Len(b))
      <4>1. (\A j \in T : d + j \in U) /\ \A j \in T : j \in Int /\ (d + j) - d = j
        BY <1>3, <2>2, <2>3, <3>1
      <4>2. d + Len(b) <= Len(u) /\ \A j \in 1..Len(b) : u[d + j] = b[j]
        BY <2>4, <3>1
      <4>3. Shifted(T, U, d, Len(b))
        BY <2>2, <2>3, <3>1, <4>1 DEF Shifted
      <4> QED
        BY <4>2, <4>3
    <3> QED
      BY <2>6, <3>2, SpannedShift
  <2> QED
    BY <2>1, <2>7
<1>16. PICK p, q, r : p = Split(u, c) /\ q = Split(a, c) /\ r = Split(b, c)
  OBVIOUS
<1>17. IsList(p) /\ Len(p) = (K + 1) + L + 1 /\ \A k \in 1..((K + 1) + L + 1) : p[k] = Spanned(u, Spot(u, c, k - 1))
  <2>1. IsList(u) /\ Len(u) = N
    BY <1>6, <1>12
  <2>2. /\ IsList(p) /\ Len(p) = Count(u, c, Len(u)) + 1
        /\ \A k \in 1..(Count(u, c, Len(u)) + 1) : p[k] = Spanned(u, Spot(u, c, k - 1))
    BY <1>16, <2>1, SplitIs
  <2> QED
    BY <1>13, <2>1, <2>2
<1>18. IsList(q) /\ Len(q) = K + 1 /\ \A k \in 1..(K + 1) : q[k] = Spanned(a, Spot(a, c, k - 1))
  BY <1>3, <1>8, <1>16, SplitIs
<1>19. IsList(r) /\ Len(r) = L + 1 /\ \A k \in 1..(L + 1) : r[k] = Spanned(b, Spot(b, c, k - 1))
  BY <1>3, <1>8, <1>16, SplitIs
<1>20. PICK w : w = Cat(q, r)
  OBVIOUS
<1>21. /\ IsList(w) /\ Len(w) = (K + 1) + (L + 1)
       /\ \A j \in 1..(K + 1) : w[j] = q[j]
       /\ \A j \in 1..(L + 1) : w[(K + 1) + j] = r[j]
  <2>1. /\ IsList(w) /\ Len(w) = Len(q) + Len(r)
        /\ \A j \in 1..Len(q) : w[j] = q[j]
        /\ \A j \in 1..Len(r) : w[Len(q) + j] = r[j]
    <3>1. IsList(q) /\ IsList(r)
      BY <1>18, <1>19
    <3> QED
      BY <1>20, <3>1, CatIs
  <2> QED
    BY <1>18, <1>19, <2>1
<1>22. Len(p) = Len(w)
  BY <1>17, <1>21
<1>23. \A i \in 1..((K + 1) + L + 1) : p[i] = w[i]
  <2> SUFFICES ASSUME NEW i \in 1..((K + 1) + L + 1)
               PROVE  p[i] = w[i]
    OBVIOUS
  <2>1. p[i] = Spanned(u, Spot(u, c, i - 1))
    BY <1>17
  <2>2. CASE i <= K + 1
    <3>1. i \in 1..(K + 1) /\ i - 1 \in 0..K
      BY <2>2
    <3> QED
      BY <1>14, <1>18, <1>21, <2>1, <3>1
  <2>3. CASE i > K + 1
    <3>1. PICK k : k = i - (K + 1)
      OBVIOUS
    <3>2. k \in 1..(L + 1) /\ k - 1 \in 0..L /\ (K + 1) + k = i /\ (K + 1) + (k - 1) = i - 1
      BY <2>3, <3>1
    <3>3. w[i] = r[k] /\ r[k] = Spanned(b, Spot(b, c, k - 1))
      BY <1>19, <1>21, <3>2
    <3>4. Spanned(u, Spot(u, c, i - 1)) = Spanned(b, Spot(b, c, k - 1))
      BY <1>15, <3>2
    <3> QED
      BY <2>1, <3>3, <3>4
  <2> QED
    BY <2>2, <2>3
<1>24. p = w
  BY <1>17, <1>21, <1>22, <1>23, ListsEqual
<1> QED
  BY <1>5, <1>16, <1>20, <1>24

\* split(c) makes texts.
LEMMA SplitMakesLines ==
  ASSUME NEW s, NEW c, IsList(s)
  PROVE  IsLines(Split(s, c)) /\ Len(Split(s, c)) \in Nat \ {0}
<1>1. PICK n \in Nat : n = Len(s)
  BY ListFacts
<1>2. ASSUME NEW k
      PROVE  IsList(Spanned(s, Spot(s, c, k)))
  <2>1. PICK T : T = Spot(s, c, k)
    OBVIOUS
  <2>2. \A i \in T : i \in 1..n
    BY <1>1, <2>1 DEF Spot
  <2>3. CASE T = {}
    BY <2>1, <2>3, EmptyIsList DEF Spanned
  <2>4. CASE T # {}
    <3>1. T \in SUBSET Nat /\ T \in SUBSET (0..n) /\ T \in SUBSET Int
      BY <2>2
    <3>2. PICK x \in T : \A y \in T : x <= y
      BY <2>4, <3>1, LeastOf
    <3>3. PICK z \in T : \A y \in T : y <= z
      BY <2>4, <3>1, GreatestOf
    <3>4. Min(T) = x /\ Max(T) = z
      BY <3>1, <3>2, <3>3, MinIs, MaxIs
    <3>5. x \in 1..(Len(s) + 1) /\ z \in 0..Len(s)
      BY <1>1, <2>2
    <3>6. IsList(SubSeq(s, x, z))
      BY <3>5, PieceOf
    <3> QED
      BY <2>1, <2>4, <3>4, <3>6 DEF Spanned
  <2> QED
    BY <2>3, <2>4
<1>3. PICK m \in Nat : m = Count(s, c, n)
  BY CountStep
<1>4. /\ IsList(Split(s, c)) /\ Len(Split(s, c)) = m + 1
      /\ \A k \in 1..(m + 1) : Split(s, c)[k] = Spanned(s, Spot(s, c, k - 1))
  BY <1>1, <1>3, SplitIs
<1> QED
  BY <1>2, <1>4 DEF IsLines

\* What stands in front of the first of two texts, or behind the second.
LEMMA AroundFront ==
  ASSUME NEW p, NEW a, NEW x, NEW b, IsList(p), IsList(a), IsList(b)
  PROVE  Cat(p, Around(a, x, b)) = Around(Cat(p, a), x, b)
<1>1. PICK y, t : y = One(x) /\ t = Cat(y, b)
  OBVIOUS
<1>2. IsList(y) /\ IsList(t)
  BY <1>1, OneIs, CatIs
<1>3. Cat(p, Cat(a, t)) = Cat(Cat(p, a), t)
  BY <1>2, CatAssociates
<1> QED
  BY <1>1, <1>3 DEF Around

LEMMA AroundBack ==
  ASSUME NEW a, NEW x, NEW b, NEW q, IsList(a), IsList(b), IsList(q)
  PROVE  Cat(Around(a, x, b), q) = Around(a, x, Cat(b, q))
<1>1. PICK y, t : y = One(x) /\ t = Cat(y, b)
  OBVIOUS
<1>2. IsList(y) /\ IsList(t)
  BY <1>1, OneIs, CatIs
<1>3. Cat(Cat(a, t), q) = Cat(a, Cat(t, q))
  BY <1>2, CatAssociates
<1>4. Cat(t, q) = Cat(y, Cat(b, q))
  BY <1>1, <1>2, CatAssociates
<1> QED
  BY <1>1, <1>3, <1>4 DEF Around

\* The first piece ends at the first separator.
LEMMA SplitFirst ==
  ASSUME NEW a, NEW b, NEW c, IsList(a), IsList(b), ~Mentions(a, c)
  PROVE  Split(Around(a, c, b), c) = Cat(One(a), Split(b, c))
BY SplitConcat, SplitIs DEF One

LEMMA SplitLast ==
  ASSUME NEW a, NEW b, NEW c, IsList(a), IsList(b), ~Mentions(b, c)
  PROVE  Split(Around(a, c, b), c) = Cat(Split(a, c), One(b))
BY SplitConcat, SplitIs DEF One

\* What stands in front is in front of the first piece.
LEMMA SplitPrefix ==
  ASSUME NEW p, NEW x, NEW c, IsList(p), IsList(x), ~Mentions(p, c)
  PROVE  /\ Len(Split(Cat(p, x), c)) = Len(Split(x, c))
         /\ Split(Cat(p, x), c)[1] = Cat(p, Split(x, c)[1])
         /\ \A i \in 2..Len(Split(x, c)) : Split(Cat(p, x), c)[i] = Split(x, c)[i]
<1>1. CASE ~Mentions(x, c)
  <2>1. Split(x, c) = <<x>>
    BY <1>1, SplitIs
  <2>2. IsList(Cat(p, x)) /\ ~Mentions(Cat(p, x), c)
    BY <1>1, CatMentions, CatIs
  <2>3. Split(Cat(p, x), c) = <<Cat(p, x)>>
    BY <2>2, SplitIs
  <2>4. PICK y : y = Cat(p, x)
    OBVIOUS
  <2>5. Len(<<x>>) = 1 /\ Len(<<y>>) = 1 /\ <<x>>[1] = x /\ <<y>>[1] = y
    BY TupleFacts
  <2> QED
    BY <2>1, <2>3, <2>4, <2>5
<1>2. CASE Mentions(x, c)
  <2>1. PICK a, b : IsList(a) /\ IsList(b) /\ ~Mentions(a, c) /\ x = Around(a, c, b)
    BY <1>2, FirstMention
  <2>2. PICK d : d = Cat(p, a)
    OBVIOUS
  <2>4. IsList(d) /\ ~Mentions(d, c)
    BY <2>1, <2>2, CatMentions, CatIs
  <2>5. Cat(p, x) = Around(d, c, b)
    BY <2>1, <2>2, AroundFront
  <2>6. PICK r : r = Split(b, c) /\ IsList(r) /\ Len(r) \in Nat
    BY <2>1, SplitMakesLines DEF IsLines
  <2>7. Split(x, c) = Cat(One(a), r)
    BY <2>1, <2>6, SplitFirst
  <2>8. Split(Cat(p, x), c) = Cat(One(d), r)
    BY <2>1, <2>2, <2>4, <2>5, <2>6, SplitFirst
  <2>9. ASSUME NEW y
        PROVE  /\ Len(Cat(One(y), r)) = 1 + Len(r) /\ (Cat(One(y), r))[1] = y
               /\ \A j \in 1..Len(r) : (Cat(One(y), r))[1 + j] = r[j]
    <3>1. PICK z : z = One(y)
      OBVIOUS
    <3>2. IsList(z) /\ Len(z) = 1 /\ z[1] = y
      BY <3>1, OneIs
    <3>3. /\ Len(Cat(z, r)) = Len(z) + Len(r)
          /\ \A j \in 1..Len(z) : Cat(z, r)[j] = z[j]
          /\ \A j \in 1..Len(r) : Cat(z, r)[Len(z) + j] = r[j]
      BY <2>6, <3>2, CatIs
    <3>4. 1 \in 1..Len(z)
      BY <3>2
    <3> QED
      BY <3>1, <3>2, <3>3, <3>4
  <2>10. PICK u, w : u = Cat(One(a), r) /\ w = Cat(One(d), r)
    OBVIOUS
  <2>11. Len(u) = 1 + Len(r) /\ Len(w) = 1 + Len(r) /\ u[1] = a /\ w[1] = d
    BY <2>9, <2>10
  <2>12. \A i \in 2..(1 + Len(r)) : u[i] = w[i]
    <3> SUFFICES ASSUME NEW i \in 2..(1 + Len(r))
                 PROVE  u[i] = w[i]
      OBVIOUS
    <3>1. i - 1 \in 1..Len(r) /\ 1 + (i - 1) = i
      BY <2>6
    <3>2. u[1 + (i - 1)] = r[i - 1] /\ w[1 + (i - 1)] = r[i - 1]
      BY <2>9, <2>10, <3>1
    <3> QED
      BY <3>1, <3>2
  <2> QED
    BY <2>2, <2>7, <2>8, <2>10, <2>11, <2>12
<1> QED
  BY <1>1, <1>2

\* What stands behind is behind the last piece.
LEMMA SplitSuffix ==
  ASSUME NEW x, NEW q, NEW c, IsList(x), IsList(q), ~Mentions(q, c), NEW n, n = Len(Split(x, c))
  PROVE  /\ Len(Split(Cat(x, q), c)) = n
         /\ Split(Cat(x, q), c)[n] = Cat(Split(x, c)[n], q)
         /\ \A i \in 1..(n - 1) : Split(Cat(x, q), c)[i] = Split(x, c)[i]
<1>1. CASE ~Mentions(x, c)
  <2>1. Split(x, c) = <<x>>
    BY <1>1, SplitIs
  <2>2. IsList(Cat(x, q)) /\ ~Mentions(Cat(x, q), c)
    BY <1>1, CatMentions, CatIs
  <2>3. Split(Cat(x, q), c) = <<Cat(x, q)>>
    BY <2>2, SplitIs
  <2>4. PICK y : y = Cat(x, q)
    OBVIOUS
  <2>5. Len(<<x>>) = 1 /\ Len(<<y>>) = 1 /\ <<x>>[1] = x /\ <<y>>[1] = y
    BY TupleFacts
  <2> QED
    BY <2>1, <2>3, <2>4, <2>5
<1>2. CASE Mentions(x, c)
  <2>1. PICK a, b : IsList(a) /\ IsList(b) /\ ~Mentions(b, c) /\ x = Around(a, c, b)
    BY <1>2, LastMention
  <2>2. PICK d : d = Cat(b, q)
    OBVIOUS
  <2>4. IsList(d) /\ ~Mentions(d, c)
    BY <2>1, <2>2, CatMentions, CatIs
  <2>5. Cat(x, q) = Around(a, c, d)
    BY <2>1, <2>2, AroundBack
  <2>6. PICK r, m : r = Split(a, c) /\ IsList(r) /\ Len(r) = m /\ m \in Nat
    BY <2>1, SplitMakesLines DEF IsLines
  <2>7. Split(x, c) = Cat(r, One(b))
    BY <2>1, <2>6, SplitLast
  <2>8. Split(Cat(x, q), c) = Cat(r, One(d))
    BY <2>1, <2>2, <2>4, <2>5, <2>6, SplitLast
  <2>9. ASSUME NEW y
        PROVE  /\ Len(Cat(r, One(y))) = m + 1 /\ (Cat(r, One(y)))[m + 1] = y
               /\ \A j \in 1..m : (Cat(r, One(y)))[j] = r[j]
    <3>1. PICK z : z = One(y)
      OBVIOUS
    <3>2. IsList(z) /\ Len(z) = 1 /\ z[1] = y
      BY <3>1, OneIs
    <3>3. /\ Len(Cat(r, z)) = Len(r) + Len(z)
          /\ \A j \in 1..Len(r) : Cat(r, z)[j] = r[j]
          /\ \A j \in 1..Len(z) : Cat(r, z)[Len(r) + j] = z[j]
      <4>1. IsList(r) /\ IsList(z)
        BY <2>6, <3>2
      <4> QED
        BY <4>1, CatIs
    <3>4. 1 \in 1..Len(z)
      BY <3>2
    <3> QED
      BY <2>6, <3>1, <3>2, <3>3, <3>4
  <2>10. PICK u, w : u = Cat(r, One(b)) /\ w = Cat(r, One(d))
    OBVIOUS
  <2>11. Len(u) = m + 1 /\ Len(w) = m + 1 /\ u[m + 1] = b /\ w[m + 1] = d
    BY <2>9, <2>10
  <2>12. \A i \in 1..m : u[i] = w[i]
    BY <2>9, <2>10
  <2>13. n = m + 1 /\ n - 1 = m
    <3>1. n = Len(u)
      BY <2>7, <2>10
    <3> QED
      BY <2>6, <2>11, <3>1
  <2> QED
    BY <2>2, <2>7, <2>8, <2>10, <2>11, <2>12, <2>13
<1> QED
  BY <1>1, <1>2

-----------------------------------------------------------------------------
(* What unpack writes are lines of tokens.                                 *)

LEMMA TupleLengths ==
  /\ \A a : IsList(<<a>>) /\ Len(<<a>>) = 1
  /\ \A a, b : IsList(<<a, b>>) /\ Len(<<a, b>>) = 2
  /\ \A a, b, c : IsList(<<a, b, c>>) /\ Len(<<a, b, c>>) = 3
  /\ \A a, b, c, d : IsList(<<a, b, c, d>>) /\ Len(<<a, b, c, d>>) = 4
  /\ \A a, b, c, d, e : IsList(<<a, b, c, d, e>>) /\ Len(<<a, b, c, d, e>>) = 5
<1>1. ASSUME NEW a, NEW b, NEW c, NEW d
      PROVE  IsList(<<a, b, c, d>>)
  <2>1. <<a, b, c, d>> \in Seq({a, b, c, d})
    OBVIOUS
  <2> QED
    BY <2>1 DEF IsList
<1>2. /\ \A a : Len(<<a>>) = 1
      /\ \A a, b : Len(<<a, b>>) = 2
      /\ \A a, b, c : Len(<<a, b, c>>) = 3
      /\ \A a, b, c, d : Len(<<a, b, c, d>>) = 4
      /\ \A a, b, c, d, e : Len(<<a, b, c, d, e>>) = 5
  OBVIOUS
<1> QED
  BY <1>1, <1>2, TuplesAreLists

\* One token in front of a text.
Onto(x, s) == Cat(One(x), s)

LEMMA OntoIs ==
  ASSUME NEW x, NEW s, IsList(s)
  PROVE  /\ IsList(Onto(x, s)) /\ Len(Onto(x, s)) = 1 + Len(s) /\ Len(s) \in Nat
         /\ Onto(x, s)[1] = x /\ \A j \in 1..Len(s) : Onto(x, s)[1 + j] = s[j]
         /\ Onto(x, s) # <<>>
<1>1. PICK y : y = One(x)
  OBVIOUS
<1>2. IsList(y) /\ Len(y) = 1 /\ y[1] = x
  BY <1>1, OneIs
<1>3. /\ IsList(Cat(y, s)) /\ Len(Cat(y, s)) = Len(y) + Len(s) /\ Len(s) \in Nat
      /\ \A j \in 1..Len(y) : Cat(y, s)[j] = y[j]
      /\ \A j \in 1..Len(s) : Cat(y, s)[Len(y) + j] = s[j]
  <2>1. IsList(y)
    BY <1>2
  <2> QED
    BY <2>1, CatIs
<1>4. PICK u : u = Cat(y, s)
  OBVIOUS
<1>5. 1 \in 1..Len(y)
  BY <1>2
<1>6. u[1] = x /\ Len(u) = 1 + Len(s) /\ IsList(u) /\ \A j \in 1..Len(s) : u[1 + j] = s[j]
  BY <1>2, <1>3, <1>4, <1>5
<1>7. u # <<>>
  BY <1>3, <1>6, EmptyIsList
<1> QED
  BY <1>1, <1>3, <1>4, <1>6, <1>7 DEF Onto

\* A text put in front of another, token by token.
LEMMA OneOnto ==
  ASSUME NEW s, IsList(s), NEW a
  PROVE  <<a>> \o s = Onto(a, s) /\ IsList(Onto(a, s))
BY OntoIs DEF Onto, Cat, One

LEMMA PairOnto ==
  ASSUME NEW s, IsList(s), NEW a, NEW b
  PROVE  <<a, b>> \o s = Onto(a, Onto(b, s)) /\ IsList(Onto(a, Onto(b, s)))
<1>1. <<a, b>> = <<a>> \o <<b>>
  BY PairConcat
<1>2. IsList(<<a>>) /\ IsList(<<b>>)
  BY TuplesAreLists
<1>3. (<<a>> \o <<b>>) \o s = <<a>> \o (<<b>> \o s)
  BY <1>2, ConcatAssociates
<1>4. Onto(b, s) = <<b>> \o s /\ IsList(Onto(b, s))
  BY OneOnto
<1>5. Onto(a, Onto(b, s)) = <<a>> \o Onto(b, s) /\ IsList(Onto(a, Onto(b, s)))
  BY OneOnto, <1>4
<1> QED
  BY <1>1, <1>3, <1>4, <1>5

LEMMA TripleOnto ==
  ASSUME NEW s, IsList(s), NEW a, NEW b, NEW c
  PROVE  /\ <<a, b, c>> \o s = Onto(a, Onto(b, Onto(c, s)))
         /\ IsList(Onto(a, Onto(b, Onto(c, s))))
<1>1. <<a, b, c>> = <<a>> \o <<b, c>>
  OBVIOUS
<1>2. IsList(<<a>>) /\ IsList(<<b, c>>)
  BY TupleLengths
<1>3. (<<a>> \o <<b, c>>) \o s = <<a>> \o (<<b, c>> \o s)
  BY <1>2, ConcatAssociates
<1>4. PICK t : t = Onto(b, Onto(c, s))
  OBVIOUS
<1>5. <<b, c>> \o s = t /\ IsList(t)
  BY <1>4, PairOnto
<1>6. <<a>> \o t = Onto(a, t) /\ IsList(Onto(a, t))
  BY <1>5, OneOnto
<1> QED
  BY <1>1, <1>3, <1>4, <1>5, <1>6

LEMMA FourOnto ==
  ASSUME NEW s, IsList(s), NEW a, NEW b, NEW c, NEW d
  PROVE  /\ <<a, b, c, d>> \o s = Onto(a, Onto(b, Onto(c, Onto(d, s))))
         /\ IsList(Onto(a, Onto(b, Onto(c, Onto(d, s)))))
<1>1. <<a, b, c, d>> = <<a>> \o <<b, c, d>>
  OBVIOUS
<1>2. IsList(<<a>>) /\ IsList(<<b, c, d>>)
  BY TupleLengths
<1>3. (<<a>> \o <<b, c, d>>) \o s = <<a>> \o (<<b, c, d>> \o s)
  BY <1>2, ConcatAssociates
<1>4. PICK t : t = Onto(b, Onto(c, Onto(d, s)))
  OBVIOUS
<1>5. <<b, c, d>> \o s = t /\ IsList(t)
  BY <1>4, TripleOnto
<1>6. <<a>> \o t = Onto(a, t) /\ IsList(Onto(a, t))
  BY <1>5, OneOnto
<1> QED
  BY <1>1, <1>3, <1>4, <1>5, <1>6

LEMMA FiveOnto ==
  ASSUME NEW s, IsList(s), NEW a, NEW b, NEW c, NEW d, NEW e
  PROVE  /\ <<a, b, c, d, e>> \o s = Onto(a, Onto(b, Onto(c, Onto(d, Onto(e, s)))))
         /\ IsList(Onto(a, Onto(b, Onto(c, Onto(d, Onto(e, s))))))
<1>1. <<a, b, c, d, e>> = <<a>> \o <<b, c, d, e>>
  OBVIOUS
<1>2. IsList(<<a>>) /\ IsList(<<b, c, d, e>>)
  BY TupleLengths
<1>3. (<<a>> \o <<b, c, d, e>>) \o s = <<a>> \o (<<b, c, d, e>> \o s)
  BY <1>2, ConcatAssociates
<1>4. PICK t : t = Onto(b, Onto(c, Onto(d, Onto(e, s))))
  OBVIOUS
<1>5. <<b, c, d, e>> \o s = t /\ IsList(t)
  BY <1>4, FourOnto
<1>6. <<a>> \o t = Onto(a, t) /\ IsList(Onto(a, t))
  BY <1>5, OneOnto
<1> QED
  BY <1>1, <1>3, <1>4, <1>5, <1>6

-----------------------------------------------------------------------------
(* Keys and values.                                                        *)

Hows == {"number", "flag", "set", "quoted", "escaped", "data", "assignments"}
\* How the parser takes what was written so.
TakenAs(how) == IF how = "escaped" THEN "quoted" ELSE how
HeadKeys(op) == DOMAIN ParseHead(op, <<>>)

\* Two tables of keys, one for writing them and one for reading them.
KeysMatch(op, ks, table) ==
  /\ IsList(ks) /\ Len(ks) \in 0..13
  /\ \A i \in 1..Len(ks) :
       /\ ks[i][2] \in Hows
       /\ ks[i][1] \in DOMAIN table /\ table[ks[i][1]] = TakenAs(ks[i][2])
       /\ (ks[i][2] = "assignments" <=> ks[i][1] = "overrides")
       /\ (ks[i][2] = "data" <=> ks[i][1] = "data")
       /\ ks[i][2] = "assignments" => op = "SetOptions" /\ i = 13 /\ Len(ks) = 13
       /\ ks[i][1] \notin HeadKeys(op)
       /\ ks[i][1] \notin Ops \cup {"#", "expect", ":", "none", "protocol", "features", "---"}
       /\ ks[i][1] \notin {SP, QT, NL}
       /\ \A j \in 1..Len(ks) : ks[i][1] = ks[j][1] => i = j
  /\ \A key \in DOMAIN table : \E i \in 1..Len(ks) : ks[i][1] = key
  /\ op = "AddBuildLog" => Len(ks) = 1
  /\ op \in ComplexOps => ks = <<>>

LEMMA KeysOfCollectGarbage == KeysMatch("CollectGarbage", FormatKeys("CollectGarbage"), ParseKeys("CollectGarbage"))
<1>1. HeadKeys("CollectGarbage") = {}
  BY DEF HeadKeys, ParseHead, PathOps, StringOps, SetOps
<1>2. PICK ks, table : ks = FormatKeys("CollectGarbage") /\ table = ParseKeys("CollectGarbage")
  OBVIOUS
<1>3. ks = << <<"action", "number">>, <<"paths", "set">>, <<"ignore_liveness", "number">>, <<"max_freed", "number">> >>
  BY <1>2 DEF FormatKeys
<1>4. table = [action |-> "number", paths |-> "set", ignore_liveness |-> "number", max_freed |-> "number"]
  BY <1>2 DEF ParseKeys
<1>5. Len(ks) = 4 /\ IsList(ks)
  BY <1>3, TupleLengths
<1>6. /\ ks[1][1] = "action" /\ ks[1][2] = "number"
      /\ ks[2][1] = "paths" /\ ks[2][2] = "set"
      /\ ks[3][1] = "ignore_liveness" /\ ks[3][2] = "number"
      /\ ks[4][1] = "max_freed" /\ ks[4][2] = "number"
  BY <1>3
<1>7. /\ DOMAIN table = {"action", "paths", "ignore_liveness", "max_freed"}
      /\ table["action"] = "number"
      /\ table["paths"] = "set"
      /\ table["ignore_liveness"] = "number"
      /\ table["max_freed"] = "number"
  BY <1>4
<1>8. \A key \in {"action", "paths", "ignore_liveness", "max_freed"} :
        key \notin Ops \cup {"#", "expect", ":", "none", "protocol", "features", "---"}
  BY DEF Ops, PathOps, StringOps, NoArgOps, ComplexOps, OtherOps
<1>9. "CollectGarbage" \notin ComplexOps
  BY DEF ComplexOps
<1>10. \A key \in {"action", "paths", "ignore_liveness", "max_freed"} : key \notin {SP, QT, NL}
  BY Zenon DEF SP, QT, NL
<1> QED
  <2> SUFFICES KeysMatch("CollectGarbage", ks, table)
    BY <1>2
  <2> QED
    BY <1>1, <1>5, <1>6, <1>7, <1>8, <1>9, <1>10 DEF KeysMatch, Hows, TakenAs

LEMMA KeysOfVerifyStore == KeysMatch("VerifyStore", FormatKeys("VerifyStore"), ParseKeys("VerifyStore"))
<1>1. HeadKeys("VerifyStore") = {}
  BY DEF HeadKeys, ParseHead, PathOps, StringOps, SetOps
<1>2. PICK ks, table : ks = FormatKeys("VerifyStore") /\ table = ParseKeys("VerifyStore")
  OBVIOUS
<1>3. ks = << <<"check_contents", "flag">>, <<"repair", "flag">> >>
  BY <1>2 DEF FormatKeys
<1>4. table = [check_contents |-> "flag", repair |-> "flag"]
  BY <1>2 DEF ParseKeys
<1>5. Len(ks) = 2 /\ IsList(ks)
  BY <1>3, TupleLengths
<1>6. /\ ks[1][1] = "check_contents" /\ ks[1][2] = "flag"
      /\ ks[2][1] = "repair" /\ ks[2][2] = "flag"
  BY <1>3
<1>7. /\ DOMAIN table = {"check_contents", "repair"}
      /\ table["check_contents"] = "flag"
      /\ table["repair"] = "flag"
  BY <1>4
<1>8. \A key \in {"check_contents", "repair"} :
        key \notin Ops \cup {"#", "expect", ":", "none", "protocol", "features", "---"}
  BY DEF Ops, PathOps, StringOps, NoArgOps, ComplexOps, OtherOps
<1>9. "VerifyStore" \notin ComplexOps
  BY DEF ComplexOps
<1>10. \A key \in {"check_contents", "repair"} : key \notin {SP, QT, NL}
  BY Zenon DEF SP, QT, NL
<1> QED
  <2> SUFFICES KeysMatch("VerifyStore", ks, table)
    BY <1>2
  <2> QED
    BY <1>1, <1>5, <1>6, <1>7, <1>8, <1>9, <1>10 DEF KeysMatch, Hows, TakenAs

LEMMA KeysOfAddTextToStore == KeysMatch("AddTextToStore", FormatKeys("AddTextToStore"), ParseKeys("AddTextToStore"))
<1>1. HeadKeys("AddTextToStore") = {}
  BY DEF HeadKeys, ParseHead, PathOps, StringOps, SetOps
<1>2. PICK ks, table : ks = FormatKeys("AddTextToStore") /\ table = ParseKeys("AddTextToStore")
  OBVIOUS
<1>3. ks = << <<"suffix", "quoted">>, <<"text", "escaped">>, <<"refs", "set">> >>
  BY <1>2 DEF FormatKeys
<1>4. table = [suffix |-> "quoted", text |-> "quoted", refs |-> "set"]
  BY <1>2 DEF ParseKeys
<1>5. Len(ks) = 3 /\ IsList(ks)
  BY <1>3, TupleLengths
<1>6. /\ ks[1][1] = "suffix" /\ ks[1][2] = "quoted"
      /\ ks[2][1] = "text" /\ ks[2][2] = "escaped"
      /\ ks[3][1] = "refs" /\ ks[3][2] = "set"
  BY <1>3
<1>7. /\ DOMAIN table = {"suffix", "text", "refs"}
      /\ table["suffix"] = "quoted"
      /\ table["text"] = "quoted"
      /\ table["refs"] = "set"
  BY <1>4
<1>8. \A key \in {"suffix", "text", "refs"} :
        key \notin Ops \cup {"#", "expect", ":", "none", "protocol", "features", "---"}
  BY DEF Ops, PathOps, StringOps, NoArgOps, ComplexOps, OtherOps
<1>9. "AddTextToStore" \notin ComplexOps
  BY DEF ComplexOps
<1>10. \A key \in {"suffix", "text", "refs"} : key \notin {SP, QT, NL}
  BY Zenon DEF SP, QT, NL
<1> QED
  <2> SUFFICES KeysMatch("AddTextToStore", ks, table)
    BY <1>2
  <2> QED
    BY <1>1, <1>5, <1>6, <1>7, <1>8, <1>9, <1>10 DEF KeysMatch, Hows, TakenAs

LEMMA KeysOfAddToStore == KeysMatch("AddToStore", FormatKeys("AddToStore"), ParseKeys("AddToStore"))
<1>1. HeadKeys("AddToStore") = {}
  BY DEF HeadKeys, ParseHead, PathOps, StringOps, SetOps
<1>2. PICK ks, table : ks = FormatKeys("AddToStore") /\ table = ParseKeys("AddToStore")
  OBVIOUS
<1>3. ks = << <<"name", "quoted">>, <<"cam_str", "quoted">>, <<"refs", "set">>, <<"repair", "flag">>, <<"data", "data">> >>
  BY <1>2 DEF FormatKeys
<1>4. table = [name |-> "quoted", cam_str |-> "quoted", refs |-> "set", repair |-> "flag", data |-> "data"]
  BY <1>2 DEF ParseKeys
<1>5. Len(ks) = 5 /\ IsList(ks)
  BY <1>3, TupleLengths
<1>6. /\ ks[1][1] = "name" /\ ks[1][2] = "quoted"
      /\ ks[2][1] = "cam_str" /\ ks[2][2] = "quoted"
      /\ ks[3][1] = "refs" /\ ks[3][2] = "set"
      /\ ks[4][1] = "repair" /\ ks[4][2] = "flag"
      /\ ks[5][1] = "data" /\ ks[5][2] = "data"
  BY <1>3
<1>7. /\ DOMAIN table = {"name", "cam_str", "refs", "repair", "data"}
      /\ table["name"] = "quoted"
      /\ table["cam_str"] = "quoted"
      /\ table["refs"] = "set"
      /\ table["repair"] = "flag"
      /\ table["data"] = "data"
  BY <1>4
<1>8. \A key \in {"name", "cam_str", "refs", "repair", "data"} :
        key \notin Ops \cup {"#", "expect", ":", "none", "protocol", "features", "---"}
  BY DEF Ops, PathOps, StringOps, NoArgOps, ComplexOps, OtherOps
<1>9. "AddToStore" \notin ComplexOps
  BY DEF ComplexOps
<1>10. \A key \in {"name", "cam_str", "refs", "repair", "data"} : key \notin {SP, QT, NL}
  BY Zenon DEF SP, QT, NL
<1> QED
  <2> SUFFICES KeysMatch("AddToStore", ks, table)
    BY <1>2
  <2> QED
    BY <1>1, <1>5, <1>6, <1>7, <1>8, <1>9, <1>10 DEF KeysMatch, Hows, TakenAs

LEMMA KeysOfAddMultipleToStore == KeysMatch("AddMultipleToStore", FormatKeys("AddMultipleToStore"), ParseKeys("AddMultipleToStore"))
<1>1. HeadKeys("AddMultipleToStore") = {}
  BY DEF HeadKeys, ParseHead, PathOps, StringOps, SetOps
<1>2. PICK ks, table : ks = FormatKeys("AddMultipleToStore") /\ table = ParseKeys("AddMultipleToStore")
  OBVIOUS
<1>3. ks = << <<"repair", "flag">>, <<"dont_check_sigs", "flag">>, <<"data", "data">> >>
  BY <1>2 DEF FormatKeys
<1>4. table = [repair |-> "flag", dont_check_sigs |-> "flag", data |-> "data"]
  BY <1>2 DEF ParseKeys
<1>5. Len(ks) = 3 /\ IsList(ks)
  BY <1>3, TupleLengths
<1>6. /\ ks[1][1] = "repair" /\ ks[1][2] = "flag"
      /\ ks[2][1] = "dont_check_sigs" /\ ks[2][2] = "flag"
      /\ ks[3][1] = "data" /\ ks[3][2] = "data"
  BY <1>3
<1>7. /\ DOMAIN table = {"repair", "dont_check_sigs", "data"}
      /\ table["repair"] = "flag"
      /\ table["dont_check_sigs"] = "flag"
      /\ table["data"] = "data"
  BY <1>4
<1>8. \A key \in {"repair", "dont_check_sigs", "data"} :
        key \notin Ops \cup {"#", "expect", ":", "none", "protocol", "features", "---"}
  BY DEF Ops, PathOps, StringOps, NoArgOps, ComplexOps, OtherOps
<1>9. "AddMultipleToStore" \notin ComplexOps
  BY DEF ComplexOps
<1>10. \A key \in {"repair", "dont_check_sigs", "data"} : key \notin {SP, QT, NL}
  BY Zenon DEF SP, QT, NL
<1> QED
  <2> SUFFICES KeysMatch("AddMultipleToStore", ks, table)
    BY <1>2
  <2> QED
    BY <1>1, <1>5, <1>6, <1>7, <1>8, <1>9, <1>10 DEF KeysMatch, Hows, TakenAs

LEMMA KeysOfAddBuildLog == KeysMatch("AddBuildLog", FormatKeys("AddBuildLog"), ParseKeys("AddBuildLog"))
<1>1. HeadKeys("AddBuildLog") = {"path"}
  BY DEF HeadKeys, ParseHead, PathOps, StringOps, SetOps
<1>2. PICK ks, table : ks = FormatKeys("AddBuildLog") /\ table = ParseKeys("AddBuildLog")
  OBVIOUS
<1>3. ks = << <<"data", "data">> >>
  BY <1>2 DEF FormatKeys
<1>4. table = [data |-> "data"]
  BY <1>2 DEF ParseKeys
<1>5. Len(ks) = 1 /\ IsList(ks)
  BY <1>3, TupleLengths
<1>6. /\ ks[1][1] = "data" /\ ks[1][2] = "data"
  BY <1>3
<1>7. /\ DOMAIN table = {"data"}
      /\ table["data"] = "data"
  BY <1>4
<1>8. \A key \in {"data"} :
        key \notin Ops \cup {"#", "expect", ":", "none", "protocol", "features", "---"}
  BY DEF Ops, PathOps, StringOps, NoArgOps, ComplexOps, OtherOps
<1>9. "AddBuildLog" \notin ComplexOps
  BY DEF ComplexOps
<1>10. \A key \in {"data"} : key \notin {SP, QT, NL}
  BY Zenon DEF SP, QT, NL
<1> QED
  <2> SUFFICES KeysMatch("AddBuildLog", ks, table)
    BY <1>2
  <2> QED
    BY <1>1, <1>5, <1>6, <1>7, <1>8, <1>9, <1>10 DEF KeysMatch, Hows, TakenAs

LEMMA KeysOfSetOptions == KeysMatch("SetOptions", FormatKeys("SetOptions"), ParseKeys("SetOptions"))
<1>1. HeadKeys("SetOptions") = {}
  BY DEF HeadKeys, ParseHead, PathOps, StringOps, SetOps
<1>2. PICK ks, table, names : /\ ks = FormatKeys("SetOptions") /\ table = ParseKeys("SetOptions")
                              /\ names = OptionKeys
  OBVIOUS
<1>3. /\ DOMAIN names = 1..12 /\ IsList(names) /\ Len(names) = 12
      /\ \A i \in 1..12 : /\ names[i] # "overrides" /\ names[i] # "data" /\ names[i] \notin {SP, QT, NL}
                          /\ names[i] \notin Ops \cup {"#", "expect", ":", "none", "protocol", "features", "---"}
                          /\ \A j \in 1..12 : names[i] = names[j] => i = j
  <2>0. Len(names) = 12
    BY <1>2 DEF OptionKeys
  <2>9. names \in Seq(Range(names))
    <3>1. names \in Seq({"keep_failed", "keep_going", "try_fallback", "verbosity",
             "max_build_jobs", "max_silent_time", "use_build_hook", "verbose_build",
             "log_type", "print_build_trace", "build_cores", "use_substitutes"})
      BY <1>2 DEF OptionKeys
    <3> QED
      BY <3>1, ListFacts DEF IsList
  <2>1. DOMAIN names = 1..12 /\ Len(names) = 12 /\ IsList(names)
    BY <2>0, <2>9, ListFacts DEF IsList
  <2>2. /\ names[1] = "keep_failed" /\ names[2] = "keep_going" /\ names[3] = "try_fallback"
        /\ names[4] = "verbosity" /\ names[5] = "max_build_jobs" /\ names[6] = "max_silent_time"
        /\ names[7] = "use_build_hook" /\ names[8] = "verbose_build" /\ names[9] = "log_type"
        /\ names[10] = "print_build_trace" /\ names[11] = "build_cores"
        /\ names[12] = "use_substitutes"
    BY <1>2 DEF OptionKeys
  <2>3. \A i \in 1..12 : i \in {1, 2, 3, 4, 5, 6, 7, 8, 9, 10, 11, 12}
    OBVIOUS
  <2>4. \A i \in 1..12 : \A j \in 1..12 : names[i] = names[j] => i = j
    BY <2>2, <2>3
  <2>5. \A i \in 1..12 : /\ names[i] # "overrides" /\ names[i] # "data"
          /\ names[i] \notin Ops \cup {"#", "expect", ":", "none", "protocol", "features", "---"}
    BY <2>2, <2>3 DEF Ops, PathOps, StringOps, NoArgOps, ComplexOps, OtherOps
  <2>6. \A key \in {"keep_failed", "keep_going", "try_fallback", "verbosity",
             "max_build_jobs", "max_silent_time", "use_build_hook", "verbose_build",
             "log_type", "print_build_trace", "build_cores", "use_substitutes"} :
          key \notin {SP, QT, NL}
    BY Zenon DEF SP, QT, NL
  <2>7. \A i \in 1..12 : names[i] \notin {SP, QT, NL}
    BY <2>2, <2>3, <2>6
  <2> QED
    BY <2>1, <2>4, <2>5, <2>7
<1>4. PICK f, last : /\ f = [i \in 1..12 |-> <<names[i], "number">>]
                     /\ last = << <<"overrides", "assignments">> >>
  OBVIOUS
<1>5. ks = f \o last
  BY <1>2, <1>3, <1>4 DEF FormatKeys
<1>6. IsList(f) /\ Len(f) = 12 /\ IsList(last) /\ Len(last) = 1
  <2>1. f = [i \in 1..12 |-> f[i]]
    BY <1>4
  <2> QED
    BY <1>4, <2>1, ListMade, TupleLengths
<1>7. IsList(ks) /\ Len(ks) = 13 /\ (\A i \in 1..12 : ks[i] = f[i]) /\ ks[13] = last[1]
  <2>1. /\ IsList(f \o last) /\ Len(f \o last) = Len(f) + Len(last)
        /\ \A i \in 1..(Len(f) + Len(last)) :
             (f \o last)[i] = IF i <= Len(f) THEN f[i] ELSE last[i - Len(f)]
    BY <1>6, ListConcat
  <2>2. IsList(ks) /\ Len(ks) = 13
    BY <1>5, <1>6, <2>1
  <2>3. \A i \in 1..13 : ks[i] = IF i <= 12 THEN f[i] ELSE last[i - 12]
    BY <1>5, <1>6, <2>1
  <2>4. \A i \in 1..12 : ks[i] = f[i]
    BY <2>3
  <2>5. ks[13] = last[1]
    BY <2>3
  <2> QED
    BY <2>2, <2>4, <2>5
<1>8. /\ \A i \in 1..12 : ks[i][1] = names[i] /\ ks[i][2] = "number"
      /\ ks[13][1] = "overrides" /\ ks[13][2] = "assignments"
  BY <1>4, <1>7
<1>9. /\ DOMAIN table = {names[i] : i \in 1..12} \cup {"overrides"}
      /\ \A i \in 1..12 : table[names[i]] = "number"
      /\ table["overrides"] = "assignments"
  <2>1. table = Extended([k \in Range(names) |-> "number"], [overrides |-> "assignments"])
    BY <1>2 DEF ParseKeys
  <2>2. Range(names) = {names[i] : i \in 1..12}
    BY <1>3 DEF Range
  <2> QED
    BY <1>3, <2>1, <2>2 DEF Extended
<1>10. "overrides" \notin Ops \cup {"#", "expect", ":", "none", "protocol", "features", "---"}
  BY DEF Ops, PathOps, StringOps, NoArgOps, ComplexOps, OtherOps
<1>13. "overrides" \notin {SP, QT, NL}
  BY Zenon DEF SP, QT, NL
<1>11. "SetOptions" \notin ComplexOps
  BY DEF ComplexOps
<1>12. \A i \in 1..13 : i = 13 \/ i \in 1..12
  OBVIOUS
<1> QED
  <2> SUFFICES KeysMatch("SetOptions", ks, table)
    BY <1>2
  <2> QED
    BY <1>1, <1>3, <1>7, <1>8, <1>9, <1>10, <1>11, <1>12, <1>13 DEF KeysMatch, Hows, TakenAs

\* The operations with fields of their own.
FieldOps == {"SetOptions", "CollectGarbage", "VerifyStore", "AddTextToStore", "AddToStore",
             "AddMultipleToStore", "AddBuildLog"}

LEMMA NoKeys ==
  ASSUME NEW op \in Ops \ FieldOps
  PROVE  FormatKeys(ParseVariant(op)) = <<>> /\ ParseKeys(op) = <<>>
<1>1. ParseKeys(op) = <<>>
  BY DEF ParseKeys, FieldOps
<1>2. ParseVariant(op) \notin FieldOps
  BY DEF ParseVariant, FieldOps
<1> QED
  BY <1>1, <1>2 DEF FormatKeys, FieldOps

LEMMA FieldVariants ==
  ASSUME NEW op \in FieldOps
  PROVE  ParseVariant(op) = op
BY DEF ParseVariant, FieldOps, ComplexOps, PathOps, StringOps, NoArgOps

\* What format_entry writes is what parse_entry looks for.
LEMMA KeysOf ==
  ASSUME NEW op \in Ops
  PROVE  KeysMatch(op, FormatKeys(ParseVariant(op)), ParseKeys(op))
<1>1. CASE op \in FieldOps
  BY <1>1, FieldVariants, KeysOfSetOptions, KeysOfCollectGarbage, KeysOfVerifyStore,
     KeysOfAddTextToStore, KeysOfAddToStore, KeysOfAddMultipleToStore, KeysOfAddBuildLog
     DEF FieldOps
<1>2. CASE op \notin FieldOps
  <2>1. PICK e : e = <<>>
    OBVIOUS
  <2>2. IsList(e) /\ Len(e) = 0 /\ DOMAIN e = {}
    BY <2>1, EmptyIsList
  <2>3. KeysMatch(op, e, e)
    BY <1>2, <2>1, <2>2 DEF KeysMatch, FieldOps
  <2> QED
    BY <1>2, <2>1, <2>3, NoKeys
<1> QED
  BY <1>1, <1>2

-----------------------------------------------------------------------------
(* Spaces around a text.                                                   *)

Blank(p) == IsList(p) /\ \A i \in 1..Len(p) : p[i] = SP

LEMMA BlankCat ==
  ASSUME NEW p, NEW q, Blank(p), Blank(q)
  PROVE  Blank(Cat(p, q))
<1>1. IsList(p) /\ IsList(q)
  BY DEF Blank
<1>2. PICK u : u = Cat(p, q)
  OBVIOUS
<1>3. /\ IsList(u) /\ Len(u) = Len(p) + Len(q) /\ Len(p) \in Nat /\ Len(q) \in Nat
      /\ \A j \in 1..Len(p) : u[j] = p[j]
      /\ \A j \in 1..Len(q) : u[Len(p) + j] = q[j]
  BY <1>1, <1>2, CatIs
<1>4. \A i \in 1..Len(u) : u[i] = SP
  <2> SUFFICES ASSUME NEW i \in 1..Len(u)
               PROVE  u[i] = SP
    OBVIOUS
  <2>1. CASE i <= Len(p)
    BY <1>3, <2>1 DEF Blank
  <2>2. CASE i > Len(p)
    <3>1. i - Len(p) \in 1..Len(q) /\ Len(p) + (i - Len(p)) = i
      BY <1>3, <2>2
    <3> QED
      BY <1>3, <3>1 DEF Blank
  <2> QED
    BY <1>3, <2>1, <2>2
<1> QED
  BY <1>2, <1>3, <1>4 DEF Blank

LEMMA BlankOnes == Blank(<<>>) /\ Blank(One(SP))
BY EmptyIsList, OneIs DEF Blank

\* trim() leaves nothing of spaces.
LEMMA TrimBlank ==
  ASSUME NEW p, Blank(p)
  PROVE  Trim(p) = <<>>
<1>1. IsList(p)
  BY DEF Blank
<1>2. CASE (\A i \in 1..Len(p) : p[i] = SP) /\ Trim(p) = <<>>
  BY <1>2
<1>3. ASSUME NEW a, NEW b, Ink(p, a, b)
      PROVE  FALSE
  BY <1>3 DEF Ink, Blank
<1> QED
  BY <1>1, <1>2, <1>3, TrimCases

\* What it takes away are spaces.
LEMMA TrimDecomposes ==
  ASSUME NEW s, IsList(s)
  PROVE  /\ Tight(Trim(s)) /\ IsList(Trim(s))
         /\ \E p, q : Blank(p) /\ Blank(q) /\ s = Cat(p, Cat(Trim(s), q))
<1>1. Tight(Trim(s)) /\ IsList(Trim(s))
  BY TrimTight DEF Tight
<1>2. CASE (\A i \in 1..Len(s) : s[i] = SP) /\ Trim(s) = <<>>
  <2>1. Blank(s) /\ s = Cat(s, Cat(<<>>, <<>>))
    BY <1>2, CatEmpty, EmptyIsList DEF Blank
  <2> QED
    BY <1>1, <1>2, <2>1, BlankOnes
<1>3. ASSUME NEW a, NEW b, Ink(s, a, b)
      PROVE  \E p, q : Blank(p) /\ Blank(q) /\ s = Cat(p, Cat(Trim(s), q))
  <2>1. PICK n \in Nat : n = Len(s)
    BY ListFacts
  <2>2. a \in 1..n /\ b \in 1..n /\ a <= b /\ Trim(s) = SubSeq(s, a, b)
    BY <1>3, <2>1, TrimIs DEF Ink
  <2>3. PICK p, m, q : p = SubSeq(s, 1, a - 1) /\ m = SubSeq(s, a, b) /\ q = SubSeq(s, b + 1, n)
    OBVIOUS
  <2>4. IsList(p) /\ Len(p) = a - 1 /\ \A i \in 1..(a - 1) : p[i] = s[i]
    <3>1. 1 \in 1..(Len(s) + 1) /\ a - 1 \in 0..Len(s)
      BY <2>1, <2>2
    <3>2. /\ IsList(p) /\ Len(p) = (IF 1 <= a - 1 THEN a - 1 - 1 + 1 ELSE 0)
          /\ \A i \in 1..(a - 1 - 1 + 1) : p[i] = s[1 + i - 1]
      BY <2>3, <3>1, PieceOf
    <3> QED
      BY <2>2, <3>2
  <2>5. IsList(m) /\ Len(m) = b - a + 1 /\ \A i \in 1..(b - a + 1) : m[i] = s[a + i - 1]
    <3>1. a \in 1..(Len(s) + 1) /\ b \in 0..Len(s)
      BY <2>1, <2>2
    <3>2. /\ IsList(m) /\ Len(m) = (IF a <= b THEN b - a + 1 ELSE 0)
          /\ \A i \in 1..(b - a + 1) : m[i] = s[a + i - 1]
      BY <2>3, <3>1, PieceOf
    <3> QED
      BY <2>2, <3>2
  <2>6. IsList(q) /\ Len(q) = n - b /\ \A i \in 1..(n - b) : q[i] = s[b + i]
    <3>1. b + 1 \in 1..(Len(s) + 1) /\ n \in 0..Len(s)
      BY <2>1, <2>2
    <3>2. /\ IsList(q) /\ Len(q) = (IF b + 1 <= n THEN n - (b + 1) + 1 ELSE 0)
          /\ \A i \in 1..(n - (b + 1) + 1) : q[i] = s[(b + 1) + i - 1]
      BY <2>3, <3>1, PieceOf
    <3>3. n - (b + 1) + 1 = n - b /\ \A i \in 1..(n - b) : (b + 1) + i - 1 = b + i
      BY <2>2
    <3> QED
      BY <2>2, <3>2, <3>3
  <2>7. Blank(p) /\ Blank(q)
    <3>1. \A i \in 1..n : i < a \/ i > b => s[i] = SP
      BY <1>3, <2>1 DEF Ink
    <3>2. \A i \in 1..(a - 1) : p[i] = SP
      BY <2>2, <2>4, <3>1
    <3>3. \A i \in 1..(n - b) : q[i] = SP
      <4> SUFFICES ASSUME NEW i \in 1..(n - b)
                   PROVE  q[i] = SP
        OBVIOUS
      <4>1. b + i \in 1..n /\ b + i > b
        BY <2>2
      <4> QED
        BY <2>6, <3>1, <4>1
    <3> QED
      BY <2>4, <2>6, <3>2, <3>3 DEF Blank
  <2>8. PICK t : t = Cat(m, q)
    OBVIOUS
  <2>9. /\ IsList(t) /\ Len(t) = Len(m) + Len(q)
        /\ \A j \in 1..Len(m) : t[j] = m[j]
        /\ \A j \in 1..Len(q) : t[Len(m) + j] = q[j]
    <3>1. IsList(m) /\ IsList(q)
      BY <2>5, <2>6
    <3> QED
      BY <2>8, <3>1, CatIs
  <2>10. PICK u : u = Cat(p, t)
    OBVIOUS
  <2>11. /\ IsList(u) /\ Len(u) = Len(p) + Len(t)
         /\ \A j \in 1..Len(p) : u[j] = p[j]
         /\ \A j \in 1..Len(t) : u[Len(p) + j] = t[j]
    <3>1. IsList(p) /\ IsList(t)
      BY <2>4, <2>9
    <3> QED
      BY <2>10, <3>1, CatIs
  <2>12. Len(u) = n /\ Len(t) = n - a + 1
    BY <2>2, <2>4, <2>5, <2>6, <2>9, <2>11
  <2>13. \A i \in 1..n : u[i] = s[i]
    <3> SUFFICES ASSUME NEW i \in 1..n
                 PROVE  u[i] = s[i]
      OBVIOUS
    <3>1. CASE i < a
      BY <2>2, <2>4, <2>11, <3>1
    <3>2. CASE i >= a /\ i <= b
      <4>1. i - a + 1 \in 1..(b - a + 1) /\ i - a + 1 \in 1..(n - a + 1)
            /\ (a - 1) + (i - a + 1) = i /\ a + (i - a + 1) - 1 = i
        BY <2>2, <3>2
      <4>2. t[i - a + 1] = m[i - a + 1] /\ m[i - a + 1] = s[i]
        BY <2>5, <2>9, <4>1
      <4> QED
        BY <2>4, <2>11, <2>12, <4>1, <4>2
    <3>3. CASE i > b
      <4>1. i - b \in 1..(n - b) /\ i - a + 1 \in 1..(n - a + 1) /\ (b - a + 1) + (i - b) = i - a + 1
            /\ (a - 1) + (i - a + 1) = i /\ b + (i - b) = i
        BY <2>2, <3>3
      <4>2. t[i - a + 1] = q[i - b] /\ q[i - b] = s[i]
        BY <2>5, <2>6, <2>9, <4>1
      <4> QED
        BY <2>4, <2>11, <2>12, <4>1, <4>2
    <3> QED
      BY <2>2, <3>1, <3>2, <3>3
  <2>14. u = s
    BY <2>1, <2>11, <2>12, <2>13, ListsEqual
  <2> QED
    BY <2>2, <2>3, <2>7, <2>8, <2>10, <2>14
<1> QED
  BY <1>1, <1>2, <1>3, TrimCases

\* It takes away more of them just as well.
LEMMA TrimPads ==
  ASSUME NEW p, NEW s, NEW q, Blank(p), IsList(s), Blank(q)
  PROVE  Trim(Cat(p, Cat(s, q))) = Trim(s)
<1>1. PICK a, b, t : Blank(a) /\ Blank(b) /\ t = Trim(s) /\ Tight(t) /\ IsList(t) /\ s = Cat(a, Cat(t, b))
  BY TrimDecomposes
<1>2. IsList(a) /\ IsList(b) /\ IsList(p) /\ IsList(q)
  BY <1>1 DEF Blank
<1>3. PICK c, d : c = Cat(p, a) /\ d = Cat(b, q) /\ Blank(c) /\ Blank(d)
  BY <1>1, BlankCat
<1>4. Cat(p, Cat(s, q)) = Cat(c, Cat(t, d))
  <2>1. IsList(Cat(t, b)) /\ IsList(Cat(t, d)) /\ IsList(d)
    BY <1>1, <1>2, <1>3, CatIs DEF Blank
  <2>2. Cat(s, q) = Cat(a, Cat(Cat(t, b), q))
    BY <1>1, <1>2, <2>1, CatAssociates
  <2>3. Cat(Cat(t, b), q) = Cat(t, d)
    BY <1>1, <1>2, <1>3, CatAssociates
  <2>4. Cat(p, Cat(a, Cat(t, d))) = Cat(c, Cat(t, d))
    BY <1>2, <1>3, <2>1, CatAssociates
  <2> QED
    BY <2>2, <2>3, <2>4
<1>5. CASE t = <<>>
  <2>1. Cat(t, d) = d
    BY <1>3, <1>5, CatEmpty DEF Blank
  <2>2. Blank(Cat(c, d))
    BY <1>3, BlankCat
  <2> QED
    BY <1>1, <1>4, <1>5, <2>1, <2>2, TrimBlank
<1>6. CASE t # <<>>
  <2>1. IsList(c) /\ IsList(d) /\ (\A i \in 1..Len(c) : c[i] = SP) /\ \A i \in 1..Len(d) : d[i] = SP
    BY <1>3 DEF Blank
  <2>2. Trim(Cat(c, Cat(t, d))) = t
    BY <1>1, <1>6, <2>1, TrimPadded
  <2> QED
    BY <1>1, <1>4, <2>2
<1> QED
  BY <1>5, <1>6

-----------------------------------------------------------------------------
(* Sets.                                                                   *)

\* The tokens that mean something are different ones.
LEMMA Tokens ==
  /\ SP \notin {BS, QT, NL, COMMA, OPEN, CLOSE} /\ COMMA \notin {BS, QT, NL, OPEN, CLOSE}
  /\ OPEN \notin {BS, QT, NL, CLOSE} /\ CLOSE \notin {BS, QT, NL} /\ NL \notin {BS, QT} /\ BS # QT
  /\ {":", "=", "#", "expect", "---", "protocol", "features", "1", "0", ".", "x", "@file:"}
       \cap {BS, QT, NL, SP, COMMA, OPEN, CLOSE} = {}
BY Zenon DEF SP, BS, QT, NL, COMMA, OPEN, CLOSE

\* What a token in front of a text adds to what it mentions.
LEMMA OntoMentions ==
  ASSUME NEW x, NEW s, IsList(s), NEW c, x # c, ~Mentions(s, c)
  PROVE  ~Mentions(Onto(x, s), c)
<1>1. PICK y : y = One(x)
  OBVIOUS
<1>2. IsList(y) /\ DOMAIN y = 1..1 /\ y[1] = x
  BY <1>1, OneIs, ListFacts
<1>3. ~Mentions(y, c)
  BY <1>2 DEF Mentions
<1>4. ~Mentions(Cat(y, s), c)
  BY <1>2, <1>3, CatMentions
<1> QED
  BY <1>1, <1>4 DEF Onto

LEMMA EmptyMentions == \A c : ~Mentions(<<>>, c)
BY DEF Mentions

\* Joined items, and the pieces to find in them.
Joint(ss, i) == IF i = 1 THEN ss[i] ELSE Onto(COMMA, Onto(SP, ss[i]))
Spaced(ss, i) == IF i = 1 THEN ss[i] ELSE Onto(SP, ss[i])
Without(ss, c) == \A i \in 1..Len(ss) : ~Mentions(ss[i], c)
SplitsInto(s, ss, k) ==
  /\ IsList(s)
  /\ Len(Split(s, COMMA)) = k /\ \A i \in 1..k : Split(s, COMMA)[i] = Spaced(ss, i)

LEMMA JoinSplits ==
  ASSUME NEW ss, IsLines(ss), ss # <<>>, Without(ss, COMMA)
  PROVE  SplitsInto(Join(ss, <<COMMA, SP>>), ss, Len(ss))
<1>1. PICK n \in Nat : n = Len(ss) /\ DOMAIN ss = 1..n /\ IsList(ss)
  BY ListFacts DEF IsLines
<1>2. n >= 1
  BY <1>1, EmptyIsList, ListsEqual
<1>3. PICK ps : ps = [i \in 1..n |-> Joint(ss, i)]
  OBVIOUS
<1>4. \A i \in 1..n : IsList(ss[i]) /\ ~Mentions(ss[i], COMMA)
  BY <1>1 DEF IsLines, Without
<1>5. ASSUME NEW i \in 1..n
      PROVE  /\ IsList(Onto(SP, ss[i])) /\ IsList(Onto(COMMA, Onto(SP, ss[i])))
             /\ ~Mentions(Onto(SP, ss[i]), COMMA)
             /\ <<COMMA, SP>> \o ss[i] = Onto(COMMA, Onto(SP, ss[i]))
  <2>1. IsList(ss[i]) /\ ~Mentions(ss[i], COMMA)
    BY <1>4
  <2>2. IsList(Onto(SP, ss[i]))
    BY <2>1, OntoIs
  <2>3. IsList(Onto(COMMA, Onto(SP, ss[i])))
    BY <2>2, OntoIs
  <2>4. ~Mentions(Onto(SP, ss[i]), COMMA)
    BY <2>1, Tokens, OntoMentions
  <2>5. <<COMMA, SP>> \o ss[i] = Onto(COMMA, Onto(SP, ss[i]))
    BY <2>1, PairOnto
  <2> QED
    BY <2>2, <2>3, <2>4, <2>5
<1>6. IsLines(ps) /\ Len(ps) = n
  <2>1. ps = [i \in 1..n |-> ps[i]]
    BY <1>3
  <2>2. IsList(ps) /\ Len(ps) = n
    BY <2>1, ListMade
  <2>3. \A i \in 1..n : IsList(ps[i])
    BY <1>3, <1>4, <1>5 DEF Joint
  <2> QED
    BY <2>2, <2>3 DEF IsLines
<1>7. Join(ss, <<COMMA, SP>>) = FlattenSeq(ps)
  <2>1. [i \in DOMAIN ss |-> IF i = 1 THEN ss[i] ELSE <<COMMA, SP>> \o ss[i]] = ps
    BY <1>1, <1>3, <1>5 DEF Joint
  <2> QED
    BY <2>1 DEF Join
<1>8. PICK g : MadeOf(ps, g) /\ FlattenSeq(ps) = g[n]
  BY <1>6, FlattenByParts
<1>9. /\ g[0] = <<>> /\ \A i \in 1..n : g[i] = Cat(g[i - 1], ps[i])
      /\ \A i \in 0..n : IsList(g[i])
  BY <1>6, <1>8 DEF MadeOf, Cat
<1> DEFINE G == {k \in 0..n : k = 0 \/ SplitsInto(g[k], ss, k)}
<1>10. ASSUME NEW m \in 0..(n - 1), m \in G
       PROVE  m + 1 \in G
  <2>0. m + 1 \in 0..n /\ m + 1 \in 1..n /\ (m + 1) - 1 = m
    OBVIOUS
  <2>1. g[m + 1] = Cat(g[m], ps[m + 1]) /\ IsList(g[m])
    <3>1. g[m + 1] = Cat(g[(m + 1) - 1], ps[m + 1])
      BY <1>9, <2>0
    <3> QED
      BY <1>9, <2>0, <3>1
  <2>2. CASE m = 0
    <3>1. g[1] = ss[1]
      <4>1. ps[1] = ss[1] /\ IsList(ss[1])
        BY <1>2, <1>3, <1>4 DEF Joint
      <4>2. g[1] = Cat(<<>>, ss[1])
        BY <1>9, <2>1, <2>2, <4>1
      <4> QED
        BY <4>1, <4>2, CatEmpty
    <3>2. IsList(ss[1]) /\ ~Mentions(ss[1], COMMA)
      BY <1>2, <1>4
    <3>3. Split(ss[1], COMMA) = <<ss[1]>>
      BY <3>2, SplitIs
    <3>4. SplitsInto(g[1], ss, 1)
      <4>1. PICK y : y = ss[1]
        OBVIOUS
      <4>2. Len(<<y>>) = 1 /\ <<y>>[1] = y
        BY TupleFacts
      <4>3. \A i \in 1..1 : Spaced(ss, i) = y /\ i = 1
        BY <4>1 DEF Spaced
      <4> QED
        BY <3>1, <3>2, <3>3, <4>1, <4>2, <4>3 DEF SplitsInto
    <3> QED
      BY <2>0, <2>2, <3>4
  <2>3. CASE m # 0
    <3>1. SplitsInto(g[m], ss, m)
      BY <1>10, <2>3
    <3>2. PICK t : t = Onto(SP, ss[m + 1]) /\ IsList(t) /\ ~Mentions(t, COMMA)
      BY <1>5, <2>0
    <3>3. PICK u : u = g[m] /\ IsList(u)
      BY <3>1 DEF SplitsInto
    <3>4. ps[m + 1] = Onto(COMMA, t)
      BY <1>3, <2>0, <2>3, <3>2 DEF Joint
    <3>5. g[m + 1] = Around(u, COMMA, t)
      BY <2>1, <3>3, <3>4 DEF Around, Onto
    <3>6. Split(Around(u, COMMA, t), COMMA) = Cat(Split(u, COMMA), One(t))
      BY <3>2, <3>3, SplitLast
    <3>7. PICK r : r = Split(u, COMMA) /\ IsList(r) /\ Len(r) = m /\ \A i \in 1..m : r[i] = Spaced(ss, i)
      BY <3>1, <3>3, SplitMakesLines DEF SplitsInto, IsLines
    <3>8. PICK y : y = One(t) /\ IsList(y) /\ Len(y) = 1 /\ y[1] = t
      BY OneIs
    <3>9. PICK w : w = Cat(r, y)
      OBVIOUS
    <3>10. /\ Len(w) = Len(r) + Len(y)
           /\ \A j \in 1..Len(r) : w[j] = r[j]
           /\ \A j \in 1..Len(y) : w[Len(r) + j] = y[j]
      <4>1. IsList(r) /\ IsList(y)
        BY <3>7, <3>8
      <4> QED
        BY <3>9, <4>1, CatIs
    <3>11. Len(w) = m + 1 /\ w[m + 1] = t /\ \A j \in 1..m : w[j] = Spaced(ss, j)
      <4>1. 1 \in 1..1
        OBVIOUS
      <4> QED
        BY <3>7, <3>8, <3>10, <4>1
    <3>12. t = Spaced(ss, m + 1)
      BY <2>3, <3>2 DEF Spaced
    <3>13. \A i \in 1..(m + 1) : w[i] = Spaced(ss, i)
      BY <3>11, <3>12
    <3>16. Split(g[m + 1], COMMA) = w
      BY <3>5, <3>6, <3>7, <3>8, <3>9
    <3>17. SplitsInto(g[m + 1], ss, m + 1)
      BY <1>9, <2>0, <3>11, <3>13, <3>16 DEF SplitsInto
    <3> QED
      BY <2>0, <3>17
  <2> QED
    BY <2>2, <2>3
<1>11. 0 \in G
  OBVIOUS
<1>12. \A m \in 0..(n - 1) : m \in G => m + 1 \in G
  BY <1>10
<1> HIDE DEF G
<1>13. \A m \in 0..n : m \in G
  BY <1>11, <1>12, Induction
<1>14. n \in G
  BY <1>13
<1> QED
  BY <1>1, <1>2, <1>7, <1>8, <1>14 DEF G

LEMMA JoinMentions ==
  ASSUME NEW ss, IsLines(ss), NEW c, c \notin {SP, COMMA}, Without(ss, c)
  PROVE  IsList(Join(ss, <<COMMA, SP>>)) /\ ~Mentions(Join(ss, <<COMMA, SP>>), c)
<1>1. PICK n \in Nat : n = Len(ss) /\ DOMAIN ss = 1..n
  BY ListFacts DEF IsLines
<1>2. PICK ps : ps = [i \in 1..n |-> IF i = 1 THEN ss[i] ELSE <<COMMA, SP>> \o ss[i]]
  OBVIOUS
<1>3. ASSUME NEW i \in 1..n
      PROVE  IsList(ps[i]) /\ ~Mentions(ps[i], c)
  <2>1. IsList(ss[i]) /\ ~Mentions(ss[i], c)
    BY <1>1 DEF IsLines, Without
  <2>2. PICK t : t = Onto(SP, ss[i]) /\ IsList(t) /\ ~Mentions(t, c)
    BY <2>1, OntoMentions, OntoIs
  <2>3. IsList(Onto(COMMA, t)) /\ ~Mentions(Onto(COMMA, t), c)
    BY <2>2, OntoMentions, OntoIs
  <2>4. <<COMMA, SP>> \o ss[i] = Onto(COMMA, Onto(SP, ss[i]))
    BY <2>1, PairOnto
  <2>5. ps[i] = ss[i] \/ ps[i] = Onto(COMMA, t)
    BY <1>2, <2>2, <2>4
  <2> QED
    BY <2>1, <2>3, <2>5
<1>4. IsList(ps) /\ Len(ps) = n
  <2>1. ps = [i \in 1..n |-> ps[i]]
    BY <1>2
  <2> QED
    BY <2>1, ListMade
<1>5. IsLines(ps)
  BY <1>3, <1>4 DEF IsLines
<1>6. \A k \in 1..Len(ps) : ~Mentions(ps[k], c)
  BY <1>3, <1>4
<1>7. Join(ss, <<COMMA, SP>>) = FlattenSeq(ps)
  BY <1>1, <1>2 DEF Join
<1>8. IsList(FlattenSeq(ps)) /\ ~Mentions(FlattenSeq(ps), c)
  BY <1>5, <1>6, FlattenIsList, FlattenMentions
<1> QED
  BY <1>7, <1>8

\* Pieces of a text that was trimmed differ from those of the text by spaces.
LEMMA TrimmedPieces ==
  ASSUME NEW s, IsList(s), NEW n, n = Len(Split(s, COMMA))
  PROVE  /\ Len(Split(Trim(s), COMMA)) = n
         /\ \A i \in 1..n : Trim(Split(Trim(s), COMMA)[i]) = Trim(Split(s, COMMA)[i])
<1>1. PICK p, q, t : Blank(p) /\ Blank(q) /\ t = Trim(s) /\ IsList(t) /\ s = Cat(p, Cat(t, q))
  BY TrimDecomposes
<1>2. IsList(p) /\ IsList(q) /\ ~Mentions(p, COMMA) /\ ~Mentions(q, COMMA)
  BY <1>1, Tokens, ListFacts DEF Blank, Mentions
<1>3. PICK w : w = Cat(t, q) /\ IsList(w)
  BY <1>1, <1>2, CatIs
<1>4. PICK a, m : a = Split(t, COMMA) /\ m = Len(a) /\ m \in Nat \ {0} /\ \A i \in 1..m : IsList(a[i])
  BY <1>1, SplitMakesLines DEF IsLines
<1>5. PICK b : b = Split(w, COMMA) /\ Len(b) = m /\ b[m] = Cat(a[m], q) /\ \A i \in 1..(m - 1) : b[i] = a[i]
  <2>1. m = Len(Split(t, COMMA))
    BY <1>4
  <2>2. /\ Len(Split(Cat(t, q), COMMA)) = m
        /\ Split(Cat(t, q), COMMA)[m] = Cat(Split(t, COMMA)[m], q)
        /\ \A i \in 1..(m - 1) : Split(Cat(t, q), COMMA)[i] = Split(t, COMMA)[i]
    <3>1. IsList(t) /\ IsList(q) /\ ~Mentions(q, COMMA)
      BY <1>1, <1>2
    <3> QED
      BY <2>1, <3>1, SplitSuffix
  <2> QED
    BY <1>3, <1>4, <2>2
<1>6. PICK c : c = Split(s, COMMA) /\ Len(c) = m /\ c[1] = Cat(p, b[1]) /\ \A i \in 2..m : c[i] = b[i]
  <2>1. /\ Len(Split(Cat(p, w), COMMA)) = Len(Split(w, COMMA))
        /\ Split(Cat(p, w), COMMA)[1] = Cat(p, Split(w, COMMA)[1])
        /\ \A i \in 2..Len(Split(w, COMMA)) : Split(Cat(p, w), COMMA)[i] = Split(w, COMMA)[i]
    BY <1>2, <1>3, SplitPrefix
  <2>2. s = Cat(p, w)
    BY <1>1, <1>3
  <2> QED
    BY <1>5, <2>1, <2>2
<1>7. ASSUME NEW i \in 1..m
      PROVE  Trim(a[i]) = Trim(c[i])
  <2>0. IsList(a[i])
    BY <1>4
  <2>1. \E x, y : Blank(x) /\ Blank(y) /\ c[i] = Cat(x, Cat(a[i], y))
    <3>1. PICK e : e = <<>> /\ Blank(e)
      BY BlankOnes
    <3>2. Cat(a[i], e) = a[i] /\ Cat(e, a[i]) = a[i] /\ Cat(e, Cat(a[i], q)) = Cat(a[i], q)
      <4>1. IsList(Cat(a[i], q))
        BY <1>2, <2>0, CatIs
      <4> QED
        BY <2>0, <3>1, <4>1, CatEmpty
    <3>3. CASE i = m /\ i = 1
      <4>1. c[i] = Cat(p, Cat(a[i], q))
        BY <1>5, <1>6, <3>3
      <4> QED
        BY <1>1, <4>1
    <3>4. CASE i = m /\ i # 1
      <4>1. i \in 2..m
        BY <3>4
      <4>2. c[i] = Cat(e, Cat(a[i], q))
        BY <1>5, <1>6, <3>2, <3>4, <4>1
      <4> QED
        BY <1>1, <3>1, <4>2
    <3>5. CASE i # m /\ i = 1
      <4>1. i \in 1..(m - 1)
        BY <1>4, <3>5
      <4>2. c[i] = Cat(p, Cat(a[i], e))
        BY <1>5, <1>6, <3>2, <3>5, <4>1
      <4> QED
        BY <1>1, <3>1, <4>2
    <3>6. CASE i # m /\ i # 1
      <4>1. i \in 1..(m - 1) /\ i \in 2..m
        BY <1>4, <3>6
      <4>2. c[i] = Cat(e, Cat(a[i], e))
        BY <1>5, <1>6, <3>2, <4>1
      <4> QED
        BY <3>1, <4>2
    <3> QED
      BY <3>3, <3>4, <3>5, <3>6
  <2>2. PICK x, y : Blank(x) /\ Blank(y) /\ c[i] = Cat(x, Cat(a[i], y))
    BY <2>1
  <2>3. Trim(Cat(x, Cat(a[i], y))) = Trim(a[i])
    BY <2>0, <2>2, TrimPads
  <2> QED
    BY <2>2, <2>3
<1>8. m = n
  BY <1>6
<1> QED
  BY <1>1, <1>4, <1>6, <1>7, <1>8

\* A set is braces around something that gives its items.
SetBody(ss, body) ==
  /\ IsList(body) /\ FormatSet(ss) = Onto(OPEN, Cat(body, One(CLOSE)))
  /\ Items(Trim(body)) = ss
  /\ \A c : c \notin {SP, COMMA} /\ Without(ss, c) => ~Mentions(body, c)
Listable(ss) == ss # << <<>> >> /\ (\A i \in 1..Len(ss) : Trim(ss[i]) = ss[i]) /\ Without(ss, COMMA)

LEMMA SetShape ==
  ASSUME NEW ss, IsLines(ss), Listable(ss)
  PROVE  \E body : SetBody(ss, body)
<1>0. IsList(ss) /\ Len(ss) \in Nat /\ \A i \in 1..Len(ss) : IsList(ss[i])
  BY ListFacts DEF IsLines
<1>1. CASE ss = <<>>
  <2>1. PICK body : body = One(SP) /\ IsList(body) /\ Blank(body)
    BY BlankOnes, OneIs
  <2>2. FormatSet(ss) = Onto(OPEN, Cat(body, One(CLOSE)))
    <3>1. FormatSet(ss) = <<OPEN, SP, CLOSE>>
      BY <1>1 DEF FormatSet
    <3>2. <<OPEN, SP>> \o <<CLOSE>> = Onto(OPEN, Onto(SP, <<CLOSE>>))
      <4>1. IsList(<<CLOSE>>)
        BY TuplesAreLists
      <4> QED
        BY <4>1, PairOnto
    <3>3. <<OPEN, SP, CLOSE>> = <<OPEN, SP>> \o <<CLOSE>>
      OBVIOUS
    <3> QED
      BY <2>1, <3>1, <3>2, <3>3 DEF Onto, One
  <2>3. Items(Trim(body)) = ss
    BY <1>1, <2>1, TrimBlank DEF Items
  <2>4. \A c : c # SP => ~Mentions(body, c)
    <3>1. IsList(body) /\ Len(body) = 1 /\ body[1] = SP
      BY <2>1, OneIs
    <3>2. DOMAIN body = 1..1
      BY <3>1, ListFacts
    <3> QED
      BY <3>1, <3>2 DEF Mentions
  <2> QED
    BY <2>1, <2>2, <2>3, <2>4 DEF SetBody
<1>2. CASE ss # <<>>
  <2>1. PICK J, n : /\ J = Join(ss, <<COMMA, SP>>) /\ n = Len(ss) /\ IsList(J) /\ n \in Nat
                    /\ n = Len(Split(J, COMMA)) /\ \A i \in 1..n : Split(J, COMMA)[i] = Spaced(ss, i)
    BY <1>0, <1>2, JoinSplits DEF SplitsInto, Listable
  <2>2. PICK sp : sp = One(SP) /\ IsList(sp) /\ Blank(sp)
    BY BlankOnes, OneIs
  <2>3. PICK body : body = Cat(sp, Cat(J, sp))
    OBVIOUS
  <2>4. IsList(Cat(J, sp)) /\ IsList(body)
    BY <2>1, <2>2, <2>3, CatIs
  <2>5. FormatSet(ss) = Onto(OPEN, Cat(body, One(CLOSE)))
    <3>1. FormatSet(ss) = (<<OPEN, SP>> \o J) \o <<SP, CLOSE>>
      BY <1>2, <2>1 DEF FormatSet
    <3>2. <<OPEN, SP>> \o J = Onto(OPEN, Onto(SP, J))
      BY <2>1, PairOnto
    <3>3. PICK cl : cl = One(CLOSE) /\ IsList(cl)
      BY OneIs
    <3>4. <<SP, CLOSE>> = Cat(sp, cl)
      BY <2>2, <3>3, PairConcat DEF Cat, One
    <3>5. PICK op : op = One(OPEN) /\ IsList(op)
      BY OneIs
    <3>6. FormatSet(ss) = Cat(Cat(op, Cat(sp, J)), Cat(sp, cl))
      BY <2>2, <3>1, <3>2, <3>4, <3>5 DEF Onto, Cat
    <3>7. IsList(Cat(sp, J)) /\ IsList(Cat(sp, cl))
      BY <2>1, <2>2, <3>3, CatIs
    <3>8. Cat(Cat(op, Cat(sp, J)), Cat(sp, cl)) = Cat(op, Cat(Cat(sp, J), Cat(sp, cl)))
      BY <3>5, <3>7, CatAssociates
    <3>9. Cat(Cat(sp, J), Cat(sp, cl)) = Cat(sp, Cat(J, Cat(sp, cl)))
      BY <2>1, <2>2, <3>7, CatAssociates
    <3>10. Cat(J, Cat(sp, cl)) = Cat(Cat(J, sp), cl)
      BY <2>1, <2>2, <3>3, CatAssociates
    <3>11. Cat(body, cl) = Cat(sp, Cat(Cat(J, sp), cl))
      BY <2>2, <2>3, <2>4, <3>3, CatAssociates
    <3> QED
      BY <3>3, <3>5, <3>6, <3>8, <3>9, <3>10, <3>11 DEF Onto
  <2>6. PICK T : T = Trim(J) /\ Trim(body) = T /\ IsList(T)
    <3>1. Trim(Cat(sp, Cat(J, sp))) = Trim(J) /\ IsList(Trim(J))
      BY <2>1, <2>2, TrimPads, TrimDecomposes
    <3> QED
      BY <2>3, <3>1
  <2>7. PICK a : a = Split(T, COMMA) /\ IsList(a) /\ Len(a) = n /\ \A i \in 1..n : Trim(a[i]) = Trim(Spaced(ss, i))
    <3>1. /\ Len(Split(Trim(J), COMMA)) = n
          /\ \A i \in 1..n : Trim(Split(Trim(J), COMMA)[i]) = Trim(Split(J, COMMA)[i])
      BY <2>1, TrimmedPieces
    <3> QED
      BY <2>1, <2>6, <3>1, SplitMakesLines DEF IsLines
  <2>8. ASSUME NEW i \in 1..n
        PROVE  Trim(Spaced(ss, i)) = ss[i]
    <3>1. IsList(ss[i]) /\ Trim(ss[i]) = ss[i]
      BY <1>0, <2>1 DEF Listable
    <3>2. Onto(SP, ss[i]) = Cat(sp, Cat(ss[i], <<>>))
      BY <2>2, <3>1, CatEmpty DEF Onto
    <3>3. Trim(Cat(sp, Cat(ss[i], <<>>))) = Trim(ss[i])
      BY <2>2, <3>1, BlankOnes, TrimPads
    <3> QED
      BY <3>1, <3>2, <3>3 DEF Spaced
  <2>9. T # <<>>
    <3> SUFFICES ASSUME T = <<>>
                 PROVE  FALSE
      OBVIOUS
    <3>1. PICK p, q : Blank(p) /\ Blank(q) /\ J = Cat(p, Cat(<<>>, q))
      BY <2>1, <2>6, TrimDecomposes
    <3>2. Blank(J)
      BY <3>1, CatEmpty, BlankCat DEF Blank
    <3>3. ~Mentions(J, COMMA)
      BY <3>2, Tokens, ListFacts DEF Blank, Mentions
    <3>4. Split(J, COMMA) = <<J>>
      BY <2>1, <3>3, SplitIs
    <3>5. n = 1 /\ Spaced(ss, 1) = J
      <4>1. Len(<<J>>) = 1 /\ <<J>>[1] = J
        BY TupleFacts
      <4> QED
        BY <2>1, <3>4, <4>1
    <3>6. ss[1] = <<>>
      BY <2>6, <2>8, <3>5
    <3>7. ss = << <<>> >>
      <4>1. PICK e : e = <<>>
        OBVIOUS
      <4>2. IsList(<<e>>) /\ Len(<<e>>) = 1 /\ <<e>>[1] = e
        BY TupleLengths, TupleFacts
      <4>3. \A i \in 1..Len(ss) : ss[i] = <<e>>[i]
        BY <2>1, <3>5, <3>6, <4>1, <4>2
      <4> QED
        BY <1>0, <2>1, <3>5, <4>1, <4>2, <4>3, ListsEqual
    <3> QED
      BY <3>7 DEF Listable
  <2>10. Items(T) = ss
    <3>1. DOMAIN a = 1..n
      BY <2>7, ListFacts
    <3>2. PICK r : r = Items(T)
      OBVIOUS
    <3>3. r = [i \in 1..n |-> Trim(a[i])]
      BY <2>7, <2>9, <3>1, <3>2 DEF Items
    <3>4. IsList(r) /\ Len(r) = n
      <4>1. r = [i \in 1..n |-> r[i]]
        BY <3>3
      <4> QED
        BY <2>1, <4>1, ListMade
    <3>5. \A i \in 1..n : r[i] = ss[i]
      BY <2>7, <2>8, <3>3
    <3> QED
      BY <1>0, <2>1, <3>2, <3>4, <3>5, ListsEqual
  <2>11. ASSUME NEW c, c \notin {SP, COMMA}, Without(ss, c)
         PROVE  ~Mentions(body, c)
    <3>1. ~Mentions(J, c) /\ ~Mentions(sp, c)
      <4>1. Len(sp) = 1 /\ sp[1] = SP /\ DOMAIN sp = 1..1
        BY <2>2, OneIs, ListFacts
      <4>2. ~Mentions(sp, c)
        BY <2>11, <4>1 DEF Mentions
      <4>3. ~Mentions(J, c)
        BY <2>1, <2>11, JoinMentions
      <4> QED
        BY <4>2, <4>3
    <3>2. ~Mentions(Cat(J, sp), c)
      BY <2>1, <2>2, <3>1, CatMentions
    <3> QED
      BY <2>2, <2>3, <2>4, <3>1, <3>2, CatMentions
  <2> QED
    BY <2>4, <2>5, <2>6, <2>10, <2>11 DEF SetBody
<1> QED
  BY <1>1, <1>2

\* The middle one of three texts.
LEMMA MiddleOf ==
  ASSUME NEW a, NEW b, NEW c, IsList(a), IsList(b), IsList(c)
  PROVE  SubSeq(Cat(a, Cat(b, c)), Len(a) + 1, Len(a) + Len(b)) = b
<1>1. PICK l \in Nat, m \in Nat, n \in Nat : l = Len(a) /\ m = Len(b) /\ n = Len(c)
  BY ListFacts
<1>2. PICK t : t = Cat(b, c)
  OBVIOUS
<1>3. IsList(t) /\ Len(t) = m + n /\ \A j \in 1..m : t[j] = b[j]
  <2>1. IsList(t) /\ Len(t) = Len(b) + Len(c) /\ \A j \in 1..Len(b) : t[j] = b[j]
    BY <1>2, CatIs
  <2> QED
    BY <1>1, <2>1
<1>4. PICK u : u = Cat(a, t)
  OBVIOUS
<1>5. IsList(u) /\ Len(u) = l + (m + n) /\ \A j \in 1..(m + n) : u[l + j] = t[j]
  <2>1. IsList(u) /\ Len(u) = Len(a) + Len(t) /\ \A j \in 1..Len(t) : u[Len(a) + j] = t[j]
    <3>1. IsList(t)
      BY <1>3
    <3> QED
      BY <1>4, <3>1, CatIs
  <2> QED
    BY <1>1, <1>3, <2>1
<1>6. PICK v : v = SubSeq(u, l + 1, l + m)
  OBVIOUS
<1>7. IsList(v) /\ Len(v) = m /\ \A i \in 1..m : v[i] = u[l + i]
  <2>1. l + 1 \in 1..(Len(u) + 1) /\ l + m \in 0..Len(u)
    BY <1>5
  <2>2. /\ IsList(v) /\ Len(v) = (IF l + 1 <= l + m THEN (l + m) - (l + 1) + 1 ELSE 0)
        /\ \A i \in 1..((l + m) - (l + 1) + 1) : v[i] = u[(l + 1) + i - 1]
    BY <1>5, <1>6, <2>1, PieceOf
  <2>3. (l + m) - (l + 1) + 1 = m /\ \A i \in 1..m : (l + 1) + i - 1 = l + i
    OBVIOUS
  <2> QED
    BY <2>2, <2>3
<1>8. \A i \in 1..m : v[i] = b[i]
  <2> SUFFICES ASSUME NEW i \in 1..m
               PROVE  v[i] = b[i]
    OBVIOUS
  <2>1. i \in 1..(m + n)
    OBVIOUS
  <2> QED
    BY <1>3, <1>5, <1>7, <2>1
<1>9. v = b
  BY <1>1, <1>7, <1>8, ListsEqual
<1> QED
  BY <1>1, <1>2, <1>4, <1>6, <1>9

\* A text between two tokens.
LEMMA BetweenIs ==
  ASSUME NEW x, NEW m, NEW y, IsList(m), NEW s, s = Onto(x, Cat(m, One(y)))
  PROVE  /\ IsList(s) /\ s # <<>> /\ Len(s) = Len(m) + 2 /\ s[1] = x /\ s[Len(s)] = y
         /\ SubSeq(s, 2, Len(s) - 1) = m
         /\ x # SP /\ y # SP => Tight(s)
         /\ \A c : c # x /\ c # y /\ ~Mentions(m, c) => ~Mentions(s, c)
<1>1. PICK l \in Nat : l = Len(m)
  BY ListFacts
<1>2. PICK b, e : b = One(x) /\ e = One(y) /\ IsList(b) /\ IsList(e) /\ Len(b) = 1 /\ Len(e) = 1
                  /\ b[1] = x /\ e[1] = y
  BY OneIs
<1>3. PICK t : t = Cat(m, e)
  OBVIOUS
<1>4. IsList(t) /\ Len(t) = l + 1 /\ t[l + 1] = y
  <2>1. IsList(t) /\ Len(t) = Len(m) + Len(e) /\ \A j \in 1..Len(e) : t[Len(m) + j] = e[j]
    <3>1. IsList(e)
      BY <1>2
    <3> QED
      BY <1>3, <3>1, CatIs
  <2>2. 1 \in 1..1
    OBVIOUS
  <2> QED
    BY <1>1, <1>2, <2>1, <2>2
<1>5. IsList(s) /\ Len(s) = 1 + (l + 1) /\ s[1] = x /\ s[1 + (l + 1)] = y /\ s # <<>>
  <2>1. s = Onto(x, t)
    BY <1>2, <1>3
  <2>2. IsList(s) /\ Len(s) = 1 + Len(t) /\ s[1] = x /\ s # <<>> /\ \A j \in 1..Len(t) : s[1 + j] = t[j]
    BY <1>4, <2>1, OntoIs
  <2>3. l + 1 \in 1..Len(t)
    BY <1>4
  <2> QED
    BY <1>4, <2>2, <2>3
<1>6. SubSeq(s, 2, Len(s) - 1) = m
  <2>1. SubSeq(Cat(b, Cat(m, e)), Len(b) + 1, Len(b) + Len(m)) = m
    <3>1. IsList(b) /\ IsList(e)
      BY <1>2
    <3> QED
      BY <3>1, MiddleOf
  <2>2. s = Cat(b, Cat(m, e)) /\ Len(b) + 1 = 2 /\ Len(b) + Len(m) = Len(s) - 1
    BY <1>1, <1>2, <1>5 DEF Onto
  <2> QED
    BY <2>1, <2>2
<1>7. ASSUME NEW c, c # x, c # y, ~Mentions(m, c)
      PROVE  ~Mentions(s, c)
  <2>1. ~Mentions(e, c)
    <3>1. DOMAIN e = 1..1
      BY <1>2, ListFacts
    <3> QED
      BY <1>2, <1>7, <3>1 DEF Mentions
  <2>2. ~Mentions(t, c)
    BY <1>2, <1>3, <1>7, <2>1, CatMentions
  <2> QED
    BY <1>2, <1>3, <1>4, <1>7, <2>2, OntoMentions
<1>8. Len(s) = Len(m) + 2 /\ s[Len(s)] = y
  BY <1>1, <1>5
<1>9. x # SP /\ y # SP => Tight(s)
  BY <1>5, <1>8 DEF Tight
<1> QED
  BY <1>5, <1>6, <1>7, <1>8, <1>9

\* parse_inline_path_set reads back a set, and what is behind it.
LEMMA ParseSetBack ==
  ASSUME NEW ss, NEW body, SetBody(ss, body), ~Mentions(body, CLOSE), NEW t, IsList(t)
  PROVE  LET s == Cat(FormatSet(ss), t)
         IN  IsList(s) /\ s # <<>> /\ s[1] = OPEN /\ ParseSet(s) = ss /\ BehindSet(s) = Trim(t)
<1>1. PICK op, cl : op = One(OPEN) /\ cl = One(CLOSE) /\ IsList(op) /\ IsList(cl) /\ Len(op) = 1
  BY OneIs
<1>2. IsList(body) /\ FormatSet(ss) = Cat(op, Cat(body, cl)) /\ Items(Trim(body)) = ss
  BY <1>1 DEF SetBody, Onto
<1>3. PICK a : a = Cat(op, body) /\ IsList(a) /\ Len(a) = 1 + Len(body) /\ Len(body) \in Nat
  BY <1>1, <1>2, CatIs
<1>4. ~Mentions(a, CLOSE)
  BY <1>1, <1>2, <1>3, Tokens, OntoMentions DEF Onto
<1>5. PICK r : r = Cat(cl, t) /\ IsList(r)
  BY <1>1, CatIs
<1>6. PICK s : s = Cat(FormatSet(ss), t)
  OBVIOUS
<1>7. s = Cat(op, Cat(body, r))
  <2>1. IsList(Cat(body, cl))
    BY <1>1, <1>2, CatIs
  <2>2. s = Cat(op, Cat(Cat(body, cl), t))
    BY <1>1, <1>2, <1>6, <2>1, CatAssociates
  <2>3. Cat(Cat(body, cl), t) = Cat(body, r)
    BY <1>1, <1>2, <1>5, CatAssociates
  <2> QED
    BY <2>2, <2>3
<1>8. s = Around(a, CLOSE, t)
  <2>1. Cat(Cat(op, body), r) = Cat(op, Cat(body, r))
    BY <1>1, <1>2, <1>5, CatAssociates
  <2> QED
    BY <1>1, <1>3, <1>5, <1>7, <2>1 DEF Around
<1>9. IsList(s) /\ s # <<>> /\ s[1] = OPEN
  <2>1. IsList(Cat(body, r))
    BY <1>2, <1>5, CatIs
  <2>2. s = Onto(OPEN, Cat(body, r))
    BY <1>1, <1>7 DEF Onto
  <2> QED
    BY <2>1, <2>2, OntoIs
<1>10. Mentions(s, CLOSE) /\ Index(s, CLOSE) = Len(a) + 1 /\ Beyond(s, CLOSE) = t
  BY <1>3, <1>4, <1>8, CutAt
<1>11. SubSeq(s, 2, Index(s, CLOSE) - 1) = body
  <2>1. SubSeq(Cat(op, Cat(body, r)), Len(op) + 1, Len(op) + Len(body)) = body
    BY <1>1, <1>2, <1>5, MiddleOf
  <2>2. Len(op) + 1 = 2 /\ Len(op) + Len(body) = Index(s, CLOSE) - 1
    BY <1>1, <1>3, <1>10
  <2> QED
    BY <1>7, <2>1, <2>2
<1>12. ParseSet(s) = ss
  BY <1>2, <1>9, <1>11 DEF ParseSet, StartsWith
<1>13. BehindSet(s) = Trim(t)
  BY <1>9, <1>10 DEF BehindSet, StartsWith, Beyond
<1> QED
  BY <1>6, <1>9, <1>12, <1>13

\* parse_features does, if no feature is empty.
LEMMA ParseFeaturesBack ==
  ASSUME NEW ss, NEW body, SetBody(ss, body), IsList(ss), \A i \in 1..Len(ss) : ss[i] # <<>>
  PROVE  ParseFeatures(FormatSet(ss)) = ss
<1>1. PICK s : s = FormatSet(ss) /\ s = Onto(OPEN, Cat(body, One(CLOSE)))
  BY DEF SetBody
<1>2. /\ s # <<>> /\ s[1] = OPEN /\ s[Len(s)] = CLOSE /\ SubSeq(s, 2, Len(s) - 1) = body
  <2>1. IsList(body)
    BY DEF SetBody
  <2> QED
    BY <1>1, <2>1, BetweenIs
<1>3. ParseFeatures(s) = Filled(Items(Trim(body)))
  BY <1>2 DEF ParseFeatures
<1>4. Filled(ss) = ss
  <2>1. DOMAIN ss = 1..Len(ss)
    BY ListFacts
  <2>2. [i \in DOMAIN ss |-> IF ss[i] = <<>> THEN <<>> ELSE <<ss[i]>>] = Singles(ss)
    BY <2>1 DEF Singles
  <2> QED
    BY <2>2, SinglesFlattened DEF Filled
<1> QED
  BY <1>1, <1>3, <1>4 DEF SetBody

-----------------------------------------------------------------------------
(* Values of fields.                                                       *)

\* As IsValue says, except that data may be in a file.
IsSentValue(how, x) ==
  IsValue(how, x) \/ (how = "data" /\ \E i \in DOMAIN FileNames : x = FileRef(FileNames[i]))

LEMMA FileNamesAre ==
  /\ DOMAIN FileNames = 1..3
  /\ \A i \in DOMAIN FileNames : FileNames[i] \notin {SP, NL}
  /\ \A i, j \in DOMAIN FileNames : FileNames[i] = FileNames[j] => i = j
<1>1. DOMAIN FileNames = 1..3
  BY DEF FileNames
<1>2. /\ FileNames[1] = "0000.bin" /\ FileNames[2] = "0001.bin" /\ FileNames[3] = "0002.bin"
  BY DEF FileNames
<1>3. \A x \in {"0000.bin", "0001.bin", "0002.bin"} : x \notin {SP, NL}
  BY Zenon DEF SP, NL
<1>4. \A i \in 1..3 : i = 1 \/ i = 2 \/ i = 3
  OBVIOUS
<1>5. \A i \in 1..3 : FileNames[i] \notin {SP, NL}
  <2>2. \A i \in 1..3 : FileNames[i] \in {"0000.bin", "0001.bin", "0002.bin"}
    BY <1>2, <1>4
  <2> QED
    BY <1>3, <2>2
<1>6. \A i, j \in 1..3 : FileNames[i] = FileNames[j] => i = j
  BY <1>2, <1>4
<1> QED
  BY <1>1, <1>5, <1>6

\* format_entry writes a list of tokens.
LEMMA ValueIsList ==
  ASSUME NEW how \in Hows, NEW x, IsSentValue(how, x)
  PROVE  IsList(FormatValue(how, x))
<1>1. CASE how = "number"
  BY <1>1, TuplesAreLists, Zenon DEF FormatValue
<1>2. CASE how = "flag"
  BY <1>2, TuplesAreLists, Zenon DEF FormatValue
<1>3. CASE how = "set"
  <2>1. IsLines(x)
    BY <1>3, TypedAreLines DEF IsSentValue, IsValue
  <2>2. IsList(FormatSet(x))
    BY <2>1, SetIsList
  <2> QED
    BY <1>3, <2>2 DEF FormatValue
<1>4. CASE how \in {"quoted", "escaped"}
  <2>1. x \in Seq(STRING)
    BY <1>4 DEF IsSentValue, IsValue
  <2>2. IsList(x)
    BY <2>1 DEF IsList
  <2>3. ASSUME NEW y, IsList(y)
        PROVE  IsList(Quoted(y))
    <3>1. IsList(<<QT>>)
      BY TuplesAreLists
    <3>2. IsList(<<QT>> \o y)
      BY <2>3, <3>1, ListConcat
    <3> QED
      BY <3>1, <3>2, ListConcat DEF Quoted
  <2>4. IsList(Escape(x))
    <3>1. IsLines(Stage(x, {BS, QT, NL})) /\ Escape(x) = FlattenSeq(Stage(x, {BS, QT, NL}))
      BY <2>2, StageOf, EscapeIsStage
    <3> QED
      BY <3>1, FlattenIsList
  <2>5. FormatValue(how, x) \in {Quoted(x), Quoted(Escape(x))}
    BY <1>4 DEF FormatValue
  <2> QED
    BY <2>2, <2>3, <2>4, <2>5
<1>5. CASE how = "data"
  BY <1>5, TupleLengths, Zenon DEF FormatValue, FormatData
<1>6. CASE how = "assignments"
  BY <1>6, TuplesAreLists, Zenon DEF FormatValue
<1> QED
  BY <1>1, <1>2, <1>3, <1>4, <1>5, <1>6 DEF Hows

\* It has ink at both ends and no newline, if it can be carried.
Solid(s) == Tight(s) /\ s # <<>> /\ ~Mentions(s, NL)

LEMMA SolidOnes ==
  /\ \A a : a \notin {SP, NL} => Solid(<<a>>)
  /\ \A a, b : a \notin {SP, NL} /\ b \notin {SP, NL} => Solid(<<a, b>>)
<1>1. ASSUME NEW a, a \notin {SP, NL}
      PROVE  Solid(<<a>>)
  <2>1. PICK s : s = <<a>>
    OBVIOUS
  <2>2. IsList(s) /\ Len(s) = 1 /\ s[1] = a /\ DOMAIN s = 1..1
    BY <2>1, TupleLengths, TupleFacts, ListFacts
  <2> QED
    BY <1>1, <2>1, <2>2, EmptyIsList DEF Solid, Tight, Mentions
<1>2. ASSUME NEW a, NEW b, a \notin {SP, NL}, b \notin {SP, NL}
      PROVE  Solid(<<a, b>>)
  <2>1. PICK s : s = <<a, b>>
    OBVIOUS
  <2>2. IsList(s) /\ Len(s) = 2 /\ s[1] = a /\ s[2] = b /\ DOMAIN s = 1..2
    BY <2>1, TupleLengths, TupleFacts, ListFacts
  <2>3. \A i \in 1..2 : i = 1 \/ i = 2
    OBVIOUS
  <2> QED
    BY <1>2, <2>1, <2>2, <2>3, EmptyIsList DEF Solid, Tight, Mentions
<1> QED
  BY <1>1, <1>2

LEMMA QuotedIs ==
  ASSUME NEW s, IsList(s)
  PROVE  Quoted(s) = Onto(QT, Cat(s, One(QT)))
<1>1. PICK q : q = One(QT) /\ IsList(q) /\ q = <<QT>>
  BY OneIs DEF One
<1>2. Quoted(s) = Cat(Cat(q, s), q)
  BY <1>1 DEF Quoted, Cat
<1>3. Cat(Cat(q, s), q) = Cat(q, Cat(s, q))
  BY <1>1, CatAssociates
<1> QED
  BY <1>1, <1>2, <1>3 DEF Onto

\* SetSurvives, of sets of texts.
LEMMA SetCarried ==
  ASSUME NEW ss, IsLines(ss), SetSurvives(ss)
  PROVE  \E body : SetBody(ss, body) /\ ~Mentions(body, CLOSE) /\ ~Mentions(body, NL)
<1>1. DOMAIN ss = 1..Len(ss)
  BY ListFacts DEF IsLines
<1>2. Listable(ss) /\ Without(ss, CLOSE) /\ Without(ss, NL)
  BY <1>1 DEF SetSurvives, Listable, Without, Whole, OneLine
<1>3. PICK body : SetBody(ss, body)
  BY <1>2, SetShape
<1> QED
  BY <1>2, <1>3, Tokens DEF SetBody

LEMMA SetIsSolid ==
  ASSUME NEW ss, NEW body, SetBody(ss, body), ~Mentions(body, NL)
  PROVE  Solid(FormatSet(ss))
<1>1. PICK s : s = FormatSet(ss) /\ s = Onto(OPEN, Cat(body, One(CLOSE))) /\ IsList(body)
  BY DEF SetBody
<1>2. IsList(s) /\ s # <<>> /\ Tight(s) /\ ~Mentions(s, NL)
  BY <1>1, BetweenIs, Tokens
<1> QED
  BY <1>1, <1>2 DEF Solid

LEMMA ValueIsSolid ==
  ASSUME NEW how \in Hows, NEW x, IsSentValue(how, x), Survives(how, x)
  PROVE  Solid(FormatValue(how, x))
<1>1. CASE how = "number"
  <2>1. x \notin {SP, NL}
    <3>1. Numbers \cap {SP, NL} = {}
      BY Zenon DEF Numbers, SP, NL
    <3> QED
      BY <1>1, <3>1 DEF IsSentValue, IsValue
  <2> QED
    BY <1>1, <2>1, SolidOnes, Zenon DEF FormatValue
<1>2. CASE how = "flag"
  <2>1. "0" \notin {SP, NL} /\ "1" \notin {SP, NL}
    BY Zenon DEF SP, NL
  <2>2. FormatValue(how, x) = <<"0">> \/ FormatValue(how, x) = <<"1">>
    BY <1>2, Zenon DEF FormatValue
  <2> QED
    BY <2>1, <2>2, SolidOnes, Zenon
<1>3. CASE how = "set"
  <2>1. IsLines(x) /\ SetSurvives(x)
    BY <1>3, TypedAreLines DEF IsSentValue, IsValue, Survives
  <2>2. Solid(FormatSet(x))
    BY <2>1, SetCarried, SetIsSolid
  <2> QED
    BY <1>3, <2>2 DEF FormatValue
<1>4. CASE how \in {"quoted", "escaped"}
  <2>1. x \in Seq(STRING)
    BY <1>4 DEF IsSentValue, IsValue
  <2>2. IsList(x)
    BY <2>1 DEF IsList
  <2>3. how = "quoted" => OneLine(x)
    BY DEF Survives
  <2>4. ~Mentions(FormatValue(how, x), NL)
    BY <1>4, <2>2, <2>3, ValuesStayOnTheirLine DEF OneLine
  <2>5. IsList(Escape(x))
    <3>1. IsLines(Stage(x, {BS, QT, NL})) /\ Escape(x) = FlattenSeq(Stage(x, {BS, QT, NL}))
      BY <2>2, StageOf, EscapeIsStage
    <3> QED
      BY <3>1, FlattenIsList
  <2>6. \E y : IsList(y) /\ FormatValue(how, x) = Quoted(y)
    BY <1>4, <2>2, <2>5 DEF FormatValue
  <2>7. PICK y : IsList(y) /\ FormatValue(how, x) = Quoted(y)
    BY <2>6
  <2>8. Tight(Quoted(y)) /\ Quoted(y) # <<>>
    BY <2>7, QuotedIs, BetweenIs, Tokens
  <2> QED
    BY <2>4, <2>7, <2>8 DEF Solid
<1>5. CASE how = "data"
  <2>1. CASE x.inFile
    <3>1. x.of \notin {SP, NL}
      <4>1. x \in [inFile : {FALSE}, of : Words] \/ \E i \in DOMAIN FileNames : x = FileRef(FileNames[i])
        BY <1>5 DEF IsSentValue, IsValue
      <4>2. \E i \in DOMAIN FileNames : x = FileRef(FileNames[i])
        BY <2>1, <4>1
      <4> QED
        BY <4>2, FileNamesAre DEF FileRef
    <3>2. "@file:" \notin {SP, NL}
      BY Tokens
    <3>3. FormatValue(how, x) = <<"@file:", x.of>>
      BY <1>5, <2>1 DEF FormatValue, FormatData
    <3> QED
      BY <3>1, <3>2, <3>3, SolidOnes, Zenon
  <2>2. CASE ~x.inFile
    <3>1. x.of \notin {SP, NL}
      <4>1. x \in [inFile : {FALSE}, of : Words] \/ \E i \in DOMAIN FileNames : x = FileRef(FileNames[i])
        BY <1>5 DEF IsSentValue, IsValue
      <4>2. ASSUME NEW i \in DOMAIN FileNames, x = FileRef(FileNames[i])
            PROVE  FALSE
        BY <2>2, <4>2 DEF FileRef
      <4> QED
        BY <4>1, <4>2 DEF Words
    <3>2. PICK s : s = <<"x", QT, x.of, QT>>
      OBVIOUS
    <3>3. IsList(s) /\ Len(s) = 4 /\ s[1] = "x" /\ s[2] = QT /\ s[3] = x.of /\ s[4] = QT
      BY <3>2, TupleLengths
    <3>4. DOMAIN s = 1..4 /\ \A i \in 1..4 : i = 1 \/ i = 2 \/ i = 3 \/ i = 4
      BY <3>3, ListFacts
    <3>7. s # <<>>
      BY <3>3, EmptyIsList
    <3>8. "x" # NL /\ QT # NL /\ "x" # SP /\ QT # SP
      BY Tokens
    <3>9. s[1] # NL /\ s[2] # NL /\ s[3] # NL /\ s[4] # NL
      BY <3>1, <3>3, <3>8
    <3>10. ~Mentions(s, NL)
      BY <3>4, <3>9 DEF Mentions
    <3>5. s # <<>> /\ Tight(s) /\ ~Mentions(s, NL)
      BY <3>3, <3>7, <3>8, <3>10 DEF Tight
    <3>6. FormatValue(how, x) = s
      BY <1>5, <2>2, <3>2 DEF FormatValue, FormatData
    <3> QED
      BY <3>5, <3>6 DEF Solid
  <2> QED
    BY <2>1, <2>2
<1>6. CASE how = "assignments"
  <2>1. "count" \notin {SP, NL}
    BY Zenon DEF SP, NL
  <2> QED
    BY <1>6, <2>1, SolidOnes, Zenon DEF FormatValue
<1> QED
  BY <1>1, <1>2, <1>3, <1>4, <1>5, <1>6 DEF Hows

\* What is written is read back.
LEMMA ValueBack ==
  ASSUME NEW how \in Hows, NEW x, IsSentValue(how, x), Survives(how, x), how # "assignments"
  PROVE  ParseValue(TakenAs(how), FormatValue(how, x)) = x
<1>1. CASE how = "number"
  <2>1. x \in Numbers
    BY <1>1 DEF IsSentValue, IsValue
  <2>2. FormatValue(how, x) = <<x>> /\ TakenAs(how) = "number"
    BY <1>1 DEF FormatValue, TakenAs
  <2>3. ParseNumber(<<x>>) = x
    BY <2>1 DEF ParseNumber
  <2> QED
    BY <2>2, <2>3 DEF ParseValue
<1>2. CASE how = "flag"
  <2>1. x = TRUE \/ x = FALSE
    BY <1>2 DEF IsSentValue, IsValue
  <2>2. TakenAs(how) = "flag"
    BY <1>2 DEF TakenAs
  <2>3. ParseValue("flag", FormatValue(how, TRUE)) = TRUE /\ ParseValue("flag", FormatValue(how, FALSE)) = FALSE
    BY <1>2 DEF FormatValue, ParseValue
  <2> QED
    BY <2>1, <2>2, <2>3, Zenon
<1>3. CASE how = "set"
  <2>1. IsLines(x) /\ SetSurvives(x)
    BY <1>3, TypedAreLines DEF IsSentValue, IsValue, Survives
  <2>2. PICK body : SetBody(x, body) /\ ~Mentions(body, CLOSE)
    BY <2>1, SetCarried
  <2>3. ParseSet(Cat(FormatSet(x), <<>>)) = x
    BY <2>2, EmptyIsList, ParseSetBack
  <2>4. Cat(FormatSet(x), <<>>) = FormatSet(x)
    BY <2>1, SetIsList, CatEmpty
  <2>5. FormatValue(how, x) = FormatSet(x) /\ TakenAs(how) = "set"
    BY <1>3 DEF FormatValue, TakenAs
  <2> QED
    BY <2>3, <2>4, <2>5 DEF ParseValue
<1>4. CASE how \in {"quoted", "escaped"}
  <2>1. x \in Seq(STRING)
    BY <1>4 DEF IsSentValue, IsValue
  <2>2. IsList(x)
    BY <2>1 DEF IsList
  <2>3. TakenAs(how) = "quoted"
    BY <1>4 DEF TakenAs
  <2> QED
    BY <1>4, <2>2, <2>3, ValuesSurvive
<1>5. CASE how = "data"
  <2>1. TakenAs(how) = "data" /\ FormatValue(how, x) = FormatData(x)
    BY <1>5 DEF TakenAs, FormatValue
  <2>2. x \in [inFile : {FALSE}, of : Words] \/ \E i \in DOMAIN FileNames : x = FileRef(FileNames[i])
    BY <1>5 DEF IsSentValue, IsValue
  <2>3. CASE x \in [inFile : {FALSE}, of : Words]
    <3>1. ~x.inFile /\ x = [inFile |-> FALSE, of |-> x.of]
      BY <2>3
    <3>2. FormatData(x) = <<"x", QT, x.of, QT>>
      BY <3>1 DEF FormatData
    <3>3. ParseData(<<"x", QT, x.of, QT>>) = Inline(x.of)
      BY DEF ParseData
    <3> QED
      BY <2>1, <3>1, <3>2, <3>3 DEF ParseValue, Inline
  <2>4. ASSUME NEW i \in DOMAIN FileNames, x = FileRef(FileNames[i])
        PROVE  ParseValue(TakenAs(how), FormatValue(how, x)) = x
    <3>1. PICK f : f = FileNames[i]
      OBVIOUS
    <3>2. x.inFile /\ x.of = f /\ x = FileRef(f)
      BY <2>4, <3>1 DEF FileRef
    <3>3. FormatData(x) = <<"@file:", f>>
      BY <3>2 DEF FormatData
    <3>4. ParseData(<<"@file:", f>>) = FileRef(f)
      BY DEF ParseData
    <3> QED
      BY <2>1, <3>2, <3>3, <3>4 DEF ParseValue
  <2> QED
    BY <2>2, <2>3, <2>4
<1> QED
  BY <1>1, <1>2, <1>3, <1>4, <1>5 DEF Hows

-----------------------------------------------------------------------------
(* Lines.                                                                  *)

\* The line of an assignment between two quoted texts.
LEMMA SplitEmpty == \A c : Split(<<>>, c) = One(<<>>)
BY EmptyMentions, EmptyIsList, SplitIs DEF One

LEMMA SplitOnto ==
  ASSUME NEW a, NEW b, NEW c, IsList(a), IsList(b), ~Mentions(a, c),
         NEW u, u = Around(a, c, b), NEW r, r = Split(b, c)
  PROVE  Split(u, c) = Onto(a, r)
BY SplitFirst DEF Onto

\* Five pieces.
LEMMA FiveList ==
  ASSUME NEW a, NEW b, NEW c, NEW d, NEW e, NEW p,
         p = Onto(a, Onto(b, Onto(c, Onto(d, One(e)))))
  PROVE  IsList(p) /\ Len(p) = 5 /\ p[1] = a /\ p[2] = b /\ p[3] = c /\ p[4] = d
<1>1. PICK p0 : p0 = One(e) /\ IsList(p0) /\ Len(p0) = 1
  BY OneIs
<1>2. PICK p1 : p1 = Onto(d, p0)
  OBVIOUS
<1>3. IsList(p1) /\ Len(p1) = 1 + Len(p0) /\ p1[1] = d
  <2>1. IsList(p0)
    BY <1>1
  <2> QED
    BY <1>2, <2>1, OntoIs
<1>4. PICK p2 : p2 = Onto(c, p1)
  OBVIOUS
<1>5. IsList(p2) /\ Len(p2) = 1 + Len(p1) /\ p2[1] = c /\ \A j \in 1..Len(p1) : p2[1 + j] = p1[j]
  <2>1. IsList(p1)
    BY <1>3
  <2> QED
    BY <1>4, <2>1, OntoIs
<1>6. PICK p3 : p3 = Onto(b, p2)
  OBVIOUS
<1>7. IsList(p3) /\ Len(p3) = 1 + Len(p2) /\ p3[1] = b /\ \A j \in 1..Len(p2) : p3[1 + j] = p2[j]
  <2>1. IsList(p2)
    BY <1>5
  <2> QED
    BY <1>6, <2>1, OntoIs
<1>8. IsList(p) /\ Len(p) = 1 + Len(p3) /\ p[1] = a /\ \A j \in 1..Len(p3) : p[1 + j] = p3[j]
  <2>1. IsList(p3)
    BY <1>7
  <2>2. p = Onto(a, p3)
    BY <1>1, <1>2, <1>4, <1>6
  <2> QED
    BY <2>1, <2>2, OntoIs
<1>9. Len(p1) = 2 /\ Len(p2) = 3 /\ Len(p3) = 4 /\ Len(p) = 5
  BY <1>1, <1>3, <1>5, <1>7, <1>8
<1>10. p2[2] = d
  BY <1>3, <1>5, <1>9
<1>11. p3[2] = c /\ p3[3] = d
  BY <1>5, <1>7, <1>9, <1>10
<1>12. p[2] = b /\ p[3] = c /\ p[4] = d
  BY <1>7, <1>8, <1>9, <1>11
<1> QED
  BY <1>8, <1>9, <1>12

LEMMA AroundEmpty ==
  ASSUME NEW x, NEW b, IsList(b)
  PROVE  Around(<<>>, x, b) = Onto(x, b) /\ IsList(Onto(x, b))
<1>1. IsList(Onto(x, b))
  BY OntoIs
<1> QED
  BY <1>1, CatEmpty DEF Around, Onto

LEMMA AssignmentBack ==
  ASSUME NEW a, NEW b, IsList(a), IsList(b), ~Mentions(a, QT), ~Mentions(b, QT)
  PROVE  LET s == Cat(Quoted(a), Onto(SP, Onto("=", Onto(SP, Quoted(b)))))
         IN  /\ IsList(s) /\ s # <<>> /\ s[1] = QT /\ Tight(s)
             /\ IsAssignment(s) /\ ParseAssignment(s) = <<a, b>>
<1>1. PICK e : e = <<>> /\ IsList(e) /\ ~Mentions(e, QT) /\ Split(e, QT) = One(e)
  BY EmptyIsList, EmptyMentions, SplitEmpty
<1>2. PICK sp : sp = One(SP) /\ IsList(sp)
  BY OneIs
<1>3. PICK mid : mid = Onto(SP, Onto("=", One(SP)))
  OBVIOUS
<1>4. IsList(mid) /\ ~Mentions(mid, QT) /\ Trim(mid) = <<"=">>
  <2>1. IsList(Onto("=", sp)) /\ IsList(Onto(SP, Onto("=", sp)))
    BY <1>2, OntoIs
  <2>2. ~Mentions(sp, QT)
    <3>1. Len(sp) = 1 /\ sp[1] = SP /\ DOMAIN sp = 1..1
      BY <1>2, OneIs, ListFacts
    <3> QED
      BY <3>1, Tokens DEF Mentions
  <2>3. ~Mentions(Onto("=", sp), QT)
    BY <1>2, <2>2, Tokens, OntoMentions
  <2>4. ~Mentions(mid, QT)
    BY <1>2, <1>3, <2>1, <2>3, Tokens, OntoMentions
  <2>5. PICK eq : eq = One("=") /\ IsList(eq) /\ Len(eq) = 1 /\ eq[1] = "=" /\ eq # <<>> /\ eq = <<"=">>
    BY OneIs, EmptyIsList DEF One
  <2>6. mid = Cat(sp, Cat(eq, sp))
    BY <1>2, <1>3, <2>5 DEF Onto
  <2>7. Tight(eq)
    BY <2>5, Tokens DEF Tight
  <2>8. Trim(eq) = eq
    BY <2>5, <2>7, TrimTight
  <2>9. Trim(Cat(sp, Cat(eq, sp))) = Trim(eq)
    BY <1>2, <2>5, BlankOnes, TrimPads
  <2> QED
    BY <1>2, <1>3, <2>1, <2>4, <2>5, <2>6, <2>8, <2>9
<1>5. PICK t1 : t1 = Around(b, QT, e) /\ IsList(t1)
  BY <1>1, AroundIs
<1>6. PICK t2 : t2 = Around(mid, QT, t1) /\ IsList(t2)
  BY <1>4, <1>5, AroundIs
<1>7. PICK t3 : t3 = Around(a, QT, t2) /\ IsList(t3)
  BY <1>6, AroundIs
<1>8. PICK s : s = Around(e, QT, t3) /\ IsList(s) /\ s = Onto(QT, t3)
  BY <1>1, <1>7, AroundIs, AroundEmpty
<1>9. s = Cat(Quoted(a), Onto(SP, Onto("=", Onto(SP, Quoted(b)))))
  <2>1. PICK q : q = One(QT) /\ IsList(q)
    BY OneIs
  <2>2. Quoted(b) = Cat(q, t1) /\ IsList(Quoted(b))
    <3>1. Cat(q, e) = q
      BY <1>1, <2>1, CatEmpty
    <3>2. Quoted(b) = Cat(q, Cat(b, q))
      BY <2>1, QuotedIs DEF Onto
    <3>3. t1 = Cat(b, q)
      BY <1>5, <2>1, <3>1 DEF Around
    <3> QED
      BY <1>5, <2>1, <3>2, <3>3, CatIs
  <2>3. Onto(SP, Onto("=", Onto(SP, Quoted(b)))) = t2
    <3>1. PICK eq : eq = One("=") /\ IsList(eq)
      BY OneIs
    <3>2. mid = Cat(sp, Cat(eq, sp))
      BY <1>2, <1>3, <3>1 DEF Onto
    <3>3. t2 = Cat(mid, Quoted(b))
      BY <1>6, <2>1, <2>2 DEF Around
    <3>4. IsList(Cat(eq, sp))
      BY <1>2, <3>1, CatIs
    <3>5. Cat(mid, Quoted(b)) = Cat(sp, Cat(Cat(eq, sp), Quoted(b)))
      BY <1>2, <2>2, <3>2, <3>4, CatAssociates
    <3>6. Cat(Cat(eq, sp), Quoted(b)) = Cat(eq, Cat(sp, Quoted(b)))
      BY <1>2, <2>2, <3>1, CatAssociates
    <3> QED
      BY <1>2, <3>1, <3>3, <3>5, <3>6 DEF Onto
  <2>4. Quoted(a) = Cat(q, Cat(a, q))
    BY <2>1, QuotedIs DEF Onto
  <2>5. IsList(Cat(a, q))
    BY <2>1, CatIs
  <2>6. Cat(Cat(q, Cat(a, q)), t2) = Cat(q, Cat(Cat(a, q), t2))
    BY <1>6, <2>1, <2>5, CatAssociates
  <2>7. Cat(Cat(a, q), t2) = t3
    <3>1. Cat(Cat(a, q), t2) = Cat(a, Cat(q, t2))
      BY <1>6, <2>1, CatAssociates
    <3> QED
      BY <1>7, <2>1, <3>1 DEF Around
  <2> QED
    BY <1>8, <2>1, <2>3, <2>4, <2>6, <2>7 DEF Onto
<1>10. Split(t1, QT) = Onto(b, One(e))
  BY <1>1, <1>5, SplitOnto
<1>11. Split(t2, QT) = Onto(mid, Onto(b, One(e)))
  <2>1. IsList(mid) /\ ~Mentions(mid, QT)
    BY <1>4
  <2> QED
    BY <1>5, <1>6, <1>10, <2>1, SplitOnto
<1>12. Split(t3, QT) = Onto(a, Onto(mid, Onto(b, One(e))))
  BY <1>6, <1>7, <1>11, SplitOnto
<1>13. PICK p : p = Split(s, QT) /\ p = Onto(e, Onto(a, Onto(mid, Onto(b, One(e)))))
  BY <1>1, <1>7, <1>8, <1>12, SplitOnto
<1>18. Len(p) = 5 /\ p[1] = e /\ p[2] = a /\ p[3] = mid /\ p[4] = b
  BY <1>13, FiveList
<1>19. IsAssignment(s) /\ ParseAssignment(s) = <<a, b>>
  <2>1. Assignment(s) = p
    BY <1>13 DEF Assignment
  <2>2. Trim(p[3]) = <<"=">> /\ p[1] = <<>> /\ Len(p) >= 5
    BY <1>1, <1>4, <1>18
  <2>3. IsAssignment(s)
    BY <2>1, <2>2 DEF IsAssignment
  <2> QED
    BY <1>18, <2>1, <2>3 DEF ParseAssignment
<1>20. s # <<>> /\ s[1] = QT
  BY <1>7, <1>8, OntoIs
<1>21. Tight(s)
  <2>1. s[Len(s)] = QT
    <3>1. PICK q : q = One(QT) /\ IsList(q) /\ Len(q) = 1 /\ q[1] = QT
      BY OneIs
    <3>2. \E u : IsList(u) /\ s = Cat(u, q)
      <4>1. t1 = Cat(b, q)
        BY <1>1, <1>5, <3>1, CatEmpty DEF Around
      <4>2. PICK u2 : u2 = Cat(mid, Cat(q, b)) /\ IsList(u2) /\ t2 = Cat(u2, q)
        <5>1. IsList(Cat(q, b)) /\ IsList(Cat(mid, Cat(q, b)))
          BY <1>4, <3>1, CatIs
        <5>2. Cat(Cat(mid, Cat(q, b)), q) = Cat(mid, Cat(Cat(q, b), q))
          BY <1>4, <3>1, <5>1, CatAssociates
        <5>3. Cat(Cat(q, b), q) = Cat(q, Cat(b, q))
          BY <3>1, CatAssociates
        <5> QED
          BY <1>6, <3>1, <4>1, <5>1, <5>2, <5>3 DEF Around
      <4>3. PICK u3 : u3 = Cat(a, Cat(q, u2)) /\ IsList(u3) /\ t3 = Cat(u3, q)
        <5>1. IsList(Cat(q, u2)) /\ IsList(Cat(a, Cat(q, u2)))
          BY <3>1, <4>2, CatIs
        <5>2. Cat(Cat(a, Cat(q, u2)), q) = Cat(a, Cat(Cat(q, u2), q))
          BY <3>1, <4>2, <5>1, CatAssociates
        <5>3. Cat(Cat(q, u2), q) = Cat(q, Cat(u2, q))
          BY <3>1, <4>2, CatAssociates
        <5> QED
          BY <1>7, <3>1, <4>2, <5>1, <5>2, <5>3 DEF Around
      <4>4. Cat(Cat(q, u3), q) = Cat(q, Cat(u3, q)) /\ IsList(Cat(q, u3))
        BY <3>1, <4>3, CatAssociates, CatIs
      <4> QED
        BY <1>8, <3>1, <4>3, <4>4 DEF Onto
    <3>3. PICK u : IsList(u) /\ s = Cat(u, q)
      BY <3>2
    <3>4. Len(Cat(u, q)) = Len(u) + Len(q) /\ \A j \in 1..Len(q) : Cat(u, q)[Len(u) + j] = q[j]
      <4>1. IsList(u) /\ IsList(q)
        BY <3>1, <3>3
      <4> QED
        BY <4>1, CatIs
    <3>5. 1 \in 1..Len(q)
      BY <3>1
    <3> QED
      BY <3>1, <3>3, <3>4, <3>5
  <2> QED
    BY <1>8, <1>20, <2>1, Tokens DEF Tight
<1> QED
  BY <1>8, <1>9, <1>19, <1>20, <1>21

\* A text that ends in ink, behind one that begins with it.
LEMMA TightBehind ==
  ASSUME NEW a, NEW b, IsList(a), Tight(b), b # <<>>, a # <<>> => a[1] # SP
  PROVE  Tight(Cat(a, b)) /\ Cat(a, b) # <<>> /\ IsList(Cat(a, b))
<1>1. PICK m \in Nat, n \in Nat : m = Len(a) /\ n = Len(b) /\ IsList(b)
  BY ListFacts DEF Tight
<1>2. n # 0
  BY <1>1, EmptyIsList, ListsEqual
<1>3. PICK u : u = Cat(a, b)
  OBVIOUS
<1>4. /\ IsList(u) /\ Len(u) = m + n
      /\ (\A j \in 1..m : u[j] = a[j]) /\ (\A j \in 1..n : u[m + j] = b[j])
  <2>1. /\ IsList(u) /\ Len(u) = Len(a) + Len(b)
        /\ (\A j \in 1..Len(a) : u[j] = a[j]) /\ (\A j \in 1..Len(b) : u[Len(a) + j] = b[j])
    <3>1. IsList(b)
      BY <1>1
    <3> QED
      BY <1>3, <3>1, CatIs
  <2> QED
    BY <1>1, <2>1
<1>5. u[m + n] = b[n] /\ b[n] # SP
  <2>1. n \in 1..n
    BY <1>2
  <2> QED
    BY <1>1, <1>4, <2>1 DEF Tight
<1>6. u[1] # SP
  <2>1. CASE m = 0
    <3>1. 1 \in 1..n /\ m + 1 = 1
      BY <1>2, <2>1
    <3> QED
      BY <1>4, <3>1 DEF Tight
  <2>2. CASE m # 0
    <3>1. 1 \in 1..m /\ a # <<>>
      BY <1>1, <2>2, EmptyIsList
    <3> QED
      BY <1>4, <3>1
  <2> QED
    BY <2>1, <2>2
<1>7. u # <<>>
  BY <1>2, <1>4, EmptyIsList
<1> QED
  BY <1>3, <1>4, <1>5, <1>6, <1>7 DEF Tight

LEMMA OneMentions ==
  ASSUME NEW x, NEW c, x # c
  PROVE  ~Mentions(One(x), c)
<1>1. PICK y : y = One(x)
  OBVIOUS
<1>2. Len(y) = 1 /\ y[1] = x /\ DOMAIN y = 1..1
  BY <1>1, OneIs, ListFacts
<1> QED
  BY <1>1, <1>2 DEF Mentions

LEMMA OneTight ==
  ASSUME NEW x, x # SP
  PROVE  Tight(One(x)) /\ Trim(One(x)) = One(x) /\ One(x) # <<>>
<1>1. PICK y : y = One(x)
  OBVIOUS
<1>2. IsList(y) /\ Len(y) = 1 /\ y[1] = x /\ y # <<>>
  BY <1>1, OneIs, EmptyIsList
<1>3. Tight(y)
  BY <1>2 DEF Tight
<1> QED
  BY <1>1, <1>2, <1>3, TrimTight

\* A space in front of a text does not change what trim() leaves.
LEMMA TrimSpace ==
  ASSUME NEW s, IsList(s)
  PROVE  Trim(Onto(SP, s)) = Trim(s) /\ IsList(Onto(SP, s))
<1>1. Blank(One(SP)) /\ Blank(<<>>)
  BY BlankOnes
<1>2. Trim(Cat(One(SP), Cat(s, <<>>))) = Trim(s)
  BY <1>1, TrimPads
<1> QED
  BY <1>2, CatEmpty, OntoIs DEF Onto

\* "key: value".
Keyed(key, v) == Onto(key, Onto(":", Onto(SP, v)))

LEMMA KeyedLine ==
  ASSUME NEW key, key \notin {SP, ":"}, NEW v, Tight(v), v # <<>>
  PROVE  LET s == Keyed(key, v)
         IN  /\ IsList(s) /\ Tight(s) /\ s # <<>> /\ s[1] = key /\ Mentions(s, ":")
             /\ Trim(Upto(s, ":")) = One(key) /\ Trim(Beyond(s, ":")) = v
<1>1. PICK k : k = One(key) /\ IsList(k) /\ ~Mentions(k, ":") /\ Trim(k) = k
  BY OneIs, OneMentions, OneTight
<1>2. IsList(v)
  BY DEF Tight
<1>3. PICK t : t = Onto(SP, v) /\ IsList(t) /\ Trim(t) = v
  BY <1>2, TrimSpace, TrimTight
<1>4. PICK s : s = Keyed(key, v) /\ s = Around(k, ":", t)
  BY <1>1, <1>3 DEF Keyed, Around, Onto
<1>5. Mentions(s, ":") /\ Upto(s, ":") = k /\ Beyond(s, ":") = t
  BY <1>1, <1>3, <1>4, CutAt
<1>6. PICK r : r = Onto(":", t) /\ IsList(r) /\ s = Onto(key, r)
  BY <1>3, <1>4, OntoIs DEF Keyed
<1>7. IsList(s) /\ s # <<>> /\ s[1] = key
  BY <1>6, OntoIs
<1>8. Tight(s)
  <2>1. PICK a : a = Onto(key, Onto(":", One(SP)))
    OBVIOUS
  <2>2. IsList(a) /\ a[1] = key /\ a # <<>>
    <3>1. IsList(One(SP))
      BY OneIs
    <3>2. IsList(Onto(":", One(SP)))
      BY <3>1, OntoIs
    <3> QED
      BY <2>1, <3>2, OntoIs
  <2>3. s = Cat(a, v)
    <3>1. PICK b, c : b = One(":") /\ c = One(SP) /\ IsList(b) /\ IsList(c)
      BY OneIs
    <3>2. a = Cat(k, Cat(b, c)) /\ s = Cat(k, Cat(b, Cat(c, v))) /\ IsList(Cat(b, c))
      BY <1>1, <1>4, <2>1, <3>1, CatIs DEF Keyed, Onto
    <3>3. Cat(Cat(k, Cat(b, c)), v) = Cat(k, Cat(Cat(b, c), v))
      BY <1>1, <1>2, <3>2, CatAssociates
    <3>4. Cat(Cat(b, c), v) = Cat(b, Cat(c, v))
      BY <1>2, <3>1, CatAssociates
    <3> QED
      BY <3>2, <3>3, <3>4
  <2> QED
    BY <2>2, <2>3, TightBehind
<1> QED
  BY <1>1, <1>3, <1>4, <1>5, <1>7, <1>8

\* "op rest".
HeadOf(op, rest) == Onto(op, Onto(SP, rest))

LEMMA HeadLine ==
  ASSUME NEW op, op # SP, NEW rest, IsList(rest)
  PROVE  LET s == Trim(HeadOf(op, rest))
         IN  /\ IsList(HeadOf(op, rest)) /\ HeadOf(op, rest)[1] = op /\ HeadOf(op, rest) # <<>>
             /\ IsList(s) /\ s # <<>> /\ s[1] = op /\ Upto(s, SP) = <<op>>
             /\ Trim(Beyond(s, SP)) = Trim(rest)
<1>1. PICK o : o = One(op) /\ IsList(o) /\ ~Mentions(o, SP) /\ Trim(o) = o /\ Tight(o) /\ o # <<>> /\ o[1] = op
  BY OneIs, OneMentions, OneTight
<1>2. PICK p, q, T : Blank(p) /\ Blank(q) /\ T = Trim(rest) /\ Tight(T) /\ IsList(T) /\ rest = Cat(p, Cat(T, q))
  BY TrimDecomposes
<1>3. IsList(p) /\ IsList(q) /\ IsList(Cat(T, q))
  BY <1>2, CatIs DEF Blank
<1>4. PICK sp : sp = One(SP) /\ IsList(sp) /\ Blank(sp)
  BY OneIs, BlankOnes
<1>5. PICK h : h = HeadOf(op, rest) /\ h = Cat(o, Cat(sp, rest)) /\ IsList(h) /\ h[1] = op /\ h # <<>>
  <2>1. IsList(Onto(SP, rest))
    BY OntoIs
  <2> QED
    BY <1>1, <1>4, <2>1, OntoIs DEF HeadOf, Onto
<1>6. CASE T = <<>>
  <2>1. Blank(Cat(sp, rest))
    <3>1. rest = Cat(p, q)
      BY <1>2, <1>3, <1>6, CatEmpty
    <3> QED
      BY <1>2, <1>4, <3>1, BlankCat
  <2>2. Trim(Cat(<<>>, Cat(o, Cat(sp, rest)))) = Trim(o)
    BY <1>1, <2>1, BlankOnes, TrimPads
  <2>3. Trim(h) = o
    BY <1>1, <1>5, <2>2, CatEmpty
  <2>4. Upto(o, SP) = o /\ Beyond(o, SP) = <<>>
    BY <1>1 DEF Upto, Beyond
  <2>5. Trim(<<>>) = <<>>
    BY BlankOnes, TrimBlank
  <2> QED
    BY <1>1, <1>2, <1>5, <1>6, <2>3, <2>4, <2>5 DEF One
<1>7. CASE T # <<>>
  <2>1. PICK r : r = Cat(p, T) /\ IsList(r)
    BY <1>2, <1>3, CatIs
  <2>2. PICK a : a = Cat(o, Cat(sp, p)) /\ IsList(a)
    <3>1. IsList(Cat(sp, p))
      BY <1>3, <1>4, CatIs
    <3> QED
      BY <1>1, <3>1, CatIs
  <2>3. a # <<>> /\ a[1] = op
    <3>1. IsList(Cat(sp, p)) /\ a = Onto(op, Cat(sp, p))
      BY <1>1, <1>3, <1>4, <2>2, CatIs DEF Onto
    <3> QED
      BY <3>1, OntoIs
  <2>4. PICK s : s = Cat(a, T) /\ Tight(s) /\ IsList(s) /\ s # <<>>
    BY <1>2, <1>7, <2>2, <2>3, TightBehind
  <2>5. s = Around(o, SP, r)
    <3>1. IsList(Cat(sp, p))
      BY <1>3, <1>4, CatIs
    <3>2. Cat(Cat(o, Cat(sp, p)), T) = Cat(o, Cat(Cat(sp, p), T))
      BY <1>1, <1>2, <3>1, CatAssociates
    <3>3. Cat(Cat(sp, p), T) = Cat(sp, Cat(p, T))
      BY <1>2, <1>3, <1>4, CatAssociates
    <3> QED
      BY <1>4, <2>1, <2>2, <2>4, <3>2, <3>3 DEF Around
  <2>6. h = Cat(s, q)
    <3>1. Cat(Cat(a, T), q) = Cat(a, Cat(T, q))
      BY <1>2, <1>3, <2>2, CatAssociates
    <3>2. IsList(Cat(sp, p))
      BY <1>3, <1>4, CatIs
    <3>3. Cat(Cat(o, Cat(sp, p)), Cat(T, q)) = Cat(o, Cat(Cat(sp, p), Cat(T, q)))
      BY <1>1, <1>3, <3>2, CatAssociates
    <3>4. Cat(Cat(sp, p), Cat(T, q)) = Cat(sp, Cat(p, Cat(T, q)))
      BY <1>3, <1>4, CatAssociates
    <3> QED
      BY <1>2, <1>5, <2>2, <2>4, <3>1, <3>3, <3>4
  <2>7. Trim(h) = s
    <3>1. Trim(Cat(<<>>, Cat(s, q))) = Trim(s)
      BY <1>2, <2>4, BlankOnes, TrimPads
    <3>2. IsList(Cat(s, q))
      BY <1>3, <2>4, CatIs
    <3> QED
      BY <2>4, <2>6, <3>1, <3>2, CatEmpty, TrimTight
  <2>8. Upto(s, SP) = o /\ Beyond(s, SP) = r
    BY <1>1, <2>1, <2>5, CutAt
  <2>9. Trim(r) = T
    <3>1. Trim(Cat(p, Cat(T, <<>>))) = Trim(T)
      BY <1>2, BlankOnes, TrimPads
    <3> QED
      BY <1>2, <2>1, <3>1, CatEmpty, TrimTight
  <2>10. s[1] = op
    <3>1. IsList(r) /\ IsList(Cat(sp, r)) /\ s = Onto(op, Cat(sp, r))
      BY <1>1, <1>4, <2>1, <2>5, CatIs DEF Around, Onto
    <3> QED
      BY <3>1, OntoIs
  <2> QED
    BY <1>1, <1>2, <1>5, <2>4, <2>7, <2>8, <2>9, <2>10 DEF One
<1> QED
  BY <1>6, <1>7

LEMMA BareHead ==
  ASSUME NEW op, op # SP
  PROVE  LET s == Trim(One(op))
         IN  /\ IsList(One(op)) /\ One(op) # <<>> /\ One(op)[1] = op
             /\ IsList(s) /\ s # <<>> /\ s[1] = op /\ Upto(s, SP) = <<op>>
             /\ Trim(Beyond(s, SP)) = <<>>
<1>1. PICK o : o = One(op) /\ IsList(o) /\ ~Mentions(o, SP) /\ Trim(o) = o /\ o # <<>> /\ o[1] = op
  BY OneIs, OneMentions, OneTight
<1>2. Upto(o, SP) = o /\ Beyond(o, SP) = <<>>
  BY <1>1 DEF Upto, Beyond
<1>3. Trim(<<>>) = <<>>
  BY BlankOnes, TrimBlank
<1> QED
  BY <1>1, <1>2, <1>3 DEF One

-----------------------------------------------------------------------------
(* The line of the operation.                                              *)

PathHeads == {"SinglePath", "AddBuildLog", "QuerySubstitutablePathInfo"}
ValueHeads == {"SingleString", "RegisterDrvOutput", "QueryRealisation"}
SetHeads == {"PathSet", "QuerySubstitutablePathInfos"}
BareHeads == {"NoArgs", "RawBytes", "SetOptions", "AddToStore", "AddMultipleToStore",
              "CollectGarbage", "VerifyStore", "AddTextToStore"}

\* What the parser makes of it depends on the variant of the operation.
HeadReads(op, v) ==
  \/ v \in PathHeads /\ \A a : ParseHead(op, a) = [path |-> a]
  \/ v \in ValueHeads /\ \A a : ParseHead(op, a) = [value |-> a]
  \/ v \in SetHeads /\ \A a : ParseHead(op, a) = [paths |-> ParseSet(a)]
  \/ /\ v = "PathSetFlag"
     /\ \A a : ParseHead(op, a) =
                 [paths |-> ParseSet(a), substitute |-> BehindSet(a) = <<"substitute">>]
  \/ /\ v = "PathSetMode"
     /\ \A a : ParseHead(op, a) =
                 [paths |-> ParseSet(a),
                  mode |-> IF BehindSet(a) = <<>> THEN "normal" ELSE BehindSet(a)[1]]
  \/ /\ v = "AddPermRoot"
     /\ \A a : ParseHead(op, a) = [path |-> Upto(a, SP), gc_root |-> Beyond(a, SP)]
  \/ /\ v = "AddSignatures"
     /\ \A a : ParseHead(op, a) =
                 [path |-> Upto(a, SP), sigs |-> ParseSet(Trim(Beyond(a, SP)))]
  \/ v \in BareHeads /\ \A a : ParseHead(op, a) = <<>>

Special == {"AddBuildLog", "QuerySubstitutablePathInfo", "RegisterDrvOutput", "QueryRealisation",
            "AddPermRoot", "AddSignatures", "QueryValidPaths", "BuildPaths", "BuildPathsWithResults",
            "QuerySubstitutablePaths", "QueryMissing", "QuerySubstitutablePathInfos", "Unknown",
            "AddToStore"}
\* No operation is of two kinds.
LEMMA KindsDisjoint ==
  /\ \A op \in PathOps : op \notin StringOps \cup NoArgOps \cup ComplexOps \cup SetOps \cup Special
  /\ \A op \in StringOps : op \notin PathOps \cup NoArgOps \cup ComplexOps \cup SetOps \cup Special
  /\ \A op \in NoArgOps : op \notin PathOps \cup StringOps \cup ComplexOps \cup SetOps \cup Special
  /\ \A op \in ComplexOps : op \notin PathOps \cup StringOps \cup NoArgOps \cup SetOps \cup Special
  /\ \A op \in Special \cup SetOps : op \notin PathOps \cup StringOps \cup NoArgOps \cup ComplexOps
<1>1. \A op \in PathOps : op \notin StringOps \cup NoArgOps \cup ComplexOps \cup SetOps \cup Special
  BY DEF PathOps, StringOps, NoArgOps, ComplexOps, SetOps, Special
<1>2. \A op \in StringOps : op \notin PathOps \cup NoArgOps \cup ComplexOps \cup SetOps \cup Special
  BY DEF PathOps, StringOps, NoArgOps, ComplexOps, SetOps, Special
<1>3. \A op \in NoArgOps : op \notin PathOps \cup StringOps \cup ComplexOps \cup SetOps \cup Special
  BY DEF PathOps, StringOps, NoArgOps, ComplexOps, SetOps, Special
<1>4. \A op \in ComplexOps : op \notin PathOps \cup StringOps \cup NoArgOps \cup SetOps \cup Special
  BY DEF PathOps, StringOps, NoArgOps, ComplexOps, SetOps, Special
<1> QED
  BY <1>1, <1>2, <1>3, <1>4

LEMMA HeadClasses ==
  ASSUME NEW op \in Ops
  PROVE  HeadReads(op, ParseVariant(op))
<1>1. CASE op \in PathOps
  <2>1. op \notin StringOps \cup NoArgOps \cup ComplexOps \cup SetOps \cup Special
    BY <1>1, KindsDisjoint
  <2>2. ParseVariant(op) = "SinglePath"
    BY <1>1, <2>1 DEF ParseVariant, Special
  <2>3. ASSUME NEW a
        PROVE  ParseHead(op, a) = [path |-> a]
    BY <1>1, <2>1 DEF ParseHead, Special
  <2> QED
    BY <2>2, <2>3 DEF HeadReads, PathHeads
<1>2. CASE op \in StringOps
  <2>1. op \notin PathOps \cup NoArgOps \cup ComplexOps \cup SetOps \cup Special
    BY <1>2, KindsDisjoint
  <2>2. ParseVariant(op) = "SingleString"
    BY <1>2, <2>1 DEF ParseVariant, Special
  <2>3. ASSUME NEW a
        PROVE  ParseHead(op, a) = [value |-> a]
    BY <1>2, <2>1 DEF ParseHead, Special
  <2> QED
    BY <2>2, <2>3 DEF HeadReads, ValueHeads
<1>3. CASE op \in NoArgOps \cup ComplexOps
  <2>1. /\ op \in {"SyncWithGC", "FindRoots", "QueryAllValidPaths", "OptimiseStore",
                   "BuildDerivation", "AddToStoreNar"}
    BY <1>3 DEF ComplexOps, NoArgOps
  <2>2. /\ op \notin PathOps \cup {"AddBuildLog", "QuerySubstitutablePathInfo"}
        /\ op \notin StringOps \cup {"RegisterDrvOutput", "QueryRealisation"}
        /\ op \notin SetOps \cup {"AddPermRoot", "AddSignatures"}
    BY <2>1 DEF PathOps, StringOps, SetOps
  <2>3. op # "QueryValidPaths" /\ op \notin {"BuildPaths", "BuildPathsWithResults"}
    BY <2>1
  <2>4. \A a : ParseHead(op, a) = <<>>
    BY <2>2, <2>3 DEF ParseHead, SetOps
  <2>5. ParseVariant(op) \in {"NoArgs", "RawBytes"}
    <3>1. CASE op \in ComplexOps
      <4>1. op \notin PathOps \cup StringOps \cup NoArgOps \cup SetOps \cup Special
        BY <3>1, KindsDisjoint
      <4> QED
        BY <3>1, <4>1 DEF ParseVariant, Special
    <3>2. CASE op \notin ComplexOps
      <4>1. op \in NoArgOps
        BY <1>3, <3>2
      <4>2. op \notin PathOps \cup StringOps \cup SetOps \cup Special
        BY <4>1, KindsDisjoint
      <4> QED
        BY <3>2, <4>1, <4>2 DEF ParseVariant, Special
    <3> QED
      BY <3>1, <3>2
  <2> QED
    BY <2>4, <2>5 DEF HeadReads, BareHeads
<1>4. CASE op \in OtherOps
  <2>1. op \notin ComplexOps /\ op \notin PathOps /\ op \notin StringOps /\ op \notin NoArgOps
    BY <1>4 DEF PathOps, ComplexOps, StringOps, NoArgOps, OtherOps
  <2>2. CASE op = "QueryValidPaths"
    <3>1. ParseVariant(op) = "PathSetFlag"
      BY <2>1, <2>2 DEF ParseVariant
    <3>2. ASSUME NEW a
          PROVE  ParseHead(op, a) =
                   [paths |-> ParseSet(a), substitute |-> BehindSet(a) = <<"substitute">>]
      BY <2>1, <2>2 DEF ParseHead, SetOps
    <3> QED
      BY <3>1, <3>2 DEF HeadReads
  <2>3. CASE op \in {"BuildPaths", "BuildPathsWithResults"}
    <3>1. ParseVariant(op) = "PathSetMode"
      BY <2>1, <2>3 DEF ParseVariant
    <3>2. ASSUME NEW a
          PROVE  ParseHead(op, a) =
                 [paths |-> ParseSet(a),
                  mode |-> IF BehindSet(a) = <<>> THEN "normal" ELSE BehindSet(a)[1]]
      BY <2>1, <2>3 DEF ParseHead, SetOps
    <3> QED
      BY <3>1, <3>2 DEF HeadReads
  <2>4. CASE op \in {"QuerySubstitutablePaths", "QueryMissing", "QuerySubstitutablePathInfos"}
    <3>1. ParseVariant(op) \in {"PathSet", "QuerySubstitutablePathInfos"}
      BY <2>1, <2>4 DEF ParseVariant
    <3>2. ASSUME NEW a
          PROVE  ParseHead(op, a) = [paths |-> ParseSet(a)]
      BY <2>1, <2>4 DEF ParseHead
    <3> QED
      BY <3>1, <3>2 DEF HeadReads, SetHeads
  <2>5. CASE op \in {"AddBuildLog", "QuerySubstitutablePathInfo"}
    <3>1. ParseVariant(op) \in {"AddBuildLog", "QuerySubstitutablePathInfo"}
      BY <2>1, <2>5 DEF ParseVariant
    <3>2. ASSUME NEW a
          PROVE  ParseHead(op, a) = [path |-> a]
      BY <2>1, <2>5 DEF ParseHead, SetOps
    <3> QED
      BY <3>1, <3>2 DEF HeadReads, PathHeads
  <2>6. CASE op \in {"RegisterDrvOutput", "QueryRealisation"}
    <3>1. ParseVariant(op) \in {"RegisterDrvOutput", "QueryRealisation"}
      BY <2>1, <2>6 DEF ParseVariant
    <3>2. ASSUME NEW a
          PROVE  ParseHead(op, a) = [value |-> a]
      BY <2>1, <2>6 DEF ParseHead, SetOps
    <3> QED
      BY <3>1, <3>2 DEF HeadReads, ValueHeads
  <2>7. CASE op = "AddPermRoot"
    <3>1. ParseVariant(op) = "AddPermRoot"
      BY <2>1, <2>7 DEF ParseVariant
    <3>2. ASSUME NEW a
          PROVE  ParseHead(op, a) = [path |-> Upto(a, SP), gc_root |-> Beyond(a, SP)]
      BY <2>1, <2>7 DEF ParseHead, SetOps
    <3> QED
      BY <3>1, <3>2 DEF HeadReads
  <2>8. CASE op = "AddSignatures"
    <3>1. ParseVariant(op) = "AddSignatures"
      BY <2>1, <2>8 DEF ParseVariant
    <3>2. ASSUME NEW a
          PROVE  ParseHead(op, a) = [path |-> Upto(a, SP), sigs |-> ParseSet(Trim(Beyond(a, SP)))]
      BY <2>1, <2>8 DEF ParseHead, SetOps
    <3> QED
      BY <3>1, <3>2 DEF HeadReads
  <2>9. CASE op \in {"SetOptions", "AddToStore", "AddMultipleToStore", "CollectGarbage",
                     "VerifyStore", "AddTextToStore"}
    <3>1. ParseVariant(op) \in BareHeads
      BY <2>1, <2>9 DEF ParseVariant, BareHeads
    <3>2. /\ op \notin {"AddBuildLog", "QuerySubstitutablePathInfo", "RegisterDrvOutput",
                        "QueryRealisation", "QueryValidPaths", "BuildPaths",
                        "BuildPathsWithResults", "AddPermRoot", "AddSignatures"}
          /\ op \notin SetOps
      BY <2>9 DEF SetOps
    <3>3. ASSUME NEW a
          PROVE  ParseHead(op, a) = <<>>
      BY <2>1, <3>2 DEF ParseHead, SetOps
    <3> QED
      BY <3>1, <3>3 DEF HeadReads
  <2> QED
    BY <1>4, <2>2, <2>3, <2>4, <2>5, <2>6, <2>7, <2>8, <2>9 DEF OtherOps
<1> QED
  BY <1>1, <1>2, <1>3, <1>4 DEF Ops

\* Calls are kept raw, or as what the parser makes of their operation.
LEMMA VariantCases ==
  ASSUME NEW op \in Ops \cup {"Unknown"}, NEW v
  PROVE  ReadVariant(op, v) = "RawBytes" \/ (op \in Ops /\ ReadVariant(op, v) = ParseVariant(op))
<1>0. /\ op \in Special => op \notin PathOps \cup StringOps \cup NoArgOps \cup ComplexOps
      /\ op \in ComplexOps => op \notin PathOps \cup StringOps \cup NoArgOps \cup Special
      /\ \A x \in {"Unknown", "AddToStore", "QueryValidPaths", "BuildPaths", "BuildPathsWithResults",
                   "QuerySubstitutablePaths", "QueryMissing"} : x \in Special
  BY KindsDisjoint DEF Special
<1>1. CASE op = "Unknown" \/ ReadsRaw(op, v)
  <2>1. CASE op = "Unknown"
    BY <2>1, <1>0 DEF ReadVariant
  <2>2. CASE op # "Unknown" /\ ReadsRaw(op, v)
    BY <2>2, <1>0 DEF ReadVariant, ReadsRaw
  <2> QED
    BY <1>1, <2>1, <2>2
<1>2. CASE op # "Unknown" /\ ~ReadsRaw(op, v)
  <2>1. op \in Ops /\ op \notin ComplexOps
    BY <1>2 DEF ReadsRaw
  <2>2. CASE op \in PathOps
    BY <1>2, <2>1, <2>2 DEF ReadVariant, ParseVariant
  <2>3. CASE op \notin PathOps /\ op \in StringOps
    BY <1>2, <2>1, <2>3 DEF ReadVariant, ParseVariant
  <2>4. CASE op \notin PathOps /\ op \notin StringOps /\ op \in NoArgOps
    BY <1>2, <2>1, <2>4 DEF ReadVariant, ParseVariant
  <2>5. CASE op \notin PathOps /\ op \notin StringOps /\ op \notin NoArgOps
    BY <1>2, <2>1, <2>5 DEF ReadVariant, ParseVariant
  <2> QED
    BY <2>2, <2>3, <2>4, <2>5
<1> QED
  BY <1>1, <1>2
\* The keys it has.
HeadTable(v, keys) ==
  \/ v \in PathHeads /\ keys = {"path"}
  \/ v \in ValueHeads /\ keys = {"value"}
  \/ v \in SetHeads /\ keys = {"paths"}
  \/ v = "PathSetFlag" /\ keys = {"paths", "substitute"}
  \/ v = "PathSetMode" /\ keys = {"paths", "mode"}
  \/ v = "AddPermRoot" /\ keys = {"path", "gc_root"}
  \/ v = "AddSignatures" /\ keys = {"path", "sigs"}
  \/ v \in BareHeads /\ keys = {}

LEMMA HeadKeysAre ==
  ASSUME NEW op \in Ops
  PROVE  HeadTable(ParseVariant(op), HeadKeys(op))
<1> SUFFICES ASSUME NEW v, v = ParseVariant(op)
             PROVE  HeadTable(v, HeadKeys(op))
  OBVIOUS
<1>0. HeadReads(op, v)
  BY HeadClasses
<1>1. CASE v \in PathHeads /\ \A a : ParseHead(op, a) = [path |-> a]
  <2>1. HeadKeys(op) = {"path"}
    BY <1>1 DEF HeadKeys
  <2> QED
    BY <1>1, <2>1 DEF HeadTable
<1>2. CASE v \in ValueHeads /\ \A a : ParseHead(op, a) = [value |-> a]
  <2>1. HeadKeys(op) = {"value"}
    BY <1>2 DEF HeadKeys
  <2> QED
    BY <1>2, <2>1 DEF HeadTable
<1>3. CASE v \in SetHeads /\ \A a : ParseHead(op, a) = [paths |-> ParseSet(a)]
  <2>1. HeadKeys(op) = {"paths"}
    BY <1>3 DEF HeadKeys
  <2> QED
    BY <1>3, <2>1 DEF HeadTable
<1>4. CASE /\ v = "PathSetFlag"
           /\ \A a : ParseHead(op, a) =
                 [paths |-> ParseSet(a), substitute |-> BehindSet(a) = <<"substitute">>]
  <2>1. ParseHead(op, <<>>) = [paths |-> ParseSet(<<>>), substitute |-> BehindSet(<<>>) = <<"substitute">>]
    BY <1>4
  <2>2. DOMAIN ParseHead(op, <<>>) = {"paths", "substitute"}
    BY <2>1
  <2> QED
    BY <1>4, <2>2 DEF HeadTable, HeadKeys
<1>5. CASE /\ v = "PathSetMode"
           /\ \A a : ParseHead(op, a) =
                 [paths |-> ParseSet(a),
                  mode |-> IF BehindSet(a) = <<>> THEN "normal" ELSE BehindSet(a)[1]]
  <2>1. ParseHead(op, <<>>) = [paths |-> ParseSet(<<>>),
                  mode |-> IF BehindSet(<<>>) = <<>> THEN "normal" ELSE BehindSet(<<>>)[1]]
    BY <1>5
  <2>2. DOMAIN ParseHead(op, <<>>) = {"paths", "mode"}
    BY <2>1
  <2> QED
    BY <1>5, <2>2 DEF HeadTable, HeadKeys
<1>6. CASE /\ v = "AddPermRoot"
           /\ \A a : ParseHead(op, a) = [path |-> Upto(a, SP), gc_root |-> Beyond(a, SP)]
  <2>1. HeadKeys(op) = {"path", "gc_root"}
    BY <1>6 DEF HeadKeys
  <2> QED
    BY <1>6, <2>1 DEF HeadTable
<1>7. CASE /\ v = "AddSignatures"
           /\ \A a : ParseHead(op, a) = [path |-> Upto(a, SP), sigs |-> ParseSet(Trim(Beyond(a, SP)))]
  <2>1. HeadKeys(op) = {"path", "sigs"}
    BY <1>7 DEF HeadKeys
  <2> QED
    BY <1>7, <2>1 DEF HeadTable
<1>8. CASE v \in BareHeads /\ \A a : ParseHead(op, a) = <<>>
  <2>1. HeadKeys(op) = {}
    BY <1>8 DEF HeadKeys
  <2> QED
    BY <1>8, <2>1 DEF HeadTable
<1> QED
  BY <1>0, <1>1, <1>2, <1>3, <1>4, <1>5, <1>6, <1>7, <1>8 DEF HeadReads

-----------------------------------------------------------------------------
(* The lines of a call.                                                    *)

\* A call as it is written: its values have their types, its data may be in a file.
KeyOf(c, i) == FormatKeys(c.variant)[i][1]
HowOf(c, i) == FormatKeys(c.variant)[i][2]
ValueOf(c, i) == c.args[KeyOf(c, i)]
Fields(c) == Len(FormatKeys(c.variant))
IsSentCall(c) ==
  /\ c.op \in Ops /\ c.variant = ParseVariant(c.op)
  /\ DOMAIN c.args = HeadKeys(c.op) \cup DOMAIN ParseKeys(c.op)
  /\ \A key \in HeadKeys(c.op) : IsHeadValue(key, c.args[key])
  /\ \A i \in 1..Fields(c) : IsSentValue(HowOf(c, i), ValueOf(c, i))
IsRawCall(c) == c.op \in Ops \cup {"Unknown"} /\ c.variant = "RawBytes"

LEMMA StringsAreList ==
  /\ \A S, s : s \in Seq(S) => IsList(s)
  /\ \A S, s : s \in Seq(Seq(S)) => IsLines(s)
BY TypedAreLines DEF IsList

\* The operation's own line.
LEMMA HeadIsList ==
  ASSUME NEW c, IsSentCall(c) \/ IsRawCall(c)
  PROVE  IsList(FormatHead(c))
<1>0. CASE c.variant \in BareHeads
  <2>1. FormatHead(c) = <<>>
    BY <1>0 DEF FormatHead, BareHeads
  <2> QED
    BY <2>1, EmptyIsList
<1>1. CASE ~(c.variant \in BareHeads)
  <2>1. /\ HeadTable(c.variant, HeadKeys(c.op))
        /\ \A key \in HeadKeys(c.op) : IsHeadValue(key, c.args[key])
    <3>1. IsSentCall(c)
      BY <1>1 DEF IsRawCall, BareHeads
    <3> QED
      BY <3>1, HeadKeysAre DEF IsSentCall
  <2> DEFINE a == c.args
  <2>0. IsList(<<SP>>)
    BY TuplesAreLists
  <2>2. CASE c.variant \in PathHeads
    <3>2. "path" \in HeadKeys(c.op)
      BY <2>1, <2>2 DEF HeadTable, PathHeads, ValueHeads, SetHeads, BareHeads
    <3>3. IsList(a.path)
      BY <2>1, <3>2, StringsAreList DEF IsHeadValue
    <3>4. FormatHead(c) = <<SP>> \o a.path
      BY <2>2 DEF FormatHead, PathHeads
    <3> QED
      BY <2>0, <3>3, <3>4, ListConcat
  <2>3. CASE c.variant \in ValueHeads
    <3>2. "value" \in HeadKeys(c.op)
      BY <2>1, <2>3 DEF HeadTable, PathHeads, ValueHeads, SetHeads, BareHeads
    <3>3. IsList(a.value)
      BY <2>1, <3>2, StringsAreList DEF IsHeadValue
    <3>4. FormatHead(c) = <<SP>> \o a.value
      BY <2>3 DEF FormatHead, ValueHeads
    <3> QED
      BY <2>0, <3>3, <3>4, ListConcat
  <2>4. CASE c.variant \in SetHeads
    <3>2. "paths" \in HeadKeys(c.op)
      BY <2>1, <2>4 DEF HeadTable, PathHeads, ValueHeads, SetHeads, BareHeads
    <3>3. IsList(FormatSet(a.paths))
      <4>1. IsLines(a.paths)
        BY <2>1, <3>2, StringsAreList DEF IsHeadValue
      <4> QED
        BY <4>1, SetIsList
    <3>4. FormatHead(c) = <<SP>> \o FormatSet(a.paths)
      BY <2>4 DEF FormatHead, SetHeads
    <3> QED
      BY <2>0, <3>3, <3>4, ListConcat
  <2>5. CASE c.variant \in {"PathSetFlag", "PathSetMode"}
    <3>2. "paths" \in HeadKeys(c.op)
      BY <2>1, <2>5 DEF HeadTable, PathHeads, ValueHeads, SetHeads, BareHeads
    <3>3. IsList(FormatSet(a.paths))
      <4>1. IsLines(a.paths)
        BY <2>1, <3>2, StringsAreList DEF IsHeadValue
      <4> QED
        BY <4>1, SetIsList
    <3>4. CASE c.variant = "PathSetFlag"
      <4> DEFINE flag == IF a.substitute THEN <<SP, "substitute">> ELSE <<>>
      <4>1. FormatHead(c) = (<<SP>> \o FormatSet(a.paths)) \o flag
        BY <3>4 DEF FormatHead
      <4>2. IsList(flag)
        BY TupleLengths, EmptyIsList
      <4> HIDE DEF flag
      <4>3. IsList(<<SP>> \o FormatSet(a.paths))
        BY <2>0, <3>3, ListConcat
      <4> QED
        BY <4>1, <4>2, <4>3, ListConcat
    <3>5. CASE c.variant = "PathSetMode"
      <4> DEFINE mode == <<SP, a.mode>>
      <4>1. FormatHead(c) = (<<SP>> \o FormatSet(a.paths)) \o mode
        BY <3>5 DEF FormatHead
      <4>2. IsList(mode)
        BY TupleLengths
      <4> HIDE DEF mode
      <4>3. IsList(<<SP>> \o FormatSet(a.paths))
        BY <2>0, <3>3, ListConcat
      <4> QED
        BY <4>1, <4>2, <4>3, ListConcat
    <3> QED
      BY <2>5, <3>4, <3>5
  <2>6. CASE c.variant = "AddPermRoot"
    <3>2. "path" \in HeadKeys(c.op) /\ "gc_root" \in HeadKeys(c.op)
      BY <2>1, <2>6 DEF HeadTable, PathHeads, ValueHeads, SetHeads, BareHeads
    <3>3. IsList(a.path) /\ IsList(a.gc_root)
      BY <2>1, <3>2, StringsAreList DEF IsHeadValue
    <3>4. FormatHead(c) = ((<<SP>> \o a.path) \o <<SP>>) \o a.gc_root
      BY <2>6 DEF FormatHead
    <3> QED
      BY <2>0, <3>3, <3>4, ListConcat
  <2>7. CASE c.variant = "AddSignatures"
    <3>2. "path" \in HeadKeys(c.op) /\ "sigs" \in HeadKeys(c.op)
      BY <2>1, <2>7 DEF HeadTable, PathHeads, ValueHeads, SetHeads, BareHeads
    <3>3. IsList(a.path) /\ IsLines(a.sigs)
      BY <2>1, <3>2, StringsAreList DEF IsHeadValue
    <3>5. IsList(FormatSet(a.sigs))
      BY <3>3, SetIsList
    <3>4. FormatHead(c) = ((<<SP>> \o a.path) \o <<SP>>) \o FormatSet(a.sigs)
      BY <2>7 DEF FormatHead
    <3> QED
      BY <2>0, <3>3, <3>4, <3>5, ListConcat
  <2> QED
    BY <1>1, <2>1, <2>2, <2>3, <2>4, <2>5, <2>6, <2>7 DEF HeadTable
<1> QED
  BY <1>0, <1>1

\* The lines of a field: that of its key, and one for each of a list of assignments.
FieldLine(key, how, x) == Onto(SP, Onto(SP, Keyed(key, FormatValue(how, x))))
AssignLine(p) ==
  Onto(SP, Onto(SP, Onto(SP, Onto(SP, Cat(Quoted(p[1]), Onto(SP, Onto("=", Onto(SP, Quoted(p[2])))))))))

LEMMA QuotedIsList ==
  ASSUME NEW s, IsList(s)
  PROVE  IsList(Quoted(s))
<1>1. IsList(Cat(s, One(QT)))
  BY OneIs, CatIs
<1> QED
  BY <1>1, QuotedIs, OntoIs

LEMMA FieldLineIs ==
  ASSUME NEW key, NEW how \in Hows, NEW x, IsSentValue(how, x)
  PROVE  /\ <<SP, SP, key, ":", SP>> \o FormatValue(how, x) = FieldLine(key, how, x)
         /\ IsList(FieldLine(key, how, x))
<1>1. PICK v : v = FormatValue(how, x)
  OBVIOUS
<1>2. IsList(v)
  BY <1>1, ValueIsList
<1>3. /\ <<SP, SP, key, ":", SP>> \o v = Onto(SP, Onto(SP, Onto(key, Onto(":", Onto(SP, v)))))
      /\ IsList(Onto(SP, Onto(SP, Onto(key, Onto(":", Onto(SP, v))))))
  BY <1>2, FiveOnto
<1>4. FieldLine(key, how, x) = Onto(SP, Onto(SP, Onto(key, Onto(":", Onto(SP, v)))))
  BY <1>1 DEF FieldLine, Keyed
<1> QED
  BY <1>1, <1>3, <1>4

LEMMA AssignLineIs ==
  ASSUME NEW a, NEW b, IsList(a), IsList(b), NEW p, p[1] = a, p[2] = b
  PROVE  /\ <<SP, SP, SP, SP>> \o Quoted(p[1]) \o <<SP, "=", SP>> \o Quoted(p[2]) = AssignLine(p)
         /\ IsList(AssignLine(p))
<1>1. PICK qa, qb : qa = Quoted(a) /\ qb = Quoted(b)
  OBVIOUS
<1>2. IsList(qa) /\ IsList(qb)
  BY <1>1, QuotedIsList
<1>3. PICK r : r = Onto(SP, Onto("=", Onto(SP, qb)))
  OBVIOUS
<1>4. <<SP, "=", SP>> \o qb = r /\ IsList(r)
  <2>1. /\ <<SP, "=", SP>> \o qb = Onto(SP, Onto("=", Onto(SP, qb)))
        /\ IsList(Onto(SP, Onto("=", Onto(SP, qb))))
    <3>1. IsList(qb)
      BY <1>2
    <3> QED
      BY <3>1, TripleOnto
  <2> QED
    BY <2>1, <1>3
<1>5. IsList(Cat(qa, r)) /\ Cat(qa, r) = qa \o r
  BY <1>2, <1>4, CatIs DEF Cat
<1>6. PICK w : w = Cat(qa, r)
  OBVIOUS
<1>7. /\ <<SP, SP, SP, SP>> \o w = Onto(SP, Onto(SP, Onto(SP, Onto(SP, w))))
      /\ IsList(Onto(SP, Onto(SP, Onto(SP, Onto(SP, w)))))
  <2>1. IsList(w)
    BY <1>5, <1>6
  <2> QED
    BY <2>1, FourOnto
<1>8. AssignLine(p) = Onto(SP, Onto(SP, Onto(SP, Onto(SP, w))))
  BY <1>1, <1>3, <1>6 DEF AssignLine
<1>9. PICK f, e : f = <<SP, SP, SP, SP>> /\ e = <<SP, "=", SP>>
  OBVIOUS
<1>10. IsList(f) /\ IsList(e)
  BY <1>9, TupleLengths
<1>11. ((f \o qa) \o e) \o qb = f \o (qa \o (e \o qb))
  <2>1. IsList(f \o qa) /\ IsList(e \o qb)
    BY <1>2, <1>10, ListConcat
  <2>2. ((f \o qa) \o e) \o qb = (f \o qa) \o (e \o qb)
    <3>1. PICK l : l = f \o qa
      OBVIOUS
    <3>2. IsList(l) /\ IsList(e) /\ IsList(qb)
      BY <1>2, <1>10, <2>1, <3>1
    <3>3. (l \o e) \o qb = l \o (e \o qb)
      BY <3>2, ConcatAssociates
    <3> QED
      BY <3>1, <3>3
  <2>3. (f \o qa) \o (e \o qb) = f \o (qa \o (e \o qb))
    <3>1. PICK l : l = e \o qb
      OBVIOUS
    <3>2. IsList(f) /\ IsList(qa) /\ IsList(l)
      BY <1>2, <1>10, <2>1, <3>1
    <3>3. (f \o qa) \o l = f \o (qa \o l)
      BY <3>2, ConcatAssociates
    <3> QED
      BY <3>1, <3>3
  <2> QED
    BY <2>2, <2>3
<1>12. f \o (qa \o (e \o qb)) = f \o w
  <2>1. e \o qb = r
    BY <1>4, <1>9
  <2>2. qa \o r = w
    BY <1>5, <1>6
  <2> QED
    BY <2>1, <2>2
<1>13. f \o w = AssignLine(p)
  BY <1>7, <1>8, <1>9
<1>14. f \o Quoted(p[1]) \o e \o Quoted(p[2]) = AssignLine(p)
  <2>1. Quoted(p[1]) = qa /\ Quoted(p[2]) = qb
    BY <1>1
  <2>2. f \o qa \o e \o qb = AssignLine(p)
    BY <1>11, <1>12, <1>13
  <2> QED
    BY <2>1, <2>2
<1>15. IsList(AssignLine(p))
  BY <1>7, <1>8
<1> QED
  BY <1>9, <1>14, <1>15

\* One field.
FieldIs(key, how, x) ==
  /\ IsLines(FormatField(key, how, x))
  /\ FormatField(key, how, x)[1] = FieldLine(key, how, x)
  /\ how # "assignments" => Len(FormatField(key, how, x)) = 1
  /\ how = "assignments" =>
       /\ IsList(x) /\ Len(FormatField(key, how, x)) = 1 + Len(x)
       /\ \A j \in 1..Len(x) : FormatField(key, how, x)[1 + j] = AssignLine(x[j])

LEMMA FieldIsSo ==
  ASSUME NEW key, NEW how \in Hows, NEW x, IsSentValue(how, x)
  PROVE  FieldIs(key, how, x)
<1> DEFINE l == <<SP, SP, key, ":", SP>> \o FormatValue(how, x)
           more == IF how # "assignments" THEN <<>>
                   ELSE [i \in DOMAIN x |-> <<SP, SP, SP, SP>> \o Quoted(x[i][1])
                                              \o <<SP, "=", SP>> \o Quoted(x[i][2])]
<1>1. l = FieldLine(key, how, x) /\ IsList(FieldLine(key, how, x))
  BY FieldLineIs
<1>2. FormatField(key, how, x) = <<l>> \o more
  BY DEF FormatField
<1>3. IsLines(<<l>>) /\ Len(<<l>>) = 1 /\ <<l>>[1] = FieldLine(key, how, x)
  <2> HIDE DEF l
  <2> QED
    BY <1>1, OneLineIsLines, TupleFacts
<1>4. CASE how # "assignments"
  <2>1. more = <<>>
    BY <1>4
  <2>2. <<l>> \o <<>> = <<l>>
    <3> HIDE DEF l
    <3> QED
      BY <1>3, EmptyIsList DEF IsLines
  <2>3. FormatField(key, how, x) = <<l>>
    <3> HIDE DEF l, more
    <3> QED
      BY <1>2, <2>1, <2>2
  <2> HIDE DEF l, more
  <2> QED
    BY <1>3, <1>4, <2>3 DEF FieldIs
<1>5. CASE how = "assignments"
  <2>1. x \in Seq(Seq(STRING) \X Seq(STRING))
    BY <1>5 DEF IsSentValue, IsValue
  <2>2. IsList(x) /\ Len(x) \in Nat /\ DOMAIN x = 1..Len(x)
    BY <2>1, ListFacts DEF IsList
  <2>3. ASSUME NEW i \in 1..Len(x)
        PROVE  /\ <<SP, SP, SP, SP>> \o Quoted(x[i][1]) \o <<SP, "=", SP>> \o Quoted(x[i][2])
                    = AssignLine(x[i])
               /\ IsList(AssignLine(x[i]))
    <3>1. x[i] \in Seq(STRING) \X Seq(STRING)
      BY <2>1, ElementOfSeq
    <3>2. x[i][1] \in Seq(STRING) /\ x[i][2] \in Seq(STRING)
      BY <3>1
    <3>3. PICK p, a, b : p = x[i] /\ a = p[1] /\ b = p[2]
      OBVIOUS
    <3>4. IsList(a) /\ IsList(b) /\ p[1] = a /\ p[2] = b
      BY <3>2, <3>3 DEF IsList
    <3>5. /\ <<SP, SP, SP, SP>> \o Quoted(p[1]) \o <<SP, "=", SP>> \o Quoted(p[2]) = AssignLine(p)
          /\ IsList(AssignLine(p))
      BY <3>4, AssignLineIs
    <3> QED
      BY <3>3, <3>5
  <2> DEFINE f == [i \in DOMAIN x |-> <<SP, SP, SP, SP>> \o Quoted(x[i][1])
                                              \o <<SP, "=", SP>> \o Quoted(x[i][2])]
  <2>4. more = f
    BY <1>5
  <2>5. \A i \in 1..Len(x) : f[i] = AssignLine(x[i])
    <3> SUFFICES ASSUME NEW i \in 1..Len(x)
                 PROVE  f[i] = AssignLine(x[i])
      OBVIOUS
    <3>1. f[i] = <<SP, SP, SP, SP>> \o Quoted(x[i][1]) \o <<SP, "=", SP>> \o Quoted(x[i][2])
      BY <2>2
    <3> HIDE DEF f
    <3> QED
      BY <2>3, <3>1, Zenon
  <2>6. f = [i \in 1..Len(x) |-> f[i]]
    BY <2>2
  <2> HIDE DEF f, l, more
  <2>7. IsList(f) /\ Len(f) = Len(x)
    BY <2>2, <2>6, ListMade
  <2>8. IsLines(f)
    BY <2>3, <2>5, <2>7 DEF IsLines
  <2>9. IsLines(<<l>> \o f)
    BY <1>3, <2>8, LinesConcat
  <2>10. PICK o : o = <<l>>
    OBVIOUS
  <2>11. /\ Len(o \o f) = Len(o) + Len(f)
         /\ \A i \in 1..(Len(o) + Len(f)) : (o \o f)[i] = IF i <= Len(o) THEN o[i] ELSE f[i - Len(o)]
    <3>1. IsList(o) /\ IsList(f)
      BY <1>3, <2>7, <2>10 DEF IsLines
    <3> QED
      BY <3>1, ListConcat
  <2>12. FormatField(key, how, x) = o \o f
    BY <1>2, <2>4, <2>10
  <2>13. Len(o) = 1 /\ o[1] = FieldLine(key, how, x)
    BY <1>3, <2>10
  <2>14. PICK ff : ff = FormatField(key, how, x)
    OBVIOUS
  <2>15. IsLines(ff)
    BY <2>9, <2>10, <2>12, <2>14
  <2>16. Len(ff) = 1 + Len(x) /\ ff[1] = FieldLine(key, how, x)
         /\ \A j \in 1..Len(x) : ff[1 + j] = f[j]
    <3>1. ff = o \o f /\ Len(f) \in Nat
      BY <2>2, <2>7, <2>12, <2>14
    <3>2. PICK u : u = o \o f
      OBVIOUS
    <3>3. /\ Len(u) = 1 + Len(f)
          /\ \A i \in 1..(1 + Len(f)) : u[i] = IF i <= 1 THEN o[i] ELSE f[i - 1]
      BY <2>11, <2>13, <3>2
    <3>4. ff = u
      BY <3>1, <3>2
    <3> QED
      BY <2>2, <2>7, <2>13, <3>3, <3>4
  <2> QED
    BY <1>5, <2>2, <2>5, <2>14, <2>15, <2>16 DEF FieldIs
<1> QED
  BY <1>4, <1>5

\* The list of overrides is the last of the options.
Overrides(c) == IF c.op = "SetOptions" THEN c.args.overrides ELSE <<>>

LEMMA OverridesLast ==
  ASSUME NEW c, IsSentCall(c)
  PROVE  /\ Fields(c) \in 0..13
         /\ \A i \in 1..Fields(c) : HowOf(c, i) \in Hows
         /\ \A i \in 1..Fields(c) : HowOf(c, i) = "assignments" =>
              i = 13 /\ Fields(c) = 13 /\ KeyOf(c, i) = "overrides" /\ c.op = "SetOptions"
         /\ c.op = "SetOptions" => /\ Fields(c) = 13 /\ KeyOf(c, 13) = "overrides"
                                   /\ HowOf(c, 13) = "assignments"
         /\ Overrides(c) \in Seq(Seq(STRING) \X Seq(STRING))
<1>1. KeysMatch(c.op, FormatKeys(c.variant), ParseKeys(c.op))
  BY KeysOf DEF IsSentCall
<1>2. PICK ks, table : ks = FormatKeys(c.variant) /\ table = ParseKeys(c.op)
  OBVIOUS
<1>3. KeysMatch(c.op, ks, table)
  BY <1>1, <1>2
<1>4. Fields(c) = Len(ks) /\ \A i : KeyOf(c, i) = ks[i][1] /\ HowOf(c, i) = ks[i][2]
  BY <1>2 DEF Fields, KeyOf, HowOf
<1>5. /\ Len(ks) \in 0..13
      /\ \A i \in 1..Len(ks) :
          /\ ks[i][2] \in Hows
          /\ (ks[i][2] = "assignments" <=> ks[i][1] = "overrides")
          /\ ks[i][2] = "assignments" => c.op = "SetOptions" /\ i = 13 /\ Len(ks) = 13
      /\ \A key \in DOMAIN table : \E i \in 1..Len(ks) : ks[i][1] = key
  BY <1>3 DEF KeysMatch
<1>6. ASSUME c.op = "SetOptions"
      PROVE  Len(ks) = 13 /\ ks[13][1] = "overrides" /\ ks[13][2] = "assignments"
  <2>1. table = Extended([k \in Range(OptionKeys) |-> "number"], [overrides |-> "assignments"])
    BY <1>2, <1>6 DEF ParseKeys
  <2>2. "overrides" \in DOMAIN table
    BY <2>1 DEF Extended
  <2>3. PICK i \in 1..Len(ks) : ks[i][1] = "overrides"
    BY <1>5, <2>2
  <2> QED
    BY <1>5, <2>3
<1>7. Overrides(c) \in Seq(Seq(STRING) \X Seq(STRING))
  <2>1. CASE c.op = "SetOptions"
    <3>1. 13 \in 1..Fields(c) /\ HowOf(c, 13) = "assignments" /\ KeyOf(c, 13) = "overrides"
      <4>1. Len(ks) = 13 /\ ks[13][1] = "overrides" /\ ks[13][2] = "assignments"
        BY <1>6, <2>1
      <4>2. Fields(c) = 13
        BY <1>4, <4>1
      <4>3. HowOf(c, 13) = ks[13][2] /\ KeyOf(c, 13) = ks[13][1]
        BY <1>4
      <4> QED
        BY <4>1, <4>2, <4>3
    <3>2. IsSentValue(HowOf(c, 13), ValueOf(c, 13))
      BY <3>1 DEF IsSentCall
    <3>3. ValueOf(c, 13) = c.args.overrides
      BY <3>1 DEF ValueOf
    <3>4. c.args.overrides \in Seq(Seq(STRING) \X Seq(STRING))
      BY <3>1, <3>2, <3>3 DEF IsSentValue, IsValue
    <3> QED
      BY <2>1, <3>4 DEF Overrides
  <2>2. CASE c.op # "SetOptions"
    <3>1. <<>> \in Seq(Seq(STRING) \X Seq(STRING))
      BY EmptySeq
    <3> QED
      BY <2>2, <3>1 DEF Overrides
  <2> QED
    BY <2>1, <2>2
<1>8. Fields(c) \in 0..13
  BY <1>4, <1>5
<1>9. \A i \in 1..Fields(c) : HowOf(c, i) \in Hows
  BY <1>4, <1>5
<1>11. \A i \in 1..Fields(c) : HowOf(c, i) = "assignments" =>
              i = 13 /\ Fields(c) = 13 /\ KeyOf(c, i) = "overrides" /\ c.op = "SetOptions"
  BY <1>4, <1>5
<1>10. c.op = "SetOptions" => Fields(c) = 13 /\ KeyOf(c, 13) = "overrides" /\ HowOf(c, 13) = "assignments"
  BY <1>4, <1>6
<1> QED
  BY <1>7, <1>8, <1>9, <1>10, <1>11

\* The lines of a call: its head, a line for each field, one for each override.
CallLines(c, u) ==
  /\ IsLines(u) /\ Len(u) = (1 + Fields(c)) + Len(Overrides(c))
  /\ u[1] = Onto(c.op, FormatHead(c))
  /\ \A i \in 1..Fields(c) : u[1 + i] = FieldLine(KeyOf(c, i), HowOf(c, i), ValueOf(c, i))
  /\ \A j \in 1..Len(Overrides(c)) : u[14 + j] = AssignLine(Overrides(c)[j])

FieldLines(c) ==
  FlattenSeq([i \in DOMAIN FormatKeys(c.variant) |->
    LET f == FormatKeys(c.variant)[i] IN FormatField(f[1], f[2], c.args[f[1]])])

LEMMA FieldsLaidOut ==
  ASSUME NEW c, IsSentCall(c), NEW n, n = Fields(c), NEW w, w = Len(Overrides(c))
  PROVE  /\ IsLines(FieldLines(c)) /\ Len(FieldLines(c)) = n + w /\ n \in Nat /\ w \in Nat
         /\ \A i \in 1..n : FieldLines(c)[i] = FieldLine(KeyOf(c, i), HowOf(c, i), ValueOf(c, i))
         /\ \A j \in 1..w : FieldLines(c)[13 + j] = AssignLine(Overrides(c)[j])
<1> DEFINE f0 == [i \in DOMAIN FormatKeys(c.variant) |->
                    LET f == FormatKeys(c.variant)[i] IN FormatField(f[1], f[2], c.args[f[1]])]
<1>1. /\ n \in 0..13
      /\ \A i \in 1..n : HowOf(c, i) \in Hows
      /\ \A i \in 1..n : HowOf(c, i) = "assignments" => i = 13 /\ n = 13 /\ c.op = "SetOptions"
      /\ c.op = "SetOptions" => n = 13 /\ KeyOf(c, 13) = "overrides" /\ HowOf(c, 13) = "assignments"
  BY OverridesLast
<1>2. w \in Nat
  <2>1. Overrides(c) \in Seq(Seq(STRING) \X Seq(STRING))
    BY OverridesLast
  <2> QED
    BY <2>1, LenProperties
<1>3. DOMAIN FormatKeys(c.variant) = 1..n
  <2>1. KeysMatch(c.op, FormatKeys(c.variant), ParseKeys(c.op))
    BY KeysOf DEF IsSentCall
  <2>2. IsList(FormatKeys(c.variant))
    BY <2>1 DEF KeysMatch
  <2> QED
    BY <2>2, ListFacts DEF Fields
<1>4. ASSUME NEW i \in 1..n
      PROVE  f0[i] = FormatField(KeyOf(c, i), HowOf(c, i), ValueOf(c, i))
  BY <1>3 DEF KeyOf, HowOf, ValueOf
<1>5. PICK fs : fs = f0
  OBVIOUS
<1>6. IsList(fs) /\ Len(fs) = n
  <2>1. fs = [i \in 1..n |-> fs[i]]
    BY <1>3, <1>5
  <2>2. n \in Nat
    BY <1>1
  <2> QED
    BY <2>1, <2>2, ListMade
<1>7. ASSUME NEW i \in 1..n
      PROVE  /\ IsLines(fs[i]) /\ fs[i][1] = FieldLine(KeyOf(c, i), HowOf(c, i), ValueOf(c, i))
             /\ i # 13 \/ c.op # "SetOptions" => Len(fs[i]) = 1
             /\ c.op = "SetOptions" /\ i = 13 =>
                  /\ Len(fs[i]) = 1 + w
                  /\ \A j \in 1..w : fs[i][1 + j] = AssignLine(Overrides(c)[j])
  <2>1. PICK key, how, x : key = KeyOf(c, i) /\ how = HowOf(c, i) /\ x = ValueOf(c, i)
    OBVIOUS
  <2>2. fs[i] = FormatField(key, how, x)
    BY <1>4, <1>5, <2>1
  <2>3. how \in Hows /\ IsSentValue(how, x)
    BY <1>1, <2>1 DEF IsSentCall
  <2>4. FieldIs(key, how, x)
    BY <2>3, FieldIsSo
  <2>5. PICK ff : ff = FormatField(key, how, x)
    OBVIOUS
  <2>6. /\ IsLines(ff) /\ ff[1] = FieldLine(key, how, x)
        /\ how # "assignments" => Len(ff) = 1
        /\ how = "assignments" => /\ Len(ff) = 1 + Len(x)
                                  /\ \A j \in 1..Len(x) : ff[1 + j] = AssignLine(x[j])
    BY <2>4, <2>5 DEF FieldIs
  <2>7. i # 13 \/ c.op # "SetOptions" => how # "assignments"
    BY <1>1, <2>1
  <2>8. ASSUME c.op = "SetOptions", i = 13
        PROVE  how = "assignments" /\ x = Overrides(c)
    BY <1>1, <2>1, <2>8 DEF ValueOf, Overrides
  <2> QED
    BY <2>1, <2>2, <2>5, <2>6, <2>7, <2>8
<1>8. IsLines(fs)
  BY <1>6, <1>7 DEF IsLines
<1>9. PICK g : MadeOf(fs, g) /\ FlattenSeq(fs) = g[n]
  BY <1>6, <1>8, FlattenByParts
<1>10. ASSUME NEW k \in 1..n
       PROVE  Placed(g[n], Len(g[k - 1]), Len(g[k]), fs[k])
  <2>1. PICK m : m = k - 1
    OBVIOUS
  <2>2. Placed(g[Len(fs)], Len(g[m]), Len(g[k]), fs[k])
    BY <1>6, <1>8, <1>9, <2>1, PartAt
  <2> QED
    BY <1>6, <2>1, <2>2
<1>11. \A k \in 0..n : k < n \/ c.op # "SetOptions" => Len(g[k]) = k
  <2> DEFINE G == {k \in 0..n : k < n \/ c.op # "SetOptions" => Len(g[k]) = k}
  <2>1. 0 \in G
    <3>1. g[0] = <<>>
      BY <1>9 DEF MadeOf
    <3> QED
      BY <1>1, <3>1, EmptyIsList
  <2>2. ASSUME NEW m \in 0..(n - 1), m \in G
        PROVE  m + 1 \in G
    <3>1. m + 1 \in 1..n /\ m < n /\ m + 1 \in 0..n /\ (m + 1) - 1 = m
      BY <1>1
    <3>2. Len(g[m]) = m
      BY <2>2, <3>1
    <3>3. Placed(g[n], Len(g[m]), Len(g[m + 1]), fs[m + 1])
      BY <1>10, <3>1
    <3>4. Len(g[m + 1]) = m + Len(fs[m + 1])
      BY <3>2, <3>3 DEF Placed
    <3>5. m + 1 < n \/ c.op # "SetOptions" => Len(fs[m + 1]) = 1
      BY <1>1, <1>7, <3>1
    <3> QED
      BY <3>1, <3>4, <3>5
  <2>3. n \in Nat
    BY <1>1
  <2> HIDE DEF G
  <2>4. \A k \in 0..n : k \in G
    BY <2>1, <2>2, <2>3, Induction
  <2> QED
    BY <2>4 DEF G
<1>12. \A i \in 1..n : g[n][i] = fs[i][1] /\ Len(fs[i]) \in Nat \ {0}
  <2> SUFFICES ASSUME NEW i \in 1..n
               PROVE  g[n][i] = fs[i][1] /\ Len(fs[i]) \in Nat \ {0}
    OBVIOUS
  <2>1. i - 1 \in 0..n /\ i - 1 < n
    BY <1>1
  <2>2. Len(g[i - 1]) = i - 1
    BY <1>11, <2>1
  <2>3. Placed(g[n], i - 1, Len(g[i]), fs[i])
    BY <1>10, <2>2
  <2>4. Len(fs[i]) \in Nat \ {0}
    BY <1>2, <1>7
  <2>5. \A j \in 1..Len(fs[i]) : g[n][(i - 1) + j] = fs[i][j]
    BY <2>3 DEF Placed
  <2>6. 1 \in 1..Len(fs[i]) /\ (i - 1) + 1 = i
    BY <2>4
  <2> QED
    BY <2>4, <2>5, <2>6
<1>13. CASE c.op # "SetOptions"
  <2>1. Len(g[n]) = n
    BY <1>1, <1>11, <1>13
  <2>2. w = 0
    BY <1>13, EmptyIsList DEF Overrides
  <2>3. FieldLines(c) = g[n]
    BY <1>5, <1>9 DEF FieldLines
  <2>4. IsLines(g[n])
    <3>1. IsList(g[n])
      BY <1>8, <1>9, FlattenIsList
    <3> QED
      BY <1>7, <1>12, <2>1, <3>1 DEF IsLines
  <2> QED
    BY <1>1, <1>2, <1>7, <1>12, <2>1, <2>2, <2>3, <2>4
<1>14. CASE c.op = "SetOptions"
  <2>1. n = 13
    BY <1>1, <1>14
  <2>2. Len(g[12]) = 12
    BY <1>11, <2>1
  <2>3. Placed(g[n], 12, Len(g[13]), fs[13])
    <3>1. 13 \in 1..n /\ 13 - 1 = 12
      BY <2>1
    <3> QED
      BY <1>10, <2>2, <3>1
  <2>4. /\ Len(fs[13]) = 1 + w /\ \A j \in 1..w : fs[13][1 + j] = AssignLine(Overrides(c)[j])
    BY <1>7, <1>14, <2>1
  <2>5. Len(g[n]) = 13 + w /\ \A j \in 1..(1 + w) : g[n][12 + j] = fs[13][j]
    BY <1>2, <2>1, <2>3, <2>4 DEF Placed
  <2>6. ASSUME NEW j \in 1..w
        PROVE  g[n][13 + j] = fs[13][1 + j] /\ 1 + j \in 1..Len(fs[13])
    <3>1. 1 + j \in 1..(1 + w) /\ 12 + (1 + j) = 13 + j
      BY <1>2
    <3> QED
      BY <2>4, <2>5, <3>1
  <2>7. FieldLines(c) = g[n]
    BY <1>5, <1>9 DEF FieldLines
  <2>8. IsLines(g[n])
    <3>1. IsList(g[n])
      BY <1>8, <1>9, FlattenIsList
    <3>2. ASSUME NEW q \in 1..Len(g[n])
          PROVE  IsList(g[n][q])
      <4>1. CASE q \in 1..n
        <5>1. g[n][q] = fs[q][1] /\ 1 \in 1..Len(fs[q]) /\ IsLines(fs[q])
          BY <1>7, <1>12, <4>1
        <5> QED
          BY <5>1 DEF IsLines
      <4>2. CASE q \notin 1..n
        <5>1. q - 13 \in 1..w /\ 13 + (q - 13) = q
          BY <1>2, <2>1, <2>5, <4>2
        <5>2. g[n][q] = fs[13][1 + (q - 13)] /\ 1 + (q - 13) \in 1..Len(fs[13])
          BY <2>6, <5>1
        <5>3. IsLines(fs[13])
          BY <1>7, <2>1
        <5> QED
          BY <5>2, <5>3 DEF IsLines
      <4> QED
        BY <4>1, <4>2
    <3> QED
      BY <3>1, <3>2 DEF IsLines
  <2>9. \A i \in 1..n : g[n][i] = FieldLine(KeyOf(c, i), HowOf(c, i), ValueOf(c, i))
    BY <1>7, <1>12
  <2>10. \A j \in 1..w : g[n][13 + j] = AssignLine(Overrides(c)[j])
    BY <2>4, <2>6
  <2> QED
    BY <1>1, <1>2, <2>1, <2>5, <2>7, <2>8, <2>9, <2>10
<1> QED
  BY <1>13, <1>14

LEMMA NamesItself ==
  ASSUME NEW op \in Ops
  PROVE  NameOf(op) = op
BY DEF NameOf, Ops, PathOps, StringOps, NoArgOps, ComplexOps, OtherOps

LEMMA CallLaidOut ==
  ASSUME NEW c, IsSentCall(c)
  PROVE  CallLines(c, FormatCall(c))
<1>1. PICK n, w, h : n = Fields(c) /\ w = Len(Overrides(c)) /\ h = Onto(c.op, FormatHead(c))
  OBVIOUS
<1>2. PICK fl : fl = FieldLines(c)
  OBVIOUS
<1>3. /\ IsLines(fl) /\ Len(fl) = n + w /\ n \in Nat /\ w \in Nat
      /\ \A i \in 1..n : fl[i] = FieldLine(KeyOf(c, i), HowOf(c, i), ValueOf(c, i))
      /\ \A j \in 1..w : fl[13 + j] = AssignLine(Overrides(c)[j])
  BY <1>1, <1>2, FieldsLaidOut
<1>4. <<NameOf(c.op)>> \o FormatHead(c) = h /\ IsList(h)
  <2>1. NameOf(c.op) = c.op
    BY NamesItself DEF IsSentCall
  <2>2. IsList(FormatHead(c))
    BY HeadIsList
  <2>3. PICK fh : fh = FormatHead(c)
    OBVIOUS
  <2>4. IsList(fh)
    BY <2>2, <2>3
  <2>5. <<c.op>> \o fh = Onto(c.op, fh) /\ IsList(Onto(c.op, fh))
    BY <2>4, OneOnto
  <2> QED
    BY <1>1, <2>1, <2>3, <2>5
<1>5. PICK o : o = <<h>>
  OBVIOUS
<1>6. IsLines(o) /\ Len(o) = 1 /\ o[1] = h
  BY <1>4, <1>5, OneLineIsLines, TupleFacts
<1>7. FormatCall(c) = o \o fl
  BY <1>2, <1>4, <1>5 DEF FormatCall, FieldLines
<1>8. IsLines(o \o fl)
  BY <1>3, <1>6, LinesConcat
<1>9. PICK u : u = o \o fl
  OBVIOUS
<1>10. Len(u) = 1 + (n + w) /\ u[1] = h /\ \A j \in 1..(n + w) : u[1 + j] = fl[j]
  <2>1. IsList(o) /\ IsList(fl)
    BY <1>3, <1>6 DEF IsLines
  <2>2. /\ Len(o \o fl) = Len(o) + Len(fl)
        /\ \A j \in 1..Len(o) : (o \o fl)[j] = o[j]
        /\ \A j \in 1..Len(fl) : (o \o fl)[Len(o) + j] = fl[j]
    BY <2>1, ConcatAt
  <2>3. 1 \in 1..1
    OBVIOUS
  <2> QED
    BY <1>3, <1>6, <1>9, <2>2, <2>3
<1>11. \A i \in 1..n : u[1 + i] = FieldLine(KeyOf(c, i), HowOf(c, i), ValueOf(c, i))
  BY <1>3, <1>10
<1>12. \A j \in 1..w : u[14 + j] = AssignLine(Overrides(c)[j])
  <2> SUFFICES ASSUME NEW j \in 1..w
               PROVE  u[14 + j] = AssignLine(Overrides(c)[j])
    OBVIOUS
  <2>1. n = 13
    <3>1. c.op = "SetOptions"
      <4> SUFFICES ASSUME c.op # "SetOptions"
                   PROVE  FALSE
        OBVIOUS
      <4> QED
        BY <1>1, EmptyIsList DEF Overrides
    <3> QED
      BY <1>1, <3>1, OverridesLast
  <2>2. 13 + j \in 1..(n + w) /\ 1 + (13 + j) = 14 + j
    BY <1>3, <2>1
  <2> QED
    BY <1>3, <1>10, <2>2
<1> QED
  <2>1. IsLines(u) /\ Len(u) = (1 + n) + w
    BY <1>3, <1>8, <1>9, <1>10
  <2>2. CallLines(c, u)
    BY <1>1, <1>10, <1>11, <1>12, <2>1 DEF CallLines
  <2> QED
    BY <1>7, <1>9, <2>2

\* A raw call is a line.
LEMMA RawCallIs ==
  ASSUME NEW c, IsRawCall(c)
  PROVE  IsLines(FormatCall(c)) /\ FormatCall(c) # <<>>
<1>1. FormatHead(c) = <<>> /\ FormatKeys(c.variant) = <<>>
  BY DEF IsRawCall, FormatHead, FormatKeys
<1>2. PICK h : h = <<NameOf(c.op)>> \o FormatHead(c)
  OBVIOUS
<1>3. IsList(h)
  BY <1>1, <1>2, TuplesAreLists, EmptyIsList
<1>4. DOMAIN FormatKeys(c.variant) = {}
  BY <1>1
<1>5. FieldLines(c) = <<>>
  <2> DEFINE f0 == [i \in DOMAIN FormatKeys(c.variant) |->
                     LET f == FormatKeys(c.variant)[i] IN FormatField(f[1], f[2], c.args[f[1]])]
  <2>1. f0 = [i \in 1..0 |-> f0[i]]
    BY <1>4
  <2> HIDE DEF f0
  <2>2. IsList(f0) /\ Len(f0) = 0
    BY <2>1, ListMade
  <2>3. f0 = <<>>
    BY <2>2, EmptyIsList, ListsEqual
  <2> QED
    BY <2>2, <2>3 DEF FieldLines, FlattenSeq, f0
<1>6. FormatCall(c) = <<h>> \o <<>>
  BY <1>2, <1>5 DEF FormatCall, FieldLines
<1>7. IsLines(<<h>>) /\ <<h>> # <<>>
  BY <1>3, OneLineIsLines
<1>8. FormatCall(c) = <<h>>
  <2>1. IsList(<<h>>)
    BY <1>7 DEF IsLines
  <2> QED
    BY <1>6, <2>1, EmptyIsList
<1> QED
  BY <1>7, <1>8

-----------------------------------------------------------------------------
(* The comments below a call.                                              *)

IsRemark(u) ==
  \E w, t : /\ IsList(t) /\ w \notin {NL, "nwscript"}
           /\ u = Onto(SP, Onto(SP, Onto("#", Onto(SP, Onto(w, t)))))
Remarks(ss) == IsList(ss) /\ \A i \in 1..Len(ss) : IsRemark(ss[i])
Pairs(fs) == IsList(fs) /\ \A i \in 1..Len(fs) : IsList(fs[i][1]) /\ IsList(fs[i][2])

LEMMA RemarkIsList ==
  ASSUME NEW u, IsRemark(u)
  PROVE  IsList(u)
<1>1. PICK w, t : IsList(t) /\ u = Onto(SP, Onto(SP, Onto("#", Onto(SP, Onto(w, t)))))
  BY DEF IsRemark
<1>2. PICK a, b, c : a = Onto(w, t) /\ b = Onto(SP, a) /\ c = Onto("#", b)
  OBVIOUS
<1>3. IsList(a)
  BY <1>1, <1>2, OntoIs
<1>4. IsList(b)
  BY <1>2, <1>3, OntoIs
<1>5. IsList(c)
  BY <1>2, <1>4, OntoIs
<1>6. IsList(Onto(SP, c))
  BY <1>5, OntoIs
<1> QED
  BY <1>1, <1>2, <1>6, OntoIs

LEMMA OntoRest ==
  ASSUME NEW s, IsList(s), Len(s) >= 1
  PROVE  \E t : IsList(t) /\ s = Onto(s[1], t)
<1>1. PICK n \in Nat : n = Len(s)
  BY ListFacts
<1>2. n >= 1
  BY <1>1
<1>3. PICK t : t = SubSeq(s, 2, n)
  OBVIOUS
<1>4. 2 \in 1..(n + 1) /\ n \in 0..n
  BY <1>2
<1>5. /\ IsList(t) /\ Len(t) = IF 2 <= n THEN n - 2 + 1 ELSE 0
      /\ \A i \in 1..(n - 2 + 1) : t[i] = s[2 + i - 1]
  BY <1>1, <1>3, <1>4, PieceOf
<1>6. Len(t) = n - 1
  BY <1>2, <1>5
<1>7. PICK x, u : x = s[1] /\ u = Onto(x, t)
  OBVIOUS
<1>8. /\ IsList(u) /\ Len(u) = 1 + Len(t) /\ u[1] = x
      /\ \A j \in 1..Len(t) : u[1 + j] = t[j]
  BY <1>5, <1>7, OntoIs
<1>9. Len(u) = Len(s)
  BY <1>1, <1>6, <1>8
<1>10. ASSUME NEW i \in 1..n
       PROVE  u[i] = s[i]
  <2>1. CASE i = 1
    BY <1>7, <1>8, <2>1
  <2>2. CASE i # 1
    <3>1. PICK j : j = i - 1
      OBVIOUS
    <3>2. j \in 1..(n - 1) /\ j \in 1..(n - 2 + 1) /\ 1 + j = i /\ 2 + j - 1 = i
      BY <2>2, <3>1
    <3>3. u[i] = t[j]
      BY <1>6, <1>8, <3>2
    <3>4. t[j] = s[i]
      BY <1>5, <3>2
    <3> QED
      BY <3>3, <3>4
  <2> QED
    BY <2>1, <2>2
<1>11. u = s
  BY <1>1, <1>8, <1>9, <1>10, ListsEqual
<1> QED
  BY <1>5, <1>7, <1>11

\* A subject that does not make its comment a header.
Subject(s) == IsList(s) /\ Len(s) >= 1 /\ s[1] \notin {NL, "nwscript"}

LEMMA CommentIsRemark ==
  ASSUME NEW subject, NEW text0, Subject(subject), IsList(text0)
  PROVE  IsRemark(Comment(subject, text0))
<1>0. IsList(subject) /\ IsList(text0)
  BY DEF Subject
<1>1. PICK a, b : a = <<SP, SP, "#", SP>> /\ b = <<":", SP>>
  OBVIOUS
<1>2. IsList(a) /\ IsList(b)
  BY <1>1, TupleLengths
<1>3. ((a \o subject) \o b) \o text0 = a \o (subject \o (b \o text0))
  <2>1. IsList(a \o subject) /\ IsList(b \o text0)
    BY <1>0, <1>2, ListConcat
  <2>2. PICK l, m : l = a \o subject /\ m = b \o text0
    OBVIOUS
  <2>3. IsList(l) /\ IsList(m)
    BY <2>1, <2>2
  <2>4. (l \o b) \o text0 = l \o (b \o text0)
    BY <1>0, <1>2, <2>3, ConcatAssociates
  <2>5. (a \o subject) \o m = a \o (subject \o m)
    BY <1>0, <1>2, <2>3, ConcatAssociates
  <2> QED
    BY <2>2, <2>4, <2>5
<1>4. PICK r : r = subject \o (b \o text0)
  OBVIOUS
<1>5. IsList(r)
  <2>1. IsList(b \o text0)
    BY <1>0, <1>2, ListConcat
  <2> QED
    BY <1>0, <1>4, <2>1, ListConcat
<1>6. <<SP, SP, "#", SP>> \o r = Onto(SP, Onto(SP, Onto("#", Onto(SP, r))))
  <2>1. PICK x : x = "#"
    OBVIOUS
  <2>2. <<SP, SP, x, SP>> \o r = Onto(SP, Onto(SP, Onto(x, Onto(SP, r))))
    BY <1>5, FourOnto
  <2> QED
    BY <2>1, <2>2
<1>7. Len(r) >= 1 /\ r[1] = subject[1]
  <2>1. PICK y : y = b \o text0
    OBVIOUS
  <2>2. IsList(y) /\ r = subject \o y
    BY <1>0, <1>2, <1>4, <2>1, ListConcat
  <2>3. Len(subject) \in Nat /\ Len(y) \in Nat
    BY <1>0, <2>2, ListFacts
  <2>4. Len(r) = Len(subject) + Len(y) /\ \A j \in 1..Len(subject) : r[j] = subject[j]
    BY <1>0, <2>2, ConcatAt
  <2> QED
    BY <2>3, <2>4 DEF Subject
<1>8. Comment(subject, text0) = a \o r
  BY <1>1, <1>3, <1>4 DEF Comment
<1>9. Comment(subject, text0) = Onto(SP, Onto(SP, Onto("#", Onto(SP, r))))
  BY <1>1, <1>6, <1>8
<1>10. PICK w, t : w = r[1] /\ IsList(t) /\ r = Onto(w, t)
  BY <1>5, <1>7, OntoRest
<1>11. w \notin {NL, "nwscript"}
  BY <1>7, <1>10 DEF Subject
<1> QED
  BY <1>9, <1>10, <1>11 DEF IsRemark

LEMMA RemarksConcat ==
  ASSUME NEW s, NEW t, Remarks(s), Remarks(t)
  PROVE  Remarks(s \o t)
<1>1. IsList(s) /\ IsList(t)
  BY DEF Remarks
<1>2. Len(s) \in Nat /\ Len(t) \in Nat
  BY <1>1, ListFacts
<1>3. /\ IsList(s \o t) /\ Len(s \o t) = Len(s) + Len(t)
      /\ \A i \in 1..(Len(s) + Len(t)) :
           (s \o t)[i] = IF i <= Len(s) THEN s[i] ELSE t[i - Len(s)]
  BY <1>1, ListConcat
<1>4. PICK u : u = s \o t
  OBVIOUS
<1>5. \A i \in 1..(Len(s) + Len(t)) : i <= Len(s) => i \in 1..Len(s) /\ u[i] = s[i]
  BY <1>2, <1>3, <1>4
<1>6. \A i \in 1..(Len(s) + Len(t)) : ~(i <= Len(s)) => i - Len(s) \in 1..Len(t) /\ u[i] = t[i - Len(s)]
  BY <1>2, <1>3, <1>4
<1>7. \A i \in 1..(Len(s) + Len(t)) : IsRemark(u[i])
  BY <1>5, <1>6 DEF Remarks
<1> QED
  BY <1>3, <1>4, <1>7 DEF Remarks

LEMMA PairsConcat ==
  ASSUME NEW s, NEW t, Pairs(s), Pairs(t)
  PROVE  Pairs(s \o t)
<1>1. IsList(s) /\ IsList(t)
  BY DEF Pairs
<1>2. Len(s) \in Nat /\ Len(t) \in Nat
  BY <1>1, ListFacts
<1>3. /\ IsList(s \o t) /\ Len(s \o t) = Len(s) + Len(t)
      /\ \A i \in 1..(Len(s) + Len(t)) :
           (s \o t)[i] = IF i <= Len(s) THEN s[i] ELSE t[i - Len(s)]
  BY <1>1, ListConcat
<1>4. PICK u : u = s \o t
  OBVIOUS
<1>5. \A i \in 1..(Len(s) + Len(t)) : i <= Len(s) => i \in 1..Len(s) /\ u[i] = s[i]
  BY <1>2, <1>3, <1>4
<1>6. \A i \in 1..(Len(s) + Len(t)) : ~(i <= Len(s)) => i - Len(s) \in 1..Len(t) /\ u[i] = t[i - Len(s)]
  BY <1>2, <1>3, <1>4
<1>7. \A i \in 1..(Len(s) + Len(t)) : IsList(u[i][1]) /\ IsList(u[i][2])
  BY <1>5, <1>6 DEF Pairs
<1> QED
  BY <1>3, <1>4, <1>7 DEF Pairs

LEMMA NoPairs == Pairs(<<>>) /\ Remarks(<<>>)
<1>1. IsList(<<>>) /\ Len(<<>>) = 0
  BY EmptyIsList
<1> QED
  BY <1>1 DEF Pairs, Remarks

LEMMA OnePair ==
  ASSUME NEW a, NEW b, IsList(a), IsList(b)
  PROVE  Pairs(<< <<a, b>> >>)
<1>1. PICK p : p = <<a, b>>
  OBVIOUS
<1>2. p[1] = a /\ p[2] = b
  BY <1>1
<1>3. PICK s : s = <<p>>
  OBVIOUS
<1>4. IsList(s) /\ Len(s) = 1 /\ s[1] = p
  BY <1>3, TupleLengths
<1>5. Pairs(s)
  BY <1>2, <1>4 DEF Pairs
<1> QED
  BY <1>1, <1>3, <1>5

LEMMA OneRemark ==
  ASSUME NEW u, IsRemark(u)
  PROVE  Remarks(<<u>>)
<1>1. PICK s : s = <<u>>
  OBVIOUS
<1>2. IsList(s) /\ Len(s) = 1 /\ s[1] = u
  BY <1>1, TupleLengths
<1>3. Remarks(s)
  BY <1>2 DEF Remarks
<1> QED
  BY <1>1, <1>3

LEMMA OneField ==
  ASSUME NEW name, NEW b, IsList(b)
  PROVE  Pairs(<<Field(name, b)>>)
<1>1. IsList(<<".", name>>)
  BY TupleLengths
<1>2. PICK a : a = <<".", name>>
  OBVIOUS
<1>3. Pairs(<< <<a, b>> >>)
  BY <1>1, <1>2, OnePair
<1> QED
  BY <1>2, <1>3 DEF Field

\* A field there may be.
LEMMA GivenIsPairs ==
  ASSUME NEW name, NEW opt
  PROVE  /\ (opt # None => IsList(opt[1])) => Pairs(GivenField(name, opt, Self))
         /\ (opt # None => IsLines(opt[1])) => Pairs(GivenField(name, opt, FormatSet))
         /\ Pairs(GivenField(name, opt, Word))
<1>1. CASE opt = None
  <2>1. /\ GivenField(name, opt, Self) = <<>> /\ GivenField(name, opt, FormatSet) = <<>>
        /\ GivenField(name, opt, Word) = <<>>
    BY <1>1 DEF GivenField, Maybe
  <2> QED
    BY <2>1, NoPairs
<1>2. CASE opt # None
  <2>1. ASSUME IsList(opt[1])
        PROVE  Pairs(GivenField(name, opt, Self))
    <3>1. GivenField(name, opt, Self) = <<Field(name, opt[1])>>
      BY <1>2 DEF GivenField, Maybe, Self
    <3> QED
      BY <2>1, <3>1, OneField
  <2>2. ASSUME IsLines(opt[1])
        PROVE  Pairs(GivenField(name, opt, FormatSet))
    <3>1. GivenField(name, opt, FormatSet) = <<Field(name, FormatSet(opt[1]))>>
      BY <1>2, Zenon DEF GivenField, Maybe
    <3>2. IsList(FormatSet(opt[1]))
      BY <2>2, SetIsList
    <3> QED
      BY <3>1, <3>2, OneField
  <2>3. Pairs(GivenField(name, opt, Word))
    <3>1. GivenField(name, opt, Word) = <<Field(name, Word(opt[1]))>>
      BY <1>2, Zenon DEF GivenField, Maybe
    <3>2. IsList(Word(opt[1]))
      BY TuplesAreLists DEF Word
    <3> QED
      BY <3>1, <3>2, OneField
  <2> QED
    BY <1>2, <2>1, <2>2, <2>3
<1> QED
  BY <1>1, <1>2

LEMMA OptionList ==
  ASSUME NEW x, NEW S, IsOption(x, S)
  PROVE  x # None => x[1] \in S
BY DEF IsOption, Some

\* What is listed of a map.
LEMMA MapIsPairs ==
  ASSUME NEW m, m \in Seq(Seq(STRING) \X Seq(STRING))
  PROVE  Pairs([i \in DOMAIN m |-> <<None, Quoted(m[i][1]) \o <<SP, "=", SP>> \o Quoted(m[i][2])>>])
<1> DEFINE f == [i \in DOMAIN m |-> <<None, Quoted(m[i][1]) \o <<SP, "=", SP>> \o Quoted(m[i][2])>>]
<1>1. Len(m) \in Nat /\ DOMAIN m = 1..Len(m)
  BY LenProperties
<1>2. ASSUME NEW i \in 1..Len(m)
      PROVE  IsList(f[i][1]) /\ IsList(f[i][2])
  <2>1. m[i] \in Seq(STRING) \X Seq(STRING)
    BY ElementOfSeq
  <2>2. m[i][1] \in Seq(STRING) /\ m[i][2] \in Seq(STRING)
    BY <2>1
  <2>3. PICK a, b, e : a = Quoted(m[i][1]) /\ b = Quoted(m[i][2]) /\ e = <<SP, "=", SP>>
    OBVIOUS
  <2>4. IsList(a) /\ IsList(b) /\ IsList(e)
    <3>1. IsList(m[i][1]) /\ IsList(m[i][2])
      BY <2>2 DEF IsList
    <3> QED
      BY <2>3, <3>1, QuotedIsList, TupleLengths
  <2>5. IsList((a \o e) \o b)
    BY <2>4, ListConcat
  <2>6. f[i] = <<None, (a \o e) \o b>>
    BY <1>1, <2>3
  <2>7. PICK w : w = (a \o e) \o b
    OBVIOUS
  <2>8. f[i] = <<None, w>> /\ IsList(w)
    BY <2>5, <2>6, <2>7
  <2>9. IsList(None)
    BY EmptyIsList DEF None
  <2> HIDE DEF f
  <2>10. PICK no : no = None
    OBVIOUS
  <2>11. f[i][1] = no /\ f[i][2] = w
    BY <2>8, <2>10
  <2> QED
    BY <2>8, <2>9, <2>10, <2>11
<1>3. f = [i \in 1..Len(m) |-> f[i]]
  BY <1>1
<1> HIDE DEF f
<1>4. IsList(f) /\ Len(f) = Len(m)
  BY <1>1, <1>3, ListMade
<1>5. Pairs(f)
  BY <1>2, <1>4 DEF Pairs
<1> QED
  BY <1>5 DEF f

LEMMA ResultIsPairs ==
  ASSUME NEW r, IsResult(r)
  PROVE  Pairs(FormatResult(r))
<1> DEFINE v == r.variant
<1>0. IsList(None)
  BY EmptyIsList DEF None
<1>1. CASE v \in {"U64", "CollectGarbage"}
  <2>1. IsList(Word(r.of))
    BY TuplesAreLists DEF Word
  <2>2. Pairs(<< <<None, Word(r.of)>> >>) /\ Pairs(<<Field("bytes_freed", Word(r.of))>>)
    BY <1>0, <2>1, OnePair, OneField
  <2> QED
    BY <1>1, <2>2, Zenon DEF FormatResult
<1>2. CASE v = "Str"
  <2>1. r.of \in Seq(STRING)
    BY <1>2 DEF IsResult
  <2>2. Pairs(<< <<None, r.of>> >>)
    BY <1>0, <2>1, OnePair DEF IsList
  <2> QED
    BY <1>2, <2>2, Zenon DEF FormatResult
<1>3. CASE v = "StringSet"
  <2>1. r.of \in Seq(Seq(STRING))
    BY <1>3 DEF IsResult
  <2>2. IsList(FormatSet(r.of))
    BY <2>1, TypedAreLines, SetIsList
  <2>3. Pairs(<< <<None, FormatSet(r.of)>> >>)
    BY <1>0, <2>2, OnePair
  <2> QED
    BY <1>3, <2>3, Zenon DEF FormatResult
<1>4. CASE v = "StringMap"
  <2>1. r.of \in Seq(Seq(STRING) \X Seq(STRING))
    BY <1>4 DEF IsResult
  <2> DEFINE f == [i \in DOMAIN r.of |-> <<None, Quoted(r.of[i][1]) \o <<SP, "=", SP>> \o Quoted(r.of[i][2])>>]
             e == <<Field("count", <<"count">>)>>
  <2>2. Pairs(f)
    BY <2>1, MapIsPairs
  <2>3. Pairs(e)
    BY OneField, TuplesAreLists
  <2>4. FormatResult(r) = e \o f
    BY <1>4, Zenon DEF FormatResult
  <2> HIDE DEF e, f
  <2> QED
    BY <2>2, <2>3, <2>4, PairsConcat
<1>5. CASE v = "Nothing"
  BY <1>5, NoPairs, Zenon DEF FormatResult
<1>6. CASE v = "Framed"
  <2>1. IsList(<<"framed", SP, "7", SP, "bytes">>)
    BY TupleLengths
  <2>2. Pairs(<< <<None, <<"framed", SP, "7", SP, "bytes">> >> >>)
    BY <1>0, <2>1, OnePair
  <2> QED
    BY <1>6, <2>2, Zenon DEF FormatResult
<1>7. CASE v \in {"PathInfo", "SubstitutablePathInfo"}
  <2> DEFINE o == r.of
  <2>1. /\ IsOption(o.deriver, Seq(STRING)) /\ IsOption(o.narHash, Seq(STRING))
        /\ IsOption(o.references, Seq(Seq(STRING)))
    BY <1>7 DEF IsResult
  <2>2. /\ o.deriver # None => IsList(o.deriver[1])
        /\ o.narHash # None => IsList(o.narHash[1])
        /\ o.references # None => IsLines(o.references[1])
    <3>1. /\ o.deriver # None => o.deriver[1] \in Seq(STRING)
          /\ o.narHash # None => o.narHash[1] \in Seq(STRING)
          /\ o.references # None => o.references[1] \in Seq(Seq(STRING))
      BY <2>1, OptionList
    <3> QED
      BY <3>1, StringsAreList
  <2> DEFINE a == <<Field("valid", Flag(o.valid))>>
             b == GivenField("deriver", o.deriver, Self)
             b0 == IF o.deriver = Some(<<>>) THEN <<>> ELSE b
             d == GivenField("narHash", o.narHash, Self)
             e == GivenField("references", o.references, FormatSet)
             g == GivenField("narSize", o.narSize, Word)
             h == GivenField("downloadSize", o.downloadSize, Word)
  <2>3. Pairs(a)
    <3>1. IsList(Flag(o.valid))
      BY TuplesAreLists DEF Flag
    <3> QED
      BY <3>1, OneField
  <2>4. Pairs(b) /\ Pairs(d) /\ Pairs(e) /\ Pairs(g) /\ Pairs(h)
    BY <2>2, GivenIsPairs, Zenon
  <2>5. Pairs(b0)
    BY <2>4, NoPairs
  <2>6. CASE v = "PathInfo"
    <3>1. FormatResult(r) = (((a \o b0) \o d) \o e) \o g
      BY <2>6, Zenon DEF FormatResult
    <3> HIDE DEF a, b0, d, e, g
    <3> QED
      BY <2>3, <2>4, <2>5, <3>1, PairsConcat
  <2>7. CASE v = "SubstitutablePathInfo"
    <3>1. FormatResult(r) = ((a \o b) \o h) \o g
      BY <2>7, Zenon DEF FormatResult
    <3> HIDE DEF a, b, h, g
    <3> QED
      BY <2>3, <2>4, <3>1, PairsConcat
  <2> QED
    BY <1>7, <2>6, <2>7
<1>8. CASE v = "Missing"
  <2> DEFINE o == r.of
             a == Field("willBuild", FormatSet(o.willBuild))
             b == Field("willSubstitute", FormatSet(o.willSubstitute))
             d == Field("unknown", FormatSet(o.unknown))
             e == Field("downloadSize", Word(o.downloadSize))
             g == Field("narSize", Word(o.narSize))
  <2>1. o.willBuild \in Seq(Seq(STRING)) /\ o.willSubstitute \in Seq(Seq(STRING)) /\ o.unknown \in Seq(Seq(STRING))
    BY <1>8 DEF IsResult
  <2>2. IsList(FormatSet(o.willBuild)) /\ IsList(FormatSet(o.willSubstitute)) /\ IsList(FormatSet(o.unknown))
    BY <2>1, TypedAreLines, SetIsList
  <2>3. IsList(Word(o.downloadSize)) /\ IsList(Word(o.narSize))
    BY TuplesAreLists DEF Word
  <2>4. Pairs(<<a>>) /\ Pairs(<<b>>) /\ Pairs(<<d>>) /\ Pairs(<<e>>) /\ Pairs(<<g>>)
    BY <2>2, <2>3, OneField
  <2>5. FormatResult(r) = <<a, b, d, e, g>>
    BY <1>8, Zenon DEF FormatResult
  <2> HIDE DEF a, b, d, e, g
  <2>6. ASSUME NEW x, Pairs(<<x>>)
        PROVE  IsList(x[1]) /\ IsList(x[2])
    <3>1. PICK s : s = <<x>>
      OBVIOUS
    <3>2. Len(s) = 1 /\ s[1] = x
      BY <3>1, TupleFacts
    <3>3. Pairs(s)
      BY <2>6, <3>1
    <3> QED
      BY <3>2, <3>3 DEF Pairs
  <2>7. PICK s : s = <<a, b, d, e, g>>
    OBVIOUS
  <2>8. s[1] = a /\ s[2] = b /\ s[3] = d /\ s[4] = e /\ s[5] = g
    BY <2>7
  <2>9. IsList(s) /\ Len(s) = 5
    BY <2>7, TupleLengths
  <2>10. \A i \in 1..5 : i = 1 \/ i = 2 \/ i = 3 \/ i = 4 \/ i = 5
    OBVIOUS
  <2>11. \A i \in 1..5 : IsList(s[i][1]) /\ IsList(s[i][2])
    BY <2>4, <2>6, <2>8, <2>10
  <2>12. Pairs(s)
    BY <2>9, <2>11 DEF Pairs
  <2> QED
    BY <2>5, <2>7, <2>12
<1> QED
  BY <1>1, <1>2, <1>3, <1>4, <1>5, <1>6, <1>7, <1>8 DEF IsResult

LEMMA SubjectsOfResponses ==
  /\ Subject(<<"response">>) /\ Subject(<<"stderr.count">>) /\ Subject(<<"error">>)
  /\ \A x : IsList(x) => Subject(<<"result">> \o x)
<1>1. \A w \in {"response", "stderr.count", "error", "result"} : w # NL /\ w # "nwscript"
  BY DEF NL
<1>2. ASSUME NEW w \in {"response", "stderr.count", "error", "result"}
      PROVE  Subject(<<w>>)
  <2>1. IsList(<<w>>) /\ Len(<<w>>) = 1 /\ <<w>>[1] = w
    BY TuplesAreLists
  <2> QED
    BY <1>1, <2>1 DEF Subject
<1>3. ASSUME NEW x, IsList(x)
      PROVE  Subject(<<"result">> \o x)
  <2>1. PICK a : a = <<"result">>
    OBVIOUS
  <2>2. IsList(a) /\ Len(a) = 1 /\ a[1] = "result"
    BY <2>1, TuplesAreLists
  <2>3. Len(x) \in Nat
    BY <1>3, ListFacts
  <2>4. PICK y : y = a \o x
    OBVIOUS
  <2>5. /\ IsList(y) /\ Len(y) = Len(a) + Len(x)
        /\ \A j \in 1..Len(a) : y[j] = a[j]
    BY <1>3, <2>2, <2>4, ConcatAt
  <2>6. IsList(y) /\ Len(y) >= 1 /\ y[1] = "result"
    BY <2>2, <2>3, <2>5
  <2> QED
    BY <1>1, <2>1, <2>4, <2>6 DEF Subject
<1> QED
  BY <1>2, <1>3

\* Each line of format_response is a comment.
LEMMA ResponseIsRemarks ==
  ASSUME NEW resp, IsResponse(resp)
  PROVE  Remarks(FormatResponse(resp))
<1> DEFINE fs == FormatResult(resp.result[1])
           rest == [i \in DOMAIN fs |-> Comment(<<"result">> \o fs[i][1], fs[i][2])]
           a == <<Comment(<<"response">>, <<resp.terminal>>)>>
           b == IF resp.count = "0" \/ resp.count = "1" THEN <<>>
                ELSE <<Comment(<<"stderr.count">>, <<resp.count>>)>>
           d == IF resp.error = None THEN <<>> ELSE <<Comment(<<"error">>, resp.error[1])>>
           e == IF resp.result = None THEN <<>> ELSE rest
<1>1. Remarks(a)
  BY TuplesAreLists, SubjectsOfResponses, CommentIsRemark, OneRemark
<1>2. Remarks(b)
  <2>1. Remarks(<<Comment(<<"stderr.count">>, <<resp.count>>)>>)
    BY TuplesAreLists, SubjectsOfResponses, CommentIsRemark, OneRemark
  <2> QED
    BY <2>1, NoPairs
<1>3. Remarks(d)
  <2>1. resp.error # None => resp.error[1] \in Seq(STRING)
    BY OptionList DEF IsResponse
  <2>2. resp.error # None => IsList(resp.error[1])
    BY <2>1 DEF IsList
  <2>3. resp.error # None => Remarks(<<Comment(<<"error">>, resp.error[1])>>)
    BY <2>2, TuplesAreLists, SubjectsOfResponses, CommentIsRemark, OneRemark
  <2> QED
    BY <2>3, NoPairs
<1>4. Remarks(e)
  <2>1. CASE resp.result = None
    BY <2>1, NoPairs
  <2>2. CASE resp.result # None
    <3>1. Pairs(fs)
      BY <2>2, ResultIsPairs DEF IsResponse
    <3>2. IsList(fs) /\ Len(fs) \in Nat /\ DOMAIN fs = 1..Len(fs)
      BY <3>1, ListFacts DEF Pairs
    <3>3. ASSUME NEW i \in 1..Len(fs)
          PROVE  IsRemark(rest[i])
      <4>1. PICK x, y : x = fs[i][1] /\ y = fs[i][2]
        OBVIOUS
      <4>2. IsList(x) /\ IsList(y)
        BY <3>1, <4>1 DEF Pairs
      <4>3. Subject(<<"result">> \o x)
        BY <4>2, SubjectsOfResponses
      <4>4. rest[i] = Comment(<<"result">> \o x, y)
        BY <3>2, <4>1
      <4> HIDE DEF rest, fs
      <4>5. PICK z : z = <<"result">> \o x
        OBVIOUS
      <4> QED
        BY <4>2, <4>3, <4>4, <4>5, CommentIsRemark
    <3>4. rest = [i \in 1..Len(fs) |-> rest[i]]
      BY <3>2
    <3> HIDE DEF rest, fs
    <3>5. IsList(rest) /\ Len(rest) = Len(fs)
      BY <3>2, <3>4, ListMade
    <3> QED
      BY <2>2, <3>3, <3>5 DEF Remarks
  <2> QED
    BY <2>1, <2>2
<1>5. FormatResponse(resp) = ((a \o b) \o d) \o e
  BY Zenon DEF FormatResponse
<1> HIDE DEF a, b, d, e
<1> QED
  BY <1>1, <1>2, <1>3, <1>4, <1>5, RemarksConcat

LEMMA ResponseIsLines ==
  ASSUME NEW resp, IsResponse(resp)
  PROVE  IsLines(FormatResponse(resp))
BY ResponseIsRemarks, RemarkIsList DEF Remarks, IsLines

-----------------------------------------------------------------------------
(* The text that unpack writes.                                            *)

LEMMA CallCases ==
  ASSUME NEW c, NEW v, IsCall(c, v)
  PROVE  IsSentCall(c) \/ (IsRawCall(c) /\ c.args = <<>>)
<1>1. c.op \in Ops \cup {"Unknown"} /\ c.variant = ReadVariant(c.op, v)
  BY DEF IsCall
<1>2. c.variant = "RawBytes" \/ (c.op \in Ops /\ c.variant = ParseVariant(c.op))
  BY <1>1, VariantCases
<1>3. CASE c.variant # ParseVariant(c.op)
  BY <1>1, <1>2, <1>3 DEF IsCall, IsRawCall
<1>4. CASE c.variant = ParseVariant(c.op)
  <2>1. c.op \in Ops
    <3> SUFFICES ASSUME c.op \notin Ops
                 PROVE  FALSE
      OBVIOUS
    <3>1. c.op = "Unknown" /\ c.variant = "RawBytes"
      BY <1>1, <1>2
    <3>2. "Unknown" \in Special
      BY DEF Special
    <3>3. c.op \notin PathOps \cup StringOps \cup NoArgOps \cup ComplexOps
      BY <3>1, <3>2, KindsDisjoint
    <3>4. ParseVariant(c.op) = "Unknown"
      BY <3>1, <3>3 DEF ParseVariant
    <3> QED
      BY <1>4, <3>1, <3>4
  <2>2. DOMAIN c.args = HeadKeys(c.op) \cup DOMAIN ParseKeys(c.op)
    <3>1. DOMAIN c.args = DOMAIN ParseCall(c.op, <<>>).args
      BY <1>4 DEF IsCall
    <3>2. PICK h, ks : h = ParseHead(c.op, <<>>) /\ ks = [k \in DOMAIN ParseKeys(c.op) |-> Missing(ParseKeys(c.op)[k])]
      OBVIOUS
    <3>3. ParseCall(c.op, <<>>).args = Extended(h, ks)
      BY <3>2 DEF ParseCall
    <3>4. DOMAIN Extended(h, ks) = DOMAIN h \cup DOMAIN ks
      BY DEF Extended
    <3>5. DOMAIN ks = DOMAIN ParseKeys(c.op)
      BY <3>2
    <3> QED
      BY <3>1, <3>2, <3>3, <3>4, <3>5 DEF HeadKeys
  <2>3. \A key \in HeadKeys(c.op) : IsHeadValue(key, c.args[key])
    BY <1>4 DEF IsCall, HeadKeys
  <2>4. \A i \in 1..Fields(c) : IsSentValue(HowOf(c, i), ValueOf(c, i))
    <3>1. KeysMatch(c.op, FormatKeys(c.variant), ParseKeys(c.op))
      BY <1>4, <2>1, KeysOf
    <3>2. DOMAIN FormatKeys(c.variant) = 1..Fields(c)
      BY <3>1, ListFacts DEF KeysMatch, Fields
    <3>3. \A i \in DOMAIN FormatKeys(c.variant) : IsValue(HowOf(c, i), ValueOf(c, i))
      BY <1>4 DEF IsCall, HowOf, ValueOf, KeyOf
    <3> QED
      BY <3>2, <3>3 DEF IsSentValue
  <2> QED
    BY <1>4, <2>1, <2>2, <2>3, <2>4 DEF IsSentCall
<1> QED
  BY <1>3, <1>4

\* What is kept of a call whose data went to a file.
LEMMA WithFileIs ==
  ASSUME NEW e, NEW v, IsCall(e, v), IsLarge(e), NEW i \in DOMAIN FileNames,
         {"args", "op", "variant", "at", "response"} \subseteq DOMAIN e,
         NEW w, w = WithFile(e, FileNames[i])
  PROVE  /\ IsSentCall(w) /\ w.op = e.op /\ w.variant = e.variant
         /\ w.at = e.at /\ w.response = e.response
         /\ DOMAIN w.args = DOMAIN e.args /\ w.args["data"] = FileRef(FileNames[i])
         /\ \A k \in DOMAIN e.args : k # "data" => w.args[k] = e.args[k]
         /\ "data" \notin HeadKeys(e.op)
<1>1. IsSentCall(e)
  <2>1. "data" \in DOMAIN e.args
    BY DEF IsLarge
  <2>2. DOMAIN <<>> = {}
    OBVIOUS
  <2>3. e.args # <<>>
    BY <2>1, <2>2
  <2> QED
    BY <2>3, CallCases
<1>2. PICK x : x = FileRef(FileNames[i])
  OBVIOUS
<1>3. w = [e EXCEPT !.args = [e.args EXCEPT !.data = x]]
  BY <1>2 DEF WithFile
<1>4. w.op = e.op /\ w.variant = e.variant /\ w.at = e.at /\ w.response = e.response
  BY <1>3
<1>5. w.args = [e.args EXCEPT !.data = x]
  BY <1>3
<1>6. /\ DOMAIN w.args = DOMAIN e.args /\ w.args["data"] = x
      /\ \A k \in DOMAIN e.args : k # "data" => w.args[k] = e.args[k]
  BY <1>5 DEF IsLarge
<1>7. "data" \notin HeadKeys(e.op)
  <2>1. HeadTable(ParseVariant(e.op), HeadKeys(e.op))
    BY <1>1, HeadKeysAre DEF IsSentCall
  <2> QED
    BY <2>1 DEF HeadTable
<1>8. IsSentCall(w)
  <2>1. w.op \in Ops /\ w.variant = ParseVariant(w.op) /\ HeadKeys(w.op) = HeadKeys(e.op)
    BY <1>1, <1>4 DEF IsSentCall
  <2>2. DOMAIN w.args = HeadKeys(w.op) \cup DOMAIN ParseKeys(w.op)
    BY <1>1, <1>4, <1>6 DEF IsSentCall
  <2>3. ASSUME NEW key \in HeadKeys(w.op)
        PROVE  IsHeadValue(key, w.args[key])
    <3>1. key \in HeadKeys(e.op) /\ key # "data" /\ key \in DOMAIN e.args
      BY <1>1, <1>7, <2>1 DEF IsSentCall
    <3>2. w.args[key] = e.args[key]
      BY <1>6, <3>1
    <3>3. IsHeadValue(key, e.args[key])
      BY <1>1, <3>1 DEF IsSentCall
    <3> QED
      BY <3>2, <3>3
  <2>4. ASSUME NEW j \in 1..Fields(w)
        PROVE  IsSentValue(HowOf(w, j), ValueOf(w, j))
    <3>1. Fields(w) = Fields(e) /\ HowOf(w, j) = HowOf(e, j) /\ KeyOf(w, j) = KeyOf(e, j)
      BY <1>4 DEF Fields, HowOf, KeyOf
    <3>2. KeysMatch(e.op, FormatKeys(e.variant), ParseKeys(e.op))
      BY <1>1, KeysOf DEF IsSentCall
    <3>3. KeyOf(e, j) \in DOMAIN ParseKeys(e.op) /\ (HowOf(e, j) = "data" <=> KeyOf(e, j) = "data")
      BY <3>1, <3>2 DEF KeysMatch, Fields, KeyOf, HowOf
    <3>4. CASE KeyOf(e, j) = "data"
      <4>1. ValueOf(w, j) = x
        BY <1>6, <3>1, <3>4 DEF ValueOf
      <4> QED
        BY <1>2, <3>1, <3>3, <3>4, <4>1 DEF IsSentValue
    <3>5. CASE KeyOf(e, j) # "data"
      <4>1. KeyOf(e, j) \in DOMAIN e.args
        BY <1>1, <3>3 DEF IsSentCall
      <4>2. ValueOf(w, j) = ValueOf(e, j)
        BY <1>6, <3>1, <3>5, <4>1 DEF ValueOf
      <4>3. IsSentValue(HowOf(e, j), ValueOf(e, j))
        BY <1>1, <3>1 DEF IsSentCall
      <4> QED
        BY <3>1, <4>2, <4>3
    <3> QED
      BY <3>4, <3>5
  <2> QED
    BY <2>1, <2>2, <2>3, <2>4 DEF IsSentCall
<1> QED
  BY <1>2, <1>4, <1>6, <1>7, <1>8

LEMMA CallWrites ==
  ASSUME NEW c, IsSentCall(c) \/ IsRawCall(c)
  PROVE  IsLines(FormatCall(c)) /\ FormatCall(c) # <<>>
<1>1. CASE IsRawCall(c)
  BY <1>1, RawCallIs
<1>2. CASE IsSentCall(c)
  <2>1. CallLines(c, FormatCall(c)) /\ Fields(c) \in 0..13
    BY <1>2, CallLaidOut, OverridesLast
  <2>2. Overrides(c) \in Seq(Seq(STRING) \X Seq(STRING))
    BY <1>2, OverridesLast
  <2>3. Len(Overrides(c)) \in Nat
    BY <2>2, LenProperties
  <2>4. IsLines(FormatCall(c)) /\ Len(FormatCall(c)) = (1 + Fields(c)) + Len(Overrides(c))
    BY <2>1 DEF CallLines
  <2>5. Len(FormatCall(c)) # 0
    BY <2>1, <2>3, <2>4
  <2> QED
    BY <2>4, <2>5, EmptyIsList
<1> QED
  BY <1>1, <1>2

\* format_preamble writes a list of lines.
LEMMA PreambleIsList ==
  ASSUME NEW s \in Scripts
  PROVE  IsList(FormatPreamble(s))
<1>1. /\ IsList(FormatSet(s.features)) /\ IsList(FormatSet(s.server_features))
      /\ s.daemon # None => IsList(s.daemon[1])
  <2>1. /\ s.features \in Seq(Seq(STRING)) /\ s.server_features \in Seq(Seq(STRING))
        /\ IsOption(s.daemon, Seq(STRING))
    BY ScriptsAssumption
  <2>2. s.daemon # None => s.daemon[1] \in Seq(STRING)
    BY <2>1, OptionList
  <2> QED
    BY <2>1, <2>2, TypedAreLines, SetIsList DEF IsList
<1> DEFINE a == <<"#", SP, "nwscript">>
           b == <<"protocol", ":", SP, "1", ".", ToString(s.version)>>
           cc == <<"features", ":", SP>>
           c == cc \o FormatSet(s.features)
           dd == <<"#", SP, "daemon", ":", SP>>
           d == dd \o s.daemon[1]
           t == <<"#", SP, "trust", ":", SP, s.trust[1]>>
           ff == <<"#", SP, "server_features", ":", SP>>
           f == ff \o FormatSet(s.server_features)
           e == <<"---">>
           x == IF s.daemon = None THEN <<>> ELSE <<d>>
           y == IF s.trust = None THEN <<>> ELSE <<t>>
<1>2. IsList(a) /\ IsList(cc) /\ IsList(dd) /\ IsList(ff) /\ IsList(e)
  BY TuplesAreLists
<1>3. IsList(b)
  BY TuplesAreLists, Zenon
<1>4. IsList(t)
  BY TuplesAreLists
<1> HIDE DEF a, cc, dd, ff, e
<1>5. IsList(c) /\ IsList(f) /\ (s.daemon # None => IsList(d))
  BY <1>1, <1>2, ListConcat
<1> HIDE DEF b, c, d, t, f
<1>6. IsLines(<<a, b, c>>)
  <2>1. <<a, b, c>> \in Seq({a, b, c}) /\ \A i \in 1..Len(<<a, b, c>>) : <<a, b, c>>[i] \in {a, b, c}
    OBVIOUS
  <2> QED
    BY <1>2, <1>3, <1>5, <2>1 DEF IsLines, IsList
<1>7. IsLines(<<f, e>>)
  <2>1. <<f, e>> \in Seq({f, e}) /\ \A i \in 1..Len(<<f, e>>) : <<f, e>>[i] \in {f, e}
    OBVIOUS
  <2> QED
    BY <1>2, <1>5, <2>1 DEF IsLines, IsList
<1>8. IsLines(<<>>)
  <2>1. <<>> \in Seq({}) /\ Len(<<>>) = 0
    OBVIOUS
  <2> QED
    BY <2>1 DEF IsLines, IsList
<1>9. IsLines(x) /\ IsLines(y)
  BY <1>4, <1>5, <1>8, OneLineIsLines
<1> HIDE DEF x, y
<1>10. IsLines(((<<a, b, c>> \o x) \o y) \o <<f, e>>)
  BY <1>6, <1>7, <1>9, LinesConcat
<1>11. FormatPreamble(s) = Untimed(((<<a, b, c>> \o x) \o y) \o <<f, e>>)
  BY Zenon DEF FormatPreamble, Maybe, a, b, c, cc, d, dd, t, f, ff, e, x, y
<1> QED
  BY <1>10, <1>11, UntimedIsList

\* format_entry does too.
LEMMA EntryIsList ==
  ASSUME NEW e, IsSentCall(e) \/ IsRawCall(e), IsResponse(e.response)
  PROVE  IsList(FormatEntry(e))
<1> DEFINE call == FormatCall(e)
           blank == <<[at |-> None, text |-> <<>>]>>
           first == Lines(Some(Micros(e.at)), call[1])
           rest == Untimed(Tail(call))
           last == Untimed(FormatResponse(e.response))
<1>1. IsLines(call) /\ call # <<>>
  BY CallWrites
<1>2. IsList(call[1]) /\ IsLines(Tail(call))
  <2> HIDE DEF call
  <2>1. call \in Seq(Range(call)) /\ Len(call) \in Nat
    BY <1>1, ListFacts DEF IsLines
  <2>2. Len(call) > 0
    BY <1>1, <2>1, EmptySeq, LenProperties
  <2>3. Tail(call) \in Seq(Range(call)) /\ Len(Tail(call)) = Len(call) - 1
        /\ \A i \in 1..Len(Tail(call)) : Tail(call)[i] = call[i + 1]
    BY <1>1, <2>1, HeadTailProperties
  <2>4. \A i \in 1..Len(Tail(call)) : i + 1 \in 1..Len(call)
    BY <2>1, <2>3
  <2> QED
    BY <1>1, <2>2, <2>1, <2>3, <2>4 DEF IsLines, IsList
<1> HIDE DEF call
<1>3. IsList(first) /\ IsList(rest) /\ IsList(last)
  BY <1>2, LinesAreList, UntimedIsList, ResponseIsLines
<1>4. IsList(blank)
  <2> DEFINE z == [at |-> None, text |-> <<>>]
  <2> HIDE DEF z
  <2>1. <<z>> \in Seq({z})
    OBVIOUS
  <2> QED
    BY <2>1 DEF IsList, z
<1>5. FormatEntry(e) = ((blank \o first) \o rest) \o last
  BY DEF FormatEntry, call
<1> HIDE DEF blank, first, rest, last
<1> QED
  BY <1>3, <1>4, <1>5, ListConcat
====

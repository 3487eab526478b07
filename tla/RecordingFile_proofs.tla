------------------------- MODULE RecordingFile_proofs -------------------------
(***************************************************************************)
(* What is read of a recording, for records of any length and number and   *)
(* wherever it was torn or cut.                                            *)
(*                                                                         *)
(* The bytes of a file stand in the order of their records, and those of   *)
(* one record beside each other: so every record that is in the file as a  *)
(* whole is one that the reader comes by.                                  *)
(***************************************************************************)
EXTENDS RecordingFile, SequenceTheorems, FiniteSetTheorems, TLAPS

\* Size, of the records w.
SizeIn(w, no) == IF no = 0 THEN HeaderSize ELSE DataAt + w[no].len

\* The bytes of file f are of the records w.
Genuine(w, f) ==
  \A p \in 1..Len(f) : f[p].no \in 0..Len(w) /\ f[p].at \in 1..SizeIn(w, f[p].no)

\* Before a byte are those of its record that belong there.
Aligned(f) ==
  \A p \in 1..Len(f) :
    /\ f[p].at <= p
    /\ \A q \in 1..p : p - q < f[p].at => f[q].no = f[p].no /\ f[q].at = f[p].at - (p - q)

\* Behind it are others of its record, or those of later ones.
Ordered(f) ==
  \A q \in 1..Len(f) : \A p \in 1..q :
    /\ f[p].no <= f[q].no
    /\ f[p].no = f[q].no => f[q].at = f[p].at + (q - p)

Headed(f) == \A p \in 1..Len(f) : p <= HeaderSize => f[p].no = 0 /\ f[p].at = p

\* Records are whole, but for those in t, and for one that the end of the file cuts
\* off.
Unbroken(w, f, t) ==
  \A q \in 1..Len(f) : \A p \in 1..q :
    f[p].no \notin t /\ q - p <= SizeIn(w, f[p].no) - f[p].at => f[p].no = f[q].no

\* None of the others is cut off.
Finished(w, f, t) ==
  \A p \in 1..Len(f) :
    f[p].no \notin t => p + (SizeIn(w, f[p].no) - f[p].at) <= Len(f)

FileInv ==
  /\ Genuine(written, file) /\ Aligned(file) /\ Ordered(file) /\ Headed(file)
  /\ ~cut => Len(file) >= HeaderSize
  /\ Unbroken(written, file, torn)
  /\ ~cut => Finished(written, file, torn)

\* Of the whole records, those before record n.
Before(whole, n) == {no \in whole : no < n}

\* The next record that is read belongs where a torn one stands.
Lost == \E t \in torn : Cardinality(Before(Kept, t)) = Len(read)

\* The reader has read the first n bytes of the record in hand, or bytes behind a
\* torn one.
Within(n) ==
  /\ pos # 0
  /\ rec.no # 0 =>
       /\ file[pos].no = rec.no /\ file[pos].at = n
       /\ Sound(Len(read)) => Cardinality(Before(Kept, rec.no)) = Len(read)
  /\ rec.no = 0 => torn # {} /\ (Sound(Len(read)) => Lost)

\* It knows its direction, its length.
DirKnown == rec.no # 0 => rec.dir = written[rec.no].dir
LenKnown == rec.no # 0 => rec.len = written[rec.no].len

ReadInv ==
  /\ pc \in {"writing", "header"} => read = <<>> /\ pos = 0
  /\ pc = "writing" => ~cut
  /\ pc = "offset" =>
       /\ pos # 0
       /\ Sound(Len(read)) =>
            /\ file[pos].at = SizeIn(written, file[pos].no)
            /\ Cardinality(Before(Kept, file[pos].no + 1)) = Len(read)
  /\ pc = "direction" => Within(OffsetSize)
  /\ pc = "length" => Within(OffsetSize + DirectionSize) /\ DirKnown
  /\ pc = "data" => Within(DataAt) /\ DirKnown /\ LenKnown

\* The whole record that the i-th one read is has its last byte behind the reader.
Behind(i) ==
  LET no == read[i].no
  IN  /\ read[i].dir = written[no].dir /\ read[i].len = written[no].len
      /\ \E p \in 1..pos : file[p].no = no /\ file[p].at = SizeIn(written, no)

\* The k-th record that is read is the k-th whole one, up to one made of parts.
PrefixInv ==
  \A i \in 1..Len(read) :
    /\ read[i].no # 0 => Behind(i)
    /\ read[i].no = 0 => torn # {}
    /\ Sound(i) => Cardinality(Before(Kept, read[i].no)) = i - 1

IInv ==
  /\ TypeOK /\ FileInv /\ ReadInv /\ PrefixInv
  /\ TornMisleads /\ DoneIsComplete /\ ErrorMeansCut

-----------------------------------------------------------------------------
(* Files.                                                                  *)

RecordType == [dir : Dirs, len : Lengths]
ByteOf(w) == [no : 0..Len(w), at : Nat]

\* The size of a record is a number.
LEMMA ChunkSize ==
  ASSUME NEW r \in RecordType
  PROVE  r.len \in Nat \ {0} /\ DataAt \in Nat /\ DataAt + r.len \in Nat
<1>1. r.len \in Lengths
  BY DEF RecordType
<1>2. r.len \in Nat \ {0}
  BY <1>1, FileAssumption
<1>3. DataAt = 13
  BY DEF DataAt, OffsetSize, DirectionSize, LengthSize
<1> QED
  BY <1>2, <1>3

\* The sizes of records are numbers, and a record is longer than what precedes
\* its data.
LEMMA Sizes ==
  ASSUME NEW w \in Seq(RecordType), NEW no \in 0..Len(w)
  PROVE  /\ SizeIn(w, no) \in Nat /\ Len(w) \in Nat
         /\ no # 0 => /\ w[no].len \in Nat \ {0} /\ SizeIn(w, no) > DataAt
                      /\ SizeIn(w, no) = DataAt + w[no].len
<1>1. Len(w) \in Nat /\ DataAt \in Nat /\ HeaderSize \in Nat
  BY LenProperties DEF DataAt, HeaderSize, OffsetSize, DirectionSize, LengthSize
<1>2. CASE no = 0
  BY <1>1, <1>2 DEF SizeIn
<1>3. CASE no # 0
  <2>1. no \in 1..Len(w)
    BY <1>1, <1>3
  <2>2. w[no] \in RecordType
    BY <2>1, ElementOfSeq
  <2>3. w[no].len \in Nat \ {0}
    BY <2>2, FileAssumption DEF RecordType
  <2> QED
    BY <1>1, <1>3, <2>3 DEF SizeIn
<1> QED
  BY <1>2, <1>3

\* The first bytes of a record.
LEMMA ImageFacts ==
  ASSUME NEW k \in Nat, NEW n \in Nat
  PROVE  /\ Image(k, n) \in Seq([no : 0..k, at : Nat]) /\ Len(Image(k, n)) = n
         /\ \A i \in 1..n : Image(k, n)[i].no = k /\ Image(k, n)[i].at = i
<1> DEFINE m == Image(k, n)
<1>1. m = [i \in 1..n |-> [no |-> k, at |-> i]]
  BY DEF Image
<1>2. m \in [1..n -> [no : 0..k, at : Nat]]
  BY <1>1
<1>3. \A i \in 1..n : m[i].no = k /\ m[i].at = i
  BY <1>1
<1> HIDE DEF m
<1>4. m \in Seq([no : 0..k, at : Nat])
  BY <1>2, SeqDef
<1>5. DOMAIN m = 1..n /\ DOMAIN m = 1..Len(m) /\ Len(m) \in Nat
  BY <1>2, <1>4, LenProperties
<1>6. Len(m) = n
  BY <1>5
<1> QED
  BY <1>3, <1>4, <1>6 DEF m

\* A file to which one more record, or the first part of it, is added.
LEMMA Added ==
  ASSUME NEW w \in Seq(RecordType), NEW r \in RecordType, NEW f \in Seq(ByteOf(w)),
         NEW n \in 0..(DataAt + r.len)
  PROVE  LET g  == f \o Image(Len(w) + 1, n)
             w2 == Append(w, r)
         IN  /\ w2 \in Seq(RecordType) /\ Len(w2) = Len(w) + 1 /\ g \in Seq(ByteOf(w2))
             /\ Len(g) = Len(f) + n /\ Len(f) \in Nat /\ Len(w) \in Nat
             /\ \A p \in 1..Len(f) : g[p] = f[p] /\ f[p].no \in 0..Len(w) /\ f[p].at \in Nat
             /\ \A p \in (Len(f) + 1)..(Len(f) + n) :
                  g[p].no = Len(w) + 1 /\ g[p].at = p - Len(f)
             /\ \A no \in 0..Len(w) : SizeIn(w2, no) = SizeIn(w, no)
             /\ SizeIn(w2, Len(w) + 1) = DataAt + r.len
<1> DEFINE k  == Len(w) + 1
           m  == Image(k, n)
           g  == f \o m
           w2 == Append(w, r)
           B  == [no : 0..k, at : Nat]
<1>1. Len(w) \in Nat /\ Len(f) \in Nat /\ k \in Nat
  BY LenProperties
<1>2. n \in Nat
  <2>1. DataAt + r.len \in Nat
    BY ChunkSize
  <2> QED
    BY <2>1
<1>3. m \in Seq(B) /\ Len(m) = n /\ \A i \in 1..n : m[i].no = k /\ m[i].at = i
  BY <1>1, <1>2, ImageFacts
<1> HIDE DEF m
<1>4. w2 \in Seq(RecordType) /\ Len(w2) = k
      /\ (\A i \in 1..Len(w) : w2[i] = w[i]) /\ w2[k] = r
  BY <1>1, AppendProperties
<1> HIDE DEF w2
<1>5. f \in Seq(B) /\ B = ByteOf(w2)
  <2>1. ByteOf(w) \subseteq B
    BY <1>1 DEF ByteOf
  <2>2. f \in Seq(B)
    BY <2>1, SeqMonotonic
  <2> QED
    BY <1>4, <2>2 DEF ByteOf
<1> HIDE DEF B
<1>6. /\ g \in Seq(B) /\ Len(g) = Len(f) + n
      /\ \A p \in 1..(Len(f) + n) : g[p] = IF p <= Len(f) THEN f[p] ELSE m[p - Len(f)]
  BY <1>3, <1>5, ConcatProperties
<1> HIDE DEF g
<1>7. \A p \in 1..Len(f) : g[p] = f[p]
  BY <1>1, <1>2, <1>6
<1>8. ASSUME NEW p \in 1..Len(f)
      PROVE  f[p].no \in 0..Len(w) /\ f[p].at \in Nat
  <2>1. f[p] \in ByteOf(w)
    BY ElementOfSeq
  <2> QED
    BY <2>1 DEF ByteOf
<1>9. ASSUME NEW p \in (Len(f) + 1)..(Len(f) + n)
      PROVE  g[p].no = k /\ g[p].at = p - Len(f)
  <2>1. p \in 1..(Len(f) + n) /\ ~(p <= Len(f)) /\ p - Len(f) \in 1..n
    BY <1>1, <1>2
  <2> QED
    BY <1>3, <1>6, <2>1
<1>10. \A no \in 0..Len(w) : SizeIn(w2, no) = SizeIn(w, no)
  BY <1>1, <1>4 DEF SizeIn
<1>11. SizeIn(w2, k) = DataAt + r.len
  BY <1>1, <1>4 DEF SizeIn
<1> QED
  BY <1>1, <1>4, <1>5, <1>6, <1>7, <1>8, <1>9, <1>10, <1>11 DEF g, w2, m

\* Such a file is in order like the one before it.
LEMMA AddedInOrder ==
  ASSUME NEW w \in Seq(RecordType), NEW r \in RecordType, NEW f \in Seq(ByteOf(w)),
         NEW n \in 0..(DataAt + r.len), NEW t, NEW t2, t \subseteq t2,
         n = DataAt + r.len \/ Len(w) + 1 \in t2,
         Genuine(w, f), Aligned(f), Ordered(f), Headed(f), Len(f) >= HeaderSize,
         Unbroken(w, f, t), Finished(w, f, t)
  PROVE  LET g  == f \o Image(Len(w) + 1, n)
             w2 == Append(w, r)
         IN  /\ Genuine(w2, g) /\ Aligned(g) /\ Ordered(g) /\ Headed(g)
             /\ Len(g) >= HeaderSize
             /\ Unbroken(w2, g, t2) /\ Finished(w2, g, t2)
<1> DEFINE k  == Len(w) + 1
           g  == f \o Image(k, n)
           w2 == Append(w, r)
           size == DataAt + r.len
<1>1. /\ w2 \in Seq(RecordType) /\ Len(w2) = k /\ g \in Seq(ByteOf(w2))
      /\ Len(g) = Len(f) + n /\ Len(f) \in Nat /\ Len(w) \in Nat
      /\ \A p \in 1..Len(f) : g[p] = f[p] /\ f[p].no \in 0..Len(w) /\ f[p].at \in Nat
      /\ \A p \in (Len(f) + 1)..(Len(f) + n) : g[p].no = k /\ g[p].at = p - Len(f)
      /\ \A no \in 0..Len(w) : SizeIn(w2, no) = SizeIn(w, no)
      /\ SizeIn(w2, k) = size
  BY Added
<1>2. size \in Nat /\ n \in Nat /\ n <= size /\ k \in Nat
  <2>1. size \in Nat
    BY ChunkSize
  <2> QED
    BY <1>1, <2>1
<1> HIDE DEF g, w2, size
<1>3. \A p \in 1..Len(g) : p \in 1..Len(f) \/ p \in (Len(f) + 1)..(Len(f) + n)
  BY <1>1, <1>2
<1>4. Genuine(w2, g)
  <2> SUFFICES ASSUME NEW p \in 1..Len(g)
               PROVE  g[p].no \in 0..Len(w2) /\ g[p].at \in 1..SizeIn(w2, g[p].no)
    BY DEF Genuine
  <2>1. CASE p \in 1..Len(f)
    BY <1>1, <2>1 DEF Genuine
  <2>2. CASE p \in (Len(f) + 1)..(Len(f) + n)
    <3>1. g[p].no = k /\ g[p].at = p - Len(f)
      BY <1>1, <2>2
    <3>2. p - Len(f) \in 1..size /\ k \in 0..k
      BY <1>1, <1>2, <2>2
    <3> QED
      BY <1>1, <3>1, <3>2
  <2> QED
    BY <1>3, <2>1, <2>2
<1>5. Aligned(g)
  <2> SUFFICES ASSUME NEW p \in 1..Len(g)
               PROVE  /\ g[p].at <= p
                      /\ \A q \in 1..p : p - q < g[p].at =>
                           g[q].no = g[p].no /\ g[q].at = g[p].at - (p - q)
    BY DEF Aligned
  <2>1. CASE p \in 1..Len(f)
    <3>1. \A q \in 1..p : q \in 1..Len(f)
      BY <1>1, <2>1
    <3> QED
      BY <1>1, <2>1, <3>1 DEF Aligned
  <2>2. CASE p \in (Len(f) + 1)..(Len(f) + n)
    <3>1. g[p].no = k /\ g[p].at = p - Len(f)
      BY <1>1, <2>2
    <3>2. ASSUME NEW q \in 1..p, p - q < p - Len(f)
          PROVE  q \in (Len(f) + 1)..(Len(f) + n) /\ (p - Len(f)) - (p - q) = q - Len(f)
      BY <1>1, <1>2, <2>2, <3>2
    <3>3. p - Len(f) <= p
      BY <1>1, <2>2
    <3> QED
      BY <1>1, <3>1, <3>2, <3>3
  <2> QED
    BY <1>3, <2>1, <2>2
<1>6. Ordered(g)
  <2> SUFFICES ASSUME NEW q \in 1..Len(g), NEW p \in 1..q
               PROVE  /\ g[p].no <= g[q].no
                      /\ g[p].no = g[q].no => g[q].at = g[p].at + (q - p)
    BY DEF Ordered
  <2>1. CASE q \in 1..Len(f)
    <3>1. p \in 1..Len(f)
      BY <1>1, <2>1
    <3> QED
      BY <1>1, <2>1, <3>1 DEF Ordered
  <2>2. CASE q \in (Len(f) + 1)..(Len(f) + n)
    <3>1. g[q].no = k /\ g[q].at = q - Len(f)
      BY <1>1, <2>2
    <3>2. CASE p \in 1..Len(f)
      <4>1. g[p].no \in 0..Len(w)
        BY <1>1, <3>2
      <4> QED
        BY <1>1, <3>1, <4>1
    <3>3. CASE p \in (Len(f) + 1)..(Len(f) + n)
      <4>1. g[p].no = k /\ g[p].at = p - Len(f)
        BY <1>1, <3>3
      <4> QED
        BY <1>1, <1>2, <3>1, <4>1
    <3>4. p \in 1..Len(g)
      BY <1>1
    <3> QED
      BY <1>3, <3>2, <3>3, <3>4
  <2> QED
    BY <1>3, <2>1, <2>2
<1>7. Headed(g) /\ Len(g) >= HeaderSize
  <2>1. \A p \in 1..Len(g) : p <= HeaderSize => p \in 1..Len(f)
    BY <1>1, <1>2 DEF HeaderSize
  <2> QED
    BY <1>1, <1>2, <2>1 DEF Headed, HeaderSize
<1>8. Finished(w2, g, t2)
  <2> SUFFICES ASSUME NEW p \in 1..Len(g), g[p].no \notin t2
               PROVE  p + (SizeIn(w2, g[p].no) - g[p].at) <= Len(g)
    BY DEF Finished
  <2>1. CASE p \in 1..Len(f)
    <3>1. p + (SizeIn(w, f[p].no) - f[p].at) <= Len(f)
      BY <1>1, <2>1 DEF Finished
    <3>2. SizeIn(w, f[p].no) \in Nat /\ f[p].at \in Nat
      BY <1>1, <2>1, Sizes
    <3> QED
      BY SMTT(20), <1>1, <1>2, <2>1, <3>1, <3>2
  <2>2. CASE p \in (Len(f) + 1)..(Len(f) + n)
    <3>1. g[p].no = k /\ g[p].at = p - Len(f)
      BY <1>1, <2>2
    <3>2. n = size
      BY <3>1 DEF size
    <3> QED
      BY <1>1, <1>2, <3>1, <3>2
  <2> QED
    BY <1>3, <2>1, <2>2
<1>9. Unbroken(w2, g, t2)
  <2> SUFFICES ASSUME NEW q \in 1..Len(g), NEW p \in 1..q, g[p].no \notin t2,
                      q - p <= SizeIn(w2, g[p].no) - g[p].at
               PROVE  g[p].no = g[q].no
    BY DEF Unbroken
  <2>1. CASE p \in 1..Len(f)
    <3>1. p + (SizeIn(w, f[p].no) - f[p].at) <= Len(f)
      BY <1>1, <2>1 DEF Finished
    <3>2. /\ SizeIn(w, f[p].no) \in Nat /\ f[p].at \in Nat /\ g[p] = f[p]
          /\ SizeIn(w2, f[p].no) = SizeIn(w, f[p].no)
      BY <1>1, <2>1, Sizes
    <3>3. q \in 1..Len(f)
      BY <1>1, <2>1, <3>1, <3>2
    <3> QED
      BY <1>1, <3>2, <3>3 DEF Unbroken
  <2>2. CASE p \in (Len(f) + 1)..(Len(f) + n)
    <3>1. q \in (Len(f) + 1)..(Len(f) + n)
      BY <1>1, <1>2, <2>2
    <3> QED
      BY <1>1, <2>2, <3>1
  <2>3. p \in 1..Len(g)
    BY <1>1
  <2> QED
    BY <1>3, <2>1, <2>2, <2>3
<1> QED
  BY <1>4, <1>5, <1>6, <1>7, <1>8, <1>9 DEF g, w2, size

\* So is one that is cut off somewhere.
LEMMA CutInOrder ==
  ASSUME NEW w \in Seq(RecordType), NEW f \in Seq(ByteOf(w)), NEW n \in 0..Len(f),
         Genuine(w, f), Aligned(f), Ordered(f), Headed(f)
  PROVE  LET g == SubSeq(f, 1, n)
         IN  /\ g \in Seq(ByteOf(w)) /\ Len(g) = n
             /\ Genuine(w, g) /\ Aligned(g) /\ Ordered(g) /\ Headed(g)
             /\ \A t : Unbroken(w, f, t) => Unbroken(w, g, t)
             /\ \A t : Finished(w, f, t) /\ n = Len(f) => Finished(w, g, t)
<1> DEFINE g == SubSeq(f, 1, n)
<1>1. Len(f) \in Nat /\ \A p \in 1..Len(f) : f[p] \in ByteOf(w)
  BY LenProperties, ElementOfSeq
<1>2. g \in Seq(ByteOf(w)) /\ Len(g) = n /\ \A p \in 1..n : g[p] = f[p]
  BY <1>1, SubSeqProperties
<1> HIDE DEF g
<1>3. /\ \A p \in 1..Len(g) : p \in 1..Len(f) /\ g[p] = f[p]
      /\ \A q \in 1..Len(g) : \A p \in 1..q : p \in 1..Len(g)
  BY <1>1, <1>2
<1>4. Genuine(w, g)
  BY <1>3 DEF Genuine
<1>5. Aligned(g)
  BY <1>3 DEF Aligned
<1>6. Ordered(g)
  BY <1>3 DEF Ordered
<1>7. Headed(g)
  BY <1>3 DEF Headed
<1>8. \A t : Unbroken(w, f, t) => Unbroken(w, g, t)
  BY <1>3 DEF Unbroken
<1>9. \A t : Finished(w, f, t) /\ n = Len(f) => Finished(w, g, t)
  BY <1>2, <1>3 DEF Finished
<1> QED
  BY <1>2, <1>4, <1>5, <1>6, <1>7, <1>8, <1>9 DEF g

-----------------------------------------------------------------------------
(* Whole records.                                                          *)

\* The file is made of bytes.
LEMMA FileFacts ==
  ASSUME TypeOK
  PROVE  /\ written \in Seq(RecordType) /\ Len(written) \in Nat
         /\ file \in Seq(ByteOf(written)) /\ Len(file) \in Nat
         /\ \A p \in 1..Len(file) :
              /\ file[p].no \in 0..Len(written) /\ file[p].no \in Nat
              /\ file[p].at \in Nat
<1>1. written \in Seq(RecordType) /\ file \in Seq(ByteOf(written))
  BY DEF TypeOK, RecordType, ByteOf
<1>2. Len(written) \in Nat /\ Len(file) \in Nat
  BY <1>1, LenProperties
<1>3. \A p \in 1..Len(file) : file[p] \in ByteOf(written)
  BY <1>1, ElementOfSeq
<1>4. \A p \in 1..Len(file) :
        /\ file[p].no \in 0..Len(written) /\ file[p].no \in Nat
        /\ file[p].at \in Nat
  BY <1>2, <1>3 DEF ByteOf
<1> QED
  BY <1>1, <1>2, <1>4

\* A byte is known by its record and its place.
LEMMA ByteIs ==
  ASSUME TypeOK, NEW p \in 1..Len(file), NEW no, NEW at, file[p].no = no, file[p].at = at
  PROVE  file[p] = [no |-> no, at |-> at]
<1>1. file[p] \in ByteOf(written)
  BY FileFacts, ElementOfSeq
<1> QED
  BY <1>1 DEF ByteOf

LEMMA SizeIs == \A no : Size(no) = SizeIn(written, no)
BY DEF Size, SizeIn

\* A record is whole if its last byte is in the file.
LEMMA WholeByLast ==
  ASSUME TypeOK, FileInv, NEW p \in 1..Len(file),
         file[p].no # 0, file[p].at = SizeIn(written, file[p].no)
  PROVE  file[p].no \in Kept
<1> DEFINE no == file[p].no
<1>1. Len(file) \in Nat /\ no \in 0..Len(written) /\ file[p].at \in Nat
  BY FileFacts
<1>2. no \in 1..Len(written) /\ Size(no) = file[p].at
  BY <1>1, SizeIs, FileFacts
<1> HIDE DEF no
<1>3. ASSUME NEW i \in 1..Size(no)
      PROVE  \E q \in 1..Len(file) : file[q] = [no |-> no, at |-> i]
  <2> DEFINE q == p - (file[p].at - i)
  <2>1. file[p].at <= p
    BY DEF FileInv, Aligned
  <2>2. i \in 1..file[p].at /\ p \in Nat /\ p <= Len(file)
    BY <1>2, <1>1
  <2>3. q \in 1..p /\ q \in 1..Len(file) /\ p - q < file[p].at /\ file[p].at - (p - q) = i
    <3>1. ASSUME NEW a \in Nat, a <= p, i \in 1..a
          PROVE  LET x == p - (a - i)
                 IN  x \in 1..p /\ x \in 1..Len(file) /\ p - x < a /\ a - (p - x) = i
      BY <1>1, <2>2, <3>1
    <3> QED
      BY <1>1, <2>2, <2>1, <3>1
  <2> HIDE DEF q
  <2>4. file[q].no = no /\ file[q].at = i
    BY <2>3 DEF FileInv, Aligned, no
  <2>5. file[q] = [no |-> no, at |-> i]
    BY <2>3, <2>4, ByteIs
  <2> QED
    BY <2>3, <2>5
<1>4. no \in Kept
  BY <1>2, <1>3 DEF Kept
<1> QED
  BY <1>4 DEF no

\* The last byte of a whole record is in the file.
LEMMA LastOfWhole ==
  ASSUME TypeOK, NEW no \in Kept
  PROVE  /\ no \in 1..Len(written) /\ SizeIn(written, no) > DataAt
         /\ SizeIn(written, no) \in Nat /\ SizeIn(written, no) = DataAt + written[no].len
         /\ \E p \in 1..Len(file) : file[p].no = no /\ file[p].at = SizeIn(written, no)
<1>1. no \in 1..Len(written) /\ \A i \in 1..Size(no) :
        \E p \in 1..Len(file) : file[p] = [no |-> no, at |-> i]
  BY DEF Kept
<1>2. no \in 0..Len(written) /\ no # 0 /\ written \in Seq(RecordType)
  BY <1>1, FileFacts
<1>3. /\ SizeIn(written, no) > DataAt /\ SizeIn(written, no) \in Nat
      /\ SizeIn(written, no) = DataAt + written[no].len
  BY <1>2, Sizes
<1>4. SizeIn(written, no) \in 1..Size(no)
  BY <1>3, SizeIs DEF DataAt, OffsetSize, DirectionSize, LengthSize
<1>5. PICK p \in 1..Len(file) : file[p] = [no |-> no, at |-> SizeIn(written, no)]
  BY <1>1, <1>4
<1>6. file[p].no = no /\ file[p].at = SizeIn(written, no)
  BY <1>5
<1> QED
  BY <1>1, <1>3, <1>6

\* There are not too many of them to be counted.
LEMMA WholeAreFinite ==
  ASSUME TypeOK
  PROVE  IsFiniteSet(Kept) /\ \A n : IsFiniteSet(Before(Kept, n))
<1>1. IsFiniteSet(1..Len(written))
  BY FileFacts, FS_Interval
<1>2. Kept \subseteq 1..Len(written)
  BY DEF Kept
<1>3. \A n : Before(Kept, n) \subseteq 1..Len(written)
  BY <1>2 DEF Before
<1> QED
  BY <1>1, <1>2, <1>3, FS_Subset

\* Behind the last byte of a record comes the first of a later one, and between
\* the two there is no whole one.
LEMMA NextRecord ==
  ASSUME TypeOK, FileInv, NEW p \in 1..Len(file), p < Len(file),
         file[p].at = SizeIn(written, file[p].no)
  PROVE  /\ file[p + 1].no > file[p].no /\ file[p + 1].at = 1
         /\ Before(Kept, file[p + 1].no) = Before(Kept, file[p].no + 1)
<1>1. /\ Len(file) \in Nat /\ p + 1 \in 1..Len(file) /\ p \in 1..(p + 1) /\ (p + 1) - p = 1
      /\ file[p].no \in Nat /\ file[p + 1].no \in Nat
      /\ file[p].at \in Nat /\ file[p + 1].at \in Nat
  BY FileFacts
<1>2. file[p].no <= file[p + 1].no
  BY <1>1 DEF FileInv, Ordered
<1>3. file[p].no # file[p + 1].no
  <2> SUFFICES ASSUME file[p].no = file[p + 1].no
               PROVE  FALSE
    OBVIOUS
  <2>1. file[p + 1].at = file[p].at + 1
    BY <1>1 DEF FileInv, Ordered
  <2>2. file[p + 1].at \in 1..SizeIn(written, file[p].no)
    BY <1>1 DEF FileInv, Genuine
  <2> QED
    BY <1>1, <2>1, <2>2
<1>4. file[p + 1].at = 1
  <2>1. file[p + 1].at # 0
    BY <1>1 DEF FileInv, Genuine
  <2>2. ~(1 < file[p + 1].at)
    BY <1>1, <1>3 DEF FileInv, Aligned
  <2> QED
    BY <1>1, <2>1, <2>2
<1>5. ASSUME NEW no \in Kept
      PROVE  no < file[p + 1].no <=> no < file[p].no + 1
  <2>1. no \in Nat
    BY LastOfWhole, FileFacts
  <2>2. PICK q \in 1..Len(file) : file[q].no = no
    BY LastOfWhole
  <2>3. CASE q <= p
    <3>1. q \in 1..p
      BY <2>3
    <3>2. no <= file[p].no
      BY <2>2, <3>1 DEF FileInv, Ordered
    <3> QED
      BY <1>1, <1>2, <1>3, <2>1, <3>2
  <2>4. CASE q > p
    <3>1. p + 1 \in 1..q
      BY <2>4
    <3>2. no >= file[p + 1].no
      BY <1>1, <2>1, <2>2, <3>1 DEF FileInv, Ordered
    <3> QED
      BY <1>1, <1>2, <1>3, <2>1, <3>2
  <2> QED
    BY <1>1, <2>3, <2>4
<1>6. Before(Kept, file[p + 1].no) = Before(Kept, file[p].no + 1)
  BY <1>5 DEF Before
<1> QED
  BY <1>1, <1>2, <1>3, <1>4, <1>6

\* Less than its offset is not a record.
LEMMA NoneBehind ==
  ASSUME TypeOK, FileInv, NEW p \in 1..Len(file), p + OffsetSize > Len(file)
  PROVE  Kept = Before(Kept, file[p].no + 1)
<1>1. Len(file) \in Nat /\ file[p].no \in Nat
  BY FileFacts
<1>2. ASSUME NEW no \in Kept
      PROVE  no < file[p].no + 1
  <2>1. no \in Nat /\ SizeIn(written, no) \in Nat /\ SizeIn(written, no) > OffsetSize
    BY LastOfWhole, FileFacts DEF DataAt, OffsetSize, DirectionSize, LengthSize
  <2>2. PICK q \in 1..Len(file) : file[q].no = no /\ file[q].at = SizeIn(written, no)
    BY LastOfWhole
  <2>3. CASE q <= p
    <3>1. q \in 1..p
      BY <2>3
    <3>2. no <= file[p].no
      BY <2>2, <3>1 DEF FileInv, Ordered
    <3> QED
      BY <1>1, <2>1, <3>2
  <2>4. CASE q > p
    <3>1. p \in 1..q /\ q - p < file[q].at
      BY <1>1, <2>1, <2>2, <2>4 DEF OffsetSize
    <3>2. file[p].no = no
      BY <2>2, <3>1 DEF FileInv, Aligned
    <3> QED
      BY <2>1, <3>2
  <2> QED
    BY <1>1, <2>3, <2>4
<1> QED
  BY <1>2 DEF Before

\* A file without its header has no whole record.
LEMMA NoneWithoutHeader ==
  ASSUME TypeOK, FileInv, Len(file) < HeaderSize
  PROVE  Kept = {}
<1> SUFFICES ASSUME NEW no \in Kept
             PROVE  FALSE
  OBVIOUS
<1>1. no # 0
  BY LastOfWhole, FileFacts
<1>2. PICK q \in 1..Len(file) : file[q].no = no
  BY LastOfWhole
<1>3. q <= HeaderSize
  BY FileFacts DEF HeaderSize
<1> QED
  BY <1>1, <1>2, <1>3 DEF FileInv, Headed

\* Behind a byte are those of its record, as far as the file goes, unless its
\* writing failed.
LEMMA Continued ==
  ASSUME TypeOK, FileInv, NEW p \in 1..Len(file), file[p].no \notin torn,
         NEW i \in Nat, p + i <= Len(file), i <= SizeIn(written, file[p].no) - file[p].at
  PROVE  file[p + i] = [no |-> file[p].no, at |-> file[p].at + i]
<1>1. Len(file) \in Nat /\ p + i \in 1..Len(file) /\ p \in 1..(p + i) /\ (p + i) - p = i
  BY FileFacts
<1>2. file[p].no = file[p + i].no
  BY <1>1 DEF FileInv, Unbroken
<1>3. file[p + i].at = file[p].at + i
  BY <1>1, <1>2 DEF FileInv, Ordered
<1> QED
  BY <1>1, <1>2, <1>3, ByteIs

\* Without failed writes, a record that is not whole is the last in a file that
\* was cut.
LEMMA CutOff ==
  ASSUME TypeOK, FileInv, torn = {}, NEW p \in 1..Len(file), NEW size \in Nat,
         file[p].no # 0, p + size > Len(file), size <= SizeIn(written, file[p].no) - file[p].at
  PROVE  cut /\ Kept = Before(Kept, file[p].no)
<1>1. /\ Len(file) \in Nat /\ file[p].no \in Nat /\ file[p].at \in Nat
      /\ SizeIn(written, file[p].no) \in Nat
  BY FileFacts, Sizes
<1>2. cut
  <2> SUFFICES ASSUME ~cut
               PROVE  FALSE
    BY DEF TypeOK
  <2>1. p + (SizeIn(written, file[p].no) - file[p].at) <= Len(file)
    BY DEF FileInv, Finished
  <2> QED
    BY <1>1, <2>1
<1>3. ASSUME NEW no \in Kept
      PROVE  no < file[p].no
  <2>1. no \in Nat /\ SizeIn(written, no) \in Nat
    BY LastOfWhole, FileFacts
  <2>2. PICK q \in 1..Len(file) : file[q].no = no /\ file[q].at = SizeIn(written, no)
    BY LastOfWhole
  <2>3. no # file[p].no \/ q > p
    <3> SUFFICES ASSUME no = file[p].no, q <= p
                 PROVE  FALSE
      BY <1>1
    <3>1. q \in 1..p
      OBVIOUS
    <3>2. file[p].at = SizeIn(written, no) + (p - q)
      BY <2>2, <3>1 DEF FileInv, Ordered
    <3>3. q = p
      BY <1>1, <2>1, <3>1, <3>2
    <3> QED
      BY <1>1, <2>1, <3>2, <3>3
  <2>4. CASE q <= p
    <3>1. q \in 1..p
      BY <2>4
    <3>2. no <= file[p].no
      BY <2>2, <3>1 DEF FileInv, Ordered
    <3>3. no # file[p].no
      BY <2>3, <2>4
    <3>4. file[p].no \in Nat
      BY <1>1
    <3> QED
      BY <2>1, <3>2, <3>3, <3>4
  <2>5. CASE q > p
    <3> DEFINE i == q - p
    <3>1. i \in Nat /\ p + i = q /\ i < size /\ i <= SizeIn(written, file[p].no) - file[p].at
      BY <1>1, <2>5
    <3>2. file[q] = [no |-> file[p].no, at |-> file[p].at + i]
      BY <3>1, Continued
    <3>3. file[q].no = file[p].no /\ file[q].at = file[p].at + i
      BY <3>2
    <3> QED
      BY <1>1, <2>2, <3>1, <3>3
  <2> QED
    BY <1>1, <2>4, <2>5
<1> QED
  BY <1>2, <1>3 DEF Before

-----------------------------------------------------------------------------
(* Writing.                                                                *)

\* A record, or the first part of it, is behind the others.
LEMMA WritingStep ==
  ASSUME IInv, pc = "writing", NEW r \in RecordType, NEW n \in 0..(DataAt + r.len),
         written' = Append(written, r), file' = file \o Image(Len(written'), n),
         \/ n = DataAt + r.len /\ torn' = torn
         \/ torn' = torn \cup {Len(written')},
         UNCHANGED <<cut, pc, pos, rec, read>>
  PROVE  IInv'
<1>1. TypeOK /\ FileInv /\ ReadInv /\ PrefixInv
  BY DEF IInv
<1>2. /\ written \in Seq(RecordType) /\ file \in Seq(ByteOf(written))
      /\ Len(written) \in Nat /\ Len(file) \in Nat
  BY <1>1, FileFacts
<1>3. read = <<>> /\ pos = 0 /\ ~cut
  BY <1>1 DEF ReadInv
<1>4. /\ Genuine(written, file) /\ Aligned(file) /\ Ordered(file) /\ Headed(file)
      /\ Len(file) >= HeaderSize
      /\ Unbroken(written, file, torn) /\ Finished(written, file, torn)
  BY <1>1, <1>3 DEF FileInv
<1> DEFINE g == file \o Image(Len(written) + 1, n)
           w == Append(written, r)
<1>5. /\ w \in Seq(RecordType) /\ Len(w) = Len(written) + 1 /\ g \in Seq(ByteOf(w))
      /\ Len(g) = Len(file) + n
  BY <1>2, Added
<1>7. written' = w /\ file' = g
  <2>1. written' = w
    OBVIOUS
  <2> HIDE DEF w
  <2> QED
    BY <1>5, <2>1
<1>12. torn \subseteq torn' /\ (n = DataAt + r.len \/ Len(written) + 1 \in torn')
  <2>1. Len(written') = Len(written) + 1
    BY <1>5, <1>7
  <2> QED
    BY <2>1
<1>6. /\ Genuine(w, g) /\ Aligned(g) /\ Ordered(g) /\ Headed(g)
      /\ Len(g) >= HeaderSize
      /\ Unbroken(w, g, torn') /\ Finished(w, g, torn')
  BY <1>2, <1>4, <1>12, AddedInOrder
<1> HIDE DEF g, w
<1>8. FileInv'
  BY <1>6, <1>7 DEF FileInv
<1>9. TypeOK'
  <2>1. Len(w) \in Nat /\ torn \subseteq 1..Len(written)
    BY <1>1, <1>2, <1>5 DEF TypeOK
  <2>2. torn' \subseteq 1..Len(w)
    <3>1. 1..Len(written) \subseteq 1..Len(w) /\ Len(w) \in 1..Len(w)
      BY <1>2, <1>5
    <3>2. torn' = torn \/ torn' = torn \cup {Len(w)}
      BY <1>7
    <3> QED
      BY <2>1, <3>1, <3>2
  <2>3. 0 \in 0..Len(g) /\ 0..Len(written) \subseteq 0..Len(w)
    <3>1. Len(g) \in Nat
      BY <1>5, LenProperties
    <3> QED
      BY <2>1, <3>1, <1>2, <1>5
  <2>4. <<>> \in Seq(Seen')
    BY EmptySeq
  <2>5. w \in Seq([dir : Dirs, len : Lengths]) /\ g \in Seq([no : 0..Len(w), at : Nat])
    BY <1>5 DEF RecordType, ByteOf
  <2>6. rec' \in Seen'
    BY <1>1, <1>7, <2>3 DEF TypeOK, Seen
  <2> QED
    BY <1>1, <1>3, <1>7, <2>2, <2>3, <2>4, <2>5, <2>6 DEF TypeOK
<1>10. ReadInv' /\ PrefixInv' /\ TornMisleads'
  <2>1. Len(<<>>) = 0
    BY EmptySeq
  <2> QED
    BY <1>3, <2>1 DEF ReadInv, PrefixInv, TornMisleads
<1>11. DoneIsComplete' /\ ErrorMeansCut'
  BY DEF DoneIsComplete, ErrorMeansCut
<1> QED
  BY <1>8, <1>9, <1>10, <1>11 DEF IInv

LEMMA WriteRecordStep ==
  ASSUME IInv, NEW r \in RecordType, WriteRecord(r)
  PROVE  IInv'
<1>1. DataAt + r.len \in 0..(DataAt + r.len)
  BY ChunkSize
<1> QED
  BY <1>1, WritingStep DEF WriteRecord

LEMMA WriteFailsStep ==
  ASSUME IInv, NEW r \in RecordType, WriteFails(r)
  PROVE  IInv'
<1>1. PICK n \in 0..(DataAt + r.len - 1) : file' = file \o Image(Len(written'), n)
  BY DEF WriteFails
<1>2. n \in 0..(DataAt + r.len)
  BY ChunkSize
<1> QED
  BY <1>1, <1>2, WritingStep DEF WriteFails

\* What has come of it is to be read.
LEMMA OpenStep ==
  ASSUME IInv, Open
  PROVE  IInv'
<1>1. TypeOK /\ FileInv /\ ReadInv /\ PrefixInv
  BY DEF IInv
<1>2. PICK n \in 0..Len(file) : file' = SubSeq(file, 1, n) /\ cut' = (n < Len(file))
  BY DEF Open
<1>3. /\ written \in Seq(RecordType) /\ file \in Seq(ByteOf(written)) /\ Len(file) \in Nat
  BY <1>1, FileFacts
<1>4. read = <<>> /\ pos = 0 /\ ~cut /\ pc' = "header"
      /\ UNCHANGED <<written, torn, pos, rec, read>>
  BY <1>1 DEF ReadInv, Open
<1> DEFINE g == SubSeq(file, 1, n)
<1>5. /\ g \in Seq(ByteOf(written)) /\ Len(g) = n
      /\ Genuine(written, g) /\ Aligned(g) /\ Ordered(g) /\ Headed(g)
      /\ Unbroken(written, g, torn)
      /\ Finished(written, file, torn) /\ n = Len(file) => Finished(written, g, torn)
  BY <1>1, <1>3, CutInOrder DEF FileInv
<1>6. file' = g
  BY <1>2
<1> HIDE DEF g
<1>7. FileInv'
  <2>1. ~cut' => n = Len(file)
    <3>1. n < Len(file) \/ n = Len(file)
      BY <1>3
    <3> QED
      BY <1>2, <3>1
  <2> QED
    BY <1>1, <1>4, <1>5, <1>6, <2>1 DEF FileInv
<1>8. TypeOK'
  <2>1. cut' \in BOOLEAN /\ 0 \in 0..Len(g)
    BY <1>2, <1>5
  <2>2. g \in Seq([no : 0..Len(written), at : Nat])
    BY <1>5 DEF ByteOf
  <2> QED
    BY <1>1, <1>4, <1>6, <2>1, <2>2 DEF TypeOK, Fields, Seen
<1>9. ReadInv' /\ PrefixInv' /\ TornMisleads'
  <2>1. Len(<<>>) = 0
    BY EmptySeq
  <2> QED
    BY <1>4, <2>1 DEF ReadInv, PrefixInv, TornMisleads
<1>10. DoneIsComplete' /\ ErrorMeansCut'
  BY <1>4 DEF DoneIsComplete, ErrorMeansCut
<1> QED
  BY <1>7, <1>8, <1>9, <1>10 DEF IInv

-----------------------------------------------------------------------------
(* Reading.                                                                *)

\* Nothing is written any more.
LEMMA FileStays ==
  ASSUME UNCHANGED <<written, torn, file, cut>>
  PROVE  (FileInv => FileInv') /\ Kept' = Kept /\ Seen' = Seen
BY DEF FileInv, Kept, Size, Seen

\* A read that does not complete a record leaves those that were read before.
LEMMA ReadStays ==
  ASSUME IInv, UNCHANGED <<written, torn, file, cut, read>>, pos' \in Nat, pos <= pos'
  PROVE  /\ FileInv' /\ Kept' = Kept /\ Seen' = Seen /\ PrefixInv' /\ TornMisleads'
         /\ Sound(Len(read))' = Sound(Len(read)) /\ Lost' = Lost
<1>1. TypeOK /\ FileInv /\ PrefixInv /\ TornMisleads
  BY DEF IInv
<1>2. FileInv' /\ Kept' = Kept /\ Seen' = Seen
  BY <1>1, FileStays
<1>3. \A n : Sound(n)' = Sound(n)
  BY DEF Sound
<1>4. TornMisleads'
  BY <1>1, <1>2, <1>3 DEF TornMisleads
<1>5. \A i : Behind(i) => Behind(i)'
  <2>1. \A p \in 1..pos : p \in 1..pos'
    BY <1>1, FileFacts DEF TypeOK
  <2> QED
    BY <2>1 DEF Behind
<1>6. PrefixInv'
  BY <1>1, <1>2, <1>3, <1>5 DEF PrefixInv
<1>7. Lost' = Lost
  BY <1>2 DEF Lost
<1> QED
  BY <1>2, <1>3, <1>4, <1>6, <1>7

\* A read that is given its bytes, or too few.
LEMMA TakeFacts ==
  ASSUME TypeOK, NEW size \in Nat, NEW next, NEW atEof, Take(size, next, atEof)
  PROVE  /\ pos' \in 0..Len(file) /\ pos' \in Nat /\ pos <= pos'
         /\ pos \in Nat /\ Len(file) \in Nat
         /\ \/ pc' = next /\ pos' = pos + size /\ pos + size <= Len(file)
            \/ pc' = atEof /\ pos + size > Len(file)
<1>1. pos \in 0..Len(file) /\ Len(file) \in Nat /\ pos \in Nat
  BY FileFacts DEF TypeOK
<1> QED
  BY <1>1 DEF Take

\* Where no write failed, no record is made of parts.
LEMMA SoundUntorn ==
  ASSUME IInv, torn = {}
  PROVE  Sound(Len(read))
BY DEF IInv, PrefixInv, Sound

\* The header is there, unless it was cut off.
LEMMA ReadHeaderStep ==
  ASSUME IInv, ReadHeader
  PROVE  IInv'
<1>1. TypeOK /\ FileInv /\ ReadInv /\ PrefixInv
  BY DEF IInv
<1>2. read = <<>> /\ Len(read) = 0 /\ pos = 0
      /\ UNCHANGED <<written, torn, file, cut, rec, read>>
  BY <1>1, EmptySeq DEF ReadInv, ReadHeader
<1>3. HeaderSize = 24 /\ HeaderSize \in Nat /\ SizeIn(written, 0) = HeaderSize
  BY DEF HeaderSize, SizeIn
<1>4. /\ pos' \in 0..Len(file) /\ pos' \in Nat /\ pos <= pos' /\ Len(file) \in Nat
      /\ \/ pc' = "offset" /\ pos' = pos + HeaderSize /\ pos + HeaderSize <= Len(file)
         \/ pc' = "failed" /\ pos + HeaderSize > Len(file)
  BY <1>1, <1>3, TakeFacts DEF ReadHeader
<1>5. FileInv' /\ Kept' = Kept /\ Seen' = Seen /\ PrefixInv' /\ TornMisleads'
  BY <1>2, <1>4, ReadStays
<1>6. TypeOK'
  BY <1>1, <1>2, <1>4, <1>5 DEF TypeOK, Fields, Ended
<1>7. CASE pc' = "offset" /\ pos' = pos + HeaderSize /\ pos + HeaderSize <= Len(file)
  <2>1. Before(Kept, 0 + 1) = {}
    <3>1. \A no \in Kept : no \in Nat /\ no # 0
      BY <1>1, LastOfWhole, FileFacts
    <3>2. \A no \in Kept : ~(no < 0 + 1)
      BY <3>1
    <3> QED
      BY <3>2 DEF Before
  <2>2. Cardinality(Before(Kept, 0 + 1)) = 0
    BY <2>1, FS_EmptySet
  <2>3. pos' = 24 /\ 24 \in 1..Len(file)
    BY <1>2, <1>3, <1>4, <1>7
  <2>4. file[24].no = 0 /\ file[24].at = 24
    BY <1>1, <1>3, <2>3 DEF FileInv, Headed
  <2>5. ReadInv'
    BY <1>2, <1>3, <1>5, <1>7, <2>2, <2>3, <2>4 DEF ReadInv
  <2> QED
    BY <1>5, <1>6, <1>7, <2>5 DEF IInv, DoneIsComplete, ErrorMeansCut
<1>8. CASE pc' = "failed" /\ pos + HeaderSize > Len(file)
  <2>1. Len(file) < HeaderSize
    BY <1>2, <1>3, <1>4, <1>8
  <2>2. cut /\ Kept = {}
    <3>1. ~(Len(file) >= HeaderSize)
      BY <1>3, <1>4, <2>1
    <3> QED
      BY <1>1, <2>1, <3>1, NoneWithoutHeader DEF FileInv
  <2>3. Cardinality(Kept) = 0
    BY <2>2, FS_EmptySet
  <2>4. ReadInv' /\ DoneIsComplete' /\ ErrorMeansCut'
    BY <1>2, <1>5, <1>8, <2>2, <2>3 DEF ReadInv, DoneIsComplete, ErrorMeansCut
  <2> QED
    BY <1>5, <1>6, <2>4 DEF IInv
<1> QED
  BY <1>4, <1>7, <1>8

\* Behind a whole record come the first bytes of the next, or those of a torn one.
LEMMA OffsetRead ==
  ASSUME IInv, pc = "offset", Sound(Len(read)), pos + OffsetSize <= Len(file)
  PROVE  /\ Following # 0 =>
              /\ file[pos + OffsetSize].no = Following
              /\ file[pos + OffsetSize].at = OffsetSize
              /\ Cardinality(Before(Kept, Following)) = Len(read)
         /\ Following = 0 => Lost
<1>1. TypeOK /\ FileInv /\ ReadInv
  BY DEF IInv
<1>2. /\ pos \in 1..Len(file) /\ pos \in Nat /\ Len(file) \in Nat
      /\ file[pos].at = SizeIn(written, file[pos].no)
      /\ Cardinality(Before(Kept, file[pos].no + 1)) = Len(read)
  <2>1. pos # 0 /\ pos \in 0..Len(file) /\ Len(file) \in Nat
    BY <1>1, FileFacts DEF ReadInv, TypeOK
  <2> QED
    BY <1>1, <2>1 DEF ReadInv
<1>3. OffsetSize = 8 /\ DataAt = 13
  BY DEF OffsetSize, DataAt, DirectionSize, LengthSize
<1>4. pos < Len(file) /\ pos + 1 \in 1..Len(file)
  BY <1>2, <1>3
<1> DEFINE no == file[pos + 1].no
<1>5. /\ no > file[pos].no /\ file[pos + 1].at = 1
      /\ Before(Kept, no) = Before(Kept, file[pos].no + 1)
  BY <1>1, <1>2, <1>4, NextRecord
<1>6. no \in Nat /\ no # 0 /\ no \in 0..Len(written)
  <2>1. file[pos].no \in Nat /\ no \in Nat /\ no \in 0..Len(written)
    BY <1>1, <1>2, <1>4, FileFacts
  <2> QED
    BY <1>5, <2>1
<1>7. Cardinality(Before(Kept, no)) = Len(read)
  BY <1>2, <1>5
<1>8. Following = IF Holds(no, 1, OffsetSize) THEN no ELSE 0
  BY <1>4 DEF Following
<1>9. CASE Holds(no, 1, OffsetSize)
  <2>1. file[pos + 8] = [no |-> no, at |-> 1 + 8 - 1]
    BY <1>3, <1>9 DEF Holds
  <2>2. file[pos + 8].no = no /\ file[pos + 8].at = 8
    BY <2>1
  <2> HIDE DEF no
  <2> QED
    BY <1>3, <1>6, <1>7, <1>8, <1>9, <2>2
<1>10. CASE ~Holds(no, 1, OffsetSize)
  <2>1. no \in torn
    <3> SUFFICES ASSUME no \notin torn
                 PROVE  Holds(no, 1, OffsetSize)
      BY <1>10
    <3> SUFFICES ASSUME NEW i \in 1..OffsetSize
                 PROVE  file[pos + i] = [no |-> no, at |-> 1 + i - 1]
      BY DEF Holds
    <3> DEFINE p == pos + 1
    <3>2. SizeIn(written, no) \in Nat /\ SizeIn(written, no) > DataAt
      BY <1>1, <1>6, Sizes, FileFacts
    <3>4. i - 1 \in Nat /\ i - 1 <= SizeIn(written, no) - 1
      BY <1>3, <3>2
    <3>5. p + (i - 1) = pos + i /\ pos + i <= Len(file)
      BY <1>2, <1>3
    <3>1. no = file[p].no /\ file[p].at = 1 /\ p \in 1..Len(file)
      BY <1>4, <1>5
    <3> HIDE DEF p, no
    <3>6. file[p + (i - 1)] = [no |-> file[p].no, at |-> file[p].at + (i - 1)]
      BY <1>1, <3>1, <3>4, <3>5, Continued
    <3>7. 1 + (i - 1) = 1 + i - 1
      BY <1>3
    <3> QED
      BY <3>1, <3>5, <3>6, <3>7
  <2> HIDE DEF no
  <2> QED
    BY <1>7, <1>8, <1>10, <2>1 DEF Lost
<1> QED
  BY <1>9, <1>10

\* Behind a record comes the next, or too little to be one.
LEMMA ReadOffsetStep ==
  ASSUME IInv, ReadOffset
  PROVE  IInv'
<1>1. TypeOK /\ FileInv /\ ReadInv /\ PrefixInv
  BY DEF IInv
<1>2. /\ pc = "offset" /\ Take(OffsetSize, "direction", "done")
      /\ rec' = [rec EXCEPT !.no = Following] /\ UNCHANGED <<written, torn, file, cut, read>>
  BY DEF ReadOffset
<1>3. OffsetSize = 8 /\ OffsetSize \in Nat
  BY DEF OffsetSize
<1>4. /\ pos' \in 0..Len(file) /\ pos' \in Nat /\ pos <= pos' /\ pos \in Nat
      /\ Len(file) \in Nat
      /\ \/ pc' = "direction" /\ pos' = pos + OffsetSize /\ pos + OffsetSize <= Len(file)
         \/ pc' = "done" /\ pos + OffsetSize > Len(file)
  BY <1>1, <1>2, <1>3, TakeFacts
<1>5. /\ FileInv' /\ Kept' = Kept /\ Seen' = Seen /\ PrefixInv' /\ TornMisleads'
      /\ Sound(Len(read))' = Sound(Len(read)) /\ Lost' = Lost
  BY <1>2, <1>4, ReadStays
<1>6. rec'.no = Following /\ rec' \in Seen
  <2>1. Following \in 0..Len(written)
    <3>1. pos < Len(file) => pos + 1 \in 1..Len(file)
      BY <1>4
    <3>2. 0 \in 0..Len(written)
      BY <1>1, FileFacts
    <3> QED
      BY <1>1, <3>1, <3>2, FileFacts DEF Following
  <2> QED
    BY <1>1, <1>2, <2>1 DEF TypeOK, Seen
<1>7. TypeOK'
  BY <1>1, <1>2, <1>4, <1>5, <1>6 DEF TypeOK, Fields, Ended
<1>8. CASE pc' = "direction" /\ pos' = pos + OffsetSize /\ pos + OffsetSize <= Len(file)
  <2>1. Following # 0 => file[pos'].no = Following /\ file[pos'].at = OffsetSize
    <3> SUFFICES ASSUME Following # 0
                 PROVE  file[pos'].no = Following /\ file[pos'].at = OffsetSize
      OBVIOUS
    <3>1. Holds(file[pos + 1].no, 1, OffsetSize) /\ Following = file[pos + 1].no
      BY DEF Following
    <3>2. file[pos + 8] = [no |-> Following, at |-> 1 + 8 - 1]
      BY <1>3, <3>1 DEF Holds
    <3>3. file[pos + 8].no = Following /\ file[pos + 8].at = 8
      BY <3>2
    <3> QED
      BY <1>3, <1>8, <3>3
  <2>2. Sound(Len(read)) =>
          /\ Following # 0 => Cardinality(Before(Kept, Following)) = Len(read)
          /\ Following = 0 => Lost
    BY <1>2, <1>8, OffsetRead
  <2>3. Following = 0 => torn # {}
    BY <2>2, SoundUntorn DEF Lost
  <2>4. pos' # 0
    BY <1>3, <1>4, <1>8
  <2>5. Within(OffsetSize)'
    BY <1>2, <1>5, <1>6, <2>1, <2>2, <2>3, <2>4 DEF Within
  <2>6. ReadInv'
    BY <1>8, <2>5 DEF ReadInv
  <2> QED
    BY <1>5, <1>7, <1>8, <2>6 DEF IInv, DoneIsComplete, ErrorMeansCut
<1>9. CASE pc' = "done" /\ pos + OffsetSize > Len(file)
  <2>1. Sound(Len(read)) => Len(read) = Cardinality(Kept)
    <3> SUFFICES ASSUME Sound(Len(read))
                 PROVE  Len(read) = Cardinality(Kept)
      OBVIOUS
    <3>1. /\ pos # 0 /\ pos \in 0..Len(file)
          /\ Cardinality(Before(Kept, file[pos].no + 1)) = Len(read)
      BY <1>1, <1>2 DEF ReadInv, TypeOK
    <3>2. pos \in 1..Len(file)
      BY <1>4, <3>1
    <3> QED
      BY <1>1, <1>9, <3>1, <3>2, NoneBehind
  <2>2. ReadInv' /\ DoneIsComplete' /\ ErrorMeansCut'
    BY <1>2, <1>5, <1>9, <2>1 DEF ReadInv, DoneIsComplete, ErrorMeansCut
  <2> QED
    BY <1>5, <1>7, <2>2 DEF IInv
<1> QED
  BY <1>4, <1>8, <1>9

\* A field of the record in hand: its bytes go on, or it is torn, or the file is cut.
LEMMA FieldRead ==
  ASSUME IInv, NEW n \in Nat, Within(n), NEW size \in Nat,
         rec.no # 0 => n + size <= SizeIn(written, rec.no),
         NEW at, at = n + 1
  PROVE  /\ Still(at, size) \in {0, rec.no}
         /\ pos + size <= Len(file) =>
              /\ Still(at, size) # 0 =>
                   /\ file[pos + size].no = rec.no /\ file[pos + size].at = n + size
                   /\ Sound(Len(read)) => Cardinality(Before(Kept, rec.no)) = Len(read)
              /\ Still(at, size) = 0 => torn # {} /\ (Sound(Len(read)) => Lost)
         /\ pos + size > Len(file) /\ torn = {} => cut /\ Len(read) = Cardinality(Kept)
<1>1. TypeOK /\ FileInv
  BY DEF IInv
<1>2. /\ pos \in 1..Len(file) /\ Len(file) \in Nat /\ pos \in Nat
      /\ rec.no \in 0..Len(written)
  <2>1. pos # 0 /\ pos \in 0..Len(file) /\ Len(file) \in Nat /\ rec.no \in 0..Len(written)
    BY <1>1, FileFacts DEF Within, TypeOK, Seen
  <2> QED
    BY <2>1
<1>3. SizeIn(written, rec.no) \in Nat
  BY <1>1, <1>2, FileFacts, Sizes
<1>4. Still(at, size) \in {0, rec.no}
  BY DEF Still
<1>5. ASSUME pos + size <= Len(file), Still(at, size) # 0
      PROVE  /\ file[pos + size].no = rec.no /\ file[pos + size].at = n + size
             /\ Sound(Len(read)) => Cardinality(Before(Kept, rec.no)) = Len(read)
  <2>1. Holds(rec.no, at, size) /\ rec.no # 0
    BY <1>5 DEF Still
  <2>2. /\ file[pos].no = rec.no /\ file[pos].at = n
        /\ Sound(Len(read)) => Cardinality(Before(Kept, rec.no)) = Len(read)
    BY <2>1 DEF Within
  <2>3. CASE size = 0
    BY <1>2, <2>2, <2>3
  <2>4. CASE size # 0
    <3>1. size \in 1..size
      BY <2>4
    <3>2. file[pos + size] = [no |-> rec.no, at |-> at + size - 1]
      BY <2>1, <3>1 DEF Holds
    <3>3. file[pos + size].no = rec.no /\ file[pos + size].at = at + size - 1
      BY <3>2
    <3>4. at + size - 1 = n + size
      OBVIOUS
    <3> QED
      BY <2>2, <3>3, <3>4
  <2> QED
    BY <2>3, <2>4
<1>6. ASSUME pos + size <= Len(file), Still(at, size) = 0
      PROVE  torn # {} /\ (Sound(Len(read)) => Lost)
  <2>1. CASE rec.no = 0
    BY <2>1 DEF Within
  <2>2. CASE rec.no # 0
    <3>1. ~Holds(rec.no, at, size)
      BY <1>6, <2>2 DEF Still
    <3>2. /\ file[pos].no = rec.no /\ file[pos].at = n
          /\ Sound(Len(read)) => Cardinality(Before(Kept, rec.no)) = Len(read)
      BY <2>2 DEF Within
    <3>3. rec.no \in torn
      <4> SUFFICES ASSUME rec.no \notin torn, NEW i \in 1..size
                   PROVE  file[pos + i] = [no |-> rec.no, at |-> at + i - 1]
        BY <1>6, <3>1 DEF Holds
      <4>1. i \in Nat /\ pos + i <= Len(file) /\ i <= SizeIn(written, rec.no) - n
        BY <1>2, <1>3, <1>6, <2>2
      <4>2. file[pos + i] = [no |-> rec.no, at |-> n + i]
        BY <1>1, <1>2, <3>2, <4>1, Continued
      <4>3. n + i = at + i - 1
        OBVIOUS
      <4> QED
        BY <4>2, <4>3
    <3> QED
      BY <3>2, <3>3 DEF Lost
  <2> QED
    BY <2>1, <2>2
<1>7. ASSUME pos + size > Len(file), torn = {}
      PROVE  cut /\ Len(read) = Cardinality(Kept)
  <2>1. rec.no # 0 /\ Sound(Len(read))
    BY <1>7, SoundUntorn DEF Within
  <2>2. /\ file[pos].no = rec.no /\ file[pos].at = n
        /\ Cardinality(Before(Kept, rec.no)) = Len(read)
    BY <2>1 DEF Within
  <2>3. size <= SizeIn(written, rec.no) - n
    BY <1>3, <2>1
  <2>4. cut /\ Kept = Before(Kept, rec.no)
    BY <1>1, <1>2, <1>7, <2>1, <2>2, <2>3, CutOff
  <2> QED
    BY <2>2, <2>4
<1> QED
  BY <1>4, <1>5, <1>6, <1>7

\* The sizes of the fields.
LEMMA FieldSizes ==
  ASSUME TypeOK
  PROVE  /\ OffsetSize = 8 /\ DirectionSize = 1 /\ LengthSize = 4 /\ DataAt = 13
         /\ rec.no \in 0..Len(written) /\ Len(written) \in Nat
         /\ rec.no # 0 =>
              /\ rec.no \in 1..Len(written) /\ written[rec.no] \in RecordType
              /\ SizeIn(written, rec.no) \in Nat /\ SizeIn(written, rec.no) > 13
              /\ written[rec.no].len \in Nat \ {0}
              /\ SizeIn(written, rec.no) = 13 + written[rec.no].len
<1>1. OffsetSize = 8 /\ DirectionSize = 1 /\ LengthSize = 4 /\ DataAt = 13
  BY DEF DataAt, OffsetSize, DirectionSize, LengthSize
<1>2. /\ rec.no \in 0..Len(written) /\ written \in Seq(RecordType) /\ Len(written) \in Nat
  BY FileFacts DEF TypeOK, Seen
<1>3. rec.no # 0 => rec.no \in 1..Len(written)
  BY <1>2
<1>4. rec.no # 0 => written[rec.no] \in RecordType
  BY <1>2, <1>3, ElementOfSeq
<1> QED
  BY <1>1, <1>2, <1>3, <1>4, Sizes

\* Its direction and its length.
LEMMA ReadDirectionStep ==
  ASSUME IInv, ReadDirection
  PROVE  IInv'
<1>1. TypeOK /\ FileInv /\ ReadInv /\ PrefixInv
  BY DEF IInv
<1>2. pc = "direction" /\ UNCHANGED <<written, torn, file, cut, read>>
  BY DEF ReadDirection
<1> DEFINE no == Still(OffsetSize + 1, DirectionSize)
<1>3. PICK d \in (IF no # 0 THEN {written[no].dir} ELSE Dirs) :
        rec' = [rec EXCEPT !.no = no, !.dir = d]
  BY DEF ReadDirection
<1>4. \/ Take(DirectionSize, "length", "failed")
      \/ no = 0 /\ Take(DirectionSize, "failed", "failed")
  BY DEF ReadDirection
<1>5. /\ OffsetSize = 8 /\ DirectionSize = 1 /\ DirectionSize \in Nat /\ OffsetSize \in Nat
      /\ rec.no # 0 => OffsetSize + DirectionSize <= SizeIn(written, rec.no)
  BY <1>1, FieldSizes
<1>6. Within(OffsetSize)
  BY <1>1, <1>2 DEF ReadInv
<1>7. /\ no \in {0, rec.no}
      /\ pos + DirectionSize <= Len(file) =>
           /\ no # 0 =>
                /\ file[pos + DirectionSize].no = rec.no
                /\ file[pos + DirectionSize].at = OffsetSize + DirectionSize
                /\ Sound(Len(read)) => Cardinality(Before(Kept, rec.no)) = Len(read)
           /\ no = 0 => torn # {} /\ (Sound(Len(read)) => Lost)
      /\ pos + DirectionSize > Len(file) /\ torn = {} => cut /\ Len(read) = Cardinality(Kept)
  BY <1>5, <1>6, FieldRead
<1> HIDE DEF no
<1>8. /\ pos' \in 0..Len(file) /\ pos' \in Nat /\ pos <= pos' /\ pos \in Nat
      /\ Len(file) \in Nat
      /\ \/ pc' = "length" /\ pos' = pos + DirectionSize /\ pos + DirectionSize <= Len(file)
         \/ pc' = "failed" /\ no = 0 /\ pos + DirectionSize <= Len(file)
         \/ pc' = "failed" /\ pos + DirectionSize > Len(file)
  <2>1. CASE Take(DirectionSize, "length", "failed")
    BY <1>1, <1>5, <2>1, TakeFacts
  <2>2. CASE no = 0 /\ Take(DirectionSize, "failed", "failed")
    BY <1>1, <1>5, <2>2, TakeFacts
  <2> QED
    BY <1>4, <2>1, <2>2
<1>9. /\ FileInv' /\ Kept' = Kept /\ Seen' = Seen /\ PrefixInv' /\ TornMisleads'
      /\ Sound(Len(read))' = Sound(Len(read)) /\ Lost' = Lost
  BY <1>2, <1>8, ReadStays
<1>10. rec'.no = no /\ (no # 0 => rec'.dir = written[no].dir) /\ rec' \in Seen
  <2>1. d \in Dirs
    BY <1>1, <1>3, <1>7, FieldSizes DEF RecordType
  <2>2. no \in 0..Len(written)
    BY <1>1, <1>7, FieldSizes
  <2> QED
    BY <1>1, <1>3, <2>1, <2>2 DEF TypeOK, Seen
<1>11. TypeOK'
  BY <1>1, <1>2, <1>8, <1>9, <1>10 DEF TypeOK, Fields, Ended
<1>12. CASE /\ pc' = "length" /\ pos' = pos + DirectionSize
            /\ pos + DirectionSize <= Len(file)
  <2>1. pos' # 0
    BY <1>5, <1>8, <1>12
  <2>2. Within(OffsetSize + DirectionSize)'
    BY <1>2, <1>7, <1>9, <1>10, <1>12, <2>1 DEF Within
  <2>3. DirKnown'
    BY <1>2, <1>10 DEF DirKnown
  <2>4. ReadInv'
    BY <1>12, <2>2, <2>3 DEF ReadInv
  <2> QED
    BY <1>9, <1>11, <1>12, <2>4 DEF IInv, DoneIsComplete, ErrorMeansCut
<1>13. CASE /\ pc' = "failed"
            /\ torn = {} => cut /\ Len(read) = Cardinality(Kept)
  BY <1>2, <1>9, <1>11, <1>13 DEF IInv, ReadInv, DoneIsComplete, ErrorMeansCut
<1> QED
  BY <1>7, <1>8, <1>12, <1>13

LEMMA ReadLengthStep ==
  ASSUME IInv, ReadLength
  PROVE  IInv'
<1>1. TypeOK /\ FileInv /\ ReadInv /\ PrefixInv
  BY DEF IInv
<1>2. /\ pc = "length" /\ UNCHANGED <<written, torn, file, cut, read>>
      /\ Take(LengthSize, "data", "failed")
  BY DEF ReadLength
<1> DEFINE no == Still(DataAt - LengthSize + 1, LengthSize)
<1>3. PICK n \in (IF no # 0 THEN {written[no].len} ELSE 0..(Len(file) - pos)) :
        rec' = [rec EXCEPT !.no = no, !.len = n]
  BY DEF ReadLength
<1>5. /\ LengthSize = 4 /\ DataAt = 13 /\ DataAt - LengthSize = 9 /\ LengthSize \in Nat
      /\ OffsetSize + DirectionSize = 9
      /\ rec.no # 0 => 9 + LengthSize <= SizeIn(written, rec.no)
  BY <1>1, FieldSizes
<1>6. Within(9) /\ DirKnown
  BY <1>1, <1>2, <1>5 DEF ReadInv
<1>7. /\ no \in {0, rec.no}
      /\ pos + LengthSize <= Len(file) =>
           /\ no # 0 =>
                /\ file[pos + LengthSize].no = rec.no
                /\ file[pos + LengthSize].at = 9 + LengthSize
                /\ Sound(Len(read)) => Cardinality(Before(Kept, rec.no)) = Len(read)
           /\ no = 0 => torn # {} /\ (Sound(Len(read)) => Lost)
      /\ pos + LengthSize > Len(file) /\ torn = {} => cut /\ Len(read) = Cardinality(Kept)
  BY <1>5, <1>6, FieldRead
<1> HIDE DEF no
<1>8. /\ pos' \in 0..Len(file) /\ pos' \in Nat /\ pos <= pos' /\ pos \in Nat
      /\ Len(file) \in Nat
      /\ \/ pc' = "data" /\ pos' = pos + LengthSize /\ pos + LengthSize <= Len(file)
         \/ pc' = "failed" /\ pos + LengthSize > Len(file)
  BY <1>1, <1>2, <1>5, TakeFacts
<1>9. /\ FileInv' /\ Kept' = Kept /\ Seen' = Seen /\ PrefixInv' /\ TornMisleads'
      /\ Sound(Len(read))' = Sound(Len(read)) /\ Lost' = Lost
  BY <1>2, <1>8, ReadStays
<1>10. /\ rec'.no = no /\ (no # 0 => rec'.len = written[no].len) /\ rec'.dir = rec.dir
       /\ rec' \in Seen
  <2>1. n \in Nat
    BY <1>1, <1>3, <1>7, <1>8, FieldSizes
  <2>2. no \in 0..Len(written)
    BY <1>1, <1>7, FieldSizes
  <2> QED
    BY <1>1, <1>3, <2>1, <2>2 DEF TypeOK, Seen
<1>11. TypeOK'
  BY <1>1, <1>2, <1>8, <1>9, <1>10 DEF TypeOK, Fields, Ended
<1>12. CASE pc' = "data" /\ pos' = pos + LengthSize /\ pos + LengthSize <= Len(file)
  <2>1. pos' # 0 /\ 9 + LengthSize = DataAt
    BY <1>5, <1>8, <1>12
  <2>2. Within(DataAt)'
    BY <1>2, <1>7, <1>9, <1>10, <1>12, <2>1 DEF Within
  <2>3. DirKnown' /\ LenKnown'
    BY <1>2, <1>6, <1>7, <1>10 DEF DirKnown, LenKnown
  <2>4. ReadInv'
    BY <1>12, <2>2, <2>3 DEF ReadInv
  <2> QED
    BY <1>9, <1>11, <1>12, <2>4 DEF IInv, DoneIsComplete, ErrorMeansCut
<1>13. CASE /\ pc' = "failed"
            /\ torn = {} => cut /\ Len(read) = Cardinality(Kept)
  BY <1>2, <1>9, <1>11, <1>13 DEF IInv, ReadInv, DoneIsComplete, ErrorMeansCut
<1> QED
  BY <1>7, <1>8, <1>12, <1>13

\* One more record, whole or made of parts, is behind those that were read.
LEMMA OneMore ==
  ASSUME TypeOK, FileInv, PrefixInv, TornMisleads, NEW r \in Seen,
         UNCHANGED <<written, torn, file, cut>>, read' = Append(read, r),
         pos \in Nat, pos' \in Nat, pos <= pos', pos' \in 1..Len(file),
         r.no # 0 =>
           /\ r.dir = written[r.no].dir /\ r.len = written[r.no].len
           /\ file[pos'].no = r.no /\ file[pos'].at = SizeIn(written, r.no)
           /\ Sound(Len(read)) => Cardinality(Before(Kept, r.no)) = Len(read)
           /\ \A p \in 1..pos : file[p].at = SizeIn(written, file[p].no) => file[p].no < r.no,
         r.no = 0 => torn # {} /\ (Sound(Len(read)) => Lost)
  PROVE  /\ PrefixInv' /\ TornMisleads' /\ read' \in Seq(Seen)
         /\ Len(read') = Len(read) + 1 /\ Len(read) \in Nat
         /\ Sound(Len(read))' => Sound(Len(read)) /\ r.no # 0
<1>1. /\ read \in Seq(Seen) /\ Len(read) \in Nat
      /\ read' \in Seq(Seen) /\ Len(read') = Len(read) + 1
      /\ read'[Len(read) + 1] = r /\ \A i \in 1..Len(read) : read'[i] = read[i]
  <2>1. read \in Seq(Seen)
    BY DEF TypeOK
  <2> QED
    BY <2>1, AppendProperties, LenProperties
<1>2. Kept' = Kept
  BY FileStays
<1>3. \A i \in 1..Len(read') : i \in 1..Len(read) \/ i = Len(read) + 1
  BY <1>1
<1>4. \A n \in 0..Len(read) : Sound(n)' = Sound(n)
  <2>1. \A n \in 0..Len(read) : \A i \in 1..n : i \in 1..Len(read)
    BY <1>1
  <2> QED
    BY <1>1, <2>1 DEF Sound
<1>5. \A n \in 1..Len(read) : n \in 0..Len(read) /\ n - 1 \in 0..Len(read)
  BY <1>1
<1>6. (\A i \in 1..(Len(read) + 1) : read'[i].no # 0) => Sound(Len(read)) /\ r.no # 0
  <2> SUFFICES ASSUME \A i \in 1..(Len(read) + 1) : read'[i].no # 0
               PROVE  Sound(Len(read)) /\ r.no # 0
    OBVIOUS
  <2>2. Len(read) + 1 \in 1..(Len(read) + 1)
        /\ \A i \in 1..Len(read) : i \in 1..(Len(read) + 1)
    BY <1>1
  <2> QED
    BY <1>1, <2>2 DEF Sound
<1>7. PrefixInv'
  <2> SUFFICES ASSUME NEW i \in 1..Len(read')
               PROVE  /\ read'[i].no # 0 => Behind(i)'
                      /\ read'[i].no = 0 => torn # {}
                      /\ Sound(i)' => Cardinality(Before(Kept, read'[i].no)) = i - 1
    BY <1>2 DEF PrefixInv
  <2>1. CASE i \in 1..Len(read)
    <3>1. /\ read[i].no # 0 => Behind(i)
          /\ read[i].no = 0 => torn # {}
          /\ Sound(i) => Cardinality(Before(Kept, read[i].no)) = i - 1
      BY <2>1 DEF PrefixInv
    <3>2. \A p \in 1..pos : p \in 1..pos'
      OBVIOUS
    <3>3. Behind(i) => Behind(i)'
      BY <1>1, <2>1, <3>2 DEF Behind
    <3> QED
      BY <1>1, <1>4, <1>5, <2>1, <3>1, <3>3
  <2>2. CASE i = Len(read) + 1
    <3>1. read'[i] = r /\ i - 1 = Len(read) /\ pos' \in 1..pos'
      BY <1>1, <2>2
    <3>2. r.no # 0 => Behind(i)'
      BY <3>1 DEF Behind
    <3>3. Sound(i)' => Cardinality(Before(Kept, r.no)) = Len(read)
      BY <1>6, <2>2 DEF Sound
    <3> QED
      BY <3>1, <3>2, <3>3
  <2> QED
    BY <1>3, <2>1, <2>2
<1>8. TornMisleads'
  <2> SUFFICES ASSUME NEW i \in 1..Len(read')
               PROVE  /\ read'[i].no = 0 /\ Sound(i - 1)' =>
                           \E t \in torn : Cardinality({no \in Kept : no < t}) = i - 1
                      /\ \A j \in 1..(i - 1) :
                           read'[j].no # 0 /\ read'[i].no # 0 => read'[j].no < read'[i].no
    BY <1>2 DEF TornMisleads
  <2>1. CASE i \in 1..Len(read)
    <3>1. i - 1 \in 0..Len(read) /\ \A j \in 1..(i - 1) : j \in 1..Len(read)
      BY <1>1, <2>1
    <3> QED
      BY <1>1, <1>4, <2>1, <3>1 DEF TornMisleads
  <2>2. CASE i = Len(read) + 1
    <3>1. read'[i] = r /\ i - 1 = Len(read) /\ Len(read) \in 0..Len(read)
      BY <1>1, <2>2
    <3>2. r.no = 0 /\ Sound(i - 1)' =>
            \E t \in torn : Cardinality({no \in Kept : no < t}) = i - 1
      BY <1>4, <3>1 DEF Lost, Before
    <3>3. ASSUME NEW j \in 1..Len(read), read[j].no # 0, r.no # 0
          PROVE  read[j].no < r.no
      <4>1. PICK p \in 1..pos :
              file[p].no = read[j].no /\ file[p].at = SizeIn(written, read[j].no)
        BY <3>3 DEF PrefixInv, Behind
      <4> QED
        BY <3>3, <4>1
    <3> QED
      BY <1>1, <3>1, <3>2, <3>3
  <2> QED
    BY <1>3, <2>1, <2>2
<1>9. Sound(Len(read))' => Sound(Len(read)) /\ r.no # 0
  BY <1>1, <1>6 DEF Sound
<1> QED
  BY <1>1, <1>7, <1>8, <1>9

\* Its data, with which it is one more that has been read.
LEMMA ReadDataStep ==
  ASSUME IInv, ReadData
  PROVE  IInv'
<1>1. TypeOK /\ FileInv /\ ReadInv /\ PrefixInv /\ TornMisleads
  BY DEF IInv
<1> DEFINE no == Still(DataAt + 1, rec.len)
<1>2. /\ pc = "data" /\ UNCHANGED <<written, torn, file, cut>>
      /\ Take(rec.len, "offset", "failed")
      /\ rec' = [rec EXCEPT !.no = no]
      /\ read' = IF pc' = "offset" THEN Append(read, rec') ELSE read
  BY DEF ReadData
<1>3. FileInv' /\ Kept' = Kept /\ Seen' = Seen
  BY <1>1, <1>2, FileStays
<1>4. Within(DataAt) /\ DirKnown /\ LenKnown
  BY <1>1, <1>2 DEF ReadInv
<1>5. /\ DataAt = 13 /\ DataAt \in Nat /\ rec.len \in Nat
      /\ rec.no # 0 => SizeIn(written, rec.no) = DataAt + rec.len
  BY <1>1, <1>4, FieldSizes DEF TypeOK, Seen, LenKnown
<1>6. /\ no \in {0, rec.no}
      /\ pos + rec.len <= Len(file) =>
           /\ no # 0 =>
                /\ file[pos + rec.len].no = rec.no /\ file[pos + rec.len].at = DataAt + rec.len
                /\ Sound(Len(read)) => Cardinality(Before(Kept, rec.no)) = Len(read)
           /\ no = 0 => torn # {} /\ (Sound(Len(read)) => Lost)
      /\ pos + rec.len > Len(file) /\ torn = {} => cut /\ Len(read) = Cardinality(Kept)
  <2>1. rec.no # 0 => DataAt + rec.len <= SizeIn(written, rec.no)
    BY <1>5
  <2> QED
    BY <1>4, <1>5, <2>1, FieldRead
<1> HIDE DEF no
<1>7. /\ pos' \in 0..Len(file) /\ pos' \in Nat /\ pos <= pos' /\ pos \in Nat
      /\ Len(file) \in Nat
      /\ \/ pc' = "offset" /\ pos' = pos + rec.len /\ pos + rec.len <= Len(file)
         \/ pc' = "failed" /\ pos + rec.len > Len(file)
  BY <1>1, <1>2, <1>5, TakeFacts
<1>8. rec'.no = no /\ rec'.dir = rec.dir /\ rec'.len = rec.len /\ rec' \in Seen
  <2>1. no \in 0..Len(written)
    BY <1>1, <1>6, FieldSizes
  <2> QED
    BY <1>1, <1>2, <2>1 DEF TypeOK, Seen
<1>9. CASE pc' = "failed" /\ pos + rec.len > Len(file)
  <2>1. read' = read
    BY <1>2, <1>9
  <2>2. TypeOK'
    BY <1>1, <1>2, <1>3, <1>7, <1>8, <1>9, <2>1 DEF TypeOK, Fields, Ended
  <2>3. PrefixInv' /\ TornMisleads'
    BY <1>2, <1>7, <2>1, ReadStays
  <2> QED
    BY <1>2, <1>3, <1>6, <1>9, <2>1, <2>2, <2>3
       DEF IInv, ReadInv, DoneIsComplete, ErrorMeansCut
<1>10. CASE pc' = "offset" /\ pos' = pos + rec.len /\ pos + rec.len <= Len(file)
  <2>1. read' = Append(read, rec')
    BY <1>2, <1>10
  <2>2. pos # 0 /\ pos' \in 1..Len(file)
    BY <1>4, <1>7 DEF Within
  <2>3. no # 0 =>
          /\ no = rec.no /\ file[pos].no = no /\ file[pos].at = DataAt
          /\ file[pos'].no = no /\ file[pos'].at = SizeIn(written, no)
          /\ rec.dir = written[no].dir /\ rec.len = written[no].len
    BY <1>4, <1>5, <1>6, <1>10 DEF Within, DirKnown, LenKnown
  <2>4. ASSUME no # 0, NEW p \in 1..pos, file[p].at = SizeIn(written, file[p].no)
        PROVE  file[p].no < no
    <3>1. pos \in 1..Len(file) /\ p \in 1..Len(file)
      BY <1>7, <2>2
    <3>2. /\ file[p].no <= no /\ file[p].no \in Nat /\ no \in Nat
          /\ file[p].no = no => DataAt = file[p].at + (pos - p)
      BY <1>1, <2>3, <2>4, <3>1, FileFacts DEF FileInv, Ordered
    <3>3. file[p].no # no
      <4> SUFFICES ASSUME file[p].no = no
                   PROVE  FALSE
        OBVIOUS
      <4>1. file[p].at > 13 /\ file[p].at \in Nat
        BY <1>1, <2>3, <2>4, FieldSizes
      <4> QED
        BY <1>5, <1>7, <3>2, <4>1
    <3> QED
      BY <3>2, <3>3
  <2>5. /\ PrefixInv' /\ TornMisleads' /\ read' \in Seq(Seen)
        /\ Len(read') = Len(read) + 1 /\ Len(read) \in Nat
        /\ Sound(Len(read))' => Sound(Len(read)) /\ rec'.no # 0
    BY <1>1, <1>2, <1>6, <1>7, <1>8, <1>10, <2>1, <2>2, <2>3, <2>4, OneMore
  <2>6. TypeOK'
    BY <1>1, <1>2, <1>3, <1>7, <1>8, <1>10, <2>5 DEF TypeOK, Fields
  <2>7. ASSUME Sound(Len(read))'
        PROVE  /\ file[pos'].at = SizeIn(written, file[pos'].no)
               /\ Cardinality(Before(Kept, file[pos'].no + 1)) = Len(read')
    <3>1. Sound(Len(read)) /\ no # 0
      BY <1>8, <2>5, <2>7
    <3>2. file[pos'].no = no /\ file[pos'].at = SizeIn(written, no)
      BY <2>3, <3>1
    <3>3. no \in Kept
      BY <1>1, <2>2, <3>1, <3>2, WholeByLast
    <3>4. Cardinality(Before(Kept, no)) = Len(read)
      BY <1>6, <1>10, <2>3, <3>1
    <3>5. \A m \in Kept : m < no + 1 <=> m < no \/ m = no
      <4>1. \A m \in Kept : m \in Nat
        BY <1>1, LastOfWhole, FileFacts
      <4>2. no \in Nat
        BY <3>3, <4>1
      <4> QED
        BY <4>1, <4>2
    <3>6. Before(Kept, no + 1) = Before(Kept, no) \cup {no}
      BY <3>3, <3>5 DEF Before
    <3>7. no \notin Before(Kept, no)
      <4>1. no \in Nat
        BY <1>1, <3>3, LastOfWhole, FileFacts
      <4> QED
        BY <4>1 DEF Before
    <3>8. Cardinality(Before(Kept, no + 1)) = Len(read) + 1
      BY <1>1, <3>4, <3>6, <3>7, WholeAreFinite, FS_AddElement
    <3> QED
      BY <2>5, <3>2, <3>8
  <2>8. ReadInv'
    BY <1>2, <1>3, <1>10, <2>2, <2>7 DEF ReadInv
  <2> QED
    BY <1>3, <1>10, <2>5, <2>6, <2>8 DEF IInv, DoneIsComplete, ErrorMeansCut
<1> QED
  BY <1>7, <1>9, <1>10

-----------------------------------------------------------------------------
(* All steps.                                                              *)

\* The invariant holds of a file that has been created.
LEMMA InitInvariant == Init => IInv
<1> SUFFICES ASSUME Init
             PROVE  IInv
  OBVIOUS
<1>1. Len(<<>>) = 0 /\ \A S : <<>> \in Seq(S)
  BY EmptySeq
<1>2. HeaderSize = 24 /\ SizeIn(written, 0) = 24
  BY DEF HeaderSize, SizeIn
<1>3. /\ file \in Seq([no : 0..0, at : Nat]) /\ Len(file) = 24
      /\ \A i \in 1..Len(file) : file[i].no = 0 /\ file[i].at = i
  <2>1. /\ Image(0, 24) \in Seq([no : 0..0, at : Nat]) /\ Len(Image(0, 24)) = 24
        /\ \A i \in 1..24 : Image(0, 24)[i].no = 0 /\ Image(0, 24)[i].at = i
    BY ImageFacts
  <2>2. file = Image(0, 24)
    BY <1>2 DEF Init
  <2> QED
    BY <2>1, <2>2
<1>4. Len(file) = 24
  BY <1>3
<1>5. TypeOK
  <2>1. /\ written \in Seq([dir : Dirs, len : Lengths]) /\ read \in Seq(Seen)
        /\ Len(written) = 0
    BY <1>1 DEF Init
  <2>2. torn \subseteq 1..Len(written) /\ cut \in BOOLEAN /\ pc = "writing"
    BY DEF Init
  <2>3. pos \in 0..Len(file) /\ rec \in Seen
    BY <1>3, <2>1 DEF Init, Seen, Dirs
  <2>4. file \in Seq([no : 0..Len(written), at : Nat])
    BY <1>3, <2>1
  <2> QED
    BY <2>1, <2>2, <2>3, <2>4 DEF TypeOK
<1>6. Len(written) = 0
  BY <1>1 DEF Init
<1>7. Genuine(written, file) /\ Aligned(file) /\ Ordered(file) /\ Headed(file)
  <2>2. Genuine(written, file)
    <3> SUFFICES ASSUME NEW p \in 1..Len(file)
                 PROVE  file[p].no \in 0..Len(written) /\ file[p].at \in 1..SizeIn(written, file[p].no)
      BY DEF Genuine
    <3>1. file[p].no = 0 /\ file[p].at = p /\ p \in 1..24
      BY <1>3
    <3> QED
      BY <1>2, <1>6, <3>1
  <2>3. \A q \in 1..Len(file) : \A p \in 1..q : p \in 1..Len(file)
    BY <1>4
  <2>4. Aligned(file)
    <3> SUFFICES ASSUME NEW p \in 1..Len(file)
                 PROVE  /\ file[p].at <= p
                        /\ \A q \in 1..p : p - q < file[p].at =>
                             file[q].no = file[p].no /\ file[q].at = file[p].at - (p - q)
      BY DEF Aligned
    <3>1. file[p].no = 0 /\ file[p].at = p
      BY <1>3
    <3>2. \A q \in 1..p : file[q].no = 0 /\ file[q].at = q
      BY <1>3, <2>3
    <3>3. file[p].at <= p
      BY <1>4, <3>1
    <3>4. ASSUME NEW q \in 1..p
          PROVE  file[q].no = file[p].no /\ file[q].at = file[p].at - (p - q)
      <4>1. p \in Nat /\ q \in Nat /\ q = p - (p - q)
        BY <1>4
      <4> QED
        BY <3>1, <3>2, <4>1
    <3> QED
      BY <3>3, <3>4
  <2>5. Ordered(file)
    <3> SUFFICES ASSUME NEW q \in 1..Len(file), NEW p \in 1..q
                 PROVE  /\ file[p].no <= file[q].no
                        /\ file[p].no = file[q].no => file[q].at = file[p].at + (q - p)
      BY DEF Ordered
    <3>1. file[p].no = 0 /\ file[p].at = p /\ file[q].no = 0 /\ file[q].at = q
      BY <1>3, <2>3
    <3>2. p \in Nat /\ q \in Nat /\ q = p + (q - p)
      BY <1>4
    <3> QED
      BY <3>1, <3>2
  <2>6. Headed(file)
    BY <1>3 DEF Headed
  <2> QED
    BY <2>2, <2>4, <2>5, <2>6
<1>8. Unbroken(written, file, torn) /\ Finished(written, file, torn)
  <2>1. \A q \in 1..Len(file) : \A p \in 1..q : p \in 1..Len(file)
    BY <1>4
  <2>2. Unbroken(written, file, torn)
    BY <1>3, <2>1 DEF Unbroken
  <2>3. Finished(written, file, torn)
    <3> SUFFICES ASSUME NEW p \in 1..Len(file)
                 PROVE  p + (SizeIn(written, file[p].no) - file[p].at) <= Len(file)
      BY DEF Finished
    <3>1. file[p].no = 0 /\ file[p].at = p /\ p \in 1..24
      BY <1>3
    <3>2. SizeIn(written, file[p].no) = 24
      BY <1>2, <3>1
    <3>3. p + (24 - p) <= Len(file)
      BY <1>4, <3>1
    <3> QED
      BY <3>1, <3>2, <3>3
  <2> QED
    BY <2>2, <2>3
<1>9. FileInv
  BY <1>2, <1>3, <1>7, <1>8 DEF FileInv
<1> QED
  BY <1>1, <1>5, <1>9 DEF Init, IInv, ReadInv, PrefixInv, TornMisleads, DoneIsComplete,
                           ErrorMeansCut

\* Every step keeps the invariant.
LEMMA NextInvariant == IInv /\ [Next]_vars => IInv'
<1> SUFFICES ASSUME IInv, [Next]_vars
             PROVE  IInv'
  OBVIOUS
<1>1. ASSUME NEW d \in Dirs, NEW n \in Lengths,
             WriteRecord([dir |-> d, len |-> n]) \/ WriteFails([dir |-> d, len |-> n])
      PROVE  IInv'
  <2>1. [dir |-> d, len |-> n] \in RecordType
    BY DEF RecordType
  <2> QED
    BY <1>1, <2>1, WriteRecordStep, WriteFailsStep
<1>2. CASE Open
  BY <1>2, OpenStep
<1>3. CASE ReadHeader
  BY <1>3, ReadHeaderStep
<1>4. CASE ReadOffset
  BY <1>4, ReadOffsetStep
<1>5. CASE ReadDirection \/ ReadLength
  BY <1>5, ReadDirectionStep, ReadLengthStep
<1>6. CASE ReadData
  BY <1>6, ReadDataStep
<1>7. CASE UNCHANGED vars
  <2>1. UNCHANGED <<written, torn, file, cut, pc, pos, rec, read>> /\ pos \in Nat
    BY <1>7, FileFacts DEF IInv, vars, TypeOK
  <2>2. /\ FileInv' /\ Kept' = Kept /\ Seen' = Seen /\ PrefixInv' /\ TornMisleads'
        /\ Sound(Len(read))' = Sound(Len(read)) /\ Lost' = Lost
    BY <2>1, ReadStays
  <2>3. TypeOK' /\ ReadInv'
    <3>1. \A n : Within(n)' = Within(n)
      BY <2>1, <2>2 DEF Within
    <3> QED
      BY <2>1, <2>2, <3>1 DEF IInv, TypeOK, ReadInv, DirKnown, LenKnown
  <2>4. DoneIsComplete' /\ ErrorMeansCut'
    BY <2>1, <2>2 DEF IInv, DoneIsComplete, ErrorMeansCut
  <2> QED
    BY <2>2, <2>3, <2>4 DEF IInv
<1> QED
  BY <1>1, <1>2, <1>3, <1>4, <1>5, <1>6, <1>7 DEF Next

-----------------------------------------------------------------------------
(* Induction, over a set of numbers rather than over a predicate.          *)

\* A set of numbers has a least one: their initial segments are finite sets, on
\* which inclusion is well-founded.
LEMMA LeastOf ==
  ASSUME NEW T \in SUBSET Nat, T # {}
  PROVE  \E x \in T : \A y \in T : x <= y
<1> DEFINE U == {0..m : m \in T}
           R == StrictSubsetOrdering(Nat)
<1>1. IsWellFoundedOn(R, FiniteSubsetsOf(Nat))
  BY FS_StrictSubsetOrderingWellFounded
<1>2. U \subseteq FiniteSubsetsOf(Nat)
  <2> SUFFICES ASSUME NEW m \in T
               PROVE  0..m \in FiniteSubsetsOf(Nat)
    OBVIOUS
  <2>1. m \in Nat /\ 0 \in Int /\ m \in Int
    OBVIOUS
  <2>2. IsFiniteSet(0..m)
    BY <2>1, FS_Interval
  <2> QED
    BY <2>1, <2>2 DEF FiniteSubsetsOf
<1>3. U # {}
  OBVIOUS
<1>4. \A a \in T, b \in T : b < a => <<0..b, 0..a>> \in R
  <2> SUFFICES ASSUME NEW a \in T, NEW b \in T, b < a
               PROVE  <<0..b, 0..a>> \in R
    OBVIOUS
  <2>1. 0..b \in SUBSET Nat /\ 0..a \in SUBSET Nat /\ 0..b \subseteq 0..a
    OBVIOUS
  <2>2. a \in 0..a /\ a \notin 0..b
    OBVIOUS
  <2> QED
    BY <2>1, <2>2 DEF StrictSubsetOrdering
<1> HIDE DEF R
<1>5. \E u \in U : \A v \in U : ~(<<v, u>> \in R)
  <2> HIDE DEF U
  <2> QED
    BY <1>1, <1>2, <1>3, WFMin
<1>6. PICK x \in T : \A y \in T : ~(<<0..y, 0..x>> \in R)
  BY <1>5
<1>7. \A y \in T : ~(y < x)
  BY <1>4, <1>6
<1> QED
  BY <1>7

\* What holds of 0, and of the next number with each, holds up to n.
LEMMA Induction ==
  ASSUME NEW n \in Nat, NEW G, 0 \in G, \A m \in 0..(n - 1) : m \in G => m + 1 \in G
  PROVE  \A m \in 0..n : m \in G
<1> DEFINE T == {m \in 0..n : m \notin G}
<1> SUFFICES ASSUME T # {}
             PROVE  FALSE
  OBVIOUS
<1>1. T \in SUBSET Nat
  OBVIOUS
<1>2. PICK x \in T : \A y \in T : x <= y
  <2> HIDE DEF T
  <2> QED
    BY <1>1, LeastOf
<1>3. x # 0 /\ x - 1 \in 0..(n - 1) /\ x - 1 \notin T
  BY <1>2
<1> QED
  BY <1>2, <1>3

\* Max is the greatest number of a set up to n.
LEMMA GreatestOf ==
  ASSUME NEW n \in Nat, NEW T \in SUBSET (1..n), T # {}
  PROVE  Max(T) \in T /\ \A y \in T : y <= Max(T)
<1> DEFINE U == {n - x : x \in T}
<1>1. U \in SUBSET Nat /\ U # {}
  <2>1. \A x \in T : n - x \in Nat
    OBVIOUS
  <2> QED
    BY <2>1
<1>2. \E x \in U : \A y \in U : x <= y
  <2> HIDE DEF U
  <2> QED
    BY <1>1, LeastOf
<1>3. PICK x \in T : \A y \in T : n - x <= n - y
  BY <1>2
<1>4. \A y \in T : x >= y
  BY <1>3
<1> QED
  BY <1>4 DEF Max

-----------------------------------------------------------------------------
(* The two streams of a recording, and the times of their bytes.           *)

\* Where the bytes of record i in a stream end.
EndOf(s, i) == IF i = Len(s.index) THEN Len(s.bytes) ELSE s.index[i + 1].at

Places == [at : Nat, stamp : Nat]

\* The records of a stream follow each other, and none is empty.
Tiled(s) ==
  /\ s.bytes \in Seq(Nat)
  /\ s.index \in Seq(Places)
  /\ (s.index = <<>>) = (s.bytes = <<>>)
  /\ s.index # <<>> => s.index[1].at = 0
  /\ \A i \in 1..Len(s.index) :
       /\ s.index[i].at < EndOf(s, i) /\ EndOf(s, i) <= Len(s.bytes)
       /\ \A o \in s.index[i].at..(EndOf(s, i) - 1) : s.bytes[o + 1] = s.index[i].stamp

\* The types of a stream's parts.
LEMMA PlacesOf ==
  ASSUME NEW s, Tiled(s)
  PROVE  /\ s.bytes \in Seq(Nat) /\ s.index \in Seq(Places)
         /\ Len(s.bytes) \in Nat /\ Len(s.index) \in Nat
         /\ \A i \in 1..Len(s.index) : s.index[i].at \in Nat
<1>1. s.bytes \in Seq(Nat) /\ s.index \in Seq(Places)
  BY DEF Tiled
<1>2. \A i \in 1..Len(s.index) : s.index[i] \in Places
  BY <1>1, ElementOfSeq
<1> QED
  BY <1>1, <1>2, LenProperties DEF Places

\* Another record keeps them so.
LEMMA TiledExtended ==
  ASSUME NEW s, Tiled(s), NEW no \in 1..Len(read), Len(read) \in Nat,
         read[no].len \in Nat \ {0}
  PROVE  Tiled(Extended(s, no))
<1> DEFINE n == read[no].len
           k == Len(s.index)
           more == [i \in 1..n |-> no]
           e == [at |-> Len(s.bytes), stamp |-> Stamp(no)]
           t == Extended(s, no)
<1>1. n \in Nat \ {0}
  OBVIOUS
<1>2. /\ more \in Seq(Nat) /\ Len(more) = n /\ no \in Nat
      /\ \A i \in 1..n : more[i] = no
  <2>1. no \in Nat
    OBVIOUS
  <2> HIDE DEF n
  <2> QED
    BY <1>1, <2>1
<1>3. /\ s.bytes \in Seq(Nat) /\ s.index \in Seq(Places)
      /\ Len(s.bytes) \in Nat /\ k \in Nat /\ \A i \in 1..k : s.index[i].at \in Nat
  BY PlacesOf
<1>4. e \in Places /\ e.at = Len(s.bytes) /\ e.stamp = no
  BY <1>2, <1>3 DEF Stamp, Places
<1>5. t.bytes = s.bytes \o more /\ t.index = Append(s.index, e)
  BY DEF Extended
<1> HIDE DEF more, e, t, n
<1>6. /\ t.bytes \in Seq(Nat) /\ Len(t.bytes) = Len(s.bytes) + n
      /\ \A o \in 1..Len(s.bytes) : t.bytes[o] = s.bytes[o]
      /\ \A o \in (Len(s.bytes) + 1)..(Len(s.bytes) + n) : t.bytes[o] = no
  <2>1. /\ s.bytes \o more \in Seq(Nat) /\ Len(s.bytes \o more) = Len(s.bytes) + n
        /\ \A o \in 1..(Len(s.bytes) + n) :
             (s.bytes \o more)[o] = IF o <= Len(s.bytes) THEN s.bytes[o]
                                                      ELSE more[o - Len(s.bytes)]
    BY <1>2, <1>3, ConcatProperties
  <2>2. \A o \in 1..Len(s.bytes) : t.bytes[o] = s.bytes[o]
    <3> SUFFICES ASSUME NEW o \in 1..Len(s.bytes)
                 PROVE  t.bytes[o] = s.bytes[o]
      OBVIOUS
    <3>1. o \in 1..(Len(s.bytes) + n) /\ o <= Len(s.bytes)
      BY <1>1, <1>3
    <3> QED
      BY <1>5, <2>1, <3>1
  <2>3. \A o \in (Len(s.bytes) + 1)..(Len(s.bytes) + n) : t.bytes[o] = no
    <3> SUFFICES ASSUME NEW o \in (Len(s.bytes) + 1)..(Len(s.bytes) + n)
                 PROVE  t.bytes[o] = no
      OBVIOUS
    <3>1. o \in 1..(Len(s.bytes) + n) /\ ~(o <= Len(s.bytes)) /\ o - Len(s.bytes) \in 1..n
      BY <1>1, <1>3
    <3>2. t.bytes[o] = more[o - Len(s.bytes)]
      BY <1>5, <2>1, <3>1
    <3> QED
      BY <1>2, <3>1, <3>2
  <2> QED
    BY <1>5, <2>1, <2>2, <2>3
<1>7. /\ t.index \in Seq(Places) /\ Len(t.index) = k + 1
      /\ \A i \in 1..k : t.index[i] = s.index[i]
      /\ t.index[k + 1] = e
  BY <1>3, <1>4, <1>5, AppendProperties
<1>8. t.index # <<>> /\ t.bytes # <<>>
  <2>1. Len(t.index) # 0
    BY <1>3, <1>7
  <2>2. Len(t.bytes) # 0
    BY <1>1, <1>3, <1>6
  <2>3. Len(<<>>) = 0
    OBVIOUS
  <2> QED
    BY <2>1, <2>2, <2>3, Zenon
<1>9. t.index[1].at = 0
  <2>1. CASE k = 0
    <3>1. Len(s.bytes) = 0
      BY <2>1, <1>3 DEF Tiled
    <3> QED
      BY <2>1, <3>1, <1>4, <1>7
  <2>2. CASE k # 0
    <3>1. s.index # <<>> /\ 1 \in 1..k
      BY <2>2, <1>3
    <3> QED
      BY <3>1, <1>7 DEF Tiled
  <2> QED
    BY <2>1, <2>2
<1>10. ASSUME NEW i \in 1..(k + 1)
       PROVE  /\ t.index[i].at < EndOf(t, i) /\ EndOf(t, i) <= Len(t.bytes)
              /\ \A o \in t.index[i].at..(EndOf(t, i) - 1) : t.bytes[o + 1] = t.index[i].stamp
  <2>1. CASE i = k + 1
    <3>1. EndOf(t, i) = Len(s.bytes) + n /\ t.index[i] = e
      BY <2>1, <1>6, <1>7 DEF EndOf
    <3>2. Len(t.bytes) = Len(s.bytes) + n
      BY <1>6
    <3> QED
      <4>1. t.index[i].at = Len(s.bytes) /\ t.index[i].stamp = no
        BY <3>1, <1>4
      <4>2. \A o \in Len(s.bytes)..(Len(s.bytes) + n - 1) : t.bytes[o + 1] = no
        <5> SUFFICES ASSUME NEW o \in Len(s.bytes)..(Len(s.bytes) + n - 1)
                     PROVE  t.bytes[o + 1] = no
          OBVIOUS
        <5>1. o + 1 \in (Len(s.bytes) + 1)..(Len(s.bytes) + n)
          BY <1>1, <1>3
        <5> QED
          BY <5>1, <1>6
      <4> QED
        BY <3>1, <4>1, <4>2, <1>1, <1>3, <1>6
  <2>2. CASE i # k + 1
    <3>1. i \in 1..k /\ t.index[i] = s.index[i]
      BY <2>2, <1>3, <1>7
    <3>2. EndOf(t, i) = EndOf(s, i)
      <4>1. CASE i = k
        BY <4>1, <1>3, <1>4, <1>7 DEF EndOf
      <4>2. CASE i # k
        <5>1. i + 1 \in 1..k
          BY <3>1, <4>2, <1>3
        <5>2. t.index[i + 1] = s.index[i + 1]
          BY <5>1, <1>7
        <5>3. i # Len(t.index)
          BY <2>2, <1>7
        <5> QED
          BY <4>2, <5>2, <5>3 DEF EndOf
      <4> QED
        BY <4>1, <4>2
    <3>3. /\ s.index[i].at < EndOf(s, i) /\ EndOf(s, i) <= Len(s.bytes)
          /\ \A o \in s.index[i].at..(EndOf(s, i) - 1) : s.bytes[o + 1] = s.index[i].stamp
      BY <3>1 DEF Tiled
    <3>4. s.index[i].at \in Nat /\ EndOf(s, i) \in Nat
      BY <3>1, <1>3 DEF EndOf
    <3>5. \A o \in s.index[i].at..(EndOf(s, i) - 1) : t.bytes[o + 1] = s.bytes[o + 1]
      <4> SUFFICES ASSUME NEW o \in s.index[i].at..(EndOf(s, i) - 1)
                   PROVE  t.bytes[o + 1] = s.bytes[o + 1]
        OBVIOUS
      <4>0. EndOf(s, i) <= Len(s.bytes) /\ Len(s.bytes) \in Nat
        BY <1>3, <3>3
      <4>1. o + 1 \in 1..Len(s.bytes)
        BY <3>4, <4>0
      <4>2. \A p \in 1..Len(s.bytes) : t.bytes[p] = s.bytes[p]
        BY <1>6
      <4> QED
        BY <4>1, <4>2
    <3>6. EndOf(t, i) <= Len(t.bytes)
      BY <3>2, <3>3, <3>4, <1>1, <1>3, <1>6
    <3> QED
      BY <3>1, <3>2, <3>3, <3>5, <3>6
  <2> QED
    BY <2>1, <2>2
<1>11. Tiled(t)
  BY <1>6, <1>7, <1>8, <1>9, <1>10 DEF Tiled
<1> QED
  BY <1>11 DEF t

\* The binary search finds the record that brought a byte.
LEMMA TiledLookup ==
  ASSUME NEW s, Tiled(s), NEW o \in 0..(Len(s.bytes) - 1)
  PROVE  Lookup(s.index, o) = {Stamp(s.bytes[o + 1])}
<1> DEFINE k == Len(s.index)
           here == {i \in 1..k : s.index[i].at = o}
           upto == {i \in 1..k : s.index[i].at <= o}
           j == Max(upto)
<1>1. /\ s.bytes \in Seq(Nat) /\ s.index \in Seq(Places)
      /\ k \in Nat /\ Len(s.bytes) \in Nat /\ \A i \in 1..k : s.index[i].at \in Nat
  BY PlacesOf
<1>2. s.index # <<>> /\ k # 0 /\ 1 \in upto
  <2>1. s.bytes # <<>>
    BY <1>1
  <2>2. s.index # <<>> /\ s.index[1].at = 0
    BY <2>1 DEF Tiled
  <2> QED
    BY <2>2, <1>1
<1>3. j \in upto /\ \A i \in upto : i <= j
  <2>1. upto \in SUBSET (1..k) /\ upto # {}
    BY <1>2
  <2> HIDE DEF upto
  <2> QED
    BY <1>1, <2>1, GreatestOf
<1>4. Lookup(s.index, o) = IF here # {} THEN {s.index[i].stamp : i \in here}
                            ELSE {s.index[j].stamp}
  BY <1>2 DEF Lookup
<1>5. ASSUME NEW i \in 1..k, s.index[i].at <= o, o < EndOf(s, i)
      PROVE  s.index[i].stamp = Stamp(s.bytes[o + 1])
  <2>1. EndOf(s, i) \in Nat
    <3>1. i # k => i + 1 \in 1..k
      BY <1>1
    <3> QED
      BY <1>1, <3>1 DEF EndOf
  <2>2. o \in s.index[i].at..(EndOf(s, i) - 1)
    BY <1>1, <1>5, <2>1
  <2> QED
    BY <2>2 DEF Tiled, Stamp
<1>6. \A i \in here : s.index[i].stamp = Stamp(s.bytes[o + 1])
  <2> SUFFICES ASSUME NEW i \in here
               PROVE  s.index[i].stamp = Stamp(s.bytes[o + 1])
    OBVIOUS
  <2>1. i \in 1..k /\ s.index[i].at = o /\ s.index[i].at < EndOf(s, i)
    BY DEF Tiled
  <2>2. s.index[i].at <= o
    BY <2>1
  <2> QED
    BY <1>5, <2>1, <2>2
<1>7. s.index[j].stamp = Stamp(s.bytes[o + 1])
  <2> HIDE DEF j
  <2>1. j \in 1..k /\ s.index[j].at <= o
    BY <1>3
  <2>2. o < EndOf(s, j)
    <3>1. CASE j = k
      BY <3>1, <1>1 DEF EndOf
    <3>2. CASE j # k
      <4>1. j + 1 \in 1..k /\ j + 1 \notin upto
        BY <3>2, <1>1, <1>3
      <4> QED
        BY <3>2, <4>1, <1>1 DEF EndOf
    <3> QED
      BY <3>1, <3>2
  <2> QED
    BY <1>5, <2>1, <2>2
<1> HIDE DEF j, here
<1> QED
  BY <1>4, <1>6, <1>7

\* What split_records has made of the first n records.
Started == [bytes |-> <<>>, index |-> <<>>]
Upto(d, g, n) ==
  IF n = 0 THEN Started
  ELSE IF read[n].dir = d THEN Extended(g[n - 1], n)
  ELSE g[n - 1]

\* Split is computed record by record.
LEMMA SplitUnfolds ==
  ASSUME TypeOK, NEW d
  PROVE  \E g : /\ g = [n \in 0..Len(read) |-> Upto(d, g, n)]
                /\ Split(d) = g[Len(read)]
<1> DEFINE Steps(m, g) == g = [n \in 0..m |-> Upto(d, g, n)]
           G == {m \in Nat : \E g : Steps(m, g)}
<1>1. Len(read) \in Nat
  BY DEF TypeOK
<1>2. 0 \in G
  <2>1. Steps(0, [n \in 0..0 |-> Started])
    BY DEF Upto
  <2> QED
    BY <2>1
<1>3. ASSUME NEW m \in Nat, m \in G
      PROVE  m + 1 \in G
  <2>1. PICK g : Steps(m, g)
    BY <1>3
  <2> DEFINE h == [n \in 0..(m + 1) |-> IF n = m + 1 THEN Upto(d, g, n) ELSE g[n]]
  <2>2. \A n \in 0..(m + 1) : h[n] = Upto(d, h, n)
    <3> SUFFICES ASSUME NEW n \in 0..(m + 1)
                 PROVE  h[n] = Upto(d, h, n)
      OBVIOUS
    <3>1. n = 0 \/ h[n - 1] = g[n - 1]
      OBVIOUS
    <3>2. Upto(d, h, n) = Upto(d, g, n)
      BY <3>1 DEF Upto
    <3>3. h[n] = Upto(d, g, n)
      BY <2>1
    <3> QED
      BY <3>2, <3>3
  <2>3. Steps(m + 1, h)
    <3>1. h = [n \in 0..(m + 1) |-> h[n]]
      OBVIOUS
    <3> HIDE DEF h
    <3> QED
      BY <2>2, <3>1
  <2>4. \E f : Steps(m + 1, f)
    <3> HIDE DEF h, Steps
    <3> QED
      BY <2>3
  <2> QED
    BY <2>4
<1>4. Len(read) \in G
  <2>1. \A m \in 0..(Len(read) - 1) : m \in G => m + 1 \in G
    BY <1>1, <1>3
  <2> HIDE DEF G
  <2> QED
    <3>1. \A m \in 0..Len(read) : m \in G
      BY <1>1, <1>2, <2>1, Induction
    <3> QED
      BY <1>1, <3>1
<1> DEFINE g == CHOOSE g : Steps(Len(read), g)
<1>5. Steps(Len(read), g)
  BY <1>4
<1>6. Split(d) = g[Len(read)]
  BY DEF Split, Upto, Started
<1> QED
  BY <1>5, <1>6

\* So its streams are those of records that follow each other.
LEMMA SplitTiled ==
  ASSUME TypeOK, \A n \in 1..Len(read) : read[n].len # 0, NEW d
  PROVE  Tiled(Split(d))
<1>1. PICK g : g = [n \in 0..Len(read) |-> Upto(d, g, n)] /\ Split(d) = g[Len(read)]
  BY SplitUnfolds
<1> DEFINE G == {n \in 0..Len(read) : Tiled(g[n])}
<1>2. Len(read) \in Nat
  BY DEF TypeOK
<1>3. \A n \in 0..Len(read) : g[n] = Upto(d, g, n)
  BY <1>1
<1>4. 0 \in G
  <2>1. g[0] = Started
    BY <1>2, <1>3 DEF Upto
  <2>2. Tiled(Started)
    <3>1. /\ Started.bytes = <<>> /\ Started.index = <<>>
          /\ Started.bytes \in Seq(Nat) /\ Started.index \in Seq(Places)
          /\ Len(Started.index) = 0
      BY DEF Started
    <3> QED
      BY <3>1 DEF Tiled
  <2> QED
    BY <1>2, <2>1, <2>2
<1>5. ASSUME NEW n \in 0..(Len(read) - 1), n \in G
      PROVE  n + 1 \in G
  <2>1. n + 1 \in 1..Len(read) /\ read[n + 1].len \in Nat \ {0}
    <3>1. n + 1 \in 1..Len(read) /\ read \in Seq(Seen)
      BY <1>2 DEF TypeOK
    <3>2. read[n + 1] \in Seen
      BY <3>1, ElementOfSeq
    <3> QED
      BY <3>1, <3>2 DEF Seen
  <2>2. g[n + 1] = Upto(d, g, n + 1) /\ Tiled(g[n])
    BY <1>2, <1>3, <1>5, <2>1
  <2>3. Upto(d, g, n + 1) = g[n] \/ Upto(d, g, n + 1) = Extended(g[n], n + 1)
    BY <2>1 DEF Upto
  <2>4. Tiled(g[n + 1])
    BY <1>2, <2>1, <2>2, <2>3, TiledExtended
  <2> QED
    BY <2>1, <2>4
<1>6. Len(read) \in G
  <2> HIDE DEF G
  <2> QED
    <3>1. \A n \in 0..(Len(read) - 1) : n \in G => n + 1 \in G
      BY <1>5
    <3>2. \A n \in 0..Len(read) : n \in G
      BY <1>2, <1>4, <3>1, Induction
    <3> QED
      BY <1>2, <3>2
<1> QED
  BY <1>1, <1>6

\* Types are all that the times of bytes need.
LEMMA TimesFollow ==
  ASSUME TypeOK
  PROVE  TimesAreRight
<1> SUFFICES ASSUME \A n \in 1..Len(read) : read[n].len # 0,
                    NEW d \in Dirs, NEW o \in 0..(Len(Split(d).bytes) - 1)
             PROVE  Lookup(Split(d).index, o) = {Stamp(Split(d).bytes[o + 1])}
  BY DEF TimesAreRight
<1>1. Tiled(Split(d))
  BY SplitTiled
<1> QED
  BY <1>1, TiledLookup

-----------------------------------------------------------------------------
(* The theorems.                                                           *)

\* The invariant: the bytes of the file are in order, and the reader is behind
\* as many records as it has read.
THEOREM FileInvariant == Spec => []IInv
<1>1. Init => IInv
  BY InitInvariant
<1>2. IInv /\ [Next]_vars => IInv'
  BY NextInvariant
<1> QED
  BY <1>1, <1>2, PTL DEF Spec

\* Every variable has its type; the reader is never behind the end of the file.
THEOREM FileTypes == Spec => []TypeOK
<1>1. IInv => TypeOK
  BY DEF IInv
<1> QED
  BY <1>1, FileInvariant, PTL

\* What is read of a recording is what was written, from the first record on and
\* without a gap, wherever the file was cut, up to the first record that is made of
\* the parts of two.
THEOREM PrefixIsRead == Spec => []ReadIsPrefix
<1>1. IInv => ReadIsPrefix
  <2> SUFFICES ASSUME IInv, NEW i \in 1..Len(read), Sound(i)
               PROVE  /\ read[i].no \in Kept
                      /\ read[i].dir = written[read[i].no].dir
                      /\ read[i].len = written[read[i].no].len
                      /\ Cardinality({no \in Kept : no < read[i].no}) = i - 1
    BY DEF ReadIsPrefix
  <2>1. TypeOK /\ FileInv /\ PrefixInv
    BY DEF IInv
  <2>2. read[i].no # 0 /\ Len(read) \in Nat
    BY <2>1 DEF Sound, TypeOK
  <2>3. Behind(i) /\ Cardinality(Before(Kept, read[i].no)) = i - 1
    BY <2>1, <2>2 DEF PrefixInv
  <2>4. PICK p \in 1..pos :
          file[p].no = read[i].no /\ file[p].at = SizeIn(written, read[i].no)
    BY <2>3 DEF Behind
  <2>5. p \in 1..Len(file)
    BY <2>1, FileFacts DEF TypeOK
  <2>6. read[i].no \in Kept
    BY <2>1, <2>2, <2>4, <2>5, WholeByLast
  <2> QED
    BY <2>3, <2>6 DEF Behind, Before
<1> QED
  BY <1>1, FileInvariant, PTL

\* The first record that nobody wrote is read where a torn one stands, behind every
\* whole one in front of it; and whole ones behind it still come in order.
THEOREM OnlyTornMislead == Spec => []TornMisleads
<1>1. IInv => TornMisleads
  BY DEF IInv
<1> QED
  BY <1>1, FileInvariant, PTL

\* A recording that reads without error and without a record made of parts has been
\* read to its last whole record.
THEOREM ReadingIsComplete == Spec => []DoneIsComplete
<1>1. IInv => DoneIsComplete
  BY DEF IInv
<1> QED
  BY <1>1, FileInvariant, PTL

\* An error means a failed write or a cut, and of a cut it comes last.
THEOREM ErrorsMeanCuts == Spec => []ErrorMeansCut
<1>1. IInv => ErrorMeansCut
  BY DEF IInv
<1> QED
  BY <1>1, FileInvariant, PTL

\* split_records and lookup_timestamp give each byte of each stream the time of the
\* record that brought it, for any records that are not empty.
THEOREM TimesAreThoseOfRecords == Spec => []TimesAreRight
<1>1. IInv => TimesAreRight
  BY TimesFollow DEF IInv
<1> QED
  BY <1>1, FileInvariant, PTL
=============================================================================

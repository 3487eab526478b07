---------------------------- MODULE RecordingFile ----------------------------
(***************************************************************************)
(* A recording as bytes (nix-wire-recording/src/lib.rs): how it is written,*)
(* what is left of it when a write fails or the file is cut, how it is     *)
(* read back, and how the readers find the time of a byte (split_records   *)
(* and lookup_timestamp of decode.rs, stats.rs and decompile.rs).          *)
(*                                                                         *)
(* A byte is known by the record it was written for and its place there;   *)
(* the header is record 0.  Behind a torn record the reader goes on with   *)
(* whatever bytes come next: a field read from bytes that were not written *)
(* as that field of one record may have any value.                         *)
(***************************************************************************)
EXTENDS Naturals, Sequences, FiniteSetsExt, SequencesExt

CONSTANTS
  Lengths,      \* lengths of the chunks that are recorded
  MaxRecords,   \* bound: records given to write_record
  MaxFaults     \* bound: records whose writing fails

\* copy_and_record and cmd_pack write no empty record.
ASSUME FileAssumption ==
  /\ Lengths \subseteq Nat \ {0}
  /\ MaxRecords \in Nat
  /\ MaxFaults \in Nat

Dirs == {"client_to_daemon", "daemon_to_client"}
HeaderSize == 24
OffsetSize == 8
DirectionSize == 1
LengthSize == 4
DataAt == OffsetSize + DirectionSize + LengthSize

VARIABLES
  written,  \* records given to write_record, [dir, len]
  torn,     \* numbers of those whose writing failed
  file,     \* bytes of the file, [no, at]
  cut,      \* bytes are missing at its end
  pc,       \* writing, or the field the reader is about to read, or its end
  pos,      \* bytes the reader has consumed
  rec,      \* the record in hand: [no, dir, len], as far as it has been read
  read      \* the records read

vars == <<written, torn, file, cut, pc, pos, rec, read>>

Fields == {"header", "offset", "direction", "length", "data"}
Ended == {"done", "failed"}

\* A record as the reader sees it.  Its number is that of the written record all
\* its bytes are of, each in its place; no is 0 if there is none.
Seen == [no : 0..Len(written), dir : Dirs, len : Nat]

TypeOK ==
  /\ written \in Seq([dir : Dirs, len : Lengths])
  /\ torn \subseteq 1..Len(written)
  /\ file \in Seq([no : 0..Len(written), at : Nat])
  /\ cut \in BOOLEAN
  /\ pc \in {"writing"} \cup Fields \cup Ended
  /\ pos \in 0..Len(file)
  /\ rec \in Seen
  /\ read \in Seq(Seen)

\* The first n bytes of record no.
Image(no, n) == [i \in 1..n |-> [no |-> no, at |-> i]]
Size(no) == IF no = 0 THEN HeaderSize ELSE DataAt + written[no].len

Init ==
  /\ written = <<>>
  /\ torn = {}
  /\ file = Image(0, HeaderSize)
  /\ cut = FALSE
  /\ pc = "writing"
  /\ pos = 0
  /\ rec = [no |-> 0, dir |-> "client_to_daemon", len |-> 0]
  /\ read = <<>>

-----------------------------------------------------------------------------
(* Writing.                                                                *)

WriteRecord(r) ==
  /\ pc = "writing" /\ Len(written) < MaxRecords
  /\ written' = Append(written, r)
  /\ file' = file \o Image(Len(written'), DataAt + r.len)
  /\ UNCHANGED <<torn, cut, pc, pos, rec, read>>

\* The error is logged and the recorder goes on; some of the record may be in
\* the file.
WriteFails(r) ==
  /\ pc = "writing" /\ Len(written) < MaxRecords
  /\ Cardinality(torn) < MaxFaults
  /\ written' = Append(written, r)
  /\ torn' = torn \cup {Len(written')}
  /\ \E n \in 0..(DataAt + r.len - 1) : file' = file \o Image(Len(written'), n)
  /\ UNCHANGED <<cut, pc, pos, rec, read>>

\* The file is read, whole or as far as it had come when the recorder or the
\* machine stopped.
Open ==
  /\ pc = "writing"
  /\ pc' = "header"
  /\ \E n \in 0..Len(file) :
       /\ file' = SubSeq(file, 1, n)
       /\ cut' = (n < Len(file))
  /\ UNCHANGED <<written, torn, pos, rec, read>>

-----------------------------------------------------------------------------
(* Reading.                                                                *)

\* read_exact: the next size bytes, or all there are and UnexpectedEof.
Take(size, next, atEof) ==
  \/ /\ pos + size <= Len(file)
     /\ pos' = pos + size /\ pc' = next
  \/ /\ pos + size > Len(file)
     /\ pos' = Len(file) /\ pc' = atEof

\* These bytes are those of record no from at on.
Holds(no, at, size) ==
  /\ pos + size <= Len(file)
  /\ \A i \in 1..size : file[pos + i] = [no |-> no, at |-> at + i - 1]

\* The number of the record in hand, if they are its next ones.
Still(at, size) == IF Holds(rec.no, at, size) THEN rec.no ELSE 0

\* Wrong: the header is taken for granted.
SkipHeader ==
  /\ pc = "header"
  /\ pos' = HeaderSize /\ pc' = "offset"
  /\ UNCHANGED <<written, torn, file, cut, rec, read>>

\* Header::read_from; its five fields fail alike.  The header is written before
\* anything else, so that it is there or cut off.
ReadHeader ==
  /\ pc = "header"
  /\ Take(HeaderSize, "offset", "failed")
  /\ UNCHANGED <<written, torn, file, cut, rec, read>>

\* The number of the record whose offset comes next.
Following ==
  LET no == file[pos + 1].no
  IN  IF pos < Len(file) /\ Holds(no, 1, OffsetSize) THEN no ELSE 0

\* Wrong: less than two words left count as the end of the file.
ReadOffsetWide ==
  /\ pc = "offset"
  /\ IF pos + 2 * OffsetSize > Len(file)
       THEN pc' = "done" /\ UNCHANGED pos
       ELSE Take(OffsetSize, "direction", "done")
  /\ rec' = [rec EXCEPT !.no = Following]
  /\ UNCHANGED <<written, torn, file, cut, read>>

\* Wrong: the end of the file is an error here too.
ReadOffsetStrict ==
  /\ pc = "offset"
  /\ Take(OffsetSize, "direction", "failed")
  /\ rec' = [rec EXCEPT !.no = Following]
  /\ UNCHANGED <<written, torn, file, cut, read>>

\* UnexpectedEof here, also behind some bytes, is the end of the recording.
ReadOffset ==
  /\ pc = "offset"
  /\ Take(OffsetSize, "direction", "done")
  /\ rec' = [rec EXCEPT !.no = Following]
  /\ UNCHANGED <<written, torn, file, cut, read>>

\* A byte that was not written as a direction may be taken for one, or for none.
ReadDirection ==
  /\ pc = "direction"
  /\ LET no == Still(OffsetSize + 1, DirectionSize)
     IN  /\ \E d \in IF no # 0 THEN {written[no].dir} ELSE Dirs :
              rec' = [rec EXCEPT !.no = no, !.dir = d]
         /\ \/ Take(DirectionSize, "length", "failed")
            \/ no = 0 /\ Take(DirectionSize, "failed", "failed")
  /\ UNCHANGED <<written, torn, file, cut, read>>

\* Wrong: the length is taken for eight bytes.
ReadLengthWide ==
  /\ pc = "length"
  /\ LET no == Still(DataAt - LengthSize + 1, 2 * LengthSize)
     IN  \E n \in IF no # 0 THEN {written[no].len} ELSE 0..(Len(file) - pos) :
           rec' = [rec EXCEPT !.no = no, !.len = n]
  /\ Take(2 * LengthSize, "data", "failed")
  /\ UNCHANGED <<written, torn, file, cut, read>>

\* Lengths beyond what is left of the file all end alike.
ReadLength ==
  /\ pc = "length"
  /\ LET no == Still(DataAt - LengthSize + 1, LengthSize)
     IN  \E n \in IF no # 0 THEN {written[no].len} ELSE 0..(Len(file) - pos) :
           rec' = [rec EXCEPT !.no = no, !.len = n]
  /\ Take(LengthSize, "data", "failed")
  /\ UNCHANGED <<written, torn, file, cut, read>>

\* Wrong: less data than announced is taken too.
ReadDataShort ==
  /\ pc = "data"
  /\ Take(rec.len, "offset", "offset")
  /\ read' = Append(read, rec)
  /\ UNCHANGED <<written, torn, file, cut, rec>>

\* Any bytes of the announced length are data.  read_all collects the record,
\* unless an error makes it drop them all.
ReadData ==
  /\ pc = "data"
  /\ Take(rec.len, "offset", "failed")
  /\ rec' = [rec EXCEPT !.no = Still(DataAt + 1, rec.len)]
  /\ read' = IF pc' = "offset" THEN Append(read, rec') ELSE read
  /\ UNCHANGED <<written, torn, file, cut>>

Next ==
  \/ \E d \in Dirs, n \in Lengths :
       WriteRecord([dir |-> d, len |-> n]) \/ WriteFails([dir |-> d, len |-> n])
  \/ Open
  \/ ReadHeader \/ ReadOffset \/ ReadDirection \/ ReadLength \/ ReadData

Spec == Init /\ [][Next]_vars

-----------------------------------------------------------------------------
(* What the readers make of the records.                                   *)

\* offset_ns of the n-th record; each has its own.
Stamp(n) == n

\* split_records: the bytes of one direction, each known by the place of its
\* record among those read, and the place and time of each record among them.
Extended(s, n) ==
  [bytes |-> s.bytes \o [i \in 1..read[n].len |-> n],
   index |-> Append(s.index, [at |-> Len(s.bytes), stamp |-> Stamp(n)])]

Split(d) ==
  LET upto[n \in 0..Len(read)] ==
        IF n = 0 THEN [bytes |-> <<>>, index |-> <<>>]
        ELSE IF read[n].dir = d THEN Extended(upto[n - 1], n)
        ELSE upto[n - 1]
  IN  upto[Len(read)]

\* Wrong: a byte inside a record gets the time of the next one.
LookupNext(index, offset) ==
  LET from == {i \in 1..Len(index) : index[i].at >= offset}
  IN  IF index = <<>> THEN {0}
      ELSE IF from = {} THEN {index[Len(index)].stamp}
      ELSE {index[Min(from)].stamp}

\* The times that lookup_timestamp may find: binary_search_by_key picks any of the
\* records at offset, or else the last one before it is taken.
Lookup(index, offset) ==
  LET here == {i \in 1..Len(index) : index[i].at = offset}
      upto == {i \in 1..Len(index) : index[i].at <= offset}
  IN  IF index = <<>> THEN {0}
      ELSE IF here # {} THEN {index[i].stamp : i \in here}
      ELSE IF upto = {} THEN {index[1].stamp}
      ELSE {index[Max(upto)].stamp}

-----------------------------------------------------------------------------

\* Records whose every byte is in the file.
Kept == {no \in 1..Len(written) : \A i \in 1..Size(no) :
           \E p \in 1..Len(file) : file[p] = [no |-> no, at |-> i]}

\* The first n records read are not made of parts.
Sound(n) == \A i \in 1..n : read[i].no # 0

\* What is read is what was written: wherever the file was cut, the records come
\* whole, in the order in which they were written, and none is left out, up to the
\* first one that is made of the parts of two.
ReadIsPrefix ==
  \A i \in 1..Len(read) : Sound(i) =>
    /\ read[i].no \in Kept
    /\ read[i].dir = written[read[i].no].dir /\ read[i].len = written[read[i].no].len
    /\ Cardinality({no \in Kept : no < read[i].no}) = i - 1

\* Behind a torn record that others follow, read_from takes the bytes of the next
\* one for what is missing, and returns a record that nobody wrote.  It does so
\* nowhere else: what comes first of that kind is where a torn record stands, behind
\* just the whole ones that were read.  And what is read whole after that still
\* comes in order, and once.
TornMisleads ==
  \A i \in 1..Len(read) :
    /\ read[i].no = 0 /\ Sound(i - 1) =>
         \E t \in torn : Cardinality({no \in Kept : no < t}) = i - 1
    /\ \A j \in 1..(i - 1) :
         read[j].no # 0 /\ read[i].no # 0 => read[j].no < read[i].no

\* A recording that reads without error, and without a record made of parts, has
\* been read to its last whole record: next_record takes nothing but the end of the
\* file for the end.
DoneIsComplete ==
  pc = "done" /\ Sound(Len(read)) => Len(read) = Cardinality(Kept)

\* A recording without failed writes is read without error, unless it was cut;
\* and if it was, the error comes after every whole record, so that it is only
\* the last record that is missing.
ErrorMeansCut ==
  torn = {} /\ pc = "failed" => cut /\ Len(read) = Cardinality(Kept)

\* The time that decode, stats and unpack give to a byte is that of the record
\* which brought it.  (Records that were written are not empty; one made of parts
\* may be, and then shares its place with the next.)
TimesAreRight ==
  (pc = "done" /\ \A n \in 1..Len(read) : read[n].len # 0) =>
    \A d \in Dirs :
      LET s == Split(d)
      IN  \A o \in 0..(Len(s.bytes) - 1) :
            Lookup(s.index, o) = {Stamp(s.bytes[o + 1])}
=============================================================================

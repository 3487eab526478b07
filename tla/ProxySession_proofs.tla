------------------------- MODULE ProxySession_proofs -------------------------
(***************************************************************************)
(* Theorems about ProxySession, for every value of its constants.          *)
(***************************************************************************)
EXTENDS ProxySession, SequenceTheorems, TLAPS

\* The sequence operations on the disk keep it a sequence of items.
LEMMA ItemSequences ==
  ASSUME NEW s \in Seq(Item), NEW t \in Seq(Item), NEW x \in Item
  PROVE  /\ s \o t \in Seq(Item)
         /\ Append(s, x) \in Seq(Item)
         /\ <<x>> \in Seq(Item)
         /\ <<>> \in Seq(Item)
         /\ [s EXCEPT ![Len(s)] = x] \in Seq(Item)
<1>1. [s EXCEPT ![Len(s)] = x] \in Seq(Item)
  <2> DEFINE u == [s EXCEPT ![Len(s)] = x]
  <2>1. Len(s) \in Nat /\ s \in [1..Len(s) -> Item]
    BY LenProperties
  <2>2. u \in [1..Len(s) -> Item]
    BY <2>1
  <2> QED BY <2>1, <2>2, SeqDef
<1>2. s \o t \in Seq(Item)
  BY ConcatProperties
<1>3. Append(s, x) \in Seq(Item)
  BY AppendProperties
<1> QED BY <1>1, <1>2, <1>3

\* There are two directions, each the opposite of the other.
LEMMA TwoDirections ==
  /\ C2D \in Dirs /\ D2C \in Dirs /\ C2D # D2C
  /\ \A d \in Dirs : Opposite(d) \in Dirs
  /\ \A d, e \in Dirs : d = e \/ (d = C2D /\ e = D2C) \/ (d = D2C /\ e = C2D)
BY DEF Dirs, C2D, D2C, Opposite

\* What write_record puts on the disk, whole or torn, is an item.
LEMMA ItemsAreTyped ==
  ASSUME TypeOK, NEW d \in Dirs
  PROVE  Header \in Item /\ Whole(d) \in Item /\ Torn(d) \in Item
BY TwoDirections DEF TypeOK, Header, Whole, Torn, Item

\* Every variable keeps its type.
THEOREM TypeCorrect == Spec => []TypeOK
<1>1. Init => TypeOK
  <2> SUFFICES ASSUME Init PROVE TypeOK
    OBVIOUS
  <2>1. Header \in Item
    BY TwoDirections DEF Header, Item
  <2>2. buf \in Seq(Item) /\ file \in Seq(Item)
    BY <2>1, ItemSequences DEF Init
  <2> QED BY <2>2 DEF Init, TypeOK, Statuses, Steps
<1>2. TypeOK /\ [Next]_vars => TypeOK'
  <2> SUFFICES ASSUME TypeOK, [Next]_vars PROVE TypeOK'
    OBVIOUS
  <2> USE DEF TypeOK, ends, disk, Steps, Statuses, Over, Goto, At
  <2>dw. ASSUME DropWriter
         PROVE  /\ buf' \in Seq(Item) /\ file' \in Seq(Item)
                /\ reported' = reported /\ faults' \in Nat
    <3>1. <<>> \in Seq(Item) /\ file \o buf \in Seq(Item)
      BY ConcatProperties
    <3>2. buf' \in Seq(Item) /\ file' \in Seq(Item)
      BY <2>dw, <3>1 DEF DropWriter
    <3>3. reported' = reported /\ faults' \in Nat
      BY <2>dw DEF DropWriter, Fault
    <3> QED BY <3>2, <3>3
  <2>1. CASE Connect
    BY <2>1 DEF Connect
  <2>2. CASE ConnectFails
    BY <2>2, <2>dw DEF ConnectFails
  <2>3. CASE Finish
    BY <2>3, <2>dw DEF Finish
  <2>4. CASE PropagateExit
    BY <2>4 DEF PropagateExit
  <2>5. CASE Shutdown
    BY <2>5, <2>dw DEF Shutdown
  <2>6. CASE Crash
    BY <2>6, ItemSequences DEF Crash
  <2>7. CASE HalfClose
    BY <2>7 DEF HalfClose
  <2>8. ASSUME NEW d \in Dirs, Copy(d) PROVE TypeOK'
    <3>0. Whole(d) \in Item /\ Torn(d) \in Item /\ <<d, taken[d]>> \in Dirs \X Nat
      BY ItemsAreTyped
    <3>1. CASE ReadChunk(d)
      <4>1. clock' \in Nat
        BY <3>1, ConstantsAssumption DEF ReadChunk
      <4> QED BY SMTT(20), <3>1, <4>1 DEF ReadChunk
    <3>2. CASE ReadEof(d)
      BY <3>2 DEF ReadEof
    <3>3. CASE LockRecording(d)
      BY <3>3 DEF LockRecording
    <3>4. CASE WriteSmall(d)
      <4>1. buf' \in Seq(Item) /\ file' \in Seq(Item)
        BY <3>4, <3>0, ItemSequences DEF WriteSmall
      <4>3. faults' \in Nat
        BY <3>4 DEF WriteSmall, Fault
      <4>2. reported' \in SUBSET (Dirs \X Nat)
        BY <3>4, <3>0 DEF WriteSmall
      <4> QED BY <3>4, <4>1, <4>2, <4>3 DEF WriteSmall
    <3>5. CASE WriteLarge(d)
      <4>1. buf' \in Seq(Item) /\ file' \in Seq(Item)
        <5>1. <<>> \in Seq(Item) /\ file \o buf \in Seq(Item)
          BY ConcatProperties
        <5>2. Append(file \o buf, Torn(d)) \in Seq(Item) /\ Append(buf, Torn(d)) \in Seq(Item)
          BY <5>1, <3>0, AppendProperties
        <5> QED BY <3>5, <5>1, <5>2 DEF WriteLarge
      <4>4. faults' \in Nat
        BY <3>5 DEF WriteLarge, Fault
      <4>2. reported' \in SUBSET (Dirs \X Nat)
        BY <3>5, <3>0 DEF WriteLarge
      <4>3. pc' \in [Dirs -> Steps]
        BY <3>5 DEF WriteLarge
      <4> QED BY <3>5, <4>1, <4>2, <4>3, <4>4 DEF WriteLarge
    <3>6. CASE WriteData(d)
      <4>1. file' \in Seq(Item)
        BY <3>6, <3>0, ItemSequences DEF WriteData
      <4>3. faults' \in Nat
        BY <3>6 DEF WriteData, Fault
      <4>2. reported' \in SUBSET (Dirs \X Nat)
        BY <3>6, <3>0 DEF WriteData
      <4> QED BY <3>6, <4>1, <4>2, <4>3 DEF WriteData
    <3>7. CASE FlushRecording(d)
      <4>1. buf' \in Seq(Item) /\ file' \in Seq(Item)
        BY <3>7, <3>0, ItemSequences DEF FlushRecording, FlushBuf
      <4>2. faults' \in Nat
        BY <3>7 DEF FlushRecording, FlushBuf, Fault
      <4> QED BY <3>7, <4>1, <4>2 DEF FlushRecording
    <3>8. CASE Forward(d)
      <4>1. delivered' \in [Dirs -> Nat]
        BY <3>8 DEF Forward
      <4> QED BY <3>8, <4>1 DEF Forward
    <3>9. CASE ForwardFails(d)
      BY <3>9 DEF ForwardFails
    <3> QED BY <2>8, <3>1, <3>2, <3>3, <3>4, <3>5, <3>6, <3>7, <3>8, <3>9 DEF Copy
  <2>9. ASSUME NEW d \in Dirs, Send(d) PROVE TypeOK'
    <3>1. received[Opposite(d)] \in Nat
      BY TwoDirections
    <3>2. Append(sent[d], received[Opposite(d)]) \in Seq(Nat)
      BY <3>1, AppendProperties
    <3> QED BY <2>9, <3>2 DEF Send
  <2>10. ASSUME NEW d \in Dirs, Receive(d) PROVE TypeOK'
    BY <2>10 DEF Receive
  <2>11. ASSUME NEW d \in Dirs, Exit(d), status' = status PROVE TypeOK'
    BY <2>11 DEF Exit
  <2>12. CASE UNCHANGED vars
    BY <2>12 DEF vars
  <2> QED
    BY <2>1, <2>2, <2>3, <2>4, <2>5, <2>6, <2>7, <2>8, <2>9, <2>10, <2>11, <2>12
    DEF Next, Leave, LeaveAtEof, Exit
<1> QED BY <1>1, <1>2, PTL DEF Spec

-----------------------------------------------------------------------------
(* Record before forward.  The invariant is not inductive as it stands: one *)
(* has to know where the chunk in hand is while its task is between the     *)
(* lock and the forward, that the other task is not writing meanwhile, and  *)
(* that the only item ever overwritten is a torn one.                       *)

InHand == {"lock"} \cup Critical \cup {"forward"}

MutexInv == \A d \in Dirs : pc[d] \in Critical <=> holder = {d}

CountInv ==
  \A d \in Dirs :
    /\ pc[d] = "read" => delivered[d] = taken[d]
    /\ pc[d] \in InHand => delivered[d] + 1 = taken[d]

DiskInv ==
  faults = 0 =>
    \A d \in Dirs :
      /\ \A k \in 1..delivered[d] : OnDisk(d, k)
      /\ pc[d] = "forward" => OnDisk(d, taken[d])
      /\ pc[d] = "data" => Len(file) > 0 /\ file[Len(file)].kind = "torn"
      /\ pc[d] = "flush" /\ status = "proxying"
           => OnDisk(d, taken[d]) \/ InWriter(d, taken[d])

FreshInv == status = "connecting" => \A d \in Dirs : pc[d] = "read"

RecordFirst == MutexInv /\ CountInv /\ FreshInv /\ DiskInv

\* No record that f holds is missing, or somewhere else, in g.
Keeps(f, g) ==
  \A i \in 1..Len(f) : f[i].kind = "record" => i \in 1..Len(g) /\ g[i] = f[i]

\* A record on the disk is still there in a file that keeps its records.
LEMMA KeepsOnDisk ==
  ASSUME Keeps(file, file')
  PROVE  \A d, k : OnDisk(d, k) => OnDisk(d, k)'
BY DEF Keeps, OnDisk, IsRecord

\* Flushing a BufWriter to the end of a file keeps the records of the file.
LEMMA ConcatKeeps ==
  ASSUME NEW f \in Seq(Item), NEW g \in Seq(Item)
  PROVE  Keeps(f, f \o g)
BY ConcatProperties, LenProperties DEF Keeps

\* So does appending one item.
LEMMA AppendKeeps ==
  ASSUME NEW f \in Seq(Item), NEW x \in Item
  PROVE  Keeps(f, Append(f, x))
BY AppendProperties, LenProperties DEF Keeps

\* Keeping records is transitive.
LEMMA KeepsTransitive ==
  ASSUME NEW f, NEW g, NEW h, Keeps(f, g), Keeps(g, h)
  PROVE  Keeps(f, h)
BY DEF Keeps

\* Completing the torn record at the end of a file (WriteData) keeps its records.
LEMMA OverwriteTornKeeps ==
  ASSUME NEW f \in Seq(Item), NEW x \in Item, Len(f) > 0, f[Len(f)].kind = "torn"
  PROVE  /\ Keeps(f, [f EXCEPT ![Len(f)] = x])
         /\ Len([f EXCEPT ![Len(f)] = x]) = Len(f)
         /\ [f EXCEPT ![Len(f)] = x][Len(f)] = x
<1> DEFINE g == [f EXCEPT ![Len(f)] = x]
<1>1. Len(f) \in Nat /\ DOMAIN f = 1..Len(f)
  BY LenProperties
<1>2. g \in Seq(Item) /\ DOMAIN g = 1..Len(f)
  BY <1>1, ItemSequences
<1>3. Len(g) = Len(f)
  BY <1>1, <1>2, LenProperties
<1>4. g[Len(f)] = x
  BY <1>1
<1>5. \A i \in 1..Len(f) : i # Len(f) => g[i] = f[i]
  BY <1>1
<1> QED BY <1>1, <1>3, <1>4, <1>5 DEF Keeps

\* The last item of a file the BufWriter was appended to is that item.
LEMMA AppendedLast ==
  ASSUME NEW f \in Seq(Item), NEW x \in Item
  PROVE  /\ Len(Append(f, x)) > 0
         /\ Len(Append(f, x)) \in 1..Len(Append(f, x))
         /\ Append(f, x)[Len(Append(f, x))] = x
BY AppendProperties, LenProperties

\* A step that leaves the tasks and the mutex alone and only adds to the file,
\* outside of the phases in which the BufWriter matters.
LEMMA QuietStep ==
  ASSUME RecordFirst, TypeOK, TypeOK',
         UNCHANGED <<pc, taken, delivered, holder>>,
         Keeps(file, file'),
         faults' >= faults,
         status' = "connecting" => status = "connecting",
         \A d \in Dirs : pc[d] = "data" => UNCHANGED file,
         \A d \in Dirs : pc[d] = "flush" /\ status' = "proxying" => UNCHANGED buf /\ status = "proxying"
  PROVE  RecordFirst'
<1>1. MutexInv' /\ CountInv' /\ FreshInv'
  BY DEF RecordFirst, MutexInv, CountInv, FreshInv
<1>2. DiskInv'
  <2> SUFFICES ASSUME faults' = 0, NEW d \in Dirs
               PROVE  /\ \A k \in 1..delivered[d] : OnDisk(d, k)'
                      /\ pc[d] = "forward" => OnDisk(d, taken[d])'
                      /\ pc[d] = "data" => Len(file') > 0 /\ file'[Len(file')].kind = "torn"
                      /\ pc[d] = "flush" /\ status' = "proxying"
                           => OnDisk(d, taken[d])' \/ InWriter(d, taken[d])'
    BY DEF DiskInv, OnDisk, InWriter
  <2>1. faults = 0
    BY DEF TypeOK
  <2>2. \A k : OnDisk(d, k) => OnDisk(d, k)'
    BY KeepsOnDisk
  <2>3. pc[d] = "flush" /\ status' = "proxying" /\ InWriter(d, taken[d]) => InWriter(d, taken[d])'
    BY DEF InWriter
  <2> QED BY <2>1, <2>2, <2>3 DEF RecordFirst, DiskInv
<1> QED BY <1>1, <1>2 DEF RecordFirst

\* A step that does not write to the file keeps its records.
LEMMA KeepsItself == ASSUME file' = file PROVE Keeps(file, file')
BY DEF Keeps

\* Dropping the writer only ever appends to the file.
LEMMA DropWriterKeeps == ASSUME TypeOK, DropWriter PROVE Keeps(file, file') /\ faults' >= faults
<1>1. faults' >= faults
  BY DEF DropWriter, Fault, TypeOK
<1>2. Keeps(file, file \o buf)
  BY ConcatKeeps DEF TypeOK
<1> QED BY <1>1, <1>2, KeepsItself DEF DropWriter

\* A step of one task that leaves the disk alone.
LEMMA TaskStep ==
  ASSUME RecordFirst, TypeOK, TypeOK', NEW d \in Dirs,
         UNCHANGED <<disk, status>>,
         \A e \in Dirs \ {d} :
           UNCHANGED <<pc[e], taken[e], delivered[e]>>,
         pc'[d] \notin {"data", "flush"},
         faults = 0 => \A k \in 1..delivered'[d] : OnDisk(d, k),
         faults = 0 /\ pc'[d] = "forward" => OnDisk(d, taken'[d])
  PROVE  DiskInv'
<1> SUFFICES ASSUME faults = 0, NEW e \in Dirs
             PROVE  /\ \A k \in 1..delivered'[e] : OnDisk(e, k)
                    /\ pc'[e] = "forward" => OnDisk(e, taken'[e])
                    /\ pc'[e] = "data" => Len(file) > 0 /\ file[Len(file)].kind = "torn"
                    /\ pc'[e] = "flush" /\ status = "proxying"
                         => OnDisk(e, taken'[e]) \/ InWriter(e, taken'[e])
  BY DEF DiskInv, OnDisk, InWriter, disk
<1>1. CASE e = d
  BY <1>1
<1>2. CASE e # d
  BY <1>2 DEF RecordFirst, DiskInv
<1> QED BY <1>1, <1>2

\* The parts of the invariant that say where each task and the mutex are.
LEMMA TasksStep ==
  ASSUME RecordFirst, TypeOK, NEW d \in Dirs, Copy(d)
  PROVE  MutexInv' /\ CountInv' /\ FreshInv'
<1> USE DEF RecordFirst, MutexInv, CountInv, FreshInv, TypeOK, At, Goto, Critical, InHand,
            Steps
<1>1. CASE ReadChunk(d)
  BY <1>1 DEF ReadChunk
<1>2. CASE ReadEof(d)
  BY <1>2 DEF ReadEof
<1>3. CASE LockRecording(d)
  BY <1>3 DEF LockRecording
<1>4. CASE WriteSmall(d)
  BY <1>4 DEF WriteSmall
<1>5. CASE WriteLarge(d)
  BY <1>5 DEF WriteLarge
<1>6. CASE WriteData(d)
  BY <1>6 DEF WriteData
<1>7. CASE FlushRecording(d)
  BY <1>7 DEF FlushRecording
<1>8. CASE Forward(d)
  BY <1>8 DEF Forward
<1>9. CASE ForwardFails(d)
  BY <1>9 DEF ForwardFails
<1> QED BY <1>1, <1>2, <1>3, <1>4, <1>5, <1>6, <1>7, <1>8, <1>9 DEF Copy

\* A step of a task that holds the mutex: the other task is not at the disk, so
\* only what it has on the file matters, and the file keeps that.
LEMMA DiskStep ==
  ASSUME RecordFirst, TypeOK, TypeOK', NEW d \in Dirs,
         status = "proxying", holder = {d},
         faults' = 0 => Keeps(file, file'),
         UNCHANGED <<status, taken, delivered>>,
         \A e \in Dirs \ {d} : pc'[e] = pc[e],
         faults' >= faults,
         faults' = 0 /\ pc'[d] = "forward" => OnDisk(d, taken[d])',
         faults' = 0 /\ pc'[d] = "data" => Len(file') > 0 /\ file'[Len(file')].kind = "torn",
         faults' = 0 /\ pc'[d] = "flush" => OnDisk(d, taken[d])' \/ InWriter(d, taken[d])'
  PROVE  DiskInv'
<1> SUFFICES ASSUME faults' = 0, NEW e \in Dirs
             PROVE  /\ \A k \in 1..delivered[e] : OnDisk(e, k)'
                    /\ pc'[e] = "forward" => OnDisk(e, taken[e])'
                    /\ pc'[e] = "data" => Len(file') > 0 /\ file'[Len(file')].kind = "torn"
                    /\ pc'[e] = "flush" /\ status' = "proxying"
                         => OnDisk(e, taken[e])' \/ InWriter(e, taken[e])'
  BY DEF DiskInv, OnDisk, InWriter
<1>1. faults = 0
  BY DEF TypeOK
<1>2. \A k : OnDisk(e, k) => OnDisk(e, k)'
  BY KeepsOnDisk
<1>3. \A k \in 1..delivered[e] : OnDisk(e, k)'
  BY <1>1, <1>2 DEF RecordFirst, DiskInv
<1>4. CASE e = d
  BY <1>3, <1>4
<1>5. CASE e # d
  <2>1. pc[e] \notin Critical
    BY <1>5 DEF RecordFirst, MutexInv
  <2> QED BY <1>1, <1>2, <1>3, <1>5, <2>1 DEF RecordFirst, DiskInv, Critical
<1> QED BY <1>4, <1>5

\* Every step of a copy task keeps RecordFirst.
LEMMA CopyStep ==
  ASSUME RecordFirst, TypeOK, TypeOK', NEW d \in Dirs, Copy(d)
  PROVE  RecordFirst'
<1>0. MutexInv' /\ CountInv' /\ FreshInv'
  BY TasksStep
<1>p. status = "proxying" /\ status' = status
  BY DEF Copy, ReadChunk, ReadEof, LockRecording, WriteSmall, WriteLarge, WriteData,
         FlushRecording, Forward, ForwardFails, At
<1>h. pc[d] \in Critical => holder = {d}
  BY DEF RecordFirst, MutexInv
<1>1. CASE ReadChunk(d)
  <2>1. \A e \in Dirs \ {d} : UNCHANGED <<pc[e], taken[e], delivered[e]>>
    BY <1>1 DEF ReadChunk, Goto, TypeOK
  <2>2. pc'[d] = "lock"
    BY <1>1 DEF ReadChunk, Goto, TypeOK
  <2>3. delivered' = delivered /\ UNCHANGED <<disk, status>>
    BY <1>1 DEF ReadChunk
  <2>4. faults = 0 => \A k \in 1..delivered[d] : OnDisk(d, k)
    BY DEF RecordFirst, DiskInv
  <2> QED BY <1>0, <2>1, <2>2, <2>3, <2>4, TaskStep DEF RecordFirst
<1>2. CASE ReadEof(d)
  <2>1. \A e \in Dirs \ {d} : UNCHANGED <<pc[e], taken[e], delivered[e]>>
    BY <1>2 DEF ReadEof, Goto, TypeOK
  <2>2. pc'[d] = "done"
    BY <1>2 DEF ReadEof, Goto, TypeOK
  <2>3. delivered' = delivered /\ UNCHANGED <<disk, status>>
    BY <1>2 DEF ReadEof
  <2>4. faults = 0 => \A k \in 1..delivered[d] : OnDisk(d, k)
    BY DEF RecordFirst, DiskInv
  <2> QED BY <1>0, <2>1, <2>2, <2>3, <2>4, TaskStep DEF RecordFirst
<1>3. CASE LockRecording(d)
  <2>1. \A e \in Dirs \ {d} : UNCHANGED <<pc[e], taken[e], delivered[e]>>
    BY <1>3 DEF LockRecording, Goto, TypeOK
  <2>2. pc'[d] = "write"
    BY <1>3 DEF LockRecording, Goto, TypeOK
  <2>3. delivered' = delivered /\ UNCHANGED <<disk, status>>
    BY <1>3 DEF LockRecording
  <2>4. faults = 0 => \A k \in 1..delivered[d] : OnDisk(d, k)
    BY DEF RecordFirst, DiskInv
  <2> QED BY <1>0, <2>1, <2>2, <2>3, <2>4, TaskStep DEF RecordFirst
<1>4. CASE Forward(d)
  <2>1. \A e \in Dirs \ {d} : UNCHANGED <<pc[e], taken[e], delivered[e]>>
    BY <1>4 DEF Forward, Goto, TypeOK
  <2>2. pc[d] = "forward" /\ pc'[d] = "read"
    BY <1>4 DEF Forward, At, Goto, TypeOK
  <2>3. delivered'[d] = delivered[d] + 1 /\ UNCHANGED <<disk, status>>
    BY <1>4 DEF Forward, TypeOK
  <2>4. delivered[d] + 1 = taken[d] /\ delivered[d] \in Nat
    BY <2>2 DEF RecordFirst, CountInv, InHand, TypeOK
  <2>5. faults = 0 => \A k \in 1..delivered[d] : OnDisk(d, k)
    BY DEF RecordFirst, DiskInv
  <2>6. faults = 0 => OnDisk(d, delivered[d] + 1)
    BY <2>2, <2>4 DEF RecordFirst, DiskInv
  <2>7. faults = 0 => \A k \in 1..delivered'[d] : OnDisk(d, k)
    BY <2>3, <2>4, <2>5, <2>6
  <2> QED BY <1>0, <2>1, <2>2, <2>3, <2>7, TaskStep DEF RecordFirst
<1>5. CASE ForwardFails(d)
  <2>1. \A e \in Dirs \ {d} : UNCHANGED <<pc[e], taken[e], delivered[e]>>
    BY <1>5 DEF ForwardFails, Goto, TypeOK
  <2>2. pc'[d] = "done"
    BY <1>5 DEF ForwardFails, Goto, TypeOK
  <2>3. delivered' = delivered /\ UNCHANGED <<disk, status>>
    BY <1>5 DEF ForwardFails
  <2>4. faults = 0 => \A k \in 1..delivered[d] : OnDisk(d, k)
    BY DEF RecordFirst, DiskInv
  <2> QED BY <1>0, <2>1, <2>2, <2>3, <2>4, TaskStep DEF RecordFirst
<1>6. CASE WriteSmall(d)
  <2>1. holder = {d} /\ \A e \in Dirs \ {d} : pc'[e] = pc[e]
    BY <1>6, <1>h DEF WriteSmall, At, Goto, Critical, TypeOK
  <2>2. pc'[d] = "flush" /\ UNCHANGED <<taken, delivered, stamp>>
    BY <1>6 DEF WriteSmall, Goto, TypeOK
  <2>3. faults' >= faults
    BY <1>6 DEF WriteSmall, Fault, TypeOK
  <2>4. faults' = 0 => \/ file' = file /\ buf' = Append(buf, Whole(d))
                       \/ file' = file \o buf /\ buf' = <<Whole(d)>>
    BY SMTT(20), <1>6 DEF WriteSmall, Fault, TypeOK
  <2>5. faults' = 0 => Keeps(file, file')
    BY <2>4, KeepsItself, ConcatKeeps DEF TypeOK
  <2>6. IsRecord(Whole(d), d, taken[d])
    BY DEF IsRecord, Whole
  <2>7. faults' = 0 => InWriter(d, taken[d])'
    <3>1. CASE buf' = Append(buf, Whole(d))
      <4>1. Len(buf') \in 1..Len(buf') /\ buf'[Len(buf')] = Whole(d)
        BY <3>1, AppendedLast, ItemsAreTyped DEF TypeOK
      <4> QED BY <4>1, <2>2, <2>6 DEF InWriter, IsRecord
    <3>2. CASE buf' = <<Whole(d)>>
      <4>1. 1 \in 1..Len(buf') /\ buf'[1] = Whole(d)
        BY <3>2
      <4> QED BY <4>1, <2>2, <2>6 DEF InWriter, IsRecord
    <3> QED BY <2>4, <3>1, <3>2
  <2> QED BY <1>0, <1>p, <2>1, <2>2, <2>3, <2>5, <2>7, DiskStep DEF RecordFirst
<1>7. CASE WriteLarge(d)
  <2>1. holder = {d} /\ \A e \in Dirs \ {d} : pc'[e] = pc[e]
    BY <1>7, <1>h DEF WriteLarge, At, Goto, Critical, TypeOK
  <2>2. UNCHANGED <<taken, delivered>> /\ pc'[d] \in {"data", "flush"}
    BY <1>7 DEF WriteLarge, Goto, TypeOK
  <2>3. faults' >= faults
    BY <1>7 DEF WriteLarge, Fault, TypeOK
  <2>4. faults' = 0 => file' = Append(file \o buf, Torn(d)) /\ pc'[d] = "data"
    BY <1>7 DEF WriteLarge, Fault, Goto, TypeOK
  <2>5. file \o buf \in Seq(Item) /\ Torn(d) \in Item
    BY ConcatProperties, ItemsAreTyped DEF TypeOK
  <2>6. faults' = 0 => Keeps(file, file')
    <3>1. Keeps(file, file \o buf)
      BY ConcatKeeps DEF TypeOK
    <3>2. Keeps(file \o buf, Append(file \o buf, Torn(d)))
      BY <2>5, AppendKeeps
    <3> QED BY <2>4, <3>1, <3>2, KeepsTransitive
  <2>7. faults' = 0 => Len(file') > 0 /\ file'[Len(file')].kind = "torn"
    <3>1. LET g == Append(file \o buf, Torn(d)) IN Len(g) > 0 /\ g[Len(g)] = Torn(d)
      BY <2>5, AppendedLast
    <3>2. Torn(d).kind = "torn"
      BY DEF Torn
    <3> QED BY <2>4, <3>1, <3>2
  <2> QED BY <1>0, <1>p, <2>1, <2>2, <2>3, <2>4, <2>6, <2>7, DiskStep DEF RecordFirst
<1>8. CASE WriteData(d)
  <2>1. /\ holder = {d} /\ \A e \in Dirs \ {d} : pc'[e] = pc[e]
        /\ pc[d] = "data"
    BY <1>8, <1>h DEF WriteData, At, Goto, Critical, TypeOK
  <2>2. pc'[d] = "flush" /\ UNCHANGED <<taken, delivered>>
    BY <1>8 DEF WriteData, Goto, TypeOK
  <2>3. faults' >= faults
    BY <1>8 DEF WriteData, Fault, TypeOK
  <2>4. faults' = 0 => faults = 0 /\ file' = [file EXCEPT ![Len(file)] = Whole(d)]
    BY <1>8 DEF WriteData, Fault, TypeOK
  <2>5. faults' = 0 => Len(file) > 0 /\ file[Len(file)].kind = "torn"
    BY <2>1, <2>4 DEF RecordFirst, DiskInv
  <2>6. faults' = 0 => Keeps(file, file') /\ Len(file') = Len(file) /\ file'[Len(file)] = Whole(d)
    <3>1. Whole(d) \in Item /\ file \in Seq(Item)
      BY ItemsAreTyped DEF TypeOK
    <3> QED BY <2>4, <2>5, <3>1, OverwriteTornKeeps
  <2>7. faults' = 0 => OnDisk(d, taken[d])'
    <3>1. faults' = 0 => Len(file) \in 1..Len(file')
      BY <2>5, <2>6, LenProperties DEF TypeOK
    <3> QED BY <2>2, <2>6, <3>1 DEF OnDisk, IsRecord, Whole
  <2> QED BY <1>0, <1>p, <2>1, <2>2, <2>3, <2>6, <2>7, DiskStep DEF RecordFirst
<1>9. CASE FlushRecording(d)
  <2>1. /\ holder = {d} /\ \A e \in Dirs \ {d} : pc'[e] = pc[e]
        /\ pc[d] = "flush"
    BY <1>9, <1>h DEF FlushRecording, At, Goto, Critical, TypeOK
  <2>2. pc'[d] = "forward" /\ UNCHANGED <<taken, delivered>>
    BY <1>9 DEF FlushRecording, Goto, TypeOK
  <2>3. faults' >= faults
    BY <1>9 DEF FlushRecording, FlushBuf, Fault, TypeOK
  <2>4. faults' = 0 => faults = 0 /\ file' = file \o buf
    BY <1>9 DEF FlushRecording, FlushBuf, Fault, TypeOK
  <2>5. Keeps(file, file \o buf)
    BY ConcatKeeps DEF TypeOK
  <2>6. faults' = 0 => OnDisk(d, taken[d])'
    <3> SUFFICES ASSUME faults' = 0 PROVE OnDisk(d, taken[d])'
      OBVIOUS
    <3>1. OnDisk(d, taken[d]) \/ InWriter(d, taken[d])
      BY <1>p, <2>1, <2>4 DEF RecordFirst, DiskInv
    <3>2. CASE OnDisk(d, taken[d])
      BY <2>2, <2>4, <2>5, <3>2, KeepsOnDisk DEF OnDisk
    <3>3. CASE InWriter(d, taken[d])
      <4>1. PICK i \in 1..Len(buf) : IsRecord(buf[i], d, taken[d])
        BY <3>3 DEF InWriter
      <4>2. /\ Len(file) + i \in 1..Len(file')
            /\ file'[Len(file) + i] = buf[i]
        BY SMTT(20), <2>4, ConcatProperties, LenProperties DEF TypeOK
      <4> QED BY <2>2, <4>1, <4>2 DEF OnDisk
    <3> QED BY <3>1, <3>2, <3>3
  <2> QED BY <1>0, <1>p, <2>1, <2>2, <2>3, <2>4, <2>5, <2>6, DiskStep DEF RecordFirst
<1> QED BY <1>1, <1>2, <1>3, <1>4, <1>5, <1>6, <1>7, <1>8, <1>9 DEF Copy

\* RecordFirst is inductive, given the types.
THEOREM RecordFirstInvariant == Spec => []RecordFirst
<1>1. Init => RecordFirst
  BY DEF Init, RecordFirst, MutexInv, CountInv, FreshInv, DiskInv, Critical, InHand
<1>2. TypeOK /\ TypeOK' /\ RecordFirst /\ [Next]_vars => RecordFirst'
  <2> SUFFICES ASSUME TypeOK, TypeOK', RecordFirst, [Next]_vars PROVE RecordFirst'
    OBVIOUS
  <2>1. CASE ConnectFails \/ Finish \/ Shutdown
    <3>1. DropWriter /\ UNCHANGED <<pc, taken, delivered, holder>>
      BY <2>1 DEF ConnectFails, Finish, Shutdown
    <3>2. status' # "proxying" /\ status' # "connecting"
      BY <2>1 DEF ConnectFails, Finish, Shutdown
    <3>3. \A d \in Dirs : pc[d] # "data"
      <4>1. CASE ConnectFails
        BY <4>1 DEF ConnectFails, RecordFirst, FreshInv
      <4>2. CASE Finish
        BY <4>2 DEF Finish
      <4>3. CASE Shutdown
        BY <4>3 DEF Shutdown, Critical
      <4> QED BY <2>1, <4>1, <4>2, <4>3
    <3> QED BY <3>1, <3>2, <3>3, DropWriterKeeps, QuietStep
  <2>2. CASE Crash
    <3>1. /\ pc' = pc /\ taken' = taken /\ delivered' = delivered
          /\ holder' = holder /\ file' = file /\ faults' = faults
          /\ status' # "proxying" /\ status' # "connecting"
      BY <2>2 DEF Crash
    <3>2. Keeps(file, file') /\ faults' >= faults
      <4>1. Keeps(file, file')
        BY <3>1, KeepsItself
      <4>2. faults' >= faults
        BY <3>1 DEF TypeOK
      <4> QED BY <4>1, <4>2
    <3> QED BY <3>1, <3>2, QuietStep
  <2>3. ASSUME NEW d \in Dirs, Copy(d) PROVE RecordFirst'
    BY <2>3, CopyStep
  <2>4. CASE Connect
    <3>1. /\ pc' = pc /\ taken' = taken /\ delivered' = delivered
          /\ holder' = holder /\ file' = file /\ faults' = faults
          /\ status = "connecting" /\ status' # "connecting"
      BY <2>4 DEF Connect, disk
    <3>2. Keeps(file, file') /\ faults' >= faults
      <4>1. Keeps(file, file')
        BY <3>1, KeepsItself
      <4>2. faults' >= faults
        BY <3>1 DEF TypeOK
      <4> QED BY <4>1, <4>2
    <3>3. \A d \in Dirs : pc[d] = "read"
      BY <3>1 DEF RecordFirst, FreshInv
    <3> QED BY <3>1, <3>2, <3>3, QuietStep
  <2>5. CASE UNCHANGED <<pc, taken, delivered, holder, file, buf, faults>>
             /\ (status' = status \/ status' = "exited")
    <3>1. Keeps(file, file') /\ faults' >= faults
      <4>1. Keeps(file, file')
        BY <2>5, KeepsItself
      <4>2. faults' >= faults
        BY <2>5 DEF TypeOK
      <4> QED BY <4>1, <4>2
    <3>2. /\ pc' = pc /\ taken' = taken /\ delivered' = delivered
          /\ holder' = holder /\ file' = file /\ buf' = buf
          /\ (status' = "connecting" => status = "connecting")
          /\ (status' = "proxying" => status = "proxying")
      BY <2>5
    <3> QED BY <3>1, <3>2, QuietStep
  <2>6. PropagateExit \/ HalfClose \/ UNCHANGED vars
        \/ (\E d \in Dirs : Send(d) \/ Receive(d) \/ Leave(d) \/ LeaveAtEof(d))
        => /\ UNCHANGED <<pc, taken, delivered, holder, file, buf, faults>>
           /\ (status' = status \/ status' = "exited")
    BY DEF PropagateExit, HalfClose, Send, Receive, Leave, LeaveAtEof, Exit, vars,
           ends, disk
  <2> QED BY <2>1, <2>2, <2>3, <2>4, <2>5, <2>6 DEF Next
<1> QED BY <1>1, <1>2, TypeCorrect, PTL DEF Spec

\* Every chunk the peer was given is a whole record of the file, as long as no
\* write to the file failed: for any number of chunks, any buffer and pipe, and
\* with the recorder stopped or killed at any point.
THEOREM DeliveredStaysOnDisk == Spec => []DeliveredIsOnDisk
<1>1. RecordFirst => DeliveredIsOnDisk
  BY DEF RecordFirst, DiskInv, DeliveredIsOnDisk
<1> QED BY <1>1, RecordFirstInvariant, PTL

\* The two tasks are never both between the lock and the flush.
MutualExclusion ==
  \A d, e \in Dirs : pc[d] \in Critical /\ pc[e] \in Critical => d = e

\* The two copy tasks never write to the recording at the same time.
THEOREM WritersExclude == Spec => []MutualExclusion
<1>1. RecordFirst => MutualExclusion
  BY DEF RecordFirst, MutexInv, MutualExclusion
<1> QED BY <1>1, RecordFirstInvariant, PTL

-----------------------------------------------------------------------------
(***************************************************************************)
(* What is in a recording and in which order, for every value of           *)
(* ProxySession's constants.  Everything is said of the log, that is the   *)
(* file with what the BufWriter still holds behind it: a flush does not    *)
(* change it, a task that holds the mutex adds one item to it or completes *)
(* its last one, and only the end of the recorder can cut it, back to the  *)
(* file.                                                                   *)
(***************************************************************************)

Log == file \o buf

\* The items of a log that stand for chunks, whole or torn.
Chunks(s) == {i \in 1..Len(s) : s[i].kind # "header"}

\* The log begins with the file.
LEMMA LogItems ==
  ASSUME TypeOK
  PROVE  /\ Log \in Seq(Item) /\ Len(Log) = Len(file) + Len(buf)
         /\ Len(Log) \in Nat /\ Len(file) \in Nat /\ Len(file) <= Len(Log)
         /\ \A i \in 1..Len(file) : Log[i] = file[i]
         /\ \A i \in 1..Len(Log) : Log[i] \in Item
BY ConcatProperties, LenProperties, ElementOfSeq DEF TypeOK, Log

\* A log with one item more.
LEMMA LongerLog ==
  ASSUME NEW s \in Seq(Item), NEW x \in Item
  PROVE  /\ Append(s, x) \in Seq(Item)
         /\ Len(s) \in Nat /\ Len(Append(s, x)) = Len(s) + 1
         /\ \A i \in 1..Len(s) : Append(s, x)[i] = s[i]
         /\ Append(s, x)[Len(s) + 1] = x
BY AppendProperties, LenProperties

\* A log whose last item was replaced.
LEMMA ReplacedLog ==
  ASSUME NEW s \in Seq(Item), NEW x \in Item, Len(s) > 0
  PROVE  /\ [s EXCEPT ![Len(s)] = x] \in Seq(Item)
         /\ Len([s EXCEPT ![Len(s)] = x]) = Len(s) /\ Len(s) \in Nat
         /\ \A i \in 1..(Len(s) - 1) : [s EXCEPT ![Len(s)] = x][i] = s[i]
         /\ [s EXCEPT ![Len(s)] = x][Len(s)] = x
<1> DEFINE t == [s EXCEPT ![Len(s)] = x]
<1>1. Len(s) \in Nat /\ DOMAIN s = 1..Len(s) /\ s \in [1..Len(s) -> Item]
  BY LenProperties
<1>2. t \in Seq(Item) /\ DOMAIN t = 1..Len(s)
  BY <1>1, ItemSequences
<1>3. Len(t) = Len(s)
  BY <1>1, <1>2, LenProperties
<1>4. ASSUME NEW n \in Nat \ {0}, NEW f \in [1..n -> Item]
      PROVE  /\ [f EXCEPT ![n] = x][n] = x
             /\ \A i \in 1..(n - 1) : [f EXCEPT ![n] = x][i] = f[i]
  OBVIOUS
<1>5. Len(s) \in Nat \ {0}
  BY <1>1
<1> QED
  BY <1>1, <1>2, <1>3, <1>4, <1>5

-----------------------------------------------------------------------------
(* What a step does to the log.                                            *)

\* The task that writes the data of a large chunk finds its torn record at the
\* end of the file, also after failed writes.
PlaceInv ==
  \A d \in Dirs :
    status = "proxying" /\ pc[d] = "data" =>
      buf = <<>> /\ Len(file) > 0 /\ file[Len(file)] = Torn(d)

\* One task writes; the rest of the session stays as it is.
Frame(d) ==
  /\ status = "proxying" /\ holder = {d}
  /\ UNCHANGED <<status, ends, taken, delivered, stamp, holder, clock>>
  /\ pc'[d] \in {"data", "flush"} /\ \A e \in Dirs \ {d} : pc'[e] = pc[e]

AppendsWhole(d) ==
  /\ pc[d] = "write" /\ pc'[d] = "flush"
  /\ Log' = Append(Log, Whole(d)) /\ UNCHANGED <<reported, faults>>
AppendsTorn(d) ==
  /\ pc[d] = "write" /\ pc'[d] = "data"
  /\ Log' = Append(Log, Torn(d)) /\ UNCHANGED <<reported, faults>>
Completes(d) ==
  /\ pc[d] = "data" /\ pc'[d] = "flush"
  /\ Len(Log) > 0 /\ Log[Len(Log)] = Torn(d)
  /\ Log' = [Log EXCEPT ![Len(Log)] = Whole(d)] /\ UNCHANGED <<reported, faults>>
Misses(d) ==
  /\ \/ pc[d] = "data" /\ Log' = Log
     \/ pc[d] = "write" /\ Log' \in {Log, Append(Log, Torn(d))}
  /\ pc'[d] = "flush"
  /\ reported' = reported \cup {<<d, taken[d]>>} /\ faults' > faults

\* One task reads a chunk.
Reads(d) ==
  /\ status = "proxying" /\ pc[d] = "read" /\ taken[d] < Len(sent[d])
  /\ pc' = [pc EXCEPT ![d] = "lock"] /\ taken' = [taken EXCEPT ![d] = @ + 1]
  /\ clock' \in Nat /\ clock' >= clock /\ stamp' = [stamp EXCEPT ![d] = clock']
  /\ UNCHANGED <<status, ends, delivered, disk>>

\* The recorder is gone and so is its BufWriter.
Ends ==
  /\ status \in {"connecting", "proxying"} /\ status' \in Over \ {"exited"}
  /\ status' = "finished" => \A d \in Dirs : pc[d] = "done"
  /\ status' # "crashed" => \A d \in Dirs : pc[d] \notin Critical
  /\ Log' \in {Log, file} /\ file' = Log'
  /\ faults' = 0 /\ status' # "crashed" => Log' = Log

\* Anything else, up to a flush of the BufWriter.
GoesOn ==
  /\ status' \in Over => status \in Over
  /\ status \in Over =>
       UNCHANGED disk /\ (status' = status \/ (status = "finished" /\ status' = "exited"))
  /\ Log' = Log
  /\ (\E d \in Dirs : pc[d] = "data") => UNCHANGED disk

\* The log of chunks is the same, and what there is to be said of it.
Rests ==
  /\ UNCHANGED <<taken, stamp, clock, reported>> /\ faults' >= faults
  /\ \A d \in Dirs : /\ pc'[d] \in {"lock", "write"} <=> pc[d] \in {"lock", "write"}
                     /\ pc'[d] = "data" <=> pc[d] = "data"
                     /\ sent'[d] = sent[d]
                        \/ \E k \in Nat : sent'[d] = Append(sent[d], k)
  /\ Ends \/ GoesOn

LEMMA LogOfWrites ==
  ASSUME TypeOK, TypeOK', RecordFirst, PlaceInv, NEW d \in Dirs,
         WriteSmall(d) \/ WriteLarge(d) \/ WriteData(d)
  PROVE  /\ Frame(d)
         /\ AppendsWhole(d) \/ AppendsTorn(d) \/ Completes(d) \/ Misses(d)
<1>1. Frame(d)
  <2>1. pc[d] \in Critical
    BY DEF WriteSmall, WriteLarge, WriteData, At, Critical
  <2>2. holder = {d}
    BY <2>1 DEF RecordFirst, MutexInv
  <2> QED
    BY <2>2 DEF WriteSmall, WriteLarge, WriteData, At, Goto, Frame, TypeOK
<1>2. /\ file \in Seq(Item) /\ buf \in Seq(Item) /\ Len(file) \in Nat
      /\ Whole(d) \in Item /\ Torn(d) \in Item
  BY ItemsAreTyped, LenProperties DEF TypeOK
<1>3. \A x \in Item : file \o Append(buf, x) = Append(file \o buf, x)
                      /\ (file \o buf) \o <<x>> = Append(file \o buf, x)
                      /\ Append(file \o buf, x) \o <<>> = Append(file \o buf, x)
  <2> TAKE x \in Item
  <2>1. file \o buf \in Seq(Item) /\ <<x>> \in Seq(Item)
    BY <1>2, ConcatProperties
  <2>2. Append(buf, x) = buf \o <<x>> /\ Append(file \o buf, x) = (file \o buf) \o <<x>>
    BY <1>2, <2>1, AppendIsConcat
  <2>3. (file \o buf) \o <<x>> = file \o (buf \o <<x>>)
    BY <1>2, <2>1, ConcatAssociative
  <2>4. Append(file \o buf, x) \in Seq(Item)
    BY <2>1, AppendProperties
  <2> QED
    BY <2>2, <2>3, <2>4, ConcatEmptySeq
<1>4. CASE WriteSmall(d)
  <2>1. pc[d] = "write" /\ pc'[d] = "flush"
    BY <1>4 DEF WriteSmall, At, Goto, TypeOK
  <2>2. CASE buf' = Append(buf, Whole(d)) /\ UNCHANGED <<file, reported, faults>>
    <3>1. Log' = Append(Log, Whole(d))
      BY <1>2, <1>3, <2>2 DEF Log
    <3> QED
      BY <1>1, <2>1, <2>2, <3>1 DEF AppendsWhole
  <2>3. CASE file' = file \o buf /\ buf' = <<Whole(d)>> /\ UNCHANGED <<reported, faults>>
    <3>1. Log' = Append(Log, Whole(d))
      BY <1>2, <1>3, <2>3 DEF Log
    <3> QED
      BY <1>1, <2>1, <2>3, <3>1 DEF AppendsWhole
  <2>4. CASE /\ buf' \in {buf, Append(buf, Torn(d))} /\ UNCHANGED file
             /\ Fault /\ reported' = reported \cup {<<d, taken[d]>>}
    <3>1. faults' > faults
      BY <2>4 DEF Fault, TypeOK
    <3>2. Log' \in {Log, Append(Log, Torn(d))}
      BY <1>2, <1>3, <2>4 DEF Log
    <3> QED
      BY <1>1, <2>1, <2>4, <3>1, <3>2 DEF Misses
  <2> QED
    BY <1>1, <1>4, <2>2, <2>3, <2>4 DEF WriteSmall
<1>5. CASE WriteLarge(d)
  <2>1. pc[d] = "write"
    BY <1>5 DEF WriteLarge, At
  <2>2. CASE /\ file' = Append(file \o buf, Torn(d)) /\ buf' = <<>>
             /\ Goto(d, "data") /\ UNCHANGED <<reported, faults>>
    <3>1. pc'[d] = "data"
      BY <2>2 DEF Goto, TypeOK
    <3>2. Log' = Append(Log, Torn(d))
      BY <1>2, <1>3, <2>2 DEF Log
    <3> QED
      BY <1>1, <2>1, <2>2, <3>1, <3>2 DEF AppendsTorn
  <2>3. CASE /\ Fault /\ buf' = Append(buf, Torn(d)) /\ UNCHANGED file
             /\ reported' = reported \cup {<<d, taken[d]>>} /\ Goto(d, "flush")
    <3>1. pc'[d] = "flush" /\ faults' > faults
      BY <2>3 DEF Goto, Fault, TypeOK
    <3>2. Log' = Append(Log, Torn(d))
      BY <1>2, <1>3, <2>3 DEF Log
    <3> QED
      BY <1>1, <2>1, <2>3, <3>1, <3>2 DEF Misses
  <2> QED
    BY <1>1, <1>5, <2>2, <2>3 DEF WriteLarge
<1>6. CASE WriteData(d)
  <2>1. pc[d] = "data" /\ pc'[d] = "flush" /\ status = "proxying" /\ buf' = buf
    BY <1>6 DEF WriteData, At, Goto, TypeOK
  <2>2. buf = <<>> /\ Len(file) > 0 /\ file[Len(file)] = Torn(d)
    BY <2>1 DEF PlaceInv
  <2>3. Log = file
    BY <1>2, <2>2, ConcatEmptySeq DEF Log
  <2>4. CASE file' = [file EXCEPT ![Len(file)] = Whole(d)] /\ UNCHANGED <<reported, faults>>
    <3>1. file' \in Seq(Item)
      BY DEF TypeOK
    <3>2. Log' = file'
      BY <2>1, <2>2, <3>1, ConcatEmptySeq DEF Log
    <3>3. Log' = [Log EXCEPT ![Len(Log)] = Whole(d)]
      BY <2>3, <2>4, <3>2
    <3>4. Len(Log) > 0 /\ Log[Len(Log)] = Torn(d)
      BY <2>2, <2>3
    <3> QED
      BY <1>1, <2>1, <2>4, <3>3, <3>4 DEF Completes
  <2>5. CASE Fault /\ reported' = reported \cup {<<d, taken[d]>>} /\ UNCHANGED file
    <3>1. faults' > faults
      BY <2>5 DEF Fault, TypeOK
    <3>2. Log' = Log
      BY <2>1, <2>5 DEF Log
    <3> QED
      BY <1>1, <2>1, <2>5, <3>1, <3>2 DEF Misses
  <2> QED
    BY <1>1, <1>6, <2>4, <2>5 DEF WriteData
<1> QED
  BY <1>1, <1>4, <1>5, <1>6

\* Every step writes, reads, or rests.
LEMMA StepKinds ==
  ASSUME TypeOK, TypeOK', RecordFirst, PlaceInv, [Next]_vars
  PROVE  \/ Rests
         \/ \E d \in Dirs : Reads(d)
         \/ \E d \in Dirs : WriteSmall(d) \/ WriteLarge(d) \/ WriteData(d)
<1>1. /\ file \in Seq(Item) /\ buf \in Seq(Item) /\ file \o buf \in Seq(Item)
      /\ \A s \in Seq(Item) : s \o <<>> = s
  BY ConcatProperties, ConcatEmptySeq DEF TypeOK
<1>2. ASSUME UNCHANGED <<pc, taken, stamp, clock, sent>>,
             status \in {"connecting", "proxying"},
             \/ DropWriter /\ \A d \in Dirs : pc[d] \notin Critical
             \/ status' = "crashed" /\ buf' = <<>> /\ UNCHANGED <<file, reported, faults>>,
             \/ status' \in {"failed", "stopped", "crashed"}
             \/ status' = "finished" /\ \A d \in Dirs : pc[d] = "done"
      PROVE  Rests
  <2>1. faults' >= faults /\ reported' = reported /\ buf' = <<>>
    BY <1>2 DEF DropWriter, Fault, TypeOK
  <2>2. file' \in {file \o buf, file} /\ (faults' = 0 /\ status' # "crashed" => file' = file \o buf)
    BY <1>2 DEF DropWriter, Fault, TypeOK
  <2>3. Log' = file'
    BY <1>1, <2>1, <2>2 DEF Log
  <2>4. Ends
    <3>1. file' \in {Log, file} /\ (faults' = 0 /\ status' # "crashed" => file' = Log)
      BY <2>2 DEF Log
    <3>2. /\ status' \in Over \ {"exited"} /\ (status' = "finished" => \A d \in Dirs : pc[d] = "done")
          /\ status' # "crashed" => \A d \in Dirs : pc[d] \notin Critical
      BY <1>2 DEF Over
    <3> QED
      BY <1>2, <2>3, <3>1, <3>2 DEF Ends
  <2> QED
    BY <1>2, <2>1, <2>4 DEF Rests
<1>3. CASE ConnectFails \/ Finish \/ Shutdown \/ Crash
  <2>1. CASE ConnectFails
    <3>1. /\ UNCHANGED <<pc, taken, stamp, clock, sent>> /\ DropWriter
          /\ status = "connecting" /\ status' = "failed"
      BY <2>1 DEF ConnectFails, ends
    <3>2. \A d \in Dirs : pc[d] \notin Critical
      BY <3>1 DEF RecordFirst, FreshInv, Critical
    <3> QED
      BY <1>2, <3>1, <3>2
  <2>2. CASE Finish
    <3>1. /\ UNCHANGED <<pc, taken, stamp, clock, sent>> /\ DropWriter
          /\ status = "proxying" /\ status' = "finished"
          /\ \A d \in Dirs : pc[d] = "done"
      BY <2>2 DEF Finish, ends
    <3>2. \A d \in Dirs : pc[d] \notin Critical
      BY <3>1 DEF Critical
    <3> QED
      BY <1>2, <3>1, <3>2
  <2>3. CASE Shutdown
    <3>1. /\ UNCHANGED <<pc, taken, stamp, clock, sent>> /\ DropWriter
          /\ status \in {"connecting", "proxying"} /\ status' = "stopped"
          /\ \A d \in Dirs : pc[d] \notin Critical
      BY <2>3 DEF Shutdown, ends
    <3> QED
      BY <1>2, <3>1
  <2>4. CASE Crash
    BY <1>2, <2>4 DEF Crash, Over, ends
  <2> QED
    BY <1>3, <2>1, <2>2, <2>3, <2>4
<1>4. ASSUME UNCHANGED <<pc, taken, stamp, clock, disk>>,
             \/ status' = status
             \/ status = "connecting" /\ status' = "proxying"
             \/ status = "finished" /\ status' = "exited",
             \/ UNCHANGED sent
             \/ \E d \in Dirs : Send(d)
      PROVE  Rests
  <2>1. Log' = Log /\ reported' = reported /\ faults' >= faults
    BY <1>4 DEF Log, disk, TypeOK
  <2>2. GoesOn
    <3>1. /\ UNCHANGED disk
          /\ \/ status' = status
             \/ status = "connecting" /\ status' = "proxying"
             \/ status = "finished" /\ status' = "exited"
      BY <1>4
    <3>2. /\ status' \in Over => status \in Over
          /\ status \in Over => status' = status \/ (status = "finished" /\ status' = "exited")
      BY <3>1 DEF Over
    <3> QED
      BY <2>1, <3>1, <3>2 DEF GoesOn
  <2>3. \A d \in Dirs : sent'[d] = sent[d] \/ \E k \in Nat : sent'[d] = Append(sent[d], k)
    <3>1. ASSUME NEW e \in Dirs, Send(e)
          PROVE  \A d \in Dirs : sent'[d] = sent[d] \/ \E k \in Nat : sent'[d] = Append(sent[d], k)
      <4>1. received[Opposite(e)] \in Nat
        BY TwoDirections DEF TypeOK
      <4> QED
        BY <3>1, <4>1 DEF Send, TypeOK
    <3> QED
      BY <1>4, <3>1
  <2> QED
    BY <1>4, <2>1, <2>2, <2>3 DEF Rests
<1>5. CASE Connect \/ PropagateExit \/ HalfClose \/ UNCHANGED vars
           \/ \E d \in Dirs : Send(d) \/ Receive(d) \/ Leave(d) \/ LeaveAtEof(d)
  <2>1. /\ UNCHANGED <<pc, taken, stamp, clock, disk>>
        /\ \/ status' = status
           \/ status = "connecting" /\ status' = "proxying"
           \/ status = "finished" /\ status' = "exited"
    BY <1>5 DEF Connect, PropagateExit, HalfClose, Send, Receive, Leave, LeaveAtEof, Exit, vars
  <2>2. UNCHANGED sent \/ \E d \in Dirs : Send(d)
    BY <1>5 DEF Connect, PropagateExit, HalfClose, Receive, Leave, LeaveAtEof, Exit, vars, ends
  <2> QED
    BY <1>4, <2>1, <2>2
<1>6. ASSUME NEW d \in Dirs, Copy(d)
      PROVE  Rests \/ Reads(d) \/ WriteSmall(d) \/ WriteLarge(d) \/ WriteData(d)
  <2>1. CASE ReadChunk(d)
    <3>1. clock' \in Nat /\ clock' >= clock
      BY <2>1, ConstantsAssumption DEF ReadChunk, TypeOK
    <3> QED
      BY <2>1, <3>1 DEF ReadChunk, At, Goto, Reads
  <2>2. ASSUME UNCHANGED <<status, sent, taken, stamp, clock, reported>>,
               faults' >= faults, Log' = Log, status = "proxying",
               NEW p \in {"read", "lock", "flush", "forward"},
               NEW q \in {"write", "forward", "read", "done"},
               pc[d] = p, pc' = [pc EXCEPT ![d] = q], p = "lock" <=> q = "write",
               p = "flush" \/ UNCHANGED disk
        PROVE  Rests
    <3>1. (\E e \in Dirs : pc[e] = "data") => UNCHANGED disk
      BY <2>2 DEF RecordFirst, MutexInv, Critical
    <3>2. GoesOn
      BY <2>2, <3>1 DEF GoesOn, Over
    <3>3. \A e \in Dirs : /\ pc'[e] \in {"lock", "write"} <=> pc[e] \in {"lock", "write"}
                          /\ pc'[e] = "data" <=> pc[e] = "data"
      BY <2>2 DEF TypeOK
    <3> QED
      BY <2>2, <3>2, <3>3 DEF Rests
  <2>3. CASE FlushRecording(d)
    <3>1. Log' = Log /\ faults' >= faults
      <4>1. CASE file' = file \o buf /\ buf' = <<>> /\ UNCHANGED faults
        BY <1>1, <4>1 DEF Log, TypeOK
      <4>2. CASE Fault /\ UNCHANGED <<buf, file>>
        BY <4>2 DEF Fault, Log, TypeOK
      <4> QED
        BY <2>3, <4>1, <4>2 DEF FlushRecording, FlushBuf
    <3> QED
      BY <2>2, <2>3, <3>1 DEF FlushRecording, At, Goto, ends
  <2>4. CASE ReadEof(d) \/ LockRecording(d) \/ Forward(d) \/ ForwardFails(d)
    <3>1. UNCHANGED disk /\ UNCHANGED <<status, sent, taken, stamp, clock>> /\ status = "proxying"
      BY <2>4 DEF ReadEof, LockRecording, Forward, ForwardFails, At, ends
    <3>2. Log' = Log /\ faults' >= faults /\ reported' = reported
      BY <3>1 DEF disk, Log, TypeOK
    <3> QED
      BY <2>2, <2>4, <3>1, <3>2 DEF ReadEof, LockRecording, Forward, ForwardFails, At, Goto
  <2> QED
    BY <1>6, <2>1, <2>3, <2>4 DEF Copy
<1> QED
  BY <1>3, <1>5, <1>6 DEF Next

\* A task in the middle of a large chunk has the file for itself.
THEOREM PlaceInvariant == Spec => []PlaceInv
<1>1. Init => PlaceInv
  BY DEF Init, PlaceInv
<1>2. TypeOK /\ TypeOK' /\ RecordFirst /\ PlaceInv /\ [Next]_vars => PlaceInv'
  <2> SUFFICES ASSUME TypeOK, TypeOK', RecordFirst, PlaceInv, [Next]_vars,
                      NEW e \in Dirs, status' = "proxying", pc'[e] = "data"
               PROVE  buf' = <<>> /\ Len(file') > 0 /\ file'[Len(file')] = Torn(e)'
    BY DEF PlaceInv
  <2>1. CASE Rests
    <3>1. GoesOn /\ pc[e] = "data" /\ Torn(e)' = Torn(e)
      BY <2>1 DEF Rests, Ends, Over, Torn
    <3>2. status \notin Over /\ buf' = buf /\ file' = file
      BY <3>1 DEF GoesOn, Over, disk
    <3>3. status = "proxying"
      <4>1. status # "connecting"
        BY <3>1 DEF RecordFirst, FreshInv
      <4> QED
        BY <3>2, <4>1 DEF TypeOK, Statuses
    <3> QED
      BY <3>1, <3>2, <3>3 DEF PlaceInv
  <2>2. ASSUME NEW d \in Dirs, Reads(d) PROVE buf' = <<>> /\ Len(file') > 0 /\ file'[Len(file')] = Torn(e)'
    <3>1. e # d /\ pc[e] = "data" /\ status = "proxying" /\ UNCHANGED <<buf, file>>
      BY <2>2 DEF Reads, disk, TypeOK
    <3>2. Torn(e)' = Torn(e)
      BY <2>2, <3>1 DEF Reads, Torn, TypeOK
    <3> QED
      BY <3>1, <3>2 DEF PlaceInv
  <2>3. ASSUME NEW d \in Dirs, WriteSmall(d) \/ WriteLarge(d) \/ WriteData(d)
        PROVE  buf' = <<>> /\ Len(file') > 0 /\ file'[Len(file')] = Torn(e)'
    <3>1. Frame(d) /\ Torn(e)' = Torn(e)
      BY <2>3, LogOfWrites DEF Frame, Torn
    <3>2. e = d
      BY <3>1 DEF Frame, RecordFirst, MutexInv, Critical
    <3>3. /\ file' = Append(file \o buf, Torn(d)) /\ buf' = <<>>
      BY <2>3, <3>2 DEF WriteSmall, WriteLarge, WriteData, Goto, TypeOK
    <3>4. file \o buf \in Seq(Item) /\ Torn(d) \in Item
      BY ConcatProperties, ItemsAreTyped DEF TypeOK
    <3> QED
      BY <3>1, <3>2, <3>3, <3>4, AppendedLast
  <2> QED
    BY <2>1, <2>2, <2>3, StepKinds
<1> QED BY <1>1, <1>2, TypeCorrect, RecordFirstInvariant, PTL DEF Spec

\* Every step writes one item to the log, completes its last one or misses it,
\* or it reads, or it rests.
LEMMA LogSteps ==
  ASSUME TypeOK, TypeOK', RecordFirst, PlaceInv, [Next]_vars
  PROVE  \/ Rests
         \/ \E d \in Dirs : Reads(d)
         \/ \E d \in Dirs : /\ Frame(d)
                            /\ AppendsWhole(d) \/ AppendsTorn(d) \/ Completes(d) \/ Misses(d)
BY StepKinds, LogOfWrites

-----------------------------------------------------------------------------
(* The order of the chunks.  The log has chunks of a direction in the order *)
(* they were read; the one in hand is newer than these until it is written. *)

StampInv == \A d \in Dirs : stamp[d] <= clock

NumberInv ==
  \A i \in Chunks(Log) : LET d == Log[i].dir IN
    /\ Log[i].no \in 1..taken[d] /\ Log[i].stamp <= stamp[d]
    /\ pc[d] \in {"lock", "write"} => Log[i].no < taken[d]

InOrder(s) ==
  \A i, j \in Chunks(s) :
    i < j /\ s[j].dir = s[i].dir => s[i].no < s[j].no /\ s[i].stamp <= s[j].stamp

OrderInv == StampInv /\ NumberInv /\ InOrder(Log)

\* The file, or a log that is a copy of the old one, has the same chunks.
LEMMA PrefixOrder ==
  ASSUME TypeOK, InOrder(Log)
  PROVE  /\ Chunks(file) = Chunks(Log) \cap 1..Len(file)
         /\ InOrder(file)
<1>1. Chunks(file) = Chunks(Log) \cap 1..Len(file)
  BY LogItems DEF Chunks
<1> QED
  BY <1>1, LogItems DEF InOrder, Chunks

\* A step of OrderInv that writes nothing.
LEMMA OrderRests ==
  ASSUME TypeOK, TypeOK', OrderInv, Rests
  PROVE  OrderInv'
<1>1. StampInv'
  BY DEF OrderInv, StampInv, Rests
<1>2. \/ Log' = Log
      \/ Log' = file
  BY DEF Rests, Ends, GoesOn
<1>3. InOrder(Log)'
  BY <1>2, PrefixOrder DEF OrderInv, InOrder, Chunks
<1>4. NumberInv'
  <2> SUFFICES ASSUME NEW i \in Chunks(Log)', NEW d \in Dirs, d = Log'[i].dir
               PROVE  /\ Log'[i].no \in 1..taken[d] /\ Log'[i].stamp <= stamp[d]
                      /\ pc'[d] \in {"lock", "write"} => Log'[i].no < taken[d]
    <3>1. \A i \in Chunks(Log)' : i \in Chunks(Log) /\ Log'[i] = Log[i]
      BY <1>2, PrefixOrder, LogItems DEF OrderInv, Chunks
    <3>2. \A i \in Chunks(Log)' : Log'[i].dir \in Dirs
      BY <3>1, LogItems DEF Chunks, Item
    <3> QED
      BY <3>2 DEF NumberInv, Rests
  <2>1. i \in Chunks(Log) /\ Log'[i] = Log[i]
    BY <1>2, PrefixOrder, LogItems DEF OrderInv, Chunks
  <2> QED
    BY <2>1 DEF OrderInv, NumberInv, Rests
<1> QED BY <1>1, <1>3, <1>4 DEF OrderInv

\* A chunk that is read is newer than all of its direction in the log.
LEMMA OrderReads ==
  ASSUME TypeOK, TypeOK', OrderInv, NEW d \in Dirs, Reads(d)
  PROVE  OrderInv'
<1>1. /\ Log' = Log /\ clock \in Nat /\ clock' \in Nat /\ clock' >= clock
      /\ \A e \in Dirs : taken[e] \in Nat /\ stamp[e] \in Nat /\ stamp[e] <= clock
  BY DEF Reads, disk, Log, TypeOK, OrderInv, StampInv
<1>2. /\ taken'[d] = taken[d] + 1 /\ stamp'[d] = clock' /\ pc'[d] = "lock"
      /\ \A e \in Dirs \ {d} : taken'[e] = taken[e] /\ stamp'[e] = stamp[e] /\ pc'[e] = pc[e]
  BY DEF Reads, TypeOK
<1>3. StampInv'
  BY <1>1, <1>2 DEF StampInv
<1>4. ASSUME NEW i \in Chunks(Log), NEW e \in Dirs, e = Log[i].dir
      PROVE  /\ Log[i].no \in 1..taken'[e] /\ Log[i].stamp <= stamp'[e]
             /\ pc'[e] \in {"lock", "write"} => Log[i].no < taken'[e]
  <2>1. /\ Log[i].no \in 1..taken[e] /\ Log[i].stamp <= stamp[e] /\ Log[i].stamp \in Nat
        /\ pc[e] \in {"lock", "write"} => Log[i].no < taken[e]
    BY <1>4, LogItems DEF OrderInv, NumberInv, Chunks, Item
  <2> QED
    BY <1>1, <1>2, <2>1
<1>5. \A i \in Chunks(Log) : Log[i].dir \in Dirs
  BY LogItems DEF Chunks, Item
<1>6. NumberInv'
  BY <1>1, <1>4, <1>5 DEF NumberInv, Chunks
<1>7. InOrder(Log)'
  BY <1>1 DEF OrderInv, InOrder, Chunks
<1> QED BY <1>3, <1>6, <1>7 DEF OrderInv

\* The chunk in hand goes behind the log.
LEMMA OrderAppends ==
  ASSUME TypeOK, TypeOK', RecordFirst, OrderInv, NEW d \in Dirs, Frame(d), pc[d] = "write",
         Log' = Append(Log, Whole(d)) \/ Log' = Append(Log, Torn(d))
  PROVE  OrderInv'
<1>0. PICK x \in {Whole(d), Torn(d)} : Log' = Append(Log, x)
  OBVIOUS
<1>1. /\ x \in Item /\ x.dir = d /\ x.no = taken[d] /\ x.stamp = stamp[d]
      /\ taken[d] \in Nat \ {0} /\ stamp[d] \in Nat
  <2>1. taken[d] # 0
    BY SMTT(20) DEF RecordFirst, CountInv, InHand, Critical, TypeOK
  <2>2. Whole(d) \in Item /\ Torn(d) \in Item /\ taken[d] \in Nat /\ stamp[d] \in Nat
    BY ItemsAreTyped DEF TypeOK
  <2>3. /\ Whole(d).dir = d /\ Whole(d).no = taken[d] /\ Whole(d).stamp = stamp[d]
        /\ Torn(d).dir = d /\ Torn(d).no = taken[d] /\ Torn(d).stamp = stamp[d]
    BY DEF Whole, Torn
  <2> QED
    BY <2>1, <2>2, <2>3
<1> DEFINE n == Len(Log)
<1>2. /\ n \in Nat /\ Len(Log') = n + 1 /\ Log'[n + 1] = x
      /\ \A i \in 1..n : Log'[i] = Log[i]
  BY <1>0, <1>1, LogItems, LongerLog
<1> HIDE DEF n
<1>3. /\ \A i \in Chunks(Log) : i \in 1..n
      /\ \A i \in Chunks(Log)' : (i \in Chunks(Log) /\ Log'[i] = Log[i]) \/ (i = n + 1 /\ Log'[i] = x)
  BY <1>2 DEF Chunks, n
<1>4. \A i \in Chunks(Log) :
        /\ Log[i].dir \in Dirs /\ Log[i].no \in 1..taken[Log[i].dir]
        /\ Log[i].stamp \in Nat /\ Log[i].stamp <= stamp[Log[i].dir]
        /\ pc[Log[i].dir] \in {"lock", "write"} => Log[i].no < taken[Log[i].dir]
  BY LogItems DEF OrderInv, NumberInv, Chunks, Item
<1>5. pc'[d] \in {"data", "flush"} /\ taken' = taken /\ stamp' = stamp /\ clock' = clock
      /\ \A e \in Dirs \ {d} : pc'[e] = pc[e]
  BY DEF Frame
<1>6. StampInv'
  BY <1>5 DEF OrderInv, StampInv
<1>7. NumberInv'
  <2> SUFFICES ASSUME NEW i \in Chunks(Log)'
               PROVE  /\ Log'[i].no \in 1..taken[Log'[i].dir] /\ Log'[i].stamp <= stamp[Log'[i].dir]
                      /\ pc'[Log'[i].dir] \in {"lock", "write"} => Log'[i].no < taken[Log'[i].dir]
    BY <1>5 DEF NumberInv
  <2>1. CASE i \in Chunks(Log) /\ Log'[i] = Log[i]
    BY <1>4, <1>5, <2>1
  <2>2. CASE i = n + 1 /\ Log'[i] = x
    BY <1>1, <1>5, <2>2
  <2> QED
    BY <1>3, <2>1, <2>2
<1>8. InOrder(Log)'
  <2> SUFFICES ASSUME NEW i \in Chunks(Log)', NEW j \in Chunks(Log)', i < j, Log'[j].dir = Log'[i].dir
               PROVE  Log'[i].no < Log'[j].no /\ Log'[i].stamp <= Log'[j].stamp
    BY DEF InOrder
  <2>1. i \in Chunks(Log) /\ Log'[i] = Log[i]
    BY <1>2, <1>3 DEF Chunks
  <2>2. CASE j \in Chunks(Log) /\ Log'[j] = Log[j]
    BY <2>1, <2>2 DEF OrderInv, InOrder
  <2>3. CASE j = n + 1 /\ Log'[j] = x
    BY <1>1, <1>4, <2>1, <2>3
  <2> QED
    BY <1>3, <2>2, <2>3
<1> QED BY <1>6, <1>7, <1>8 DEF OrderInv

\* The torn record is replaced by the whole one of the same chunk.
LEMMA OrderCompletes ==
  ASSUME TypeOK, TypeOK', OrderInv, NEW d \in Dirs, Frame(d), Completes(d)
  PROVE  OrderInv'
<1> DEFINE n == Len(Log)
<1>1. /\ n \in Nat /\ Len(Log') = n /\ Log'[n] = Whole(d) /\ Log[n] = Torn(d) /\ n > 0
      /\ \A i \in 1..(n - 1) : Log'[i] = Log[i]
  BY LogItems, ItemsAreTyped, ReplacedLog DEF Completes
<1>2. /\ Log'[n].kind # "header" /\ Log[n].kind # "header"
      /\ Log'[n].dir = Log[n].dir /\ Log'[n].no = Log[n].no /\ Log'[n].stamp = Log[n].stamp
  BY <1>1 DEF Whole, Torn
<1> HIDE DEF n
<1>3. \A i \in Chunks(Log)' :
        /\ i \in Chunks(Log) /\ i \in Nat
        /\ Log'[i].dir = Log[i].dir /\ Log'[i].no = Log[i].no /\ Log'[i].stamp = Log[i].stamp
  BY <1>1, <1>2 DEF Chunks, n
<1>4. pc'[d] \in {"data", "flush"} /\ taken' = taken /\ stamp' = stamp /\ clock' = clock
      /\ \A e \in Dirs \ {d} : pc'[e] = pc[e]
  BY DEF Frame
<1>5. \A i \in Chunks(Log) : Log[i].dir \in Dirs
  BY LogItems DEF Chunks, Item
<1>6. StampInv'
  BY <1>4 DEF OrderInv, StampInv
<1>7. InOrder(Log)'
  BY <1>3 DEF OrderInv, InOrder
<1>8. NumberInv'
  BY <1>3, <1>4, <1>5 DEF OrderInv, NumberInv
<1> QED BY <1>6, <1>7, <1>8 DEF OrderInv

\* A failed write that leaves the log as it is.
LEMMA OrderMisses ==
  ASSUME TypeOK, OrderInv, NEW d \in Dirs, Frame(d), Log' = Log
  PROVE  OrderInv'
<1>1. pc'[d] \in {"data", "flush"} /\ taken' = taken /\ stamp' = stamp /\ clock' = clock
      /\ \A e \in Dirs \ {d} : pc'[e] = pc[e]
  BY DEF Frame
<1>2. \A i \in Chunks(Log) : Log[i].dir \in Dirs
  BY LogItems DEF Chunks, Item
<1>3. StampInv' /\ InOrder(Log)'
  BY <1>1 DEF OrderInv, StampInv, InOrder, Chunks
<1>4. NumberInv'
  BY <1>1, <1>2 DEF OrderInv, NumberInv, Chunks
<1> QED BY <1>3, <1>4 DEF OrderInv

\* The order of the log is kept by every step.
THEOREM OrderInvariant == Spec => []OrderInv
<1>1. Init => OrderInv
  <2> SUFFICES ASSUME Init PROVE OrderInv
    OBVIOUS
  <2>1. Len(Log) = 1 /\ Log[1] = Header
    BY DEF Init, Log
  <2>2. Chunks(Log) = {}
    BY <2>1 DEF Chunks, Header
  <2> QED
    BY <2>2 DEF Init, OrderInv, StampInv, NumberInv, InOrder
<1>2. TypeOK /\ TypeOK' /\ RecordFirst /\ PlaceInv /\ OrderInv /\ [Next]_vars => OrderInv'
  <2> SUFFICES ASSUME TypeOK, TypeOK', RecordFirst, PlaceInv, OrderInv, [Next]_vars PROVE OrderInv'
    OBVIOUS
  <2>1. ASSUME NEW d \in Dirs, Frame(d), AppendsWhole(d) \/ AppendsTorn(d) \/ Completes(d) \/ Misses(d)
        PROVE  OrderInv'
    BY <2>1, OrderAppends, OrderCompletes, OrderMisses DEF AppendsWhole, AppendsTorn, Misses
  <2> QED
    BY <2>1, LogSteps, OrderRests, OrderReads
<1> QED BY <1>1, <1>2, TypeCorrect, RecordFirstInvariant, PlaceInvariant, PTL DEF Spec

-----------------------------------------------------------------------------
(* The header.                                                             *)

\* The header is the first item of the log and of nothing else.
HeadInv ==
  /\ status \notin Over => Len(Log) > 0 /\ Log[1] = Header
  /\ \A i \in 2..Len(Log) : Log[i].kind # "header"

THEOREM HeadInvariant == Spec => []HeadInv
<1>1. Init => HeadInv
  BY DEF Init, HeadInv, Log
<1>2. TypeOK /\ TypeOK' /\ RecordFirst /\ PlaceInv /\ HeadInv /\ [Next]_vars => HeadInv'
  <2> SUFFICES ASSUME TypeOK, TypeOK', RecordFirst, PlaceInv, HeadInv, [Next]_vars PROVE HeadInv'
    OBVIOUS
  <2>1. CASE Rests
    <3>1. \/ Log' = Log /\ (status' \notin Over => status \notin Over)
          \/ Log' = file /\ status' \in Over
      BY <2>1 DEF Rests, Ends, GoesOn, Over
    <3> QED
      BY <3>1, LogItems DEF HeadInv
  <2>2. ASSUME NEW d \in Dirs, Reads(d) PROVE HeadInv'
    BY <2>2 DEF Reads, disk, Log, HeadInv
  <2>3. ASSUME NEW d \in Dirs, Frame(d), AppendsWhole(d) \/ AppendsTorn(d) \/ Completes(d) \/ Misses(d)
        PROVE  HeadInv'
    <3>1. /\ Len(Log) > 0 /\ Log[1] = Header /\ status' = status
          /\ \A i \in 2..Len(Log) : Log[i].kind # "header"
      BY <2>3 DEF HeadInv, Frame, Over
    <3>2. /\ Whole(d) \in Item /\ Torn(d) \in Item /\ Header \in Item /\ Torn(d) # Header
          /\ Whole(d).kind # "header" /\ Torn(d).kind # "header"
      BY ItemsAreTyped DEF Whole, Torn, Header
    <3>3. ASSUME NEW x \in {Whole(d), Torn(d)}, Log' = Append(Log, x) PROVE HeadInv'
      <4>1. /\ x \in Item /\ x.kind # "header" /\ Log \in Seq(Item)
        BY <3>2, <3>3, LogItems
      <4>2. /\ Len(Log) \in Nat /\ Len(Log') = Len(Log) + 1 /\ Log'[Len(Log) + 1] = x
            /\ \A i \in 1..Len(Log) : Log'[i] = Log[i]
        BY <3>3, <4>1, LongerLog
      <4> QED
        BY <3>1, <4>1, <4>2 DEF HeadInv
    <3>4. ASSUME Log' = [Log EXCEPT ![Len(Log)] = Whole(d)], Log[Len(Log)] = Torn(d) PROVE HeadInv'
      BY <3>1, <3>2, <3>4, LogItems, ReplacedLog DEF HeadInv
    <3>5. ASSUME Log' = Log PROVE HeadInv'
      BY <3>1, <3>5 DEF HeadInv
    <3> QED
      BY <2>3, <3>3, <3>4, <3>5 DEF AppendsWhole, AppendsTorn, Completes, Misses
  <2> QED
    BY <2>1, <2>2, <2>3, LogSteps
<1> QED BY <1>1, <1>2, TypeCorrect, RecordFirstInvariant, PlaceInvariant, PTL DEF Spec

\* Within a direction, the file has the chunks in the order they were read, none
\* twice, with offsets that never go back: for any number of chunks and of failed
\* writes, and wherever the recorder is stopped or killed.
THEOREM FileStaysInOrder == Spec => []FileKeepsOrder
<1>1. TypeOK /\ OrderInv /\ HeadInv => FileKeepsOrder
  <2> SUFFICES ASSUME TypeOK, OrderInv, HeadInv, NEW i \in 1..Len(file), NEW j \in 1..Len(file),
                      i < j, file[i].kind # "header", file[j].dir = file[i].dir
               PROVE  file[i].no < file[j].no /\ file[i].stamp <= file[j].stamp
    BY DEF FileKeepsOrder
  <2>1. file[j].kind # "header"
    BY LogItems DEF HeadInv
  <2> QED
    BY <2>1, PrefixOrder DEF OrderInv, InOrder, Chunks
<1> QED BY <1>1, TypeCorrect, OrderInvariant, HeadInvariant, PTL

-----------------------------------------------------------------------------
(* The counts at the two ends.                                             *)

\* Each end has seen only what was delivered to it, and says so in what it sends;
\* the daemon sends nothing before it has seen something.
SentInv ==
  \A d \in Dirs :
    /\ received[d] <= delivered[d] /\ delivered[d] <= taken[d] /\ taken[d] <= Len(sent[d])
    /\ \A n \in 1..Len(sent[d]) :
         sent[d][n] <= received[Opposite(d)] /\ (d = D2C => sent[d][n] > 0)

THEOREM SentInvariant == Spec => []SentInv
<1>1. Init => SentInv
  BY DEF Init, SentInv
<1>2. TypeOK /\ TypeOK' /\ RecordFirst /\ SentInv /\ [Next]_vars => SentInv'
  <2> SUFFICES ASSUME TypeOK, TypeOK', RecordFirst, SentInv, [Next]_vars PROVE SentInv'
    OBVIOUS
  <2>1. /\ \A d \in Dirs : /\ received[d] \in Nat /\ delivered[d] \in Nat /\ taken[d] \in Nat
                           /\ sent[d] \in Seq(Nat) /\ Len(sent[d]) \in Nat /\ Opposite(d) \in Dirs
                           /\ \A n \in 1..Len(sent[d]) : sent[d][n] \in Nat
    BY TwoDirections, LenProperties, ElementOfSeq DEF TypeOK
  <2>2. CASE UNCHANGED <<sent, received, delivered, taken>>
    BY <2>2 DEF SentInv
  <2>9. ASSUME sent' = sent,
               \A e \in Dirs : /\ received'[e] \in Nat /\ received[e] <= received'[e]
                               /\ received'[e] <= delivered'[e] /\ delivered'[e] <= taken'[e]
                               /\ taken'[e] <= Len(sent[e])
        PROVE  SentInv'
    <3>1. ASSUME NEW e \in Dirs, NEW n \in 1..Len(sent[e])
          PROVE  sent[e][n] <= received'[Opposite(e)] /\ (e = D2C => sent[e][n] > 0)
      <4> DEFINE a == sent[e][n]
                 b == received[Opposite(e)]
                 c == received'[Opposite(e)]
      <4>1. a \in Nat /\ b \in Nat /\ c \in Nat /\ b <= c
        BY <2>1, <2>9
      <4>2. a <= b /\ (e = D2C => a > 0)
        BY DEF SentInv
      <4> HIDE DEF a, b, c
      <4>3. a <= c
        BY <4>1, <4>2
      <4> QED
        BY <4>2, <4>3 DEF a, c
    <3> QED
      BY <2>9, <3>1 DEF SentInv
  <2>3. ASSUME NEW d \in Dirs, Send(d) PROVE SentInv'
    <3> DEFINE r == received[Opposite(d)]
    <3>1. /\ sent' = [sent EXCEPT ![d] = Append(@, r)] /\ (d = D2C => r > 0)
          /\ UNCHANGED <<received, delivered, taken>> /\ r \in Nat
      BY <2>1, <2>3 DEF Send, Opposite, C2D, D2C
    <3>2. /\ Len(sent'[d]) = Len(sent[d]) + 1 /\ sent'[d][Len(sent[d]) + 1] = r
          /\ \A n \in 1..Len(sent[d]) : sent'[d][n] = sent[d][n]
          /\ \A e \in Dirs \ {d} : sent'[e] = sent[e]
      BY <2>1, <3>1, AppendProperties DEF TypeOK
    <3>3. \A e \in Dirs \ {d} :
            /\ received'[e] <= delivered'[e] /\ delivered'[e] <= taken'[e] /\ taken'[e] <= Len(sent'[e])
            /\ \A n \in 1..Len(sent'[e]) :
                 sent'[e][n] <= received'[Opposite(e)] /\ (e = D2C => sent'[e][n] > 0)
      BY <3>1, <3>2 DEF SentInv
    <3>4. /\ received'[d] <= delivered'[d] /\ delivered'[d] <= taken'[d] /\ taken'[d] <= Len(sent'[d])
          /\ \A n \in 1..Len(sent'[d]) :
               sent'[d][n] <= received'[Opposite(d)] /\ (d = D2C => sent'[d][n] > 0)
      BY <2>1, <3>1, <3>2 DEF SentInv
    <3> QED
      BY <3>3, <3>4 DEF SentInv
  <2>0. \A e \in Dirs : /\ received[e] <= delivered[e] /\ delivered[e] <= taken[e]
                        /\ taken[e] <= Len(sent[e])
    BY DEF SentInv
  <2>4. ASSUME NEW d \in Dirs, Receive(d) PROVE SentInv'
    <3>1. /\ received[d] < delivered[d] /\ received' = [received EXCEPT ![d] = received[d] + 1]
          /\ sent' = sent /\ delivered' = delivered /\ taken' = taken
      BY <2>4 DEF Receive
    <3>2. received'[d] = received[d] + 1 /\ \A e \in Dirs \ {d} : received'[e] = received[e]
      BY <3>1 DEF TypeOK
    <3> QED
      BY <2>0, <2>1, <2>9, <3>1, <3>2
  <2>5. ASSUME NEW d \in Dirs, ReadChunk(d) PROVE SentInv'
    <3>1. /\ taken[d] < Len(sent[d]) /\ taken' = [taken EXCEPT ![d] = taken[d] + 1]
          /\ sent' = sent /\ delivered' = delivered /\ received' = received
      BY <2>5 DEF ReadChunk, ends
    <3>2. taken'[d] = taken[d] + 1 /\ \A e \in Dirs \ {d} : taken'[e] = taken[e]
      BY <3>1 DEF TypeOK
    <3> QED
      BY <2>0, <2>1, <2>9, <3>1, <3>2
  <2>6. ASSUME NEW d \in Dirs, Forward(d) PROVE SentInv'
    <3>1. delivered[d] + 1 = taken[d]
      BY <2>6 DEF Forward, At, RecordFirst, CountInv, InHand
    <3>2. /\ delivered' = [delivered EXCEPT ![d] = delivered[d] + 1]
          /\ sent' = sent /\ taken' = taken /\ received' = received
      BY <2>6 DEF Forward, ends
    <3>3. delivered'[d] = delivered[d] + 1 /\ \A e \in Dirs \ {d} : delivered'[e] = delivered[e]
      BY <3>2 DEF TypeOK
    <3> QED
      BY <2>0, <2>1, <2>9, <3>1, <3>2, <3>3
  <2>7. ASSUME NEW d \in Dirs, Copy(d), ~ReadChunk(d), ~Forward(d)
        PROVE  UNCHANGED <<sent, received, delivered, taken>>
    BY <2>7 DEF Copy, ReadEof, LockRecording, WriteSmall, WriteLarge, WriteData, FlushRecording,
                ForwardFails, ends
  <2>8. ASSUME \/ Connect \/ ConnectFails \/ Finish \/ PropagateExit \/ Shutdown \/ Crash \/ HalfClose
               \/ UNCHANGED vars \/ \E d \in Dirs : Leave(d) \/ LeaveAtEof(d)
        PROVE  UNCHANGED <<sent, received, delivered, taken>>
    BY <2>8 DEF Connect, ConnectFails, Finish, PropagateExit, Shutdown, Crash, HalfClose, vars,
                Leave, LeaveAtEof, Exit, ends
  <2> QED
    BY <2>2, <2>3, <2>4, <2>5, <2>6, <2>7, <2>8 DEF Next
<1> QED BY <1>1, <1>2, TypeCorrect, RecordFirstInvariant, PTL DEF Spec

-----------------------------------------------------------------------------
(* What is missing from the log.                                           *)

\* The log has the k-th chunk of d as a whole record.
InLog(d, k) == \E i \in 1..Len(Log) : IsRecord(Log[i], d, k)

\* Every chunk that was read, but for the one a task is about to write, is in
\* the log or was reported.
KeptInv ==
  status \notin Over =>
    \A d \in Dirs : \A k \in 1..taken[d] :
      (k = taken[d] => pc[d] \notin {"lock", "write", "data"})
        => InLog(d, k) \/ <<d, k>> \in reported

\* A write to the log keeps its whole records and adds the one in hand.
LEMMA WritesKeep ==
  ASSUME TypeOK, NEW d \in Dirs,
         AppendsWhole(d) \/ AppendsTorn(d) \/ Completes(d) \/ Misses(d)
  PROVE  /\ Keeps(Log, Log')
         /\ AppendsWhole(d) \/ Completes(d)
              => Len(Log') \in 1..Len(Log') /\ Log'[Len(Log')] = Whole(d)
         /\ Completes(d) => Len(Log') = Len(Log)
<1>1. Whole(d) \in Item /\ Torn(d) \in Item /\ Log \in Seq(Item) /\ Len(Log) \in Nat
      /\ Torn(d).kind = "torn"
  BY ItemsAreTyped, LogItems DEF Torn
<1>2. ASSUME NEW x \in Item, Log' = Append(Log, x)
      PROVE  Keeps(Log, Log') /\ Len(Log') \in 1..Len(Log') /\ Log'[Len(Log')] = x
  BY <1>1, <1>2, AppendKeeps, AppendedLast
<1>3. ASSUME Completes(d)
      PROVE  /\ Keeps(Log, Log') /\ Len(Log') \in 1..Len(Log') /\ Log'[Len(Log')] = Whole(d)
             /\ Len(Log') = Len(Log)
  <2>1. Len(Log) > 0 /\ Log[Len(Log)].kind = "torn" /\ Log' = [Log EXCEPT ![Len(Log)] = Whole(d)]
    BY <1>1, <1>3 DEF Completes
  <2>2. /\ Keeps(Log, [Log EXCEPT ![Len(Log)] = Whole(d)])
        /\ Len([Log EXCEPT ![Len(Log)] = Whole(d)]) = Len(Log)
        /\ [Log EXCEPT ![Len(Log)] = Whole(d)][Len(Log)] = Whole(d)
    BY <1>1, <2>1, OverwriteTornKeeps
  <2>3. Keeps(Log, Log') /\ Len(Log') = Len(Log) /\ Log'[Len(Log)] = Whole(d)
    BY <2>1, <2>2
  <2> QED
    BY <1>1, <2>1, <2>3
<1>4. Log' = Log => Keeps(Log, Log')
  BY DEF Keeps
<1>5. AppendsWhole(d) => Log' = Append(Log, Whole(d))
  BY DEF AppendsWhole
<1>6. \/ Log' = Append(Log, Whole(d)) \/ Log' = Append(Log, Torn(d))
      \/ Completes(d) \/ Log' = Log
  BY DEF AppendsWhole, AppendsTorn, Misses
<1> QED
  BY <1>1, <1>2, <1>3, <1>4, <1>5, <1>6

THEOREM KeptInvariant == Spec => []KeptInv
<1>1. Init => KeptInv
  BY DEF Init, KeptInv
<1>2. TypeOK /\ TypeOK' /\ RecordFirst /\ PlaceInv /\ KeptInv /\ [Next]_vars => KeptInv'
  <2> SUFFICES ASSUME TypeOK, TypeOK', RecordFirst, PlaceInv, KeptInv, [Next]_vars,
                      status' \notin Over, NEW e \in Dirs, NEW k \in 1..taken'[e],
                      k = taken'[e] => pc'[e] \notin {"lock", "write", "data"}
               PROVE  InLog(e, k)' \/ <<e, k>> \in reported'
    BY DEF KeptInv
  <2>1. CASE Rests
    <3>1. status \notin Over /\ Log' = Log /\ taken' = taken /\ reported' = reported
      BY <2>1 DEF Rests, Ends, GoesOn, Over
    <3>2. k = taken[e] => pc[e] \notin {"lock", "write", "data"}
      BY <2>1, <3>1 DEF Rests
    <3> QED
      BY <3>1, <3>2 DEF KeptInv, InLog
  <2>2. ASSUME NEW d \in Dirs, Reads(d) PROVE InLog(e, k)' \/ <<e, k>> \in reported'
    <3>1. status \notin Over /\ Log' = Log /\ reported' = reported
      BY <2>2 DEF Reads, disk, Log, Over
    <3>2. CASE e = d
      <4>1. k \in 1..taken[e] /\ pc[e] = "read"
        BY <2>2, <3>2 DEF Reads, TypeOK
      <4> QED
        BY <3>1, <4>1 DEF KeptInv, InLog
    <3>3. CASE e # d
      <4>1. taken'[e] = taken[e] /\ pc'[e] = pc[e]
        BY <2>2, <3>3 DEF Reads, TypeOK
      <4> QED
        BY <3>1, <4>1 DEF KeptInv, InLog
    <3> QED
      BY <3>2, <3>3
  <2>3. ASSUME NEW d \in Dirs, Frame(d), AppendsWhole(d) \/ AppendsTorn(d) \/ Completes(d) \/ Misses(d)
        PROVE  InLog(e, k)' \/ <<e, k>> \in reported'
    <3>1. status \notin Over /\ taken' = taken /\ reported \subseteq reported'
      BY <2>3 DEF Frame, Over, AppendsWhole, AppendsTorn, Completes, Misses
    <3>2. InLog(e, k) => InLog(e, k)'
      BY <2>3, WritesKeep DEF Keeps, InLog, IsRecord
    <3>3. CASE e = d /\ k = taken[e]
      <4>1. pc'[d] # "data"
        BY <3>1, <3>3
      <4>2. CASE Misses(d)
        BY <3>3, <4>2 DEF Misses
      <4>3. CASE AppendsWhole(d) \/ Completes(d)
        <5>1. Len(Log') \in 1..Len(Log') /\ Log'[Len(Log')] = Whole(d)
          BY <4>3, WritesKeep
        <5>2. IsRecord(Log'[Len(Log')], e, k)
          BY <3>3, <5>1 DEF IsRecord, Whole
        <5> QED
          BY <5>1, <5>2 DEF InLog
      <4> QED
        BY <2>3, <4>1, <4>2, <4>3 DEF AppendsTorn
    <3>4. CASE e = d /\ k # taken[e]
      BY <3>1, <3>2, <3>4 DEF KeptInv
    <3>5. CASE e # d
      <4>1. pc'[e] = pc[e]
        BY <2>3, <3>5 DEF Frame
      <4> QED
        BY <3>1, <3>2, <4>1 DEF KeptInv
    <3> QED
      BY <3>3, <3>4, <3>5
  <2> QED
    BY <2>1, <2>2, <2>3, LogSteps
<1> QED BY <1>1, <1>2, TypeCorrect, RecordFirstInvariant, PlaceInvariant, PTL DEF Spec

\* A chunk in the log is in the file or in the BufWriter.
LEMMA LogIsFileAndWriter ==
  ASSUME TypeOK, NEW d, NEW k, InLog(d, k)
  PROVE  OnDisk(d, k) \/ InWriter(d, k)
<1>1. PICK i \in 1..Len(Log) : IsRecord(Log[i], d, k)
  BY DEF InLog
<1>2. /\ Len(file) \in Nat /\ Len(buf) \in Nat /\ i \in 1..(Len(file) + Len(buf))
      /\ Log[i] = IF i <= Len(file) THEN file[i] ELSE buf[i - Len(file)]
  BY ConcatProperties, LenProperties, LogItems DEF Log, TypeOK
<1>3. CASE i <= Len(file)
  BY <1>1, <1>2, <1>3 DEF OnDisk
<1>4. CASE ~(i <= Len(file))
  <2>1. i - Len(file) \in 1..Len(buf)
    BY <1>2, <1>4
  <2> QED
    BY <1>1, <1>2, <1>4, <2>1 DEF InWriter
<1> QED BY <1>3, <1>4

\* A forwarded chunk is recorded, or still to be flushed, or its loss was logged,
\* whatever writes fail: the ignored result of flush() loses nothing by itself.
THEOREM NothingIsLostSilently == Spec => []MissingIsReported
<1>1. TypeOK /\ RecordFirst /\ SentInv /\ KeptInv => MissingIsReported
  <2> SUFFICES ASSUME TypeOK, RecordFirst, SentInv, KeptInv, status = "proxying",
                      NEW d \in Dirs, NEW k \in 1..delivered[d]
               PROVE  OnDisk(d, k) \/ InWriter(d, k) \/ <<d, k>> \in reported
    BY DEF MissingIsReported
  <2>1. taken[d] \in Nat /\ delivered[d] \in Nat /\ delivered[d] <= taken[d]
    BY DEF SentInv, TypeOK
  <2>2. k \in 1..taken[d]
    BY <2>1
  <2>3. k = taken[d] => pc[d] \notin {"lock", "write", "data"}
    BY <2>1 DEF RecordFirst, CountInv, InHand, Critical
  <2>4. InLog(d, k) \/ <<d, k>> \in reported
    BY <2>2, <2>3 DEF KeptInv, Over
  <2> QED
    BY <2>4, LogIsFileAndWriter
<1> QED BY <1>1, TypeCorrect, RecordFirstInvariant, SentInvariant, KeptInvariant, PTL

-----------------------------------------------------------------------------
(* A session in which no write fails.                                      *)

\* Nothing is reported, and only a task about to write its data leaves a torn
\* record, at the end of the log.
SoundInv ==
  faults = 0 =>
    /\ reported = {}
    /\ \A i \in 1..Len(Log) :
         Log[i].kind = "torn" => i = Len(Log) /\ \E d \in Dirs : pc[d] = "data"

THEOREM SoundInvariant == Spec => []SoundInv
<1>1. Init => SoundInv
  BY DEF Init, SoundInv, Log, Header
<1>2. TypeOK /\ TypeOK' /\ RecordFirst /\ PlaceInv /\ SoundInv /\ [Next]_vars => SoundInv'
  <2> SUFFICES ASSUME TypeOK, TypeOK', RecordFirst, PlaceInv, SoundInv, [Next]_vars, faults' = 0
               PROVE  /\ reported' = {}
                      /\ \A i \in 1..Len(Log') :
                           Log'[i].kind = "torn" => i = Len(Log') /\ \E d \in Dirs : pc'[d] = "data"
    BY DEF SoundInv
  <2>1. CASE Rests
    <3>1. faults = 0 /\ reported' = reported /\ (Log' = Log \/ Log' = file)
          /\ \A d \in Dirs : pc[d] = "data" => pc'[d] = "data"
      BY <2>1 DEF Rests, Ends, GoesOn, TypeOK
    <3> QED
      BY <3>1, LogItems DEF SoundInv
  <2>2. ASSUME NEW d \in Dirs, Reads(d)
        PROVE  /\ reported' = {}
               /\ \A i \in 1..Len(Log') :
                    Log'[i].kind = "torn" => i = Len(Log') /\ \E e \in Dirs : pc'[e] = "data"
    <3>1. faults = 0 /\ reported' = reported /\ Log' = Log
      BY <2>2 DEF Reads, disk, Log
    <3>2. \A e \in Dirs : pc[e] = "data" => pc'[e] = "data"
      BY <2>2 DEF Reads, TypeOK
    <3> QED
      BY <3>1, <3>2 DEF SoundInv
  <2>3. ASSUME NEW d \in Dirs, Frame(d), AppendsWhole(d) \/ AppendsTorn(d) \/ Completes(d) \/ Misses(d)
        PROVE  /\ reported' = {}
               /\ \A i \in 1..Len(Log') :
                    Log'[i].kind = "torn" => i = Len(Log') /\ \E e \in Dirs : pc'[e] = "data"
    <3>1. ~Misses(d)
      BY <2>3 DEF Misses, TypeOK
    <3>2. reported' = reported /\ faults = 0
      BY <2>3, <3>1 DEF AppendsWhole, AppendsTorn, Completes
    <3>3. /\ Whole(d) \in Item /\ Torn(d) \in Item
          /\ Whole(d).kind # "torn" /\ Torn(d).kind = "torn"
      BY ItemsAreTyped DEF Whole, Torn
    <3>4. ASSUME NEW x \in Item, Log' = Append(Log, x), pc[d] = "write",
                 x.kind = "torn" => pc'[d] = "data"
          PROVE  \A i \in 1..Len(Log') :
                   Log'[i].kind = "torn" => i = Len(Log') /\ \E e \in Dirs : pc'[e] = "data"
      <4>1. \A e \in Dirs : pc[e] # "data"
        BY <2>3, <3>4 DEF Frame, RecordFirst, MutexInv, Critical
      <4>2. \A i \in 1..Len(Log) : Log[i].kind # "torn"
        BY <3>2, <4>1 DEF SoundInv
      <4>3. /\ Len(Log) \in Nat /\ Len(Log') = Len(Log) + 1 /\ Log'[Len(Log) + 1] = x
            /\ \A i \in 1..Len(Log) : Log'[i] = Log[i]
        BY <3>4, LogItems, LongerLog
      <4> QED
        BY <3>4, <4>2, <4>3
    <3>5. ASSUME Completes(d)
          PROVE  \A i \in 1..Len(Log') : Log'[i].kind # "torn"
      <4>1. /\ Len(Log) \in Nat /\ Len(Log') = Len(Log) /\ Log'[Len(Log)] = Whole(d)
            /\ \A i \in 1..(Len(Log) - 1) : Log'[i] = Log[i]
        BY <3>3, <3>5, LogItems, ReplacedLog DEF Completes
      <4>2. \A i \in 1..(Len(Log) - 1) : Log[i].kind # "torn"
        BY <3>2, <4>1 DEF SoundInv
      <4> QED
        BY <3>3, <4>1, <4>2
    <3>6. CASE AppendsWhole(d)
      BY <3>2, <3>3, <3>4, <3>6 DEF AppendsWhole, SoundInv
    <3>7. CASE AppendsTorn(d)
      BY <3>2, <3>3, <3>4, <3>7 DEF AppendsTorn, SoundInv
    <3>8. CASE Completes(d)
      BY <3>2, <3>5, <3>8 DEF SoundInv
    <3> QED
      BY <2>3, <3>1, <3>6, <3>7, <3>8
  <2> QED
    BY <2>1, <2>2, <2>3, LogSteps
<1> QED BY <1>1, <1>2, TypeCorrect, RecordFirstInvariant, PlaceInvariant, PTL DEF Spec

\* A recording that was not cut by a kill is its log.
EndInv ==
  faults = 0 /\ status \in Over \ {"crashed"} =>
    /\ file = Log /\ Len(Log) > 0 /\ Log[1] = Header
    /\ \A i \in 1..Len(Log) : Log[i].kind # "torn"
    /\ status \in {"finished", "exited"} =>
         \A d \in Dirs : \A k \in 1..taken[d] : InLog(d, k)

THEOREM EndInvariant == Spec => []EndInv
<1>1. Init => EndInv
  BY DEF Init, EndInv, Over
<1>2. TypeOK /\ TypeOK' /\ RecordFirst /\ PlaceInv /\ HeadInv /\ KeptInv /\ SoundInv /\ EndInv
        /\ [Next]_vars => EndInv'
  <2> SUFFICES ASSUME TypeOK, TypeOK', RecordFirst, PlaceInv, HeadInv, KeptInv, SoundInv, EndInv,
                      [Next]_vars, faults' = 0, status' \in Over \ {"crashed"}
               PROVE  /\ file' = Log' /\ Len(Log') > 0 /\ Log'[1] = Header
                      /\ \A i \in 1..Len(Log') : Log'[i].kind # "torn"
                      /\ status' \in {"finished", "exited"} =>
                           \A d \in Dirs : \A k \in 1..taken'[d] : InLog(d, k)'
    BY DEF EndInv
  <2>1. Rests
    <3>1. \A d \in Dirs : ~Reads(d) /\ ~Frame(d)
      BY DEF Reads, Frame, Over
    <3> QED
      BY <3>1, LogSteps
  <2>2. faults = 0 /\ taken' = taken
    BY <2>1 DEF Rests, TypeOK
  <2>3. CASE Ends
    <3>1. /\ Log' = Log /\ file' = Log' /\ status \notin Over /\ status' # "exited"
          /\ \A d \in Dirs : pc[d] \notin Critical
          /\ status' = "finished" => \A d \in Dirs : pc[d] = "done"
      BY <2>3 DEF Ends, Over
    <3>2. Len(Log) > 0 /\ Log[1] = Header
      BY <3>1 DEF HeadInv
    <3>3. \A i \in 1..Len(Log) : Log[i].kind # "torn"
      BY <2>2, <3>1 DEF SoundInv, Critical
    <3>4. status' = "finished" => \A d \in Dirs : \A k \in 1..taken[d] : InLog(d, k)
      BY <2>2, <3>1 DEF SoundInv, KeptInv
    <3> QED
      BY <2>2, <3>1, <3>2, <3>3, <3>4 DEF InLog
  <2>4. CASE GoesOn
    <3>1. /\ status \in Over \ {"crashed"} /\ Log' = Log /\ file' = file
          /\ status' \in {"finished", "exited"} => status \in {"finished", "exited"}
      BY <2>4 DEF GoesOn, Over, disk
    <3> QED
      BY <2>2, <3>1 DEF EndInv, InLog
  <2> QED
    BY <2>1, <2>3, <2>4 DEF Rests
<1> QED
  BY <1>1, <1>2, TypeCorrect, RecordFirstInvariant, PlaceInvariant, HeadInvariant, KeptInvariant,
     SoundInvariant, PTL DEF Spec

\* Without a failed write, a recording that was not cut by a kill is readable to
\* its end, and has everything that was read if the session came to its end.
THEOREM EndedFilesAreWhole == Spec => []EndedFileIsWhole
<1>1. EndInv => EndedFileIsWhole
  BY DEF EndInv, EndedFileIsWhole, InLog, OnDisk, Over
<1> QED BY <1>1, EndInvariant, PTL

-----------------------------------------------------------------------------
(* Answers after what they answer.                                         *)

\* Up to place m the log has, not younger than t, all that the sender of the
\* n-th chunk of d had seen.
Caused(d, n, m, t) ==
  \A k \in 1..sent[d][n] :
    \E i \in 1..m : IsRecord(Log[i], Opposite(d), k) /\ Log[i].stamp <= t

\* The causes of a chunk that is in the log stand before it; those of a chunk
\* that a task is about to write are there already.
CausalInv ==
  faults = 0 =>
    /\ \A j \in Chunks(Log) : Caused(Log[j].dir, Log[j].no, j - 1, Log[j].stamp)
    /\ \A d \in Dirs :
         status = "proxying" /\ pc[d] \in {"lock", "write"}
           => Caused(d, taken[d], Len(Log), stamp[d])

\* The chunks the log knows of are still what they were sent as.
LEMMA SentStays ==
  ASSUME TypeOK, SentInv,
         \A d \in Dirs : sent'[d] = sent[d] \/ \E k \in Nat : sent'[d] = Append(sent[d], k)
  PROVE  \A d \in Dirs : \A n \in 1..taken[d] : sent'[d][n] = sent[d][n]
<1> SUFFICES ASSUME NEW d \in Dirs, NEW n \in 1..taken[d]
             PROVE  sent'[d][n] = sent[d][n]
  OBVIOUS
<1>1. sent[d] \in Seq(Nat) /\ Len(sent[d]) \in Nat /\ taken[d] \in Nat /\ taken[d] <= Len(sent[d])
  BY LenProperties DEF TypeOK, SentInv
<1>2. n \in 1..Len(sent[d])
  BY <1>1
<1> QED BY <1>1, <1>2, AppendProperties

\* A step of CausalInv that writes nothing.
LEMMA CausalRests ==
  ASSUME TypeOK, TypeOK', OrderInv, SentInv, RecordFirst, CausalInv, Rests
  PROVE  CausalInv'
<1> SUFFICES ASSUME faults' = 0 PROVE CausalInv'
  BY DEF CausalInv
<1>1. faults = 0
  BY DEF Rests, TypeOK
<1>2. \A d \in Dirs : \A n \in 1..taken[d] : sent'[d][n] = sent[d][n]
  BY SentStays DEF Rests
<1>3. /\ Log' = Log \/ (Log' = file /\ status' # "proxying")
      /\ Len(Log') \in Nat /\ Len(Log') <= Len(Log) /\ Len(Log) \in Nat
      /\ \A i \in 1..Len(Log') : Log'[i] = Log[i]
  BY LogItems DEF Rests, Ends, GoesOn, Over
<1>4. ASSUME NEW j \in Chunks(Log)'
      PROVE  Caused(Log[j].dir, Log[j].no, j - 1, Log[j].stamp)'
  <2>1. /\ j \in Chunks(Log) /\ Log'[j] = Log[j] /\ j - 1 \in Nat /\ j - 1 <= Len(Log)
        /\ \A i \in 1..(j - 1) : Log'[i] = Log[i]
    BY <1>3 DEF Chunks
  <2>2. Log[j].dir \in Dirs /\ Log[j].stamp \in Nat /\ Log[j].no \in 1..taken[Log[j].dir]
    BY <2>1, LogItems DEF Chunks, Item, OrderInv, NumberInv
  <2>3. Caused(Log[j].dir, Log[j].no, j - 1, Log[j].stamp)
    BY <1>1, <2>1 DEF CausalInv
  <2>4. sent'[Log[j].dir][Log[j].no] = sent[Log[j].dir][Log[j].no]
    BY <1>2, <2>2
  <2>5. \A k \in 1..sent[Log[j].dir][Log[j].no] :
          \E i \in 1..(j - 1) : /\ IsRecord(Log'[i], Opposite(Log[j].dir), k)
                               /\ Log'[i].stamp <= Log[j].stamp
    BY <2>1, <2>3 DEF Caused
  <2> QED
    BY <2>1, <2>4, <2>5 DEF Caused
<1>5. ASSUME NEW d \in Dirs, status' = "proxying", pc'[d] \in {"lock", "write"}
      PROVE  Caused(d, taken[d], Len(Log), stamp[d])'
  <2>1. /\ pc[d] \in {"lock", "write"} /\ taken' = taken /\ stamp' = stamp /\ Log' = Log
        /\ taken[d] \in 1..taken[d]
    <3>1. pc[d] \in {"lock", "write"} /\ taken' = taken /\ stamp' = stamp /\ Log' = Log
      BY <1>3, <1>5 DEF Rests
    <3>2. delivered[d] + 1 = taken[d] /\ delivered[d] \in Nat
      BY <3>1 DEF RecordFirst, CountInv, InHand, Critical, TypeOK
    <3> QED
      BY <3>1, <3>2
  <2>2. status = "proxying"
    <3>1. status # "connecting"
      BY <2>1 DEF RecordFirst, FreshInv
    <3>2. status \notin Over
      BY <1>5 DEF Rests, Ends, GoesOn, Over
    <3> QED
      BY <3>1, <3>2 DEF TypeOK, Statuses
  <2>3. Caused(d, taken[d], Len(Log), stamp[d])
    BY <1>1, <2>1, <2>2 DEF CausalInv
  <2> QED
    BY <1>2, <2>1, <2>3 DEF Caused
<1> QED BY <1>4, <1>5 DEF CausalInv

\* All the sender had seen was delivered, so it is on the disk, and was read
\* before the chunk is.
LEMMA CausalReads ==
  ASSUME TypeOK, TypeOK', RecordFirst, OrderInv, SentInv, CausalInv, NEW d \in Dirs, Reads(d)
  PROVE  CausalInv'
<1> SUFFICES ASSUME faults' = 0 PROVE CausalInv'
  BY DEF CausalInv
<1>1. /\ faults = 0 /\ Log' = Log /\ sent' = sent /\ status' = "proxying" /\ status = "proxying"
      /\ clock \in Nat /\ clock' \in Nat /\ clock <= clock'
  BY DEF Reads, disk, ends, Log, TypeOK
<1>2. /\ taken'[d] = taken[d] + 1 /\ stamp'[d] = clock' /\ pc'[d] = "lock"
      /\ \A e \in Dirs \ {d} : taken'[e] = taken[e] /\ stamp'[e] = stamp[e] /\ pc'[e] = pc[e]
  BY DEF Reads, TypeOK
<1>3. ASSUME NEW k \in 1..sent[d][taken[d] + 1]
      PROVE  \E i \in 1..Len(Log) : IsRecord(Log[i], Opposite(d), k) /\ Log[i].stamp <= clock'
  <2>1. /\ taken[d] \in Nat /\ sent[d] \in Seq(Nat) /\ Len(sent[d]) \in Nat
        /\ taken[d] < Len(sent[d]) /\ Opposite(d) \in Dirs
    BY LenProperties, TwoDirections DEF Reads, TypeOK
  <2>2. taken[d] + 1 \in 1..Len(sent[d])
    BY <2>1
  <2>3. /\ sent[d][taken[d] + 1] <= received[Opposite(d)] /\ sent[d][taken[d] + 1] \in Nat
        /\ received[Opposite(d)] <= delivered[Opposite(d)]
        /\ received[Opposite(d)] \in Nat /\ delivered[Opposite(d)] \in Nat
    BY <2>1, <2>2, ElementOfSeq DEF SentInv, TypeOK
  <2>4. k \in 1..delivered[Opposite(d)]
    BY <2>3
  <2>5. PICK i \in 1..Len(file) : IsRecord(file[i], Opposite(d), k)
    BY <1>1, <2>1, <2>4 DEF RecordFirst, DiskInv, OnDisk
  <2>6. i \in 1..Len(Log) /\ IsRecord(Log[i], Opposite(d), k)
    BY <2>5, LogItems
  <2>7. i \in Chunks(Log) /\ Log[i].dir = Opposite(d) /\ Log[i].stamp \in Nat
    BY <2>6, LogItems DEF IsRecord, Chunks, Item
  <2>8. Log[i].stamp <= stamp[Opposite(d)] /\ stamp[Opposite(d)] <= clock /\ stamp[Opposite(d)] \in Nat
    BY <2>1, <2>7 DEF OrderInv, NumberInv, StampInv, TypeOK
  <2> QED
    BY <1>1, <2>6, <2>7, <2>8
<1>4. \A j \in Chunks(Log)' : Caused(Log[j].dir, Log[j].no, j - 1, Log[j].stamp)'
  BY <1>1 DEF CausalInv, Caused, Chunks
<1>5. ASSUME NEW e \in Dirs, pc'[e] \in {"lock", "write"}
      PROVE  Caused(e, taken[e], Len(Log), stamp[e])'
  <2>1. CASE e = d
    BY <1>1, <1>2, <1>3, <2>1 DEF Caused
  <2>2. CASE e # d
    BY <1>1, <1>2, <1>5, <2>2 DEF CausalInv, Caused
  <2> QED
    BY <2>1, <2>2
<1> QED BY <1>4, <1>5 DEF CausalInv

\* A write keeps the records, and what it adds or completes has its causes there.
LEMMA CausalWrites ==
  ASSUME TypeOK, TypeOK', RecordFirst, SoundInv, CausalInv, NEW d \in Dirs, Frame(d),
         AppendsWhole(d) \/ AppendsTorn(d) \/ Completes(d) \/ Misses(d)
  PROVE  CausalInv'
<1> SUFFICES ASSUME faults' = 0 PROVE CausalInv'
  BY DEF CausalInv
<1>1. /\ ~Misses(d) /\ faults = 0 /\ status = "proxying" /\ pc[d] \in {"write", "data"}
      /\ pc'[d] \in {"data", "flush"} /\ \A e \in Dirs \ {d} : pc'[e] = pc[e]
      /\ sent' = sent /\ taken' = taken /\ stamp' = stamp
  BY DEF Frame, Misses, AppendsWhole, AppendsTorn, Completes, TypeOK, ends
<1>2. Keeps(Log, Log') /\ Len(Log) \in Nat
  BY WritesKeep, LogItems
<1>3. ASSUME NEW e, NEW n, NEW m, NEW m2, NEW t, Caused(e, n, m, t),
             \A i \in 1..m : i \in 1..m2 /\ i \in 1..Len(Log)
      PROVE  \A k \in 1..sent[e][n] :
               \E i \in 1..m2 : IsRecord(Log'[i], Opposite(e), k) /\ Log'[i].stamp <= t
  BY <1>2, <1>3 DEF Caused, Keeps, IsRecord
<1>4. ASSUME NEW e \in Dirs, pc'[e] \in {"lock", "write"}
      PROVE  Caused(e, taken[e], Len(Log), stamp[e])'
  <2>1. e # d /\ Caused(e, taken[e], Len(Log), stamp[e])
    BY <1>1, <1>4 DEF CausalInv
  <2>2. Len(Log') \in Nat /\ Len(Log) <= Len(Log')
    <3>1. Whole(d) \in Item /\ Torn(d) \in Item /\ Log \in Seq(Item)
      BY ItemsAreTyped, LogItems
    <3>2. CASE AppendsWhole(d) \/ AppendsTorn(d)
      BY <3>1, <3>2, LongerLog DEF AppendsWhole, AppendsTorn
    <3>3. CASE Completes(d)
      BY <3>1, <3>3, ReplacedLog DEF Completes
    <3> QED
      BY <1>1, <3>2, <3>3
  <2>3. \A i \in 1..Len(Log) : i \in 1..Len(Log') /\ i \in 1..Len(Log)
    BY <1>2, <2>2
  <2>4. \A k \in 1..sent[e][taken[e]] :
          \E i \in 1..Len(Log') : IsRecord(Log'[i], Opposite(e), k) /\ Log'[i].stamp <= stamp[e]
    BY <1>3, <2>1, <2>3
  <2> QED
    BY <1>1, <2>4 DEF Caused
<1>5. ASSUME NEW j \in Chunks(Log)'
      PROVE  Caused(Log[j].dir, Log[j].no, j - 1, Log[j].stamp)'
  <2> DEFINE n == Len(Log)
  <2>1. \/ j \in Chunks(Log) /\ Log'[j].dir = Log[j].dir /\ Log'[j].no = Log[j].no
                             /\ Log'[j].stamp = Log[j].stamp
        \/ /\ j = n + 1 /\ pc[d] = "write"
           /\ Log'[j].dir = d /\ Log'[j].no = taken[d] /\ Log'[j].stamp = stamp[d]
    <3>1. Whole(d) \in Item /\ Torn(d) \in Item /\ Log \in Seq(Item) /\ j \in 1..Len(Log')
      BY ItemsAreTyped, LogItems DEF Chunks
    <3>2. ASSUME NEW x \in {Whole(d), Torn(d)}, Log' = Append(Log, x), pc[d] = "write"
          PROVE  \/ j \in 1..n /\ Log'[j] = Log[j]
                 \/ j = n + 1 /\ Log'[j] = x
      BY <3>1, <3>2, LongerLog
    <3>3. ASSUME Completes(d)
          PROVE  \/ j \in 1..n /\ Log'[j] = Log[j]
                 \/ j = n /\ j \in 1..n /\ Log'[j] = Whole(d) /\ Log[j] = Torn(d)
      BY <3>1, <3>3, ReplacedLog DEF Completes
    <3>4. \A x \in {Whole(d), Torn(d)} :
            x.dir = d /\ x.no = taken[d] /\ x.stamp = stamp[d] /\ x.kind # "header"
      BY DEF Whole, Torn
    <3>5. CASE AppendsWhole(d) \/ AppendsTorn(d)
      BY <3>2, <3>4, <3>5 DEF AppendsWhole, AppendsTorn, Chunks
    <3>6. CASE Completes(d)
      BY <3>3, <3>4, <3>6 DEF Chunks
    <3> QED
      BY <1>1, <3>5, <3>6
  <2>2. CASE /\ j \in Chunks(Log) /\ Log'[j].dir = Log[j].dir /\ Log'[j].no = Log[j].no
             /\ Log'[j].stamp = Log[j].stamp
    <3>1. Caused(Log[j].dir, Log[j].no, j - 1, Log[j].stamp)
      BY <1>1, <2>2 DEF CausalInv
    <3>2. \A i \in 1..(j - 1) : i \in 1..(j - 1) /\ i \in 1..Len(Log)
      BY <1>2, <2>2 DEF Chunks
    <3>3. Caused(Log[j].dir, Log[j].no, j - 1, Log[j].stamp)' <=>
            \A k \in 1..sent[Log[j].dir][Log[j].no] :
              \E i \in 1..(j - 1) : IsRecord(Log'[i], Opposite(Log[j].dir), k) /\ Log'[i].stamp <= Log[j].stamp
      BY <1>1, <2>2 DEF Caused
    <3> QED
      BY <1>3, <3>1, <3>2, <3>3
  <2>3. CASE /\ j = n + 1 /\ pc[d] = "write"
             /\ Log'[j].dir = d /\ Log'[j].no = taken[d] /\ Log'[j].stamp = stamp[d]
    <3>1. Caused(d, taken[d], n, stamp[d])
      BY <1>1, <2>3 DEF CausalInv
    <3>2. j - 1 = n /\ \A i \in 1..n : i \in 1..Len(Log)
      BY <1>2, <2>3
    <3>3. \A k \in 1..sent[d][taken[d]] :
            \E i \in 1..n : IsRecord(Log'[i], Opposite(d), k) /\ Log'[i].stamp <= stamp[d]
      BY <1>2, <3>1, <3>2 DEF Caused, Keeps, IsRecord
    <3> QED
      BY <1>1, <2>3, <3>2, <3>3 DEF Caused
  <2> QED
    BY <2>1, <2>2, <2>3
<1> QED BY <1>4, <1>5 DEF CausalInv

THEOREM CausalInvariant == Spec => []CausalInv
<1>1. Init => CausalInv
  <2> SUFFICES ASSUME Init PROVE CausalInv
    OBVIOUS
  <2>1. Len(Log) = 1 /\ Log[1] = Header
    BY DEF Init, Log
  <2>2. Chunks(Log) = {}
    BY <2>1 DEF Chunks, Header
  <2> QED
    BY <2>2 DEF Init, CausalInv
<1>2. TypeOK /\ TypeOK' /\ RecordFirst /\ PlaceInv /\ OrderInv /\ SentInv /\ SoundInv /\ CausalInv
        /\ [Next]_vars => CausalInv'
  <2> SUFFICES ASSUME TypeOK, TypeOK', RecordFirst, PlaceInv, OrderInv, SentInv, SoundInv, CausalInv,
                      [Next]_vars
               PROVE  CausalInv'
    OBVIOUS
  <2> QED
    BY LogSteps, CausalRests, CausalReads, CausalWrites
<1> QED
  BY <1>1, <1>2, TypeCorrect, RecordFirstInvariant, PlaceInvariant, OrderInvariant, SentInvariant,
     SoundInvariant, PTL DEF Spec

\* Two tasks race for the mutex, and yet no answer is in the file before what it
\* answers, or has the smaller offset: for any number of chunks, at any speed of
\* the two ends, and wherever the recorder is stopped or killed.
THEOREM FileStaysCausal == Spec => []FileIsCausal
<1>1. TypeOK /\ CausalInv => FileIsCausal
  <2> SUFFICES ASSUME TypeOK, CausalInv, faults = 0, NEW j \in 1..Len(file), file[j].kind = "record",
                      NEW k \in 1..sent[file[j].dir][file[j].no]
               PROVE  \E i \in 1..(j - 1) : /\ IsRecord(file[i], Opposite(file[j].dir), k)
                                            /\ file[i].stamp <= file[j].stamp
    BY DEF FileIsCausal
  <2>1. /\ j \in Chunks(Log) /\ Log[j] = file[j] /\ Len(file) \in Nat
        /\ \A i \in 1..(j - 1) : i \in 1..Len(file) /\ Log[i] = file[i]
    BY LogItems DEF Chunks
  <2>2. PICK i \in 1..(j - 1) : IsRecord(Log[i], Opposite(Log[j].dir), k) /\ Log[i].stamp <= Log[j].stamp
    BY <2>1 DEF CausalInv, Caused
  <2> QED
    BY <2>1, <2>2
<1> QED BY <1>1, TypeCorrect, CausalInvariant, PTL

\* The duration that decode and stats compute does not wrap: without a failed
\* write the first record is the client's first chunk, and everything was read
\* after it.
THEOREM DurationStaysDefined == Spec => [](faults = 0 => DurationIsDefined)
<1>1. TypeOK /\ OrderInv /\ HeadInv /\ SentInv /\ CausalInv /\ FileIsCausal /\ FileKeepsOrder
        => (faults = 0 => DurationIsDefined)
  <2> SUFFICES ASSUME TypeOK, OrderInv, HeadInv, SentInv, CausalInv, FileKeepsOrder, faults = 0,
                      NEW j \in 3..Len(file), file[1].kind = "header", file[2].kind = "record"
               PROVE  file[2].stamp <= file[j].stamp
    BY DEF DurationIsDefined
  <2>1. /\ Len(file) \in Nat /\ j \in 1..Len(file) /\ 2 \in 1..Len(file) /\ 1 \in 1..Len(file)
        /\ Log[1] = file[1] /\ Log[2] = file[2] /\ Log[j] = file[j] /\ Len(file) <= Len(Log)
        /\ Len(Log) \in Nat /\ file[2] \in Item /\ file[j] \in Item
    BY LogItems
  <2>2. /\ 2 \in Chunks(Log) /\ j \in Chunks(Log)
    BY <2>1 DEF HeadInv, Chunks
  <2>3. \A i \in Chunks(Log) :
          /\ Log[i].dir \in Dirs /\ Log[i].no \in 1..taken[Log[i].dir]
          /\ Log[i].no \in 1..Len(sent[Log[i].dir]) /\ sent[Log[i].dir][Log[i].no] \in Nat
          /\ Log[i].dir = D2C => 1 \in 1..sent[Log[i].dir][Log[i].no]
    <3> SUFFICES ASSUME NEW i \in Chunks(Log)
                 PROVE  /\ Log[i].dir \in Dirs /\ Log[i].no \in 1..taken[Log[i].dir]
                        /\ Log[i].no \in 1..Len(sent[Log[i].dir])
                        /\ sent[Log[i].dir][Log[i].no] \in Nat
                        /\ Log[i].dir = D2C => 1 \in 1..sent[Log[i].dir][Log[i].no]
      OBVIOUS
    <3>1. Log[i].dir \in Dirs /\ Log[i].no \in 1..taken[Log[i].dir]
      BY LogItems DEF OrderInv, NumberInv, Chunks, Item
    <3>2. Log[i].no \in 1..Len(sent[Log[i].dir])
      BY <3>1, LenProperties DEF SentInv, TypeOK
    <3>3. sent[Log[i].dir][Log[i].no] \in Nat
      BY <3>1, <3>2, ElementOfSeq DEF TypeOK
    <3>4. Log[i].dir = D2C => sent[Log[i].dir][Log[i].no] > 0
      BY <3>1, <3>2 DEF SentInv
    <3> QED
      BY <3>1, <3>2, <3>3, <3>4
  <2>4. \A i \in Chunks(Log) : Log[i].dir = D2C =>
          \E h \in 1..(i - 1) : IsRecord(Log[h], C2D, 1) /\ Log[h].stamp <= Log[i].stamp
    BY <2>3 DEF CausalInv, Caused, Opposite, C2D, D2C
  <2>5. file[2].dir = C2D
    <3>1. CASE file[2].dir = D2C
      <4>1. PICK h \in 1..(2 - 1) : IsRecord(Log[h], C2D, 1)
        BY <2>1, <2>2, <2>4, <3>1
      <4> QED
        BY <2>1, <4>1 DEF IsRecord
    <3> QED
      BY <2>1, <2>2, <2>3, <3>1, TwoDirections
  <2>6. CASE file[j].dir = C2D
    BY <2>1, <2>5, <2>6 DEF FileKeepsOrder
  <2>7. CASE file[j].dir = D2C
    <3>1. PICK h \in 1..(j - 1) : IsRecord(Log[h], C2D, 1) /\ Log[h].stamp <= Log[j].stamp
      BY <2>1, <2>2, <2>4, <2>7
    <3>2. h \in 1..Len(file) /\ Log[h] = file[h] /\ file[h].dir = C2D /\ file[h].no = 1 /\ file[h].kind = "record"
      BY <2>1, <3>1, LogItems DEF IsRecord
    <3>3. h # 1
      BY <2>1, <3>2
    <3>4. h = 2
      <4>1. CASE h > 2
        BY <2>1, <2>2, <2>3, <2>5, <3>2, <4>1 DEF FileKeepsOrder
      <4> QED
        BY <3>3, <4>1
    <3> QED
      BY <2>1, <3>1, <3>4
  <2> QED
    BY <2>1, <2>2, <2>3, <2>6, <2>7, TwoDirections
<1> QED
  BY <1>1, TypeCorrect, OrderInvariant, HeadInvariant, SentInvariant, CausalInvariant, FileStaysCausal,
     FileStaysInOrder, PTL

-----------------------------------------------------------------------------
(* The session implements the tap.                                         *)

\* As long as no write fails, the only record in the BufWriter is the one that
\* the holder of the mutex is about to flush.
WriterInv ==
  faults = 0 =>
    \A i \in 1..Len(buf) :
      buf[i].kind = "record" => pc[buf[i].dir] = "flush" /\ buf[i].no = taken[buf[i].dir]

\* A step that leaves the BufWriter as it is, of a task that is not at the flush.
LEMMA WriterRests ==
  ASSUME TypeOK, WriterInv, buf' = buf, faults' >= faults, NEW d \in Dirs, pc[d] # "flush",
         \A e \in Dirs \ {d} : pc'[e] = pc[e] /\ taken'[e] = taken[e]
  PROVE  WriterInv'
<1>1. faults' = 0 => faults = 0
  BY DEF TypeOK
<1>2. \A i \in 1..Len(buf) : buf[i].dir \in Dirs
  <2>1. \A i \in 1..Len(buf) : buf[i] \in Item
    BY ElementOfSeq DEF TypeOK
  <2> QED
    BY <2>1 DEF Item
<1> QED BY <1>1, <1>2 DEF WriterInv

THEOREM WriterInvariant == Spec => []WriterInv
<1>1. Init => WriterInv
  BY DEF Init, WriterInv, Header
<1>2. TypeOK /\ RecordFirst /\ WriterInv /\ [Next]_vars => WriterInv'
  <2> SUFFICES ASSUME TypeOK, RecordFirst, WriterInv, [Next]_vars PROVE WriterInv'
    OBVIOUS
  <2>1. CASE buf' = <<>>
    BY <2>1 DEF WriterInv
  <2>2. CASE UNCHANGED <<buf, pc, taken, faults>>
    BY <2>2 DEF WriterInv
  <2>3. ConnectFails \/ Finish \/ Shutdown \/ Crash => buf' = <<>>
    BY DEF ConnectFails, Finish, Shutdown, Crash, DropWriter
  <2>4. \/ Connect \/ PropagateExit \/ HalfClose \/ UNCHANGED vars
        \/ \E d \in Dirs : Send(d) \/ Receive(d) \/ Leave(d) \/ LeaveAtEof(d)
        => UNCHANGED <<buf, pc, taken, faults>>
    BY DEF Connect, PropagateExit, HalfClose, Send, Receive, Leave, LeaveAtEof, Exit, vars, disk
  <2>5. ASSUME NEW d \in Dirs, Copy(d) PROVE WriterInv'
    <3>1. CASE ReadChunk(d) \/ ReadEof(d) \/ LockRecording(d) \/ Forward(d) \/ ForwardFails(d) \/ WriteData(d)
      <4>1. pc[d] # "flush" /\ buf' = buf /\ faults' >= faults
        BY <3>1 DEF ReadChunk, ReadEof, LockRecording, Forward, ForwardFails, WriteData, At, disk,
                    Fault, TypeOK
      <4>2. \A e \in Dirs \ {d} : pc'[e] = pc[e] /\ taken'[e] = taken[e]
        BY <3>1 DEF ReadChunk, ReadEof, LockRecording, Forward, ForwardFails, WriteData, Goto, TypeOK
      <4> QED
        BY <4>1, <4>2, WriterRests
    <3>2. CASE FlushRecording(d)
      <4>1. faults' = 0 => buf' = <<>>
        BY <3>2 DEF FlushRecording, FlushBuf, Fault, TypeOK
      <4> QED
        BY <4>1 DEF WriterInv
    <3>3. CASE WriteLarge(d)
      <4>1. faults' = 0 => buf' = <<>>
        BY <3>3 DEF WriteLarge, Fault, TypeOK
      <4> QED
        BY <4>1 DEF WriterInv
    <3>4. CASE WriteSmall(d)
      <4> SUFFICES ASSUME faults' = 0 PROVE WriterInv'
        BY DEF WriterInv
      <4>1. /\ pc[d] = "write" /\ pc'[d] = "flush" /\ taken' = taken
            /\ faults = 0 /\ buf' \in {Append(buf, Whole(d)), <<Whole(d)>>}
        BY <3>4 DEF WriteSmall, At, Goto, Fault, TypeOK
      <4>2. Whole(d) \in Item /\ Whole(d).dir = d /\ Whole(d).no = taken[d]
        BY ItemsAreTyped DEF Whole
      <4>3. \A e \in Dirs : pc[e] # "flush"
        BY <4>1 DEF RecordFirst, MutexInv, Critical
      <4>4. \A i \in 1..Len(buf) : buf[i].kind # "record" /\ buf[i].dir \in Dirs
        <5>1. \A i \in 1..Len(buf) : buf[i] \in Item
          BY ElementOfSeq DEF TypeOK
        <5>2. \A i \in 1..Len(buf) : buf[i].dir \in Dirs
          BY <5>1 DEF Item
        <5> QED
          BY <4>1, <4>3, <5>2 DEF WriterInv
      <4>5. CASE buf' = Append(buf, Whole(d))
        <5>1. buf \in Seq(Item)
          BY DEF TypeOK
        <5>2. /\ Len(buf) \in Nat /\ Len(buf') = Len(buf) + 1 /\ buf'[Len(buf) + 1] = Whole(d)
              /\ \A i \in 1..Len(buf) : buf'[i] = buf[i]
          BY <4>2, <4>5, <5>1, LongerLog
        <5> QED
          BY <4>1, <4>2, <4>4, <5>2 DEF WriterInv
      <4>6. CASE buf' = <<Whole(d)>>
        BY <4>1, <4>2, <4>6 DEF WriterInv
      <4> QED
        BY <4>1, <4>5, <4>6
    <3> QED
      BY <2>5, <3>1, <3>2, <3>3, <3>4 DEF Copy
  <2> QED
    BY <2>1, <2>2, <2>3, <2>4, <2>5 DEF Next
<1> QED BY <1>1, <1>2, TypeCorrect, RecordFirstInvariant, PTL DEF Spec

\* The tape is what is on the disk.
LEMMA TapedIsOnDisk ==
  /\ \A d, k : OnDisk(d, k) <=> <<d, k>> \in Taped
  /\ \A x \in Taped : \E d, k : x = <<d, k>> /\ OnDisk(d, k)
BY DEF Taped, OnDisk, IsRecord

\* Only chunks that were sent are on the tape.
TapedInv == \A x \in Taped : x[1] \in Dirs /\ x[2] \in 1..Len(sent[x[1]])

THEOREM TapedInvariant == Spec => []TapedInv
<1>1. TypeOK /\ OrderInv /\ SentInv => TapedInv
  <2> SUFFICES ASSUME TypeOK, OrderInv, SentInv, NEW d, NEW k, OnDisk(d, k)
               PROVE  d \in Dirs /\ k \in 1..Len(sent[d])
    BY TapedIsOnDisk DEF TapedInv
  <2>1. PICK i \in 1..Len(file) : IsRecord(file[i], d, k)
    BY DEF OnDisk
  <2>2. i \in Chunks(Log) /\ Log[i].dir = d /\ Log[i].no = k /\ d \in Dirs
    BY <2>1, LogItems DEF IsRecord, Chunks, Item
  <2>3. k \in 1..taken[d] /\ taken[d] <= Len(sent[d]) /\ taken[d] \in Nat /\ Len(sent[d]) \in Nat
    BY <2>2, LenProperties DEF OrderInv, NumberInv, SentInv, TypeOK
  <2> QED
    BY <2>2, <2>3
<1> QED BY <1>1, TypeCorrect, OrderInvariant, SentInvariant, PTL

\* No step takes a record out of the file.
LEMMA FileOnlyGrows ==
  ASSUME TypeOK, PlaceInv, [Next]_vars
  PROVE  Keeps(file, file') /\ faults' >= faults
<1>1. /\ file \in Seq(Item) /\ buf \in Seq(Item) /\ file \o buf \in Seq(Item)
      /\ Keeps(file, file \o buf)
      /\ \A d \in Dirs : Whole(d) \in Item /\ Torn(d) \in Item
  BY ConcatProperties, ConcatKeeps, ItemsAreTyped DEF TypeOK
<1>2. CASE ConnectFails \/ Finish \/ Shutdown
  BY <1>2, DropWriterKeeps DEF ConnectFails, Finish, Shutdown
<1>3. CASE UNCHANGED <<file, faults>>
  BY <1>3, KeepsItself DEF TypeOK
<1>4. \/ Connect \/ PropagateExit \/ Crash \/ HalfClose \/ UNCHANGED vars
      \/ \E d \in Dirs : Send(d) \/ Receive(d) \/ Leave(d) \/ LeaveAtEof(d)
      => UNCHANGED <<file, faults>>
  BY DEF Connect, PropagateExit, Crash, HalfClose, Send, Receive, Leave, LeaveAtEof, Exit, vars, disk
<1>5. ASSUME NEW d \in Dirs, Copy(d) PROVE Keeps(file, file') /\ faults' >= faults
  <2>1. CASE ReadChunk(d) \/ ReadEof(d) \/ LockRecording(d) \/ Forward(d) \/ ForwardFails(d)
    BY <1>3, <2>1 DEF ReadChunk, ReadEof, LockRecording, Forward, ForwardFails, disk
  <2>2. CASE WriteSmall(d) \/ WriteLarge(d) \/ WriteData(d) \/ FlushRecording(d)
    <3>1. faults' >= faults
      BY <2>2 DEF WriteSmall, WriteLarge, WriteData, FlushRecording, FlushBuf, Fault, TypeOK
    <3>2. \/ file' = file \/ file' = file \o buf \/ file' = Append(file \o buf, Torn(d))
          \/ pc[d] = "data" /\ status = "proxying" /\ file' = [file EXCEPT ![Len(file)] = Whole(d)]
      BY <2>2 DEF WriteSmall, WriteLarge, WriteData, FlushRecording, FlushBuf, At
    <3>3. Keeps(file \o buf, Append(file \o buf, Torn(d)))
      BY <1>1, AppendKeeps
    <3>4. Keeps(file, Append(file \o buf, Torn(d)))
      BY <1>1, <3>3, KeepsTransitive
    <3>5. CASE pc[d] = "data" /\ status = "proxying" /\ file' = [file EXCEPT ![Len(file)] = Whole(d)]
      <4>1. Len(file) > 0 /\ file[Len(file)].kind = "torn"
        <5>1. Len(file) > 0 /\ file[Len(file)] = Torn(d)
          BY <3>5 DEF PlaceInv
        <5> QED
          BY <5>1 DEF Torn
      <4>2. Whole(d) \in Item
        BY <1>1
      <4>3. Keeps(file, [file EXCEPT ![Len(file)] = Whole(d)])
        BY <1>1, <4>1, <4>2, OverwriteTornKeeps
      <4> QED
        BY <3>1, <3>5, <4>3
    <3> QED
      BY <1>1, <3>1, <3>2, <3>4, <3>5, KeepsItself
  <2> QED
    BY <1>5, <2>1, <2>2 DEF Copy
<1> QED
  BY <1>2, <1>3, <1>4, <1>5 DEF Next

\* A write is a chunk on the tape, or nothing, or the tape falters.
LEMMA TapeWrites ==
  ASSUME TypeOK, TypeOK', SentInv, TapedInv', UNCHANGED <<sent, delivered>>,
         Keeps(file, file'), faults' >= faults,
         NEW d \in Dirs,
         faults' = 0 =>
           /\ \A e, k : OnDisk(e, k)' => OnDisk(e, k) \/ (e = d /\ k = taken[d])
           /\ \A k \in 1..(taken[d] - 1) : OnDisk(d, k)
  PROVE  [Tap!Next]_(Tap!vars)
<1>1. Taped \subseteq Taped' /\ \A x \in Taped' : \E e, k : x = <<e, k>> /\ OnDisk(e, k)'
  <2>1. \A e, k : OnDisk(e, k) => OnDisk(e, k)'
    BY KeepsOnDisk
  <2>2. /\ \A e, k : OnDisk(e, k)' <=> <<e, k>> \in Taped'
        /\ \A x \in Taped' : \E e, k : x = <<e, k>> /\ OnDisk(e, k)'
    BY DEF Taped, OnDisk, IsRecord
  <2> QED
    BY <2>1, <2>2, TapedIsOnDisk
<1>2. CASE faults' > 0
  <2>1. \A x \in Taped' : x[1] \in Dirs /\ x[2] \in 1..Len(sent[x[1]])
    BY DEF TapedInv
  <2>2. Tap!Falter
    BY <1>1, <1>2, <2>1 DEF Tap!Falter
  <2> QED
    BY <2>2 DEF Tap!Next
<1>3. CASE faults' = 0
  <2>1. faults = 0 /\ (faults' > 0) = (faults > 0)
    BY <1>3 DEF TypeOK
  <2>2. Taped' \subseteq Taped \cup {<<d, taken[d]>>}
    BY <1>1, <1>3, TapedIsOnDisk
  <2>3. CASE Taped' = Taped
    BY <2>1, <2>3 DEF Tap!vars
  <2>4. CASE Taped' # Taped
    <3>1. Taped' = Taped \cup {<<d, taken[d]>>} /\ <<d, taken[d]>> \in Taped'
      BY <1>1, <2>2, <2>4
    <3>2. taken[d] \in 1..Len(sent[d])
      BY <3>1 DEF TapedInv
    <3>3. \A j \in 1..(taken[d] - 1) : <<d, j>> \in Taped
      BY <1>3, TapedIsOnDisk
    <3>4. Tap!Record(d)
      BY <2>1, <3>1, <3>2, <3>3 DEF Tap!Record
    <3> QED
      BY <3>4 DEF Tap!Next
  <2> QED
    BY <2>3, <2>4
<1> QED
  BY <1>2, <1>3 DEF TypeOK

\* What the tasks have on the disk when nothing failed: all but the chunk in hand.
LEMMA EarlierAreOnDisk ==
  ASSUME TypeOK, KeptInv, SoundInv, WriterInv, faults = 0, status \notin Over, NEW d \in Dirs
  PROVE  /\ \A k \in 1..(taken[d] - 1) : OnDisk(d, k)
         /\ pc[d] # "flush" => \A k : ~InWriter(d, k)
<1>1. \A k : InWriter(d, k) => k = taken[d] /\ pc[d] = "flush"
  BY DEF InWriter, IsRecord, WriterInv
<1>2. ASSUME NEW k \in 1..(taken[d] - 1) PROVE OnDisk(d, k)
  <2>1. k \in 1..taken[d] /\ k # taken[d]
    BY DEF TypeOK
  <2>2. InLog(d, k)
    BY <2>1 DEF KeptInv, SoundInv
  <2> QED
    BY <1>1, <2>1, <2>2, LogIsFileAndWriter
<1> QED BY <1>1, <1>2

\* What a flush adds to the file was in the BufWriter.
LEMMA FlushedWasInWriter ==
  ASSUME TypeOK, NEW t \in Seq(Item), file' = (file \o buf) \o t,
         \A i \in 1..Len(t) : t[i].kind # "record"
  PROVE  \A d, k : OnDisk(d, k)' => OnDisk(d, k) \/ InWriter(d, k)
<1> SUFFICES ASSUME NEW d, NEW k, NEW i \in 1..Len(file'), IsRecord(file'[i], d, k)
             PROVE  OnDisk(d, k) \/ InWriter(d, k)
  BY DEF OnDisk
<1>1. /\ Log \in Seq(Item) /\ Len(Log) \in Nat /\ Len(t) \in Nat /\ file' = Log \o t
      /\ i \in 1..(Len(Log) + Len(t))
      /\ file'[i] = IF i <= Len(Log) THEN Log[i] ELSE t[i - Len(Log)]
  BY LogItems, ConcatProperties, LenProperties DEF Log
<1>2. i <= Len(Log)
  <2>1. CASE i > Len(Log)
    <3>1. i - Len(Log) \in 1..Len(t)
      BY <1>1, <2>1
    <3> QED
      BY <1>1, <2>1, <3>1 DEF IsRecord
  <2> QED
    BY <1>1, <2>1
<1>3. i \in 1..Len(Log) /\ IsRecord(Log[i], d, k)
  BY <1>1, <1>2
<1>4. InLog(d, k)
  BY <1>3 DEF InLog
<1> QED BY <1>4, LogIsFileAndWriter

\* Every step is one of the tap, or none.
LEMMA TapStep ==
  ASSUME TypeOK, TypeOK', RecordFirst, PlaceInv, SentInv, KeptInv, SoundInv, WriterInv, TapedInv',
         [Next]_vars
  PROVE  [Tap!Next]_(Tap!vars)
<1>0. C2D \in Dirs /\ Keeps(file, file') /\ faults' >= faults
      /\ (faults' = 0 => faults = 0) /\ (faults' # faults => faults' > 0)
  <2>1. Keeps(file, file') /\ faults' >= faults
    BY FileOnlyGrows
  <2>2. faults \in Nat /\ faults' \in Nat
    BY DEF TypeOK
  <2> QED
    BY <2>1, <2>2, TwoDirections
<1>1. /\ file \in Seq(Item) /\ buf \in Seq(Item) /\ file \o buf \in Seq(Item) /\ <<>> \in Seq(Item)
      /\ \A s \in Seq(Item) : s \o <<>> = s
  BY ConcatProperties, ConcatEmptySeq DEF TypeOK
<1>2. CASE UNCHANGED <<sent, delivered, file, faults>>
  BY <1>2 DEF Tap!vars, Taped
<1>3. ASSUME file' = file, UNCHANGED <<sent, delivered>> PROVE [Tap!Next]_(Tap!vars)
  <2> DEFINE d == C2D
  <2>1. CASE faults' = faults
    BY <1>2, <1>3, <2>1
  <2>2. CASE faults' # faults
    <3>1. faults' > 0 /\ ~(faults' = 0)
      BY <1>0, <2>2
    <3> QED
      BY <1>0, <1>3, <3>1, TapeWrites
  <2> QED
    BY <2>1, <2>2
<1>4. ASSUME file' = file \o buf, UNCHANGED <<sent, delivered>>, status \notin Over, NEW d \in Dirs,
             \A e \in Dirs \ {d} : pc[e] # "flush"
      PROVE  [Tap!Next]_(Tap!vars)
  <2>1. ASSUME faults' = 0
        PROVE  /\ \A e, k : OnDisk(e, k)' => OnDisk(e, k) \/ (e = d /\ k = taken[d])
               /\ \A k \in 1..(taken[d] - 1) : OnDisk(d, k)
    <3>1. faults = 0
      BY <1>0, <2>1
    <3>2. file' = (file \o buf) \o <<>> /\ \A i \in 1..Len(<<>>) : <<>>[i].kind # "record"
      BY <1>1, <1>4
    <3>3. \A e, k : OnDisk(e, k)' => OnDisk(e, k) \/ InWriter(e, k)
      BY <1>1, <3>2, FlushedWasInWriter
    <3>4. \A e, k : InWriter(e, k) => e = d /\ k = taken[d]
      <4>1. ASSUME NEW e, NEW k, InWriter(e, k) PROVE e \in Dirs /\ pc[e] = "flush" /\ k = taken[e]
        <5>1. PICK i \in 1..Len(buf) : IsRecord(buf[i], e, k)
          BY <4>1 DEF InWriter
        <5>2. buf[i] \in Item
          BY <1>1, ElementOfSeq
        <5> QED
          BY <3>1, <5>1, <5>2 DEF WriterInv, IsRecord, Item
      <4> QED
        BY <1>4, <4>1
    <3> QED
      BY <1>4, <3>1, <3>3, <3>4, EarlierAreOnDisk
  <2> QED
    BY <1>0, <1>4, <2>1, TapeWrites
<1>5. CASE ConnectFails \/ Finish \/ Shutdown
  <2>1. /\ UNCHANGED <<sent, delivered>> /\ status \notin Over
        /\ file' = file \/ file' = file \o buf
        /\ \A d \in Dirs : pc[d] \notin Critical
    <3>1. CASE ConnectFails
      BY <3>1 DEF ConnectFails, DropWriter, ends, Over, RecordFirst, FreshInv, Critical
    <3>2. CASE Finish
      BY <3>2 DEF Finish, DropWriter, ends, Over, Critical
    <3>3. CASE Shutdown
      BY <3>3 DEF Shutdown, DropWriter, ends, Over
    <3> QED
      BY <1>5, <3>1, <3>2, <3>3
  <2>2. \A d \in Dirs : pc[d] # "flush"
    BY <2>1 DEF Critical
  <2> QED
    BY <1>0, <1>3, <1>4, <2>1, <2>2
<1>6. ASSUME \/ Connect \/ PropagateExit \/ Crash \/ HalfClose \/ UNCHANGED vars
             \/ \E d \in Dirs : Receive(d) \/ Leave(d) \/ LeaveAtEof(d)
      PROVE  UNCHANGED <<sent, delivered, file, faults>>
  BY <1>6 DEF Connect, PropagateExit, Crash, HalfClose, Receive, Leave, LeaveAtEof, Exit, vars,
              ends, disk
<1>7. ASSUME NEW d \in Dirs, Send(d) PROVE [Tap!Next]_(Tap!vars)
  <2>1. Opposite(d) \in Dirs \ {d} /\ Opposite(d) \in Dirs
    BY DEF Opposite, Dirs, C2D, D2C
  <2>2. received[Opposite(d)] \in 0..delivered[Opposite(d)]
    BY <2>1 DEF SentInv, TypeOK
  <2>3. /\ sent' = [sent EXCEPT ![d] = Append(@, received[Opposite(d)])]
        /\ delivered' = delivered /\ file' = file /\ faults' = faults
    BY <1>7 DEF Send, disk
  <2>4. Tap!Send(d)
    BY <2>1, <2>2, <2>3 DEF Tap!Send, Taped
  <2> QED
    BY <2>4 DEF Tap!Next
<1>8. ASSUME NEW d \in Dirs, Forward(d) PROVE [Tap!Next]_(Tap!vars)
  <2>1. /\ delivered' = [delivered EXCEPT ![d] = @ + 1] /\ pc[d] = "forward"
        /\ sent' = sent /\ file' = file /\ faults' = faults
    BY <1>8 DEF Forward, At, ends, disk
  <2>2. delivered[d] + 1 = taken[d]
    BY <2>1 DEF RecordFirst, CountInv, InHand
  <2>3. delivered[d] < Len(sent[d])
    BY <2>2, LenProperties DEF SentInv, TypeOK
  <2>4. faults > 0 \/ <<d, delivered[d] + 1>> \in Taped
    BY <2>1, <2>2, TapedIsOnDisk DEF RecordFirst, DiskInv, TypeOK
  <2>5. Tap!Deliver(d)
    BY <2>1, <2>3, <2>4 DEF Tap!Deliver, Taped
  <2> QED
    BY <2>5 DEF Tap!Next
<1>9. ASSUME NEW d \in Dirs, WriteSmall(d) \/ WriteLarge(d) \/ WriteData(d) \/ FlushRecording(d)
      PROVE  [Tap!Next]_(Tap!vars)
  <2>1. UNCHANGED <<sent, delivered>> /\ status \notin Over /\ pc[d] \in Critical
    BY <1>9 DEF WriteSmall, WriteLarge, WriteData, FlushRecording, At, Over, ends, Critical
  <2>2. \A e \in Dirs \ {d} : pc[e] # "flush"
    BY <2>1 DEF RecordFirst, MutexInv, Critical
  <2>3. \/ file' = file \/ file' = file \o buf
        \/ pc[d] = "write" /\ file' = Append(file \o buf, Torn(d))
        \/ pc[d] = "data" /\ file' = [file EXCEPT ![Len(file)] = Whole(d)]
    BY <1>9 DEF WriteSmall, WriteLarge, WriteData, FlushRecording, FlushBuf, At
  <2>4. CASE pc[d] = "write" /\ file' = Append(file \o buf, Torn(d))
    <3>1. Torn(d) \in Item /\ Torn(d).kind = "torn"
      BY ItemsAreTyped DEF Torn
    <3>2. file' = (file \o buf) \o <<Torn(d)>> /\ <<Torn(d)>> \in Seq(Item)
      BY <1>1, <2>4, <3>1, AppendIsConcat
    <3>5. \A i \in 1..Len(<<Torn(d)>>) : <<Torn(d)>>[i].kind # "record"
      BY <3>1
    <3>3. \A e, k : OnDisk(e, k)' => OnDisk(e, k) \/ InWriter(e, k)
      BY <3>2, <3>5, FlushedWasInWriter
    <3>4. ASSUME faults' = 0
          PROVE  /\ \A e, k : OnDisk(e, k)' => OnDisk(e, k)
                 /\ \A k \in 1..(taken[d] - 1) : OnDisk(d, k)
      <4>1. faults = 0 /\ \A e \in Dirs : pc[e] # "flush"
        BY <1>0, <2>2, <2>4, <3>4
      <4>2. \A e, k : ~InWriter(e, k)
        <5>1. \A i \in 1..Len(buf) : buf[i].dir \in Dirs
          <6>1. \A i \in 1..Len(buf) : buf[i] \in Item
            BY <1>1, ElementOfSeq
          <6> QED
            BY <6>1 DEF Item
        <5> QED
          BY <4>1, <5>1 DEF WriterInv, InWriter, IsRecord
      <4> QED
        BY <2>1, <3>3, <4>1, <4>2, EarlierAreOnDisk
    <3> QED
      BY <1>0, <2>1, <3>4, TapeWrites
  <2>5. CASE pc[d] = "data" /\ file' = [file EXCEPT ![Len(file)] = Whole(d)]
    <3>1. Len(file) > 0 /\ Whole(d) \in Item /\ status = "proxying"
      BY <1>9, <2>5, ItemsAreTyped
      DEF PlaceInv, WriteSmall, WriteLarge, WriteData, FlushRecording, At
    <3>2. /\ Len(file) \in Nat /\ Len(file') = Len(file) /\ file'[Len(file)] = Whole(d)
          /\ \A i \in 1..(Len(file) - 1) : file'[i] = file[i]
      BY <1>1, <2>5, <3>1, ReplacedLog
    <3>3. \A e, k : OnDisk(e, k)' => OnDisk(e, k) \/ (e = d /\ k = taken[d])
      <4>1. Whole(d).dir = d /\ Whole(d).no = taken[d]
        BY DEF Whole
      <4> QED
        BY <3>2, <4>1 DEF OnDisk, IsRecord
    <3>4. faults' = 0 => \A k \in 1..(taken[d] - 1) : OnDisk(d, k)
      BY <1>0, <2>1, EarlierAreOnDisk
    <3> QED
      BY <1>0, <2>1, <3>3, <3>4, TapeWrites
  <2> QED
    BY <1>3, <1>4, <2>1, <2>2, <2>3, <2>4, <2>5
<1>10. ASSUME NEW d \in Dirs, ReadChunk(d) \/ ReadEof(d) \/ LockRecording(d) \/ ForwardFails(d)
       PROVE  UNCHANGED <<sent, delivered, file, faults>>
  BY <1>10 DEF ReadChunk, ReadEof, LockRecording, ForwardFails, ends, disk
<1> QED
  BY <1>2, <1>5, <1>6, <1>7, <1>8, <1>9, <1>10 DEF Next, Copy

\* The recorder, with its tasks, its mutex, its buffered file and every stop and
\* failure, is a tap: it behaves like the abstract recorder of DuplexTap.
THEOREM SessionIsATap == Spec => TapSpec
<1>1. Init => Tap!Init
  BY DEF Init, Tap!Init, Taped
<1>2. /\ TypeOK /\ TypeOK' /\ RecordFirst /\ PlaceInv /\ SentInv /\ KeptInv /\ SoundInv /\ WriterInv
      /\ TapedInv' /\ [Next]_vars
      => [Tap!Next]_(Tap!vars)
  BY TapStep
<1> QED
  BY <1>1, <1>2, TypeCorrect, RecordFirstInvariant, PlaceInvariant, SentInvariant, KeptInvariant,
     SoundInvariant, WriterInvariant, TapedInvariant, PTL DEF Spec, TapSpec, Tap!Spec
=============================================================================

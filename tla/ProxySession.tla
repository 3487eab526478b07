---------------------------- MODULE ProxySession ----------------------------
(***************************************************************************)
(* One recorded session of nix-wire-record: the two copy tasks of          *)
(* proxy_and_record, the recording file they share behind a mutex and a    *)
(* BufWriter, and the two ends of the connection they stand between        *)
(* (record.rs, nix-wire-recording/src/lib.rs).                             *)
(*                                                                         *)
(* Data is abstract: what one read() returns is a chunk, known by its      *)
(* direction and number; a chunk in LargeChunks is too big for the         *)
(* BufWriter and is written through it.  A file is a sequence of items:    *)
(* the header, whole records, and torn records (the 13 bytes in front of   *)
(* the data without the data).  A write to the file succeeds or fails      *)
(* item by item; at most MaxFaults of them fail (a full disk).             *)
(***************************************************************************)
EXTENDS Naturals, Sequences

CONSTANTS
  Modes,        \* modes the recorder may be started in: "socket", "command"
  MaxChunks,    \* bound: chunks each end sends
  LargeChunks,  \* the <<direction, number>> of chunks of 8 KiB or more
  PipeCap,      \* chunks the kernel holds between the recorder and a reader
  BufItems,     \* items the BufWriter holds before it writes by itself
  MaxFaults,    \* bound: write() calls on the file that fail
  MaxClock      \* bound: the last value of the wall clock

\* record.rs proxies two directions; RecordingWriter tags each record with one.
C2D  == "client_to_daemon"
D2C  == "daemon_to_client"
Dirs == {C2D, D2C}
Opposite(d) == IF d = C2D THEN D2C ELSE C2D

ASSUME ConstantsAssumption ==
  /\ Modes \subseteq {"socket", "command"}
  /\ MaxChunks \in Nat
  /\ LargeChunks \subseteq Dirs \X Nat
  /\ PipeCap \in Nat \ {0}
  /\ BufItems \in Nat \ {0}
  /\ MaxFaults \in Nat
  /\ MaxClock \in Nat

VARIABLES
  mode,       \* socket or command mode
  status,     \* of the session: connecting, proxying, or how it ended
  sent,       \* sent[d]: what the source of d has written, <<cause, ...>>
  wopen,      \* wopen[d]: the source of d may still write
  ropen,      \* ropen[d]: the sink of d has not closed its end
  received,   \* received[d]: chunks the sink of d has read
  pc,         \* pc[d]: where copy_and_record stands for direction d
  taken,      \* taken[d]: chunks read from the source of d
  delivered,  \* delivered[d]: chunks written to the sink of d
  stamp,      \* stamp[d]: offset_ns of the chunk in hand
  holder,     \* who holds the recording mutex: {d}, or {} when free
  buf,        \* items in the BufWriter
  file,       \* items in the recording file
  reported,   \* <<d, k>> whose write_record returned an error, which is logged
  faults,     \* write() calls on the file that failed so far
  clock       \* SystemTime::now() - epoch_ns, assumed not to be set back

ends == <<sent, wopen, ropen, received>>
disk == <<buf, file, reported, faults>>
vars == <<mode, status, ends, pc, taken, delivered, stamp, holder, disk, clock>>

Steps    == {"read", "lock", "write", "data", "flush", "forward", "done"}
Critical == {"write", "data", "flush"}
Over     == {"finished", "exited", "failed", "stopped", "crashed"}
Statuses == {"connecting", "proxying"} \cup Over

Header       == [kind |-> "header", dir |-> C2D, no |-> 0, stamp |-> 0]
Whole(d)     == [kind |-> "record", dir |-> d, no |-> taken[d], stamp |-> stamp[d]]
Torn(d)      == [kind |-> "torn", dir |-> d, no |-> taken[d], stamp |-> stamp[d]]
Item         == [kind : {"header", "record", "torn"}, dir : Dirs, no : Nat, stamp : Nat]
IsLarge(d)   == <<d, taken[d]>> \in LargeChunks
IsRecord(x, d, k) == x.kind = "record" /\ x.dir = d /\ x.no = k

TypeOK ==
  /\ mode \in Modes
  /\ status \in Statuses
  /\ sent \in [Dirs -> Seq(Nat)]
  /\ wopen \in [Dirs -> BOOLEAN]
  /\ ropen \in [Dirs -> BOOLEAN]
  /\ received \in [Dirs -> Nat]
  /\ pc \in [Dirs -> Steps]
  /\ taken \in [Dirs -> Nat]
  /\ delivered \in [Dirs -> Nat]
  /\ stamp \in [Dirs -> Nat]
  /\ holder \in SUBSET Dirs
  /\ buf \in Seq(Item)
  /\ file \in Seq(Item)
  /\ reported \in SUBSET (Dirs \X Nat)
  /\ faults \in Nat
  /\ clock \in Nat

Init ==
  /\ mode \in Modes
  /\ status = "connecting"
  /\ sent = [d \in Dirs |-> <<>>]
  /\ wopen = [d \in Dirs |-> TRUE]
  /\ ropen = [d \in Dirs |-> TRUE]
  /\ received = [d \in Dirs |-> 0]
  /\ pc = [d \in Dirs |-> "read"]
  /\ taken = [d \in Dirs |-> 0]
  /\ delivered = [d \in Dirs |-> 0]
  /\ stamp = [d \in Dirs |-> 0]
  /\ holder = {}
  /\ buf = <<Header>>
  /\ file = <<>>
  /\ reported = {}
  /\ faults = 0
  /\ clock = 0

-----------------------------------------------------------------------------
(* std::io::BufWriter<File>, from how RecordingWriter uses it.             *)

Fault == faults < MaxFaults /\ faults' = faults + 1

\* Wrong: the error discards what was buffered.
FlushBufDiscarding ==
  \/ file' = file \o buf /\ buf' = <<>> /\ UNCHANGED faults
  \/ Fault /\ buf' = <<>> /\ UNCHANGED file

\* Wrong: what was written before the error is written again by the next flush.
FlushBufRepeating ==
  \/ file' = file \o buf /\ buf' = <<>> /\ UNCHANGED faults
  \/ Fault /\ file' = file \o buf /\ UNCHANGED buf

\* flush(): everything is written, or the error leaves the buffer as it was.
FlushBuf ==
  \/ file' = file \o buf /\ buf' = <<>> /\ UNCHANGED faults
  \/ Fault /\ UNCHANGED <<buf, file>>

\* Drop flushes too, and what it fails to write is gone.
DropWriter ==
  /\ buf' = <<>>
  /\ UNCHANGED reported
  /\ \/ file' = file \o buf /\ UNCHANGED faults
     \/ Fault /\ UNCHANGED file

-----------------------------------------------------------------------------
(* The session: handle_connection, the body of run_command_mode.           *)

\* The client's connection was accepted and the daemon's is made (or the
\* child is spawned): both copy tasks start.
Connect ==
  /\ status = "connecting"
  /\ status' = "proxying"
  /\ UNCHANGED <<mode, ends, pc, taken, delivered, stamp, holder, disk, clock>>

\* Upstream refuses: the handler returns, dropping the client's stream and
\* the writer, whose file keeps the header alone.
ConnectFails ==
  /\ status = "connecting"
  /\ status' = "failed"
  /\ DropWriter
  /\ UNCHANGED <<mode, ends, pc, taken, delivered, stamp, holder, clock>>

\* join!(c2d, d2c) returned: the last Arc of the writer is dropped.
Finish ==
  /\ status = "proxying"
  /\ \A d \in Dirs : pc[d] = "done"
  /\ status' = "finished"
  /\ DropWriter
  /\ UNCHANGED <<mode, ends, pc, taken, delivered, stamp, holder, clock>>

\* Command mode only: child.wait() returns once the child is gone.
PropagateExit ==
  /\ mode = "command"
  /\ status = "finished"
  /\ ~wopen[D2C] /\ ~ropen[C2D]
  /\ status' = "exited"
  /\ UNCHANGED <<mode, ends, pc, taken, delivered, stamp, holder, disk, clock>>

\* Ctrl-C or SIGTERM in socket mode: run_socket_mode returns and the runtime
\* drops the tasks, which it can only do at an await, never under the mutex.
Shutdown ==
  /\ mode = "socket"
  /\ status \in {"connecting", "proxying"}
  /\ \A d \in Dirs : pc[d] \notin Critical
  /\ status' = "stopped"
  /\ DropWriter
  /\ UNCHANGED <<mode, ends, pc, taken, delivered, stamp, holder, clock>>

\* The recorder is killed at any point; the BufWriter's content is lost.
Crash ==
  /\ status \in {"connecting", "proxying"}
  /\ status' = "crashed"
  /\ buf' = <<>>
  /\ UNCHANGED <<mode, ends, pc, taken, delivered, stamp, holder, file,
                 reported, faults, clock>>

-----------------------------------------------------------------------------
(* copy_and_record, once per direction.                                    *)

At(d, s) == status = "proxying" /\ pc[d] = s
Goto(d, s) == pc' = [pc EXCEPT ![d] = s]

\* Wrong: the offset is counted from a moment after the chunk came.
ReadChunkLateEpoch(d) ==
  /\ At(d, "read")
  /\ taken[d] < Len(sent[d])
  /\ taken' = [taken EXCEPT ![d] = @ + 1]
  /\ clock' \in clock..MaxClock
  /\ stamp' = [stamp EXCEPT ![d] = clock' - 1]
  /\ Goto(d, "lock")
  /\ UNCHANGED <<mode, status, ends, delivered, holder, disk>>

\* Wrong: the wall clock may be set back between two chunks.
ReadChunkClockSetBack(d) ==
  /\ At(d, "read")
  /\ taken[d] < Len(sent[d])
  /\ taken' = [taken EXCEPT ![d] = @ + 1]
  /\ clock' \in 0..MaxClock
  /\ stamp' = [stamp EXCEPT ![d] = clock']
  /\ Goto(d, "lock")
  /\ UNCHANGED <<mode, status, ends, delivered, holder, disk>>

\* Wrong: the chunk is forwarded first and recorded afterwards.
ReadChunkForwardFirst(d) ==
  /\ At(d, "read")
  /\ taken[d] < Len(sent[d])
  /\ taken' = [taken EXCEPT ![d] = @ + 1]
  /\ clock' \in clock..MaxClock
  /\ stamp' = [stamp EXCEPT ![d] = clock']
  /\ delivered' = [delivered EXCEPT ![d] = @ + 1]
  /\ Goto(d, "lock")
  /\ UNCHANGED <<mode, status, ends, holder, disk>>

\* read() returned n > 0 bytes; the time is taken before the lock is asked for.
ReadChunk(d) ==
  /\ At(d, "read")
  /\ taken[d] < Len(sent[d])
  /\ taken' = [taken EXCEPT ![d] = @ + 1]
  /\ clock' \in clock..MaxClock
  /\ stamp' = [stamp EXCEPT ![d] = clock']
  /\ Goto(d, "lock")
  /\ UNCHANGED <<mode, status, ends, delivered, holder, disk>>

\* read() returned 0 or an error: the task ends and drops its two halves.
ReadEof(d) ==
  /\ At(d, "read")
  /\ taken[d] = Len(sent[d])
  /\ ~wopen[d]
  /\ Goto(d, "done")
  /\ UNCHANGED <<mode, status, ends, taken, delivered, stamp, holder, disk, clock>>

\* Wrong: the two tasks share the writer without a mutex.
LockRecordingUnguarded(d) ==
  /\ At(d, "lock")
  /\ holder' = {d}
  /\ Goto(d, "write")
  /\ UNCHANGED <<mode, status, ends, taken, delivered, stamp, disk, clock>>

LockRecording(d) ==
  /\ At(d, "lock")
  /\ holder = {}
  /\ holder' = {d}
  /\ Goto(d, "write")
  /\ UNCHANGED <<mode, status, ends, taken, delivered, stamp, disk, clock>>

\* write_record of a chunk that fits: it is buffered, after a flush if there
\* is no room.  If that flush fails, what does not fit is not written.
WriteSmall(d) ==
  /\ At(d, "write")
  /\ ~IsLarge(d)
  /\ Goto(d, "flush")
  /\ \/ /\ Len(buf) < BufItems
        /\ buf' = Append(buf, Whole(d))
        /\ UNCHANGED <<file, reported, faults>>
     \/ /\ Len(buf) >= BufItems
        /\ file' = file \o buf
        /\ buf' = <<Whole(d)>>
        /\ UNCHANGED <<reported, faults>>
     \/ /\ Len(buf) >= BufItems
        /\ Fault
        /\ buf' \in {buf, Append(buf, Torn(d))}
        /\ reported' = reported \cup {<<d, taken[d]>>}
        /\ UNCHANGED file
  /\ UNCHANGED <<mode, status, ends, taken, delivered, stamp, holder, clock>>

\* write_record of a large chunk: its first fields are buffered, and data that
\* cannot fit makes the BufWriter flush them before it writes the data itself.
WriteLarge(d) ==
  /\ At(d, "write")
  /\ IsLarge(d)
  /\ \/ /\ file' = Append(file \o buf, Torn(d))
        /\ buf' = <<>>
        /\ Goto(d, "data")
        /\ UNCHANGED <<reported, faults>>
     \/ /\ Fault
        /\ buf' = Append(buf, Torn(d))
        /\ reported' = reported \cup {<<d, taken[d]>>}
        /\ Goto(d, "flush")
        /\ UNCHANGED file
  /\ UNCHANGED <<mode, status, ends, taken, delivered, stamp, holder, clock>>

WriteData(d) ==
  /\ At(d, "data")
  /\ Goto(d, "flush")
  /\ \/ /\ file' = [file EXCEPT ![Len(file)] = Whole(d)]
        /\ UNCHANGED <<reported, faults>>
     \/ /\ Fault
        /\ reported' = reported \cup {<<d, taken[d]>>}
        /\ UNCHANGED file
  /\ UNCHANGED <<mode, status, ends, taken, delivered, stamp, holder, buf, clock>>

\* Wrong: nothing is flushed before the file is closed.
FlushRecordingNever(d) ==
  /\ At(d, "flush")
  /\ holder' = {}
  /\ Goto(d, "forward")
  /\ UNCHANGED <<mode, status, ends, taken, delivered, stamp, disk, clock>>

\* The result of flush() is not looked at; the guard is dropped after it.
FlushRecording(d) ==
  /\ At(d, "flush")
  /\ FlushBuf
  /\ holder' = {}
  /\ Goto(d, "forward")
  /\ UNCHANGED <<mode, status, ends, taken, delivered, stamp, reported, clock>>

\* write_all and flush towards the peer, waiting while the pipe is full.
Forward(d) ==
  /\ At(d, "forward")
  /\ ropen[d]
  /\ delivered[d] - received[d] < PipeCap
  /\ delivered' = [delivered EXCEPT ![d] = @ + 1]
  /\ Goto(d, "read")
  /\ UNCHANGED <<mode, status, ends, taken, stamp, holder, disk, clock>>

\* The peer closed its end: the write fails and the task ends.
ForwardFails(d) ==
  /\ At(d, "forward")
  /\ ~ropen[d]
  /\ Goto(d, "done")
  /\ UNCHANGED <<mode, status, ends, taken, delivered, stamp, holder, disk, clock>>

Copy(d) ==
  \/ ReadChunk(d) \/ ReadEof(d) \/ LockRecording(d)
  \/ WriteSmall(d) \/ WriteLarge(d) \/ WriteData(d) \/ FlushRecording(d)
  \/ Forward(d) \/ ForwardFails(d)

-----------------------------------------------------------------------------
(* The two ends: a Nix client and a nix-daemon, from what the recorder and *)
(* parse_handshake expect of them.                                         *)

\* Wrong: a write half lives until both tasks are done.
EofWhenBothDone(d) == status \in Over

\* The sink of d is told the stream has ended.  Dropping an OwnedWriteHalf
\* or a child's stdin ends the stream; dropping tokio's Stdout does not, so
\* in command mode the client hears of it when the process is gone.
Eof(d) ==
  IF mode = "command" /\ d = D2C
    THEN status \in Over \ {"finished"}
    ELSE status \in Over \/ pc[d] = "done"

\* The daemon only answers: it has read the client's magic before it writes.
Send(d) ==
  /\ status \notin Over
  /\ wopen[d]
  /\ Len(sent[d]) < MaxChunks
  /\ d = D2C => received[C2D] > 0
  /\ sent' = [sent EXCEPT ![d] = Append(@, received[Opposite(d)])]
  /\ UNCHANGED <<mode, status, wopen, ropen, received, pc, taken, delivered,
                 stamp, holder, disk, clock>>

Receive(d) ==
  /\ ropen[d]
  /\ received[d] < delivered[d]
  /\ received' = [received EXCEPT ![d] = @ + 1]
  /\ UNCHANGED <<mode, status, sent, wopen, ropen, pc, taken, delivered, stamp,
                 holder, disk, clock>>

\* The client is done writing but still reads.
HalfClose ==
  /\ status = "proxying"
  /\ wopen[C2D]
  /\ wopen' = [wopen EXCEPT ![C2D] = FALSE]
  /\ UNCHANGED <<mode, status, sent, ropen, received, pc, taken, delivered,
                 stamp, holder, disk, clock>>

\* The end that writes d and reads the other direction exits, closing both.
Exit(d) ==
  /\ ropen[Opposite(d)]
  /\ wopen' = [wopen EXCEPT ![d] = FALSE]
  /\ ropen' = [ropen EXCEPT ![Opposite(d)] = FALSE]
  /\ UNCHANGED <<mode, status, sent, received, pc, taken, delivered, stamp,
                 holder, disk, clock>>

\* An end leaves by itself, or because what it reads has ended.
Leave(d) == status = "proxying" /\ Exit(d)
LeaveAtEof(d) ==
  /\ Eof(Opposite(d))
  /\ received[Opposite(d)] = delivered[Opposite(d)]
  /\ Exit(d)

Next ==
  \/ Connect \/ ConnectFails \/ Finish \/ PropagateExit \/ Shutdown \/ Crash
  \/ HalfClose
  \/ \E d \in Dirs :
       Copy(d) \/ Send(d) \/ Receive(d) \/ Leave(d) \/ LeaveAtEof(d)

\* The runtime polls ready tasks, and both ends drain what they are sent and
\* leave at its end.  Nobody has to write, to leave first or to stop the
\* recorder.
Fairness ==
  /\ WF_vars(Connect) /\ WF_vars(Finish) /\ WF_vars(PropagateExit)
  /\ \A d \in Dirs : WF_vars(Copy(d)) /\ WF_vars(Receive(d)) /\ WF_vars(LeaveAtEof(d))

Spec == Init /\ [][Next]_vars
FairSpec == Spec /\ Fairness

-----------------------------------------------------------------------------
(* What the session promises.                                              *)

OnDisk(d, k) == \E i \in 1..Len(file) : IsRecord(file[i], d, k)
InWriter(d, k) == \E i \in 1..Len(buf) : IsRecord(buf[i], d, k)

\* Record before forward: unless a write to the file has failed, each chunk
\* the peer was given is a whole record of the file, also after the recorder
\* was killed between any two steps (copy_and_record flushes before it
\* forwards).
DeliveredIsOnDisk ==
  faults = 0 => \A d \in Dirs : \A k \in 1..delivered[d] : OnDisk(d, k)

\* The file never shows an answer before what it answers: a record comes
\* after the records of all that its sender had read when it wrote the chunk,
\* and is not stamped earlier than these, although two tasks race for the mutex:
\* the time decode and stats find between a call and its answer is not negative.
FileIsCausal ==
  faults = 0 =>
    \A j \in 1..Len(file) :
      file[j].kind = "record" =>
        \A k \in 1..sent[file[j].dir][file[j].no] :
          \E i \in 1..(j - 1) : /\ IsRecord(file[i], Opposite(file[j].dir), k)
                              /\ file[i].stamp <= file[j].stamp

\* Within a direction, the file has the chunks in the order they were read,
\* none twice, and their offsets never go back.
FileKeepsOrder ==
  \A i, j \in 1..Len(file) :
    (i < j /\ file[i].kind # "header" /\ file[j].dir = file[i].dir)
      => file[i].no < file[j].no /\ file[i].stamp <= file[j].stamp

\* The unsigned subtraction last.offset_ns - first.offset_ns that decode and
\* stats do on a recording does not wrap: although the tasks stamp before
\* they take the lock, so that the file as a whole need not be in time order,
\* no record is older than the first.
DurationIsDefined ==
  \A j \in 3..Len(file) : file[1].kind = "header" /\ file[2].kind = "record"
    => file[2].stamp <= file[j].stamp

\* Without a failed write, a recording that was not cut by a kill is readable
\* to its end: it has its header and no torn record, and if the session came
\* to its end it has all that was read from either side.
EndedFileIsWhole ==
  faults = 0 /\ status \in Over \ {"crashed"} =>
    /\ Len(file) > 0 /\ file[1] = Header
    /\ \A i \in 1..Len(file) : file[i].kind # "torn"
    /\ status \in {"finished", "exited"} =>
         \A d \in Dirs : \A k \in 1..taken[d] : OnDisk(d, k)

\* While the recorder runs, a chunk it has forwarded is either recorded, or
\* still in the BufWriter for a later flush to write, or the failure was
\* logged: the ignored result of flush() loses nothing by itself.
MissingIsReported ==
  status = "proxying" =>
    \A d \in Dirs : \A k \in 1..delivered[d] :
      OnDisk(d, k) \/ InWriter(d, k) \/ <<d, k>> \in reported

\* The session ends, and its file is closed, once the client has gone, or in
\* socket mode once either end has.
ClientGone == ~ropen[D2C]
DaemonGone == ~ropen[C2D]
SessionEnds ==
  (status = "proxying" /\ (ClientGone \/ (mode = "socket" /\ DaemonGone)))
    ~> (status \in Over)

\* The recording is a tap (module DuplexTap): what is in the file and what was
\* delivered are a behaviour of the abstract recorder, whose tape fails when a
\* write to the file does.
Taped ==
  {<<file[i].dir, file[i].no>> :
     i \in {j \in 1..Len(file) : file[j].kind = "record"}}
Tap == INSTANCE DuplexTap WITH tape <- Taped, lossy <- faults > 0
TapSpec == Tap!Spec

\* run_command_mode means to "propagate exit code": the child's exit ends the
\* recorder.
ChildExitIsPropagated ==
  (status = "proxying" /\ mode = "command" /\ DaemonGone)
    ~> (status \in Over \ {"finished"})
=============================================================================

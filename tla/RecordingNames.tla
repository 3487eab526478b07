---------------------------- MODULE RecordingNames ----------------------------
(***************************************************************************)
(* How recordings get their file names (record.rs: scan_next_id,           *)
(* next_recording_path, the ids run_socket_mode hands out, File::create).  *)
(*                                                                         *)
(* A process in socket mode scans the directory once and then counts; one  *)
(* in command mode scans for its single session.  Between getting a name   *)
(* and creating the file a session may be overtaken by others.  A file is  *)
(* known by the session that created it last; creating an existing file    *)
(* truncates it.                                                           *)
(***************************************************************************)
EXTENDS Naturals

CONSTANTS
  Processes,    \* recorders that use one output directory
  Shared,       \* whether they may run at the same time
  NoFile,       \* no file has that number
  MaxId,        \* bound: the highest file number
  MaxSessions   \* bound: sessions recorded

ASSUME NamesAssumption ==
  /\ Shared \in BOOLEAN
  /\ NoFile \notin Nat
  /\ MaxId \in Nat
  /\ MaxSessions \in Nat

Ids == 0..MaxId
Earlier == 0          \* a recording that was there from the start

VARIABLES
  mode,       \* mode[p]: off, or how p was started
  counter,    \* counter[p]: SESSION_COUNTER of p
  pending,    \* [by, id, session]: named, its file not yet created
  file,       \* file[i]: the session recorded in file number i, or NoFile
  sessions    \* sessions so far, numbered as they were accepted

vars == <<mode, counter, pending, file, sessions>>

Used == {i \in Ids : file[i] # NoFile}
Alive == {p \in Processes : mode[p] # "off"}

TypeOK ==
  /\ mode \in [Processes -> {"off", "socket", "command"}]
  /\ counter \in [Processes -> Nat]
  /\ pending \subseteq [by : Processes, id : Ids, session : Nat]
  /\ file \in [Ids -> Nat \cup {NoFile}]
  /\ sessions \in Nat

\* Some recordings may be there already, not necessarily without gaps.
Init ==
  /\ mode = [p \in Processes |-> "off"]
  /\ counter = [p \in Processes |-> 0]
  /\ pending = {}
  /\ file \in [Ids -> {NoFile, Earlier}]
  /\ sessions = 0

\* Wrong: the number of recordings is returned, so that a gap misleads it.
IsNextIdFirstFree(n) ==
  /\ n \notin Used
  /\ \A i \in 0..(n - 1) : i \in Used

\* scan_next_id: one past the highest number in the directory, or 0.
IsNextId(n) ==
  /\ \A i \in Used : i < n
  /\ n = 0 \/ n - 1 \in Used

MayStart(p) == mode[p] = "off" /\ (Shared \/ Alive = {})

-----------------------------------------------------------------------------

\* run_socket_mode: the counter goes on from the existing files.
StartSocket(p) ==
  /\ MayStart(p)
  /\ \E n \in 0..(MaxId + 1) : IsNextId(n) /\ counter' = [counter EXCEPT ![p] = n]
  /\ mode' = [mode EXCEPT ![p] = "socket"]
  /\ UNCHANGED <<pending, file, sessions>>

\* Wrong: the counter is read here and advanced once the file exists.
AcceptReads(p) ==
  /\ mode[p] = "socket"
  /\ sessions < MaxSessions /\ counter[p] \in Ids
  /\ sessions' = sessions + 1
  /\ pending' = pending \cup {[by |-> p, id |-> counter[p], session |-> sessions']}
  /\ UNCHANGED <<mode, counter, file>>

\* Wrong: the session is given the counter's value after it was advanced.
AcceptAfterCounting(p) ==
  /\ mode[p] = "socket"
  /\ sessions < MaxSessions /\ counter[p] \in Ids
  /\ sessions' = sessions + 1
  /\ counter' = [counter EXCEPT ![p] = @ + 1]
  /\ pending' = pending \cup {[by |-> p, id |-> counter'[p], session |-> sessions']}
  /\ UNCHANGED <<mode, file>>

\* accept() returned: the session takes the counter's value and is spawned.
Accept(p) ==
  /\ mode[p] = "socket"
  /\ sessions < MaxSessions /\ counter[p] \in Ids
  /\ sessions' = sessions + 1
  /\ pending' = pending \cup {[by |-> p, id |-> counter[p], session |-> sessions']}
  /\ counter' = [counter EXCEPT ![p] = @ + 1]
  /\ UNCHANGED <<mode, file>>

\* run_command_mode: next_recording_path takes the larger of the scan and the
\* process's own counter, which is new.
StartCommand(p) ==
  /\ MayStart(p)
  /\ sessions < MaxSessions
  /\ sessions' = sessions + 1
  /\ \E n \in Ids :
       /\ IsNextId(n)
       /\ pending' = pending \cup {[by |-> p, id |-> n, session |-> sessions']}
  /\ counter' = [counter EXCEPT ![p] = 1]
  /\ mode' = [mode EXCEPT ![p] = "command"]
  /\ UNCHANGED file

\* File::create: a new file, or an existing one emptied.  The sessions of a
\* process get here in any order.
CreateFile(x) ==
  /\ x \in pending
  /\ pending' = pending \ {x}
  /\ file' = [file EXCEPT ![x.id] = x.session]
  /\ UNCHANGED <<mode, counter, sessions>>

\* The process exits or is killed; sessions without a file leave no trace.
Exit(p) ==
  /\ mode[p] # "off"
  /\ mode' = [mode EXCEPT ![p] = "off"]
  /\ counter' = [counter EXCEPT ![p] = 0]
  /\ pending' = {x \in pending : x.by # p}
  /\ UNCHANGED <<file, sessions>>

\* The user takes a recording away.
Remove(i) ==
  /\ i \in Used
  /\ file' = [file EXCEPT ![i] = NoFile]
  /\ UNCHANGED <<mode, counter, pending, sessions>>

Next ==
  \/ \E p \in Processes : StartSocket(p) \/ Accept(p) \/ StartCommand(p) \/ Exit(p)
  \/ \E x \in pending : CreateFile(x)
  \/ \E i \in Ids : Remove(i)

Spec == Init /\ [][Next]_vars

-----------------------------------------------------------------------------

\* No recording is ever written over: a file that exists keeps its session
\* until the user removes it, over restarts of the recorder, kills between
\* naming and creating a file, gaps in the numbers, and sessions of one process
\* that create their files out of order.
NeverOverwrites ==
  [][\A i \in Ids : file[i] # NoFile => file'[i] \in {file[i], NoFile}]_vars

\* The numbers tell the order in which sessions were accepted, also across
\* restarts.
NumbersFollowSessions ==
  \A i, j \in Used : i < j /\ file[j] # Earlier /\ file[i] # Earlier
    => file[i] < file[j]
=============================================================================

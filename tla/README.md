# A verification development for nix-wire

nix-wire records the traffic between a Nix client and `nix-daemon`, reads recordings back as
operations, and plays them, or scripts made of them, against a live daemon. The modules here model
the parts of it in which something can go wrong that a test would hardly reach: the recorder's two
copy tasks and their file, the takeover of the daemon's socket, the naming of recordings, the
recording format under cuts and failed writes, the hand-written tables of the handshake and of the
wire protocol, the loops that read recordings, the script text that a session is unpacked to, edited
as and packed from again, and live runs over bounded pipes. TLC checks the modules on small
instances; TLAPS proves the main safety properties of the recorder, the takeover, the names, the
recording format, the tables, the loops that read recordings, live runs and the script parser for
every instance, and that the recorder implements an abstract tap.

Paths below are relative to `src/crates/`; `record.rs`, `replay.rs`, `decode.rs`, `stats.rs` and
`script.rs` are in `nix-wire-tools/src/bin/`, `protocol.rs` and `script/` in `nix-wire/src/`.

## Inventory

### Components

| component | code | state | operations | modules |
|---|---|---|---|---|
| recording proxy | `record.rs` 89-205, 331-387 | two copy tasks, a mutex, a `BufWriter`, the file, two connections (or a child and stdio) | read, stamp, lock, write, flush, forward; end of stream; shutdown; kill | `ProxySession`, `DuplexTap` |
| socket takeover | `record.rs` 211-329 | the names `socket` and `socket.orig`, the listener | check, rename, bind, accept, connect upstream, stop, remove, restore, exit; kill, restart | `SocketTakeover` |
| recording names | `record.rs` 52-87, 178 | the directory, `SESSION_COUNTER` | scan, count, create | `RecordingNames` |
| recording format | `nix-wire-recording/src/lib.rs` | a file, a read position | write and read headers and records; times of bytes | `RecordingFile`, `ProxySession` |
| operation layouts | `protocol.rs`, `ops.rs`, `stderr.rs`, `script/serialize.rs` | none (tables) | skip, read, write arguments; skip, read results and messages | `OpLayouts` |
| recording readers | `decode.rs`, `stats.rs`, `replay.rs`, `script/decompile.rs` | positions in two streams, the operation in hand | one turn of the operation loop, one turn of the stderr loop | `OpDecode` |
| live runs | `replay.rs`, `script.rs`, `wire_async.rs` | two pipes, a `BufReader`, writer and reader, what was heard | send, close; fill, peek, read a body, give up | `LiveRun` |
| handshake | `nix-wire/src/handshake.rs`, `protocol.rs` 45-200, `script/serialize.rs` | negotiated version | offer, negotiate, read and write both sides | `Handshake`, `OpDecode` |
| script text | `script/format.rs`, `parse.rs`, `mod.rs` | none (a text) | format and parse an operation, a value, a comment | `ScriptText` |
| expectations | `script/expect.rs` | none | parse an expectation, extract a result, compare | `ScriptExpect` |
| script tool | `script.rs`, `script/parse.rs`, `script/decompile.rs` | data files, the parser's position, the entry in hand, times | unpack, edit, parse line by line, pack | `ScriptTool` |
| statistics | `stats.rs` after `collect_ops` | none | sums, percentiles, tables | not modelled |
| wire primitives | `wire.rs`, `wire_async.rs` | read position | read, skip, write values | by what they consume, in `OpDecode` and `LiveRun` |

### How they interact

The recorder stands between a client and the daemon. In *socket mode* it takes over the daemon's
socket (`SocketTakeover`), gives every accepted connection a number (`RecordingNames`) and spawns a
session (`ProxySession`) that writes a file (`RecordingFile`); in *command mode* it is the session,
with a child process in place of the daemon. Sessions of one process share the counter and nothing
else. The readers take a file, split it into two byte streams with an index of times
(`RecordingFile`), and walk both streams operation by operation (`OpDecode`) with the tables of
`protocol.rs` (`OpLayouts`), after a handshake (`Handshake`) that tells them the version. The
decompiler's result becomes a text (`ScriptText`), with the answers as comments (`ScriptExpect`), which
`nix-wire-script` parses again (`ScriptTool`) and serializes with another table; and
`nix-wire-replay` and `nix-wire-script run` send requests to a daemon while they read its answers
(`LiveRun`).

Two facts that one module proves are assumptions of another, and are cited there:
`FileIsCausal` of `ProxySession` (no answer is in the file before its request) bounds the cuts of
`OpDecode.Open`; whole records up to the cut (`ReadIsPrefix`, `DoneIsComplete` of `RecordingFile`) is
what lets `OpDecode` treat a cut recording without failed writes as two prefixes.

### What is hard

* *Interleaving*: two copy tasks race for one mutex after they have taken their timestamps;
  recorders share a directory; a run sends and receives at once.
* *Crashes*: a kill between any two of record, flush and forward; between rename and bind; between
  naming a file and creating it.
* *Partial failure*: `flush` results are ignored, `write_record` errors are logged and the session
  goes on; a record is four writes.
* *Lock step*: nothing in the streams marks where an operation begins. One field too many in one of
  five tables, in one version, and everything behind it is garbage.
* *A text that two programs and a person share*: a dozen parsing functions move one position, each
  deciding for itself which lines are its own, and half of the values are written by one convention
  and read by another.
* *Ends*: half-closes, a child that exits, a daemon that hangs up, a full pipe.

The list `hazards` of `PROJECT.json` has these one by one at their lines, with the properties that
catch each going wrong, or the reason why none does yet.

## Modules

In the order in which they were built; each stands by itself unless said otherwise.

### ProxySession, DuplexTap

One recorded session. `pc[d]` is where `copy_and_record` stands for direction `d`: `ReadChunk` (the
read and the timestamp), `LockRecording`, `WriteSmall` or `WriteLarge` and `WriteData` (`write_record`
through a `BufWriter` that keeps what fits and writes through what does not), `FlushRecording` (whose
result is not looked at), `Forward`. `ConnectFails`, `Finish`, `Shutdown` and `Crash` end the session as
the code and its runtime do: dropping the `BufWriter` flushes it, a kill does not. Shutdown can only
come at an `await`, so never while a task holds the mutex. The two peers send, receive, half-close and
leave. In command mode the end of the child's output is seen by the client only when the recorder is
gone, because dropping tokio's `Stdout` closes nothing.

Data is a chunk number per direction; each chunk carries how many chunks of the other direction its
sender had read, which is all that causality needs. The wall clock only moves forward.

`DuplexTap` is the abstract specification: a chunk is put on a tape in its turn and delivered only once
it is there; after the tape has failed it may miss chunks but never invents one. `ProxySession`
implements it (`TapSpec`) with `tape` the records of the file and `lossy` that a write has failed.

### SocketTakeover

The file system is two names, each with a socket node or none; a node can be reached while its listener
is open. A recorder's steps are `CheckOrig`, `RenameSocket`, `Bind`, `Accept`, `ConnectUpstream`, `Stop`,
`RemoveSocket`, `Restore`, `Exit`, with every early return and error branch; it may be killed between any two
and started again, and an administrator may do the `mv` that the log asks for. A signal before the
accept loop runs kills the process, so it is a `Kill`. The 500 ms of draining are an interval of any
length. The sessions end with the runtime (`Exit`), not with the rename (`Restore`): a handler that has
not connected upstream by then finds no `socket.orig`, and its client is refused although it was accepted.
`AcceptedReachesDaemon` says that this is the only moment at which that happens, and that the daemon is
under the well-known name by then.

### RecordingNames

`scan_next_id`, the counter, `next_recording_path` and `File::create`, with recorders in both modes,
kills, and files taken away by the user. `Shared` says whether recorders may run at the same time.

### OpLayouts, OpDecode

`OpLayouts` holds the tables: for an operation, a version and a count, the sequence of fields that
`skip_op_args`, `read_op_args`, `serialize_op_args`, `skip_daemon_result`, `read_daemon_result`,
`skip_stderr_payload` and `read_stderr_with_error` consume or produce. A field is a kind (number,
string, set of strings, framed data), or the number itself where the code looks at it. `OpDecode`
extends it: first a session adds calls to two streams, as operations and answers, then one of the four
loops reads the recording, which may have been cut. What a loop does when a read fails differs from loop
to loop and from place to place (`OnError`). A read that meets a field of another kind than it expects
ends *astray*: the code may then return anything. A session that may be recorded has framed operations from
version 1.23 on only (`Framed`, in `DecodeAssumption`): neither the code nor `docs/wire-protocol.md` says what is
sent before. A call has at most one message in front of its end; a second would be read by the same turn.

### Handshake

The tables of the exchange in front of the operations, with the gates at 1.11, 1.14, 1.33, 1.35 and 1.38:
what `parse_handshake` consumes of each side, what `parse_daemon_handshake` consumes of a live daemon, what
`serialize_client_handshake` writes. It extends `OpLayouts` and is extended by `OpDecode`, where `offers` are
the versions client and daemon offer and whether the client sends an affinity: `Greet` puts the handshake of
the version that is then *spoken* (the lower one, from `docs/wire-protocol.md`) in front of both streams, and the
loops find their `version` in it with the code's own `Negotiated`. If they found another one, every layout
behind it would be off.

### RecordingFile

A file is a sequence of bytes, each known by the record it was written for and its place there. A failed
write leaves any part of its record; a cut comes at any byte. The reader reads field by field
(`read_exact`, here `Take`), and the end of the file means the end of the recording before or inside an offset,
and an error anywhere else. It takes whatever bytes come next: a field has the value that was written if its
bytes are those of this field of one record, and any value otherwise. So where a torn record has others behind
it, the bytes of the next one are read for what is missing; `read` then has a record of number 0, which nobody
wrote, and the reader goes on behind it, perhaps in the middle of a record. `ReadIsPrefix` and `DoneIsComplete`
speak of what was read up to there; `TornMisleads` says where the first such record can be and that the whole
ones behind it are still in order. `Split` and `Lookup` are `split_records` and `lookup_timestamp`, over the
records as they were read, which `stats.rs` 54-92 and `script.rs` 92-110 repeat.

### LiveRun

Sender and receiver of `nix-wire-replay` and `nix-wire-script run`, a daemon that does not take the next
request before it has got rid of the last answer, two bounded pipes, and the `BufReader` that `peek_u64`
looks into without waiting for more. An answer is messages of a code (in two halves, which a read may
separate) and a body. `run` is what is played: the kinds of the answers; whether the daemon is a child, whose pipe
breaks when the receiver is dropped, or behind a socket, which stays open; how many operations replay found in
its recording, and which of them have no name, so that their results are not skipped; and where `--fail-fast`
would stop a script. A delay of `--timing` is a `Send` that comes later. Sender and receiver are joined, so the
writing end is closed only when both are over, and nothing is heard from then on (`Running`).

### ScriptText, ScriptExpect, ScriptTool

`ScriptText` is how `format.rs` writes a request and `parse.rs` reads it: a text is a sequence of tokens, single
characters where the two disagree about characters (quotes, backslashes, newlines, commas, braces, blanks), whole
words elsewhere. `FormatKeys` and `ParseKeys` are the two tables of the lines below an operation; the escapes, sets,
pairs, words and data values are what the code does with them, by operators that stand for `splitn`, `trim` and
`replace`. `ScriptExpect` adds the answers: the comments `unpack` leaves, the `expect:` lines a user makes of them,
and how `expect.rs` compares these. `ScriptTool` is the program on top: `Unpack` writes the text and may put large
data into numbered files, the user may insert a line, turn a comment into an expectation, leave times out, or have
only the beginning of the text, and then the parser runs: `ParsePreamble`, `ParseTop`, `ParseArgs` and `ParseTail` are
turns of the loops of `parse_preamble`, `parse_script`, the `parse_*` functions of arguments, and `parse_entry`, over the
one `pos` they share. `Pack` gives each record its time. The `@...ms` in front of a line is kept beside it, as the
number of microseconds it is rounded to; `FallsShort` says for which of these the way back through floating point
loses a nanosecond.

`AllCarried` is the other side of `TextCarries`: which sessions the text can carry. It has two parts. `AllLegible`
says which strings can be written in which place, by what is in the strings (a newline, a quote, a blank at an
end, ...) and not by running the parser: then all that the decompiler kept of the session comes back (`SameScript`).
`Sent` is what was recorded of a request: where the decompiler makes `RawBytes` of an operation it keeps none of
the arguments, so a session with a `BuildDerivation` or an `AddToStoreNar` may be legible, and
`EditsNeverAlter`, `ConvertedHolds` and `TimesKeepOrder` hold of it, but the requests that were recorded do not
come back (`SameSession`).

## Runs

Deadlock is checked in `script_text`, where every state but the last ones has a step. The other configurations turn
it off: sessions, runs and readers end, and recorders may rest.

| run | module and configuration | instance | shows |
|---|---|---|---|
| `proxy_session` | `MCProxySession.cfg` | both modes, 2 chunks each way, one of them larger than the buffer, pipe of 1, buffer of 2, 2 failing writes, clock 0..1 | record before forward, causality, order, whole files, honest reports, ending, refinement of `DuplexTap` |
| `child_exit` | `MCProxySession_child_exit.cfg` | command mode, 1 chunk, no faults | **violation**: the child's exit does not end the recorder |
| `takeover` | `MCSocketTakeover.cfg` | 1 recorder, 3 binds, 2 clients | the daemon's socket is never lost, a serving recorder is in its place, exits restore, accepted clients are served until the socket is back |
| `recovery` | `MCSocketTakeover_recovery.cfg` | 1 recorder, 2 binds, 1 client | **violation**: after a kill while serving the next start fails |
| `names` | `MCRecordingNames.cfg` | 2 recorders in turn, numbers 0..4, 4 sessions, any files there at first | nothing is overwritten, numbers follow sessions |
| `names_shared` | `MCRecordingNames_shared.cfg` | the same, side by side | **violation**: two command-mode recorders share a name |
| `readers` | `MCOpDecode.cfg` | each operation, message and error with counts 0..2 in 16 versions; pairs of five sorts of calls in 2 versions, cut anywhere; handshakes of 10 x 10 offers with and without affinity, cut anywhere | the loops find the version, stay in step, list what happened and nothing else, and end |
| `op_errors` | `MCOpDecode_errors.cfg` | pairs of calls of which some fail | **violation**: calls after a failed one are listed wrongly |
| `recording_file` | `MCRecordingFile.cfg` | 3 records of 2 bytes, 1 failed write, any cut | reading gives the whole records and nothing else up to a torn one in the middle, and what it may give from there on; times are right |
| `live` | `MCLiveRun.cfg` | scripts of 3 requests with any answers, stopped anywhere or not; replays of 4 with 1, 3, 4 or 5 of them found and up to one answer not read to its end; a child or a socket; pipes of 1 request and 2 units; a daemon that may die | answers are matched, all are heard, the run ends or strands in one of two ways |
| `script_text` | `MCScriptTool.cfg` | each operation with each string of up to 2 of 8 characters (3 for escaped ones) in each of its fields, each string in comments and the preamble, each result and error, edits at each line of texts with three operations | what comes back from unpacking and packing is said exactly; edits never alter a request unseen; converted expectations hold; times keep their order; the parser ends |
| `live_peek` | `MCLiveRun_peek.cfg` | 2 requests, codes may arrive in two reads | **violation**: `None` is returned before the end |

### The bounds, and why they are enough

* *Two chunks per direction* (`MaxChunks`) give a first and a second record of each side in every order,
  one task in the critical section while the other waits, and a torn record with another behind it. A pipe
  of one chunk fills with the first. A buffer of two items holds the header and one record, so that the
  next write has to flush. Two faults are enough for a failure during a write and another during the flush
  behind it. Two clock values separate *earlier* from *later*, which is all the properties compare.
* *Three binds* allow a kill in any place, a restart that meets what it left, and a third start after that.
  Two clients are one that connected before the takeover and one during it.
* *Four sessions and five names* allow two processes with two sessions each, out of order, and a gap.
* *Counts 0..2* of list elements: none, one, more than one. The 16 versions are one on either side of each
  version any table tests. Sessions of two calls show a loop that begins a second call where it should not.
  Framed operations are only played from version 1.23 on: before it their data has no frames, and no loop
  claims to read it.
* *Three records* give a torn one with whole ones before and behind it; two bytes of data have a first and a
  last one, and a torn record may lack all of its data or half of it. Lengths that the reader takes from other
  bytes are all that the file leaves room for, and one more for those it does not.
* *Three requests* over a pipe of one and answers over a pipe of two units: sender, daemon and receiver are
  all blocked at times, which is what `RunEnds` is about. Four, in replays, are one whose answer was lost, one that
  the daemon cannot answer, one in the pipe and one that the sender cannot get rid of.
* *Strings of two characters* out of `a`, `n`, backslash, quote, newline, comma, closing brace and blank: every
  ordered pair of characters that mean something to a formatter or a parser, which is as far as any of them looks
  (`replace` of a backslash and a character, the first quote, the first brace, trimming an end). The text of
  `AddTextToStore`, the only field that is escaped, has up to three, because three replacements in a row can make
  a pair that was not there before. Lists have up to two items. One field is varied at a time; the others are
  ordinary, since each is written on a line or in braces of its own.
* *Three operations* in a text that is edited: one in front of and one behind each line, and a time left out between
  two that are given. The times are chosen on both sides of half a microsecond, where rounding turns, and with
  products that fall short.
* *Handshake versions* on both sides of 1.11, 1.14, 1.33, 1.35 and 1.38, each offered by either side.

In `live` a code arrives in one piece (`SplitReads = FALSE`): `live_peek` shows what happens otherwise, so
that what `live` shows holds of transports that do not split eight bytes. In `names` recorders take turns
(`Shared = FALSE`), for the same reason; `names_shared` drops this.

### Fairness

* `ProxySession`: connecting, each copy task, and finishing are weakly fair, because tokio polls ready
  tasks; peers drain what they are sent and leave at its end (both `nix` and `nix-daemon` do). Nobody has to
  send, to leave first, or to stop the recorder, and a task waiting at a full pipe is not helped by fairness.
* `SocketTakeover`: a recorder that runs goes on. Nobody has to start, stop, kill or use it.
* `OpDecode`: the reading loop goes on.
* `LiveRun`: sender and receiver are polled by one task; the daemon takes and answers requests until it dies.

## Disagreements between the code and what it says

Each is a run with one property, stating what a document or comment says, that TLC finds violated.

1. `child_exit`: `run_command_mode` means to "Propagate exit code" (`record.rs` 381) but joins both copy tasks
   first; the one that reads stdin ends only when the client closes it, and the client is waiting for an end
   of output that comes when the recorder exits. A child that exits first ends nothing.
2. `recovery`: "skip if already done from a previous crash" (`record.rs` 227). After a kill while serving both
   names exist; the rename is skipped and `bind` fails on the stale socket.
3. `names_shared`: "avoiding collisions across restarts and concurrent processes" (`record.rs` 77-78). Two
   processes that scan before either has created its file share a name, and the second empties the first's.
4. `op_errors`: the payload of `STDERR_ERROR` (`docs/wire-protocol.md` 141) is left in the stream by decode,
   stats and replay, which then look for the next answer in it, although "the client can send the next
   operation" (146-148). The decompiler reads it.
5. `live_peek`: `peek_u64` returns "`Ok(None)` if EOF is reached before 8 bytes are available" (`wire_async.rs`
   57-58), and also when the kernel has delivered less than eight bytes so far.

Further ones were met while modelling, and are described here and by the properties that state the exact boundary
rather than by a run of their own:

* *Texts that do not come back* (`TextCarries` says which). `unquote` undoes `\n` before `\\`, so a backslash
  followed by an `n` becomes a newline; `suffix`, `name` and `cam_str` are written without escapes and read with them;
  override pairs end at their first quote; a path set is split at every comma, ends at its first brace, and loses
  a single empty path; an error message with a newline leaves a line that is no comment and fails to parse; and an
  operation that could not be read (`BuildDerivation`, `AddToStoreNar`, `AddToStore` before 1.25) becomes `RawBytes`
  without data (`decompile.rs` 62-73) and is packed as a request without its arguments, or, if its number is unknown,
  as `IsValidPath`.
* *A torn record in the middle*: after a failed write the recorder goes on (`record.rs` 122-124), and `read_from`
  (`lib.rs` 155-181) then takes the next record's bytes for the rest of the torn one. It may return a record that
  nobody wrote, and others behind it, and end without an error (`TornMisleads`).
* *Accepted and refused*: between the rename of an orderly shutdown (`record.rs` 313) and the end of the process a
  handler that was accepted may still try `socket.orig` (`record.rs` 190) and find nobody.
* *Comments are not ignored everywhere*: `docs/nwscript-format.md` says "Lines starting with `#` are comments (ignored by
  the parser)", but one between two arguments ends the function that reads them and the rest is an "unknown op".
  `EditsNeverAlter` says that this is always an error and never another request.
* *Comments that do not hold as expectations* (`docs/nwscript-format.md`, "Workflow"): sets are printed in braces and
  compared in brackets; `willBuild`, `willSubstitute`, `unknown`, the deriver of a substitutable path, maps and framed data are
  printed but never extracted; an empty `server_features` is compared with two blanks. `Comparable` lists them.
* *Times* are rounded to microseconds and may then lose a nanosecond; an operation without a time gets one
  millisecond more than the one before it, which may be later than the one after it.
* *A text that ends early* gives its last operation without some of its arguments, and no error.
* *A script is serialized for its own version* although the daemon may negotiate a lower one
  (`script/serialize.rs` 14, `docs/wire-protocol.md` 57-60): `UnderstoodIffSameGates` says when that matters.
* *`--compare` without answers*: "all daemon responses parsed successfully" (`replay.rs` 313) is also logged when the
  daemon went away before it answered, as an operation without a terminal code is not counted (`replay.rs` 206).
  `RunHearsAll` says what is counted.
* *A replay that does not end* (`Stranded`, the exception in `RunEnds`). Behind an error, or an operation without a name,
  the receiver finds no further answer and is soon done; a socket is not closed by that, so that the daemon fills it,
  stops reading, and the sender, for which `join!` waits, does not get rid of the rest. And when `pre_parse_recording` takes
  the arguments of a last operation that is "too complex" for operations, the receiver waits for answers to these
  while the writer is kept open (`replay.rs` 147-148) and the daemon waits for its end.

## Proofs

All theorems are checked by TLAPS to the last leaf, from the named assumptions on constants that each module
declares (bounds are naturals, model values are not) and from what a theorem states itself.

* **ProxySession_proofs.** `TypeCorrect`; `DeliveredStaysOnDisk`: record before forward, at
  every moment a kill may choose, for any number of chunks, any buffer, any pipe.
  `DeliveredIsOnDisk` alone is not inductive: it says nothing of a chunk between its write
  and its delivery. `RecordFirst` adds that a task is in the critical section exactly when
  it holds the mutex, that a chunk in hand is the next to be delivered, and, for each
  direction, where that chunk is: between write and flush it is in the writer or the file,
  at forward it is in the file, and while the data of a large chunk is being written the
  last item of the file is torn, so that completing it overwrites no record of the other
  task. `WritersExclude` is the mutual exclusion this rests on. What is in a recording, and
  in which order, is said of `Log`, the file with what the `BufWriter` still holds behind
  it: a flush does not change it, and only the end of the recorder can cut it, back to the
  file (`FileOnlyGrows`, `LogSteps`). A step then does one of six things to it: it rests, a
  task reads, or the task in the critical section appends a whole record, appends a torn
  one, completes it, or misses. `PlaceInv` says that a task that is writing data has its
  torn record at the end of the file and nothing in the writer, so that completing it can
  touch no other; `OrderInv`, that chunks are in the log in the order they were taken, once,
  and not younger than what their task has in hand; `SentInv`, that each end has seen only
  what was delivered to it; `KeptInv`, that every chunk that was taken is with its task, in
  the log, or reported; `SoundInv`, that without failed writes only the record being written
  is torn; `CausalInv`, that all the sender of a chunk had read is in the log in front of
  it, or, before the chunk is written, is there already. From these follow
  `FileStaysInOrder` and `NothingIsLostSilently`, whatever fails; and, without failed
  writes, `FileStaysCausal`, `EndedFilesAreWhole` and `DurationStaysDefined`. The last needs
  "without failed writes": in the run it holds with them too, but only because the one chunk
  there that can be lost is the daemon's second; a client's first chunk that is lost leaves
  an answer in front whose stamp may be later than that of the record behind it. `WriterInv`
  and `TapedInv` relate a chunk to the tape, and `SessionIsATap` is the refinement: `Spec =>
  TapSpec`, with one step of the proof per action.
* **SocketTakeover_proofs.** For one recorder and any number of clients, starts and kills:
  `DaemonSurvives`, `ServesInPlace`, `LeavesAsFound` and `AcceptedAreServed`, the last with its
  exception between the rename and the exit. The invariant
  `TakeoverInv` says that the two names are either as nix-daemon left them or swapped, and
  which of the two from where the recorder stands. It needs "one recorder": a second one may
  rename the first one's socket over the daemon's, between its own check and rename. That is
  an assumption of the theorems (`Recorders = {r}`).
* **RecordingNames_proofs.** `TypeCorrect`, for any recorders; `NothingIsOverwritten` and
  `NumbersAreInOrder`, for recorders that take turns. `NamesInv` adds to the properties that
  names given out but not yet created are free and distinct, that the counter of the one
  process that runs is past all of them, and that sessions and numbers are in the same order
  across files and pending names.
* **OpDecode_proofs, the tables.** Of the tables of `OpLayouts`, `ResultsAgree`: skipping a result
  consumes what reading it does; `SkippedIsRead` the same of arguments; `FramedComesLast`:
  for operations with framed data, reading takes what skipping takes and one framed blob;
  `WrittenIsRead`: what the serializer writes is what the decompiler reads. Each for every
  version and operation, by cases on the operation as the tables have it: these are the
  facts that make the finite choice of versions in the run `readers` harmless. Of the
  handshake, `DaemonsAreReadAlike`: a live daemon is read like a recorded one.
  `UnderstoodIffSameGates`: a daemon that negotiates version `w` reads the opening of a
  script written for `v` as it was meant exactly if no gate of the client's side lies
  between the two; the length of that side tells which gates are open, so two that are
  written alike have the same gates. `NewerDaemonsUnderstand` and `RequestsAreWrittenAlike`
  are the two cases in which nothing can go wrong.
* **OpDecode_proofs, the loops.** For sessions of any length, any versions, and cuts anywhere:
  `LoopsStayInStep`, `OnlyCallsAreListed`, `WholeRecordingsAreListed`,
  `StatsStopsAtUnknown`. The argument has three parts. *Layouts*: two layouts that one table
  gives for an operation, with other counts, are the same or are told apart by a field that
  both have (`Alike`), because the code always reads a count or a flag before what depends
  on it; it is shown table by table. So of all the layouts a read may meet, the one that was
  written is the only one that fits, to its end or to that of the stream (`ReadingFits`).
  *Streams*: `StreamInv` says that each stream carries the handshake and then the two sides
  of the calls, one behind the other, up to the last or to a cut, which `Call` and `Open`
  keep (`CarriesMore`, `CarriesCut`), and `GreetInv` that the loop goes by the version that
  is spoken. *Places*: `OpInv` and `HandInv` say, as long as the calls so far were
  understood, where both positions are between two calls and at each step within one, always
  the smaller of the place that follows from the calls and the end of the stream. Without
  the latter a cut recording would break it. `ListedInv` adds to `ListedHappened` that where
  an end is missing the daemon's stream ends in front of it, without which a later call
  could have one; `EndInv` and `KnownInv` are what is left of the other two properties
  before the end. Of the order in which the two sides of a recording are cut nothing is
  needed: the loops are right for any two prefixes.
* **RecordingFile_proofs.** `PrefixIsRead`, `OnlyTornMislead`, `ReadingIsComplete`, `ErrorsMeanCuts`:
  for records of any number and length, any failed writes, a cut at any byte. `FileInv` says
  that the bytes of a file are in the order of their records and that those of one record
  that are there stand beside each other in front of any that is missing (`Aligned`), and
  that none is missing but at the end of the file or of a torn record (`Unbroken`,
  `Finished`). `ReadInv` says which byte of which record the reader stands behind, and, as
  long as no record made of parts was read, that it has read as many as there are whole ones
  in front of it; a record in hand that is made of parts stands where a torn one does
  (`Lost`). `PrefixInv` says that the k-th it has read is the k-th whole one up to one made of
  parts, and that a whole one, wherever it was read, has its last byte behind the reader
  (`Behind`), which keeps those that follow a wrong one in order.
  `TimesAreThoseOfRecords` is about what is made of them: `Tiled` says that the
  places in the index of a stream divide its bytes into those of its records, in order and
  none empty, which each record that is added keeps; so the last place at or in front of a
  byte, which is what the binary search finds, is that of its record.
* **LiveRun_proofs.** `AnswersMatch` and `RunHears`, for scripts and replays of any length
  and pipes of any size over a transport that does not split a code (`~SplitReads`;
  `live_peek` is the counterexample without), and `NoAnswerIsAnothers` over any: an answer
  is taken for none rather than for that of another request. The units under way are taken
  as one `Stream`, in the reader's buffer, in the pipe, and with the daemon; `StreamInv`
  says that each follows the one in front of it as the answers do and that the last is the
  end of an answer, `PlaceInv` that the first is one the reader expects, or, once it has
  lost its way (`~InSync`), that it starts with no code, and then none will. `EndInv`
  relates who has gone away to why. `HeardInv` and `CountInv` are the properties for a run
  under way.
* **ScriptText_proofs.** What is written and read back by the line, of any length: for each
  piece of `format.rs` that `parse.rs` takes back out of it what was put in, if the session
  can be written that way. `ValuesSurvive`: a value comes back from its quotes. `Escape` and
  `Unquote` are three passes over the text each, and the argument is that every token of the
  value is a piece of one or two in the text, which each pass changes on its own
  (`PutFlattened`, `UndoFlattened`), so that the text goes through the same stages forth and
  back (`Stage`). An unescaping pass could take the end of one piece and the beginning of the
  next for an escape; only a backslash in front of an n lets it, which is the exception the
  code has. `ValuesStayOnTheirLine` says that no escaped value ends its line, and
  `RoundingIsClose` that of times is lost half a microsecond and not their order.
* **ScriptTool_proofs.** First `ScriptTypes` and `ParserEnds`, for every recording, choice of
  data files and edit. `ParserInvariant` bounds turns by the position and the entries: a turn
  passes a line, hands on to the next function, or finishes an entry, and an entry has passed
  a line of its own (`EntriesHaveLines`). It needs that a text has a length, that is that what
  `FlattenSeq`, `Split`, `Join` and the writers return are lists (`UnpackWritesAList`).
  `ScriptsAssumption` says what that takes: that names, values and responses of a decompiled
  recording are strings, and that the bound on data files, `FileNames`, is large enough for it.
  `ScriptTypes` includes that the code's `lines[*pos]` never misses.

  Then `EditsAreIgnored` and `TimesStay`, for sessions of any length that are legible (`AllLegible`), and
  `UneditedReturns`, for those of them of which the decompiler kept all (`AllCarried`).
  Every call has its lines, a head and indented fields (`HeadBack` gives the head back, and
  there is the like for each kind of field); put behind one another they are the *plan* of the
  session. Its text is the plan with gaps *woven* in: notes, blank lines and expectations
  between the lines of the plan (`TextWoven`). Inserting a
  line, turning notes into expectations, leaving out times and cutting the text all keep it
  woven, the last with a part of the plan only. `TextInvariant` says what the parser then
  knows: `World`, that the text is woven, by which number of lines of the plan are in front of
  each of its lines; and `Told`, for each of the four functions, that what is behind the
  position is the preamble, so many whole operations, and so many fields of the one it reads,
  and that the entries it has made are those operations (`EntryIs`), with times half a
  microsecond off at most unless they were left out. A gap line tells none of the functions
  anything or fails one of them; a line of the plan tells the function that may see it exactly
  what was written. Where the text was left alone more is known (`Snug`): what is in between
  is blank or a note, never in front of an indented line, and a header only if it is the first
  line. So no function meets a line it objects to, and each hands on exactly behind the last
  line of its operation (`Sound`): parsing does not fail, and the session comes back
  (`UneditedReturns`). `ParseTop` would object to a second header, and that none is written is
  why the words a comment on a response begins with are followed through (`IsRemark`).
  `pack` then adds times to what was read, one after the other (`Clocked`),
  and a step that moves a left-out time by a millisecond is the one exception that
  `TimesKeepOrder` makes.

Several of these need an induction over data: that the streams `Split` makes of a recording are tiled by its records,
or that texts put together one by one are a list. The induction theorems of the library take an operator, which the
provers cannot instantiate, so the modules that need one prove their own (`LeastOf`, `Induction`): a set of numbers
without a least one would give a set of finite sets without one that is minimal by inclusion, and that there is none is
a first-order fact of the library.

The invariants of `OpDecode`, `RecordingFile` and `LiveRun` (`IInv` in each module of proofs) were checked by TLC on
the instances of the runs before they were proved.

Only model-checked: everything under fairness (`SessionEnds`, `HalfTakeoverIsResumed`, `ReadingEnds`,
`RunEnds`), since liveness is beyond the prover, and that every state of the parser has a step (deadlock);
and of `ScriptTool` what a text carries exactly and how expectations come out (`TextCarries`, `ConvertedHolds`).
`TextCarries` has two halves. That parsing gives no other requests than those that were recorded if the text can carry
them, and does not fail either, is `UneditedReturns`; that it gives something else if the text cannot carry them is
checked. This is a statement about the values of the run: whether a string that the text does not carry is
still read as itself by luck (an answer with a newline and a `#` behind it, say) depends on which it is. `ConvertedHolds`
compares each kind of answer, as it is printed, with what `expect.rs` extracts from it.

## Not modelled, and why

* *Bytes*: padding, endianness, string contents outside script texts, the 64 MiB limit. The sync encoders of `wire.rs`
  are pure.
* *Matchers*: regular expressions and numeric comparisons in expectations are pure predicates on one string.
* *The text of data*: hex digits are one token; `\r` and `\t` are treated like `\n`.
* *Statistics after `collect_ops`*, printing, colours, JSON: arithmetic and layout.
* *The clock set back*: `ProxySession` assumes it is not (the mutant of `DurationIsDefined` drops that).
* *A nix-daemon that restarts while a recorder runs*, *two recorders started together on one socket*: the second is
  allowed by `SocketTakeover` (`Recorders`) but excluded from its runs and theorems, because the daemon's socket is then
  lost and nothing promises otherwise; the first is planned.
* *Packaging, flake, examples*: data.

## Plan

What is left, in this order.

1. `SocketTakeover`: a daemon that is restarted while a recorder runs, and what shutdown then removes.
2. `LiveRun`: a daemon of another version than the recording's; a miscount in the middle of a recording.
3. Proofs: `OpDecode` for recordings with failed writes, whose streams have gaps; `ConvertedHolds`, one kind of answer
   at a time.
4. `Percentile`: nearest rank against its definition.

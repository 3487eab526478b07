-------------------------------- MODULE LiveRun --------------------------------
(***************************************************************************)
(* Playing requests against a live daemon: nix-wire-replay with --compare  *)
(* (replay.rs) and nix-wire-script run (script.rs).  Both write all their  *)
(* requests without waiting for answers, and at the same time read one     *)
(* answer after the other; the daemon takes one request at a time and      *)
(* does not take the next before it has got rid of the answer.  Between    *)
(* them are two pipes of limited size and the reader's BufReader.          *)
(*                                                                         *)
(* An answer is a sequence of messages, each a code and a body.  A code is *)
(* eight bytes, which a read from the kernel may cut in two: "lo" and "hi".*)
(* Handshakes are left out.  With --timing a request may wait as long as it *)
(* likes before it is sent, which it may here in any case.                  *)
(***************************************************************************)
EXTENDS Naturals, Sequences, FiniteSets

CONSTANTS
  Runs,         \* what may be played, and how
  RequestCap,   \* requests the pipe to the daemon holds
  AnswerCap,    \* units the pipe from the daemon holds
  SplitReads,   \* whether a code may arrive in two parts
  DaemonMayDie  \* whether the daemon may go away in between

Kinds == {<<"LAST">>, <<"NEXT", "LAST">>, <<"ERROR">>}

\* kinds[k] is how the daemon will answer request k.  In command mode it is a
\* child behind two pipes and not one socket.  Of a recording, replay knows how
\* many operations it found in it, which is wrong if it lost its way in the last
\* ones, and some of the operations have no name.  Under --fail-fast a script
\* stops where an expectation fails; 0 is nowhere, or without the option.
RunType(n) ==
  [tool : {"replay", "script"}, child : BOOLEAN, kinds : [1..n -> Kinds],
   found : Nat, unknown : SUBSET (1..n), stopAt : 0..n]

ASSUME LiveAssumption ==
  /\ \A r \in Runs : /\ r.kinds \in Seq(Kinds) /\ r \in RunType(Len(r.kinds))
                     /\ r.tool = "script" => r.found = Len(r.kinds) /\ r.unknown = {}
                     /\ r.tool = "replay" => r.stopAt = 0
  /\ RequestCap \in Nat \ {0}
  /\ AnswerCap \in Nat \ {0, 1}
  /\ SplitReads \in BOOLEAN /\ DaemonMayDie \in BOOLEAN

VARIABLES
  run,          \* what is played
  sent,         \* requests written
  writing,      \* the writer: open, failed, or closed
  incoming,     \* requests in the pipe to the daemon
  taken,        \* requests the daemon has taken
  out,          \* what it has still to write of the answer in hand
  outgoing,     \* units in the pipe from the daemon
  daemon,       \* serving, gone after its client, or dead before that
  buffer,       \* units in the BufReader
  reading,      \* the reader: peeking, in the body of a code, or how it ended
  heard,        \* <<answer, end>> for each request the reader is done with
  mismatches    \* counted by replay --compare

writer == <<sent, writing>>
server == <<taken, out, daemon>>
reader == <<buffer, reading, heard, mismatches>>
vars == <<run, writer, server, reader, incoming, outgoing>>

tool == run.tool
kinds == run.kinds
Requests == Len(run.kinds)
Ids == 1..Requests
Codes == {"NEXT", "LAST", "ERROR"}
Parts == {"lo", "hi", "body"}
Unit == [no : Ids, code : Codes, part : Parts]
Unanswered == 0

TypeOK ==
  /\ run \in Runs
  /\ sent \in 0..Requests /\ taken \in 0..sent
  /\ writing \in {"open", "failed", "closed"}
  /\ daemon \in {"serving", "gone", "dead"}
  /\ incoming \in 0..RequestCap
  /\ out \in Seq(Unit) /\ outgoing \in Seq(Unit) /\ buffer \in Seq(Unit)
  /\ Len(outgoing) <= AnswerCap
  /\ reading \in {"peek", "done", "failed", "exited", "astray"} \cup Codes
  /\ heard \in Seq((Ids \cup {Unanswered}) \X (Codes \cup {"none"}))
  /\ mismatches \in Nat

Init ==
  /\ run \in Runs
  /\ sent = 0 /\ writing = "open" /\ incoming = 0
  /\ taken = 0 /\ out = <<>> /\ outgoing = <<>> /\ daemon = "serving"
  /\ buffer = <<>> /\ reading = "peek" /\ heard = <<>>
  /\ mismatches = 0

-----------------------------------------------------------------------------
(* The writer: send_client_records, write_fut.                             *)

\* Wrong: the writer is dropped with the last request.
SendThenClose ==
  /\ writing = "open" /\ sent < Requests /\ reading # "failed"
  /\ \/ daemon # "serving" /\ writing' = "failed" /\ UNCHANGED <<sent, incoming>>
     \/ /\ daemon = "serving" /\ incoming < RequestCap
        /\ sent' = sent + 1 /\ incoming' = incoming + 1
        /\ writing' = IF sent' = Requests THEN "closed" ELSE "open"
  /\ UNCHANGED <<run, server, reader, outgoing>>

\* Wrong: one request too many.
SendOneMore ==
  /\ writing = "open" /\ sent <= Requests /\ incoming < RequestCap
  /\ sent' = sent + 1 /\ incoming' = incoming + 1
  /\ UNCHANGED <<run, writing, server, reader, outgoing>>

\* write_all and flush, which wait while the pipe is full.  try_join! drops
\* the writer of a script whose reader has failed.
Send ==
  /\ writing = "open" /\ sent < Requests
  /\ tool = "script" => reading \notin {"failed", "exited"}
  /\ \/ daemon # "serving" /\ writing' = "failed" /\ UNCHANGED <<sent, incoming>>
     \/ /\ daemon = "serving" /\ incoming < RequestCap
        /\ sent' = sent + 1 /\ incoming' = incoming + 1
        /\ UNCHANGED writing
  /\ UNCHANGED <<run, server, reader, outgoing>>

Written == sent = Requests \/ writing = "failed"
ReadOut == reading \in {"done", "failed"}

\* replay joins both sides, whatever becomes of them; script gives up when one
\* of them fails, and --fail-fast ends the process.
Over ==
  \/ Written /\ ReadOut
  \/ tool = "script" /\ (writing = "failed" \/ reading \in {"failed", "exited"})

\* Only now is the writer dropped.
Close ==
  /\ Over
  /\ writing # "closed"
  /\ writing' = "closed"
  /\ UNCHANGED <<run, sent, server, reader, incoming, outgoing>>

-----------------------------------------------------------------------------
(* The daemon, as far as the two programs rely on it.                      *)

\* The units s may be split behind the n-th on their way.
Cut(s, n) == SplitReads \/ s[n].part # "lo"

Message(k, code) == [i \in 1..3 |-> [no |-> k, code |-> code,
                                     part |-> <<"lo", "hi", "body">>[i]]]
AnswerOf(k) ==
  IF Len(kinds[k]) = 1 THEN Message(k, kinds[k][1])
  ELSE Message(k, kinds[k][1]) \o Message(k, kinds[k][2])

Take ==
  /\ daemon = "serving" /\ incoming > 0 /\ out = <<>>
  /\ incoming' = incoming - 1
  /\ taken' = taken + 1
  /\ out' = AnswerOf(taken')
  /\ UNCHANGED <<run, writer, reader, outgoing, daemon>>

\* The pipe has room for n units.
Room(n) == Len(outgoing) + n <= AnswerCap /\ Cut(out, n)

\* The reader's end of a pipe is dropped with the reader, that of a socket is not.
NobodyReads == run.child /\ ReadOut

Write ==
  /\ daemon = "serving" /\ ~NobodyReads
  /\ \E n \in 1..Len(out) :
       /\ Room(n)
       /\ outgoing' = outgoing \o SubSeq(out, 1, n)
       /\ out' = SubSeq(out, n + 1, Len(out))
  /\ UNCHANGED <<run, writer, reader, incoming, taken, daemon>>

WriteFails ==
  /\ daemon = "serving" /\ NobodyReads /\ out # <<>>
  /\ daemon' = "dead" /\ out' = <<>>
  /\ UNCHANGED <<run, writer, reader, incoming, outgoing, taken>>

\* It goes away once its client has, even in the middle of an answer, or dies.
Quit ==
  /\ daemon = "serving"
  /\ \/ writing = "closed" /\ daemon' = "gone"
     \/ DaemonMayDie /\ daemon' = "dead"
  /\ out' = <<>>
  /\ UNCHANGED <<run, writer, reader, incoming, outgoing, taken>>

-----------------------------------------------------------------------------
(* The reader: receive_daemon_responses, read_fut.                         *)

\* The reader is dropped with the writer.
Running == ~Over /\ writing # "closed"
Expecting == Len(heard) < run.found
Eof == buffer = <<>> /\ outgoing = <<>> /\ daemon # "serving"

\* A daemon that dies with unread requests may reset the connection, so that
\* what it had written is lost and a read is an error.
Resets == buffer = <<>> /\ incoming > 0 /\ daemon = "dead"

\* Response k goes to evaluate_expects; nothing that is expected of an answer
\* holds if there is none.
Hear(no, end) ==
  LET k == Len(heard) + 1
  IN  /\ heard' = Append(heard, <<no, end>>)
      /\ reading' \in IF run.stopAt = 0 THEN {"peek"}
                      ELSE IF no = Unanswered THEN {"peek", "exited"}
                      ELSE IF k = run.stopAt THEN {"exited"} ELSE {"peek"}

\* Wrong: answers are read once all requests are written.
FillAfterSending ==
  /\ Running /\ Expecting /\ sent = Requests
  /\ reading \notin {"done", "failed", "exited", "astray"}
  /\ buffer = <<>>
  /\ \E n \in 1..Len(outgoing) :
       /\ Cut(outgoing, n)
       /\ buffer' = SubSeq(outgoing, 1, n)
       /\ outgoing' = SubSeq(outgoing, n + 1, Len(outgoing))
  /\ UNCHANGED <<run, writer, server, incoming, reading, heard, mismatches>>

\* fill_buf asks the kernel only when the buffer is empty, and gets what there
\* is or the first part of it.
Fill ==
  /\ Running /\ Expecting /\ reading \notin {"done", "failed", "exited", "astray"}
  /\ buffer = <<>>
  /\ \E n \in 1..Len(outgoing) :
       /\ Cut(outgoing, n)
       /\ buffer' = SubSeq(outgoing, 1, n)
       /\ outgoing' = SubSeq(outgoing, n + 1, Len(outgoing))
  /\ UNCHANGED <<run, writer, server, incoming, reading, heard, mismatches>>

\* The body behind a code that replay does not look for: the message of an error
\* (OpDecode shows what comes of it), the result of an operation without a name.
LeavesBody(code) ==
  tool = "replay" /\ (code = "ERROR" \/ (code = "LAST" /\ Len(heard) + 1 \in run.unknown))

\* Wrong: every answer is taken to have no body.
PeekCodeOnly ==
  /\ Running /\ Expecting /\ reading = "peek"
  /\ Len(buffer) >= 2 /\ buffer[1].part = "lo"
  /\ buffer' = SubSeq(buffer, 3, Len(buffer))
  /\ IF buffer[1].code \in {"ERROR", "LAST"}
       THEN Hear(buffer[1].no, buffer[1].code)
       ELSE reading' = buffer[1].code /\ UNCHANGED heard
  /\ UNCHANGED <<run, writer, server, incoming, outgoing, mismatches>>

\* peek_u64 finds a code.
PeekCode ==
  /\ Running /\ Expecting /\ reading = "peek"
  /\ Len(buffer) >= 2 /\ buffer[1].part = "lo"
  /\ buffer' = SubSeq(buffer, 3, Len(buffer))
  /\ IF LeavesBody(buffer[1].code)
       THEN /\ Hear(buffer[1].no, buffer[1].code)
            /\ mismatches' = IF buffer[1].code = "ERROR" THEN mismatches + 1 ELSE mismatches
       ELSE reading' = buffer[1].code /\ UNCHANGED <<heard, mismatches>>
  /\ UNCHANGED <<run, writer, server, incoming, outgoing>>

\* peek_u64 finds the end of the stream, or less than eight bytes in the
\* buffer, or a value that is no code: the request counts as answered without
\* an end, and nothing is consumed.
PeekNone ==
  /\ Running /\ Expecting /\ reading = "peek"
  /\ \/ Eof
     \/ Len(buffer) = 1
     \/ Len(buffer) > 1 /\ buffer[1].part # "lo"
  /\ Hear(Unanswered, "none")
  /\ UNCHANGED <<run, writer, server, incoming, outgoing, buffer, mismatches>>

\* The body of the code in hand.
ReadBody ==
  /\ Running /\ reading \in Codes /\ buffer # <<>>
  /\ buffer' = Tail(buffer)
  /\ IF Head(buffer).part # "body" \/ Head(buffer).code # reading
       THEN reading' = "astray" /\ UNCHANGED heard
       ELSE IF reading = "NEXT" THEN reading' = "peek" /\ UNCHANGED heard
                                ELSE Hear(Head(buffer).no, reading)
  /\ UNCHANGED <<run, writer, server, incoming, outgoing, mismatches>>

\* The stream ends where a body should be.  A lost result is reported and the
\* loop goes on; any other loss ends it.
LoseBody ==
  /\ Running /\ reading \in Codes
  /\ Eof \/ Resets
  /\ IF reading = "LAST"
       THEN Hear(Unanswered, "LAST")
       ELSE /\ reading' = IF tool = "replay" THEN "done" ELSE "failed"
            /\ UNCHANGED heard
  /\ mismatches' = IF tool = "replay" THEN mismatches + 1 ELSE mismatches
  /\ UNCHANGED <<run, writer, server, incoming, outgoing, buffer>>

\* read_stderr_loop returns an error: replay leaves its loop, script fails.
PeekFails ==
  /\ Running /\ Expecting /\ reading = "peek" /\ Resets
  /\ reading' = IF tool = "replay" THEN "done" ELSE "failed"
  /\ mismatches' = IF tool = "replay" THEN mismatches + 1 ELSE mismatches
  /\ UNCHANGED <<run, writer, server, incoming, outgoing, buffer, heard>>

EndReading ==
  /\ Running /\ reading = "peek" /\ ~Expecting
  /\ reading' = "done"
  /\ UNCHANGED <<run, writer, server, incoming, outgoing, buffer,
                 heard, mismatches>>

Receive ==
  \/ Fill \/ PeekCode \/ PeekNone \/ PeekFails
  \/ ReadBody \/ LoseBody \/ EndReading
Serve == Take \/ Write \/ WriteFails

Next == Send \/ Close \/ Serve \/ Quit \/ Receive

\* The two sides of the tool are polled by one task; the daemon works.
Fairness == WF_vars(Send) /\ WF_vars(Close) /\ WF_vars(Receive) /\ WF_vars(Serve)
Spec == Init /\ [][Next]_vars /\ Fairness

-----------------------------------------------------------------------------

Final(k) == kinds[k][Len(kinds[k])]

\* What replay leaves behind of answer k, so that it finds no other behind it.
Unread(k) == tool = "replay" /\ (kinds[k] = <<"ERROR">> \/ k \in run.unknown)
LostBefore(k) == \E i \in Ids : i < k /\ Unread(i)

\* Each answer is heard for the request it answers, in spite of requests being
\* sent ahead; where the daemon went away, or an answer was not read to its end,
\* requests go without one from some point on, and none gets that of another.
AnswersAreMatched ==
  /\ reading # "astray"
  /\ \A k \in 1..Len(heard) :
       \/ k \in Ids /\ heard[k] = <<k, Final(k)>>
       \/ /\ daemon = "dead" \/ LostBefore(k)
          /\ \A i \in k..Len(heard) : heard[i][1] = Unanswered

\* The daemon is not left before it has answered: unless it went by itself, a
\* finished run has heard every answer up to where it lost its way or was to stop,
\* and --compare has counted what failed, and nothing of what it did not hear.
RunHearsAll ==
  (writing = "closed" /\ daemon # "dead") =>
    /\ \A k \in Ids :
         (k <= run.found /\ run.stopAt \notin 1..(k - 1) /\ ~LostBefore(k))
           => k <= Len(heard) /\ heard[k] = <<k, Final(k)>>
    /\ tool = "replay" =>
         mismatches = Cardinality({k \in DOMAIN heard : heard[k][2] = "ERROR"})

\* replay is through with reading, and the sender and the daemon wait for each
\* other at full pipes; or it waits for an answer to what was no request, and
\* keeps its writer, for whose end the daemon waits.
Stranded ==
  /\ tool = "replay" /\ daemon = "serving"
  /\ \/ /\ ~run.child /\ reading = "done" /\ (LostBefore(Requests) \/ run.found < Requests)
        /\ sent < Requests /\ incoming = RequestCap
        /\ out # <<>> /\ \A n \in 1..Len(out) : ~Room(n)
     \/ /\ run.found > Requests /\ ~LostBefore(Requests + 1)
        /\ sent = Requests /\ Len(heard) = Requests /\ reading = "peek"

\* A run ends, also when both pipes fill up or the daemon goes away; but for a
\* replay that did not understand its recording, or the answers, to the end.
RunEnds == <>(Over \/ Stranded)

\* "Returns Ok(None) if EOF is reached before 8 bytes are available": while the
\* daemon is there, no request goes without an end.
NoneMeansEof ==
  [][\A k \in 1..Len(heard') : heard'[k][2] = "none" /\ Len(heard) < k => Eof]_vars
=============================================================================

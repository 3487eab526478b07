------------------------------- MODULE OpDecode -------------------------------
(***************************************************************************)
(* Reading a recording back as operations.  The four loops that do it      *)
(* (decode.rs, stats.rs, replay.rs, script/decompile.rs) read an operation *)
(* and its arguments from what the client sent, then messages, an end and  *)
(* a result from what the daemon sent, and so on, each stream with its own *)
(* position and no marks to find the way back if one is missed.            *)
(*                                                                         *)
(* The session comes first: Call adds an operation and its answer to the   *)
(* two streams.  Then the recording, which a kill of the recorder may have *)
(* cut, is read by one of the loops.  A read that meets another kind of    *)
(* field than it expects may return anything: the loop is then "astray".   *)
(* Both begin with the handshake, in which the loops find the version that *)
(* all layouts behind it depend on.                                        *)
(***************************************************************************)
EXTENDS Handshake

CONSTANTS
  Readers,      \* of "decode", "stats", "replay", "decompile"
  Sessions      \* the sessions that may be recorded: what the two sides offer,
                \* the calls, and whether the recording may be cut

Answers == Terminals
CallType == [op : Ops \cup {"Unknown"}, n : Counts,
             message : Messages \cup {"none"}, answer : Answers]

Least(a, b) == IF a <= b THEN a ELSE b

\* Before 1.23 data is not framed, and no loop claims to read it.
Framed(v, c) == v >= 23 \/ c.op \notin FramedOps \cup {"NarFromPath"}

ASSUME DecodeAssumption ==
  /\ Readers \subseteq {"decode", "stats", "replay", "decompile"}
  /\ \A s \in Sessions : /\ s.offers \in [client : Nat, server : Nat, affinity : Counts]
                        /\ s.mayCut \in BOOLEAN
                        /\ s.calls \in Seq(CallType)
                        /\ \A k \in 1..Len(s.calls) :
                             Framed(Least(s.offers.client, s.offers.server), s.calls[k])

VARIABLES
  offers,   \* the versions of client and daemon in the recorded session, and
            \* whether the client says on which processors it wants to run
  mayCut,   \* whether its recording may be cut
  todo,     \* calls still to be made
  calls,    \* what really happened, in order
  client,   \* fields the client sent
  daemon,   \* fields the daemon sent
  cends,    \* cends[k]: fields in client after k - 1 calls
  dends,    \* dends[k]: fields in daemon after k - 1 calls
  cut,      \* the recording was cut
  reader,   \* the loop that reads it
  pc,       \* where that loop stands
  version,  \* what it takes for the negotiated version
  cpos,     \* fields of client consumed
  dpos,     \* fields of daemon consumed
  op,       \* operation in hand
  listed    \* <<operation, end>> for each operation it has found

session == <<offers, mayCut, todo, calls, cends, dends>>
vars == <<session, client, daemon, cut, reader, version, pc, cpos, dpos, op, listed>>

Loop == {"op", "args", "framed", "stderr", "error", "result"}
Ended == {"done", "failed", "astray"}

TypeOK ==
  /\ offers \in [client : Nat, server : Nat, affinity : Counts]
  /\ mayCut \in BOOLEAN
  /\ calls \in Seq(CallType) /\ todo \in Seq(CallType)
  /\ Len(cends) = Len(calls) + 1 /\ Len(dends) = Len(calls) + 1
  /\ cut \in BOOLEAN
  /\ reader \in Readers
  /\ pc \in {"greeting", "session", "handshake"} \cup Loop \cup Ended
  /\ version \in {0, Negotiated(offers.client, offers.server)}
  /\ cpos \in 0..Len(client) /\ dpos \in 0..Len(daemon)
  /\ op \in Ops \cup {"Unknown"}
  /\ listed \in Seq((Ops \cup {"Unknown"}) \X (Terminals \cup {"none"}))

Init ==
  /\ \E s \in Sessions : offers = s.offers /\ mayCut = s.mayCut /\ todo = s.calls
  /\ reader \in Readers
  /\ calls = <<>> /\ client = <<>> /\ daemon = <<>>
  /\ cends = <<0>> /\ dends = <<0>>
  /\ cut = FALSE
  /\ pc = "greeting"
  /\ version = 0
  /\ cpos = 0 /\ dpos = 0
  /\ op = "Unknown"
  /\ listed = <<>>

-----------------------------------------------------------------------------
(* The session, as the tables of the code and docs/wire-protocol.md have it.*)

\* "All subsequent version-gated behavior uses this negotiated version."
Spoken == Least(offers.client, offers.server)

Greet ==
  /\ pc = "greeting"
  /\ pc' = "session"
  /\ client' = IF offers.affinity = 0 THEN SerializeClientHandshake(Spoken)
               ELSE ParseHandshakeClient(Spoken, offers.affinity)
  /\ daemon' = ParseDaemonHandshake(Spoken)
  /\ cends' = <<Len(client')>> /\ dends' = <<Len(daemon')>>
  /\ UNCHANGED <<offers, mayCut, todo, calls, cut, reader, version, cpos, dpos,
                 op, listed>>

Arguments(v, c) ==
  CASE c.op \in ComplexOps \cup {"Unknown"} -> <<"str">>
    [] c.op = "AddToStore" /\ v < 25 ->
         <<"str", "u64", "u64", "str">> \o Since(v, 23, <<"framed">>)
    [] OTHER -> SerializeOpArgs(c.op, v, c.n)

Request(v, c) == <<c.op>> \o Arguments(v, c)

\* The daemon's side of a call: a message, an end, and what comes with it.
Raised(c) ==
  IF c.message = "none" THEN <<>>
  ELSE <<c.message>> \o SkipStderrPayload(c.message, c.n)
Outcome(v, c) ==
  IF c.answer = "STDERR_ERROR" THEN ErrorInfo(c.n)
  ELSE IF c.op = "Unknown" THEN <<"str">>
  ELSE ReadDaemonResult(c.op, v, c.n)
Answer(v, c) == Raised(c) \o (<<c.answer>> \o Outcome(v, c))

Call ==
  /\ pc = "session" /\ todo # <<>>
  /\ LET c == Head(todo)
     IN  /\ calls' = Append(calls, c)
         /\ client' = client \o Request(Spoken, c)
         /\ daemon' = daemon \o Answer(Spoken, c)
  /\ todo' = Tail(todo)
  /\ cends' = Append(cends, Len(client'))
  /\ dends' = Append(dends, Len(daemon'))
  /\ UNCHANGED <<offers, mayCut, cut, reader, version, pc, cpos, dpos, op, listed>>

\* The recording is whole, or was cut.  An answer is on disk only after what it
\* answers (ProxySession, FileIsCausal): it may begin while arguments are still
\* coming, and does not end before they have come.
Open ==
  /\ pc = "session" /\ todo = <<>>
  /\ pc' = "handshake"
  /\ \/ UNCHANGED <<client, daemon, cut>>
     \/ /\ mayCut
        /\ cut' = TRUE
        /\ \E i \in 0..Len(client), j \in 0..Len(daemon) :
             /\ j > 0 => i > 0
             /\ j >= dends[1] => i >= cends[1]
             /\ \A k \in 1..Len(calls) : /\ j > dends[k] => i > cends[k]
                                         /\ j >= dends[k + 1] => i >= cends[k + 1]
             /\ client' = SubSeq(client, 1, i)
             /\ daemon' = SubSeq(daemon, 1, j)
  /\ UNCHANGED <<session, reader, version, cpos, dpos, op, listed>>

-----------------------------------------------------------------------------
(* Reading fields.                                                         *)

Accepts(want, field) ==
  IF want = "u64" THEN field \notin {"str", "set", "framed"} ELSE field = want

Rest(stream, pos) == SubSeq(stream, pos + 1, Len(stream))
Fits(want, rest) ==
  \A i \in 1..Len(want) : i <= Len(rest) => Accepts(want[i], rest[i])

\* Reading one of the layouts, told apart by the counts on the way: read to its
\* end, into the end of the stream, or neither.
Whole(layouts, rest) == {w \in layouts : Fits(w, rest) /\ Len(w) <= Len(rest)}
Short(layouts, rest) == {w \in layouts : Fits(w, rest) /\ Len(w) > Len(rest)}

Layouts(L(_)) == {L(n) : n \in Counts}

\* Read layouts from the client: then go on at next, or at onError, in either
\* case with what could be read consumed.
FromClient(layouts, next, onError) ==
  LET rest == Rest(client, cpos)
  IN  \/ \E w \in Whole(layouts, rest) : cpos' = cpos + Len(w) /\ pc' = next
      \/ /\ Whole(layouts, rest) = {} /\ Short(layouts, rest) # {}
         /\ cpos' = Len(client) /\ pc' = onError
      \/ /\ Whole(layouts, rest) = {} /\ Short(layouts, rest) = {}
         /\ pc' = "astray" /\ UNCHANGED cpos

FromDaemon(layouts, next, onError) ==
  LET rest == Rest(daemon, dpos)
  IN  \/ \E w \in Whole(layouts, rest) : dpos' = dpos + Len(w) /\ pc' = next
      \/ /\ Whole(layouts, rest) = {} /\ Short(layouts, rest) # {}
         /\ dpos' = Len(daemon) /\ pc' = onError
      \/ /\ Whole(layouts, rest) = {} /\ Short(layouts, rest) = {}
         /\ pc' = "astray" /\ UNCHANGED dpos

-----------------------------------------------------------------------------
(* What a loop does when a read fails in one of its places: go on, leave    *)
(* the loop with what it has, or return the error.                         *)

DecodeOnError(place, next) == IF place = "stderr" THEN "failed" ELSE next
ReplayOnError(place, next) == IF place = "stderr" THEN "failed" ELSE next
StatsOnError(place, next) == "done"
DecompileOnError(place, next) == IF place = "result" THEN next ELSE "failed"

OnError(place, next) ==
  CASE reader = "decode"    -> DecodeOnError(place, next)
    [] reader = "replay"    -> ReplayOnError(place, next)
    [] reader = "stats"     -> StatsOnError(place, next)
    [] reader = "decompile" -> DecompileOnError(place, next)

-----------------------------------------------------------------------------
(* The loops.                                                              *)

\* parse_handshake, whose errors each of the loops returns.
ReadHandshake ==
  /\ pc = "handshake"
  /\ version' = Negotiated(offers.client, offers.server)
  /\ LET cs == Layouts(LAMBDA n : ParseHandshakeClient(version', n))
         ds == {ParseHandshakeDaemon(version')}
     IN  \/ \E c \in Whole(cs, client), d \in Whole(ds, daemon) :
              cpos' = Len(c) /\ dpos' = Len(d) /\ pc' = "op"
         \/ /\ Whole(cs, client) = {} \/ Whole(ds, daemon) = {}
            /\ pc' = IF Short(cs, client) \cup Short(ds, daemon) # {}
                       THEN "failed" ELSE "astray"
            /\ UNCHANGED <<cpos, dpos>>
  /\ UNCHANGED <<session, client, daemon, cut, reader, op, listed>>

\* Wrong: eight bytes are consumed before it is known whether they are there.
ReadOpCodeEager ==
  /\ pc = "op"
  /\ cpos' = cpos + 1
  /\ IF cpos = Len(client)
       THEN pc' = "done" /\ UNCHANGED op
       ELSE /\ op' = client[cpos + 1]
            /\ pc' = IF op' = "Unknown" THEN "done" ELSE "args"
  /\ UNCHANGED <<session, client, daemon, cut, reader, version, dpos, listed>>

\* Wrong: stats goes on at an operation it does not know.
ReadOpCodeAnyway ==
  /\ pc = "op"
  /\ \/ /\ cpos = Len(client)
        /\ pc' = "done"
        /\ UNCHANGED <<cpos, op>>
     \/ /\ cpos < Len(client)
        /\ client[cpos + 1] \in Ops \cup {"Unknown"}
        /\ op' = client[cpos + 1]
        /\ cpos' = cpos + 1
        /\ pc' = IF op' # "Unknown" THEN "args" ELSE "stderr"
  /\ UNCHANGED <<session, client, daemon, cut, reader, version, dpos, listed>>

\* peek_u64 finds an operation, or the end of the stream.  Only stats stops at
\* an operation it does not know.
ReadOpCode ==
  /\ pc = "op"
  /\ \/ /\ cpos = Len(client)
        /\ pc' = "done"
        /\ UNCHANGED <<cpos, op>>
     \/ /\ cpos < Len(client)
        /\ client[cpos + 1] \in Ops \cup {"Unknown"}
        /\ op' = client[cpos + 1]
        /\ cpos' = cpos + 1
        /\ pc' = IF op' # "Unknown" THEN "args"
                 ELSE IF reader = "stats" THEN "done" ELSE "stderr"
     \/ /\ cpos < Len(client)
        /\ client[cpos + 1] \notin Ops \cup {"Unknown"}
        /\ pc' = "astray"
        /\ UNCHANGED <<cpos, op>>
  /\ UNCHANGED <<session, client, daemon, cut, reader, version, dpos, listed>>

\* decompile reads what the others skip, and skips what it cannot read,
\* ignoring whether that worked.
ReadArgs ==
  /\ pc = "args"
  /\ IF reader = "decompile" /\ ~ReadsRaw(op, version)
       THEN FromClient(Layouts(LAMBDA n : ReadOpArgs(op, version, n)),
                       "stderr", OnError("args", "stderr"))
       ELSE FromClient(Layouts(LAMBDA n : SkipOpArgs(op, version, n)),
                       "framed",
                       IF reader = "decompile" THEN "framed"
                       ELSE OnError("args", "framed"))
  /\ UNCHANGED <<session, client, daemon, cut, reader, version, dpos, op, listed>>

ReadFramed ==
  /\ pc = "framed"
  /\ IF version >= 23 /\ op \in FramedOps
       THEN FromClient({<<"framed">>}, "stderr", OnError("framed", "stderr"))
       ELSE pc' = "stderr" /\ UNCHANGED cpos
  /\ UNCHANGED <<session, client, daemon, cut, reader, version, dpos, op, listed>>

\* decompile has no name for an operation it does not know, and takes another.
NamedAs == IF reader = "decompile" /\ op = "Unknown" THEN "IsValidPath" ELSE op
List(end) == listed' = Append(listed, <<NamedAs, end>>)

\* Wrong: the payload of a message is left in the stream.
ReadMessageOnly ==
  /\ pc = "stderr"
  /\ dpos < Len(daemon) /\ daemon[dpos + 1] \in Messages
  /\ dpos' = dpos + 1
  /\ UNCHANGED <<session, client, daemon, cut, reader, version, pc, cpos, op, listed>>

\* Wrong: the code that was peeked at is not consumed.
ReadMessagePeeking ==
  /\ pc = "stderr"
  /\ dpos < Len(daemon) /\ daemon[dpos + 1] \in Messages
  /\ UNCHANGED vars

\* One turn of read_stderr_loop that does not end it.
ReadMessage ==
  /\ pc = "stderr"
  /\ dpos < Len(daemon) /\ daemon[dpos + 1] \in Messages
  /\ LET code == daemon[dpos + 1]
     IN  FromDaemon(Layouts(LAMBDA n : <<code>> \o SkipStderrPayload(code, n)),
                    "stderr", OnError("stderr", "stderr"))
  /\ UNCHANGED <<session, client, daemon, cut, reader, version, cpos, op, listed>>

\* Its last turn.  Of the loops, only decompile reads what follows an error.
\* What is not a code, or the end of the stream, is left where it is.
ReadTerminal ==
  /\ pc = "stderr"
  /\ \/ /\ dpos < Len(daemon) /\ daemon[dpos + 1] = "STDERR_LAST"
        /\ dpos' = dpos + 1
        /\ pc' = "result"
        /\ UNCHANGED listed
     \/ /\ dpos < Len(daemon) /\ daemon[dpos + 1] = "STDERR_ERROR"
        /\ dpos' = dpos + 1
        /\ IF reader = "decompile"
             THEN pc' = "error" /\ UNCHANGED listed
             ELSE pc' = "op" /\ List("STDERR_ERROR")
     \/ /\ dpos < Len(daemon) => daemon[dpos + 1] \notin Messages \cup Terminals
        /\ pc' = "op"
        /\ List("none")
        /\ UNCHANGED dpos
  /\ UNCHANGED <<session, client, daemon, cut, reader, version, cpos, op>>

\* read_stderr_with_error, behind STDERR_ERROR.
ReadErrorInfo ==
  /\ pc = "error"
  /\ FromDaemon(Layouts(ErrorInfo), "op", OnError("error", "op"))
  /\ IF pc' = "op" THEN List("STDERR_ERROR") ELSE UNCHANGED listed
  /\ UNCHANGED <<session, client, daemon, cut, reader, version, cpos, op>>

\* A result is looked for only if the operation is known.
ReadResult ==
  /\ pc = "result"
  /\ \/ /\ op = "Unknown"
        /\ pc' = "op"
        /\ UNCHANGED dpos
     \/ /\ op # "Unknown"
        /\ IF reader = "decompile"
             THEN FromDaemon(Layouts(LAMBDA n : ReadDaemonResult(op, version, n)),
                             "op", OnError("result", "op"))
             ELSE FromDaemon(Layouts(LAMBDA n : SkipDaemonResult(op, version, n)),
                             "op", OnError("result", "op"))
  /\ IF pc' = "op" THEN List("STDERR_LAST") ELSE UNCHANGED listed
  /\ UNCHANGED <<session, client, daemon, cut, reader, version, cpos, op>>

Read ==
  \/ ReadHandshake \/ ReadOpCode \/ ReadArgs \/ ReadFramed
  \/ ReadMessage \/ ReadTerminal \/ ReadErrorInfo \/ ReadResult

Next == Greet \/ Call \/ Open \/ Read

Spec == Init /\ [][Next]_vars /\ WF_vars(Read)

-----------------------------------------------------------------------------

\* A reader understands a call if it knows how to skip both its sides.
Understood(c) ==
  /\ c.op \notin ComplexOps \cup {"Unknown"}
  /\ c.answer = "STDERR_LAST" \/ reader = "decompile"

AllUnderstood == \A k \in 1..Len(calls) : Understood(calls[k])

InStep ==
  /\ pc # "astray"
  /\ pc = "op" =>
       /\ Len(listed) <= Len(calls)
       /\ cpos = Least(cends[Len(listed) + 1], Len(client))
       /\ dpos = Least(dends[Len(listed) + 1], Len(daemon))

\* As long as calls are understood, a loop never reads one kind of field as
\* another, and whenever it looks for an operation both positions are where the
\* same call begins (or at the end of a stream that was cut): the tables for
\* skipping, reading and writing agree in every version, and each loop uses the
\* right ones in the right order.
StaysInStep == AllUnderstood => InStep

\* Nothing is listed that did not happen: what the loops list are the calls of
\* the session in order, each with its own end or, where a cut took that away,
\* without one, after which nothing else has an end.
ListedHappened ==
  AllUnderstood =>
    /\ Len(listed) <= Len(calls)
    /\ \A k \in 1..Len(listed) :
         /\ listed[k][1] = calls[k].op
         /\ \/ listed[k][2] = calls[k].answer
            \/ /\ cut
               /\ \A i \in k..Len(listed) : listed[i][2] = "none"

\* An uncut recording is listed to its last call, each with its end, and no
\* loop fails on it.
WholeIsListed ==
  AllUnderstood /\ ~cut =>
    /\ pc # "failed"
    /\ pc = "done" => Len(listed) = Len(calls)
    /\ \A k \in 1..Len(listed) : listed[k][2] = calls[k].answer

\* stats stops at the first call it does not know, before it lists something
\* else: what it counts is a prefix of what happened.
UnknownStopsStats ==
  \A k \in 1..Len(calls) :
    /\ reader = "stats" /\ calls[k].op = "Unknown"
    /\ \A i \in 1..(k - 1) : Understood(calls[i])
    => Len(listed) < k /\ pc # "astray"

\* A recording that has been opened is read to an end.
ReadingEnds == (pc = "handshake") ~> (pc \in Ended)

\* After STDERR_ERROR, "the client can send the next operation": a recording
\* with calls that fail is listed like any other.
FailedCallsAreListed ==
  (/\ ~cut /\ pc = "done"
   /\ \A k \in 1..Len(calls) : calls[k].op \notin ComplexOps \cup {"Unknown"})
  => /\ Len(listed) = Len(calls)
     /\ \A k \in 1..Len(calls) : listed[k] = <<calls[k].op, calls[k].answer>>
=============================================================================

----------------------------- MODULE MCOpDecode -----------------------------
(* Values of OpDecode's constants for TLC.                                 *)
EXTENDS OpDecode

AllReaders == {"decode", "stats", "replay", "decompile"}

\* One version on either side of each version the layouts depend on.
GateVersions == {9, 10, 11, 12, 15, 16, 22, 23, 24, 25, 26, 27, 28, 29, 36, 37}
OldAndNew == {24, 37}
\* And of each the handshake depends on.
HandshakeVersions == {10, 11, 13, 14, 32, 33, 34, 35, 37, 38}

Plain(o, n) == [op |-> o, n |-> n, message |-> "none", answer |-> "STDERR_LAST"]
Chatty(m, n) ==
  [op |-> "IsValidPath", n |-> n, message |-> m, answer |-> "STDERR_LAST"]
Failing(o, n) == [op |-> o, n |-> n, message |-> "none", answer |-> "STDERR_ERROR"]

\* Every operation, message and error, each with counts that differ.
EveryCall ==
  {Plain(o, n) : o \in Ops \cup {"Unknown"}, n \in Counts}
    \cup {Chatty(m, n) : m \in Messages, n \in Counts}
    \cup {Failing("EnsurePath", n) : n \in Counts}

\* One call of each sort that a loop treats in its own way.
SomeCalls ==
  {Plain("SetOptions", 1), Plain("AddToStore", 1),
   [op |-> "BuildPathsWithResults", n |-> 1, message |-> "STDERR_RESULT",
    answer |-> "STDERR_LAST"],
   Failing("EnsurePath", 1), Plain("Unknown", 0)}

ErrorCalls == {Plain("IsValidPath", 0), Failing("EnsurePath", 0),
               Failing("AddToStore", 1)}

Session(c, s, cs, mc) ==
  [offers |-> [client |-> c, server |-> s, affinity |-> 0],
   calls |-> cs, mayCut |-> mc]

EachCall ==
  UNION {{Session(38, v, <<c>>, FALSE) : c \in {d \in EveryCall : Framed(v, d)}} :
           v \in GateVersions}
Pairs(cs, mc) ==
  {Session(v, 38, <<c, d>>, mc) : v \in OldAndNew, c \in cs, d \in cs}

Handshakes ==
  {[offers |-> o, calls |-> <<Plain("IsValidPath", 0)>>, mayCut |-> TRUE] :
     o \in [client : HandshakeVersions, server : HandshakeVersions,
           affinity : Counts]}

EachCallAndPairs == EachCall \cup Pairs(SomeCalls, TRUE) \cup Handshakes
ErrorPairs == Pairs(ErrorCalls, FALSE)
=============================================================================

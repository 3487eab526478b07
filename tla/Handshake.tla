------------------------------ MODULE Handshake ------------------------------
(***************************************************************************)
(* The exchange in front of the operations.  Each side offers a version,   *)
(* both go on with the lower one, and what else they say depends on it.    *)
(* nix-wire reads both sides of a recording (protocol.rs,                  *)
(* parse_handshake), the daemon's side alone when it is live               *)
(* (parse_daemon_handshake), and writes the client's side for a script     *)
(* (script/serialize.rs): three tables again that nothing makes agree.     *)
(* Versions are minors of 1.x, fields are those of OpLayouts.              *)
(***************************************************************************)
EXTENDS OpLayouts

\* Wrong: the client's own version decides.
NegotiatedAsOffered(client, server) == client

Negotiated(client, server) == IF client <= server THEN client ELSE server

HasFeatures(v) == v >= 38
HasCpuAffinity(v) == v >= 14
HasReserveSpace(v) == v >= 11

\* What parse_handshake consumes of the client, n being its affinity flag.
ParseHandshakeClient(v, n) ==
  <<"WORKER_MAGIC_1", "u64">>
    \o (IF HasFeatures(v) THEN <<"set">> ELSE <<>>)
    \o (IF HasCpuAffinity(v) THEN Given(n, <<"u64">>) ELSE <<>>)
    \o (IF HasReserveSpace(v) THEN <<"u64">> ELSE <<>>)

\* What parse_handshake consumes of the daemon.
ParseHandshakeDaemon(v) ==
  <<"WORKER_MAGIC_2", "u64">>
    \o (IF HasFeatures(v) THEN <<"set">> ELSE <<>>)
    \o Since(v, 33, <<"str">>)
    \o Since(v, 35, <<"u64">>)
    \o <<"STDERR_LAST">>

\* What parse_daemon_handshake consumes of a live one.
ParseDaemonHandshake(v) ==
  <<"WORKER_MAGIC_2", "u64">>
    \o (IF HasFeatures(v) THEN <<"set">> ELSE <<>>)
    \o Since(v, 33, <<"str">>)
    \o Since(v, 35, <<"u64">>)
    \o <<"STDERR_LAST">>

\* What a script opens with: it has no affinity, and v is its own version,
\* not what will be negotiated.
SerializeClientHandshake(v) ==
  <<"WORKER_MAGIC_1", "u64">>
    \o (IF HasFeatures(v) THEN <<"set">> ELSE <<>>)
    \o (IF HasCpuAffinity(v) THEN <<Num(0)>> ELSE <<>>)
    \o (IF HasReserveSpace(v) THEN <<"u64">> ELSE <<>>)
=============================================================================

---------------------------- MODULE SocketTakeover ----------------------------
(***************************************************************************)
(* nix-wire-record in socket mode (record.rs, run_socket_mode): it moves   *)
(* the daemon's socket aside, listens in its place, hands each connection  *)
(* to the daemon, and puts the socket back when it is told to stop.        *)
(*                                                                         *)
(* The file system is two names, "socket" and "orig" (socket.orig), each   *)
(* holding a socket node or none.  A node is one bind(): nobody can be     *)
(* reached through it once its listener is closed, and only removing or    *)
(* renaming over its name makes it go away.  A kill may come between any   *)
(* two steps, and the recorder may be started again after that.            *)
(***************************************************************************)
EXTENDS Naturals

CONSTANTS
  Recorders,    \* recorder processes using the same store
  Clients,      \* Nix clients
  Daemon,       \* the node nix-daemon listens on
  None,         \* no node
  MaxBinds      \* bound: sockets bound by recorders

ASSUME TakeoverAssumption ==
  /\ MaxBinds \in Nat
  /\ Daemon \notin Nat
  /\ None \notin Nat /\ None # Daemon

Names == {"socket", "orig"}
Nodes == 1..MaxBinds \cup {Daemon}

VARIABLES
  at,       \* at[name]: the node under that name
  pc,       \* pc[r]: where run_socket_mode of r stands
  own,      \* own[r]: the node r has bound, or None
  live,     \* nodes with an open listener
  binds,    \* nodes bound so far
  conn,     \* conn[c]: how far the connection of client c has come
  via       \* via[c]: the node client c has connected to

vars == <<at, pc, own, live, binds, conn, via>>

\* off: not running; check, rename, bind: starting up; serving; remove, restore:
\* shutting down; exit: run_socket_mode has returned Ok, and the runtime is yet to
\* drop the sessions; restored, failed: the process has ended with Ok or Err.
Steps == {"off", "check", "rename", "bind", "serving", "remove", "restore", "exit",
          "restored", "failed"}
Running == {"serving", "remove", "restore", "exit"}
\* refused: accepted by a recorder that could not reach anything upstream.
Stages == {"none", "direct", "backlog", "accepted", "proxied", "refused"}

TypeOK ==
  /\ at \in [Names -> Nodes \cup {None}]
  /\ pc \in [Recorders -> Steps]
  /\ own \in [Recorders -> 1..MaxBinds \cup {None}]
  /\ live \subseteq Nodes
  /\ binds \in 0..MaxBinds
  /\ conn \in [Clients -> Stages]
  /\ via \in [Clients -> Nodes \cup {None}]

Init ==
  /\ at = [n \in Names |-> IF n = "socket" THEN Daemon ELSE None]
  /\ pc = [r \in Recorders |-> "off"]
  /\ own = [r \in Recorders |-> None]
  /\ live = {Daemon}
  /\ binds = 0
  /\ conn = [c \in Clients |-> "none"]
  /\ via = [c \in Clients |-> None]

Goto(r, from, to) == pc[r] = from /\ pc' = [pc EXCEPT ![r] = to]

\* The connections in these stages at the nodes N end.
Drop(N, stages) ==
  LET gone == {c \in Clients : via[c] \in N \ {None} /\ conn[c] \in stages}
  IN  /\ conn' = [c \in Clients |-> IF c \in gone THEN "none" ELSE conn[c]]
      /\ via' = [c \in Clients |-> IF c \in gone THEN None ELSE via[c]]

-----------------------------------------------------------------------------
(* The recorder.                                                           *)

Start(r) ==
  /\ pc[r] \in {"off", "restored", "failed"}
  /\ binds < MaxBinds
  /\ pc' = [pc EXCEPT ![r] = "check"]
  /\ UNCHANGED <<at, own, live, binds, conn, via>>

\* Wrong: a leftover socket.orig is an error.
CheckOrigRefuses(r) ==
  /\ Goto(r, "check", IF at["orig"] = None THEN "rename" ELSE "failed")
  /\ UNCHANGED <<at, own, live, binds, conn, via>>

\* Wrong: always take what is under "socket" for the daemon's.
CheckOrigNever(r) ==
  /\ Goto(r, "check", "rename")
  /\ UNCHANGED <<at, own, live, binds, conn, via>>

\* orig_path.exists(): a socket.orig left by "a previous crash" is reused.
CheckOrig(r) ==
  /\ Goto(r, "check", IF at["orig"] = None THEN "rename" ELSE "bind")
  /\ UNCHANGED <<at, own, live, binds, conn, via>>

\* rename(socket, orig) replaces whatever is under orig by now.
RenameSocket(r) ==
  /\ \/ /\ at["socket"] # None
        /\ Goto(r, "rename", "bind")
        /\ at' = [at EXCEPT !["orig"] = at["socket"], !["socket"] = None]
     \/ /\ at["socket"] = None
        /\ Goto(r, "rename", "failed")
        /\ UNCHANGED at
  /\ UNCHANGED <<own, live, binds, conn, via>>

\* Wrong: the node is numbered before it is counted.
BindMiscounts(r) ==
  /\ Goto(r, "bind", "serving")
  /\ at["socket"] = None
  /\ binds < MaxBinds
  /\ binds' = binds + 1
  /\ own' = [own EXCEPT ![r] = binds' + 1]
  /\ live' = live \cup {binds'}
  /\ at' = [at EXCEPT !["socket"] = binds']
  /\ UNCHANGED <<conn, via>>

\* bind() fails on a name in use, and the function returns with the error,
\* leaving the names as they are.
Bind(r) ==
  /\ \/ /\ at["socket"] = None
        /\ binds < MaxBinds
        /\ Goto(r, "bind", "serving")
        /\ binds' = binds + 1
        /\ own' = [own EXCEPT ![r] = binds']
        /\ live' = live \cup {binds'}
        /\ at' = [at EXCEPT !["socket"] = binds']
     \/ /\ at["socket"] # None
        /\ Goto(r, "bind", "failed")
        /\ UNCHANGED <<at, own, live, binds>>
  /\ UNCHANGED <<conn, via>>

Accept(r, c) ==
  /\ pc[r] = "serving"
  /\ conn[c] = "backlog" /\ via[c] = own[r]
  /\ conn' = [conn EXCEPT ![c] = "accepted"]
  /\ UNCHANGED <<at, pc, own, live, binds, via>>

\* handle_connection connects to what is under orig, or drops the client.
\* What it reaches there when that is not the daemon is a recorder again.
ConnectUpstream(r, c) ==
  /\ pc[r] \in Running
  /\ conn[c] = "accepted" /\ via[c] = own[r]
  /\ \/ /\ at["orig"] = Daemon /\ Daemon \in live
        /\ conn' = [conn EXCEPT ![c] = "proxied"]
        /\ UNCHANGED via
     \/ /\ at["orig"] \notin live
        /\ conn' = [conn EXCEPT ![c] = "refused"]
        /\ via' = [via EXCEPT ![c] = None]
     \/ /\ at["orig"] \in live \ {Daemon}
        /\ conn' = [conn EXCEPT ![c] = "backlog"]
        /\ via' = [via EXCEPT ![c] = at["orig"]]
  /\ UNCHANGED <<at, pc, own, live, binds>>

\* SIGINT or SIGTERM: the accept loop is aborted, which closes the listener;
\* sessions go on for the 500 ms that follow.
Stop(r) ==
  /\ Goto(r, "serving", "remove")
  /\ live' = live \ {own[r]}
  /\ Drop({own[r]}, {"backlog"})
  /\ UNCHANGED <<at, own, binds>>

\* Wrong: the socket is put back while sessions are still being set up.
RemoveSocketAndRestore(r) ==
  /\ Goto(r, "remove", "restore")
  /\ at' = [at EXCEPT !["socket"] = at["orig"], !["orig"] = None]
  /\ UNCHANGED <<own, live, binds, conn, via>>

RemoveSocket(r) ==
  /\ Goto(r, "remove", "restore")
  /\ at' = [at EXCEPT !["socket"] = None]
  /\ UNCHANGED <<own, live, binds, conn, via>>

\* Wrong: the socket is not put back.
RestoreNever(r) ==
  /\ Goto(r, "restore", "exit")
  /\ UNCHANGED <<at, own, live, binds, conn, via>>

\* rename(orig, socket), whose failure is only logged.  Sessions still run: a
\* handler that connects upstream from now on finds nobody.
Restore(r) ==
  /\ Goto(r, "restore", "exit")
  /\ at' = IF at["orig"] = None THEN at
             ELSE [at EXCEPT !["socket"] = at["orig"], !["orig"] = None]
  /\ UNCHANGED <<own, live, binds, conn, via>>

\* main returns, and the runtime drops the sessions.
Exit(r) ==
  /\ Goto(r, "exit", "restored")
  /\ own' = [own EXCEPT ![r] = None]
  /\ Drop({own[r]}, Stages)
  /\ UNCHANGED <<at, live, binds>>

\* SIGKILL, at any point.
Kill(r) ==
  /\ pc[r] \notin {"off", "restored", "failed"}
  /\ pc' = [pc EXCEPT ![r] = "off"]
  /\ own' = [own EXCEPT ![r] = None]
  /\ live' = live \ {own[r]}
  /\ Drop({own[r]}, Stages)
  /\ UNCHANGED <<at, binds>>

\* The manual fix the log asks for, mv socket.orig socket, by an administrator
\* who sees that no recorder is running.
Mend ==
  /\ \A r \in Recorders : pc[r] \in {"off", "restored", "failed"}
  /\ at["orig"] # None
  /\ at' = [at EXCEPT !["socket"] = at["orig"], !["orig"] = None]
  /\ UNCHANGED <<pc, own, live, binds, conn, via>>

-----------------------------------------------------------------------------
(* Clients connect to the well-known name.                                 *)

\* A dead or missing socket refuses the connection: nothing changes.
Connect(c) ==
  /\ conn[c] = "none"
  /\ at["socket"] \in live
  /\ conn' = [conn EXCEPT ![c] = IF at["socket"] = Daemon THEN "direct" ELSE "backlog"]
  /\ via' = [via EXCEPT ![c] = at["socket"]]
  /\ UNCHANGED <<at, pc, own, live, binds>>

Disconnect(c) ==
  /\ conn[c] # "none"
  /\ conn' = [conn EXCEPT ![c] = "none"]
  /\ via' = [via EXCEPT ![c] = None]
  /\ UNCHANGED <<at, pc, own, live, binds>>

Step(r) ==
  \/ CheckOrig(r) \/ RenameSocket(r) \/ Bind(r) \/ RemoveSocket(r) \/ Restore(r)
  \/ Exit(r)
  \/ \E c \in Clients : Accept(r, c) \/ ConnectUpstream(r, c)

Next ==
  \/ \E r \in Recorders : Start(r) \/ Step(r) \/ Stop(r) \/ Kill(r)
  \/ Mend
  \/ \E c \in Clients : Connect(c) \/ Disconnect(c)

\* A running recorder goes on by itself; nobody has to start, stop, kill or
\* use it.
Fairness ==
  /\ \A r \in Recorders :
       /\ WF_vars(CheckOrig(r)) /\ WF_vars(RenameSocket(r)) /\ WF_vars(Bind(r))
       /\ WF_vars(RemoveSocket(r)) /\ WF_vars(Restore(r)) /\ WF_vars(Exit(r))
  /\ \A r \in Recorders, c \in Clients :
       WF_vars(Accept(r, c)) /\ WF_vars(ConnectUpstream(r, c))

Spec == Init /\ [][Next]_vars /\ Fairness

-----------------------------------------------------------------------------
(* What one recorder at a time promises.                                   *)

\* Whatever is killed when, the daemon's socket is under one of the two names,
\* so that the mv of the log message never loses it.
DaemonIsKept == \E n \in Names : at[n] = Daemon

\* While it accepts, the recorder stands where clients look for the daemon and
\* the daemon stands where the recorder looks for it, so that no connection it
\* accepts is refused upstream or sent back to a recorder.
ServingIsInterposed ==
  \A r \in Recorders : pc[r] = "serving" =>
    at["socket"] = own[r] /\ own[r] \in live /\ at["orig"] = Daemon

\* An orderly exit leaves the names as if nothing had happened, even if the
\* recorder had taken over from one that was killed.
ExitRestores ==
  \A r \in Recorders :
    pc[r] \in {"exit", "restored"} => at["socket"] = Daemon /\ at["orig"] = None

\* A connection that a recorder accepted reaches the daemon, is given up by its
\* client, or dies with the recorder: the handler never finds a recorder instead of
\* the daemon, and it finds nobody only between the rename of a recorder that has
\* drained and its exit, when its client would reach the daemon itself.  So nobody is
\* refused while the recorder serves and drains, nor while no socket is there.
AcceptedReachesDaemon ==
  [][\A c \in Clients : conn[c] = "accepted" =>
       /\ conn'[c] # "backlog"
       /\ conn'[c] = "refused" =>
            /\ \E r \in Recorders : pc[r] = "exit" /\ own[r] = via[c]
            /\ at["socket"] = Daemon /\ Daemon \in live]_vars

\* A start that finds what a kill between rename and bind, or between remove
\* and restore, has left gets to serve.
HalfTakeoverIsResumed ==
  \A r \in Recorders :
    (pc[r] = "check" /\ at["orig"] = Daemon /\ at["socket"] = None)
      ~> pc[r] \in {"serving", "off"}

\* What the comment and the warning of run_socket_mode say of a restart after a
\* crash: it reuses socket.orig, and does not fail.
CrashIsRecovered == \A r \in Recorders : pc[r] # "failed"
=============================================================================

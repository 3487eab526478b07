------------------------ MODULE SocketTakeover_proofs ------------------------
(***************************************************************************)
(* What one recorder at a time promises of the daemon's socket, proved for *)
(* any number of clients, starts and kills.                                *)
(***************************************************************************)
EXTENDS SocketTakeover, TLAPS

\* The names have been swapped, or they are as nix-daemon left them.
AsFound == at["socket"] = Daemon /\ at["orig"] = None
Swapped == at["socket"] # Daemon /\ at["orig"] = Daemon

\* Where the recorder stands tells which of the two it is.
WhereItStands(r) ==
  /\ pc[r] \in {"rename", "exit", "restored"} => AsFound
  /\ pc[r] \in {"bind", "serving", "remove", "restore"} => Swapped
  /\ pc[r] = "serving" => at["socket"] = own[r] /\ own[r] \in live

TakeoverInv ==
  /\ TypeOK
  /\ Daemon \in live
  /\ AsFound \/ Swapped
  /\ \A r \in Recorders : WhereItStands(r)

-----------------------------------------------------------------------------

\* Dropping connections keeps the types of the connections: used by every step
\* that ends a listener or a process.
LEMMA DropTypes ==
  ASSUME TypeOK, NEW N, NEW stages, Drop(N, stages)
  PROVE  /\ conn' \in [Clients -> Stages]
         /\ via' \in [Clients -> Nodes \cup {None}]
BY DEF Drop, TypeOK, Stages

\* Every variable keeps its type through every step of any number of recorders.
LEMMA TypeStep == TypeOK /\ [Next]_vars => TypeOK'
<1> SUFFICES ASSUME TypeOK, [Next]_vars PROVE TypeOK'
  OBVIOUS
<1> USE DEF TypeOK, Names, Steps
<1>1. ASSUME NEW r \in Recorders, Start(r) PROVE TypeOK'
  BY <1>1 DEF Start
<1>2. ASSUME NEW r \in Recorders, CheckOrig(r) PROVE TypeOK'
  BY <1>2 DEF CheckOrig, Goto
<1>3. ASSUME NEW r \in Recorders, RenameSocket(r) PROVE TypeOK'
  BY <1>3 DEF RenameSocket, Goto
<1>4. ASSUME NEW r \in Recorders, Bind(r) PROVE TypeOK'
  <2>1. CASE at["socket"] # None
    BY <1>4, <2>1 DEF Bind, Goto
  <2>2. CASE at["socket"] = None
    <3>1. binds' \in 1..MaxBinds /\ binds' \in Nodes
      BY <1>4, <2>2, TakeoverAssumption DEF Bind, Nodes
    <3>2. pc' \in [Recorders -> Steps] /\ own' \in [Recorders -> 1..MaxBinds \cup {None}]
      BY <1>4, <2>2, <3>1 DEF Bind, Goto
    <3>3. at' \in [Names -> Nodes \cup {None}] /\ live' \subseteq Nodes
      BY <1>4, <2>2, <3>1 DEF Bind
    <3> QED
      BY <1>4, <2>2, <3>1, <3>2, <3>3 DEF Bind
  <2> QED
    BY <2>1, <2>2
<1>5. ASSUME NEW r \in Recorders, RemoveSocket(r) PROVE TypeOK'
  BY <1>5 DEF RemoveSocket, Goto
<1>6. ASSUME NEW r \in Recorders, Restore(r) PROVE TypeOK'
  BY <1>6 DEF Restore, Goto
<1>15. ASSUME NEW r \in Recorders, Exit(r) PROVE TypeOK'
  <2>1. conn' \in [Clients -> Stages] /\ via' \in [Clients -> Nodes \cup {None}]
    BY <1>15, DropTypes DEF Exit
  <2> QED
    BY <1>15, <2>1 DEF Exit, Goto
<1>7. ASSUME NEW r \in Recorders, Stop(r) PROVE TypeOK'
  <2>1. conn' \in [Clients -> Stages] /\ via' \in [Clients -> Nodes \cup {None}]
    BY <1>7, DropTypes DEF Stop
  <2> QED
    BY <1>7, <2>1 DEF Stop, Goto
<1>8. ASSUME NEW r \in Recorders, Kill(r) PROVE TypeOK'
  <2>1. conn' \in [Clients -> Stages] /\ via' \in [Clients -> Nodes \cup {None}]
    BY <1>8, DropTypes DEF Kill
  <2> QED
    BY <1>8, <2>1 DEF Kill
<1>9. ASSUME NEW r \in Recorders, NEW c \in Clients, Accept(r, c) PROVE TypeOK'
  BY <1>9 DEF Accept, Stages
<1>10. ASSUME NEW r \in Recorders, NEW c \in Clients, ConnectUpstream(r, c)
       PROVE  TypeOK'
  BY <1>10 DEF ConnectUpstream, Stages, Nodes
<1>11. ASSUME NEW c \in Clients, Connect(c) PROVE TypeOK'
  BY <1>11 DEF Connect, Stages, Nodes
<1>12. ASSUME NEW c \in Clients, Disconnect(c) PROVE TypeOK'
  BY <1>12 DEF Disconnect, Stages
<1>13. CASE Mend
  BY <1>13 DEF Mend
<1>14. CASE UNCHANGED vars
  BY <1>14 DEF vars
<1> QED
  BY <1>1, <1>2, <1>3, <1>4, <1>5, <1>6, <1>7, <1>8, <1>9, <1>10, <1>11, <1>12,
     <1>13, <1>14, <1>15 DEF Next, Step

\* A recorder has not touched anything before it is started.
LEMMA InitInv == Init => TakeoverInv
BY TakeoverAssumption
   DEF Init, TakeoverInv, TypeOK, AsFound, Swapped, WhereItStands, Names, Nodes,
       Steps, Stages, Running

-----------------------------------------------------------------------------

\* The strengthened invariant is inductive as long as no other recorder works
\* on the same two names.
LEMMA InvStep ==
  ASSUME NEW r, Recorders = {r}, TakeoverInv, [Next]_vars
  PROVE  TakeoverInv'
<1> USE TakeoverAssumption
<1>1. TypeOK /\ TypeOK'
  BY TypeStep DEF TakeoverInv
<1>2. r \in Recorders /\ \A s \in Recorders : s = r
  OBVIOUS
<1> SUFFICES /\ (Daemon \in live)'
             /\ (AsFound \/ Swapped)'
             /\ WhereItStands(r)'
  BY <1>1, <1>2 DEF TakeoverInv
<1>3. Daemon \in live /\ (AsFound \/ Swapped) /\ WhereItStands(r)
  BY <1>2 DEF TakeoverInv
<1>4. own[r] # Daemon
  BY <1>1, <1>2 DEF TypeOK
<1> USE <1>1, <1>2, <1>3, <1>4
    DEF AsFound, Swapped, WhereItStands, Names
<1>5. CASE Start(r)
  BY <1>5 DEF Start, TypeOK
<1>6. CASE CheckOrig(r)
  BY <1>6 DEF CheckOrig, Goto, TypeOK
<1>7. CASE RenameSocket(r)
  BY <1>7 DEF RenameSocket, Goto, TypeOK
<1>8. CASE Bind(r)
  BY <1>8 DEF Bind, Goto, TypeOK
<1>9. CASE RemoveSocket(r)
  BY <1>9 DEF RemoveSocket, Goto, TypeOK
<1>10. CASE Restore(r)
  BY <1>10 DEF Restore, Goto, TypeOK
<1>18. CASE Exit(r)
  BY <1>18 DEF Exit, Goto, TypeOK
<1>11. CASE Stop(r)
  BY <1>11 DEF Stop, Goto, TypeOK
<1>12. CASE Kill(r)
  BY <1>12 DEF Kill, TypeOK
<1>13. CASE \E c \in Clients : Accept(r, c)
  BY <1>13 DEF Accept
<1>14. CASE \E c \in Clients : ConnectUpstream(r, c)
  BY <1>14 DEF ConnectUpstream
<1>15. CASE \E c \in Clients : Connect(c) \/ Disconnect(c)
  BY <1>15 DEF Connect, Disconnect
<1>16. CASE Mend
  BY <1>16 DEF Mend, TypeOK
<1>17. CASE UNCHANGED vars
  BY <1>17 DEF vars
<1> QED
  BY <1>5, <1>6, <1>7, <1>8, <1>9, <1>10, <1>11, <1>12, <1>13, <1>14, <1>15,
     <1>16, <1>17, <1>18 DEF Next, Step

\* Every variable of a takeover keeps its type, for any number of recorders,
\* clients and binds.
THEOREM TypeCorrect == Spec => []TypeOK
<1>1. Init => TypeOK
  BY InitInv DEF TakeoverInv
<1> QED
  BY <1>1, TypeStep, PTL DEF Spec

\* The strengthened invariant of one recorder: the two names are as nix-daemon
\* left them or swapped, and where the recorder stands tells which.
THEOREM TakeoverInvariant ==
  ASSUME NEW r, Recorders = {r}
  PROVE  Spec => []TakeoverInv
<1>1. TakeoverInv /\ [Next]_vars => TakeoverInv'
  BY InvStep
<1> QED
  BY <1>1, InitInv, PTL DEF Spec

\* Whatever is killed when, the daemon's socket is under one of the two names.
THEOREM DaemonSurvives ==
  ASSUME NEW r, Recorders = {r}
  PROVE  Spec => []DaemonIsKept
<1>1. TakeoverInv => DaemonIsKept
  BY DEF TakeoverInv, DaemonIsKept, AsFound, Swapped, Names
<1>2. Spec => []TakeoverInv
  BY TakeoverInvariant
<1> QED
  BY <1>1, <1>2, PTL

\* A serving recorder stands between the clients and the daemon.
THEOREM ServesInPlace ==
  ASSUME NEW r, Recorders = {r}
  PROVE  Spec => []ServingIsInterposed
<1>1. TakeoverInv => ServingIsInterposed
  BY DEF TakeoverInv, ServingIsInterposed, WhereItStands, Swapped, Running
<1>2. Spec => []TakeoverInv
  BY TakeoverInvariant
<1> QED
  BY <1>1, <1>2, PTL

\* An orderly exit leaves the names as nix-daemon had left them.
THEOREM LeavesAsFound ==
  ASSUME NEW r, Recorders = {r}
  PROVE  Spec => []ExitRestores
<1>1. TakeoverInv => ExitRestores
  BY DEF TakeoverInv, ExitRestores, WhereItStands, AsFound
<1>2. Spec => []TakeoverInv
  BY TakeoverInvariant
<1> QED
  BY <1>1, <1>2, PTL

-----------------------------------------------------------------------------

\* Dropping ends a connection or leaves it as it is.
LEMMA DropOnlyEnds ==
  ASSUME NEW c \in Clients, NEW N, NEW stages, Drop(N, stages)
  PROVE  conn'[c] \in {"none", conn[c]}
BY DEF Drop

\* A connection that a recorder accepted is never sent back to a recorder, and it is
\* refused upstream only when the recorder has drained and put the daemon back where
\* its client looks for it.
THEOREM AcceptedAreServed ==
  ASSUME NEW r0, Recorders = {r0}
  PROVE  Spec => AcceptedReachesDaemon
<1> DEFINE Leaves(c) == /\ \E r \in Recorders : pc[r] = "exit" /\ own[r] = via[c]
                        /\ at["socket"] = Daemon /\ Daemon \in live
<1>1. ASSUME TakeoverInv, [Next]_vars
      PROVE  [\A c \in Clients : conn[c] = "accepted" =>
                conn'[c] # "backlog" /\ (conn'[c] = "refused" => Leaves(c))]_vars
  <2> SUFFICES ASSUME Next, NEW c \in Clients, conn[c] = "accepted"
               PROVE  conn'[c] # "backlog" /\ (conn'[c] = "refused" => Leaves(c))
    BY <1>1
  <2> USE <1>1 DEF TakeoverInv, TypeOK
  <2>1. ASSUME Stop(r0) \/ Exit(r0) \/ Kill(r0)
        PROVE  conn'[c] \notin {"refused", "backlog"}
    BY <2>1, DropOnlyEnds DEF Stop, Exit, Kill
  <2>2. ASSUME NEW d \in Clients, Accept(r0, d)
        PROVE  conn'[c] \notin {"refused", "backlog"}
    BY <2>2 DEF Accept
  <2>3. ASSUME NEW d \in Clients, ConnectUpstream(r0, d)
        PROVE  conn'[c] # "backlog" /\ (conn'[c] = "refused" => Leaves(c))
    <3>1. CASE pc[r0] = "exit"
      <4>1. at["orig"] = None /\ at["socket"] = Daemon /\ Daemon \in live
        BY <3>1 DEF WhereItStands, AsFound
      <4>2. None \notin live /\ None # Daemon
        <5>1. 1..MaxBinds \subseteq Nat
          OBVIOUS
        <5>2. None \notin Nodes
          BY <5>1, TakeoverAssumption DEF Nodes
        <5>3. live \subseteq Nodes
          OBVIOUS
        <5> QED
          BY <5>2, <5>3, TakeoverAssumption
      <4>3. at["orig"] # Daemon /\ at["orig"] \notin live \ {Daemon}
        BY <4>1, <4>2
      <4>4. conn' = [conn EXCEPT ![d] = "refused"] /\ via[d] = own[r0]
        BY <2>3, <4>3 DEF ConnectUpstream
      <4>5. conn'[c] = "refused" => c = d
        BY <4>4
      <4>6. conn'[c] = "refused" => Leaves(c)
        BY <3>1, <4>1, <4>4, <4>5
      <4> QED
        BY <4>4, <4>6
    <3>2. CASE pc[r0] # "exit"
      <4>1. at["orig"] = Daemon /\ Daemon \in live
        BY <2>3, <3>2 DEF ConnectUpstream, WhereItStands, Swapped, Running
      <4> QED
        BY <2>3, <4>1 DEF ConnectUpstream
    <3> QED
      BY <3>1, <3>2
  <2>4. ASSUME NEW d \in Clients, Connect(d) \/ Disconnect(d)
        PROVE  conn'[c] \notin {"refused", "backlog"}
    BY <2>4 DEF Connect, Disconnect
  <2>5. ASSUME \/ Start(r0) \/ CheckOrig(r0) \/ RenameSocket(r0) \/ Bind(r0)
               \/ RemoveSocket(r0) \/ Restore(r0) \/ Mend
        PROVE  conn'[c] \notin {"refused", "backlog"}
    BY <2>5 DEF Start, CheckOrig, RenameSocket, Bind, RemoveSocket, Restore, Mend
  <2> HIDE DEF Leaves
  <2> QED
    BY <2>1, <2>2, <2>3, <2>4, <2>5 DEF Next, Step
<1>2. TakeoverInv /\ [Next]_vars =>
        [\A c \in Clients : conn[c] = "accepted" =>
           /\ conn'[c] # "backlog"
           /\ conn'[c] = "refused" =>
                /\ \E r \in Recorders : pc[r] = "exit" /\ own[r] = via[c]
                /\ at["socket"] = Daemon /\ Daemon \in live]_vars
  BY <1>1
<1>3. Spec => []TakeoverInv
  BY TakeoverInvariant
<1> QED
  BY <1>2, <1>3, PTL DEF Spec, AcceptedReachesDaemon
=============================================================================

-------------------------- MODULE RecordingNames_proofs --------------------------
(***************************************************************************)
(* Recorders that use a directory one after the other never write over a   *)
(* recording, and number recordings in the order of their sessions, for    *)
(* any number of processes, files and sessions.                            *)
(*                                                                         *)
(* NamesInv is what makes these inductive: a name given out is neither     *)
(* taken nor given out twice until its file exists, because the counter of *)
(* the one process that is running is past all of them.                    *)
(***************************************************************************)
EXTENDS RecordingNames, TLAPS

OneAtATime == \A p, q \in Alive : p = q

\* Nothing is pending that the running process did not name.
PendingIsAlive == \A x \in pending : x.by \in Alive

PendingIsFree ==
  /\ \A x \in pending : file[x.id] = NoFile
  /\ \A x, y \in pending : x.id = y.id => x = y

CounterIsPast ==
  \A p \in Processes : mode[p] = "socket" =>
    /\ \A i \in Used : i < counter[p]
    /\ \A x \in pending : x.id < counter[p]

\* Later sessions have higher numbers, be their files there or pending.
InOrder ==
  /\ \A i \in Used : file[i] <= sessions
  /\ \A x \in pending : x.session <= sessions /\ x.session # Earlier
  /\ \A i, j \in Used : i < j /\ file[j] # Earlier => file[i] < file[j]
  /\ \A i \in Used, x \in pending :
       /\ i < x.id => file[i] < x.session
       /\ x.id < i /\ file[i] # Earlier => x.session < file[i]
  /\ \A x, y \in pending : x.id < y.id => x.session < y.session

NamesInv ==
  TypeOK /\ OneAtATime /\ PendingIsAlive /\ PendingIsFree /\ CounterIsPast /\ InOrder

-----------------------------------------------------------------------------

\* NamesInv holds of the recordings found at the start.
LEMMA InitNames == ASSUME NamesAssumption, Init PROVE NamesInv
<1> USE NamesAssumption DEF Init, NamesAssumption
<1>1. TypeOK
  BY DEF TypeOK, Ids, Earlier
<1>2. OneAtATime /\ PendingIsAlive /\ PendingIsFree /\ CounterIsPast
  BY DEF OneAtATime, PendingIsAlive, PendingIsFree, CounterIsPast, Alive
<1>3. InOrder
  BY DEF InOrder, Used, Earlier, Ids
<1> QED
  BY <1>1, <1>2, <1>3 DEF NamesInv

\* Every step of recorders that take turns keeps NamesInv.
LEMMA NextNames ==
  ASSUME NamesAssumption, ~Shared, NamesInv, [Next]_vars
  PROVE  NamesInv'
<1> USE NamesAssumption DEF NamesAssumption
<1>0. TypeOK /\ OneAtATime /\ PendingIsAlive /\ PendingIsFree /\ CounterIsPast /\ InOrder
  BY DEF NamesInv
<1>1. ASSUME NEW p \in Processes, StartSocket(p)
      PROVE  NamesInv'
  <2> PICK n \in 0..(MaxId + 1) : IsNextId(n) /\ counter' = [counter EXCEPT ![p] = n]
    BY <1>1 DEF StartSocket
  <2> Alive = {} /\ mode' = [mode EXCEPT ![p] = "socket"]
        /\ pending' = pending /\ file' = file /\ sessions' = sessions
    BY <1>1 DEF StartSocket, MayStart
  <2>1. pending = {}
    BY <1>0 DEF PendingIsAlive
  <2>2. TypeOK'
    BY <1>0 DEF TypeOK
  <2>3. OneAtATime' /\ PendingIsAlive' /\ PendingIsFree'
    BY <1>0, <2>1 DEF TypeOK, OneAtATime, PendingIsAlive, PendingIsFree, Alive
  <2>4. CounterIsPast'
    <3> SUFFICES ASSUME NEW q \in Processes, mode'[q] = "socket"
                 PROVE  /\ \A i \in Used' : i < counter'[q]
                        /\ \A x \in pending' : x.id < counter'[q]
      BY DEF CounterIsPast
    <3>1. q = p
      BY <1>0 DEF TypeOK, Alive
    <3>2. counter'[p] = n /\ Used' = Used
      BY <1>0 DEF TypeOK, Used
    <3> QED
      BY <2>1, <3>1, <3>2 DEF IsNextId
  <2>5. InOrder'
    BY <1>0 DEF InOrder, Used
  <2> QED
    BY <2>2, <2>3, <2>4, <2>5 DEF NamesInv
<1>2. ASSUME NEW p \in Processes, Accept(p)
      PROVE  NamesInv'
  <2> DEFINE new == [by |-> p, id |-> counter[p], session |-> sessions + 1]
  <2>1. /\ mode[p] = "socket" /\ counter[p] \in Ids
        /\ sessions' = sessions + 1
        /\ pending' = pending \cup {new}
        /\ counter' = [counter EXCEPT ![p] = @ + 1]
        /\ mode' = mode /\ file' = file
    BY <1>2 DEF Accept
  <2>2. /\ \A i \in Used : i < counter[p]
        /\ \A x \in pending : x.id < counter[p]
    BY <1>0, <2>1 DEF CounterIsPast
  <2>3. new \in [by : Processes, id : Ids, session : Nat] /\ new.session # Earlier
    BY <1>0, <2>1 DEF TypeOK, Earlier
  <2> HIDE DEF new
  <2>4. /\ new.by = p /\ new.id = counter[p] /\ new.session = sessions + 1
        /\ Used' = Used /\ Alive' = Alive
    BY <2>1 DEF new, Used, Alive
  <2>5. TypeOK'
    BY <1>0, <2>1, <2>3 DEF TypeOK
  <2>6. OneAtATime' /\ PendingIsAlive'
    BY <1>0, <2>1, <2>4 DEF OneAtATime, PendingIsAlive, Alive
  <2>7. PendingIsFree'
    <3>1. file[counter[p]] = NoFile
      BY <1>0, <2>1, <2>2 DEF TypeOK, Used, Ids
    <3>2. \A x \in pending : x.id # new.id
      BY <1>0, <2>2, <2>4 DEF TypeOK, Ids
    <3> QED
      BY <1>0, <2>1, <2>4, <3>1, <3>2 DEF PendingIsFree
  <2>8. CounterIsPast'
    <3> SUFFICES ASSUME NEW q \in Processes, mode'[q] = "socket"
                 PROVE  /\ \A i \in Used' : i < counter'[q]
                        /\ \A x \in pending' : x.id < counter'[q]
      BY DEF CounterIsPast
    <3>1. q = p
      BY <1>0, <2>1 DEF OneAtATime, Alive
    <3>2. counter'[p] = counter[p] + 1 /\ counter[p] \in Nat
      BY <1>0, <2>1 DEF TypeOK
    <3>3. \A i \in Used : i \in Nat
      BY DEF Used, Ids
    <3>4. \A x \in pending : x.id \in Nat
      BY <1>0 DEF TypeOK, Ids
    <3>5. \A i \in Used : i < counter[p] + 1
      BY <2>2, <3>2, <3>3
    <3>6. \A x \in pending : x.id < counter[p] + 1
      BY <2>2, <3>2, <3>4
    <3> QED
      BY <2>1, <2>4, <3>1, <3>2, <3>5, <3>6
  <2>9. InOrder'
    <3>0. /\ \A i \in Used : i \in Nat /\ file[i] \in Nat
          /\ \A x \in pending : x.id \in Nat /\ x.session \in Nat
          /\ sessions \in Nat /\ counter[p] \in Nat
      BY <1>0 DEF TypeOK, Ids, Used
    <3>1. \A i \in Used' : file'[i] <= sessions'
      BY <1>0, <2>1, <2>4, <3>0 DEF InOrder
    <3>2. \A x \in pending' : x.session <= sessions' /\ x.session # Earlier
      BY <1>0, <2>1, <2>3, <2>4, <3>0 DEF InOrder
    <3>3. \A i, j \in Used' : i < j /\ file'[j] # Earlier => file'[i] < file'[j]
      BY <1>0, <2>1, <2>4 DEF InOrder
    <3>4. \A i \in Used' : /\ i < new.id => file'[i] < new.session
                           /\ new.id < i /\ file'[i] # Earlier => new.session < file'[i]
      BY <1>0, <2>1, <2>2, <2>4, <3>0 DEF InOrder
    <3>5. \A i \in Used', x \in pending' :
            /\ i < x.id => file'[i] < x.session
            /\ x.id < i /\ file'[i] # Earlier => x.session < file'[i]
      BY <1>0, <2>1, <2>4, <3>4 DEF InOrder
    <3>6. \A x \in pending : ~(new.id < x.id) /\ x.session < new.session
      BY <1>0, <2>2, <2>4, <3>0 DEF InOrder
    <3>7. \A x, y \in pending' : x.id < y.id => x.session < y.session
      BY <1>0, <2>1, <2>4, <3>0, <3>6 DEF InOrder
    <3> QED
      BY <3>1, <3>2, <3>3, <3>5, <3>7 DEF InOrder
  <2> QED
    BY <2>5, <2>6, <2>7, <2>8, <2>9 DEF NamesInv
<1>3. ASSUME NEW p \in Processes, StartCommand(p)
      PROVE  NamesInv'
  <2> PICK n \in Ids :
        /\ IsNextId(n)
        /\ pending' = pending \cup {[by |-> p, id |-> n, session |-> sessions']}
    BY <1>3 DEF StartCommand
  <2> DEFINE new == [by |-> p, id |-> n, session |-> sessions + 1]
  <2>1. /\ Alive = {}
        /\ sessions' = sessions + 1
        /\ counter' = [counter EXCEPT ![p] = 1]
        /\ mode' = [mode EXCEPT ![p] = "command"]
        /\ file' = file
    BY <1>3 DEF StartCommand, MayStart
  <2>2. pending = {} /\ pending' = {new}
    BY <1>0, <2>1 DEF PendingIsAlive
  <2>3. new \in [by : Processes, id : Ids, session : Nat] /\ new.session # Earlier
    BY <1>0 DEF TypeOK, Earlier
  <2> HIDE DEF new
  <2>4. /\ new.by = p /\ new.id = n /\ new.session = sessions + 1
        /\ Used' = Used
        /\ Alive' = {p}
    BY <1>0, <2>1 DEF new, Used, Alive, TypeOK
  <2>5. TypeOK'
    BY <1>0, <2>1, <2>2, <2>3 DEF TypeOK
  <2>6. OneAtATime' /\ PendingIsAlive'
    BY <2>2, <2>4 DEF OneAtATime, PendingIsAlive
  <2>7. PendingIsFree'
    <3>1. file[n] = NoFile
      BY DEF IsNextId, Used, Ids
    <3> QED
      BY <2>1, <2>2, <2>4, <3>1 DEF PendingIsFree
  <2>8. CounterIsPast'
    BY <1>0, <2>1 DEF CounterIsPast, TypeOK, Alive
  <2>9. InOrder'
    <3>0. /\ \A i \in Used : i \in Nat /\ file[i] \in Nat
          /\ sessions \in Nat /\ n \in Nat
      BY <1>0 DEF TypeOK, Ids, Used
    <3>1. \A i \in Used : i < n /\ file[i] <= sessions
      BY <1>0 DEF IsNextId, InOrder
    <3> QED
      BY <1>0, <2>1, <2>2, <2>3, <2>4, <3>0, <3>1 DEF InOrder
  <2> QED
    BY <2>5, <2>6, <2>7, <2>8, <2>9 DEF NamesInv
<1>4. ASSUME NEW x \in pending, CreateFile(x)
      PROVE  NamesInv'
  <2>1. /\ pending' = pending \ {x}
        /\ file' = [file EXCEPT ![x.id] = x.session]
        /\ mode' = mode /\ counter' = counter /\ sessions' = sessions
    BY <1>4 DEF CreateFile
  <2>2. x.id \in Ids /\ x.session \in Nat /\ x.by \in Processes
    BY <1>0 DEF TypeOK
  <2>3. Used' = Used \cup {x.id} /\ Alive' = Alive
    BY <1>0, <2>1, <2>2 DEF TypeOK, Used, Alive
  <2>4. /\ file'[x.id] = x.session
        /\ \A i \in Used : file'[i] = file[i] /\ i # x.id
    BY <1>0, <2>1, <2>2 DEF TypeOK, PendingIsFree, Used
  <2>5. TypeOK'
    BY <1>0, <2>1, <2>2 DEF TypeOK
  <2>6. OneAtATime' /\ PendingIsAlive'
    BY <1>0, <2>1, <2>3 DEF OneAtATime, PendingIsAlive
  <2>7. PendingIsFree'
    BY <1>0, <2>1, <2>2 DEF PendingIsFree, TypeOK
  <2>8. CounterIsPast'
    BY <1>0, <2>1, <2>3 DEF CounterIsPast
  <2>9. InOrder'
    <3>1. \A i \in Used' : file'[i] <= sessions'
      BY <1>0, <2>1, <2>3, <2>4 DEF InOrder
    <3>2. \A y \in pending' : y.session <= sessions' /\ y.session # Earlier
      BY <1>0, <2>1 DEF InOrder
    <3>3. \A i, j \in Used' : i < j /\ file'[j] # Earlier => file'[i] < file'[j]
      <4> SUFFICES ASSUME NEW i \in Used', NEW j \in Used', i < j, file'[j] # Earlier
                   PROVE  file'[i] < file'[j]
        OBVIOUS
      <4>1. CASE i \in Used /\ j \in Used
        BY <1>0, <2>4, <4>1 DEF InOrder
      <4>2. CASE i = x.id /\ j \in Used
        BY <1>0, <2>4, <4>2 DEF InOrder
      <4>3. CASE i \in Used /\ j = x.id
        BY <1>0, <2>4, <4>3 DEF InOrder
      <4>4. CASE i = x.id /\ j = x.id
        BY <2>2, <4>4 DEF Ids
      <4> QED
        BY <2>3, <4>1, <4>2, <4>3, <4>4
    <3>4. \A i \in Used', y \in pending' :
            /\ i < y.id => file'[i] < y.session
            /\ y.id < i /\ file'[i] # Earlier => y.session < file'[i]
      BY <1>0, <2>1, <2>3, <2>4 DEF InOrder
    <3>5. \A y, z \in pending' : y.id < z.id => y.session < z.session
      BY <1>0, <2>1 DEF InOrder
    <3> QED
      BY <3>1, <3>2, <3>3, <3>4, <3>5 DEF InOrder
  <2> QED
    BY <2>5, <2>6, <2>7, <2>8, <2>9 DEF NamesInv
<1>5. ASSUME NEW p \in Processes, Exit(p)
      PROVE  NamesInv'
  <2>1. /\ mode' = [mode EXCEPT ![p] = "off"]
        /\ counter' = [counter EXCEPT ![p] = 0]
        /\ pending' = {x \in pending : x.by # p}
        /\ file' = file /\ sessions' = sessions
    BY <1>5 DEF Exit
  <2>2. TypeOK'
    BY <1>0, <2>1 DEF TypeOK
  <2>3. OneAtATime' /\ PendingIsAlive' /\ PendingIsFree'
    BY <1>0, <2>1 DEF TypeOK, OneAtATime, PendingIsAlive, PendingIsFree, Alive
  <2>4. CounterIsPast'
    BY <1>0, <2>1 DEF TypeOK, CounterIsPast, Used
  <2>5. InOrder'
    BY <1>0, <2>1 DEF InOrder, Used
  <2> QED
    BY <2>2, <2>3, <2>4, <2>5 DEF NamesInv
<1>6. ASSUME NEW i \in Ids, Remove(i)
      PROVE  NamesInv'
  <2>1. /\ file' = [file EXCEPT ![i] = NoFile]
        /\ mode' = mode /\ counter' = counter /\ pending' = pending
        /\ sessions' = sessions
    BY <1>6 DEF Remove
  <2>2. /\ Used' = Used \ {i} /\ Alive' = Alive
        /\ \A j \in Used' : file'[j] = file[j]
    BY <1>0, <2>1 DEF TypeOK, Used, Alive
  <2>3. TypeOK'
    BY <1>0, <2>1 DEF TypeOK
  <2>4. OneAtATime' /\ PendingIsAlive' /\ CounterIsPast'
    BY <1>0, <2>1, <2>2 DEF OneAtATime, PendingIsAlive, CounterIsPast
  <2>5. PendingIsFree'
    BY <1>0, <2>1 DEF TypeOK, PendingIsFree
  <2>6. InOrder'
    BY <1>0, <2>1, <2>2 DEF InOrder
  <2> QED
    BY <2>3, <2>4, <2>5, <2>6 DEF NamesInv
<1>7. CASE UNCHANGED vars
  BY <1>0, <1>7 DEF vars, NamesInv, TypeOK, OneAtATime, PendingIsAlive, PendingIsFree,
                    CounterIsPast, InOrder, Used, Alive
<1> QED
  BY <1>1, <1>2, <1>3, <1>4, <1>5, <1>6, <1>7 DEF Next

\* Every variable keeps its type, also with recorders side by side.
THEOREM TypeCorrect == Spec => []TypeOK
<1>1. Init => TypeOK
  BY NamesAssumption DEF Init, TypeOK, NamesAssumption, Ids, Earlier
<1>2. TypeOK /\ [Next]_vars => TypeOK'
  <2> SUFFICES ASSUME TypeOK, [Next]_vars PROVE TypeOK'
    OBVIOUS
  <2>0. MaxId \in Nat /\ sessions + 1 \in Nat
    BY NamesAssumption DEF NamesAssumption, TypeOK
  <2>1. ASSUME NEW p \in Processes, StartSocket(p) PROVE TypeOK'
    BY <2>0, <2>1 DEF StartSocket, TypeOK
  <2>2. ASSUME NEW p \in Processes, Accept(p) PROVE TypeOK'
    BY <2>0, <2>2 DEF Accept, TypeOK
  <2>3. ASSUME NEW p \in Processes, StartCommand(p) PROVE TypeOK'
    BY <2>0, <2>3 DEF StartCommand, TypeOK
  <2>4. ASSUME NEW p \in Processes, Exit(p) PROVE TypeOK'
    BY <2>4 DEF Exit, TypeOK
  <2>5. ASSUME NEW x \in pending, CreateFile(x) PROVE TypeOK'
    BY <2>5 DEF CreateFile, TypeOK
  <2>6. ASSUME NEW i \in Ids, Remove(i) PROVE TypeOK'
    BY <2>6 DEF Remove, TypeOK
  <2>7. CASE UNCHANGED vars
    BY <2>7 DEF vars, TypeOK
  <2> QED
    BY <2>1, <2>2, <2>3, <2>4, <2>5, <2>6, <2>7 DEF Next
<1> QED
  BY <1>1, <1>2, PTL DEF Spec

\* The strengthened invariant of the names, for recorders that take turns.
THEOREM NamesInvariant == ASSUME ~Shared PROVE Spec => []NamesInv
<1>1. Init => NamesInv
  BY InitNames, NamesAssumption
<1>2. NamesInv /\ [Next]_vars => NamesInv'
  BY NextNames, NamesAssumption
<1> QED
  BY <1>1, <1>2, PTL DEF Spec

\* Recorders that take turns in a directory number their recordings in the
\* order of the sessions, over restarts, kills and removed recordings.
THEOREM NumbersAreInOrder == ASSUME ~Shared PROVE Spec => []NumbersFollowSessions
<1>1. NamesInv => NumbersFollowSessions
  BY DEF NamesInv, InOrder, NumbersFollowSessions
<1> QED
  BY <1>1, NamesInvariant, PTL

\* No step writes over a file that is there: File::create in handle_connection
\* and run_command_mode never truncates a recording, unless recorders run side
\* by side.
THEOREM NothingIsOverwritten == ASSUME ~Shared PROVE Spec => NeverOverwrites
<1>1. ASSUME NamesInv, [Next]_vars, NEW i \in Ids, file[i] # NoFile
      PROVE  file'[i] \in {file[i], NoFile}
  <2>0. TypeOK /\ PendingIsFree
    BY <1>1 DEF NamesInv
  <2>1. CASE file' = file
    BY <2>1
  <2>2. ASSUME NEW x \in pending, CreateFile(x)
        PROVE  file'[i] = file[i]
    BY <1>1, <2>0, <2>2 DEF CreateFile, PendingIsFree, TypeOK
  <2>3. ASSUME NEW j \in Ids, Remove(j)
        PROVE  file'[i] \in {file[i], NoFile}
    BY <2>0, <2>3 DEF Remove, TypeOK
  <2> QED
    BY <1>1, <2>1, <2>2, <2>3
       DEF Next, StartSocket, Accept, StartCommand, Exit, vars
<1>2. NamesInv /\ [Next]_vars
        => [\A i \in Ids : file[i] # NoFile => file'[i] \in {file[i], NoFile}]_vars
  BY <1>1
<1> QED
  BY <1>2, NamesInvariant, PTL DEF Spec, NeverOverwrites
=============================================================================

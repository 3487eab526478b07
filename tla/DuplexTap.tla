------------------------------ MODULE DuplexTap ------------------------------
(***************************************************************************)
(* What a recorder on a two-way stream promises, whatever it is made of:   *)
(* each chunk that was sent is put on the tape in its turn, and is         *)
(* delivered only when it is on the tape.  A chunk carries the number of   *)
(* chunks of the other direction its sender had seen, which can only be    *)
(* chunks already delivered, so the tape holds the past of all it holds.   *)
(* Once the tape has failed it may miss chunks, but it never invents or    *)
(* unlearns one, and the stream goes on.                                   *)
(***************************************************************************)
EXTENDS Naturals, Sequences

CONSTANT Dirs   \* the directions of the stream

VARIABLES
  sent,       \* sent[d]: the chunks sent so far, each as what it had seen
  tape,       \* the <<direction, number>> of the recorded chunks
  delivered,  \* delivered[d]: how many chunks the sink was given
  lossy       \* the tape has failed

vars == <<sent, tape, delivered, lossy>>

Init ==
  /\ sent = [d \in Dirs |-> <<>>]
  /\ tape = {}
  /\ delivered = [d \in Dirs |-> 0]
  /\ lossy = FALSE

Send(d) ==
  /\ \E e \in Dirs \ {d} : \E seen \in 0..delivered[e] :
       sent' = [sent EXCEPT ![d] = Append(@, seen)]
  /\ UNCHANGED <<tape, delivered, lossy>>

Record(d) ==
  /\ \E k \in 1..Len(sent[d]) :
       /\ \A j \in 1..(k - 1) : <<d, j>> \in tape
       /\ tape' = tape \cup {<<d, k>>}
  /\ UNCHANGED <<sent, delivered, lossy>>

Deliver(d) ==
  /\ delivered[d] < Len(sent[d])
  /\ lossy \/ <<d, delivered[d] + 1>> \in tape
  /\ delivered' = [delivered EXCEPT ![d] = @ + 1]
  /\ UNCHANGED <<sent, tape, lossy>>

\* The tape fails, now or before; what it had not yet kept may come late.
Falter ==
  /\ lossy'
  /\ tape \subseteq tape'
  /\ \A x \in tape' \ tape : x[1] \in Dirs /\ x[2] \in 1..Len(sent[x[1]])
  /\ UNCHANGED <<sent, delivered>>

Next ==
  \/ \E d \in Dirs : Send(d) \/ Record(d) \/ Deliver(d)
  \/ Falter

Spec == Init /\ [][Next]_vars
=============================================================================

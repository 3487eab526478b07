------------------------------ MODULE MCLiveRun ------------------------------
(* Values of LiveRun's constants for TLC.                                  *)
EXTENDS LiveRun

Script(ks, child, stop) ==
  [tool |-> "script", child |-> child, kinds |-> ks, found |-> Len(ks),
   unknown |-> {}, stopAt |-> stop]
Replay(ks, child, found, unknown) ==
  [tool |-> "replay", child |-> child, kinds |-> ks, found |-> found,
   unknown |-> unknown, stopAt |-> 0]

\* Three requests with any answers, stopping anywhere.
ScriptRuns == {Script(ks, c, stop) : ks \in [1..3 -> Kinds], c \in BOOLEAN, stop \in 0..3}

\* Four requests, all, some or more of them found in the recording, of which at
\* most one has an answer that is not read to its end:
\* enough for a sender to wait while one is answered and one on its way.
Understood == [1..4 -> {<<"LAST">>, <<"NEXT", "LAST">>}]
ReplayRuns ==
  {Replay(ks, c, found, {}) : ks \in Understood, c \in BOOLEAN, found \in {1, 3, 4, 5}}
    \cup {Replay([ks EXCEPT ![k] = <<"ERROR">>], c, 4, {}) :
            ks \in Understood, c \in BOOLEAN, k \in 1..4}
    \cup {Replay(ks, c, 4, {k}) : ks \in Understood, c \in BOOLEAN, k \in 1..4}

AllRuns == ScriptRuns \cup ReplayRuns
ShortReplays == {Replay(<<<<"LAST">>, <<"NEXT", "LAST">>>>, FALSE, 2, {})}
=============================================================================

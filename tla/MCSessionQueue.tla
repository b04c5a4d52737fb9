---------------------------- MODULE MCSessionQueue ----------------------------
(*****************************************************************************)
(* Instances of SessionQueue for TLC. Sessions are numbered by age, 1 is the *)
(* older one. One session is enough for processes to race about its markers, *)
(* two for one session to be ahead of another in a queue.                    *)
(*****************************************************************************)
EXTENDS SessionQueue, TLC

One == {1}
Two == {1, 2}

\* Slow and broken sessions, then bounds: session ends, failed distills, killed hooks.
Setup(v, h, q, slow, broken, e, f, k) ==
  [vector |-> v, hermes |-> h, sessions |-> q, slow |-> slow, broken |-> broken,
   ends |-> e, failures |-> f, kills |-> k]

SettleScenarios ==
  { Setup(FALSE, FALSE, Two, {}, {}, 1, 1, 1),    \* hook and collector, no hermes
    Setup(FALSE, FALSE, Two, {}, {2}, 1, 1, 1),   \* ... the newest fails each time
    Setup(FALSE, FALSE, Two, {1}, {2}, 0, 0, 0),  \* ... and the other is too slow
    Setup(FALSE, TRUE, Two, {2}, {}, 0, 0, 0),    \* collector and hermes, too slow
    Setup(FALSE, TRUE, One, {}, {1}, 0, 0, 0),    \* ... one that fails each time
    Setup(FALSE, TRUE, One, {}, {}, 0, 1, 1),     \* ... a failure, a killed hook
    Setup(FALSE, TRUE, One, {}, {}, 1, 0, 0),     \* all three
    Setup(TRUE, TRUE, One, {}, {}, 0, 0, 0) }     \* collector and hermes, vectors
==============================================================================

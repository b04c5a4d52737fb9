----------------------------- MODULE MCWikiIndex -----------------------------
(*****************************************************************************)
(* Instances of WikiIndex for TLC: a text about one thing, a richer one about*)
(* it in its title, and one that is not UTF-8.                               *)
(*****************************************************************************)
EXTENDS WikiIndex, TLC

CONSTANTS plain, rich, garbled, f1, f2

MCInTitle == [t \in Texts |-> [w \in Terms |-> IF t = rich THEN 1 ELSE 0]]
MCInBody == [t \in Texts |-> [w \in Terms |-> IF t = garbled THEN 0 ELSE 1]]
MCProjectOf == [t \in Texts |-> IF t = rich THEN "p2" ELSE "p1"]
Ask(k, project, since) == [terms |-> Terms, k |-> k, project |-> project, since |-> since]
MCRequests == [i \in Indexes |->
  IF i \in Resident THEN {Ask(1, None, None), Ask(2, None, 4), Ask(2, "p1", 6)}
  ELSE {Ask(1, None, None)}]
Symmetry == Permutations(Files)
==============================================================================

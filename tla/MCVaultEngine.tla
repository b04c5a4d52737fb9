---------------------------- MODULE MCVaultEngine ----------------------------
(*****************************************************************************)
(* Instances of VaultEngine for TLC, over three notes; `better` scores high  *)
(* enough to replace `draft`, and the link queries connect `other` with both.*)
(*  - Door (two clients): `better` is of another session than `draft`, but   *)
(*    similar to it; `other` has the title of `better` and no session.       *)
(*  - Gate (one client): `draft` and `better` are similar and of one session,*)
(*    `other` of another, with the title of `better`.                        *)
(*  - Order (one client): `better` and `other` are of one session, and       *)
(*    `better` is similar to `draft`, of another one.                        *)
(*****************************************************************************)
EXTENDS VaultEngine, TLC

CONSTANTS draft, better, other

MCTopic == [n \in Notes |-> IF n = draft THEN "t1" ELSE "t2"]
MCScore == [n \in Notes |-> IF n = better THEN 9 ELSE 1]
MCEvidence == [n \in Notes |-> FALSE]
MCRelated == {<<draft, other>>, <<other, draft>>, <<better, other>>, <<other, better>>}
DraftIsSimilar == {<<draft, better>>, <<better, draft>>}

DoorSession == [n \in Notes |-> CASE n = draft -> "s1" [] n = better -> "s2" [] n = other -> Absent]
GateSession == [n \in Notes |-> IF n = other THEN "s2" ELSE "s1"]
PairEvent == [n \in Notes |-> IF n = other THEN "e2" ELSE "e1"]

OrderSession == [n \in Notes |-> IF n = draft THEN "s1" ELSE "s2"]
OrderTopic == [n \in Notes |-> n]
OneEvent == [n \in Notes |-> "e1"]

\* Bounds: requests, forgets, crashes, failures, cancelled requests of a run.
Bound(r, f, k, e, x) ==
  [requests |-> r, forgets |-> f, crashes |-> k, failures |-> e, cancels |-> x]
CrashLimits == Bound(3, 1, 1, 0, 0)
RecoverLimits == Bound(2, 1, 1, 1, 1)
OrderLimits == Bound(3, 0, 0, 0, 0)

ClientsAreAlike == Permutations(Clients)
==============================================================================

---------------------------- MODULE MCClaimStore ----------------------------
(* Instances of ClaimStore for TLC: two notes and two values, so that notes     *)
(* supersede each other and a note can change its mind.                        *)
EXTENDS ClaimStore, TLC

Setup(who, w, a) == [ingesters |-> who, writes |-> w, aborts |-> a]
ClaimScenarios == {Setup({"engine", "cli"}, 2, 0), Setup({"engine"}, 3, 1)}
Symmetry == Permutations(Notes) \cup Permutations(Values)
==============================================================================

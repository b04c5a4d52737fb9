---------------------------- MODULE MCMemoryGraph ----------------------------
(*****************************************************************************)
(* Instances of MemoryGraph for TLC: a note that is rewritten (first, then)  *)
(* and keeps its claim, one with the terms of the first, and one of another  *)
(* project that is nearest to what is asked.                                 *)
(*****************************************************************************)
EXTENDS MemoryGraph, TLC

CONSTANTS first, then, akin, foreign

MCOwnerOf == (first :> "d1") @@ (then :> "d1") @@ (akin :> "d2") @@ (foreign :> "d3")
MCProjectOf == [v \in Versions |-> IF v = foreign THEN "q" ELSE "p"]
MCTagsOf == [v \in Versions |-> IF v = first THEN {"t"} ELSE {}]
MCTermsOf == [v \in Versions |-> CASE v = first -> {"a", "b"} [] v = then -> {"b"}
                                   [] OTHER -> {"a", "b"}]
MCClaimsOf == [v \in Versions |-> IF v \in {first, then} THEN {<<"db", "pg">>} ELSE {}]
MCNear == (foreign :> 1) @@ (akin :> 2) @@ (then :> 3) @@ (first :> 4)
MCText == (foreign :> 1) @@ (first :> 2) @@ (then :> 3)
Asked(kind, project, k, chars) == [kind |-> kind, project |-> project, k |-> k, chars |-> chars]
MCRequests == {Asked("ask", Anywhere, 2, 0), Asked("ask", "p", 1, 0), Asked("search", "p", 1, 4),
               Asked("recall", Anywhere, 2, 1), Asked("graph", Anywhere, 1, 0)}
MCPool == [k \in 1..2 |-> k]
MCLimits == [jobs |-> 4, requests |-> 1, drops |-> 1]
\* Workers do not differ.
Alike == Permutations(Workers)
NoDrops == [jobs |-> 2, requests |-> 0, drops |-> 0]
==============================================================================

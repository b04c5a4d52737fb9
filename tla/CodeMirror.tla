------------------------------ MODULE CodeMirror ------------------------------
(*****************************************************************************)
(* What the code index promises of one repository: a mirror of its source    *)
(* files that changes all at once, by synchronizations. One that no other    *)
(* crossed leaves the mirror a picture of the directory: each path as it was *)
(* at some moment since the synchronization began. One that was crossed may  *)
(* leave paths as they are, but takes none anywhere else.                    *)
(*****************************************************************************)
EXTENDS FiniteSets

CONSTANTS Paths, Contents, Absent, Syncs

VARIABLES
  source,  \* source[p]: the file, or Absent
  mirror,  \* mirror[p]: the file the index stands for, or Absent
  recent,  \* recent[s][p]: what p has been since s began, {} if s is not at work
  crossed  \* the synchronizations at work while another one ended

vars == <<source, mirror, recent, crossed>>

File == Contents \cup {Absent}
Idle == [p \in Paths |-> {}]

Init ==
  /\ source \in [Paths -> File]
  /\ mirror = [p \in Paths |-> Absent]
  /\ recent = [s \in Syncs |-> Idle]
  /\ crossed = {}

Edit(p, c) ==
  /\ source' = [source EXCEPT ![p] = c]
  /\ recent' = [s \in Syncs |-> IF recent[s] = Idle THEN Idle
                                ELSE [recent[s] EXCEPT ![p] = @ \cup {c}]]
  /\ UNCHANGED <<mirror, crossed>>

Begin(s) ==
  /\ recent' = [recent EXCEPT ![s] = [p \in Paths |-> {source[p]}]]
  /\ UNCHANGED <<source, mirror, crossed>>

Fail(s) ==
  /\ recent' = [recent EXCEPT ![s] = Idle]
  /\ crossed' = crossed \ {s}
  /\ UNCHANGED <<source, mirror>>

Commit(s) ==
  /\ mirror' \in [Paths -> File]
  /\ \A p \in Paths :
       \/ mirror'[p] \in recent[s][p]
       \/ s \in crossed /\ mirror'[p] = mirror[p]
       \/ s \in crossed /\ mirror'[p] = Absent
  /\ recent' = [recent EXCEPT ![s] = Idle]
  /\ crossed' = {t \in Syncs \ {s} : recent[t] # Idle}
  /\ UNCHANGED source

Next ==
  \/ \E p \in Paths, c \in File : Edit(p, c)
  \/ \E s \in Syncs : Begin(s) \/ Fail(s) \/ Commit(s)

Spec == Init /\ [][Next]_vars
===============================================================================

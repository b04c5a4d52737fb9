---------------------------- MODULE MCBriefings ----------------------------
(*****************************************************************************)
(* Instances of Briefings for TLC: notes n1 and n2 of two projects and the  *)
(* briefing of another day; of their claims, three can have stalled.         *)
(*****************************************************************************)
EXTENDS Briefings

CONSTANTS n1, n2, old, stuck1, stuck2, stuck3, fresh, fact

MCOriginOf == [d \in Docs |-> "personal"]
MCProjectOf == [d \in Docs |-> IF d = n2 THEN "q" ELSE "p"]
MCDocOf == (stuck1 :> n1) @@ (stuck2 :> n1) @@ (stuck3 :> n2) @@ (fresh :> n2) @@ (fact :> n1)
MCKindOf == (stuck1 :> "next") @@ (stuck2 :> "next") @@ (stuck3 :> "blocked")
            @@ (fresh :> "next") @@ (fact :> "fact")
MCWindows == <<<<1, 2>>, <<4, 1>>>>
MCReserve == <<<<"blocked", 1>>, <<"next", 2>>>>
MCLower == [t \in Texts \cup ToSet(Labels) |-> IF t = "FIX" THEN "fix" ELSE t]

Replies == <<
  \* one project in two pieces, a text in two cases
  <<Heading("p"), Bullet("Next", "fix", FALSE), Heading("q"), Bullet(Nothing, "ship", FALSE),
    Heading("p"), Bullet("Done", "FIX", FALSE), Bullet("Done", "ship", FALSE)>>,
  \* a label on a line of its own, a placeholder, a label with nothing behind it
  <<Heading("q"), Label("Risks"), Bullet(Nothing, "ship", FALSE), Bullet("Blocked", "none", FALSE),
    Bullet("Next", Nothing, FALSE), Bullet("Next", "fix", FALSE)>>,
  \* a sub-heading
  <<Heading("p"), Bullet("Next", "fix", FALSE), Heading("# Done"), Bullet(Nothing, "ship", FALSE)>>,
  \* nothing under a project
  <<Bullet("Done", "ship", FALSE), Heading("p"), Heading(Nothing)>>,
  \* a wide sign
  <<Heading("p"), Bullet(Nothing, "ship", TRUE)>> >>

MCAnswers == ToSet(Replies)
Harmless == {Replies[1]}

\* Ages in days: of n1, n2, the briefing; of the claims that can have stalled.
Ledgers(ages, claims) ==
  {[docs |-> [d \in Docs |-> IF d = n1 THEN a[1] ELSE IF d = n2 THEN a[2] ELSE 0],
    claims |-> [c \in Claims |-> IF c \in {fresh, fact} THEN 1 ELSE b[c]]]
   : a \in ages, b \in claims}
Old == (stuck1 :> 9) @@ (stuck2 :> 8) @@ (stuck3 :> 8)
Mixed == (stuck1 :> 1) @@ (stuck2 :> 9) @@ (stuck3 :> 99)
Young == (stuck1 :> 0) @@ (stuck2 :> 0) @@ (stuck3 :> 1001)
MCAges == Ledgers({<<0, 0>>}, {Old, Mixed}) \cup Ledgers({<<0, 3>>}, {Mixed})
          \cup Ledgers({<<9, 9>>}, {Old, Young})
OneAge == Ledgers({<<0, 0>>}, {(stuck1 :> 0) @@ (stuck2 :> 0) @@ (stuck3 :> 0)})

Budget3(w, c, b) == [work |-> w, crashes |-> c, back |-> b]
MCBudgets == {Budget3(1, 0, 0), Budget3(0, 1, 1)}
NoFaults == {Budget3(0, 0, 0)}
=============================================================================

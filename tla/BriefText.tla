------------------------------- MODULE BriefText -------------------------------
(*****************************************************************************)
(* What is made of the text a model answers a request for a briefing with    *)
(* (coalesce_brief_answer in drudge/src/ask.rs): one heading per project,    *)
(* its bullets by label, repeated and placeholder bullets dropped.           *)
(*                                                                           *)
(* A text is a sequence of lines: a heading ("## name", but "##" and         *)
(* "### Done" too: what follows the first two signs is the name, here        *)
(* "# Done"), a label ("# Done" on a line of its own), or a bullet. Other    *)
(* lines change nothing. A bullet is split at its first ":", "-" or one of   *)
(* their wide forms. Names, labels and texts have no blanks around them; a   *)
(* line is trimmed first, so that no bullet is empty.                        *)
(*                                                                           *)
(* ForgetLabel is wrong on purpose: it shows that the properties can fail.   *)
(*****************************************************************************)
EXTENDS Sequences, FiniteSets, SequencesExt

CONSTANTS
  Names,        \* names behind the signs of a heading
  Marked,       \* those among them with a sign left, of sub-headings: "# Done"
  Texts,        \* texts of bullets, none of which is a label
  Lower,        \* Lower[t]: t in lower case
  Placeholders, \* "-", "None", "N/A" ...
  Nothing       \* no name, no text, no label, no project

Labels == <<"Done", "Next", "Blocked", "Decisions", "Risks", "Stalled">>

ASSUME TextAssumption == Nothing \notin ToSet(Labels)

Heading(name) == [kind |-> "heading", name |-> name]
Label(label) == [kind |-> "label", label |-> label]
\* `label` stands before the split if it is one of Labels, `text` behind it;
\* `wide` tells whether the split is at a sign of more than one byte.
Bullet(label, text, wide) == [kind |-> "bullet", label |-> label, text |-> text, wide |-> wide]

Start == [current |-> Nothing, pending |-> Nothing, order |-> <<>>, bullets |-> <<>>, panics |-> FALSE]

IsPlaceholder(label, text) == label # Nothing /\ text \in Placeholders

\* A label without a text behind it belongs to the text, and the bullet has the
\* label of the line above.
Labelled(s, b) ==
  IF b.label # Nothing /\ b.text # Nothing
    THEN [project |-> s.current, label |-> b.label, text |-> b.text]
    ELSE [project |-> s.current, label |-> s.pending,
          text |-> IF b.label = Nothing THEN b.text ELSE b.label]

\* One line more. The text behind the split is taken from its second byte on:
\* behind a wide sign that is no boundary of characters, and a panic.
Take(s, line) ==
  IF line.kind = "heading" THEN
    [s EXCEPT !.pending = Nothing,
              !.current = IF line.name = Nothing THEN @ ELSE line.name,
              !.order = IF line.name = Nothing \/ Contains(@, line.name) THEN @ ELSE Append(@, line.name)]
  ELSE IF line.kind = "label" THEN [s EXCEPT !.pending = line.label]
  ELSE IF s.current = Nothing THEN s
  ELSE IF line.wide THEN [s EXCEPT !.panics = TRUE]
  ELSE LET b == Labelled(s, line)
       IN IF IsPlaceholder(b.label, b.text) THEN s ELSE [s EXCEPT !.bullets = Append(@, b)]

Scan(lines) ==
  LET after[i \in 0..Len(lines)] == IF i = 0 THEN Start ELSE Take(after[i - 1], lines[i])
  IN after[Len(lines)]

Panics(lines) == Scan(lines).panics

\* Of a sequence, the elements that are in a set, in their order.
Only(s, S) ==
  LET kept[i \in 0..Len(s)] ==
        IF i = 0 THEN <<>> ELSE IF s[i] \in S THEN Append(kept[i - 1], s[i]) ELSE kept[i - 1]
  IN kept[Len(s)]

\* Of the bullets with one text, whatever its case, the first stays.
Distinct(bullets) ==
  LET Repeated(i) == \E j \in 1..(i - 1) : Lower[bullets[j].text] = Lower[bullets[i].text]
  IN FlattenSeq([i \in 1..Len(bullets) |-> IF Repeated(i) THEN <<>> ELSE <<bullets[i]>>])

Printed(b) ==
  IF b.label = Nothing /\ b.text \in ToSet(Labels)
    THEN Bullet(b.text, Nothing, FALSE) ELSE Bullet(b.label, b.text, FALSE)

WithLabel(bullets, label) == Only(bullets, {b \in ToSet(bullets) : b.label = label})

ForgetLabel(bullets) == FlattenSeq([k \in 1..Len(Labels) |-> WithLabel(bullets, Labels[k])])

\* By label, those without one last.
Arranged(bullets) ==
  FlattenSeq([k \in 1..Len(Labels) |-> WithLabel(bullets, Labels[k])]) \o WithLabel(bullets, Nothing)

Own(bullets, name) == Only(bullets, {b \in ToSet(bullets) : b.project = name})

\* A project without bullets has no section.
Section(bullets, name) ==
  LET own == Own(bullets, name)
      arranged == Arranged(Distinct(own))
      printed == [i \in 1..Len(arranged) |-> Printed(arranged[i])]
  IN IF own = <<>> THEN <<>> ELSE <<Heading(name)>> \o printed

Coalesce(lines) ==
  LET s == Scan(lines)
  IN FlattenSeq([k \in 1..Len(s.order) |-> Section(s.bullets, s.order[k])])

-------------------------------------------------------------------------------
(* What it promises *)

\* A sub-heading names no project.
NamesProject(line) == line.kind = "heading" /\ line.name \notin Marked \cup {Nothing}

\* The heading a line is under: the last one above it that names a project.
Above(lines, i) ==
  {j \in 1..(i - 1) : NamesProject(lines[j]) /\ \A k \in (j + 1)..(i - 1) : ~NamesProject(lines[k])}

\* What a bullet says.
Wording(b) == IF b.text = Nothing THEN b.label ELSE b.text

\* What a text says of which project, without case, but for some wordings.
Remarks(lines, but) ==
  UNION {{[project |-> lines[j].name, text |-> Lower[Wording(lines[i])]] : j \in Above(lines, i)} :
           i \in {i \in 1..Len(lines) : lines[i].kind = "bullet" /\ Wording(lines[i]) \notin but}}

\* No project has two headings, no bullet under one that is not a placeholder is
\* lost, none is invented, and none is there twice under one project.
Digests(lines, text) ==
  /\ \A i, j \in 1..Len(text) :
       text[i].kind = "heading" /\ text[i] = text[j] => i = j
  /\ Remarks(lines, Placeholders) \subseteq Remarks(text, {})
  /\ Remarks(text, {}) \subseteq Remarks(lines, {})
  /\ Cardinality(Remarks(text, {})) = Cardinality({i \in 1..Len(text) : text[i].kind = "bullet"})

\* A text without sub-headings.
Plainly(lines) == \A i \in 1..Len(lines) : lines[i].kind = "heading" => lines[i].name \notin Marked

\* A text that is already in form stays as it is.
Settles(lines) ==
  LET text == Coalesce(lines) IN Coalesce(text) = text
===============================================================================

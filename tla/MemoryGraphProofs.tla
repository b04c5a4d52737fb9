--------------------------- MODULE MemoryGraphProofs ---------------------------
(*****************************************************************************)
(* For any documents, versions, terms, rankings and requests, and any number *)
(* of workers that take turns: no edge of the graph is left without its node, *)
(* what a document has edges to is what its note says, an answer links no    *)
(* document twice or that has a hit, and the best rows are its hits.         *)
(*****************************************************************************)
EXTENDS MemoryGraph, TLAPS, SequenceTheorems, FiniteSetTheorems

\* The statements of an ingest or a delete, but for the sweep.
Ops == {"row", "chunk", "drop", "retract", "assert", "node", "edge", "untag", "clear", "unlink", "claim"}

\* A script every edge of which follows its node, or has it among `nodes`.
Chained(todo, nodes) ==
  /\ todo \in Seq({todo[i] : i \in 1..Len(todo)})
  /\ \A i \in 1..Len(todo) :
       /\ todo[i].op \in Ops
       /\ todo[i].op = "edge" =>
            \/ todo[i].node \in nodes
            \/ i > 1 /\ todo[i - 1].op = "node" /\ todo[i - 1].node = todo[i].node

Sweep == Do("collect")

\* Workers take turns, and what one has left to do leaves no edge without its node.
JobsInv ==
  /\ DOMAIN job = Workers
  /\ \A w, other \in Workers : ~Idle(w) /\ ~Idle(other) => w = other
  /\ \A w \in Workers : ~Idle(w) =>
       /\ DOMAIN job[w] \in {{"doc", "todo"}, {"doc", "version", "todo"}}
       /\ job[w].todo # <<>>
       /\ job[w].todo = Sweep \/ Chained(job[w].todo, node)

GraphInv == JobsInv /\ NodesOutliveEdges

-------------------------------------------------------------------------------
(* Scripts *)

LEMMA ChainedIsSeq ==
  ASSUME NEW s, NEW nodes, Chained(s, nodes)
  PROVE  s \in Seq({s[i] : i \in 1..Len(s)}) /\ Len(s) \in Nat
BY DEF Chained

\* Scripts follow each other.
LEMMA Joined ==
  ASSUME NEW s, NEW t, NEW nodes, Chained(s, nodes), Chained(t, nodes)
  PROVE  Chained(s \o t, nodes) /\ (s # <<>> => s \o t # <<>>)
<1> DEFINE S == {s[i] : i \in 1..Len(s)} \cup {t[i] : i \in 1..Len(t)}
           st == s \o t
<1>1. s \in Seq(S) /\ t \in Seq(S)
  <2>1. s \in Seq({s[i] : i \in 1..Len(s)}) /\ t \in Seq({t[i] : i \in 1..Len(t)})
    BY DEF Chained
  <2> QED
    BY <2>1
<1> HIDE DEF S
<1>2. /\ st \in Seq(S) /\ Len(st) = Len(s) + Len(t)
      /\ Len(s) \in Nat /\ Len(t) \in Nat
      /\ \A i \in 1..Len(s) : st[i] = s[i]
      /\ \A i \in 1..Len(t) : st[Len(s) + i] = t[i]
  BY <1>1
<1> HIDE DEF st
<1>3. st \in Seq({st[i] : i \in 1..Len(st)})
  BY <1>2, SeqOfRange DEF Range
<1>4. ASSUME NEW i \in 1..Len(st)
      PROVE  /\ st[i].op \in Ops
             /\ st[i].op = "edge" =>
                  \/ st[i].node \in nodes
                  \/ i > 1 /\ st[i - 1].op = "node" /\ st[i - 1].node = st[i].node
  <2>1. CASE i <= Len(s)
    <3>1. st[i] = s[i] /\ (i > 1 => st[i - 1] = s[i - 1]) /\ i \in 1..Len(s)
      BY <1>2, <2>1
    <3> QED
      BY <3>1 DEF Chained
  <2>2. CASE i > Len(s)
    <3> DEFINE j == i - Len(s)
    <3>1. /\ j \in 1..Len(t) /\ st[i] = t[j]
          /\ j > 1 => i > 1 /\ st[i - 1] = t[j - 1]
      <4>1. j \in 1..Len(t) /\ i = Len(s) + j
        BY <1>2, <2>2
      <4>2. j > 1 => j - 1 \in 1..Len(t) /\ i - 1 = Len(s) + (j - 1) /\ i > 1
        BY <1>2, <4>1
      <4> HIDE DEF j
      <4> QED
        BY <1>2, <4>1, <4>2
    <3> HIDE DEF j
    <3> QED
      BY <3>1 DEF Chained
  <2> QED
    BY <1>2, <2>1, <2>2
<1>5. s # <<>> => st # <<>>
  BY <1>2, <1>1
<1>6. Chained(st, nodes)
  BY <1>3, <1>4 DEF Chained
<1> QED
  BY <1>5, <1>6 DEF st

LEMMA StepChained ==
  ASSUME NEW op \in Ops \ {"edge"}, NEW nodes
  PROVE  Chained(Do(op), nodes) /\ Do(op) # <<>>
BY DEF Chained, Do

LEMMA LinkingChained ==
  ASSUME NEW n, NEW kind, NEW nodes
  PROVE  Chained(Linking(n, kind), nodes)
BY DEF Chained, Linking, Ops

LEMMA ArrayIsSeq ==
  ASSUME NEW m \in Nat, NEW S, NEW s \in [1..m -> S]
  PROVE  s \in Seq(S) /\ Len(s) = m
<1>1. Seq(S) = UNION {[1..n -> S] : n \in Nat}
  OBVIOUS
<1> QED
  BY <1>1

\* An even place has an odd one before it, with the same half.
LEMMA EvenPlace ==
  ASSUME NEW k \in Nat, NEW i \in 1..2 * k, i % 2 # 1
  PROVE  /\ i > 1 /\ i - 1 \in 1..2 * k /\ (i - 1) % 2 = 1
         /\ (i - 1 + 1) \div 2 = (i + 1) \div 2
<1>1. i % 2 = 0 /\ i > 1
  OBVIOUS
<1>2. (i - 1) % 2 = 1
  BY <1>1
<1>3. (i + 1) \div 2 = i \div 2
  BY <1>1
<1> QED
  BY <1>1, <1>2, <1>3

\* The statement at place i when two link each name.
Place(name, kind, i) ==
  IF i % 2 = 1 THEN [op |-> "node", node |-> name[(i + 1) \div 2]]
               ELSE [op |-> "edge", node |-> name[(i + 1) \div 2], kind |-> kind]

\* An array of which every statement of an even place links the node before it.
LEMMA PairsChained ==
  ASSUME NEW k \in Nat, NEW name, NEW kind, NEW nodes,
         NEW S, NEW s \in [1..2 * k -> S],
         \A i \in 1..2 * k : s[i] = Place(name, kind, i)
  PROVE  Chained(s, nodes)
<1>1. s \in Seq({s[i] : i \in 1..2 * k}) /\ Len(s) = 2 * k
  <2>1. s \in [1..2 * k -> {s[i] : i \in 1..2 * k}]
    OBVIOUS
  <2> QED
    BY <2>1, ArrayIsSeq
<1>2. ASSUME NEW i \in 1..2 * k
      PROVE  s[i].op \in Ops /\ (s[i].op = "edge" => i % 2 # 1)
  <2>1. CASE i % 2 = 1
    <3>1. s[i] = [op |-> "node", node |-> name[(i + 1) \div 2]]
      BY <2>1 DEF Place
    <3> QED
      BY <3>1 DEF Ops
  <2>2. CASE i % 2 # 1
    <3>1. s[i] = [op |-> "edge", node |-> name[(i + 1) \div 2], kind |-> kind]
      BY <2>2 DEF Place
    <3> QED
      BY <3>1, <2>2 DEF Ops
  <2> QED
    BY <2>1, <2>2
<1>3. ASSUME NEW i \in 1..2 * k, i % 2 # 1
      PROVE  i > 1 /\ s[i - 1].op = "node" /\ s[i - 1].node = s[i].node
  <2>1. /\ i > 1 /\ i - 1 \in 1..2 * k /\ (i - 1) % 2 = 1
        /\ (i - 1 + 1) \div 2 = (i + 1) \div 2
    BY <1>3, EvenPlace
  <2>2. s[i] = [op |-> "edge", node |-> name[(i + 1) \div 2], kind |-> kind]
    BY <1>3 DEF Place
  <2>3. s[i - 1] = [op |-> "node", node |-> name[(i - 1 + 1) \div 2]]
    BY <2>1 DEF Place
  <2> QED
    BY <2>1, <2>2, <2>3
<1> QED
  BY <1>1, <1>2, <1>3 DEF Chained

LEMMA LinkingAllPlaces ==
  ASSUME NEW names, NEW type, NEW kind, IsFiniteSet(names), NEW k, k = Cardinality(names)
  PROVE  /\ Len(LinkingAll(names, type, kind)) = 2 * k
         /\ \A i \in 1..2 * k : LinkingAll(names, type, kind)[i]
                                  = Place([j \in 1..k |-> Node(type, SetToSeq(names)[j])], kind, i)
<1> DEFINE label == SetToSeq(names)
           name == [j \in 1..k |-> Node(type, label[j])]
           s == LinkingAll(names, type, kind)
<1>1. k \in Nat
  BY FS_CardinalityType
<1>2. s = [i \in 1..2 * k |-> Linking(Node(type, label[(i + 1) \div 2]), kind)[2 - (i % 2)]]
  BY DEF LinkingAll
<1> HIDE DEF s, label
<1>3. ASSUME NEW i \in 1..2 * k
      PROVE  s[i] = Place(name, kind, i)
  <2>1. /\ (i + 1) \div 2 \in 1..k
        /\ 2 - (i % 2) = IF i % 2 = 1 THEN 1 ELSE 2
    BY <1>1
  <2>2. s[i] = Linking(name[(i + 1) \div 2], kind)[2 - (i % 2)]
    BY <1>2, <2>1
  <2> HIDE DEF name
  <2>3. CASE i % 2 = 1
    BY <2>1, <2>2, <2>3 DEF Linking, Place
  <2>4. CASE i % 2 # 1
    BY <2>1, <2>2, <2>4 DEF Linking, Place
  <2> QED
    BY <2>3, <2>4
<1> HIDE DEF name
<1>4. Len(s) = 2 * k
  <2>1. s \in [1..2 * k -> {s[i] : i \in 1..2 * k}]
    BY <1>2
  <2> QED
    BY <1>1, <2>1, ArrayIsSeq
<1> QED
  BY <1>3, <1>4 DEF s, name, label

LEMMA LinkingAllChained ==
  ASSUME NEW names, NEW type, NEW kind, NEW nodes, IsFiniteSet(names)
  PROVE  Chained(LinkingAll(names, type, kind), nodes)
<1>1. PICK k \in Nat : k = Cardinality(names)
  BY FS_CardinalityType
<1>2. PICK s : s = LinkingAll(names, type, kind)
  OBVIOUS
<1>3. PICK name : name = [j \in 1..k |-> Node(type, SetToSeq(names)[j])]
  OBVIOUS
<1>4. \A i \in 1..2 * k : s[i] = Place(name, kind, i)
  BY <1>1, <1>2, <1>3, LinkingAllPlaces
<1>5. s \in [1..2 * k -> {s[i] : i \in 1..2 * k}]
  <2>1. s = [i \in 1..2 * k |-> Linking(Node(type, SetToSeq(names)[(i + 1) \div 2]), kind)[2 - (i % 2)]]
    BY <1>1, <1>2 DEF LinkingAll
  <2> QED
    BY <2>1
<1>6. Chained(s, nodes)
  BY <1>4, <1>5, PairsChained
<1> QED
  BY <1>2, <1>6

LEMMA ClaimsChained ==
  ASSUME NEW claims, NEW nodes, IsFiniteSet(claims)
  PROVE  Chained([i \in 1..Cardinality(claims) |-> [op |-> "claim", claim |-> SetToSeq(claims)[i]]], nodes)
<1> DEFINE k == Cardinality(claims)
           s == [i \in 1..k |-> [op |-> "claim", claim |-> SetToSeq(claims)[i]]]
<1>1. k \in Nat
  BY FS_CardinalityType
<1> HIDE DEF k
<1>2. s \in [1..k -> {s[i] : i \in 1..k}] /\ \A i \in 1..k : s[i].op = "claim"
  OBVIOUS
<1> HIDE DEF s
<1>3. s \in Seq({s[i] : i \in 1..k}) /\ Len(s) = k
  BY <1>1, <1>2, ArrayIsSeq
<1>4. Chained(s, nodes)
  BY <1>2, <1>3 DEF Chained, Ops
<1> QED
  BY <1>4 DEF s, k

\* The script of an ingest.
LEMMA ScriptChained ==
  ASSUME GraphAssumption, NEW v \in Versions, NEW nodes
  PROVE  Chained(Script(v), nodes) /\ Script(v) # <<>>
<1> DEFINE tags == LinkingAll(TagsOf[v], "topic", "tagged")
           terms == LinkingAll(TermsOf[v], "term", "about")
           claims == [i \in 1..Cardinality(ClaimsOf[v]) |-> [op |-> "claim", claim |-> SetToSeq(ClaimsOf[v])[i]]]
           project == Linking(Node("project", ProjectOf[v]), "in_project")
<1>1. Chained(tags, nodes) /\ Chained(terms, nodes) /\ Chained(claims, nodes) /\ Chained(project, nodes)
  BY LinkingAllChained, ClaimsChained, LinkingChained DEF GraphAssumption
<1>2. \A op \in {"row", "untag", "chunk", "clear"} : Chained(Do(op), nodes) /\ Do(op) # <<>>
  BY StepChained DEF Ops
<1> HIDE DEF tags, terms, claims, project
<1> DEFINE head == Do("row") \o project \o Do("untag")
           body == head \o tags \o Do("chunk") \o Do("clear")
           all == body \o terms \o claims
<1>3. Chained(head, nodes) /\ head # <<>>
  <2>1. Chained(Do("row") \o project, nodes) /\ Do("row") \o project # <<>>
    BY <1>1, <1>2, Joined
  <2> QED
    BY <1>2, <2>1, Joined
<1> HIDE DEF head
<1>4. Chained(body, nodes) /\ body # <<>>
  <2>1. Chained(head \o tags, nodes) /\ head \o tags # <<>>
    BY <1>1, <1>3, Joined
  <2>2. Chained(head \o tags \o Do("chunk"), nodes) /\ head \o tags \o Do("chunk") # <<>>
    BY <1>2, <2>1, Joined
  <2> QED
    BY <1>2, <2>2, Joined
<1> HIDE DEF body
<1>5. Chained(all, nodes) /\ all # <<>>
  <2>1. Chained(body \o terms, nodes) /\ body \o terms # <<>>
    BY <1>1, <1>4, Joined
  <2> QED
    BY <1>1, <2>1, Joined
<1>6. Script(v) = all
  BY DEF Script, all, body, head, project, tags, terms, claims
<1> QED
  BY <1>5, <1>6

\* What is left of a script after its first statement.
LEMMA RestChained ==
  ASSUME NEW todo, NEW nodes, NEW after, Chained(todo, nodes), todo # <<>>,
         nodes \subseteq after, Head(todo).op = "node" => Head(todo).node \in after
  PROVE  Chained(Tail(todo), after)
<1> DEFINE S == {todo[i] : i \in 1..Len(todo)}
           t == Tail(todo)
<1>1. todo \in Seq(S)
  BY DEF Chained
<1> HIDE DEF S
<1>2. /\ t \in Seq(S) /\ Len(todo) \in Nat /\ Len(t) = Len(todo) - 1
      /\ \A i \in 1..Len(t) : i + 1 \in 1..Len(todo) /\ t[i] = todo[i + 1]
      /\ Head(todo) = todo[1]
  BY <1>1
<1> HIDE DEF t
<1>3. t \in Seq({t[i] : i \in 1..Len(t)})
  BY <1>2, SeqOfRange DEF Range
<1>4. ASSUME NEW i \in 1..Len(t)
      PROVE  /\ t[i].op \in Ops
             /\ t[i].op = "edge" =>
                  \/ t[i].node \in after
                  \/ i > 1 /\ t[i - 1].op = "node" /\ t[i - 1].node = t[i].node
  <2>1. /\ todo[i + 1].op \in Ops
        /\ todo[i + 1].op = "edge" =>
             \/ todo[i + 1].node \in nodes
             \/ todo[i].op = "node" /\ todo[i].node = todo[i + 1].node
    <3> DEFINE h == i + 1
    <3>1. h \in 1..Len(todo) /\ h - 1 = i
      BY <1>2
    <3> HIDE DEF h
    <3>2. /\ todo[h].op \in Ops
          /\ todo[h].op = "edge" =>
               \/ todo[h].node \in nodes
               \/ todo[h - 1].op = "node" /\ todo[h - 1].node = todo[h].node
      BY <3>1 DEF Chained
    <3> QED
      BY <3>1, <3>2 DEF h
  <2>2. t[i] = todo[i + 1]
    BY <1>2
  <2>3. CASE i = 1
    BY <1>2, <2>1, <2>2, <2>3
  <2>4. CASE i # 1
    <3>1. i - 1 \in 1..Len(t) /\ i - 1 + 1 = i /\ i > 1
      BY <1>2, <2>4
    <3>2. t[i - 1] = todo[i]
      BY <1>2, <3>1
    <3> QED
      BY <2>1, <2>2, <3>1, <3>2
  <2> QED
    BY <2>3, <2>4
<1> QED
  BY <1>3, <1>4 DEF Chained, t

\* The first statement of a script: if it is an edge, its node is there.
LEMMA HeadOfChained ==
  ASSUME NEW todo, NEW nodes, Chained(todo, nodes), todo # <<>>
  PROVE  Head(todo).op \in Ops /\ (Head(todo).op = "edge" => Head(todo).node \in nodes)
<1>1. Len(todo) \in Nat /\ 1 \in 1..Len(todo) /\ Head(todo) = todo[1]
  BY DEF Chained
<1> QED
  BY <1>1 DEF Chained

LEMMA NothingChained ==
  ASSUME NEW nodes
  PROVE  Chained(<<>>, nodes)
BY DEF Chained

\* The statements that record a claim.
LEMMA AssertingChained ==
  ASSUME NEW d, NEW claim, NEW nodes
  PROVE  Chained(Asserting(d, claim), nodes)
<1> DEFINE assert == <<[op |-> "assert", claim |-> claim]>>
           link == Linking(Node("claim", claim[1]), "claims")
<1>1. Chained(assert, nodes)
  BY DEF Chained, Ops
<1>2. Chained(link, nodes)
  BY LinkingChained
<1> HIDE DEF assert, link
<1>3. Chained(assert \o link, nodes)
  BY <1>1, <1>2, Joined
<1>4. Asserting(d, claim) = IF Known(d, claim) THEN <<>> ELSE assert \o link
  BY DEF Asserting, assert, link
<1> QED
  BY <1>3, <1>4, NothingChained

\* The scripts of a delete and of a compaction.
LEMMA DeleteChained ==
  ASSUME NEW nodes
  PROVE  LET todo == Do("drop") \o Do("unlink") \o Do("retract")
         IN  Chained(todo, nodes) /\ todo # <<>>
<1>1. \A op \in {"drop", "unlink", "retract"} : Chained(Do(op), nodes) /\ Do(op) # <<>>
  BY StepChained DEF Ops
<1>2. Chained(Do("drop") \o Do("unlink"), nodes) /\ Do("drop") \o Do("unlink") # <<>>
  BY <1>1, Joined
<1> QED
  BY <1>1, <1>2, Joined

-------------------------------------------------------------------------------
(* Steps *)

\* A job that begins in turn.
LEMMA BegunInTurn ==
  ASSUME JobsInv, NEW w \in Workers, Turn(w), NEW j, job' = [job EXCEPT ![w] = j],
         DOMAIN j \in {{"doc", "todo"}, {"doc", "version", "todo"}}, j.todo # <<>>,
         j.todo = Sweep \/ Chained(j.todo, node'), UNCHANGED <<node, edge>>, NodesOutliveEdges
  PROVE  GraphInv'
<1>1. \A other \in Workers \ {w} : Idle(other)'
  BY DEF JobsInv, Turn, Idle
<1>2. job'[w] = j /\ DOMAIN job' = Workers
  BY DEF JobsInv
<1>3. JobsInv'
  BY <1>1, <1>2 DEF JobsInv, Idle
<1> QED
  BY <1>3 DEF GraphInv, NodesOutliveEdges

\* Jobs as they are, or one that stops, leave the invariant when the graph is as it was.
LEMMA SameGraph ==
  ASSUME GraphInv, UNCHANGED <<node, edge>>,
         \/ UNCHANGED job
         \/ \E w \in Workers : job' = [job EXCEPT ![w] = Nothing]
  PROVE  GraphInv'
<1>1. /\ DOMAIN job' = Workers
      /\ \A w \in Workers : job'[w] = Nothing \/ job'[w] = job[w]
  BY DEF GraphInv, JobsInv
<1>2. JobsInv'
  BY <1>1 DEF GraphInv, JobsInv, Idle
<1> QED
  BY <1>2 DEF GraphInv, NodesOutliveEdges

\* A statement of an ingest or a delete only adds nodes, and an edge only to a
\* node that is there.
LEMMA StatementLinks ==
  ASSUME NodesOutliveEdges, NEW j, NEW s, s.op \in Ops, s.op = "edge" => s.node \in node,
         IF s.op \in {"row", "chunk", "drop", "retract", "assert"} THEN Rows(j, s) ELSE Edges(j, s)
  PROVE  /\ node \subseteq node' /\ NodesOutliveEdges'
         /\ s.op = "node" => s.node \in node'
<1>1. CASE s.op \in {"row", "chunk", "drop", "retract", "assert"}
  <2>1. UNCHANGED <<node, edge>>
    BY <1>1 DEF Rows
  <2> QED
    BY <1>1, <2>1 DEF NodesOutliveEdges
<1>2. CASE s.op = "node"
  <2>1. node' = node \cup {s.node} /\ edge' = edge
    BY <1>2 DEF Edges
  <2> QED
    BY <2>1 DEF NodesOutliveEdges
<1>3. CASE s.op = "edge"
  <2>1. edge' = edge \cup {Edge(j.doc, s.node, s.kind)} /\ node' = node
    BY <1>3 DEF Edges
  <2> QED
    BY <1>3, <2>1 DEF NodesOutliveEdges, Edge
<1>4. CASE s.op \in {"untag", "clear", "unlink", "claim"}
  <2>1. edge' \subseteq edge /\ node' = node
    BY <1>4 DEF Edges, Cleared
  <2> QED
    BY <1>4, <2>1 DEF NodesOutliveEdges
<1> QED
  BY <1>1, <1>2, <1>3, <1>4 DEF Ops

\* The sweep takes no node an edge leads to.
LEMMA SweepSpares ==
  ASSUME NodesOutliveEdges, NEW j, Edges(j, [op |-> "collect"])
  PROVE  NodesOutliveEdges'
<1>1. node' = node \ Orphans /\ edge' = edge
  BY DEF Edges
<1> QED
  BY <1>1 DEF NodesOutliveEdges, Orphans

LEMMA ExecuteStep ==
  ASSUME GraphInv, NEW w \in Workers, Execute(w)
  PROVE  GraphInv'
<1> DEFINE j == job[w]
           s == Head(j.todo)
           more == (IF s.op = "claim" THEN Asserting(j.doc, s.claim) ELSE <<>>) \o Tail(j.todo)
<1>1. /\ ~Idle(w)
      /\ IF s.op \in {"row", "chunk", "drop", "retract", "assert"} THEN Rows(j, s) ELSE Edges(j, s)
      /\ job' = [job EXCEPT ![w] = IF more = <<>> THEN Nothing ELSE [j EXCEPT !.todo = more]]
  BY DEF Execute
<1>2. /\ DOMAIN j \in {{"doc", "todo"}, {"doc", "version", "todo"}} /\ j.todo # <<>>
      /\ \A other \in Workers \ {w} : Idle(other)
      /\ NodesOutliveEdges /\ DOMAIN job = Workers
  BY <1>1 DEF GraphInv, JobsInv
<1>3. j.todo = Sweep \/ Chained(j.todo, node)
  BY <1>1 DEF GraphInv, JobsInv
<1>4. CASE j.todo = Sweep
  <2>1. s = [op |-> "collect"] /\ Tail(j.todo) = <<>> /\ s.op = "collect"
    BY <1>4 DEF Do, Sweep
  <2>2. more = <<>>
    BY <2>1
  <2>3. job' = [job EXCEPT ![w] = Nothing] /\ Edges(j, [op |-> "collect"])
    BY <1>1, <2>1, <2>2
  <2>4. NodesOutliveEdges'
    BY <1>2, <2>3, SweepSpares
  <2>5. JobsInv'
    BY <1>2, <2>3 DEF JobsInv, Idle
  <2> QED
    BY <2>4, <2>5 DEF GraphInv
<1>5. CASE Chained(j.todo, node)
  <2>1. s.op \in Ops /\ (s.op = "edge" => s.node \in node)
    BY <1>2, <1>5, HeadOfChained
  <2>2. node \subseteq node' /\ NodesOutliveEdges' /\ (s.op = "node" => s.node \in node')
    BY <1>1, <1>2, <2>1, StatementLinks
  <2>3. Chained(Tail(j.todo), node')
    BY <1>2, <1>5, <2>2, RestChained
  <2>4. Chained(IF s.op = "claim" THEN Asserting(j.doc, s.claim) ELSE <<>>, node')
    BY AssertingChained, NothingChained
  <2>5. Chained(more, node')
    BY <2>3, <2>4, Joined
  <2>6. job'[w] = Nothing \/ (more # <<>> /\ job'[w] = [j EXCEPT !.todo = more])
    BY <1>1, <1>2
  <2> HIDE DEF more
  <2>7. \A other \in Workers \ {w} : job'[other] = Nothing
    BY <1>1, <1>2 DEF Idle
  <2>8. job'[w] # Nothing =>
          /\ DOMAIN job'[w] \in {{"doc", "todo"}, {"doc", "version", "todo"}}
          /\ job'[w].todo # <<>> /\ Chained(job'[w].todo, node')
    BY <1>2, <2>5, <2>6
  <2>9. JobsInv'
    BY <1>1, <1>2, <2>7, <2>8 DEF JobsInv, Idle
  <2> QED
    BY <2>2, <2>9 DEF GraphInv
<1> QED
  BY <1>3, <1>4, <1>5

\* Requests read; they leave the graph and the jobs alone.
LEMMA AskStep ==
  ASSUME GraphInv, NEW a \in Askers,
         \/ \E r \in Requests : Ask(a, r) \/ Search(a, r) \/ Recall(a, r) \/ Neighbours(a, r)
         \/ SearchVectors(a) \/ SearchNearest(a) \/ SearchText(a) \/ QueryLinked(a)
         \/ QueryNeighbours(a) \/ Respond(a)
  PROVE  GraphInv'
<1>1. UNCHANGED <<node, edge, job>>
  BY DEF Ask, Search, Recall, Neighbours, Begin, SearchVectors, SearchNearest, SearchText, QueryLinked,
         QueryNeighbours, Respond, store
<1> QED
  BY <1>1, SameGraph

LEMMA GraphStep ==
  ASSUME GraphAssumption, GraphInv, [Next]_vars
  PROVE  GraphInv'
<1>1. ASSUME NEW w \in Workers, NEW v \in Versions, Ingest(w, v)
      PROVE  GraphInv'
  <2> DEFINE j == [doc |-> OwnerOf[v], version |-> v, todo |-> Script(v)]
  <2>1. Turn(w) /\ job' = [job EXCEPT ![w] = j] /\ UNCHANGED <<node, edge>>
    BY <1>1 DEF Ingest, store
  <2>2. Chained(Script(v), node') /\ Script(v) # <<>>
    BY ScriptChained
  <2>3. DOMAIN j = {"doc", "version", "todo"} /\ j.todo = Script(v)
    OBVIOUS
  <2> HIDE DEF j
  <2> QED
    BY <2>1, <2>2, <2>3, BegunInTurn DEF GraphInv
<1>2. ASSUME NEW w \in Workers, NEW d \in Docs, Delete(w, d)
      PROVE  GraphInv'
  <2> DEFINE todo == Do("drop") \o Do("unlink") \o Do("retract")
             j == [doc |-> d, todo |-> todo]
  <2>1. Turn(w) /\ job' = [job EXCEPT ![w] = j] /\ UNCHANGED <<node, edge>>
    BY <1>2 DEF Delete, store
  <2>2. Chained(todo, node') /\ todo # <<>>
    BY DeleteChained
  <2> HIDE DEF todo
  <2>3. DOMAIN j = {"doc", "todo"} /\ j.todo = todo
    OBVIOUS
  <2> HIDE DEF j
  <2> QED
    BY <2>1, <2>2, <2>3, BegunInTurn DEF GraphInv
<1>3. ASSUME NEW w \in Workers, Compact(w)
      PROVE  GraphInv'
  <2> DEFINE j == [doc |-> Absent, todo |-> Sweep]
  <2>1. Turn(w) /\ job' = [job EXCEPT ![w] = j] /\ UNCHANGED <<node, edge>>
    BY <1>3 DEF Compact, store, Sweep
  <2>2. DOMAIN j = {"doc", "todo"} /\ j.todo = Sweep /\ Sweep # <<>>
    BY DEF Sweep, Do
  <2> HIDE DEF j
  <2> QED
    BY <2>1, <2>2, BegunInTurn DEF GraphInv
<1>4. ASSUME NEW w \in Workers, CutShort(w)
      PROVE  GraphInv'
  BY <1>4, SameGraph DEF CutShort, store
<1>5. CASE UNCHANGED vars
  BY <1>5, SameGraph DEF vars
<1> QED
  BY <1>1, <1>2, <1>3, <1>4, <1>5, ExecuteStep, AskStep DEF Next

\* gc_orphans and the statements of remember and sync never leave an edge that
\* leads to no node, for any documents, versions and terms.
THEOREM NoDanglingEdge == Spec => []NodesOutliveEdges
<1>1. Init => GraphInv
  BY DEF Init, GraphInv, JobsInv, NodesOutliveEdges, Idle
<1>2. GraphInv /\ [Next]_vars => GraphInv'
  BY GraphStep, GraphAssumption
<1>3. GraphInv => NodesOutliveEdges
  BY DEF GraphInv
<1> QED
  BY <1>1, <1>2, <1>3, PTL DEF Spec

-------------------------------------------------------------------------------
(* What the graph says of a note. A script erases the edges of a kind before  *)
(* it makes those its version has: when it is through there are no others.    *)

Stmts(todo) == {todo[i] : i \in 1..Len(todo)}

\* The nodes a script links, and those a document has an edge to.
Links(s, kind) == s.op = "edge" /\ s.kind = kind
Linked(todo, kind) == {s.node : s \in {s \in Stmts(todo) : Links(s, kind)}}
Present(d, kind) == {e.to : e \in {e \in edge : e.from = d /\ e.kind = kind}}

\* The edges a script makes are of the kinds there are.
EdgeKinds == {"in_project", "tagged", "about", "claims"}
KindsKnown(todo) == \A s \in Stmts(todo) : s.op = "edge" => s.kind \in EdgeKinds

Does(todo, op) == \E s \in Stmts(todo) : s.op = op

\* What a script erases it does before it links anything of that kind.
Ordered(todo, eraser, kind) ==
  \A i, j \in 1..Len(todo) : Links(todo[i], kind) /\ todo[j].op = eraser => j < i

\* When the script is through, document d has the edges of a kind that it should.
WillSay(d, todo, eraser, kind, nodes) ==
  /\ Ordered(todo, eraser, kind)
  /\ IF Does(todo, eraser) THEN Linked(todo, kind) = nodes
     ELSE Present(d, kind) \cup Linked(todo, kind) = nodes

Topics(v) == {Node("topic", name) : name \in TagsOf[v]}
TheTerms(v) == {Node("term", name) : name \in TermsOf[v]}

\* The rest of an ingest of version v, and of a delete.
Making(d, v, todo) ==
  /\ v \in Versions /\ (Does(todo, "row") \/ row[d] = v)
  /\ \A s \in Stmts(todo) : s.op \notin {"drop", "unlink", "retract", "collect"}
  /\ WillSay(d, todo, "untag", "tagged", Topics(v))
  /\ WillSay(d, todo, "clear", "about", TheTerms(v))

Edgeless(d) == \A e \in edge : e.from # d
Factless(d) == \A f \in fact : f.doc # d

Dropping(d, todo) ==
  \/ todo = Do("drop") \o Do("unlink") \o Do("retract")
  \/ row[d] = Absent /\ todo = Do("unlink") \o Do("retract")
  \/ row[d] = Absent /\ Edgeless(d) /\ todo = Do("retract")

JobKnows(j) ==
  \/ j.doc = Absent /\ j.todo = Sweep
  \/ j.doc \in Docs /\ Dropping(j.doc, j.todo)
  \/ DOMAIN j = {"doc", "version", "todo"} /\ j.doc \in Docs /\ Making(j.doc, j.version, j.todo)

SaysNote(d) ==
  IF row[d] = Absent THEN Edgeless(d) /\ Factless(d)
  ELSE Present(d, "about") = TheTerms(row[d]) /\ Present(d, "tagged") = Topics(row[d])

NoteInv ==
  /\ GraphInv /\ DOMAIN row = Docs /\ DOMAIN whole = Docs
  /\ \A w \in Workers : ~Idle(w) => JobKnows(job[w])
  /\ \A d \in Docs : whole[d] /\ (\A w \in Workers : job[w].doc # d) => SaysNote(d)

\* A script is a sequence of statements.
IsScript(todo) == todo \in Seq(Stmts(todo))

LEMMA ChainedIsScript ==
  ASSUME NEW todo, NEW nodes, Chained(todo, nodes)
  PROVE  IsScript(todo)
BY DEF Chained, IsScript, Stmts

LEMMA ScriptHead ==
  ASSUME NEW todo, IsScript(todo), todo # <<>>
  PROVE  /\ IsScript(Tail(todo)) /\ Head(todo) \in Stmts(todo)
         /\ Stmts(todo) = {Head(todo)} \cup Stmts(Tail(todo))
         /\ \A eraser, kind : Ordered(todo, eraser, kind) =>
              /\ Ordered(Tail(todo), eraser, kind)
              /\ Links(Head(todo), kind) /\ eraser # "edge" => ~Does(todo, eraser)
<1>1. PICK S : S = Stmts(todo) /\ todo \in Seq(S)
  BY DEF IsScript
<1>2. PICK t : t = Tail(todo)
  OBVIOUS
<1>3. /\ t \in Seq(S) /\ Len(todo) \in Nat /\ Len(todo) >= 1 /\ Len(t) = Len(todo) - 1
      /\ \A i \in 1..Len(t) : i + 1 \in 1..Len(todo) /\ t[i] = todo[i + 1]
      /\ Head(todo) = todo[1]
  BY <1>1, <1>2
<1>4. IsScript(t)
  <2>1. t \in Seq({t[i] : i \in 1..Len(t)})
    BY <1>3, SeqOfRange DEF Range
  <2> QED
    BY <2>1 DEF IsScript, Stmts
<1>5. Stmts(todo) = {Head(todo)} \cup Stmts(t)
  <2>1. ASSUME NEW i \in 1..Len(todo), i # 1 PROVE todo[i] \in Stmts(t)
    <3>1. i - 1 \in 1..Len(t) /\ t[i - 1] = todo[(i - 1) + 1] /\ (i - 1) + 1 = i
      BY <1>3, <2>1
    <3> QED
      BY <3>1 DEF Stmts
  <2>2. \A x \in Stmts(t) : x \in Stmts(todo)
    BY <1>3 DEF Stmts
  <2>3. \A x \in Stmts(todo) : x = Head(todo) \/ x \in Stmts(t)
    BY <1>3, <2>1 DEF Stmts
  <2>4. Head(todo) \in Stmts(todo)
    BY <1>3 DEF Stmts
  <2> QED
    BY <2>2, <2>3, <2>4
<1>6. ASSUME NEW eraser, NEW kind, Ordered(todo, eraser, kind)
      PROVE  Ordered(t, eraser, kind)
  <2> SUFFICES ASSUME NEW i \in 1..Len(t), NEW j \in 1..Len(t), Links(t[i], kind), t[j].op = eraser
               PROVE  j < i
    BY DEF Ordered
  <2>1. /\ i + 1 \in 1..Len(todo) /\ j + 1 \in 1..Len(todo)
        /\ t[i] = todo[i + 1] /\ t[j] = todo[j + 1]
    BY <1>3
  <2>2. j + 1 < i + 1
    BY <1>6, <2>1 DEF Ordered
  <2> QED
    BY <2>2
<1>7. ASSUME NEW eraser, NEW kind, Ordered(todo, eraser, kind), Links(Head(todo), kind), eraser # "edge"
      PROVE  ~Does(todo, eraser)
  <2> SUFFICES ASSUME NEW j \in 1..Len(todo), todo[j].op = eraser PROVE FALSE
    BY DEF Does, Stmts
  <2>1. j < 1
    BY <1>3, <1>7 DEF Ordered
  <2> QED
    BY <2>1
<1> QED
  BY <1>2, <1>3, <1>4, <1>5, <1>6, <1>7

\* Scripts follow each other.
LEMMA ScriptsJoin ==
  ASSUME NEW s, NEW t, IsScript(s), IsScript(t)
  PROVE  /\ IsScript(s \o t) /\ Stmts(s \o t) = Stmts(s) \cup Stmts(t)
         /\ \A eraser, kind :
              /\ Ordered(s, eraser, kind) /\ Ordered(t, eraser, kind)
              /\ ~Does(t, eraser) \/ \A x \in Stmts(s) : ~Links(x, kind)
              => Ordered(s \o t, eraser, kind)
<1>1. PICK S : S = Stmts(s) \cup Stmts(t)
  OBVIOUS
<1>2. s \in Seq(S) /\ t \in Seq(S)
  <2>1. s \in Seq(Stmts(s)) /\ t \in Seq(Stmts(t)) /\ Stmts(s) \subseteq S /\ Stmts(t) \subseteq S
    BY <1>1 DEF IsScript
  <2> QED
    BY <2>1
<1>3. PICK st : st = s \o t
  OBVIOUS
<1>4. /\ st \in Seq(S) /\ Len(st) = Len(s) + Len(t) /\ Len(s) \in Nat /\ Len(t) \in Nat
      /\ \A i \in 1..Len(s) : st[i] = s[i]
      /\ \A i \in 1..Len(t) : st[Len(s) + i] = t[i]
  BY <1>2, <1>3
<1>5. IsScript(st)
  <2>1. st \in Seq({st[i] : i \in 1..Len(st)})
    BY <1>4, SeqOfRange DEF Range
  <2> QED
    BY <2>1 DEF IsScript, Stmts
<1>6. ASSUME NEW i \in 1..Len(st)
      PROVE  \/ i \in 1..Len(s) /\ st[i] = s[i]
             \/ i > Len(s) /\ i - Len(s) \in 1..Len(t) /\ st[i] = t[i - Len(s)]
  <2>1. CASE i <= Len(s)
    BY <1>4, <2>1
  <2>2. CASE i > Len(s)
    <3>1. i - Len(s) \in 1..Len(t) /\ Len(s) + (i - Len(s)) = i
      BY <1>4, <2>2
    <3>2. PICK k \in 1..Len(t) : k = i - Len(s) /\ Len(s) + k = i
      BY <3>1
    <3> QED
      BY <1>4, <2>2, <3>2
  <2> QED
    BY <1>4, <2>1, <2>2
<1>7. Stmts(st) = Stmts(s) \cup Stmts(t)
  <2>1. \A x \in Stmts(st) : x \in Stmts(s) \cup Stmts(t)
    BY <1>6 DEF Stmts
  <2>2. ASSUME NEW i \in 1..Len(s) PROVE s[i] \in Stmts(st)
    <3>1. i \in 1..Len(st) /\ st[i] = s[i]
      BY <1>4
    <3> QED
      BY <3>1 DEF Stmts
  <2>3. ASSUME NEW i \in 1..Len(t) PROVE t[i] \in Stmts(st)
    <3>1. Len(s) + i \in 1..Len(st) /\ st[Len(s) + i] = t[i]
      BY <1>4
    <3> QED
      BY <3>1 DEF Stmts
  <2> QED
    BY <2>1, <2>2, <2>3 DEF Stmts
<1>8. ASSUME NEW eraser, NEW kind, Ordered(s, eraser, kind), Ordered(t, eraser, kind),
             ~Does(t, eraser) \/ \A x \in Stmts(s) : ~Links(x, kind)
      PROVE  Ordered(st, eraser, kind)
  <2> SUFFICES ASSUME NEW i \in 1..Len(st), NEW j \in 1..Len(st), Links(st[i], kind), st[j].op = eraser
               PROVE  j < i
    BY DEF Ordered
  <2>1. CASE i \in 1..Len(s) /\ st[i] = s[i] /\ j \in 1..Len(s) /\ st[j] = s[j]
    BY <1>8, <2>1 DEF Ordered
  <2>2. CASE i > Len(s) /\ j \in 1..Len(s)
    BY <1>4, <2>2
  <2>3. CASE i \in 1..Len(s) /\ st[i] = s[i] /\ j - Len(s) \in 1..Len(t) /\ st[j] = t[j - Len(s)]
    BY <1>8, <2>3 DEF Stmts, Does
  <2>4. CASE /\ i - Len(s) \in 1..Len(t) /\ st[i] = t[i - Len(s)]
             /\ j - Len(s) \in 1..Len(t) /\ st[j] = t[j - Len(s)]
    <3>1. j - Len(s) < i - Len(s)
      BY <1>8, <2>4 DEF Ordered
    <3> QED
      BY <1>4, <3>1
  <2> QED
    BY <1>6, <2>1, <2>2, <2>3, <2>4
<1> QED
  BY <1>3, <1>5, <1>7, <1>8

LEMMA ShortScripts ==
  /\ IsScript(<<>>) /\ Stmts(<<>>) = {}
  /\ \A op : IsScript(Do(op)) /\ Stmts(Do(op)) = {[op |-> op]}
  /\ \A n, kind : /\ IsScript(Linking(n, kind))
                  /\ Stmts(Linking(n, kind)) = {[op |-> "node", node |-> n],
                                                [op |-> "edge", node |-> n, kind |-> kind]}
<1>1. IsScript(<<>>) /\ Stmts(<<>>) = {}
  BY DEF IsScript, Stmts
<1>2. ASSUME NEW op PROVE IsScript(Do(op)) /\ Stmts(Do(op)) = {[op |-> op]}
  <2>1. PICK s : s = Do(op)
    OBVIOUS
  <2>2. Len(s) = 1 /\ s[1] = [op |-> op] /\ s = <<[op |-> op]>>
    BY <2>1 DEF Do
  <2>3. Stmts(s) = {[op |-> op]}
    BY <2>2 DEF Stmts
  <2> QED
    BY <2>1, <2>2, <2>3 DEF IsScript
<1>3. ASSUME NEW n, NEW kind
      PROVE  /\ IsScript(Linking(n, kind))
             /\ Stmts(Linking(n, kind)) = {[op |-> "node", node |-> n],
                                           [op |-> "edge", node |-> n, kind |-> kind]}
  <2>1. PICK a, b : a = [op |-> "node", node |-> n] /\ b = [op |-> "edge", node |-> n, kind |-> kind]
    OBVIOUS
  <2>2. PICK s : s = <<a, b>>
    OBVIOUS
  <2>3. Linking(n, kind) = s
    BY <2>1, <2>2 DEF Linking
  <2>4. Stmts(s) = {a, b}
    BY <2>2 DEF Stmts
  <2> QED
    BY <2>1, <2>2, <2>3, <2>4 DEF IsScript
<1> QED
  BY <1>1, <1>2, <1>3

\* SetToSeq names every element of a set.
LEMMA SeqOfSet ==
  ASSUME NEW names, IsFiniteSet(names)
  PROVE  /\ SetToSeq(names) \in [1..Cardinality(names) -> names]
         /\ \A n \in names : \E i \in 1..Cardinality(names) : SetToSeq(names)[i] = n
<1>1. Cardinality(names) \in Nat /\ ExistsBijection(1..Cardinality(names), names)
  BY FS_CardinalityType
<1>2. PICK k \in Nat : k = Cardinality(names)
  BY <1>1
<1>3. \E f \in [1..k -> names] : IsInjective(f)
  BY <1>1, <1>2 DEF ExistsBijection, Bijection, Injection
<1>4. SetToSeq(names) = CHOOSE f \in [1..k -> names] : IsInjective(f)
  BY <1>2 DEF SetToSeq
<1>5. PICK label : label = SetToSeq(names) /\ label \in [1..k -> names] /\ IsInjective(label)
  BY <1>3, <1>4
<1>6. label \in Injection(1..k, names)
  BY <1>5 DEF Injection
<1>7. IsFiniteSet(1..k) /\ Cardinality(1..k) = k
  BY <1>2, FS_Interval
<1>8. label \in Surjection(1..k, names)
  BY <1>2, <1>6, <1>7, FS_Injection
<1> QED
  BY <1>2, <1>5, <1>8 DEF Surjection

\* The statements that link all of a set of names.
LEMMA LinkingAllLinks ==
  ASSUME NEW names, NEW type, NEW kind, IsFiniteSet(names)
  PROVE  LET s == LinkingAll(names, type, kind) IN
         /\ IsScript(s) /\ Linked(s, kind) = {Node(type, n) : n \in names}
         /\ \A x \in Stmts(s) : x.op \in {"node", "edge"} /\ (x.op = "edge" => x.kind = kind)
<1>1. PICK k \in Nat : k = Cardinality(names)
  BY FS_CardinalityType
<1>2. PICK s : s = LinkingAll(names, type, kind)
  OBVIOUS
<1>3. IsScript(s)
  BY <1>2, LinkingAllChained, ChainedIsScript
<1>4. PICK name : name = [j \in 1..k |-> Node(type, SetToSeq(names)[j])]
  OBVIOUS
<1>5. Len(s) = 2 * k /\ \A i \in 1..2 * k : s[i] = Place(name, kind, i)
  BY <1>1, <1>2, <1>4, LinkingAllPlaces
<1>6. \A i \in 1..2 * k : (i + 1) \div 2 \in 1..k
  BY <1>1
<1>7. ASSUME NEW i \in 1..2 * k
      PROVE  /\ s[i].op \in {"node", "edge"} /\ (s[i].op = "edge" => s[i].kind = kind)
             /\ s[i].node = name[(i + 1) \div 2]
  BY <1>5 DEF Place
<1>8. ASSUME NEW j \in 1..k
      PROVE  2 * j \in 1..2 * k /\ Links(s[2 * j], kind) /\ s[2 * j].node = name[j]
  <2>1. 2 * j \in 1..2 * k /\ (2 * j) % 2 # 1 /\ (2 * j + 1) \div 2 = j
    BY <1>1
  <2>2. PICK i \in 1..2 * k : i = 2 * j
    BY <2>1
  <2>3. s[i] = [op |-> "edge", node |-> name[j], kind |-> kind]
    BY <1>5, <2>1, <2>2 DEF Place
  <2> QED
    BY <2>2, <2>3 DEF Links
<1>9. Linked(s, kind) = {name[j] : j \in 1..k}
  <2>1. ASSUME NEW x \in Linked(s, kind) PROVE x \in {name[j] : j \in 1..k}
    <3>1. PICK i \in 1..2 * k : x = s[i].node
      BY <1>5, <2>1 DEF Linked, Stmts
    <3> QED
      BY <1>6, <1>7, <3>1
  <2>2. ASSUME NEW j \in 1..k PROVE name[j] \in Linked(s, kind)
    <3>1. PICK i \in 1..2 * k : i = 2 * j /\ Links(s[i], kind) /\ s[i].node = name[j]
      BY <1>8
    <3>2. s[i] \in Stmts(s)
      BY <1>5 DEF Stmts
    <3> QED
      BY <3>1, <3>2 DEF Linked
  <2> QED
    BY <2>1, <2>2
<1>10. {name[j] : j \in 1..k} = {Node(type, n) : n \in names}
  <2>1. /\ SetToSeq(names) \in [1..k -> names]
        /\ \A n \in names : \E i \in 1..k : SetToSeq(names)[i] = n
    BY <1>1, SeqOfSet
  <2> QED
    BY <1>4, <2>1
<1>11. \A x \in Stmts(s) : x.op \in {"node", "edge"} /\ (x.op = "edge" => x.kind = kind)
  BY <1>5, <1>7 DEF Stmts
<1> QED
  BY <1>2, <1>3, <1>9, <1>10, <1>11

LEMMA ClaimsScript ==
  ASSUME NEW claims, IsFiniteSet(claims)
  PROVE  LET s == [i \in 1..Cardinality(claims) |-> [op |-> "claim", claim |-> SetToSeq(claims)[i]]] IN
         IsScript(s) /\ \A x \in Stmts(s) : x.op = "claim"
<1>1. PICK k \in Nat : k = Cardinality(claims)
  BY FS_CardinalityType
<1>2. PICK s : s = [i \in 1..k |-> [op |-> "claim", claim |-> SetToSeq(claims)[i]]]
  OBVIOUS
<1>3. IsScript(s)
  <2>1. Chained(s, {})
    BY <1>1, <1>2, ClaimsChained
  <2> QED
    BY <2>1, ChainedIsScript
<1>4. Len(s) = k /\ \A i \in 1..k : s[i].op = "claim"
  <2>1. s \in [1..k -> {s[i] : i \in 1..k}] /\ \A i \in 1..k : s[i].op = "claim"
    BY <1>2
  <2> QED
    BY <1>1, <2>1, ArrayIsSeq
<1> QED
  BY <1>1, <1>2, <1>3, <1>4 DEF Stmts

LEMMA UnlinkedIsOrdered ==
  ASSUME NEW s, NEW eraser, NEW kind,
         ~Does(s, eraser) \/ \A x \in Stmts(s) : ~Links(x, kind)
  PROVE  Ordered(s, eraser, kind)
BY DEF Ordered, Does, Stmts

\* An ingest as it begins.
LEMMA ScriptMakes ==
  ASSUME NEW v \in Versions, NEW d
  PROVE  IsScript(Script(v)) /\ Making(d, v, Script(v)) /\ KindsKnown(Script(v))
<1>1. PICK tags : tags = LinkingAll(TagsOf[v], "topic", "tagged")
  OBVIOUS
<1>2. PICK terms : terms = LinkingAll(TermsOf[v], "term", "about")
  OBVIOUS
<1>3. PICK claims : claims = [i \in 1..Cardinality(ClaimsOf[v]) |->
                                [op |-> "claim", claim |-> SetToSeq(ClaimsOf[v])[i]]]
  OBVIOUS
<1>4. PICK head : head = Do("row") \o Linking(Node("project", ProjectOf[v]), "in_project") \o Do("untag")
  OBVIOUS
<1>5. PICK tagged : tagged = head \o tags
  OBVIOUS
<1>6. PICK body : body = tagged \o Do("chunk") \o Do("clear")
  OBVIOUS
<1>7. Script(v) = body \o terms \o claims
  BY <1>1, <1>2, <1>3, <1>4, <1>5, <1>6 DEF Script
<1>8. /\ IsScript(head)
      /\ Stmts(head) = {[op |-> "row"], [op |-> "node", node |-> Node("project", ProjectOf[v])],
                        [op |-> "edge", node |-> Node("project", ProjectOf[v]), kind |-> "in_project"],
                        [op |-> "untag"]}
  BY <1>4, ShortScripts, ScriptsJoin
<1>9. /\ IsScript(tags) /\ Linked(tags, "tagged") = Topics(v)
      /\ \A x \in Stmts(tags) : x.op \in {"node", "edge"} /\ (x.op = "edge" => x.kind = "tagged")
  BY <1>1, LinkingAllLinks, GraphAssumption DEF Topics
<1>10. /\ IsScript(terms) /\ Linked(terms, "about") = TheTerms(v)
       /\ \A x \in Stmts(terms) : x.op \in {"node", "edge"} /\ (x.op = "edge" => x.kind = "about")
  BY <1>2, LinkingAllLinks, GraphAssumption DEF TheTerms
<1>11. IsScript(claims) /\ \A x \in Stmts(claims) : x.op = "claim"
  BY <1>3, ClaimsScript, GraphAssumption
<1>12. IsScript(tagged) /\ Stmts(tagged) = Stmts(head) \cup Stmts(tags)
  BY <1>5, <1>8, <1>9, ScriptsJoin
<1>13. IsScript(body) /\ Stmts(body) = Stmts(tagged) \cup {[op |-> "chunk"], [op |-> "clear"]}
  BY <1>6, <1>12, ShortScripts, ScriptsJoin
<1>14. /\ IsScript(Script(v))
       /\ Stmts(Script(v)) = Stmts(body) \cup Stmts(terms) \cup Stmts(claims)
  BY <1>7, <1>10, <1>11, <1>13, ScriptsJoin
<1>15. Does(Script(v), "row") /\ Does(Script(v), "untag") /\ Does(Script(v), "clear")
  <2>1. \A op \in {"row", "untag", "clear"} : [op |-> op] \in Stmts(Script(v))
    BY <1>8, <1>12, <1>13, <1>14
  <2>2. \A op \in {"row", "untag", "clear"} : [op |-> op].op = op
    OBVIOUS
  <2>3. ASSUME NEW op \in {"row", "untag", "clear"} PROVE Does(Script(v), op)
    BY <2>1, <2>2 DEF Does
  <2> QED
    BY <2>3
<1>16. \A s \in Stmts(Script(v)) :
         /\ s.op \in {"row", "node", "edge", "untag", "chunk", "clear", "claim"}
         /\ Links(s, "tagged") => s \in Stmts(tags)
         /\ Links(s, "about") => s \in Stmts(terms)
         /\ s.op = "edge" => s.kind \in EdgeKinds
  <2>1. \A s \in Stmts(head) : /\ s.op \in {"row", "node", "edge", "untag"}
                               /\ s.op = "edge" => s.kind = "in_project"
    BY <1>8
  <2> QED
    BY <1>9, <1>10, <1>11, <1>12, <1>13, <1>14, <2>1 DEF Links, EdgeKinds
<1>17. Linked(Script(v), "tagged") = Topics(v) /\ Linked(Script(v), "about") = TheTerms(v)
  BY <1>9, <1>10, <1>12, <1>13, <1>14, <1>16 DEF Linked
<1>18. Ordered(Script(v), "untag", "tagged")
  <2>1. /\ \A x \in Stmts(head) : ~Links(x, "tagged")
        /\ \A x \in Stmts(tags) \cup Stmts(terms) \cup Stmts(claims) : x.op # "untag"
    BY <1>8, <1>9, <1>10, <1>11 DEF Links
  <2>2. Ordered(tagged, "untag", "tagged")
    BY <1>5, <1>8, <1>9, <2>1, ScriptsJoin, UnlinkedIsOrdered DEF Does
  <2>3. Ordered(body, "untag", "tagged")
    BY <1>6, <1>12, <2>2, ScriptsJoin, ShortScripts, UnlinkedIsOrdered DEF Does
  <2> QED
    BY <1>7, <1>10, <1>11, <1>13, <2>1, <2>3, ScriptsJoin, UnlinkedIsOrdered DEF Does
<1>19. Ordered(Script(v), "clear", "about")
  <2>1. /\ \A x \in Stmts(body) : ~Links(x, "about")
        /\ \A x \in Stmts(terms) \cup Stmts(claims) : x.op # "clear"
    BY <1>8, <1>9, <1>10, <1>11, <1>12, <1>13 DEF Links
  <2>2. Ordered(body, "clear", "about")
    BY <2>1, UnlinkedIsOrdered
  <2> QED
    BY <1>7, <1>10, <1>11, <1>13, <2>1, <2>2, ScriptsJoin, UnlinkedIsOrdered DEF Does
<1> QED
  BY <1>14, <1>15, <1>16, <1>17, <1>18, <1>19 DEF Making, WillSay, KindsKnown

-------------------------------------------------------------------------------

Statement(j, s) ==
  IF s.op \in {"row", "chunk", "drop", "retract", "assert"} THEN Rows(j, s) ELSE Edges(j, s)

\* The statement that erases the edges of a kind.
Erases(eraser, kind) == (eraser = "untag" /\ kind = "tagged") \/ (eraser = "clear" /\ kind = "about")

\* A statement of one document leaves the others alone.
LEMMA OthersStay ==
  ASSUME NEW j, NEW s, DOMAIN row = Docs, s.op \in Ops \cup {"collect"},
         Statement(j, s)
  PROVE  /\ DOMAIN row' = Docs
         /\ \A d \in Docs : d # j.doc \/ s.op = "collect" => (SaysNote(d) => SaysNote(d)')
<1>1. CASE s.op \in {"row", "chunk", "drop", "retract", "assert"}
  <2>1. edge' = edge
    BY <1>1 DEF Statement, Rows
  <2>2. DOMAIN row' = Docs /\ \A d \in Docs : d # j.doc => row'[d] = row[d]
    BY <1>1 DEF Statement, Rows
  <2>3. \A f : f.doc # j.doc => (f \in fact' => f \in fact)
    <3>1. CASE s.op \in {"row", "chunk", "drop"}
      BY <3>1 DEF Statement, Rows
    <3>2. CASE s.op = "retract"
      BY <3>2 DEF Statement, Rows
    <3>3. CASE s.op = "assert"
      <4>1. fact' = {f \in fact : f.doc # j.doc \/ f.axis # s.claim[1]}
                    \cup {[doc |-> j.doc, axis |-> s.claim[1], value |-> s.claim[2]]}
        BY <3>3 DEF Statement, Rows
      <4> QED
        BY <4>1
    <3> QED
      BY <1>1, <3>1, <3>2, <3>3
  <2> QED
    BY <1>1, <2>1, <2>2, <2>3 DEF SaysNote, Edgeless, Factless, Present
<1>2. CASE s.op \notin {"row", "chunk", "drop", "retract", "assert"}
  <2>1. row' = row /\ fact' = fact
    BY <1>2 DEF Statement, Edges
  <2>2. ASSUME NEW d, d # j.doc \/ s.op = "collect"
        PROVE  \A e : e.from = d => (e \in edge' <=> e \in edge)
    <3>1. CASE s.op = "edge"
      <4>1. edge' = edge \cup {[from |-> j.doc, to |-> s.node, kind |-> s.kind]}
        BY <3>1 DEF Statement, Edges, Edge
      <4> QED
        BY <2>2, <3>1, <4>1
    <3>2. CASE s.op \in {"node", "collect", "claim"}
      BY <3>2 DEF Statement, Edges
    <3>3. CASE s.op \in {"untag", "clear", "unlink"}
      BY <2>2, <3>3 DEF Statement, Edges, Cleared
    <3> QED
      BY <1>2, <3>1, <3>2, <3>3 DEF Ops
  <2>3. ASSUME NEW d \in Docs, d # j.doc \/ s.op = "collect"
        PROVE  /\ \A kind : Present(d, kind)' = Present(d, kind)
               /\ Edgeless(d) => Edgeless(d)'
    <3>1. \A e : e.from = d => (e \in edge' <=> e \in edge)
      BY <2>2, <2>3
    <3> QED
      BY <3>1 DEF Present, Edgeless
  <2> QED
    BY <2>1, <2>3 DEF SaysNote, Factless
<1> QED
  BY <1>1, <1>2

\* What a statement of an ingest does to the edges of a kind.
LEMMA StatementSays ==
  ASSUME NEW j, NEW s, s.op \in Ops \ {"drop", "unlink", "retract"},
         Statement(j, s),
         NEW eraser, NEW kind,
         Erases(eraser, kind)
  PROVE  Present(j.doc, kind)' = IF s.op = eraser THEN {}
                                 ELSE IF Links(s, kind) THEN Present(j.doc, kind) \cup {s.node}
                                 ELSE Present(j.doc, kind)
<1>1. (eraser = "untag" /\ kind = "tagged") \/ (eraser = "clear" /\ kind = "about")
  BY DEF Erases
<1>2. CASE s.op \in {"row", "chunk", "assert", "node", "claim"}
  <2>1. edge' = edge
    BY <1>2 DEF Statement, Rows, Edges
  <2> QED
    BY <1>1, <1>2, <2>1 DEF Present, Links
<1>3. CASE s.op = "edge"
  <2>1. PICK e : e = [from |-> j.doc, to |-> s.node, kind |-> s.kind]
    OBVIOUS
  <2>2. edge' = edge \cup {e} /\ e.from = j.doc /\ e.to = s.node /\ e.kind = s.kind
    BY <1>3, <2>1 DEF Statement, Edges, Edge
  <2> QED
    BY <1>1, <1>3, <2>2 DEF Present, Links
<1>4. CASE s.op = "untag"
  <2>1. edge' = {e \in edge : e.from # j.doc \/ e.kind # "tagged"}
    BY <1>4 DEF Statement, Edges
  <2> QED
    BY <1>1, <1>4, <2>1 DEF Present, Links
<1>5. CASE s.op = "clear"
  <2>1. edge' = {e \in edge : e.from # j.doc \/ e.kind \notin {"about", "claims"}}
    BY <1>5 DEF Statement, Edges, Cleared
  <2> QED
    BY <1>1, <1>5, <2>1 DEF Present, Links
<1> QED
  BY <1>2, <1>3, <1>4, <1>5 DEF Ops

\* A statement of an ingest brings the edges of a kind nearer to what they should be.
LEMMA WillSayStep ==
  ASSUME NEW j, NEW todo, IsScript(todo), todo # <<>>, NEW rest, NEW s, s = Head(todo),
         s.op \in Ops \ {"drop", "unlink", "retract"},
         Statement(j, s),
         NEW eraser, NEW kind, NEW nodes,
         Erases(eraser, kind),
         Ordered(rest, eraser, kind), Linked(rest, kind) = Linked(Tail(todo), kind),
         Does(rest, eraser) <=> Does(Tail(todo), eraser),
         WillSay(j.doc, todo, eraser, kind, nodes)
  PROVE  WillSay(j.doc, rest, eraser, kind, nodes)'
<1>1. PICK now : now = Present(j.doc, kind)
  OBVIOUS
<1>2. PICK then : then = Present(j.doc, kind)'
  OBVIOUS
<1>3. then = IF s.op = eraser THEN {} ELSE IF Links(s, kind) THEN now \cup {s.node} ELSE now
  BY <1>1, <1>2, StatementSays
<1>4. PICK t : t = Tail(todo)
  OBVIOUS
<1>5. Stmts(todo) = {s} \cup Stmts(t) /\ (Links(s, kind) => ~Does(todo, eraser)) /\ eraser # "edge"
  BY <1>4, ScriptHead DEF WillSay, Erases
<1>6. /\ Does(todo, eraser) <=> s.op = eraser \/ Does(t, eraser)
      /\ Linked(todo, kind) = IF Links(s, kind) THEN {s.node} \cup Linked(t, kind) ELSE Linked(t, kind)
  BY <1>5 DEF Does, Linked
<1>7. IF Does(t, eraser) THEN Linked(t, kind) = nodes ELSE then \cup Linked(t, kind) = nodes
  <2>1. s.op = eraser => ~Links(s, kind)
    BY <1>5 DEF Links
  <2>2. IF Does(todo, eraser) THEN Linked(todo, kind) = nodes ELSE now \cup Linked(todo, kind) = nodes
    BY <1>1 DEF WillSay
  <2> QED
    BY <1>3, <1>5, <1>6, <2>1, <2>2
<1> QED
  BY <1>2, <1>4, <1>7 DEF WillSay

\* What a job does next, if it is recording a claim, links nothing but the claim.
LEMMA AssertingSays ==
  ASSUME NEW d, NEW claim
  PROVE  /\ IsScript(Asserting(d, claim))
         /\ \A x \in Stmts(Asserting(d, claim)) :
              x.op \in {"assert", "node", "edge"} /\ ~Links(x, "about") /\ ~Links(x, "tagged")
         /\ KindsKnown(Asserting(d, claim))
<1>1. PICK a : a = [op |-> "assert", claim |-> claim]
  OBVIOUS
<1>2. PICK one : one = <<a>>
  OBVIOUS
<1>3. IsScript(one) /\ Stmts(one) = {a}
  BY <1>2 DEF IsScript, Stmts
<1>4. PICK link : link = Linking(Node("claim", claim[1]), "claims")
  OBVIOUS
<1>5. /\ IsScript(link)
      /\ Stmts(link) = {[op |-> "node", node |-> Node("claim", claim[1])],
                        [op |-> "edge", node |-> Node("claim", claim[1]), kind |-> "claims"]}
  BY <1>4, ShortScripts
<1>6. IsScript(one \o link) /\ Stmts(one \o link) = {a} \cup Stmts(link)
  BY <1>3, <1>5, ScriptsJoin
<1>7. Asserting(d, claim) = IF Known(d, claim) THEN <<>> ELSE one \o link
  BY <1>1, <1>2, <1>4 DEF Asserting
<1>8. \A x \in {a} \cup Stmts(link) :
        /\ x.op \in {"assert", "node", "edge"} /\ ~Links(x, "about") /\ ~Links(x, "tagged")
        /\ x.op = "edge" => x.kind \in EdgeKinds
  BY <1>1, <1>5 DEF Links, EdgeKinds
<1> QED
  BY <1>6, <1>7, <1>8, ShortScripts DEF KindsKnown

\* A statement of an ingest.
LEMMA MakingStep ==
  ASSUME NEW j, DOMAIN row = Docs, j.doc \in Docs, NEW s, s = Head(j.todo), s.op \in Ops,
         IsScript(j.todo), j.todo # <<>>, Making(j.doc, j.version, j.todo),
         Statement(j, s),
         NEW pre, NEW more, more = pre \o Tail(j.todo),
         IsScript(pre), \A x \in Stmts(pre) : /\ x.op \in {"assert", "node", "edge"}
                                              /\ ~Links(x, "about") /\ ~Links(x, "tagged")
  PROVE  Making(j.doc, j.version, more)'
<1>1. PICK t : t = Tail(j.todo)
  OBVIOUS
<1>2. IsScript(t) /\ s \in Stmts(j.todo) /\ Stmts(j.todo) = {s} \cup Stmts(t)
  BY <1>1, ScriptHead
<1>3. IsScript(more) /\ Stmts(more) = Stmts(pre) \cup Stmts(t)
  BY <1>1, <1>2, ScriptsJoin
<1>4. s.op \in Ops \ {"drop", "unlink", "retract"}
  BY <1>2 DEF Making
<1>5. \A x \in Stmts(more) : x.op \notin {"drop", "unlink", "retract", "collect"}
  BY <1>2, <1>3 DEF Making
<1>6. ASSUME NEW eraser, NEW kind, NEW nodes,
             Erases(eraser, kind),
             WillSay(j.doc, j.todo, eraser, kind, nodes)
      PROVE  WillSay(j.doc, more, eraser, kind, nodes)'
  <2>1. (eraser = "untag" /\ kind = "tagged") \/ (eraser = "clear" /\ kind = "about")
    BY <1>6 DEF Erases
  <2>2. Ordered(t, eraser, kind)
    BY <1>1, <1>6, ScriptHead DEF WillSay
  <2>3. Ordered(pre, eraser, kind)
    BY <2>1, UnlinkedIsOrdered
  <2>4. Ordered(more, eraser, kind)
    BY <1>1, <1>2, <2>1, <2>2, <2>3, ScriptsJoin
  <2>5. Linked(more, kind) = Linked(t, kind)
    BY <1>3, <2>1 DEF Linked
  <2>6. Does(more, eraser) <=> Does(t, eraser)
    BY <1>3, <2>1 DEF Does
  <2> QED
    BY <1>1, <1>4, <1>6, <2>4, <2>5, <2>6, WillSayStep
<1>7. Does(more, "row") \/ row'[j.doc] = j.version
  <2>1. CASE s.op = "row"
    BY <2>1 DEF Statement, Rows
  <2>2. CASE s.op # "row"
    <3>1. row' = row
      BY <1>4, <2>2 DEF Statement, Rows, Edges
    <3>2. Does(j.todo, "row") => Does(more, "row")
      BY <1>2, <1>3, <2>2 DEF Does
    <3> QED
      BY <3>1, <3>2 DEF Making
  <2> QED
    BY <2>1, <2>2
<1> QED
  BY <1>5, <1>6, <1>7 DEF Making, Erases

\* An ingest that is through.
LEMMA MadeSays ==
  ASSUME NEW d, NEW v, Making(d, v, <<>>)'
  PROVE  SaysNote(d)'
<1>1. \A op : ~Does(<<>>, op)
  BY ShortScripts DEF Does
<1>2. \A kind : Linked(<<>>, kind) = {}
  BY ShortScripts DEF Linked
<1>3. row'[d] = v /\ v # Absent
  BY <1>1, GraphAssumption DEF Making
<1> QED
  BY <1>1, <1>2, <1>3 DEF Making, WillSay, SaysNote

LEMMA HeadOfConcat ==
  ASSUME NEW S, NEW x \in S, NEW t \in Seq(S)
  PROVE  /\ <<x>> \o t # <<>> /\ <<x>> \o t \in Seq(S)
         /\ Head(<<x>> \o t) = x /\ Tail(<<x>> \o t) = t
<1>1. PICK u : u = <<x>> \o t
  OBVIOUS
<1>2. <<x>> \in Seq(S) /\ Len(<<x>>) = 1 /\ <<x>>[1] = x /\ Len(t) \in Nat
  OBVIOUS
<1>3. /\ u \in Seq(S) /\ Len(u) = 1 + Len(t)
      /\ \A i \in 1..1 + Len(t) : u[i] = IF i <= 1 THEN <<x>>[i] ELSE t[i - 1]
  BY <1>1, <1>2, ConcatProperties
<1>4. u # <<>> /\ u[1] = x
  BY <1>2, <1>3
<1>5. PICK v : v = Tail(u)
  OBVIOUS
<1>6. v \in Seq(S) /\ Len(v) = Len(t) /\ \A i \in 1..Len(t) : v[i] = u[i + 1]
  BY <1>2, <1>3, <1>4, <1>5
<1>7. ASSUME NEW i \in 1..Len(t) PROVE v[i] = t[i]
  <2>1. i + 1 \in 1..1 + Len(t) /\ ~(i + 1 <= 1) /\ (i + 1) - 1 = i
    BY <1>2
  <2> QED
    BY <1>3, <1>6, <2>1
<1>8. v = t
  BY <1>6, <1>7, SeqEqual
<1>9. Head(u) = x
  BY <1>3, <1>4
<1> QED
  BY <1>1, <1>3, <1>4, <1>5, <1>8, <1>9

LEMMA DropScripts ==
  LET three == Do("drop") \o Do("unlink") \o Do("retract")
      two == Do("unlink") \o Do("retract")
      one == Do("retract")
  IN /\ three # <<>> /\ Head(three) = [op |-> "drop"] /\ Tail(three) = two
     /\ two # <<>> /\ Head(two) = [op |-> "unlink"] /\ Tail(two) = one
     /\ one # <<>> /\ Head(one) = [op |-> "retract"] /\ Tail(one) = <<>>
<1>1. PICK a, b, c : a = [op |-> "drop"] /\ b = [op |-> "unlink"] /\ c = [op |-> "retract"]
  OBVIOUS
<1>2. Do("drop") = <<a>> /\ Do("unlink") = <<b>> /\ Do("retract") = <<c>>
  BY <1>1 DEF Do
<1>3. PICK S : S = {a, b, c}
  OBVIOUS
<1>4. a \in S /\ b \in S /\ c \in S /\ <<a>> \in Seq(S) /\ <<b>> \in Seq(S) /\ <<c>> \in Seq(S)
  BY <1>3
<1>5. /\ <<b>> \o <<c>> # <<>> /\ <<b>> \o <<c>> \in Seq(S)
      /\ Head(<<b>> \o <<c>>) = b /\ Tail(<<b>> \o <<c>>) = <<c>>
  BY <1>4, HeadOfConcat
<1>6. (<<a>> \o <<b>>) \o <<c>> = <<a>> \o (<<b>> \o <<c>>)
  BY <1>4, ConcatAssociative
<1>7. /\ <<a>> \o (<<b>> \o <<c>>) # <<>> /\ Head(<<a>> \o (<<b>> \o <<c>>)) = a
      /\ Tail(<<a>> \o (<<b>> \o <<c>>)) = <<b>> \o <<c>>
  BY <1>4, <1>5, HeadOfConcat
<1>8. <<c>> # <<>> /\ Head(<<c>>) = c /\ Tail(<<c>>) = <<>>
  OBVIOUS
<1> QED
  BY <1>1, <1>2, <1>5, <1>6, <1>7, <1>8

\* A statement of a delete.
LEMMA DroppingStep ==
  ASSUME NEW j, DOMAIN row = Docs, j.doc \in Docs, NEW s, s = Head(j.todo), Dropping(j.doc, j.todo),
         Statement(j, s)
  PROVE  /\ s.op \in {"drop", "unlink", "retract"} /\ j.todo # <<>>
         /\ Tail(j.todo) # <<>> => Dropping(j.doc, Tail(j.todo))'
         /\ Tail(j.todo) = <<>> => SaysNote(j.doc)'
<1>1. PICK three, two, one : /\ three = Do("drop") \o Do("unlink") \o Do("retract")
                             /\ two = Do("unlink") \o Do("retract")
                             /\ one = Do("retract")
  OBVIOUS
<1>2. /\ three # <<>> /\ Head(three) = [op |-> "drop"] /\ Tail(three) = two
      /\ two # <<>> /\ Head(two) = [op |-> "unlink"] /\ Tail(two) = one
      /\ one # <<>> /\ Head(one) = [op |-> "retract"] /\ Tail(one) = <<>>
  BY <1>1, DropScripts
<1>3. CASE j.todo = three
  <2>1. s.op = "drop" /\ row' = [row EXCEPT ![j.doc] = Absent]
    <3>1. s.op = "drop"
      BY <1>2, <1>3
    <3> QED
      BY <3>1 DEF Statement, Rows
  <2>2. Dropping(j.doc, two)'
    BY <1>1, <2>1 DEF Dropping
  <2> QED
    BY <1>2, <1>3, <2>1, <2>2
<1>4. CASE row[j.doc] = Absent /\ j.todo = two
  <2>1. /\ s.op = "unlink" /\ edge' = {e \in edge : e.from # j.doc}
        /\ row' = row
    <3>1. s.op = "unlink"
      BY <1>2, <1>4
    <3> QED
      BY <3>1 DEF Statement, Edges
  <2>2. Dropping(j.doc, one)'
    BY <1>1, <1>4, <2>1 DEF Dropping, Edgeless
  <2> QED
    BY <1>2, <1>4, <2>1, <2>2
<1>5. CASE row[j.doc] = Absent /\ Edgeless(j.doc) /\ j.todo = one
  <2>1. s.op = "retract" /\ fact' = {f \in fact : f.doc # j.doc} /\ row' = row /\ edge' = edge
    <3>1. s.op = "retract"
      BY <1>2, <1>5
    <3> QED
      BY <3>1 DEF Statement, Rows
  <2>2. SaysNote(j.doc)'
    BY <1>5, <2>1 DEF SaysNote, Edgeless, Factless
  <2> QED
    BY <1>2, <1>5, <2>1, <2>2
<1> QED
  BY <1>1, <1>3, <1>4, <1>5 DEF Dropping

LEMMA ExecuteNotes ==
  ASSUME NoteInv, NEW w \in Workers, Execute(w)
  PROVE  NoteInv'
<1>1. PICK j : j = job[w]
  OBVIOUS
<1>2. PICK s : s = Head(j.todo)
  OBVIOUS
<1>3. PICK pre : pre = IF s.op = "claim" THEN Asserting(j.doc, s.claim) ELSE <<>>
  OBVIOUS
<1>4. PICK more : more = pre \o Tail(j.todo)
  OBVIOUS
<1>5. /\ ~Idle(w) /\ Statement(j, s)
      /\ job' = [job EXCEPT ![w] = IF more = <<>> THEN Nothing ELSE [j EXCEPT !.todo = more]]
      /\ whole' = IF more = <<>> /\ j.doc \in Docs THEN [whole EXCEPT ![j.doc] = TRUE] ELSE whole
  BY <1>1, <1>2, <1>3, <1>4 DEF Execute, Statement
<1>6. GraphInv'
  BY ExecuteStep DEF NoteInv
<1>7. /\ DOMAIN job = Workers /\ \A other \in Workers \ {w} : Idle(other)
      /\ j.todo # <<>> /\ (j.todo = Sweep \/ Chained(j.todo, node))
      /\ DOMAIN j \in {{"doc", "todo"}, {"doc", "version", "todo"}}
  BY <1>1, <1>5 DEF NoteInv, GraphInv, JobsInv
<1>8. s.op \in Ops \cup {"collect"}
  <2>1. CASE j.todo = Sweep
    BY <1>2, <2>1 DEF Sweep, Do
  <2>2. CASE Chained(j.todo, node)
    BY <1>2, <1>7, <2>2, HeadOfChained
  <2> QED
    BY <1>7, <2>1, <2>2
<1>9. /\ DOMAIN row' = Docs /\ DOMAIN whole' = Docs
      /\ \A d \in Docs : d # j.doc \/ s.op = "collect" => (SaysNote(d) => SaysNote(d)')
  BY <1>5, <1>8, OthersStay DEF NoteInv
<1>10. JobKnows(j)
  BY <1>1, <1>5 DEF NoteInv
<1>11. /\ more # <<>> => JobKnows([j EXCEPT !.todo = more])'
       /\ more = <<>> /\ j.doc \in Docs => SaysNote(j.doc)'
  <2>1. CASE j.doc = Absent /\ j.todo = Sweep
    <3>1. s.op = "collect" /\ Tail(j.todo) = <<>>
      BY <1>2, <2>1 DEF Sweep, Do
    <3>2. more = <<>>
      BY <1>3, <1>4, <3>1
    <3> QED
      BY <2>1, <3>2, GraphAssumption
  <2>2. CASE j.doc \in Docs /\ Dropping(j.doc, j.todo)
    <3>1. /\ s.op \in {"drop", "unlink", "retract"}
          /\ Tail(j.todo) # <<>> => Dropping(j.doc, Tail(j.todo))'
          /\ Tail(j.todo) = <<>> => SaysNote(j.doc)'
      BY <1>2, <1>5, <2>2, DroppingStep DEF NoteInv
    <3>2. more = Tail(j.todo)
      <4>1. j.todo # Sweep
        BY <1>2, <3>1 DEF Sweep, Do
      <4>2. IsScript(Tail(j.todo))
        BY <1>7, <4>1, ChainedIsScript, ScriptHead
      <4> QED
        BY <1>3, <1>4, <3>1, <4>2, ConcatEmptySeq DEF IsScript
    <3>3. PICK rest : rest = [j EXCEPT !.todo = more]
      OBVIOUS
    <3>4. rest.doc = j.doc /\ rest.todo = more
      BY <1>7, <3>3
    <3> QED
      BY <2>2, <3>1, <3>2, <3>3, <3>4 DEF JobKnows
  <2>3. CASE DOMAIN j = {"doc", "version", "todo"} /\ j.doc \in Docs /\ Making(j.doc, j.version, j.todo)
    <3>1. j.todo # Sweep
      <4>1. Stmts(Sweep) = {[op |-> "collect"]}
        BY ShortScripts DEF Sweep
      <4>2. \A x \in Stmts(j.todo) : x.op # "collect"
        BY <2>3 DEF Making
      <4>3. [op |-> "collect"].op = "collect"
        OBVIOUS
      <4> QED
        BY <4>1, <4>2, <4>3
    <3>2. IsScript(j.todo) /\ s.op \in Ops
      BY <1>2, <1>7, <3>1, ChainedIsScript, HeadOfChained
    <3>3. IsScript(pre) /\ \A x \in Stmts(pre) : /\ x.op \in {"assert", "node", "edge"}
                                                 /\ ~Links(x, "about") /\ ~Links(x, "tagged")
      BY <1>3, AssertingSays, ShortScripts
    <3>4. Making(j.doc, j.version, more)'
      BY <1>2, <1>4, <1>5, <1>7, <2>3, <3>2, <3>3, MakingStep DEF NoteInv
    <3>5. PICK rest : rest = [j EXCEPT !.todo = more]
      OBVIOUS
    <3>6. /\ rest.doc = j.doc /\ rest.todo = more /\ rest.version = j.version
          /\ DOMAIN rest = {"doc", "version", "todo"}
      BY <2>3, <3>5
    <3>7. JobKnows(rest)'
      BY <2>3, <3>4, <3>6 DEF JobKnows
    <3>8. more = <<>> => SaysNote(j.doc)'
      BY <3>4, MadeSays
    <3> QED
      BY <3>5, <3>7, <3>8
  <2> QED
    BY <1>10, <2>1, <2>2, <2>3 DEF JobKnows
<1>12. \A v \in Workers : ~Idle(v)' => JobKnows(job[v])'
  <2>1. \A v \in Workers \ {w} : Idle(v)'
    BY <1>5, <1>7 DEF Idle
  <2>2. ~Idle(w)' => more # <<>> /\ job'[w] = [j EXCEPT !.todo = more]
    BY <1>5, <1>7 DEF Idle
  <2>3. ~Idle(w)' => JobKnows(job[w])'
    BY <1>11, <2>2 DEF JobKnows, Making, Dropping
  <2> QED
    BY <2>1, <2>3
<1>13. ASSUME NEW d \in Docs, whole'[d], \A v \in Workers : job'[v].doc # d
       PROVE  SaysNote(d)'
  <2>1. CASE d = j.doc
    <3>1. more = <<>>
      <4> SUFFICES ASSUME more # <<>> PROVE FALSE
        OBVIOUS
      <4>1. job'[w] = [j EXCEPT !.todo = more]
        BY <1>5, <1>7
      <4>2. job'[w].doc = j.doc
        BY <1>7, <4>1
      <4> QED
        BY <1>13, <2>1, <4>2
    <3> QED
      BY <1>11, <2>1, <3>1
  <2>2. CASE d # j.doc
    <3>1. whole[d]
      BY <1>5, <1>13, <2>2 DEF NoteInv
    <3>2. \A v \in Workers : job[v].doc # d
      BY <1>1, <1>5, <1>7, <1>13, <2>2
    <3>3. SaysNote(d)
      BY <3>1, <3>2 DEF NoteInv
    <3> QED
      BY <1>9, <2>2, <3>3
  <2> QED
    BY <2>1, <2>2
<1> QED
  BY <1>6, <1>9, <1>12, <1>13 DEF NoteInv

\* A job that begins, that is cut short, or a request.
LEMMA SameStore ==
  ASSUME NoteInv, GraphInv', UNCHANGED store, DOMAIN whole' = Docs,
         \A w \in Workers : ~Idle(w)' => JobKnows(job'[w]),
         \A d \in Docs : whole'[d] /\ (\A w \in Workers : job'[w].doc # d) =>
                           whole[d] /\ (\A w \in Workers : job[w].doc # d)
  PROVE  NoteInv'
<1>1. \A d \in Docs : SaysNote(d) => SaysNote(d)'
  BY DEF store, SaysNote, Edgeless, Factless, Present
<1>2. ASSUME NEW w \in Workers, ~Idle(w)' PROVE JobKnows(job[w])'
  <2>1. JobKnows(job'[w])
    BY <1>2
  <2>2. row' = row /\ edge' = edge
    BY DEF store
  <2> QED
    BY <2>1, <2>2 DEF JobKnows, Making, WillSay, Present, Dropping, Edgeless
<1> QED
  BY <1>1, <1>2 DEF NoteInv, store

LEMMA BegunNotes ==
  ASSUME NoteInv, GraphInv', NEW w \in Workers, Turn(w), UNCHANGED <<store, whole>>,
         NEW j, job' = [job EXCEPT ![w] = j], JobKnows(j)
  PROVE  NoteInv'
<1>1. DOMAIN job = Workers /\ \A v \in Workers : job[v] = Nothing
  BY DEF NoteInv, GraphInv, JobsInv, Turn, Idle
<1>2. job'[w] = j /\ \A v \in Workers \ {w} : job'[v] = Nothing
  BY <1>1
<1>3. \A v \in Workers : ~Idle(v)' => JobKnows(job'[v])
  BY <1>2 DEF Idle
<1>4. \A d \in Docs : \A v \in Workers : job[v].doc # d
  BY <1>1, GraphAssumption DEF Nothing
<1> QED
  BY <1>3, <1>4, SameStore DEF NoteInv

Names(nodes) == {n[2] : n \in nodes}

LEMMA NamesOfNodes ==
  ASSUME NEW type, NEW names, NEW nodes, nodes = {Node(type, name) : name \in names}
  PROVE  Names(nodes) = names
<1>1. \A name : Node(type, name)[2] = name
  BY DEF Node
<1> QED
  BY <1>1 DEF Names

LEMMA NoteStep == NoteInv /\ [Next]_vars => NoteInv'
<1> SUFFICES ASSUME NoteInv, [Next]_vars PROVE NoteInv'
  OBVIOUS
<1>1. GraphInv'
  BY GraphStep, GraphAssumption DEF NoteInv
<1>2. ASSUME NEW w \in Workers, NEW v \in Versions, Ingest(w, v) PROVE NoteInv'
  <2>1. PICK j : j = [doc |-> OwnerOf[v], version |-> v, todo |-> Script(v)]
    OBVIOUS
  <2>2. Turn(w) /\ job' = [job EXCEPT ![w] = j] /\ UNCHANGED <<store, whole>>
    BY <1>2, <2>1 DEF Ingest
  <2>3. /\ DOMAIN j = {"doc", "version", "todo"} /\ j.doc = OwnerOf[v] /\ j.version = v
        /\ j.todo = Script(v)
    BY <2>1
  <2>4. JobKnows(j)
    BY <2>3, ScriptMakes, GraphAssumption DEF JobKnows
  <2> QED
    BY <1>1, <2>2, <2>4, BegunNotes
<1>3. ASSUME NEW w \in Workers, NEW d \in Docs, Delete(w, d) PROVE NoteInv'
  <2>1. PICK todo : todo = Do("drop") \o Do("unlink") \o Do("retract")
    OBVIOUS
  <2>2. PICK j : j = [doc |-> d, todo |-> todo]
    OBVIOUS
  <2>3. Turn(w) /\ job' = [job EXCEPT ![w] = j] /\ UNCHANGED <<store, whole>>
    BY <1>3, <2>1, <2>2 DEF Delete
  <2>4. j.doc = d /\ j.todo = todo
    BY <2>2
  <2>5. JobKnows(j)
    BY <2>1, <2>4 DEF JobKnows, Dropping
  <2> QED
    BY <1>1, <2>3, <2>5, BegunNotes
<1>4. ASSUME NEW w \in Workers, Compact(w) PROVE NoteInv'
  <2>1. PICK j : j = [doc |-> Absent, todo |-> Sweep]
    OBVIOUS
  <2>2. Turn(w) /\ job' = [job EXCEPT ![w] = j] /\ UNCHANGED <<store, whole>>
    BY <1>4, <2>1 DEF Compact, Sweep
  <2>3. JobKnows(j)
    BY <2>1 DEF JobKnows
  <2> QED
    BY <1>1, <2>2, <2>3, BegunNotes
<1>5. ASSUME NEW w \in Workers, CutShort(w) PROVE NoteInv'
  <2>1. /\ job' = [job EXCEPT ![w] = Nothing] /\ UNCHANGED store
        /\ whole' = IF job[w].doc \in Docs THEN [whole EXCEPT ![job[w].doc] = FALSE] ELSE whole
    BY <1>5 DEF CutShort
  <2>2. DOMAIN job = Workers /\ DOMAIN whole = Docs
    BY DEF NoteInv, GraphInv, JobsInv
  <2>3. \A v \in Workers : ~Idle(v)' => JobKnows(job'[v])
    BY <2>1, <2>2 DEF NoteInv, Idle
  <2>4. ASSUME NEW d \in Docs, whole'[d], \A v \in Workers : job'[v].doc # d
        PROVE  whole[d] /\ \A v \in Workers : job[v].doc # d
    <3>1. d # job[w].doc
      BY <2>1, <2>2, <2>4
    <3> QED
      BY <2>1, <2>2, <2>4, <3>1
  <2>5. DOMAIN whole' = Docs
    BY <2>1, <2>2
  <2> QED
    BY <1>1, <2>1, <2>3, <2>4, <2>5, SameStore
<1>6. ASSUME UNCHANGED <<store, job, whole>> PROVE NoteInv'
  BY <1>1, <1>6, SameStore DEF NoteInv, Idle
<1>7. ASSUME NEW a \in Askers,
             \/ \E r \in Requests : Ask(a, r) \/ Search(a, r) \/ Recall(a, r) \/ Neighbours(a, r)
             \/ SearchVectors(a) \/ SearchNearest(a) \/ SearchText(a) \/ QueryLinked(a)
         \/ QueryNeighbours(a) \/ Respond(a)
      PROVE  UNCHANGED <<store, job, whole>>
  BY <1>7 DEF Ask, Search, Recall, Neighbours, Begin, SearchVectors, SearchNearest, SearchText, QueryLinked,
              QueryNeighbours, Respond
<1>8. CASE UNCHANGED vars
  BY <1>6, <1>8 DEF vars, store
<1> QED
  BY <1>2, <1>3, <1>4, <1>5, <1>6, <1>7, <1>8, ExecuteNotes DEF Next

LEMMA InitialNotes == Init => NoteInv
<1> SUFFICES ASSUME Init PROVE NoteInv
  OBVIOUS
<1>1. GraphInv
  BY DEF Init, GraphInv, JobsInv, NodesOutliveEdges, Idle
<1>2. \A d \in Docs : SaysNote(d)
  BY DEF Init, SaysNote, Edgeless, Factless
<1> QED
  BY <1>1, <1>2 DEF Init, NoteInv, Idle

\* "deterministic graph": a document no job is at and none was cut short on has as
\* tools, concepts and topics what its note says, and one that is gone has nothing,
\* for any documents, versions and terms, and any number of workers.
THEOREM DeterministicGraph == Spec => []GraphSaysNote
<1>1. NoteInv => GraphSaysNote
  <2> SUFFICES ASSUME NoteInv, NEW d \in Docs, whole[d], \A w \in Workers : job[w].doc # d,
                      NEW about, about = {e.to[2] : e \in {e \in edge : e.from = d /\ e.kind = "about"}},
                      NEW tagged, tagged = {e.to[2] : e \in {e \in edge : e.from = d /\ e.kind = "tagged"}}
               PROVE  IF row[d] = Absent
                        THEN (\A e \in edge : e.from # d) /\ (\A f \in fact : f.doc # d)
                        ELSE about = TermsOf[row[d]] /\ tagged = TagsOf[row[d]]
    BY DEF GraphSaysNote
  <2>1. SaysNote(d)
    BY DEF NoteInv
  <2>2. CASE row[d] = Absent
    BY <2>1, <2>2 DEF SaysNote, Edgeless, Factless
  <2>3. CASE row[d] # Absent
    <3>1. Present(d, "about") = TheTerms(row[d]) /\ Present(d, "tagged") = Topics(row[d])
      BY <2>1, <2>3 DEF SaysNote
    <3>2. about = Names(Present(d, "about")) /\ tagged = Names(Present(d, "tagged"))
      BY DEF Present, Names
    <3>3. Names(TheTerms(row[d])) = TermsOf[row[d]] /\ Names(Topics(row[d])) = TagsOf[row[d]]
      BY NamesOfNodes DEF TheTerms, Topics
    <3> QED
      BY <2>3, <3>1, <3>2, <3>3
  <2> QED
    BY <2>2, <2>3
<1> QED
  BY <1>1, InitialNotes, NoteStep, PTL DEF Spec

-------------------------------------------------------------------------------
(* Types *)

StoreTyped ==
  /\ row \in [Docs -> Versions \cup {Absent}] /\ chunk \in [Docs -> Versions \cup {Absent}]
  /\ \A e \in edge : e.from \in Docs /\ e.kind \in EdgeKinds
  /\ \A f \in fact : f.doc \in Docs

LEMMA StatementTyped ==
  ASSUME StoreTyped, NEW j, NEW s, Statement(j, s), s.op \in Ops \cup {"collect"},
         s.op # "collect" => j.doc \in Docs,
         s.op \in {"row", "chunk"} => j.version \in Versions,
         s.op = "edge" => s.kind \in EdgeKinds
  PROVE  StoreTyped'
<1>1. CASE s.op \in {"row", "chunk", "drop"}
  <2>1. /\ row' \in [Docs -> Versions \cup {Absent}] /\ chunk' \in [Docs -> Versions \cup {Absent}]
        /\ UNCHANGED <<edge, fact>>
    BY <1>1 DEF StoreTyped, Statement, Rows
  <2> QED
    BY <2>1 DEF StoreTyped
<1>2. CASE s.op = "retract"
  <2>1. fact' = {f \in fact : f.doc # j.doc} /\ UNCHANGED <<row, chunk, edge>>
    BY <1>2 DEF Statement, Rows
  <2> QED
    BY <2>1 DEF StoreTyped
<1>3. CASE s.op = "assert"
  <2>1. PICK new : new = [doc |-> j.doc, axis |-> s.claim[1], value |-> s.claim[2]]
    OBVIOUS
  <2>2. fact' \subseteq fact \cup {new} /\ UNCHANGED <<row, chunk, edge>>
    BY <1>3, <2>1 DEF Statement, Rows
  <2>3. new.doc \in Docs
    BY <1>3, <2>1
  <2> QED
    BY <2>2, <2>3 DEF StoreTyped
<1>4. CASE s.op \notin {"row", "chunk", "drop", "retract", "assert"}
  <2>1. PICK new : new = Edge(j.doc, s.node, s.kind)
    OBVIOUS
  <2>2. edge' \subseteq edge \/ (s.op = "edge" /\ edge' = edge \cup {new})
    BY <1>4, <2>1 DEF Statement, Edges, Cleared, Ops
  <2>3. s.op = "edge" => new.from \in Docs /\ new.kind \in EdgeKinds
    BY <2>1 DEF Edge
  <2>4. UNCHANGED <<row, chunk, fact>>
    BY <1>4 DEF Statement, Edges
  <2> QED
    BY <2>2, <2>3, <2>4 DEF StoreTyped
<1> QED
  BY <1>1, <1>2, <1>3, <1>4

\* Every job links by kinds there are.
JobsTyped == \A w \in Workers : ~Idle(w) => KindsKnown(job[w].todo)

LEMMA ExecuteTyped ==
  ASSUME NoteInv, StoreTyped, JobsTyped, NEW w \in Workers, Execute(w)
  PROVE  StoreTyped' /\ JobsTyped'
<1>1. PICK j : j = job[w]
  OBVIOUS
<1>2. PICK s : s = Head(j.todo)
  OBVIOUS
<1>3. PICK pre : pre = IF s.op = "claim" THEN Asserting(j.doc, s.claim) ELSE <<>>
  OBVIOUS
<1>4. PICK more : more = pre \o Tail(j.todo)
  OBVIOUS
<1>5. /\ ~Idle(w) /\ Statement(j, s)
      /\ job' = [job EXCEPT ![w] = IF more = <<>> THEN Nothing ELSE [j EXCEPT !.todo = more]]
  BY <1>1, <1>2, <1>3, <1>4 DEF Execute, Statement
<1>6. /\ DOMAIN job = Workers /\ \A other \in Workers \ {w} : Idle(other)
      /\ j.todo # <<>> /\ (j.todo = Sweep \/ Chained(j.todo, node))
      /\ DOMAIN j \in {{"doc", "todo"}, {"doc", "version", "todo"}}
      /\ DOMAIN row = Docs /\ JobKnows(j) /\ KindsKnown(j.todo)
  BY <1>1, <1>5 DEF NoteInv, GraphInv, JobsInv, JobsTyped
<1>7. IsScript(j.todo)
  BY <1>6, ChainedIsScript, ShortScripts DEF Sweep
<1>8. s \in Stmts(j.todo) /\ IsScript(Tail(j.todo)) /\ Stmts(Tail(j.todo)) \subseteq Stmts(j.todo)
  BY <1>2, <1>6, <1>7, ScriptHead
<1>9. s.op \in Ops \cup {"collect"}
  <2>1. CASE j.todo = Sweep
    BY <1>2, <2>1 DEF Sweep, Do
  <2>2. CASE Chained(j.todo, node)
    BY <1>2, <1>6, <2>2, HeadOfChained
  <2> QED
    BY <1>6, <2>1, <2>2
<1>10. /\ s.op # "collect" => j.doc \in Docs
       /\ s.op \in {"row", "chunk"} => j.version \in Versions
  <2>1. CASE j.doc = Absent /\ j.todo = Sweep
    BY <1>2, <2>1 DEF Sweep, Do
  <2>2. CASE j.doc \in Docs /\ Dropping(j.doc, j.todo)
    BY <1>2, <1>5, <1>6, <2>2, DroppingStep
  <2>3. CASE j.doc \in Docs /\ Making(j.doc, j.version, j.todo)
    BY <2>3 DEF Making
  <2> QED
    BY <1>6, <2>1, <2>2, <2>3 DEF JobKnows
<1>11. StoreTyped'
  BY <1>5, <1>6, <1>8, <1>9, <1>10, StatementTyped DEF KindsKnown
<1>12. IsScript(pre) /\ KindsKnown(pre)
  BY <1>3, AssertingSays, ShortScripts DEF KindsKnown
<1>13. KindsKnown(more)
  BY <1>4, <1>6, <1>8, <1>12, ScriptsJoin DEF KindsKnown
<1>14. job'[w] = Nothing \/ job'[w].todo = more
  BY <1>5, <1>6
<1>15. \A other \in Workers \ {w} : job'[other] = Nothing
  BY <1>5, <1>6 DEF Idle
<1> QED
  BY <1>11, <1>13, <1>14, <1>15 DEF JobsTyped, Idle

\* A job that begins or ends early, and what leaves the jobs alone.
LEMMA JobStepTyped ==
  ASSUME NoteInv, StoreTyped, JobsTyped, [Next]_vars, \A w \in Workers : ~Execute(w)
  PROVE  StoreTyped' /\ JobsTyped' /\ UNCHANGED store
<1>1. DOMAIN job = Workers
  BY DEF NoteInv, GraphInv, JobsInv
<1>2. UNCHANGED store
  BY DEF Next, vars, store, Ingest, Delete, Compact, CutShort, Ask, Search, Recall, Neighbours,
         Begin, SearchVectors, SearchNearest, SearchText, QueryLinked, QueryNeighbours, Respond
<1>3. StoreTyped'
  BY <1>2 DEF StoreTyped, store
<1>4. ASSUME NEW w \in Workers, NEW todo, KindsKnown(todo), NEW j, j.todo = todo, job' = [job EXCEPT ![w] = j]
      PROVE  JobsTyped'
  BY <1>1, <1>4 DEF JobsTyped, Idle
<1>5. ASSUME NEW w \in Workers, NEW v \in Versions, Ingest(w, v) PROVE JobsTyped'
  <2>1. PICK j : j = [doc |-> OwnerOf[v], version |-> v, todo |-> Script(v)]
    OBVIOUS
  <2>2. job' = [job EXCEPT ![w] = j] /\ j.todo = Script(v)
    BY <1>5, <2>1 DEF Ingest
  <2> QED
    BY <1>4, <2>2, ScriptMakes
<1>6. ASSUME NEW w \in Workers, NEW d \in Docs, Delete(w, d) PROVE JobsTyped'
  <2>1. PICK todo : todo = Do("drop") \o Do("unlink") \o Do("retract")
    OBVIOUS
  <2>2. PICK j : j = [doc |-> d, todo |-> todo]
    OBVIOUS
  <2>3. job' = [job EXCEPT ![w] = j] /\ j.todo = todo
    BY <1>6, <2>1, <2>2 DEF Delete
  <2>4. Stmts(todo) = {[op |-> "drop"], [op |-> "unlink"], [op |-> "retract"]}
    BY <2>1, ShortScripts, ScriptsJoin
  <2>5. KindsKnown(todo)
    BY <2>4 DEF KindsKnown
  <2> QED
    BY <1>4, <2>3, <2>5
<1>7. ASSUME NEW w \in Workers, Compact(w) PROVE JobsTyped'
  <2>1. PICK j : j = [doc |-> Absent, todo |-> Sweep]
    OBVIOUS
  <2>2. job' = [job EXCEPT ![w] = j] /\ j.todo = Sweep
    BY <1>7, <2>1 DEF Compact, Sweep
  <2>3. Stmts(Sweep) = {[op |-> "collect"]}
    BY ShortScripts DEF Sweep
  <2>4. KindsKnown(Sweep)
    BY <2>3 DEF KindsKnown
  <2> QED
    BY <1>4, <2>2, <2>4
<1>8. ASSUME NEW w \in Workers, CutShort(w) PROVE JobsTyped'
  <2>1. \A v \in Workers : job'[v] = Nothing \/ job'[v] = job[v]
    BY <1>1, <1>8 DEF CutShort
  <2> QED
    BY <2>1 DEF JobsTyped, Idle
<1>9. ASSUME UNCHANGED job PROVE JobsTyped'
  <2>1. \A v \in Workers : job'[v] = job[v]
    BY <1>9
  <2> QED
    BY <2>1 DEF JobsTyped, Idle
<1>10. ASSUME NEW a \in Askers,
              \/ \E r \in Requests : Ask(a, r) \/ Search(a, r) \/ Recall(a, r) \/ Neighbours(a, r)
              \/ SearchVectors(a) \/ SearchNearest(a) \/ SearchText(a) \/ QueryLinked(a)
              \/ QueryNeighbours(a) \/ Respond(a)
       PROVE  UNCHANGED job
  BY <1>10 DEF Ask, Search, Recall, Neighbours, Begin, SearchVectors, SearchNearest, SearchText,
               QueryLinked, QueryNeighbours, Respond
<1> QED
  BY <1>2, <1>3, <1>5, <1>6, <1>7, <1>8, <1>9, <1>10 DEF Next, vars

-------------------------------------------------------------------------------
(* Searches *)

\* A LIMIT leaves all there is, or as many as it says, which come first.
LEMMA FirstsTaken ==
  ASSUME NEW rows, IsFiniteSet(rows), NEW n \in Nat, NEW place, NEW top \in Firsts(rows, n, place)
  PROVE  /\ top \subseteq rows /\ IsFiniteSet(top)
         /\ Cardinality(top) \in Nat /\ Cardinality(top) <= n
         /\ Cardinality(top) = n \/ top = rows
         /\ \A u \in top, v \in rows \ top : place[u] <= place[v]
<1>1. /\ top \in SUBSET rows
      /\ Cardinality(top) = IF Cardinality(rows) < n THEN Cardinality(rows) ELSE n
      /\ \A u \in top, v \in rows \ top : place[u] <= place[v]
  BY DEF Firsts
<1>2. /\ IsFiniteSet(top) /\ Cardinality(top) \in Nat /\ Cardinality(rows) \in Nat
      /\ Cardinality(rows) = Cardinality(top) => rows = top
  BY <1>1, FS_Subset, FS_CardinalityType
<1> QED
  BY <1>1, <1>2

\* A document has one chunk, so that a search has no more rows than documents.
LEMMA MatchingFinite ==
  ASSUME NEW place, DOMAIN place \subseteq Versions, NEW project
  PROVE  Matching(place, project) \subseteq Versions /\ IsFiniteSet(Matching(place, project))
<1>1. PICK rows : rows = Matching(place, project)
  OBVIOUS
<1>2. /\ rows \subseteq Versions /\ \A v \in rows : chunk[OwnerOf[v]] = v
  BY <1>1 DEF Matching, Eligible
<1>3. PICK owner : owner = [v \in rows |-> OwnerOf[v]]
  OBVIOUS
<1>4. owner \in Injection(rows, Docs)
  BY <1>2, <1>3, GraphAssumption DEF Injection, IsInjective
<1> QED
  BY <1>1, <1>2, <1>4, FS_Injection, GraphAssumption

LEMMA ScannedIsSome ==
  ASSUME DOMAIN Near \subseteq Versions, NEW project, NEW n, NEW found \in Scanned(project, n)
  PROVE  /\ found \subseteq Versions /\ IsFiniteSet(found)
         /\ Cardinality(found) \in Nat /\ Cardinality(found) <= n
<1>1. found \subseteq Matching(Near, project) /\ Cardinality(found) <= n
  BY DEF Scanned
<1>2. Matching(Near, project) \subseteq Versions /\ IsFiniteSet(Matching(Near, project))
  BY MatchingFinite
<1> QED
  BY <1>1, <1>2, FS_Subset, FS_CardinalityType

\* Where a request stands: the shape of its answer, and that a document is linked
\* to hits which it is not among.
Fields == {"pc", "request", "vector", "hits", "linked", "steady"}
Stands(now) ==
  /\ DOMAIN now = Fields
  /\ now.pc \in {"idle", "vector", "noted", "text", "linked", "linked again", "done"}
  /\ now.pc # "idle" => now.request \in Requests
  /\ now.pc = "text" => now.request.kind # "graph"
  /\ now.request.k \in Nat \ {0}
  /\ now.hits \in Seq(Versions) /\ Len(now.hits) <= now.request.k
  /\ now.vector \subseteq Versions /\ IsFiniteSet(now.vector)
  /\ now.linked \subseteq Docs /\ Cardinality(now.linked) <= MaxLinked
  /\ \A v \in ToSet(now.hits) : OwnerOf[v] \notin now.linked
  /\ now.pc \in {"vector", "text"} => now.linked = {}

AskersTyped == DOMAIN asker = Askers /\ \A a \in Askers : Stands(asker[a])

TypeInv == NoteInv /\ StoreTyped /\ JobsTyped /\ whole \in [Docs -> BOOLEAN] /\ AskersTyped

LEMMA HitsOf ==
  ASSUME NEW s, NEW S, s \in Seq(S)
  PROVE  ToSet(s) \subseteq S /\ \A i \in 1..Len(s) : s[i] \in ToSet(s)
BY DEF ToSet

\* A sequence is as long as may be, or names all there is, once each.
Ample(s, all, n) == Len(s) = n \/ (Len(s) = Cardinality(all) /\ ToSet(s) = all)

\* The hits are different rows of both lists, n or all of them, each no worse than
\* those that are left.
LEMMA MergedHits ==
  ASSUME NEW vector, NEW text, NEW all, all = vector \cup text, IsFiniteSet(all),
         NEW n \in Nat, NEW s \in Merged(vector, text, n)
  PROVE  /\ s \in Seq(all) /\ Len(s) <= n /\ Ample(s, all, n)
         /\ \A h \in ToSet(s), v \in all \ ToSet(s) :
              AtLeast(Score(vector, text, h), Score(vector, text, v))
<1>1. PICK m : m = IF Cardinality(all) < n THEN Cardinality(all) ELSE n
  OBVIOUS
<1>2. Cardinality(all) \in Nat /\ m \in Nat /\ m <= n
  BY <1>1, FS_CardinalityType
<1>3. /\ s \in [1..m -> all]
      /\ \A i \in 1..m : /\ s[i] \in all \ {s[j] : j \in 1..(i - 1)}
                         /\ \A v \in all \ {s[j] : j \in 1..(i - 1)} :
                              AtLeast(Score(vector, text, s[i]), Score(vector, text, v))
  BY <1>1 DEF Merged
<1>4. s \in Seq(all) /\ Len(s) = m /\ DOMAIN s = 1..m
  BY <1>2, <1>3, ArrayIsSeq
<1>5. ToSet(s) = {s[j] : j \in 1..m}
  BY <1>4 DEF ToSet
<1>6. ASSUME NEW h \in ToSet(s), NEW v \in all \ ToSet(s)
      PROVE  AtLeast(Score(vector, text, h), Score(vector, text, v))
  <2>1. PICK i \in 1..m : h = s[i]
    BY <1>5, <1>6
  <2>2. v \notin {s[j] : j \in 1..(i - 1)}
    BY <1>2, <1>5, <1>6
  <2> QED
    BY <1>3, <1>6, <2>1, <2>2
<1>7. ASSUME m # n PROVE m = Cardinality(all) /\ ToSet(s) = all
  <2>1. m = Cardinality(all)
    BY <1>1, <1>7
  <2>2. \A i, j \in 1..m : i < j => s[i] # s[j]
    BY <1>2, <1>3
  <2>3. IsInjective(s)
    BY <1>2, <1>4, <2>2 DEF IsInjective
  <2>4. s \in Injection(1..m, all)
    BY <1>3, <2>3 DEF Injection
  <2>5. IsFiniteSet(1..m) /\ Cardinality(1..m) = m
    <3>1. m \in Nat
      BY <1>2
    <3> QED
      BY <3>1, FS_Interval
  <2>6. s \in Surjection(1..m, all)
    BY <2>1, <2>4, <2>5, FS_Injection
  <2>7. \A v \in all : \E i \in 1..m : s[i] = v
    BY <2>6 DEF Surjection
  <2>8. \A i \in 1..m : s[i] \in all
    BY <1>3
  <2>9. ToSet(s) = all
    BY <1>5, <2>7, <2>8
  <2> QED
    BY <2>1, <2>9
<1>8. s \in Seq(all) /\ Len(s) <= n /\ Ample(s, all, n)
  BY <1>2, <1>4, <1>7 DEF Ample
<1> QED
  BY <1>6, <1>8

\* Sums of fractions a / d and b / e of which each of the first is the lesser.
LEMMA LesserSum ==
  ASSUME NEW a1 \in Nat, NEW a2 \in Nat, NEW b1 \in Nat, NEW b2 \in Nat,
         NEW d1 \in Nat \ {0}, NEW d2 \in Nat \ {0}, NEW e1 \in Nat \ {0}, NEW e2 \in Nat \ {0},
         a1 * e1 <= b1 * d1, a2 * e2 <= b2 * d2, a1 * e1 < b1 * d1 \/ a2 * e2 < b2 * d2
  PROVE  (a1 * d2 + a2 * d1) * (e1 * e2) < (b1 * e2 + b2 * e1) * (d1 * d2)
<1> DEFINE x1 == a1 * e1
           y1 == b1 * d1
           x2 == a2 * e2
           y2 == b2 * d2
           p == d2 * e2
           q == d1 * e1
<1>1. (a1 * d2 + a2 * d1) * (e1 * e2) = x1 * p + x2 * q
  OBVIOUS
<1>2. (b1 * e2 + b2 * e1) * (d1 * d2) = y1 * p + y2 * q
  OBVIOUS
<1>3. /\ x1 \in Nat /\ x2 \in Nat /\ y1 \in Nat /\ y2 \in Nat /\ p \in Nat /\ q \in Nat
      /\ p > 0 /\ q > 0
  OBVIOUS
<1>4. x1 <= y1 /\ x2 <= y2 /\ (x1 < y1 \/ x2 < y2)
  OBVIOUS
<1> HIDE DEF x1, x2, y1, y2, p, q
<1>5. \A x, y, z \in Nat : x <= y => x * z <= y * z
  OBVIOUS
<1>6. \A x, y, z \in Nat : x < y /\ z > 0 => x * z < y * z
  OBVIOUS
<1>7. x1 * p <= y1 * p /\ x2 * q <= y2 * q /\ (x1 * p < y1 * p \/ x2 * q < y2 * q)
  BY <1>3, <1>4, <1>5, <1>6
<1>8. x1 * p \in Nat /\ x2 * q \in Nat /\ y1 * p \in Nat /\ y2 * q \in Nat
  BY <1>3
<1> QED
  BY <1>1, <1>2, <1>7, <1>8

\* The rank of what is before is less.
LEMMA RankLess ==
  ASSUME NEW found, IsFiniteSet(found), NEW place, \A u \in found : place[u] \in Nat,
         NEW v \in found, NEW h \in found, place[v] < place[h]
  PROVE  /\ Cardinality({u \in found : place[u] <= place[v]}) \in Nat
         /\ Cardinality({u \in found : place[u] <= place[h]}) \in Nat
         /\ Cardinality({u \in found : place[u] <= place[v]})
              < Cardinality({u \in found : place[u] <= place[h]})
<1>1. PICK below : below = {u \in found : place[u] <= place[v]}
  OBVIOUS
<1>2. PICK above : above = {u \in found : place[u] <= place[h]}
  OBVIOUS
<1>3. below \subseteq above
  BY <1>1, <1>2
<1>4. h \in above /\ h \notin below
  BY <1>1, <1>2
<1>5. IsFiniteSet(above) /\ Cardinality(above) \in Nat
  BY <1>2, FS_Subset, FS_CardinalityType
<1>6. /\ IsFiniteSet(below) /\ Cardinality(below) \in Nat /\ Cardinality(below) <= Cardinality(above)
      /\ Cardinality(above) # Cardinality(below)
  BY <1>3, <1>4, <1>5, FS_Subset, FS_CardinalityType
<1> QED
  BY <1>1, <1>2, <1>5, <1>6

\* A row that a list has not, or has after another, gets less from it.
LEMMA TermLess ==
  ASSUME NEW found, IsFiniteSet(found), NEW place, \A u \in found : place[u] \in Nat,
         NEW v, NEW h, h \in found => v \in found /\ place[v] < place[h]
  PROVE  LET x == Term(place, found, h)
             y == Term(place, found, v)
         IN  /\ x[1] \in Nat /\ x[2] \in Nat \ {0} /\ y[1] \in Nat /\ y[2] \in Nat \ {0}
             /\ x[1] * y[2] <= y[1] * x[2]
             /\ h \in found => x[1] * y[2] < y[1] * x[2]
<1> DEFINE rank(w) == Cardinality({u \in found : place[u] <= place[w]})
<1>1. \A w : Term(place, found, w) = IF w \in found THEN <<1, 60 + rank(w)>> ELSE <<0, 1>>
  BY DEF Term
<1>2. \A w : rank(w) \in Nat
  <2> SUFFICES ASSUME NEW w PROVE rank(w) \in Nat
    OBVIOUS
  <2>1. {u \in found : place[u] <= place[w]} \in SUBSET found
    OBVIOUS
  <2> QED
    BY <2>1, FS_Subset, FS_CardinalityType
<1>3. h \in found => rank(v) < rank(h)
  BY RankLess
<1> HIDE DEF rank
<1>4. PICK x : x = Term(place, found, h)
  OBVIOUS
<1>5. PICK y : y = Term(place, found, v)
  OBVIOUS
<1>6. CASE h \in found
  <2>1. x[1] = 1 /\ x[2] = 60 + rank(h) /\ y[1] = 1 /\ y[2] = 60 + rank(v)
    BY <1>1, <1>4, <1>5, <1>6
  <2>2. /\ x[1] \in Nat /\ x[2] \in Nat \ {0} /\ y[1] \in Nat /\ y[2] \in Nat \ {0}
        /\ x[1] * y[2] < y[1] * x[2]
    BY <1>2, <1>3, <1>6, <2>1
  <2> QED
    BY <1>4, <1>5, <1>6, <2>2
<1>7. CASE h \notin found
  <2>1. x[1] = 0 /\ x[2] = 1
    BY <1>1, <1>4, <1>7
  <2>2. y[1] \in Nat /\ y[2] \in Nat \ {0}
    BY <1>1, <1>2, <1>5
  <2>3. x[1] * y[2] <= y[1] * x[2]
    BY <2>1, <2>2
  <2> QED
    BY <1>4, <1>5, <1>7, <2>1, <2>2, <2>3
<1> QED
  BY <1>6, <1>7

\* A row that is after another in each list that has it has the lesser score.
LEMMA ScoreLess ==
  ASSUME NEW vector, NEW text, IsFiniteSet(vector), IsFiniteSet(text),
         \A u \in vector : Near[u] \in Nat, \A u \in text : Text[u] \in Nat,
         NEW v, NEW h \in vector \cup text,
         h \in vector => v \in vector /\ Near[v] < Near[h],
         h \in text => v \in text /\ Text[v] < Text[h]
  PROVE  ~AtLeast(Score(vector, text, h), Score(vector, text, v))
<1>1. PICK x1 : x1 = Term(Near, vector, h)
  OBVIOUS
<1>2. PICK x2 : x2 = Term(Text, text, h)
  OBVIOUS
<1>3. PICK y1 : y1 = Term(Near, vector, v)
  OBVIOUS
<1>4. PICK y2 : y2 = Term(Text, text, v)
  OBVIOUS
<1>5. /\ x1[1] \in Nat /\ x1[2] \in Nat \ {0} /\ y1[1] \in Nat /\ y1[2] \in Nat \ {0}
      /\ x1[1] * y1[2] <= y1[1] * x1[2]
      /\ h \in vector => x1[1] * y1[2] < y1[1] * x1[2]
  BY <1>1, <1>3, TermLess
<1>6. /\ x2[1] \in Nat /\ x2[2] \in Nat \ {0} /\ y2[1] \in Nat /\ y2[2] \in Nat \ {0}
      /\ x2[1] * y2[2] <= y2[1] * x2[2]
      /\ h \in text => x2[1] * y2[2] < y2[1] * x2[2]
  BY <1>2, <1>4, TermLess
<1>7. (x1[1] * x2[2] + x2[1] * x1[2]) * (y1[2] * y2[2]) < (y1[1] * y2[2] + y2[1] * y1[2]) * (x1[2] * x2[2])
  BY <1>5, <1>6, LesserSum
<1>8. /\ Score(vector, text, h) = <<x1[1] * x2[2] + x2[1] * x1[2], x1[2] * x2[2]>>
      /\ Score(vector, text, v) = <<y1[1] * y2[2] + y2[1] * y1[2], y1[2] * y2[2]>>
  BY <1>1, <1>2, <1>3, <1>4 DEF Score, Sum
<1>9. PICK a : a = x1[1] * x2[2] + x2[1] * x1[2]
  OBVIOUS
<1>10. PICK b : b = x1[2] * x2[2]
  OBVIOUS
<1>11. PICK c : c = y1[1] * y2[2] + y2[1] * y1[2]
  OBVIOUS
<1>12. PICK d : d = y1[2] * y2[2]
  OBVIOUS
<1>13. a \in Nat /\ b \in Nat /\ c \in Nat /\ d \in Nat
  BY <1>5, <1>6, <1>9, <1>10, <1>11, <1>12
<1>14. a * d < c * b
  BY <1>7, <1>9, <1>10, <1>11, <1>12
<1>15. a * d \in Nat /\ c * b \in Nat
  BY <1>13
<1>16. ~(a * d >= c * b)
  BY <1>14, <1>15
<1>17. Score(vector, text, h) = <<a, b>> /\ Score(vector, text, v) = <<c, d>>
  BY <1>8, <1>9, <1>10, <1>11, <1>12
<1>18. AtLeast(<<a, b>>, <<c, d>>) <=> a * d >= c * b
  BY DEF AtLeast
<1> QED
  BY <1>16, <1>17, <1>18

-------------------------------------------------------------------------------
(* Requests keep their shape *)

LEMMA NothingFound ==
  /\ <<>> \in Seq(Versions) /\ Len(<<>>) = 0 /\ ToSet(<<>>) = {}
  /\ IsFiniteSet({}) /\ Cardinality({}) = 0
BY FS_EmptySet DEF ToSet

\* A request that steps, or has its history brought up to date.
LEMMA OneSteps ==
  ASSUME DOMAIN asker = Askers, NEW a \in Askers, NEW now, asker' = [asker EXCEPT ![a] = now]
  PROVE  /\ DOMAIN asker' = Askers /\ asker'[a] = now
         /\ \A b \in Askers \ {a} : asker'[b] = asker[b]
OBVIOUS

\* What a search by meaning, a search by words and a query for linked documents
\* make of where a request stands.
Searched(now, found, steady) == [now EXCEPT !.pc = "text", !.vector = found, !.steady = steady]
Hit(now, pc, hits) == [now EXCEPT !.pc = pc, !.hits = hits]
Link(now, pc, linked) == [now EXCEPT !.pc = pc, !.linked = linked]

LEMMA StepFields ==
  ASSUME NEW now, DOMAIN now = Fields
  PROVE  /\ \A found, steady : LET next == Searched(now, found, steady) IN
              /\ DOMAIN next = Fields /\ next.pc = "text" /\ next.vector = found /\ next.steady = steady
              /\ next.request = now.request /\ next.hits = now.hits /\ next.linked = now.linked
         /\ \A pc, hits : LET next == Hit(now, pc, hits) IN
              /\ DOMAIN next = Fields /\ next.pc = pc /\ next.hits = hits /\ next.request = now.request
              /\ next.vector = now.vector /\ next.linked = now.linked /\ next.steady = now.steady
         /\ \A pc, linked : LET next == Link(now, pc, linked) IN
              /\ DOMAIN next = Fields /\ next.pc = pc /\ next.linked = linked /\ next.request = now.request
              /\ next.vector = now.vector /\ next.hits = now.hits /\ next.steady = now.steady
BY DEF Searched, Hit, Link, Fields

LEMMA QuietStands ==
  /\ Stands(Quiet)
  /\ \A r \in Requests, pc \in {"vector", "noted"} :
       Stands([Quiet EXCEPT !.pc = pc, !.request = r])
<1>1. MaxLinked \in Nat /\ \A r \in Requests : r.k \in Nat \ {0}
  BY GraphAssumption
<1>2. Stands(Quiet)
  BY <1>1, NothingFound DEF Stands, Quiet, Fields
<1>3. ASSUME NEW r \in Requests, NEW pc \in {"vector", "noted"}
      PROVE  Stands([Quiet EXCEPT !.pc = pc, !.request = r])
  <2>1. PICK now : now = [Quiet EXCEPT !.pc = pc, !.request = r]
    OBVIOUS
  <2>2. /\ DOMAIN now = Fields /\ now.pc = pc /\ now.request = r
        /\ now.hits = <<>> /\ now.vector = {} /\ now.linked = {}
    BY <2>1 DEF Quiet, Fields
  <2>3. r.k \in Nat \ {0}
    BY <1>1
  <2>4. now.hits \in Seq(Versions) /\ Len(now.hits) = 0 /\ ToSet(now.hits) = {}
    BY <2>2, NothingFound
  <2>5. now.linked \subseteq Docs /\ Cardinality(now.linked) <= MaxLinked /\ IsFiniteSet(now.vector)
    BY <1>1, <2>2, NothingFound
  <2>6. /\ now.pc \in {"idle", "vector", "noted", "text", "linked", "linked again", "done"}
        /\ now.pc # "idle" => now.request \in Requests
        /\ now.pc = "text" => now.request.kind # "graph"
        /\ now.vector \subseteq Versions
        /\ \A v \in ToSet(now.hits) : OwnerOf[v] \notin now.linked
        /\ now.pc \in {"vector", "text"} => now.linked = {}
    BY <2>2, <2>4
  <2>7. now.request.k \in Nat \ {0} /\ Len(now.hits) <= now.request.k
    BY <2>2, <2>3, <2>4
  <2>8. Stands(now)
    BY <2>2, <2>4, <2>5, <2>6, <2>7 DEF Stands
  <2> QED
    BY <2>1, <2>8
<1> QED
  BY <1>2, <1>3

LEMMA SearchVectorsStands ==
  ASSUME AskersTyped, NEW a \in Askers, SearchVectors(a)
  PROVE  \E found \in Scanned(asker[a].request.project, Pool[asker[a].request.k]) :
           /\ asker' = [asker EXCEPT ![a] =
                Searched(asker[a], found, {v \in Versions : Eligible(v, asker[a].request.project)})]
           /\ Stands(asker'[a])
<1>1. PICK now : now = asker[a]
  OBVIOUS
<1>2. Stands(now) /\ DOMAIN asker = Askers
  BY <1>1 DEF AskersTyped
<1>3. PICK steady : steady = {v \in Versions : Eligible(v, now.request.project)}
  OBVIOUS
<1>4. PICK found \in Scanned(now.request.project, Pool[now.request.k]) :
        asker' = [asker EXCEPT ![a].pc = "text", ![a].vector = found, ![a].steady = steady]
  BY <1>1, <1>3 DEF SearchVectors
<1>5. asker' = [asker EXCEPT ![a] = Searched(now, found, steady)]
  BY <1>1, <1>2, <1>4 DEF Searched, Stands, Fields
<1>6. asker'[a] = Searched(now, found, steady)
  BY <1>2, <1>5
<1>7. now.pc = "vector" /\ now.request.kind # "graph" /\ now.request \in Requests
  BY <1>1, <1>2 DEF SearchVectors, Stands
<1>8. Pool[now.request.k] \in Nat /\ DOMAIN Near \subseteq Versions
  BY <1>7, GraphAssumption
<1>9. found \subseteq Versions /\ IsFiniteSet(found)
  BY <1>8, ScannedIsSome
<1>10. Stands(Searched(now, found, steady))
  <2>0. DOMAIN now = Fields
    BY <1>2 DEF Stands
  <2>1. PICK next : next = Searched(now, found, steady)
    OBVIOUS
  <2>2. /\ DOMAIN next = Fields /\ next.pc = "text" /\ next.vector = found
        /\ next.request = now.request /\ next.hits = now.hits /\ next.linked = now.linked
    BY <2>0, <2>1, StepFields
  <2>3. Stands(next)
    BY <1>2, <1>7, <1>9, <2>2 DEF Stands
  <2> QED
    BY <2>1, <2>3
<1> QED
  BY <1>1, <1>3, <1>5, <1>6, <1>10

\* The hits, and with them whether anything will be linked.
LEMMA HitStands ==
  ASSUME NEW now, Stands(now), now.pc \in {"vector", "text"},
         NEW hits \in Seq(Versions), Len(hits) <= now.request.k,
         NEW pc \in {"linked", "done"}
  PROVE  Stands(Hit(now, pc, hits))
<1>0. DOMAIN now = Fields
  BY DEF Stands
<1>1. PICK next : next = Hit(now, pc, hits)
  OBVIOUS
<1>2. /\ DOMAIN next = Fields /\ next.pc = pc /\ next.hits = hits /\ next.request = now.request
      /\ next.vector = now.vector /\ next.linked = now.linked
  BY <1>0, <1>1, StepFields
<1>3. now.request \in Requests /\ now.linked = {}
  BY DEF Stands
<1>4. Stands(next)
  BY <1>2, <1>3 DEF Stands
<1> QED
  BY <1>1, <1>4

LEMMA SearchNearestStands ==
  ASSUME AskersTyped, NEW a \in Askers, SearchNearest(a)
  PROVE  \E pc, hits : /\ asker' = [asker EXCEPT ![a] = Hit(asker[a], pc, hits)]
                       /\ Stands(asker'[a])
<1>1. PICK now : now = asker[a]
  OBVIOUS
<1>2. Stands(now) /\ DOMAIN asker = Askers
  BY <1>1 DEF AskersTyped
<1>3. PICK found \in Scanned(Anywhere, 1) :
        asker' = [asker EXCEPT ![a].pc = IF found = {} THEN "done" ELSE "linked",
                               ![a].hits = SetToSeq(found)]
  BY DEF SearchNearest
<1>4. PICK pc : pc = IF found = {} THEN "done" ELSE "linked"
  OBVIOUS
<1>5. PICK hits : hits = SetToSeq(found)
  OBVIOUS
<1>6. asker' = [asker EXCEPT ![a] = Hit(now, pc, hits)]
  BY <1>1, <1>2, <1>3, <1>4, <1>5 DEF Hit, Stands, Fields
<1>7. DOMAIN Near \subseteq Versions
  BY GraphAssumption
<1>8. /\ found \subseteq Versions /\ IsFiniteSet(found)
      /\ Cardinality(found) \in Nat /\ Cardinality(found) <= 1
  BY <1>7, ScannedIsSome
<1>9. PICK k \in Nat : k = Cardinality(found)
  BY <1>8
<1>10. hits \in [1..k -> Versions]
  BY <1>5, <1>8, <1>9, SeqOfSet
<1>11. hits \in Seq(Versions) /\ Len(hits) = k
  BY <1>10, ArrayIsSeq
<1>12. now.pc = "vector" /\ now.request.k \in Nat \ {0}
  BY <1>1, <1>2 DEF SearchNearest, Stands
<1>13. pc \in {"linked", "done"} /\ Len(hits) <= now.request.k
  BY <1>4, <1>8, <1>9, <1>11, <1>12
<1>14. Stands(Hit(now, pc, hits))
  BY <1>2, <1>11, <1>12, <1>13, HitStands
<1>15. asker'[a] = Hit(now, pc, hits)
  BY <1>2, <1>6
<1> QED
  BY <1>1, <1>6, <1>14, <1>15

LEMMA SearchTextStands ==
  ASSUME AskersTyped, NEW a \in Askers, SearchText(a)
  PROVE  \E found \in Found(asker[a].request) :
         \E merged \in Merged(asker[a].vector, found, asker[a].request.k) :
         \E pc, hits :
           /\ asker' = [asker EXCEPT ![a] = Hit(asker[a], pc, hits)]
           /\ pc \in {"linked", "done"} /\ (Room(asker[a].request) => hits = merged)
           /\ Stands(asker'[a])
<1> DEFINE now == asker[a]
           Goes(merged) ==
             LET hits == IF Room(now.request) THEN merged ELSE <<>> IN
             asker' = [asker EXCEPT ![a].hits = hits,
                         ![a].pc = IF now.request.kind = "ask" /\ hits # <<>> THEN "linked" ELSE "done"]
<1>0. PICK found \in Found(now.request) :
        \E merged \in Merged(now.vector, found, now.request.k) : Goes(merged)
  BY DEF SearchText
<1>3. PICK merged \in Merged(now.vector, found, now.request.k) : Goes(merged)
  BY <1>0
<1>1. now = asker[a]
  OBVIOUS
<1>2. Stands(now) /\ DOMAIN asker = Askers
  BY DEF AskersTyped
<1> HIDE DEF now
<1>4. PICK hits : hits = IF Room(now.request) THEN merged ELSE <<>>
  OBVIOUS
<1>5. PICK pc : pc = IF now.request.kind = "ask" /\ hits # <<>> THEN "linked" ELSE "done"
  OBVIOUS
<1>6. asker' = [asker EXCEPT ![a].hits = hits, ![a].pc = pc]
  BY <1>3, <1>4, <1>5
<1> HIDE DEF Goes
<1>7. asker' = [asker EXCEPT ![a] = Hit(now, pc, hits)]
  BY <1>1, <1>2, <1>6 DEF Hit, Stands, Fields
<1>8. now.pc = "text" /\ now.request.k \in Nat /\ now.request \in Requests
  BY <1>1, <1>2 DEF SearchText, Stands
<1>9. Pool[now.request.k] \in Nat /\ DOMAIN Text \subseteq Versions
  BY <1>8, GraphAssumption
<1>10. found \subseteq Versions /\ IsFiniteSet(found)
  BY <1>9, MatchingFinite, FirstsTaken DEF Found
<1>11. PICK all : all = now.vector \cup found
  OBVIOUS
<1>12. IsFiniteSet(all) /\ all \subseteq Versions
  BY <1>2, <1>10, <1>11, FS_Union DEF Stands
<1>13. merged \in Seq(all) /\ Len(merged) <= now.request.k
  BY <1>8, <1>11, <1>12, MergedHits
<1>14. hits \in Seq(Versions) /\ Len(hits) <= now.request.k
  BY <1>4, <1>8, <1>12, <1>13, NothingFound
<1>15. pc \in {"linked", "done"}
  BY <1>5
<1>16. Stands(Hit(now, pc, hits))
  BY <1>2, <1>8, <1>14, <1>15, HitStands
<1>17. asker'[a] = Hit(now, pc, hits)
  BY <1>2, <1>7
<1> QED
  BY <1>1, <1>3, <1>4, <1>7, <1>15, <1>16, <1>17

\* Documents are linked as long as there is room, and never one that is linked
\* or has a hit.
LEMMA QueryLinkedStands ==
  ASSUME AskersTyped, NEW a \in Askers, QueryLinked(a)
  PROVE  \E pc, linked : /\ asker' = [asker EXCEPT ![a] = Link(asker[a], pc, linked)]
                         /\ pc \in {"linked again", "done"}
                         /\ Stands(asker'[a])
<1> DEFINE now == asker[a]
           d == OwnerOf[now.hits[IF now.pc = "linked" THEN 1 ELSE 2]]
           Goes(more) == asker' = [asker EXCEPT ![a].linked = @ \cup more,
                                     ![a].pc = IF @ = "linked" /\ Len(now.hits) > 1 THEN "linked again" ELSE "done"]
<1>1. PICK related \in Related(d) :
        \E more \in Closest(d, Unseen(a, related), MaxLinked - Cardinality(now.linked)) : Goes(more)
  BY DEF QueryLinked
<1>2. PICK more \in Closest(d, Unseen(a, related), MaxLinked - Cardinality(now.linked)) : Goes(more)
  BY <1>1
<1>3. now = asker[a]
  OBVIOUS
<1>4. Stands(now) /\ DOMAIN asker = Askers /\ DOMAIN now = Fields
  BY DEF AskersTyped, Stands
<1>5. now.pc \in {"linked", "linked again"}
  BY DEF QueryLinked
<1> HIDE DEF now, d
<1>6. PICK pc : pc = IF now.pc = "linked" /\ Len(now.hits) > 1 THEN "linked again" ELSE "done"
  OBVIOUS
<1>7. asker' = [asker EXCEPT ![a] = Link(now, pc, now.linked \cup more)]
  BY <1>2, <1>3, <1>4, <1>6 DEF Link, Fields
<1> HIDE DEF Goes
<1>8. related \subseteq Docs
  BY DEF Related, Closest, Firsts
<1>9. PICK rows : rows = Unseen(a, related)
  OBVIOUS
<1>10. rows \subseteq Docs /\ \A e \in rows : e \notin {OwnerOf[v] : v \in ToSet(now.hits)}
  BY <1>3, <1>8, <1>9 DEF Unseen
<1>11. IsFiniteSet(rows) /\ IsFiniteSet(now.linked)
  BY <1>4, <1>10, FS_Subset, GraphAssumption DEF Stands
<1>12. PICK n : n = MaxLinked - Cardinality(now.linked)
  OBVIOUS
<1>13. n \in Nat /\ Cardinality(now.linked) \in Nat /\ MaxLinked \in Nat
  <2>1. Cardinality(now.linked) <= MaxLinked
    BY <1>4 DEF Stands
  <2>2. Cardinality(now.linked) \in Nat /\ MaxLinked \in Nat
    BY <1>11, FS_CardinalityType, GraphAssumption
  <2> QED
    BY <1>12, <2>1, <2>2
<1>14. more \in Firsts(rows, n, [e \in rows |-> -Shared(d, e)])
  BY <1>9, <1>12 DEF Closest
<1>15. /\ more \subseteq rows /\ IsFiniteSet(more)
       /\ Cardinality(more) \in Nat /\ Cardinality(more) <= n
  BY <1>11, <1>13, <1>14, FirstsTaken
<1>16. PICK linked : linked = now.linked \cup more
  OBVIOUS
<1>17. linked \subseteq Docs /\ Cardinality(linked) <= MaxLinked
  <2>1. PICK both : both = now.linked \cap more
    OBVIOUS
  <2>2. IsFiniteSet(both) /\ Cardinality(both) \in Nat
    BY <1>15, <2>1, FS_Subset, FS_CardinalityType
  <2>3. Cardinality(linked) = Cardinality(now.linked) + Cardinality(more) - Cardinality(both)
    BY <1>11, <1>15, <1>16, <2>1, FS_Union
  <2>4. Cardinality(linked) <= MaxLinked
    BY <1>12, <1>13, <1>15, <2>2, <2>3
  <2>5. linked \subseteq Docs
    BY <1>4, <1>10, <1>15, <1>16 DEF Stands
  <2> QED
    BY <2>4, <2>5
<1>18. \A v \in ToSet(now.hits) : OwnerOf[v] \notin linked
  BY <1>4, <1>10, <1>15, <1>16 DEF Stands
<1>19. PICK next : next = Link(now, pc, linked)
  OBVIOUS
<1>20. /\ DOMAIN next = Fields /\ next.pc = pc /\ next.linked = linked /\ next.request = now.request
       /\ next.vector = now.vector /\ next.hits = now.hits
  BY <1>4, <1>19, StepFields
<1>21. pc \in {"linked again", "done"}
  BY <1>6
<1>22. Stands(next)
  BY <1>4, <1>5, <1>17, <1>18, <1>20, <1>21 DEF Stands
<1>23. asker' = [asker EXCEPT ![a] = next] /\ asker'[a] = next
  BY <1>4, <1>7, <1>16, <1>19
<1> QED
  BY <1>3, <1>19, <1>21, <1>22, <1>23

\* What a statement does to the requests: what they could find is less.
Less(now, steady) == [now EXCEPT !.steady = steady]

LEMMA ExecuteUnsteady ==
  ASSUME AskersTyped, NEW w \in Workers, Execute(w), NEW a \in Askers
  PROVE  LET steady == {v \in asker[a].steady : row'[OwnerOf[v]] # Absent /\ chunk'[OwnerOf[v]] = v}
         IN  asker'[a] = Less(asker[a], steady) /\ DOMAIN asker' = Askers
BY DEF Execute, Unsteady, Less, AskersTyped

LEMMA LessFields ==
  ASSUME NEW now, DOMAIN now = Fields, NEW steady
  PROVE  LET next == Less(now, steady) IN
         /\ DOMAIN next = Fields /\ next.pc = now.pc /\ next.request = now.request
         /\ next.vector = now.vector /\ next.hits = now.hits /\ next.linked = now.linked
         /\ next.steady = steady
BY DEF Less, Fields

LEMMA LessStands ==
  ASSUME NEW now, Stands(now), NEW steady
  PROVE  Stands(Less(now, steady))
<1>1. PICK next : next = Less(now, steady)
  OBVIOUS
<1>2. DOMAIN now = Fields
  BY DEF Stands
<1>3. /\ DOMAIN next = Fields /\ next.pc = now.pc /\ next.request = now.request
      /\ next.vector = now.vector /\ next.hits = now.hits /\ next.linked = now.linked
  BY <1>1, <1>2, LessFields
<1>4. Stands(next)
  BY <1>3 DEF Stands
<1> QED
  BY <1>1, <1>4

LEMMA AskersStep ==
  ASSUME AskersTyped, [Next]_vars
  PROVE  AskersTyped'
<1>1. DOMAIN asker = Askers /\ \A a \in Askers : Stands(asker[a]) /\ DOMAIN asker[a] = Fields
  BY DEF AskersTyped, Stands
<1>2. ASSUME NEW a \in Askers, NEW now, asker' = [asker EXCEPT ![a] = now], Stands(now)
      PROVE  AskersTyped'
  <2>1. DOMAIN asker' = Askers /\ \A b \in Askers : asker'[b] = IF b = a THEN now ELSE asker[b]
    BY <1>1, <1>2
  <2>2. \A b \in Askers : Stands(asker'[b])
    BY <1>1, <1>2, <2>1
  <2> QED
    BY <2>1, <2>2 DEF AskersTyped
<1>3. ASSUME NEW w \in Workers, Execute(w) PROVE AskersTyped'
  <2>1. DOMAIN asker' = Askers
    BY <1>1, <1>3 DEF Execute, Unsteady
  <2>2. ASSUME NEW a \in Askers PROVE Stands(asker'[a])
    <3>1. PICK steady : asker'[a] = Less(asker[a], steady)
      BY <1>3, ExecuteUnsteady
    <3>2. Stands(asker[a])
      BY <1>1
    <3> QED
      BY <3>1, <3>2, LessStands
  <2> QED
    BY <2>1, <2>2 DEF AskersTyped
<1>4. ASSUME UNCHANGED asker PROVE AskersTyped'
  <2>1. \A a \in Askers : asker'[a] = asker[a]
    BY <1>4
  <2>2. DOMAIN asker' = Askers
    BY <1>1, <1>4
  <2> QED
    BY <1>1, <2>1, <2>2 DEF AskersTyped
<1>5. ASSUME NEW w \in Workers,
             (\E v \in Versions : Ingest(w, v)) \/ (\E d \in Docs : Delete(w, d)) \/ Compact(w) \/ CutShort(w)
      PROVE  AskersTyped'
  BY <1>4, <1>5 DEF Ingest, Delete, Compact, CutShort
<1>6. ASSUME NEW a \in Askers, NEW r \in Requests, Ask(a, r) \/ Search(a, r) \/ Recall(a, r) \/ Neighbours(a, r)
      PROVE  AskersTyped'
  <2>1. PICK pc \in {"vector", "noted"} : asker' = [asker EXCEPT ![a] = [Quiet EXCEPT !.pc = pc, !.request = r]]
    BY <1>6 DEF Ask, Search, Recall, Neighbours, Begin
  <2>2. Stands([Quiet EXCEPT !.pc = pc, !.request = r])
    BY QuietStands
  <2> QED
    BY <1>2, <2>1, <2>2
<1>7. ASSUME NEW a \in Askers, SearchVectors(a) \/ SearchNearest(a) \/ SearchText(a) \/ QueryLinked(a)
      PROVE  AskersTyped'
  <2>1. PICK next : asker' = [asker EXCEPT ![a] = next] /\ Stands(asker'[a])
    BY <1>7, SearchVectorsStands, SearchNearestStands, SearchTextStands, QueryLinkedStands
  <2>2. asker'[a] = next
    BY <1>1, <2>1
  <2> QED
    BY <1>2, <2>1, <2>2
<1>8. ASSUME NEW a \in Askers, QueryNeighbours(a) PROVE AskersTyped'
  <2>1. PICK now : now = asker[a]
    OBVIOUS
  <2>2. PICK next : next = Link(now, "done", now.linked)
    OBVIOUS
  <2>3. now.pc = "linked" /\ asker' = [asker EXCEPT ![a] = next]
    BY <1>1, <1>8, <2>1, <2>2 DEF QueryNeighbours, Link, Fields
  <2>4. /\ DOMAIN next = Fields /\ next.pc = "done" /\ next.linked = now.linked
        /\ next.request = now.request /\ next.vector = now.vector /\ next.hits = now.hits
    BY <1>1, <2>1, <2>2, StepFields
  <2>5. Stands(now)
    BY <1>1, <2>1
  <2>6. Stands(next)
    BY <2>3, <2>4, <2>5 DEF Stands
  <2> QED
    BY <1>2, <2>3, <2>6
<1>9. ASSUME NEW a \in Askers, Respond(a) PROVE AskersTyped'
  BY <1>2, <1>9, QuietStands DEF Respond
<1> QED
  BY <1>3, <1>4, <1>5, <1>6, <1>7, <1>8, <1>9 DEF Next, vars

LEMMA TypeStep == TypeInv /\ [Next]_vars => TypeInv'
<1> SUFFICES ASSUME TypeInv, [Next]_vars PROVE TypeInv'
  OBVIOUS
<1>1. NoteInv /\ StoreTyped /\ JobsTyped /\ whole \in [Docs -> BOOLEAN] /\ AskersTyped
  BY DEF TypeInv
<1>2. NoteInv' /\ AskersTyped'
  BY <1>1, NoteStep, AskersStep
<1>3. StoreTyped' /\ JobsTyped'
  BY <1>1, ExecuteTyped, JobStepTyped
<1>4. whole' \in [Docs -> BOOLEAN]
  <2>1. \/ UNCHANGED whole
        \/ \E d, b : b \in BOOLEAN /\ whole' = [whole EXCEPT ![d] = b]
    BY DEF Next, vars, Execute, Ingest, Delete, Compact, CutShort, Ask, Search, Recall, Neighbours,
           Begin, SearchVectors, SearchNearest, SearchText, QueryLinked, QueryNeighbours, Respond
  <2> QED
    BY <1>1, <2>1
<1> QED
  BY <1>2, <1>3, <1>4 DEF TypeInv

LEMMA TypeInvariant == Spec => []TypeInv
<1>1. Init => TypeInv
  <2> SUFFICES ASSUME Init PROVE TypeInv
    OBVIOUS
  <2>1. NoteInv
    BY InitialNotes
  <2>2. StoreTyped /\ JobsTyped /\ whole \in [Docs -> BOOLEAN]
    BY DEF Init, StoreTyped, JobsTyped, Idle
  <2>3. AskersTyped
    BY QuietStands DEF Init, AskersTyped
  <2> QED
    BY <2>1, <2>2, <2>3 DEF TypeInv
<1> QED
  BY <1>1, TypeStep, PTL DEF Spec

\* Every variable has its type: for any number of requests, and any project, k and
\* share of text, an answer has no more hits than were asked for, and no more linked
\* documents than it may have, none of which has a hit.
THEOREM GraphTyped == Spec => []TypeOK
<1>1. TypeInv => TypeOK
  <2> SUFFICES ASSUME TypeInv PROVE TypeOK
    OBVIOUS
  <2>1. ASSUME NEW a \in Askers
        PROVE  /\ ToSet(asker[a].hits) \subseteq Versions /\ Len(asker[a].hits) <= asker[a].request.k
               /\ Cardinality(asker[a].linked) <= MaxLinked
               /\ asker[a].linked \cap {OwnerOf[v] : v \in ToSet(asker[a].hits)} = {}
    <3>1. PICK now : now = asker[a]
      OBVIOUS
    <3>2. Stands(now)
      BY <3>1 DEF TypeInv, AskersTyped
    <3>3. ToSet(now.hits) \subseteq Versions
      BY <3>2, HitsOf DEF Stands
    <3>4. now.linked \cap {OwnerOf[v] : v \in ToSet(now.hits)} = {}
      BY <3>2 DEF Stands
    <3> QED
      BY <3>1, <3>2, <3>3, <3>4 DEF Stands
  <2> QED
    BY <2>1 DEF TypeInv, StoreTyped, EdgeKinds, TypeOK
<1> QED
  BY <1>1, TypeInvariant, PTL

-------------------------------------------------------------------------------
(* What is not among the hits. A row that could be found all the time is in the  *)
(* list of its words, or that list is full of rows before it; so that one that   *)
(* every hit is not before in some list has the better score.                    *)

\* A search by words returns row v, or as many as it may that come before.
Served(v, found, n) == v \in found \/ (Cardinality(found) = n /\ \A h \in found : Text[h] < Text[v])

LEMMA FoundServed ==
  ASSUME NEW r, Pool[r.k] \in Nat, NEW found \in Found(r), NEW v \in DOMAIN Text, Eligible(v, r.project)
  PROVE  Served(v, found, Pool[r.k])
<1>1. PICK rows : rows = Matching(Text, r.project)
  OBVIOUS
<1>2. IsFiniteSet(rows) /\ rows \subseteq DOMAIN Text /\ v \in rows
  BY <1>1, MatchingFinite, GraphAssumption DEF Matching
<1>3. found \in Firsts(rows, Pool[r.k], Text)
  BY <1>1 DEF Found
<1>4. /\ found \subseteq rows /\ (Cardinality(found) = Pool[r.k] \/ found = rows)
      /\ \A u \in found, w \in rows \ found : Text[u] <= Text[w]
  BY <1>2, <1>3, FirstsTaken
<1>5. ASSUME v \notin found, NEW h \in found PROVE Text[h] < Text[v]
  <2>1. Text[h] <= Text[v] /\ h # v /\ h \in DOMAIN Text
    BY <1>2, <1>4, <1>5
  <2>2. Text[h] # Text[v]
    BY <2>1, GraphAssumption DEF IsInjective
  <2>3. Text[h] \in Nat /\ Text[v] \in Nat
    BY <2>1, GraphAssumption
  <2> QED
    BY <2>1, <2>2, <2>3
<1> QED
  BY <1>2, <1>4, <1>5 DEF Served

\* What a request that has its hits owes to row v.
Fair(now, v) ==
  v \in now.vector \cup DOMAIN Text /\ v \notin ToSet(now.hits) =>
    /\ Len(now.hits) = now.request.k
    /\ \A h \in ToSet(now.hits) : Nearer(now.vector, h, v) \/ Before(Text, h, v)

\* What is steady of a request could be found, and has been, or lost.
Knows(now) ==
  now.request.kind # "graph" =>
    /\ now.pc = "text" => \A v \in now.steady : v \in Versions /\ Eligible(v, now.request.project)
    /\ now.pc \in {"linked", "linked again", "done"} /\ Room(now.request) =>
         \A v \in now.steady : Fair(now, v)

LEMMA MergedFair ==
  ASSUME NEW r \in Requests, NEW vector \in SUBSET Versions, IsFiniteSet(vector),
         NEW v \in Versions, Eligible(v, r.project), v \in vector \cup DOMAIN Text,
         NEW found \in Found(r), NEW hits \in Merged(vector, found, r.k), v \notin ToSet(hits)
  PROVE  /\ Len(hits) = r.k
         /\ \A h \in ToSet(hits) : Nearer(vector, h, v) \/ Before(Text, h, v)
<1>1. /\ r.k \in Nat \ {0} /\ Pool[r.k] \in Nat /\ r.k <= Pool[r.k]
      /\ Near \in [Versions -> Nat] /\ IsInjective(Near)
      /\ DOMAIN Text \subseteq Versions /\ Text \in [DOMAIN Text -> Nat] /\ IsInjective(Text)
  BY GraphAssumption
<1>2. /\ found \subseteq DOMAIN Text /\ IsFiniteSet(found)
      /\ v \in DOMAIN Text => Served(v, found, Pool[r.k])
  <2>1. v \in DOMAIN Text => Served(v, found, Pool[r.k])
    BY <1>1, FoundServed
  <2>2. Matching(Text, r.project) \subseteq DOMAIN Text
    BY DEF Matching
  <2> QED
    BY <1>1, <2>1, <2>2, MatchingFinite, FirstsTaken DEF Found
<1>3. PICK all : all = vector \cup found
  OBVIOUS
<1>4. IsFiniteSet(all)
  BY <1>2, <1>3, FS_Union
<1>5. /\ hits \in Seq(all) /\ Len(hits) <= r.k /\ Ample(hits, all, r.k)
      /\ \A h \in ToSet(hits), u \in all \ ToSet(hits) :
           AtLeast(Score(vector, found, h), Score(vector, found, u))
  <2>1. PICK k \in Nat : k = r.k
    BY <1>1
  <2>2. hits \in Merged(vector, found, k)
    BY <2>1
  <2>3. /\ hits \in Seq(all) /\ Len(hits) <= k /\ Ample(hits, all, k)
        /\ \A h \in ToSet(hits), u \in all \ ToSet(hits) :
             AtLeast(Score(vector, found, h), Score(vector, found, u))
    BY <1>3, <1>4, <2>2, MergedHits
  <2> QED
    BY <2>1, <2>3
<1>6. Len(hits) = r.k
  <2> SUFFICES ASSUME Len(hits) # r.k PROVE FALSE
    OBVIOUS
  <2>1. ToSet(hits) = all /\ Len(hits) = Cardinality(all)
    BY <1>5 DEF Ample
  <2>2. Cardinality(found) = Pool[r.k]
    BY <1>2, <1>3, <2>1 DEF Served
  <2>3. Cardinality(found) <= Cardinality(all) /\ Cardinality(all) \in Nat
    BY <1>3, <1>4, FS_Subset, FS_CardinalityType
  <2> QED
    BY <1>1, <1>5, <2>1, <2>2, <2>3
<1>7. ASSUME NEW h \in ToSet(hits), ~Nearer(vector, h, v), ~Before(Text, h, v)
      PROVE  FALSE
  <2>1. h \in all /\ h # v /\ h \in Versions
    BY <1>1, <1>2, <1>3, <1>5, <1>7, HitsOf
  <2>2. Near[h] \in Nat /\ Near[v] \in Nat /\ Near[h] # Near[v]
    BY <1>1, <2>1 DEF IsInjective
  <2>4. h \in vector => v \in vector /\ Near[v] < Near[h]
    BY <1>7, <2>2 DEF Nearer
  <2>5. ASSUME h \in found PROVE v \in found /\ Text[v] < Text[h]
    <3>1. h \in DOMAIN Text /\ v \in DOMAIN Text /\ ~(Text[h] < Text[v])
      BY <1>2, <1>7, <2>5 DEF Before
    <3>2. Text[h] \in Nat /\ Text[v] \in Nat /\ Text[h] # Text[v]
      BY <1>1, <2>1, <3>1 DEF IsInjective
    <3>3. Text[v] < Text[h]
      BY <3>1, <3>2
    <3> QED
      BY <1>2, <2>5, <3>1, <3>2, <3>3 DEF Served
  <2>6. v \in all \ ToSet(hits)
    BY <1>3, <2>1, <2>4, <2>5
  <2>7. /\ \A u \in vector : Near[u] \in Nat
        /\ \A u \in found : Text[u] \in Nat
    BY <1>1, <1>2
  <2>8. ~AtLeast(Score(vector, found, h), Score(vector, found, v))
    BY <1>2, <1>3, <2>1, <2>4, <2>5, <2>7, ScoreLess
  <2> QED
    BY <1>5, <1>7, <2>6, <2>8
<1> QED
  BY <1>6, <1>7

KnowsInv == \A a \in Askers : Knows(asker[a])

\* A request that has not searched owes nothing.
LEMMA BegunKnows ==
  /\ Knows(Quiet)
  /\ \A r \in Requests, pc \in {"vector", "noted"} :
       Knows([Quiet EXCEPT !.pc = pc, !.request = r])
BY DEF Knows, Quiet

LEMMA SearchVectorsKnows ==
  ASSUME AskersTyped, NEW a \in Askers, SearchVectors(a)
  PROVE  Knows(asker'[a]) /\ \A b \in Askers \ {a} : asker'[b] = asker[b]
<1>1. PICK now : now = asker[a]
  OBVIOUS
<1>2. PICK r : r = now.request
  OBVIOUS
<1>3. Stands(now) /\ DOMAIN now = Fields /\ DOMAIN asker = Askers
  BY <1>1 DEF AskersTyped, Stands
<1>4. now.pc = "vector" /\ r \in Requests
  BY <1>1, <1>2, <1>3 DEF SearchVectors, Stands
<1>5. PICK steady : steady = {v \in Versions : Eligible(v, r.project)}
  OBVIOUS
<1>6. PICK found \in Scanned(r.project, Pool[r.k]) : asker' = [asker EXCEPT ![a] = Searched(now, found, steady)]
  BY <1>1, <1>2, <1>5, SearchVectorsStands
<1>7. PICK next : next = Searched(now, found, steady)
  OBVIOUS
<1>8. next.pc = "text" /\ next.vector = found /\ next.steady = steady /\ next.request = r
  BY <1>2, <1>3, <1>7, StepFields
<1>9. asker'[a] = next /\ \A b \in Askers \ {a} : asker'[b] = asker[b]
  BY <1>3, <1>6, <1>7
<1>10. Knows(next)
  BY <1>5, <1>8 DEF Knows
<1> QED
  BY <1>9, <1>10

LEMMA SearchTextKnows ==
  ASSUME AskersTyped, NEW a \in Askers, Knows(asker[a]), SearchText(a)
  PROVE  Knows(asker'[a]) /\ \A b \in Askers \ {a} : asker'[b] = asker[b]
<1>1. PICK now : now = asker[a]
  OBVIOUS
<1>2. PICK r : r = now.request
  OBVIOUS
<1>3. Stands(now) /\ DOMAIN now = Fields /\ DOMAIN asker = Askers
  BY <1>1 DEF AskersTyped, Stands
<1>4. /\ now.pc = "text" /\ r.kind # "graph" /\ r \in Requests
      /\ now.vector \in SUBSET Versions /\ IsFiniteSet(now.vector)
  BY <1>1, <1>2, <1>3 DEF SearchText, Stands
<1> DEFINE Goes(merged, pc, hits) == /\ asker' = [asker EXCEPT ![a] = Hit(now, pc, hits)]
                                     /\ pc \in {"linked", "done"} /\ (Room(r) => hits = merged)
<1>a. PICK found \in Found(r) : \E merged \in Merged(now.vector, found, r.k) :
                                       \E pc, hits : Goes(merged, pc, hits)
  BY <1>1, <1>2, SearchTextStands
<1>b. PICK merged \in Merged(now.vector, found, r.k) : \E pc, hits : Goes(merged, pc, hits)
  BY <1>a
<1>5. PICK pc, hits : Goes(merged, pc, hits)
  BY <1>b
<1>6. PICK next : next = Hit(now, pc, hits)
  OBVIOUS
<1>7. /\ next.pc = pc /\ next.hits = hits /\ next.steady = now.steady /\ next.request = r
      /\ next.vector = now.vector
  BY <1>2, <1>3, <1>6, StepFields
<1>8. asker'[a] = next /\ \A b \in Askers \ {a} : asker'[b] = asker[b]
  BY <1>3, <1>5, <1>6
<1>9. ASSUME Room(r), NEW v \in now.steady PROVE Fair(next, v)
  <2> SUFFICES ASSUME v \in now.vector \cup DOMAIN Text, v \notin ToSet(merged)
               PROVE  /\ Len(merged) = r.k
                      /\ \A h \in ToSet(merged) : Nearer(now.vector, h, v) \/ Before(Text, h, v)
    BY <1>5, <1>7, <1>9 DEF Fair
  <2>1. v \in Versions /\ Eligible(v, r.project)
    BY <1>1, <1>2, <1>4, <1>9 DEF Knows
  <2> QED
    BY <1>4, <1>5, <2>1, MergedFair
<1>10. next.pc # "text"
  BY <1>5, <1>7
<1>11. Knows(next)
  BY <1>7, <1>9, <1>10 DEF Knows
<1> QED
  BY <1>8, <1>11

\* What is linked to the hits changes nothing about them.
LEMMA LinkKnows ==
  ASSUME NEW now, DOMAIN now = Fields, Knows(now), now.pc \in {"linked", "linked again"},
         NEW pc \in {"linked again", "done"}, NEW linked
  PROVE  Knows(Link(now, pc, linked))
<1>1. PICK next : next = Link(now, pc, linked)
  OBVIOUS
<1>2. /\ next.pc = pc /\ next.request = now.request /\ next.hits = now.hits /\ next.steady = now.steady
      /\ next.vector = now.vector
  BY <1>1 DEF Link, Fields
<1>3. \A v \in now.steady : Fair(now, v) => Fair(next, v)
  BY <1>2 DEF Fair
<1>4. Knows(next)
  BY <1>2, <1>3 DEF Knows
<1> QED
  BY <1>1, <1>4

\* A statement takes from what is steady all that can no longer be found.
LEMMA ExecuteKnows ==
  ASSUME AskersTyped, KnowsInv, NEW w \in Workers, Execute(w)
  PROVE  KnowsInv'
<1> SUFFICES ASSUME NEW a \in Askers PROVE Knows(asker[a])'
  BY DEF KnowsInv
<1>1. PICK now : now = asker[a]
  OBVIOUS
<1>2. DOMAIN now = Fields /\ Knows(now)
  BY <1>1 DEF AskersTyped, Stands, KnowsInv
<1>3. PICK steady : steady = {v \in now.steady : row'[OwnerOf[v]] # Absent /\ chunk'[OwnerOf[v]] = v}
  OBVIOUS
<1>4. PICK next : next = Less(now, steady)
  OBVIOUS
<1>5. asker'[a] = next
  BY <1>1, <1>3, <1>4, ExecuteUnsteady
<1>6. /\ next.pc = now.pc /\ next.request = now.request /\ next.vector = now.vector
      /\ next.hits = now.hits /\ next.steady = steady
  BY <1>2, <1>4, LessFields
<1>7. ASSUME now.request.kind # "graph", now.pc = "text", NEW v \in steady
      PROVE  v \in Versions /\ Eligible(v, now.request.project)'
  <2>1. v \in Versions /\ Eligible(v, now.request.project)
    BY <1>2, <1>3, <1>7 DEF Knows
  <2>2. row'[OwnerOf[v]] # Absent /\ chunk'[OwnerOf[v]] = v
    BY <1>3
  <2>3. Eligible(v, now.request.project)'
    BY <1>1, <2>1, <2>2 DEF Eligible
  <2> QED
    BY <2>1, <2>3
<1>8. ASSUME now.request.kind # "graph", now.pc \in {"linked", "linked again", "done"}, Room(now.request),
             NEW v \in steady
      PROVE  Fair(next, v)
  BY <1>2, <1>3, <1>6, <1>8 DEF Knows, Fair
<1> QED
  BY <1>5, <1>6, <1>7, <1>8 DEF Knows

LEMMA KnowsStep ==
  ASSUME AskersTyped, KnowsInv, [Next]_vars
  PROVE  KnowsInv'
<1>1. DOMAIN asker = Askers /\ \A a \in Askers : Knows(asker[a]) /\ Stands(asker[a]) /\ DOMAIN asker[a] = Fields
  BY DEF AskersTyped, Stands, KnowsInv
<1>2. ASSUME UNCHANGED <<row, chunk>>, NEW a \in Askers, Knows(asker'[a]),
             \A b \in Askers \ {a} : asker'[b] = asker[b]
      PROVE  KnowsInv'
  <2> SUFFICES ASSUME NEW b \in Askers PROVE Knows(asker[b])'
    BY DEF KnowsInv
  <2>1. PICK next : next = asker'[b]
    OBVIOUS
  <2>2. Knows(next)
    BY <1>1, <1>2, <2>1
  <2>3. \A v, project : Eligible(v, project)' <=> Eligible(v, project)
    BY <1>2 DEF Eligible
  <2> QED
    BY <2>1, <2>2, <2>3 DEF Knows
<1>3. ASSUME UNCHANGED <<row, chunk, asker>> PROVE KnowsInv'
  <2> SUFFICES ASSUME NEW b \in Askers PROVE Knows(asker[b])'
    BY DEF KnowsInv
  <2>1. PICK now : now = asker[b]
    OBVIOUS
  <2>2. Knows(now) /\ asker'[b] = now
    BY <1>1, <1>3, <2>1
  <2>3. \A v, project : Eligible(v, project)' <=> Eligible(v, project)
    BY <1>3 DEF Eligible
  <2> QED
    BY <2>2, <2>3 DEF Knows
<1>4. ASSUME NEW w \in Workers, Execute(w) PROVE KnowsInv'
  BY <1>4, ExecuteKnows
<1>5. ASSUME NEW w \in Workers,
             (\E v \in Versions : Ingest(w, v)) \/ (\E d \in Docs : Delete(w, d)) \/ Compact(w) \/ CutShort(w)
      PROVE  KnowsInv'
  BY <1>3, <1>5 DEF Ingest, Delete, Compact, CutShort, store
<1>6. ASSUME NEW a \in Askers,
             \/ \E r \in Requests : Ask(a, r) \/ Search(a, r) \/ Recall(a, r) \/ Neighbours(a, r)
             \/ SearchVectors(a) \/ SearchNearest(a) \/ SearchText(a) \/ QueryLinked(a)
             \/ QueryNeighbours(a) \/ Respond(a)
      PROVE  UNCHANGED <<row, chunk>>
  BY <1>6 DEF Ask, Search, Recall, Neighbours, Begin, SearchVectors, SearchNearest, SearchText,
              QueryLinked, QueryNeighbours, Respond, store
<1>7. ASSUME NEW a \in Askers, NEW r \in Requests, Ask(a, r) \/ Search(a, r) \/ Recall(a, r) \/ Neighbours(a, r)
      PROVE  KnowsInv'
  <2>1. PICK pc \in {"vector", "noted"} : asker' = [asker EXCEPT ![a] = [Quiet EXCEPT !.pc = pc, !.request = r]]
    BY <1>7 DEF Ask, Search, Recall, Neighbours, Begin
  <2>2. PICK next : next = [Quiet EXCEPT !.pc = pc, !.request = r]
    OBVIOUS
  <2>3. asker' = [asker EXCEPT ![a] = next] /\ Knows(next)
    BY <2>1, <2>2, BegunKnows
  <2> QED
    BY <1>1, <1>2, <1>6, <1>7, <2>3, OneSteps
<1>8. ASSUME NEW a \in Askers, SearchVectors(a) PROVE KnowsInv'
  BY <1>2, <1>6, <1>8, SearchVectorsKnows
<1>9. ASSUME NEW a \in Askers, SearchNearest(a) PROVE KnowsInv'
  <2>1. PICK pc, hits : asker' = [asker EXCEPT ![a] = Hit(asker[a], pc, hits)]
    BY <1>9, SearchNearestStands
  <2>2. PICK next : next = Hit(asker[a], pc, hits)
    OBVIOUS
  <2>3. next.request = asker[a].request /\ next.request.kind = "graph"
    BY <1>1, <1>9, <2>2 DEF Hit, Fields, SearchNearest
  <2>4. asker' = [asker EXCEPT ![a] = next] /\ Knows(next)
    BY <2>1, <2>2, <2>3 DEF Knows
  <2> QED
    BY <1>1, <1>2, <1>6, <1>9, <2>4, OneSteps
<1>10. ASSUME NEW a \in Askers, SearchText(a) PROVE KnowsInv'
  BY <1>1, <1>2, <1>6, <1>10, SearchTextKnows
<1>11. ASSUME NEW a \in Askers, QueryLinked(a) PROVE KnowsInv'
  <2>1. PICK pc, linked : /\ asker' = [asker EXCEPT ![a] = Link(asker[a], pc, linked)]
                          /\ pc \in {"linked again", "done"}
    BY <1>11, QueryLinkedStands
  <2>2. PICK next : next = Link(asker[a], pc, linked)
    OBVIOUS
  <2>3. asker' = [asker EXCEPT ![a] = next]
    BY <2>1, <2>2
  <2>4. asker[a].pc \in {"linked", "linked again"}
    BY <1>11 DEF QueryLinked
  <2>5. Knows(next)
    BY <1>1, <2>1, <2>2, <2>4, LinkKnows
  <2> QED
    BY <1>1, <1>2, <1>6, <1>11, <2>3, <2>5, OneSteps
<1>12. ASSUME NEW a \in Askers, QueryNeighbours(a) PROVE KnowsInv'
  <2>1. PICK next : next = [asker[a] EXCEPT !.pc = "done"]
    OBVIOUS
  <2>2. asker' = [asker EXCEPT ![a] = next]
    BY <1>12, <2>1 DEF QueryNeighbours
  <2>3. next.request.kind = "graph"
    BY <1>1, <1>12, <2>1 DEF Fields, QueryNeighbours
  <2>4. Knows(next)
    BY <2>3 DEF Knows
  <2> QED
    BY <1>1, <1>2, <1>6, <1>12, <2>2, <2>4, OneSteps
<1>13. ASSUME NEW a \in Askers, Respond(a) PROVE KnowsInv'
  <2>1. asker' = [asker EXCEPT ![a] = Quiet]
    BY <1>13 DEF Respond
  <2> QED
    BY <1>1, <1>2, <1>6, <1>13, <2>1, OneSteps, BegunKnows
<1>14. CASE UNCHANGED vars
  BY <1>3, <1>14 DEF vars
<1> QED
  BY <1>4, <1>5, <1>7, <1>8, <1>9, <1>10, <1>11, <1>12, <1>13, <1>14 DEF Next

\* A chunk that the search by meaning came to, or that has the words, and that could
\* be found all the time an answer was in the making, is a hit or has lost to as many
\* as were asked for, each before it by meaning, as far as the search came, or by
\* words: for any documents, rankings, sizes of the searches, whatever the index
\* misses, and however ingests, deletes and compactions come in between.
THEOREM BestRowsAreHits == Spec => []BestAreHits
<1>1. Init => KnowsInv
  BY BegunKnows DEF Init, KnowsInv
<1>2. TypeInv /\ KnowsInv /\ [Next]_vars => KnowsInv'
  BY KnowsStep DEF TypeInv
<1>3. KnowsInv => BestAreHits
  BY DEF KnowsInv, Knows, Fair, BestAreHits
<1> QED
  BY <1>1, <1>2, <1>3, TypeInvariant, PTL DEF Spec
=============================================================================

----------------------------- MODULE MemoryGraph -----------------------------
(*****************************************************************************)
(* The graph beside the documents of the store, and who reads it: an ingest  *)
(* writes nodes and edges statement by statement (drudge/src/ingest.rs,      *)
(* store.rs), the daily compaction collects the nodes nothing refers to, and *)
(* /ask, /search, /graph and recall read chunks, edges and claims in between *)
(* (retrieve.rs, ask.rs, graph.rs).                                          *)
(*                                                                           *)
(* A step is one SQL statement, each in a transaction of its own. A document *)
(* has one chunk, and no origin is excluded from an answer. A claim is of    *)
(* one document: what happens when notes contradict each other is the        *)
(* subject of ClaimStore.                                                    *)
(*                                                                           *)
(* NoTurns, KeepOldEdges, LimitFirst and Again are wrong on purpose: they    *)
(* show that the properties can fail.                                        *)
(*****************************************************************************)
EXTENDS Integers, Sequences, FiniteSets, SequencesExt, Functions

CONSTANTS
  Workers,      \* who runs ingests and compactions
  Askers,
  Docs, Versions, Absent,
  OwnerOf,      \* OwnerOf[v]: the document v is a version of
  ProjectOf, TagsOf,    \* of versions
  TermsOf,      \* tools and concepts of a version
  ClaimsOf,     \* claims of a version: <<axis, value>>
  Near, Text,   \* places of the versions, by closeness to what is asked and, of
                \* those that have its words, by these
  Anywhere,     \* no restriction to a project
  Requests,     \* [kind, project, k, chars]: k hits, of so much text, are asked for
  Pool,         \* Pool[k]: rows of a search for k hits
  MaxLinked,    \* documents linked to the hits
  Limits        \* bounds: jobs, requests, jobs cut short

ASSUME GraphAssumption ==
  /\ Absent \notin Versions /\ Absent \notin Docs /\ OwnerOf \in [Versions -> Docs]
  /\ \A v \in Versions : IsFiniteSet(TagsOf[v]) /\ IsFiniteSet(TermsOf[v]) /\ IsFiniteSet(ClaimsOf[v])
  /\ IsFiniteSet(Docs)
  /\ Near \in [Versions -> Nat] /\ IsInjective(Near)
  /\ DOMAIN Text \subseteq Versions /\ Text \in [DOMAIN Text -> Nat] /\ IsInjective(Text)
  /\ Requests \subseteq [kind: {"ask", "search", "recall", "graph"}, project: STRING \cup {Anywhere},
                        k: Nat \ {0}, chars: Nat]
  /\ \A r \in Requests : Pool[r.k] \in Nat /\ r.k <= Pool[r.k]
  /\ MaxLinked \in Nat /\ Limits \in [jobs: Nat, requests: Nat, drops: Nat]

VARIABLES
  row, chunk,   \* the version of each document in the store, and of its chunk
  node, edge,   \* nodes; edges [from, to, kind]
  fact,         \* current claims [doc, axis, value]
  job,          \* job[w]: what worker w is doing to which document
  whole,        \* history: no job on the document was cut short since its last whole one
  asker,        \* where each asker stands
  budget

store == <<row, chunk, node, edge, fact>>
vars == <<row, chunk, node, edge, fact, job, whole, asker, budget>>

Node(kind, name) == <<kind, name>>
Edge(d, n, kind) == [from |-> d, to |-> n, kind |-> kind]
Nothing == [doc |-> Absent, todo |-> <<>>]
Quiet == [pc |-> "idle", request |-> [kind |-> "none", project |-> Anywhere, k |-> 1, chars |-> 0],
          vector |-> {}, hits |-> <<>>, linked |-> {}, steady |-> {}]

Init ==
  /\ row = [d \in Docs |-> Absent] /\ chunk = [d \in Docs |-> Absent]
  /\ node = {} /\ edge = {} /\ fact = {}
  /\ job = [w \in Workers |-> Nothing]
  /\ whole = [d \in Docs |-> TRUE]
  /\ asker = [a \in Askers |-> Quiet]
  /\ budget = Limits

Spend(what) == budget[what] > 0 /\ budget' = [budget EXCEPT ![what] = @ - 1]

-------------------------------------------------------------------------------
(* Jobs, as the statements they consist of *)

Do(op) == <<[op |-> op]>>
Linking(n, kind) == <<[op |-> "node", node |-> n], [op |-> "edge", node |-> n, kind |-> kind]>>
LinkingAll(names, type, kind) ==
  [i \in 1..2 * Cardinality(names) |->
     Linking(Node(type, SetToSeq(names)[(i + 1) \div 2]), kind)[2 - (i % 2)]]

Script(v) ==
  Do("row") \o Linking(Node("project", ProjectOf[v]), "in_project")
  \o Do("untag") \o LinkingAll(TagsOf[v], "topic", "tagged") \o Do("chunk")
  \o Do("clear") \o LinkingAll(TermsOf[v], "term", "about")
  \o [i \in 1..Cardinality(ClaimsOf[v]) |-> [op |-> "claim", claim |-> SetToSeq(ClaimsOf[v])[i]]]

Idle(w) == job[w] = Nothing

NoTurns(w) == Idle(w)

\* sync_lock: remember, sync and compact take turns.
Turn(w) == \A other \in Workers : Idle(other)

\* remember or sync takes up a note it finds changed.
Ingest(w, v) ==
  /\ Turn(w) /\ row[OwnerOf[v]] # v
  /\ Spend("jobs")
  /\ job' = [job EXCEPT ![w] = [doc |-> OwnerOf[v], version |-> v, todo |-> Script(v)]]
  /\ UNCHANGED <<store, whole, asker>>

\* forget, or sync on a file that is gone.
Delete(w, d) ==
  /\ Turn(w) /\ row[d] # Absent
  /\ Spend("jobs")
  /\ job' = [job EXCEPT ![w] = [doc |-> d, todo |-> Do("drop") \o Do("unlink") \o Do("retract")]]
  /\ UNCHANGED <<store, whole, asker>>

\* The vacuums and reindexes before it change no row.
Compact(w) ==
  /\ Turn(w)
  /\ Spend("jobs")
  /\ job' = [job EXCEPT ![w] = [doc |-> Absent, todo |-> Do("collect")]]
  /\ UNCHANGED <<store, whole, asker>>

Known(d, claim) == [doc |-> d, axis |-> claim[1], value |-> claim[2]] \in fact

\* The statements that record a claim, none for one that is known already.
Asserting(d, claim) ==
  IF Known(d, claim) THEN <<>>
  ELSE <<[op |-> "assert", claim |-> claim]>> \o Linking(Node("claim", claim[1]), "claims")

KeepOldEdges(d) == edge

\* The edges that are left when those of the semantic kinds are cleared.
Cleared(d) == {e \in edge : e.from # d \/ e.kind \notin {"about", "claims"}}

\* What a document has an edge to, but of its project and topics.
Concrete(d) == {e.to : e \in {e \in edge : e.from = d /\ e.kind \in {"about", "claims"}}}

\* Tools and concepts no edge leads to.
Orphans == {n \in node : n[1] = "term" /\ \A e \in edge : e.to # n}

\* The effect of a statement on the tables.
Rows(j, s) ==
  CASE s.op = "row" -> row' = [row EXCEPT ![j.doc] = j.version] /\ UNCHANGED <<chunk, node, edge, fact>>
    [] s.op = "chunk" -> chunk' = [chunk EXCEPT ![j.doc] = j.version] /\ UNCHANGED <<row, node, edge, fact>>
    [] s.op = "drop" -> /\ row' = [row EXCEPT ![j.doc] = Absent] /\ chunk' = [chunk EXCEPT ![j.doc] = Absent]
                        /\ UNCHANGED <<node, edge, fact>>
    [] s.op = "retract" -> fact' = {f \in fact : f.doc # j.doc} /\ UNCHANGED <<row, chunk, node, edge>>
    [] s.op = "assert" ->
         /\ fact' = {f \in fact : f.doc # j.doc \/ f.axis # s.claim[1]}
                    \cup {[doc |-> j.doc, axis |-> s.claim[1], value |-> s.claim[2]]}
         /\ UNCHANGED <<row, chunk, node, edge>>

Edges(j, s) ==
  /\ CASE s.op = "node" -> node' = node \cup {s.node} /\ UNCHANGED edge
       [] s.op = "edge" -> edge' = edge \cup {Edge(j.doc, s.node, s.kind)} /\ UNCHANGED node
       [] s.op = "untag" -> edge' = {e \in edge : e.from # j.doc \/ e.kind # "tagged"} /\ UNCHANGED node
       [] s.op = "clear" -> edge' = Cleared(j.doc) /\ UNCHANGED node
       [] s.op = "unlink" -> edge' = {e \in edge : e.from # j.doc} /\ UNCHANGED node
       [] s.op = "collect" -> node' = node \ Orphans /\ UNCHANGED edge
       [] s.op = "claim" -> UNCHANGED <<node, edge>>
  /\ UNCHANGED <<row, chunk, fact>>

\* What was eligible for an answer no longer is.
Unsteady == asker' = [a \in Askers |-> [asker[a] EXCEPT !.steady = {v \in @ : row'[OwnerOf[v]] # Absent
                                                                         /\ chunk'[OwnerOf[v]] = v}]]

\* The next statement of a job; the last one ends it.
Execute(w) ==
  LET j == job[w]
      s == Head(j.todo)
      more == (IF s.op = "claim" THEN Asserting(j.doc, s.claim) ELSE <<>>) \o Tail(j.todo)
  IN /\ ~Idle(w)
     /\ IF s.op \in {"row", "chunk", "drop", "retract", "assert"} THEN Rows(j, s) ELSE Edges(j, s)
     /\ Unsteady
     /\ job' = [job EXCEPT ![w] = IF more = <<>> THEN Nothing ELSE [j EXCEPT !.todo = more]]
     /\ whole' = IF more = <<>> /\ j.doc \in Docs THEN [whole EXCEPT ![j.doc] = TRUE] ELSE whole
     /\ UNCHANGED budget

\* A statement fails, the caller gives up or the daemon dies: the rest is not
\* done, and what is done stays. The next job on the document is another one.
CutShort(w) ==
  /\ ~Idle(w)
  /\ Spend("drops")
  /\ job' = [job EXCEPT ![w] = Nothing]
  /\ whole' = IF job[w].doc \in Docs THEN [whole EXCEPT ![job[w].doc] = FALSE] ELSE whole
  /\ UNCHANGED <<store, asker>>

-------------------------------------------------------------------------------
(* Answers *)

\* A chunk that a search may return: joined with its document, in the project.
Eligible(v, project) ==
  /\ chunk[OwnerOf[v]] = v /\ row[OwnerOf[v]] # Absent
  /\ project = Anywhere \/ ProjectOf[v] = project

\* Choices of the first n rows, or all of them: ORDER BY ... LIMIT n.
Firsts(rows, n, place) ==
  {top \in SUBSET rows : /\ Cardinality(top) = IF Cardinality(rows) < n THEN Cardinality(rows) ELSE n
                         /\ \A u \in top, v \in rows \ top : place[u] <= place[v]}

Matching(place, project) == {v \in DOMAIN place : Eligible(v, project)}

\* A search by meaning of at most n rows: the scan of the HNSW index comes to a
\* fixed number of rows near the question, and the filter leaves of these what is
\* of the project, so that it may miss any row, and all.
Scanned(project, n) == {found \in SUBSET Matching(Near, project) : Cardinality(found) <= n}

LimitFirst(r) ==
  {top \cap Matching(Text, r.project) : top \in Firsts(Matching(Text, Anywhere), Pool[r.k], Text)}

\* A search by words is exact: filtered first, then the best of what is left.
Found(r) == Firsts(Matching(Text, r.project), Pool[r.k], Text)

Begin(a, r, pc) ==
  /\ asker[a].pc = "idle"
  /\ Spend("requests")
  /\ asker' = [asker EXCEPT ![a] = [Quiet EXCEPT !.pc = pc, !.request = r]]
  /\ UNCHANGED <<store, job, whole>>

\* /ask and the tool ask.
Ask(a, r) == r.kind = "ask" /\ Begin(a, r, "vector")

Search(a, r) == r.kind = "search" /\ Begin(a, r, "vector")

\* The tool recall searches the store only when the notes themselves, WikiIndex,
\* answer nothing.
Recall(a, r) == r.kind = "recall" /\ \E pc \in {"vector", "noted"} : Begin(a, r, pc)

\* /graph and the tool neighbors, of all projects.
Neighbours(a, r) == r.kind = "graph" /\ r.project = Anywhere /\ Begin(a, r, "vector")

\* Search by meaning.
SearchVectors(a) ==
  LET r == asker[a].request IN
  /\ asker[a].pc = "vector" /\ r.kind # "graph"
  /\ \E found \in Scanned(r.project, Pool[r.k]) :
       asker' = [asker EXCEPT ![a].pc = "text", ![a].vector = found,
                   ![a].steady = {v \in Versions : Eligible(v, r.project)}]
  /\ UNCHANGED <<store, job, whole, budget>>

\* /graph takes the chunk the scan comes to first; none is without its document.
SearchNearest(a) ==
  /\ asker[a].pc = "vector" /\ asker[a].request.kind = "graph"
  /\ \E found \in Scanned(Anywhere, 1) :
       asker' = [asker EXCEPT ![a].pc = IF found = {} THEN "done" ELSE "linked",
                   ![a].hits = SetToSeq(found)]
  /\ UNCHANGED <<store, job, whole, budget>>

\* Reciprocal rank fusion: 1 / (60 + rank) from each list, as a fraction.
Term(place, found, v) ==
  IF v \in found THEN <<1, 60 + Cardinality({u \in found : place[u] <= place[v]})>> ELSE <<0, 1>>
Sum(x, y) == <<x[1] * y[2] + y[1] * x[2], x[2] * y[2]>>
AtLeast(x, y) == x[1] * y[2] >= y[1] * x[2]
Score(vector, text, v) == Sum(Term(Near, vector, v), Term(Text, text, v))

\* The first n rows of both lists, or all, best first; of equal ones either is.
Merged(vector, text, n) ==
  LET all == vector \cup text
      left(s, i) == all \ {s[j] : j \in 1..(i - 1)}
  IN {s \in [1..(IF Cardinality(all) < n THEN Cardinality(all) ELSE n) -> all] :
        \A i \in DOMAIN s :
          /\ s[i] \in left(s, i)
          /\ \A v \in left(s, i) : AtLeast(Score(vector, text, s[i]), Score(vector, text, v))}

\* /search and recall cut every hit to an equal share of the text there is room
\* for, so that it lasts for all of them; a share of nothing leaves no hit.
Room(r) == r.kind = "ask" \/ r.chars \div r.k > 0

\* Search by words, and the best of both lists. A question about which nothing
\* is found is answered without the model.
SearchText(a) ==
  LET r == asker[a].request IN
  /\ asker[a].pc = "text"
  /\ \E found \in Found(r) : \E merged \in Merged(asker[a].vector, found, r.k) :
       LET hits == IF Room(r) THEN merged ELSE <<>> IN
       asker' = [asker EXCEPT ![a].hits = hits,
                   ![a].pc = IF r.kind = "ask" /\ hits # <<>> THEN "linked" ELSE "done"]
  /\ UNCHANGED <<store, job, whole, budget>>

Shared(d, e) == Cardinality(Concrete(d) \cap Concrete(e))

\* Choices of the n documents of a set, or all, that share most with d.
Closest(d, docs, n) == Firsts(docs, n, [e \in docs |-> -Shared(d, e)])

\* Documents that share two nodes with d, those that share most; a document that
\* is gone counts until it is joined.
Related(d) ==
  {{e \in top : row[e] # Absent /\ chunk[e] # Absent} :
     top \in Closest(d, {e \in Docs \ {d} : Shared(d, e) >= 2}, MaxLinked)}

Again(a, related) == related

\* The linked documents that are neither hits nor linked already.
Unseen(a, related) == related \ ({OwnerOf[v] : v \in ToSet(asker[a].hits)} \cup asker[a].linked)

\* The documents linked to the two best hits, one query for each. /graph reads
\* the neighbours of its hit.
QueryLinked(a) ==
  LET hits == asker[a].hits
      d == OwnerOf[hits[IF asker[a].pc = "linked" THEN 1 ELSE 2]]
  IN /\ asker[a].pc \in {"linked", "linked again"} /\ asker[a].request.kind = "ask"
     /\ \E related \in Related(d) :
          \E more \in Closest(d, Unseen(a, related), MaxLinked - Cardinality(asker[a].linked)) :
            asker' = [asker EXCEPT ![a].linked = @ \cup more,
                        ![a].pc = IF @ = "linked" /\ Len(hits) > 1 THEN "linked again" ELSE "done"]
     /\ UNCHANGED <<store, job, whole, budget>>

QueryNeighbours(a) ==
  /\ asker[a].pc = "linked" /\ asker[a].request.kind = "graph"
  /\ asker' = [asker EXCEPT ![a].pc = "done"]
  /\ UNCHANGED <<store, job, whole, budget>>

\* The claims are read, the model answers and the call is logged; before that a
\* query or the model may fail, or the caller hang up.
Respond(a) ==
  /\ asker[a].pc # "idle"
  /\ asker' = [asker EXCEPT ![a] = Quiet]
  /\ UNCHANGED <<store, job, whole, budget>>

Next ==
  \/ \E w \in Workers :
       \/ \E v \in Versions : Ingest(w, v)
       \/ \E d \in Docs : Delete(w, d)
       \/ Compact(w) \/ Execute(w) \/ CutShort(w)
  \/ \E a \in Askers :
       \/ \E r \in Requests : Ask(a, r) \/ Search(a, r) \/ Recall(a, r) \/ Neighbours(a, r)
       \/ SearchVectors(a) \/ SearchNearest(a) \/ SearchText(a) \/ QueryLinked(a) \/ QueryNeighbours(a) \/ Respond(a)

Spec == Init /\ [][Next]_vars

-------------------------------------------------------------------------------
(* Properties *)

\* Every variable has its type; an answer has no more linked documents than it
\* may have, none of which is a hit.
TypeOK ==
  /\ row \in [Docs -> Versions \cup {Absent}] /\ chunk \in [Docs -> Versions \cup {Absent}]
  /\ \A e \in edge : e.from \in Docs /\ e.kind \in {"in_project", "tagged", "about", "claims"}
  /\ \A f \in fact : f.doc \in Docs
  /\ whole \in [Docs -> BOOLEAN]
  /\ \A a \in Askers :
       /\ ToSet(asker[a].hits) \subseteq Versions /\ Len(asker[a].hits) <= asker[a].request.k
       /\ Cardinality(asker[a].linked) <= MaxLinked
       /\ asker[a].linked \cap {OwnerOf[v] : v \in ToSet(asker[a].hits)} = {}

\* gc_orphans spares what is in use: no compaction comes between the statement
\* that makes a node and the one that links it, nor leaves an edge without its
\* node in any other way.
NodesOutliveEdges == \A e \in edge : e.to \in node

\* "deterministic graph": when nothing was cut short, what a document has edges
\* to as tools, concepts and topics is what its version in the store says, and a
\* document that is not there has no edge and no claim.
GraphSaysNote ==
  \A d \in Docs : whole[d] /\ (\A w \in Workers : job[w].doc # d) =>
    LET names(kind) == {e.to[2] : e \in {e \in edge : e.from = d /\ e.kind = kind}} IN
    IF row[d] = Absent
      THEN (\A e \in edge : e.from # d) /\ (\A f \in fact : f.doc # d)
      ELSE names("about") = TermsOf[row[d]] /\ names("tagged") = TagsOf[row[d]]

Nearer(found, u, v) == u \in found /\ (v \in found => Near[u] < Near[v])
Before(place, u, v) == u \in DOMAIN place /\ (v \in DOMAIN place => place[u] < place[v])

\* A chunk that the search by meaning came to, or that has the words, and that could
\* be found all the time, is a hit or has lost to as many as were asked for. Each of
\* these is nearer, by the search that came to it, or is before it by words. Words
\* find it however many chunks of other projects have more of them; what the index
\* misses and no word finds is promised nothing.
BestAreHits ==
  \A a \in Askers :
    LET r == asker[a].request
        near == asker[a].vector
    IN asker[a].pc \in {"linked", "done"} /\ r.kind # "graph" /\ Room(r) =>
         \A v \in asker[a].steady \cap (near \cup DOMAIN Text) : v \notin ToSet(asker[a].hits) =>
           /\ Len(asker[a].hits) = r.k
           /\ \A h \in ToSet(asker[a].hits) : Nearer(near, h, v) \/ Before(Text, h, v)

\* "Idempotent: clears the doc's prior semantic edges first": ... and so are its
\* edges to its claims.
ClaimsStayLinked ==
  \A d \in Docs : whole[d] /\ row[d] # Absent /\ (\A w \in Workers : job[w].doc # d) =>
    \A c \in ClaimsOf[row[d]] : Edge(d, Node("claim", c[1]), "claims") \in edge
==============================================================================

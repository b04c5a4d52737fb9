-------------------------------- MODULE Ledger --------------------------------
(*****************************************************************************)
(* The documents and claims of the store, and the queries that choose which  *)
(* of them a prompt is made of (drudge/src/store.rs), as the briefings,      *)
(* registers and answers of drudge/src/ask.rs use them.                      *)
(*                                                                           *)
(* What a query returns is a set of rows, for its order only decides who is  *)
(* within its limit: rows with equal keys come in any order, so a query has  *)
(* a set of possible results. Times are whole days.                          *)
(*                                                                           *)
(* RecencyOnly, CrowdedSlots and LastOrNone are wrong on purpose: they show  *)
(* that the properties can fail.                                             *)
(*****************************************************************************)
EXTENDS Integers, Sequences, FiniteSets, FiniteSetsExt, SequencesExt

CONSTANTS
  Docs, Claims,
  Aside,        \* documents with names like eval-*, daily-brief-*, weekly-brief-*
  Tagged,       \* documents with the tag daily-brief
  OriginOf, ProjectOf,  \* of documents
  DocOf, KindOf,        \* of claims
  Anywhere,     \* no restriction to a project
  Windows,      \* BRIEF windows: <<days, documents that are enough>>, widening
  Reserve,      \* BRIEF_CLAIM_RESERVE: <<kind, rows>>
  Budget,       \* BRIEF_CLAIM_BUDGET
  Slots,        \* rows of the stalled block
  Stall, Horizon  \* days after which a claim is stalled, and abandoned

ASSUME LedgerAssumption ==
  /\ OriginOf \in [Docs -> STRING] /\ DocOf \in [Claims -> Docs] /\ KindOf \in [Claims -> STRING]
  /\ Aside \subseteq Docs /\ Tagged \subseteq Docs
  /\ Windows \in Seq(Nat \X Nat) /\ Reserve \in Seq(STRING \X Nat) /\ Windows # <<>>
  /\ Budget \in Nat /\ Slots \in Nat /\ Stall \in Nat /\ Horizon \in Nat
  /\ IsFiniteSet(Docs) /\ IsFiniteSet(Claims) /\ Docs \cap Claims = {}

Gone == -1000   \* the time of a document or claim that is not there, or superseded

\* The rows within the limit k of a query that orders by key, highest first.
Tops(rows, k, key) ==
  {top \in kSubset(IF k < Cardinality(rows) THEN k ELSE Cardinality(rows), rows) :
     \A t \in top, r \in rows \ top : key[t] >= key[r]}

Negated(key) == [x \in DOMAIN key |-> -key[x]]

\* What restricts a query to the memory of a user.
Admitted(doc, project, excluded) ==
  /\ doc \notin Aside /\ OriginOf[doc] \notin excluded
  /\ project = Anywhere \/ ProjectOf[doc] = project

\* Documents by recency, updated since `since`.
RecentDocs(updated, k, excluded, since, project) ==
  Tops({d \in Docs : updated[d] >= since /\ Admitted(d, project, excluded)}, k, updated)

Current(from) == {c \in Claims : from[c] # Gone}

\* Current claims by recency.
RecentClaims(from, k, project, kinds, excluded) ==
  Tops({c \in Current(from) : KindOf[c] \in kinds /\ Admitted(DocOf[c], project, excluded)}, k, from)

\* Current claims by what they mean: the scan of the HNSW index comes to a fixed
\* number of claims near the text, and the filter leaves of these what is asked for,
\* so that it may miss any claim, and all.
NearestClaims(from, k, project, kinds, excluded) ==
  LET rows == {c \in Current(from) : KindOf[c] \in kinds /\ Admitted(DocOf[c], project, excluded)}
  IN {near \in SUBSET rows : Cardinality(near) <= k}

CrowdedSlots(from, stalled) == {stalled}

\* The oldest claim of each document; of several as old, any.
OnePerDoc(from, stalled) ==
  LET Oldest(d) == {c \in stalled : DocOf[c] = d /\ \A o \in stalled : DocOf[o] = d => from[c] <= from[o]}
  IN {chosen \in SUBSET stalled : \A d \in {DocOf[c] : c \in stalled} :
        Cardinality({c \in chosen : DocOf[c] = d}) = 1 /\ \E c \in chosen : c \in Oldest(d)}

\* Claims that have not moved for a while, but not for ever, oldest first.
StalledClaims(from, now, k, project, kinds, excluded, days) ==
  LET stalled == {c \in Current(from) :
        /\ from[c] < now - days /\ from[c] >= now - Horizon
        /\ KindOf[c] \in kinds /\ Admitted(DocOf[c], project, excluded)}
  IN UNION {Tops(rows, k, Negated(from)) : rows \in OnePerDoc(from, stalled)}

-------------------------------------------------------------------------------
(* Briefings *)

\* Possible documents of the briefing from one window.
InWindow(updated, now, w, excluded, limit) ==
  {found \ Tagged : found \in RecentDocs(updated, limit, excluded, now - Windows[w][1], Anywhere)}

LastOrNone(w, found) == Cardinality(found) >= Windows[w][2]

\* A window is the last one tried when it has enough, or is the widest.
Suffices(w, found) == Cardinality(found) >= Windows[w][2] \/ w = Len(Windows)

RecencyOnly(from, k, rows) ==
  IF k = Len(Reserve) + 1
    THEN RecentClaims(from, Budget, Anywhere, {KindOf[c] : c \in Claims}, {})
    ELSE {{}}

\* The k-th query for claims: a reserve for each kind a briefing has a section
\* for, and facts for what is left of the budget.
ReservedClaims(from, k, rows) ==
  IF k <= Len(Reserve)
    THEN RecentClaims(from, Reserve[k][2], Anywhere, {Reserve[k][1]}, {})
  ELSE IF Budget > Cardinality(rows)
    THEN RecentClaims(from, Budget - Cardinality(rows), Anywhere, {"fact"}, {})
  ELSE {{}}

\* Every claim a briefing is to show has its section fed, whatever the others
\* are: the reserve of a kind is used up, or the kind is.
SectionFed(rows, k, steady) ==
  LET Of(claims) == {c \in claims : KindOf[c] = Reserve[k][1] /\ DocOf[c] \notin Aside}
      has == Cardinality(Of(steady))
  IN Cardinality(Of(rows)) >= IF has < Reserve[k][2] THEN has ELSE Reserve[k][2]
===============================================================================

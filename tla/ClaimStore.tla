------------------------------ MODULE ClaimStore ------------------------------
(*****************************************************************************)
(* Temporal facts: the `claim` table the ingest derives from the wiki notes  *)
(* (drudge/src/ingest.rs, FrontmatterGraphExtractor; drudge/src/store.rs,    *)
(* upsert_claim, delete_document). One row per (subject, predicate,          *)
(* valid_from), valid_from being the mtime of the note; a row that is not    *)
(* superseded is current, and answers and briefings quote it as a fact.      *)
(*                                                                           *)
(* Each SQL statement is a step. Two programs ingest: the engine, one file   *)
(* at a time under sync_lock, and `drudge ingest` / `drudge sync` on the     *)
(* command line (main.rs), which takes no lock.                              *)
(*                                                                           *)
(* Abstractions: one (subject, predicate) axis, since no statement touches   *)
(* two, and at most one claim on it per note; a value stands for its kind    *)
(* and confidence too; superseded_at is NULL or not; chunks, the graph and   *)
(* what makes an ingest skip a file for good are in VaultEngine.            *)
(* ExtractBare, ProbeSealed, SealOlder and DeclaimAny are wrong on purpose:  *)
(* they show that the properties can fail.                                   *)
(*****************************************************************************)
EXTENDS Naturals

CONSTANTS
  Notes,      \* paths of wiki notes
  Values,     \* values a note can claim
  None,       \* no claim on the axis; no file
  Ingesters,  \* "engine" and "cli"
  Scenarios   \* which ingesters run, and the bounds: how many writes to the
              \* vault there are, and how many ingests are cut short

Setups == [ingesters: SUBSET Ingesters, writes: Nat, aborts: Nat]

\* Every write gives a note a text of its own: `at` stands for the mtime and for
\* the rest of the text, which the digest covers.
Texts == [claim: Values \cup {None}, at: Nat]
Documents == [sha: Texts, updated: Nat]

ASSUME ClaimAssumption ==
  /\ None \notin Values /\ None \notin Notes
  /\ None \notin Texts /\ None \notin Documents
  /\ Scenarios \subseteq Setups

VARIABLES
  files,   \* files[p]: the note on disk: what it claims, and its mtime
  missed,  \* missed[i]: notes that were off the disk some time since ingester i
           \* last pruned them: a listing of the vault taken then lacks them
  docs,    \* docs[p]: the document row: the digest of the text it was made of,
           \* and updated_at
  claims,  \* the rows of the claim table
  proc,    \* proc[i]: where ingester i stands
  clock,   \* the time of the last write
  torn,    \* history: an upsert was cut short before its seal, none sealed since
  cut,     \* history: notes whose last ingest or delete was cut short
  setup    \* the scenario, with what is left of its bounds

vars == <<files, missed, docs, claims, proc, clock, torn, cut, setup>>

Rows == [from: Nat, value: Values, path: Notes, current: BOOLEAN]
Procs == [at: {"idle", "stat", "digest", "touch", "document", "extract", "probe", "insert",
               "seal", "unseal", "declaim"},
          path: Notes \cup {None}, text: Texts, mtime: Nat, from: Nat]

NoText == [claim |-> None, at |-> 0]
Idle == [at |-> "idle", path |-> None, text |-> NoText, mtime |-> 0, from |-> 0]

Exists(p) == files[p] # None
Stored(p) == docs[p] # None
Stage(i, s) == proc' = [proc EXCEPT ![i].at = s]
Finish(i) == proc' = [proc EXCEPT ![i] = Idle]

\* A note whose ingest ends without an upsert: while an upsert cut short is still
\* unsealed, a later seal may yet decide which of the note's rows stays current.
Mended(p) == IF torn THEN cut ELSE cut \ {p}

\* The rows with a later valid_from than r.
Newer(r) == {q \in claims : q.from > r.from}

-------------------------------------------------------------------------------
(* The vault *)

\* remember, an edit by hand, or the link pass, which gives a note new links and
\* so a new text and a new mtime with the old claim (projection.rs).
Write(p, v) ==
  /\ setup.writes > 0 /\ setup' = [setup EXCEPT !.writes = @ - 1]
  /\ clock' = clock + 1
  /\ files' = [files EXCEPT ![p] = [claim |-> v, at |-> clock + 1]]
  /\ UNCHANGED <<missed, docs, claims, proc, torn, cut>>

Remove(p) ==
  /\ Exists(p) /\ files' = [files EXCEPT ![p] = None] /\ missed' = [i \in Ingesters |-> missed[i] \cup {p}]
  /\ UNCHANGED <<docs, claims, proc, clock, torn, cut, setup>>

-------------------------------------------------------------------------------
(* ingest_file_with and FrontmatterGraphExtractor::extract *)

Read(i, p) ==
  /\ i \in setup.ingesters /\ proc[i].at = "idle" /\ Exists(p)
  /\ proc' = [proc EXCEPT ![i] = [Idle EXCEPT !.at = "stat", !.path = p, !.text = files[p]]]
  /\ UNCHANGED <<files, missed, docs, claims, clock, torn, cut, setup>>

\* The mtime is read after the text: now, if the file is gone by then.
Stat(i) ==
  LET p == proc[i].path
  IN  /\ proc[i].at = "stat"
      /\ clock' = IF Exists(p) THEN clock ELSE clock + 1
      /\ proc' = [proc EXCEPT ![i].at = "digest",
                    ![i].mtime = IF Exists(p) THEN files[p].at ELSE clock + 1]
      /\ UNCHANGED <<files, missed, docs, claims, torn, cut, setup>>

\* get_doc_sha: is the text the one already ingested?
Digest(i) ==
  LET p == proc[i].path
      same == Stored(p) /\ docs[p].sha = proc[i].text
  IN  /\ proc[i].at = "digest"
      /\ \/ same /\ Stage(i, "touch")
         \/ ~same /\ Stage(i, "document")
      /\ UNCHANGED <<files, missed, docs, claims, clock, torn, cut, setup>>

\* set_updated_at, of the row if there still is one.
Touch(i) ==
  LET p == proc[i].path
  IN  /\ proc[i].at = "touch" /\ Finish(i)
      /\ docs' = IF Stored(p) THEN [docs EXCEPT ![p].updated = proc[i].mtime] ELSE docs
      /\ UNCHANGED <<files, missed, claims, clock, torn, cut, setup>>

\* upsert_document, once the text is embedded.
StoreDocument(i) ==
  /\ proc[i].at = "document"
  /\ docs' = [docs EXCEPT ![proc[i].path] =
                [sha |-> proc[i].text, updated |-> proc[i].mtime]]
  /\ Stage(i, "extract")
  /\ UNCHANGED <<files, missed, claims, clock, torn, cut, setup>>

ExtractBare(i) ==
  LET p == proc[i].path
  IN  /\ proc[i].at = "extract"
      /\ clock' = IF Stored(p) THEN clock ELSE clock + 1
      /\ proc' = [proc EXCEPT ![i].at = "probe",
                    ![i].from = IF Stored(p) THEN docs[p].updated ELSE clock + 1]
      /\ UNCHANGED <<files, missed, docs, claims, torn, cut, setup>>
\* doc_updated_at: now, if the row is gone by then. A note without a claim is done.
Extract(i) ==
  LET p == proc[i].path
  IN  /\ proc[i].at = "extract"
      /\ \/ /\ proc[i].text.claim = None
            /\ Finish(i) /\ cut' = Mended(p) /\ UNCHANGED clock
         \/ /\ proc[i].text.claim # None
            /\ clock' = IF Stored(p) THEN clock ELSE clock + 1
            /\ proc' = [proc EXCEPT ![i].at = "probe",
                          ![i].from = IF Stored(p) THEN docs[p].updated ELSE clock + 1]
            /\ UNCHANGED cut
      /\ UNCHANGED <<files, missed, docs, claims, torn, setup>>

ProbeSealed(i) ==
  LET says(r) == r.value = proc[i].text.claim /\ r.path = proc[i].path
  IN  /\ proc[i].at = "probe"
      /\ \/ (\E r \in claims : says(r)) /\ Finish(i) /\ cut' = Mended(proc[i].path)
         \/ (\A r \in claims : ~says(r)) /\ Stage(i, "insert") /\ UNCHANGED cut
      /\ UNCHANGED <<files, missed, docs, claims, clock, torn, setup>>
\* claim_is_unchanged: the current row says the same, by the same note.
Probe(i) ==
  LET says(r) == r.current /\ r.value = proc[i].text.claim /\ r.path = proc[i].path
  IN  /\ proc[i].at = "probe"
      /\ \/ (\E r \in claims : says(r)) /\ Finish(i) /\ cut' = Mended(proc[i].path)
         \/ (\A r \in claims : ~says(r)) /\ Stage(i, "insert") /\ UNCHANGED cut
      /\ UNCHANGED <<files, missed, docs, claims, clock, torn, setup>>

\* upsert_claim, first statement: INSERT ... ON CONFLICT DO UPDATE, which leaves
\* superseded_at of a row that is there as it is.
Insert(i) ==
  LET others == {r \in claims : r.from # proc[i].from}
      same == {r \in claims : r.from = proc[i].from}
  IN  /\ proc[i].at = "insert"
      /\ claims' = others \cup
           {[from |-> proc[i].from, value |-> proc[i].text.claim, path |-> proc[i].path,
             current |-> \A r \in same : r.current]}
      /\ Stage(i, "seal")
      /\ UNCHANGED <<files, missed, docs, clock, torn, cut, setup>>

\* Second statement: every row below the latest valid_from is superseded.
SealOlder(i) ==
  /\ proc[i].at = "seal"
  /\ torn' = FALSE /\ Stage(i, "unseal")
  /\ claims' = {IF r.from < proc[i].from THEN [r EXCEPT !.current = FALSE] ELSE r :
                  r \in claims}
  /\ UNCHANGED <<files, missed, docs, clock, cut, setup>>
Seal(i) ==
  /\ proc[i].at = "seal"
  /\ torn' = FALSE /\ Stage(i, "unseal")
  /\ claims' = {IF Newer(r) # {} THEN [r EXCEPT !.current = FALSE] ELSE r : r \in claims}
  /\ UNCHANGED <<files, missed, docs, clock, cut, setup>>

\* Third statement: the row with the latest valid_from is not.
Unseal(i) ==
  /\ proc[i].at = "unseal"
  /\ claims' = {IF Newer(r) = {} THEN [r EXCEPT !.current = TRUE] ELSE r : r \in claims}
  /\ cut' = cut \ {proc[i].path}
  /\ Finish(i)
  /\ UNCHANGED <<files, missed, docs, clock, torn, setup>>

-------------------------------------------------------------------------------
(* delete_document, by forget or by the prune of a sync, which drops what a
   listing taken earlier lacks *)

Delete(i, p) ==
  /\ i \in setup.ingesters /\ proc[i].at = "idle"
  /\ Stored(p) /\ (~Exists(p) \/ p \in missed[i])
  /\ missed' = IF Exists(p) THEN [missed EXCEPT ![i] = @ \ {p}] ELSE missed
  /\ docs' = [docs EXCEPT ![p] = None]
  /\ proc' = [proc EXCEPT ![i] = [Idle EXCEPT !.at = "declaim", !.path = p]]
  /\ UNCHANGED <<files, claims, clock, torn, cut, setup>>

\* claim has no foreign key to document: a statement of its own.
DeclaimAny(i) ==
  /\ proc[i].at = "declaim"
  /\ claims' = {r \in claims : r.path # proc[i].path \/ ~r.current}
  /\ cut' = cut \ {proc[i].path}
  /\ Finish(i)
  /\ UNCHANGED <<files, missed, docs, clock, torn, setup>>
Declaim(i) ==
  /\ proc[i].at = "declaim"
  /\ claims' = {r \in claims : r.path # proc[i].path}
  /\ cut' = cut \ {proc[i].path}
  /\ Finish(i)
  /\ UNCHANGED <<files, missed, docs, clock, torn, setup>>

-------------------------------------------------------------------------------
\* A statement or an embedding fails, or the process dies: the rest of the
\* ingest or of the delete does not happen.
Abort(i) ==
  /\ proc[i].at # "idle" /\ setup.aborts > 0
  /\ setup' = [setup EXCEPT !.aborts = @ - 1]
  /\ torn' = (torn \/ proc[i].at = "seal")
  /\ cut' = IF proc[i].at \in {"stat", "digest", "touch", "document"} THEN cut
            ELSE cut \cup {proc[i].path}
  /\ Finish(i)
  /\ UNCHANGED <<files, missed, docs, claims, clock>>

Init ==
  /\ files = [p \in Notes |-> None]
  /\ missed = [i \in Ingesters |-> {}] /\ docs = [p \in Notes |-> None]
  /\ claims = {} /\ clock = 0
  /\ proc = [i \in Ingesters |-> Idle]
  /\ torn = FALSE /\ cut = {} /\ setup \in Scenarios

Ingest(i) ==
  \/ Stat(i) \/ Digest(i) \/ Touch(i) \/ StoreDocument(i) \/ Extract(i)
  \/ Probe(i) \/ Insert(i) \/ Seal(i) \/ Unseal(i) \/ Declaim(i)

Next ==
  \/ \E p \in Notes, v \in Values \cup {None} : Write(p, v)
  \/ \E p \in Notes : Remove(p)
  \/ \E i \in Ingesters, p \in Notes : Read(i, p) \/ Delete(i, p)
  \/ \E i \in Ingesters : Ingest(i) \/ Abort(i)

Spec == Init /\ [][Next]_vars

-------------------------------------------------------------------------------
(* Properties *)

TypeOK ==
  /\ files \in [Notes -> Texts \cup {None}] /\ missed \in [Ingesters -> SUBSET Notes]
  /\ docs \in [Notes -> Documents \cup {None}]
  /\ claims \subseteq Rows
  /\ proc \in [Ingesters -> Procs]
  /\ \A i \in Ingesters : proc[i].at # "idle" => proc[i].path \in Notes
  /\ \A i \in Ingesters : proc[i].at \in {"probe", "insert"} => proc[i].text.claim # None
  /\ clock \in Nat /\ torn \in BOOLEAN /\ cut \subseteq Notes /\ setup \in Setups

\* Temporal authority (design decision D5, "only the latest value is current"):
\* outside an upsert, no row but the newest is current and there is one newest
\* row, whatever the two ingesters interleave and however late an older note is
\* ingested. A deletion may leave none current, never an outdated one ("a MISSING
\* claim, never an orphaned/WRONG one", delete_document).
CurrentIsNewest ==
  ~torn /\ (\A i \in Ingesters : proc[i].at # "seal") =>
    \A r, q \in claims : r.current => q.from < r.from \/ q = r

\* With one ingester, which is what sync_lock is for, every claim has its document:
\* readers join the two, so that a row without one would silence the axis.
Sole == \E i \in Ingesters : setup.ingesters = {i}
ProvenanceLives ==
  Sole /\ (\A i \in Ingesters : proc[i].at # "declaim") =>
    \A r \in claims : r.path \notin cut => Stored(r.path)

\* ... and what is current is what its note said when it was last ingested, even
\* when rows of that note are superseded, overwritten or skipped as unchanged.
\* The exception is a note that no longer makes a claim: its row stays.
CurrentIsAsserted ==
  Sole /\ ~torn /\ (\A i \in Ingesters : proc[i].at = "idle") =>
    \A r \in claims : r.current /\ r.path \notin cut /\ Stored(r.path) =>
      docs[r.path].sha.claim \in {r.value, None}
==============================================================================

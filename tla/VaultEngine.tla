------------------------------ MODULE VaultEngine ------------------------------
(*****************************************************************************)
(* The write door of the drudge engine: `remember`, `forget` and the         *)
(* re-ingest cycle `sync` over the two stores they keep in step, the wiki    *)
(* files of the vault (the source of truth) and the Postgres rows derived    *)
(* from them (drudge/src/serve/mcp.rs, serve/scheduler.rs, ingest.rs,        *)
(* vault/remember.rs, vault/projection.rs).                                  *)
(*                                                                           *)
(* A step is what the code does between two points where another task or    *)
(* thread can act: an await, or a file-system call on another path.          *)
(*                                                                           *)
(* Abstractions:                                                             *)
(*  - a note is a model value; what the code compares of it (session,        *)
(*    topic, quality) is given by constant functions;                        *)
(*  - `fs::write` and one statement group on one document are one step;      *)
(*  - the three link queries of `project_note` return every related document *)
(*    (their LIMITs exceed MaxId here);                                      *)
(*  - frontmatter repair is left out: `remember` renders well-formed YAML.   *)
(*                                                                           *)
(* SettledUnlessGone, ShouldReplaceAnyDuplicate, TakenNever,                 *)
(* ReadFileSeenWhenIngested, ExtractGraphOnce, DuplicatePathsByTitle,        *)
(* PrunedNever and UnlockUnanswered are wrong on purpose: they show that the *)
(* properties can fail.                                                      *)
(*****************************************************************************)
EXTENDS Naturals

CONSTANTS
  Clients,    \* concurrent MCP requests the engine can be serving
  Syncer,     \* the scheduler task, or the request, that runs do_sync
  Nobody,     \* the holder of a free sync_lock
  MaxId,      \* bound: the highest wiki number a run allocates
  Notes,      \* curated notes callers hand to `remember`
  Absent,     \* no file, no row, or no note
  Blank,      \* content of a file that is allocated and not yet written
  Forgotten,  \* promise of a path whose note was deleted
  Session,    \* Session[n]: its omb_session_id, Absent if it has none
  Similar,    \* pairs of notes whose tokens probable_session_duplicate matches
  Event,      \* Event[n]: notes that share an id, or are similar, share an event
  Topic,      \* Topic[n]: notes of one topic share title and embedding
  Score,      \* Score[n]: the note_quality score
  Evidence,   \* Evidence[n]: the note_quality evidence signal
  Related,    \* pairs of notes the link queries connect
  VectorOn,   \* BORING_VECTOR: is there a Postgres store
  Limits      \* bounds: how many requests, forgets, crashes, ... a run has

Ids == 1..MaxId
Budgets == [requests: Nat, forgets: Nat, crashes: Nat, failures: Nat, cancels: Nat]

ASSUME ConstantsAssumption ==
  /\ MaxId \in Nat \ {0}
  /\ Syncer \notin Clients /\ Nobody \notin Clients \cup {Syncer}
  /\ Notes \cap {Absent, Blank, Forgotten} = {}
  /\ Absent # Blank /\ Absent # Forgotten
  /\ Score \in [Notes -> Nat]
  /\ Related \subseteq Notes \X Notes
  /\ \A n, m \in Notes :
       (Session[n] # Absent /\ Session[n] = Session[m]) \/ <<n, m>> \in Similar
         => Event[n] = Event[m]
  /\ VectorOn \in BOOLEAN
  /\ Limits \in Budgets

VARIABLES
  files,    \* files[p]: content of vault/wiki/wiki-<p>.md
  rows,     \* rows[p]: what Postgres holds for that path
  holder,   \* who holds sync_lock
  work,     \* locals of the code that runs under sync_lock
  req,      \* req[c]: where client c's request stands
  promise,  \* history: what the last reply about path p promised
  budget    \* what is left of Limits

vars == <<files, rows, holder, work, req, promise, budget>>

-------------------------------------------------------------------------------
(* Values *)

Contents == [note: Notes \cup {Absent, Blank}, rel: SUBSET Ids]
NoFile == [note |-> Absent, rel |-> {}]
Page(n) == [note |-> n, rel |-> {}]

Rows == [sha: Contents, chunks: Notes \cup {Absent}, graph: Notes \cup {Absent}]
NoRow == [sha |-> NoFile, chunks |-> Absent, graph |-> Absent]

Stages == {"off", "ingest", "store", "chunks", "graph", "purge", "prune", "link", "relink"}
Works == [stage: Stages, todo: SUBSET Ids, seen: SUBSET Ids, cur: 0..MaxId, buf: Contents]
NoWork == [stage |-> "off", todo |-> {}, seen |-> {}, cur |-> 0, buf |-> NoFile]

Places == {"idle", "scan", "rewrite", "near", "ids", "next", "create", "write",
           "ingest", "purge"}
Requests == [pc: Places, note: Notes \cup {Absent}, id: 0..MaxId, ids: SUBSET Ids]
Idle == [pc |-> "idle", note |-> Absent, id |-> 0, ids |-> {}]

OnDisk == {p \in Ids : files[p].note # Absent}
InStore == {p \in Ids : rows[p].sha.note # Absent}

Spend(what) == budget[what] > 0 /\ budget' = [budget EXCEPT ![what] = @ - 1]
Goto(c, place) == req' = [req EXCEPT ![c].pc = place]
Reply(c) == req' = [req EXCEPT ![c] = Idle]

-------------------------------------------------------------------------------
(* Rules of the dedup gate and of the projection *)

SameSession(n, p) ==
  files[p].note \in Notes /\ Session[n] # Absent /\ Session[files[p].note] = Session[n]

\* probable_session_duplicate: token overlap of two notes that have an id. It need
\* not be transitive, and does not ask whether the ids are of one session.
ProbableSession(n, p) ==
  /\ files[p].note \in Notes /\ Session[n] # Absent /\ Session[files[p].note] # Absent
  /\ <<n, files[p].note>> \in Similar

SameTitle(n, p) == files[p].note \in Notes /\ Topic[files[p].note] = Topic[n]
DuplicatePathsByTitle(n) == {p \in Ids : SameTitle(n, p)}
DuplicatePaths(n) ==
  {p \in Ids : SameSession(n, p) \/ ProbableSession(n, p) \/ SameTitle(n, p)}

\* nearest_document over the embedded chunks.
NearRows(n) == {p \in InStore : rows[p].chunks \in Notes /\ Topic[rows[p].chunks] = Topic[n]}

ReplaceMinDelta == 8
BetterThan(n, m) ==
  \/ Score[n] >= Score[m] + ReplaceMinDelta
  \/ Score[n] > Score[m] /\ Evidence[n] /\ ~Evidence[m]

ShouldReplaceAnyDuplicate(n, p) == BetterThan(n, files[p].note)

\* A note of the same session, or one that is similar, is replaced by a better one.
ShouldReplace(n, p) ==
  (SameSession(n, p) \/ ProbableSession(n, p)) /\ BetterThan(n, files[p].note)

\* One above every number in use, on disk or in the store: gaps are not filled.
NextId(used) ==
  CHOOSE n \in 1..(MaxId + 1) : (n = 1 \/ n - 1 \in used) /\ \A m \in used : m < n

\* What the three link queries answer for p: nothing unless p has a row.
Links(p) == {q \in InStore \ {p} : p \in InStore /\ <<rows[p].sha.note, rows[q].sha.note>> \in Related}

-------------------------------------------------------------------------------
(* remember *)

Init ==
  /\ files = [p \in Ids |-> NoFile]
  /\ rows = [p \in Ids |-> NoRow]
  /\ holder = Nobody
  /\ work = NoWork
  /\ req = [c \in Clients |-> Idle]
  /\ promise = [p \in Ids |-> Absent]
  /\ budget = Limits

Remember(c, n) ==
  /\ req[c].pc = "idle"
  /\ Spend("requests")
  /\ req' = [req EXCEPT ![c] = [Idle EXCEPT !.pc = "scan", !.note = n]]
  /\ UNCHANGED <<files, rows, holder, work, promise>>

\* check_duplicate, the scan of the wiki files: the first file that matches in any
\* of the three ways decides, in the order the directory lists them.
FindDuplicate(c) ==
  /\ req[c].pc = "scan"
  /\ \E p \in DuplicatePaths(req[c].note) :
       IF ShouldReplace(req[c].note, p)
       THEN req' = [req EXCEPT ![c] = [@ EXCEPT !.pc = "rewrite", !.id = p]]
       ELSE Reply(c)
  /\ UNCHANGED <<files, rows, holder, work, promise, budget>>

NoDuplicate(c) ==
  /\ req[c].pc = "scan"
  /\ DuplicatePaths(req[c].note) = {}
  /\ Goto(c, IF VectorOn THEN "near" ELSE "next")
  /\ UNCHANGED <<files, rows, holder, work, promise, budget>>

\* check_duplicate, after `llm.embed` answered: the nearest stored document.
ProbeStore(c) ==
  /\ req[c].pc = "near"
  /\ IF NearRows(req[c].note) # {} THEN Reply(c) ELSE Goto(c, "ids")
  /\ UNCHANGED <<files, rows, holder, work, promise, budget>>

\* all_doc_paths: the numbers Postgres still holds.
ReadStoreIds(c) ==
  /\ req[c].pc = "ids"
  /\ req' = [req EXCEPT ![c] = [@ EXCEPT !.pc = "next", !.ids = InStore]]
  /\ UNCHANGED <<files, rows, holder, work, promise, budget>>

PickId(c) ==
  LET n == NextId(OnDisk \cup req[c].ids) IN
  /\ req[c].pc = "next"
  /\ n \in Ids
  /\ req' = [req EXCEPT ![c] = [@ EXCEPT !.pc = "create", !.id = n, !.ids = {}]]
  /\ UNCHANGED <<files, rows, holder, work, promise, budget>>

\* allocate_wiki_path: O_CREAT | O_EXCL, on collision try the next number.
TakenNever(p) == FALSE
Taken(p) == files[p].note # Absent
Create(c) ==
  LET p == req[c].id IN
  /\ req[c].pc = "create"
  /\ \/ /\ Taken(p)
        /\ p < MaxId
        /\ req' = [req EXCEPT ![c].id = p + 1]
        /\ UNCHANGED <<files, promise>>
     \/ /\ ~Taken(p)
        /\ files' = [files EXCEPT ![p] = Page(Blank)]
        /\ promise' = [promise EXCEPT ![p] = IF @ = Forgotten THEN Absent ELSE @]
        /\ Goto(c, "write")
  /\ UNCHANGED <<rows, holder, work, budget>>

\* fs::write of the rendered note, to a fresh path or over the duplicate.
\* Without a store the reply follows at once.
WriteNote(c) ==
  LET p == req[c].id
      n == req[c].note
  IN
  /\ req[c].pc \in {"write", "rewrite"}
  /\ files' = [files EXCEPT ![p] = Page(n)]
  /\ promise' = [promise EXCEPT ![p] = IF VectorOn THEN Absent ELSE n]
  /\ IF VectorOn THEN Goto(c, "ingest") ELSE Reply(c)
  /\ UNCHANGED <<rows, holder, work, budget>>

\* finish_remembered_note takes sync_lock, then ingests and links one path.
LockForIngest(c) ==
  /\ req[c].pc = "ingest"
  /\ holder = Nobody
  /\ holder' = c
  /\ work' = [NoWork EXCEPT !.stage = "ingest", !.todo = {req[c].id}]
  /\ UNCHANGED <<files, rows, req, promise, budget>>

-------------------------------------------------------------------------------
(* forget *)

\* Callers name a note they were shown, so the file has content. The file goes
\* before the lock is taken.
Forget(c, p) ==
  /\ req[c].pc = "idle"
  /\ files[p].note \in Notes
  /\ Spend("forgets")
  /\ files' = [files EXCEPT ![p] = NoFile]
  /\ promise' = [promise EXCEPT ![p] = Forgotten]
  /\ IF VectorOn
     THEN req' = [req EXCEPT ![c] = [Idle EXCEPT !.pc = "purge", !.id = p]]
     ELSE Reply(c)
  /\ UNCHANGED <<rows, holder, work>>

LockForPurge(c) ==
  /\ req[c].pc = "purge"
  /\ holder = Nobody
  /\ holder' = c
  /\ work' = [NoWork EXCEPT !.stage = "purge"]
  /\ UNCHANGED <<files, rows, req, promise, budget>>

\* delete_document, then project_links over the whole vault.
Purge ==
  /\ work.stage = "purge"
  /\ rows' = [rows EXCEPT ![req[holder].id] = NoRow]
  /\ work' = [NoWork EXCEPT !.stage = "link", !.todo = OnDisk]
  /\ UNCHANGED <<files, holder, req, promise, budget>>

-------------------------------------------------------------------------------
(* sync, and the steps it shares with remember under sync_lock *)

\* do_sync walks the wiki directory once.
BeginSync ==
  /\ VectorOn
  /\ holder = Nobody
  /\ holder' = Syncer
  /\ work' = [NoWork EXCEPT !.stage = "ingest", !.todo = OnDisk, !.seen = OnDisk]
  /\ UNCHANGED <<files, rows, req, promise, budget>>

\* ingest_file reads one file and compares digests. Unreadable, unchanged and
\* empty files need nothing more.
SettledUnlessGone(p) == files[p].note = Absent \/ rows[p].sha = files[p]
Settled(p) == files[p].note \in {Absent, Blank} \/ rows[p].sha = files[p]
ReadFileSeenWhenIngested ==
  /\ work.stage = "ingest"
  /\ \E p \in work.todo :
       work' = IF Settled(p)
               THEN [work EXCEPT !.todo = @ \ {p}, !.seen = @ \ {p}]
               ELSE [work EXCEPT !.todo = @ \ {p}, !.cur = p, !.buf = files[p], !.stage = "store"]
  /\ UNCHANGED <<files, rows, holder, req, promise, budget>>
ReadFile ==
  /\ work.stage = "ingest"
  /\ \E p \in work.todo :
       work' = IF Settled(p)
               THEN [work EXCEPT !.todo = @ \ {p}]
               ELSE [work EXCEPT !.todo = @ \ {p}, !.cur = p, !.buf = files[p], !.stage = "store"]
  /\ UNCHANGED <<files, rows, holder, req, promise, budget>>

\* All chunks are embedded, then the document row and its digest are stored.
StoreDocument ==
  /\ work.stage = "store"
  /\ rows' = [rows EXCEPT ![work.cur].sha = work.buf]
  /\ work' = [work EXCEPT !.stage = "chunks"]
  /\ UNCHANGED <<files, holder, req, promise, budget>>

StoreChunks ==
  /\ work.stage = "chunks"
  /\ rows' = [rows EXCEPT ![work.cur].chunks = work.buf.note]
  /\ work' = [work EXCEPT !.stage = "graph"]
  /\ UNCHANGED <<files, holder, req, promise, budget>>

\* The extractor: edges, tools, concepts and (embedded one by one) claims.
ExtractGraphOnce ==
  /\ work.stage = "graph"
  /\ rows' = [rows EXCEPT ![work.cur].graph = IF @ = Absent THEN work.buf.note ELSE @]
  /\ work' = [work EXCEPT !.stage = "ingest", !.cur = 0, !.buf = NoFile]
  /\ UNCHANGED <<files, holder, req, promise, budget>>
ExtractGraph ==
  /\ work.stage = "graph"
  /\ rows' = [rows EXCEPT ![work.cur].graph = work.buf.note]
  /\ work' = [work EXCEPT !.stage = "ingest", !.cur = 0, !.buf = NoFile]
  /\ UNCHANGED <<files, holder, req, promise, budget>>

EndIngest ==
  /\ work.stage = "ingest"
  /\ work.todo = {}
  /\ work' = IF holder = Syncer
             THEN [work EXCEPT !.stage = "prune"]
             ELSE [work EXCEPT !.stage = "link", !.todo = {req[holder].id}]
  /\ UNCHANGED <<files, rows, holder, req, promise, budget>>

\* Rows whose file the walk did not see are removed.
PrunedNever == {}
Pruned == InStore \ work.seen
Prune ==
  /\ work.stage = "prune"
  /\ rows' = [p \in Ids |-> IF p \in Pruned THEN NoRow ELSE rows[p]]
  /\ work' = [NoWork EXCEPT !.stage = "link", !.todo = OnDisk]
  /\ UNCHANGED <<files, holder, req, promise, budget>>

\* project_note reads the file; a file that is gone ends the whole pass.
ReadForLinks ==
  /\ work.stage = "link"
  /\ \E p \in work.todo :
       work' = CASE files[p].note = Absent -> [work EXCEPT !.todo = {}]
                 [] files[p].note = Blank -> [work EXCEPT !.todo = @ \ {p}]
                 [] OTHER -> [work EXCEPT !.todo = @ \ {p}, !.cur = p, !.buf = files[p],
                                          !.stage = "relink"]
  /\ UNCHANGED <<files, rows, holder, req, promise, budget>>

\* ... and, the link queries answered, writes back what it read with new links.
WriteLinks ==
  LET p == work.cur
      linked == [work.buf EXCEPT !.rel = Links(p)]
  IN
  /\ work.stage = "relink"
  /\ files' = IF Links(p) = {} \/ linked = work.buf
              THEN files ELSE [files EXCEPT ![p] = linked]
  /\ work' = [work EXCEPT !.stage = "link", !.cur = 0, !.buf = NoFile]
  /\ UNCHANGED <<rows, holder, req, promise, budget>>

\* The guard is dropped and the request answered; `remembered` is a promise.
UnlockUnanswered ==
  /\ holder' = Nobody
  /\ work' = NoWork
  /\ UNCHANGED req
Unlock ==
  /\ holder' = Nobody
  /\ work' = NoWork
  /\ IF holder \in Clients THEN Reply(holder) ELSE UNCHANGED req

Finish ==
  /\ work.stage = "link"
  /\ work.todo = {}
  /\ promise' = IF holder \in Clients /\ req[holder].pc = "ingest"
                THEN [promise EXCEPT ![req[holder].id] = req[holder].note]
                ELSE promise
  /\ Unlock
  /\ UNCHANGED <<files, rows, budget>>

-------------------------------------------------------------------------------
(* Failures *)

\* An embed or a statement fails. sync counts the note as failed and goes on,
\* remember answers with the error.
IngestFails ==
  /\ work.stage \in {"store", "chunks", "graph"}
  /\ Spend("failures")
  /\ IF holder = Syncer
     THEN /\ work' = [work EXCEPT !.stage = "ingest", !.cur = 0, !.buf = NoFile]
          /\ UNCHANGED <<holder, req>>
     ELSE Unlock
  /\ UNCHANGED <<files, rows, promise>>

\* delete_document fails: forget answers with the error, sync gives up the cycle.
DeleteFails ==
  /\ work.stage \in {"purge", "prune"}
  /\ Spend("failures")
  /\ Unlock
  /\ UNCHANGED <<files, rows, promise>>

\* A link query fails: the pass ends, its caller ignores the error.
LinksFail ==
  /\ work.stage = "relink"
  /\ Spend("failures")
  /\ work' = [NoWork EXCEPT !.stage = "link"]
  /\ UNCHANGED <<files, rows, holder, req, promise>>

\* The client gives up and its handler is dropped at an await point.
Cancel(c) ==
  /\ req[c].pc \in {"near", "ids", "ingest", "purge"}
  /\ Spend("cancels")
  /\ Reply(c)
  /\ IF holder = c THEN holder' = Nobody /\ work' = NoWork ELSE UNCHANGED <<holder, work>>
  /\ UNCHANGED <<files, rows, promise>>

\* A caller of /sync or of the sync tool does the same in the middle of a cycle.
CancelSync ==
  /\ holder = Syncer
  /\ Spend("cancels")
  /\ Unlock
  /\ UNCHANGED <<files, rows, promise>>

\* The process dies; files and rows survive, and startup runs a sync.
Crash ==
  /\ holder # Nobody \/ \E c \in Clients : req[c].pc # "idle"
  /\ Spend("crashes")
  /\ holder' = Nobody
  /\ work' = NoWork
  /\ req' = [c \in Clients |-> Idle]
  /\ UNCHANGED <<files, rows, promise>>

-------------------------------------------------------------------------------
ClientStep(c) ==
  \/ FindDuplicate(c) \/ NoDuplicate(c) \/ ProbeStore(c) \/ ReadStoreIds(c)
  \/ PickId(c) \/ Create(c) \/ WriteNote(c)

LockedStep ==
  \/ ReadFile \/ StoreDocument \/ StoreChunks \/ ExtractGraph \/ EndIngest
  \/ Purge \/ Prune \/ ReadForLinks \/ WriteLinks \/ Finish

Fault ==
  \/ IngestFails \/ DeleteFails \/ LinksFail \/ CancelSync \/ Crash
  \/ \E c \in Clients : Cancel(c)

Next ==
  \/ \E c \in Clients, n \in Notes : Remember(c, n)
  \/ \E c \in Clients, p \in Ids : Forget(c, p)
  \/ \E c \in Clients : ClientStep(c) \/ LockForIngest(c) \/ LockForPurge(c)
  \/ BeginSync
  \/ LockedStep
  \/ Fault

Spec == Init /\ [][Next]_vars

\* Handlers and the lock holder keep running; tokio's mutex is FIFO, so a waiter
\* that finds the lock free again and again gets it; the scheduler's ticker
\* starts a cycle again and again.
Fairness ==
  /\ \A c \in Clients : WF_vars(ClientStep(c))
  /\ \A c \in Clients : SF_vars(LockForIngest(c)) /\ SF_vars(LockForPurge(c))
  /\ SF_vars(BeginSync)
  /\ WF_vars(LockedStep)

FairSpec == Spec /\ Fairness

-------------------------------------------------------------------------------
(* Properties *)

\* Type invariant: every variable has its type.
TypeOK ==
  /\ files \in [Ids -> Contents]
  /\ rows \in [Ids -> Rows]
  /\ holder \in Clients \cup {Syncer, Nobody}
  /\ work \in Works
  /\ req \in [Clients -> Requests]
  /\ promise \in [Ids -> Notes \cup {Absent, Forgotten}]
  /\ budget \in Budgets

Unspent(what) == budget[what] = Limits[what]
Faultless == Unspent("crashes") /\ Unspent("failures") /\ Unspent("cancels")

\* O_EXCL allocation (vault/remember.rs): as long as nothing was forgotten, between
\* the create and the write of a fresh note its file is still the empty one this
\* request created, and no other request is about to write to it. (A link pass may
\* write a forgotten note back into a path that was given out again.)
FreshPathIsOwned ==
  Unspent("forgets") =>
    \A c \in Clients : req[c].pc = "write" =>
      /\ files[req[c].id].note = Blank
      /\ \A d \in Clients \ {c} : req[d].pc = "write" => req[d].id # req[c].id

\* As long as nothing was forgotten, a path that holds an acknowledged note never
\* comes to hold a note of another event: replacements and link rewrites, which
\* write what was read before an await, stay within it. An event is wider than a
\* session: it takes in every note a chain of similarity matches leads to, and a
\* similar note of another session may replace the acknowledged one.
PathKeepsEvent ==
  Unspent("forgets") =>
    \A p \in Ids : promise[p] \in Notes =>
      files[p].note \in Notes /\ Event[files[p].note] = Event[promise[p]]

\* ... and the event becomes searchable, the chunks of its path those of the note or
\* of one it replaced: up to the first fault an acknowledged note is found, and what
\* is found once is found after every further step, the faults included, as long as
\* nothing is forgotten. A note acknowledged after a fault may have no chunks: the
\* digest of an ingest that a crash cut short settles it, when a slower request put
\* the same bytes back.
Searchable(p) ==
  /\ files[p].note \in Notes /\ rows[p].chunks \in Notes
  /\ Event[rows[p].chunks] = Event[files[p].note]
PromisesSearchable ==
  Faultless /\ Unspent("forgets") /\ VectorOn =>
    \A p \in Ids : promise[p] \in Notes => Searchable(p)
EventStaysSearchable ==
  /\ []PromisesSearchable
  /\ [][Unspent("forgets")' => \A p \in Ids : Searchable(p) => Searchable(p)']_<<files, rows, budget>>

\* prune (ingest.rs) drops a row only when its file is gone, or when a request
\* that rewrote the file since the walk is still going to ingest it, as long as no
\* request was cancelled: a cancelled one leaves its note to the next sync.
PruneSparesLiveNotes ==
  Unspent("cancels") /\ work.stage = "prune" =>
    \A p \in Pruned : files[p].note \in Notes =>
      \E c \in Clients : req[c].pc = "ingest" /\ req[c].id = p

\* ingest.rs skips a file whose digest is stored because its graph is "already
\* built". Up to the first fault that is so, however requests and syncs overlap:
\* outside an ingest of that path, a stored digest implies stored chunks and a
\* built graph of the same note. After a fault it need not be.
DigestMeansIndexed ==
  Faultless =>
    \A p \in InStore : p # work.cur =>
      rows[p].chunks = rows[p].sha.note /\ rows[p].graph = rows[p].sha.note

\* The dedup gate (mcp.rs, check_duplicate): a session is distilled into one note,
\* when requests come one at a time, similarity does not match notes of different
\* sessions (see SessionGoesFirst) and no request is cancelled after a forget: a
\* sync in its link pass writes back a note forgotten under it, which the cancelled
\* request no longer keeps from being remembered under a second path.
NoForgetAbandoned == Unspent("cancels") \/ Unspent("forgets")
SimilarOfOneSession == \A n, m \in Notes : <<n, m>> \in Similar => Session[n] = Session[m]
OneNotePerSession ==
  NoForgetAbandoned /\ SimilarOfOneSession =>
    \A p, q \in Ids :
      files[p].note \in Notes /\ files[q].note \in Notes /\ p # q =>
        Session[files[p].note] = Absent \/ Session[files[p].note] # Session[files[q].note]

\* mcp.rs:1410-1414: the gate "Checks, in order: 1. Same `omb_session_id` already
\* stored (same session distilled twice). 2. Stack-free session-note similarity".
\* So a scan that decides to replace a file replaces the one of its own session,
\* if that is stored. (It does not: the directory's order decides, and a similar
\* note of another session is overwritten.)
SessionGoesFirst ==
  [][\A c \in Clients, p \in Ids :
       req[c].pc = "scan" /\ req'[c].pc = "rewrite" /\ SameSession(req[c].note, p)
         => SameSession(req[c].note, req'[c].id)]_req

\* Every request is answered or abandoned: nobody waits for sync_lock for ever.
RequestsReturn == \A c \in Clients : req[c].pc # "idle" ~> req[c].pc = "idle"

\* The store is derived from the vault (design decision D7): once requests and
\* faults stop, syncs make the digest stored for every written note that of its
\* file, links included, and leave no row without a file. When there was no fault
\* the chunks and the graph are that note's too. (After one they may be missing for
\* good: an ingest cut short behind its digest is never taken up again.)
Mirrored ==
  \A p \in Ids : IF files[p].note \in Notes
                 THEN /\ rows[p].sha = files[p]
                      /\ Faultless => rows[p].chunks = files[p].note
                                      /\ rows[p].graph = files[p].note
                 ELSE files[p].note = Absent => p \notin InStore
EventuallyMirrored == <>[]Mirrored

===============================================================================

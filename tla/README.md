# A formal model of oh-my-boring

oh-my-boring keeps a second memory for coding agents. When a session of an agent
ends, a hook *distills* its transcript with a local LLM into a note and hands it to
the engine, `drudge`, which writes it to a vault of markdown files and derives a
Postgres index from them: chunks with embeddings, a graph, and temporal claims.
Agents ask the engine what they knew. This directory holds TLA+ models of the
parts of it that run concurrently, fail halfway or must survive a crash, TLC
configurations that check them on small instances, and TLAPS proofs of the
invariants that matter most, for every value of the constants.

Contents:
[1 the system](#1-the-system) ·
[2 modules](#2-modules) ·
[3 the write door](#3-the-write-door-vaultengine) ·
[4 claims](#4-temporal-claims-claimstore) ·
[5 the session queue](#5-the-session-queue-sessionmarkers-sessionqueue) ·
[6 the collector lock](#6-the-collector-lock-collectorlock) ·
[7 the code index](#7-the-code-index-codeparser-codeindex-codemirror) ·
[8 recall without a database](#8-recall-without-a-database-wikiindex) ·
[9 briefings](#9-briefings-brieftext-ledger-briefings) ·
[10 graph and answers](#10-graph-and-answers-memorygraph) ·
[11 runs](#11-runs) ·
[12 fairness](#12-fairness) ·
[13 proofs](#13-proofs) ·
[14 findings and known limits](#14-findings-and-known-limits) ·
[15 not modelled](#15-not-modelled)

## 1 The system

Paths are relative to `src/`. "Hard" names the behaviour that tests hardly reach.

| component | where | state | operations | hard |
|---|---|---|---|---|
| write door | `drudge/src/serve/mcp.rs`, `serve/scheduler.rs`, `vault/`, `ingest.rs` | wiki files (the source of truth), Postgres rows, `sync_lock` | `remember`, `forget`, `sync` (ingest, prune, link pass) | handlers interleave at every await; only part of each runs under the lock; crash, failed step, dropped request |
| temporal claims | `drudge/src/store.rs`, `ingest.rs` | `claim` table: value, note, `valid_from`, `superseded_at` | upsert (3 statements), delete, skip if unchanged | statements of two ingesters interleave; ingest order is not time order; half an upsert |
| session markers and Claude queue | `agents/shared/markers.py`, `agents/claude-code/`, `agents/schedulers/collect-sessions.py`, `agents/hermes/ingest-worker.py` | `.ts`, `.pending`, `.retry`, `.dead` files per session | mark done / retry / pending, scan, reconcile, offer | three programs, no lock, transitions of several file operations; time-outs; TTLs |
| Codex collector lock | `agents/codex/collect-sessions.py` | one lock file | acquire, reclaim, release | host and container pids; crash of the holder; TTL; races of reclaims |
| Kimi collector | `agents/schedulers/collect-kimi-sessions.py` | markers | scan, distill | a time-out that leaves no marker |
| distill pipeline | `agents/shared/distill_core.py`, `workflow_contract.py`, `drudge/src/workflow.rs` | none of its own | read, redact, distill, gate, remember | which failures are retried; stages out of order |
| uptake ledger | `agents/shared/uptake_core.py` | one JSONL file for all sessions | append, load, prune by rewriting | buffered writes against the end of the flock; readers without a lock |
| verdicts, labels | `verdict_core.py`, `label_core.py`, `resolution_quality.py` | derived counts | pure functions | windows and rates at zero |
| retention | `scripts/retention.py` | transcripts, archives | plan, apply | markers change between plan and apply |
| wiki recall index | `drudge/src/wiki_recall.rs` | cache keyed by mtime | refresh, search | two writes within one mtime; stat before read |
| code index | `drudge/src/code_index*` | files, symbols, hashes per repository | sync, replace, search | overlapping syncs; hashes read outside the transaction |
| event log | `agents/shared/event_log.py`, `serve/http.rs` | spool file, event table | emit, spool, drain | an answer after the time-out |
| semantic graph | `drudge/src/graph.rs`, `store.rs` | nodes, edges | upsert, sweep | sweep beside ingest |
| health flag | `drudge/src/serve.rs` | last observed state, for a line of the log | probe, swap | nothing |
| scheduler | `drudge/src/serve/scheduler.rs` | timers | startup sync, periodic sync, compact, brief | check, long LLM call, write |
| readers | `ask.rs`, `retrieve.rs`, `llm.rs`, `serve/http.rs`, `serve/mcp.rs` | none | ask, search, recall, briefings, reports, registers | several queries of a store that changes; what is made of the text of a model |
| text functions | `frontmatter.rs`, chunker, `redact.rs`, `pii.rs`, `config.rs` | none | parse, chunk, scrub | boundaries |
| operations | `scripts/`, `agents/shared/agent_wiring.py`, senders of briefings | files of other tools | install, backup, doctor | run by hand |

How they interact: hooks and collectors decide through **marker files** whether a
transcript is still to be distilled, and call **remember** over HTTP; collectors of
one kind exclude each other through the **lock file**. `remember`, `forget`, the
scheduler's `sync` and a `/sync` caller share the **vault directory**, **Postgres**
and one tokio mutex, **sync_lock**, which covers the ingest of a note but neither the
dedup check, nor the allocation of its path, nor the write of its file. The ingest of
a note derives its chunks, graph and **claims**. Recall reads the files or the rows; a
briefing, a report or an answer is several queries, one after the other, of tables that
`remember`, `sync` and the daily compaction change in between. The **code index** is a
corpus of its own, filled by a command that the maintenance schedule and people start.

What makes each modelled component correct:

- *write door*: what was acknowledged stays on disk and searchable, as that note or a
  better one of the same event; a fresh file belongs to the request that made it; prune
  spares live notes; without faults a stored digest means a complete index; one client
  gives a session one note, if similarity matches no notes of two sessions; digests and
  rows come back to the vault after any fault, chunks and graph if there was none; every
  request ends.
- *claims*: outside an upsert only the newest row of an axis is current; a claim has
  a document; the current claim is what its note says.
- *queue*: done means remembered or judged not worth it; markers do not contradict
  each other; a session that fails each time does not keep others from being settled.
- *lock*: one run at a time unless a lock was just reclaimed; whatever crashes, the queue
  drains, or is blocked by a lock that never got its text.
- *code index*: the rows of a file are those of one text of it; a sync no other crossed
  leaves a picture of the directory; identifiers neither clash nor wander; it catches up.
- *wiki index*: an answer is of the vault as it was during the request, and misses
  nothing that was there throughout.
- *briefings*: the note of a day is written once; every section gets its claims; nothing a
  report answers for is denied while it is there; the text keeps what the model said where
  it was said.
- *graph*: an edge has its nodes, whatever is swept; the graph of a document is what its
  note says; of the chunks the two searches come to, the best are the hits.

## 2 Modules

| module | what it is | composed with |
|---|---|---|
| `VaultEngine` | write door, both stores, sync_lock | — |
| `ClaimStore` | the claim table, statement by statement | — |
| `SessionMarkers` | marker files and their transitions as lists of file operations | — |
| `SessionQueue` | hook, collector and hermes worker | extends `SessionMarkers` |
| `CollectorLock` | lock file of the Codex collectors | — |
| `CodeParser` | symbols, relations and identifiers of a syntax tree | — |
| `CodeIndex` | `code-sync` of several repositories | extends `CodeParser`, implements `CodeMirror` |
| `CodeMirror` | abstract: a mirror of a directory that changes all at once | — |
| `WikiIndex` | the in-memory index over the files | — |
| `BriefText` | what becomes of the text of a briefing | — |
| `Ledger` | documents and claims, and the queries that choose from them | — |
| `Briefings` | the scheduler's briefing, and the reports clients ask for | extends `BriefText`, `Ledger` |
| `MemoryGraph` | nodes, edges, the sweep, and the answers made from them | — |
| `VaultEngineProofs`, `ClaimStoreProofs`, `SessionQueueProofs`, `CollectorLockProofs`, `CodeIndexProofs`, `WikiIndexProofs`, `BriefingsProofs`, `MemoryGraphProofs` | theorems about the module (section 13) | extend the module |
| `MC*` | instances for TLC: constants and scenarios | extend the module |

Each module takes its bounds from a constant (`Limits`, `Scenarios`, `Budgets`), of which
the initial state picks one where there are several, so that one run covers instances of
different shape. The proofs do not depend on them.

What is left, in this order:

1. `UptakeLedger`: append with a buffer that is flushed at `close`, after the lock was
   released (`uptake_core.py:158-175`), load without a lock, prune by truncation.
2. `EventSpool`: an event stored after the client's time-out is spooled as well.
3. `Retention` over `SessionMarkers`.
4. An abstract *vault* (a map from events to their best note), implemented by
   `VaultEngine` without forgets and with one client; an abstract *lock*.
5. Liveness stays with TLC; of safety, what the hypotheses of section 13 leave open.

## 3 The write door: `VaultEngine`

State: `files` (note and `relates_to` links of each wiki path), `rows` (digest, chunks
and graph of its row in Postgres), `holder` and `work` (who holds `sync_lock`, and the
local variables of the code under it), `req` (where each client's request stands),
`promise` (history: what the last reply said of a path), `budget`.

| action | code |
|---|---|
| `Remember`, `FindDuplicate`, `NoDuplicate`, `ProbeStore` | `parse_remember_note`, `check_duplicate`: scan of the directory, then the embedding probe; a duplicate is replaced or the note is skipped |
| `ReadStoreIds`, `PickId`, `Create` | `all_doc_paths`, `next_wiki_id`, `allocate_wiki_path` with its `create_new` loop |
| `WriteNote`, `LockForIngest` | write of the file; `sync_lock.lock()` in `finish_remembered_note` |
| `Forget`, `LockForPurge`, `Purge` | `mcp_forget`: the file goes first, then the lock, then the row |
| `BeginSync`, `ReadFile`, `StoreDocument`, `StoreChunks`, `ExtractGraph`, `EndIngest`, `Prune` | `do_sync`: `run_with` over the listed files, then the rows that were not seen |
| `ReadForLinks`, `WriteLinks`, `Finish`, `Unlock` | `project_links` / `project_note`: read, three queries, write back |
| `IngestFails`, `DeleteFails`, `LinksFail`, `Cancel`, `CancelSync`, `Crash` | error paths, a handler dropped with its connection, the end of the process |

Steps end where another task can act: at an await, or at a file operation on a path
another thread uses. Notes are model values, compared through the constants `Session`,
`Similar`, `Topic`, `Score` and `Evidence`, which are all the code compares. With
`VectorOn = FALSE` the store is absent and the replies follow the write; the runs use
TRUE, the proofs hold for both.

The dedup gate has two notions of "the same". `SameSession` is equality of
`omb_session_id`; `ProbableSession` is the overlap of tokens that
`probable_session_duplicate` measures, which is not transitive and does not ask whether
the two ids are equal. `check_duplicate` reads the files one by one, in the order of the
directory, and tries the id, the similarity and the title on each before it goes on: any
file that matches in any way can be the one that decides (`DuplicatePaths`), and if it
matches by id or by similarity a better note replaces it. So a similar note of another
session can be replaced while the session has a note of its own, and then it has two
(`SessionGoesFirst`, finding 3).

What replacements do keep is therefore wider than a session. `Event` is any labelling
of the notes that gives one label to notes of one id and to similar ones; the finest of
them follows chains of similarity. The properties say:

- `PathKeepsEvent`: until a note is forgotten, a path that was acknowledged never comes to
  hold a note of another event. The link pass writes back text it read several awaits
  before, and `remember` overwrites files outside the lock; what they overwrite is of the
  same event.
- `EventStaysSearchable`: until the first fault an event that was acknowledged can be
  found, and, faults or not, one that can be found stays so, as long as nothing is
  forgotten. That the reply's "recallable now" stays true of the very note is a stronger
  promise, which the code does not keep (section 14).
- `FreshPathIsOwned`: until a note is forgotten, a file between its allocation and its
  first write is empty and of one request.
- `PruneSparesLiveNotes`: prune works from a listing taken before the pass; up to the first
  cancelled request, a live note that it drops is about to be put back.
- `DigestMeansIndexed`: up to the first fault, a digest by which ingest skips a file means
  chunks and graph of that note, however requests and syncs overlap. What a fault in
  between costs is in section 14.
- `OneNotePerSession`: for one client, unless similarity matches notes of two sessions or
  a forget is abandoned.
- `EventuallyMirrored`: once requests and faults stop, the digest stored for each note is
  that of its file and no row is without a file; the chunks and the graph are its own, too,
  if there was no fault.

`MCVaultEngine` has three instances: two clients, where `better` is similar to the draft
of another session (`engine_crash`); one client, where the similar notes are of one
session (`engine_recover`); and one client, where they are of two and one of these has a
note of its own (`dedup_order`).

## 4 Temporal claims: `ClaimStore`

State: `files`, `docs` (digest and `updated_at`), `claims` (a set of rows), `proc` (each
ingester's place and locals), `missed` (which notes a listing of the vault can lack), a
`clock` of writes, and two history variables: `torn`, an upsert was cut short before
its seal, and `cut`, the notes whose last ingest or delete was cut short.

| action | code |
|---|---|
| `Write`, `Remove` | any writer of the vault; the link pass writes a new text with the old claim |
| `Read`, `Stat`, `Digest`, `Touch`, `StoreDocument` | `ingest_file_with`: text, then mtime, `get_doc_sha`, `set_updated_at` or `upsert_document` |
| `Extract`, `Probe` | `doc_updated_at` (now, if the row is gone) and `claim_is_unchanged` |
| `Insert`, `Seal`, `Unseal` | the three statements of `upsert_claim` |
| `Delete`, `Declaim` | the statements of `delete_document`, by prune or forget |
| `Abort` | any failure or crash between two statements |

One axis is enough since every statement is restricted to one `(subject, predicate)`;
one claim per note on it; a note without a chunkable body, which ends an ingest before
the digest is stored, is left out. A value stands for its kind and confidence, which
`claim_is_unchanged` compares with it.

`CurrentIsNewest` is the property design decision D5 asks for. It holds for any
interleaving of any number of ingesters (proved), because the seal and the unseal
recompute the newest row from the table instead of trusting the caller. D5 asks
reviewers to keep the order "seal → insert"; the code inserts first and seals then
(`store.rs:864-896`), so that two rows, rather than none, are current in between.
`ProvenanceLives` needs one ingester: the command line (`drudge ingest`, `main.rs:286`)
takes no lock, and if it deletes a document while the engine is about to insert its
claims, rows stay behind that no later prune finds.
`CurrentIsAsserted` covers what makes re-ingests delicate: rows skipped as unchanged,
rows with the key of an earlier one (the text of a note is read before its mtime), old
rows coming back. It exempts notes that make no claim any more
(section 14).

## 5 The session queue: `SessionMarkers`, `SessionQueue`

`SessionMarkers` gives each transition of `markers.py` as the list of file operations
the code performs, in its order: the target is written first, the other markers are
unlinked one at a time. `SessionQueue` runs three programs over them, each operation a
step: the *hook* that Claude Code starts at the end of a session, the *backfill*
collector that runs the same hook for the newest session without a marker, under a
time-out, and the *hermes* worker whose tick reconciles pending sessions and offers the
oldest eligible one to an agent.

| action | code |
|---|---|
| `SessionEnds`, `Distill`, `Mark`, `TimeOut` | `distill-session.py`: `main`, `distill_and_remember`, the markers of its verdict; the collector's `subprocess` time-out |
| `Scan` | `collect-sessions.py`: newest session without a valid marker |
| `Tick`, `Reconcile`, `ListEligible`, `PassOver`, `Offer`, `EndTick` | `ingest-worker.py`: `_reconcile`, `_eligible`, the loop of `main` |
| `AgentActs` | the hermes agent, external: remembers with or without the session id, or does nothing |
| `Ages` | the TTL of `.pending` and `.retry` |

With the vector backend hermes confirms a session by the total chunk count, which any other
session can raise (and which reads -1 when `/audit` failed before the offer);
`DoneIsAccounted` is therefore stated for the wiki-first mode, and `EverySessionSettles`
too. A scenario has *slow* sessions, which no run distills within the time-out, and
*broken* ones, which fail each time. A broken session is dead-lettered and lets the older
ones pass, although its attempts are counted in a file that three programs rewrite and
remove; that is what `EverySessionSettles` shows. It names two exceptions: a session that a
slow one stays ahead of (`Blocked`), and one that hermes offers for ever, or that waits
behind such a one (`Offering`: an offer resets the count). A run that finds the write door
closed, `--now` and the Stop throttle change no marker. Also seen while modelling, and part
of the behaviour that is checked: `_eligible` does not look at `.dead`; `.pending` resets
the attempt count that `.retry` carried; an agent that answers SKIP leaves no trace;
`.dead` can coexist with `.retry` or `.pending` (`VerdictsExclude` says which pairs cannot
coexist). `TypeOK`, `DoneIsAccounted` and `VerdictsExclude` are proved for every instance.

## 6 The collector lock: `CollectorLock`

State: `lock` (is the file there, does it have its text yet, whose, older than the TTL,
still in use), `proc`, `done`, and `reclaimed`, a history variable that is true from a
reclaim until the runs it concerns have ended. The actions follow
`acquire_collector_lock` and `release_collector_lock` operation by operation: `Scan`,
`ReadLock`, `Reclaim`, `Create`, `Stamp`, `Work`, `CheckOwn`, `Release`. A pid tells a
collector something only within its own pid namespace (`Owner`).

`WorkersExclude` holds between reclaims. After one it can fail: two runs that have both
read the stale lock unlink one after the other, and the second removes the fresh lock of
the first. The code calls the lock "best-effort"; the model shows that this is the only
way it fails to exclude.

`QueueDrains` allows crashes at every step. One of them, between the creation of the lock
file and the write of its text, leaves a lock that no run can parse and none calls stale,
so that it blocks all of them: the property names it as its exception (`Wedged`).

## 7 The code index: `CodeParser`, `CodeIndex`, `CodeMirror`

`CodeParser` says what the walk of `parser.rs` makes of a syntax tree: symbols with the
names that qualify them, relations with the symbol around them, and the identifier of
each, which becomes its primary key. A file is its tree, listed in the order of the walk;
where the code counts equal nodes while it recurses, `Ordinal` counts those before. What the
file counts as errors are the nodes Tree-sitter could not parse and those it put in.

`CodeIndex` is the command. State: `disk` and `root` (the configured directories),
`file`, `symbols`, `relations`, `errors` (the tables), `sync` (where each run stands and
what it has read), `report` (the last one), and two history variables, `recent` and
`crossed`.

| action | code |
|---|---|
| `Begin`, `Onward` | `main.rs`: the enabled sources one after the other; an error ends the command |
| `Open`, `ReadSource` | `collect_repository`, file by file |
| `ReadHashes` | `existing_hashes` and `prepare_changed` |
| `Replace` | the transaction of `replace_repository`, with the cascades of the schema |
| `Fails` | an unreadable entry, a database that does not answer, a killed process |
| `Edit`, `MoveRoot` | external: a programmer, the file system |

`CodeMirror` is the promise to a reader, in three variables: the directory, what the
index stands for, and since when each sync has been looking. A sync that no other crossed
leaves each path as it was at some moment since it began; one that was crossed may keep or
drop a path, but invents nothing. `MirrorsRepository` says that `CodeIndex` implements it
under the mapping

| `CodeMirror` | `CodeIndex` |
|---|---|
| `source` | `disk[Last]` |
| `mirror` | `file[Last]` |
| `recent[s]` | `recent[s]` while `s` is at the last repository, else idle |
| `crossed` | the crossed runs that are at the last repository |

and `RowsFollowHashes` that the rows are those of the files `mirror` names; together they
are the promise of the tables. Both are proved. The last repository is the one that depends
on all the others: `EventuallyMirrored` needs every root before it to stay in place,
because one missing root ends the command.

## 8 Recall without a database: `WikiIndex`

With `BORING_VECTOR=off` the notes are scored in memory. State: `disk` and `there` (the
wiki directory), `index[i]` (the cache, and where a refresh stands), `clock`, and two
history variables: `lately`, what each note has been since the last listing, and
`unread`.

| action | code |
|---|---|
| `Begin`, `Stat`, `Read`, `ListingFails` | `WikiIndex::refresh`: the listing, the mtime, the read |
| `Search` | the end of `refresh` (`retain`) and `search`, with the best k |
| `Respond`, `Restart` | the answer of `/search` or `/ask`; the cache of `/ask` ends with it |
| `Save`, `Delete`, `Move` | external: editors, agents, a volume |

`HitsAreHonest` is the comment on `AppState::wiki_recall` made precise ("so this stays
honest, not stale"); what makes it delicate is that the mtime is taken before the read and
that a note may be replaced between the two. Assumptions: no two saves of one file share an
mtime (`SavesPerTick = 1`; with 2 the property fails, as it must for any cache keyed by
mtime, and so does `NothingBetterMissed`), under which it is proved (for a file that
`create_new` makes and `write` fills within one tick of the clock that is optimistic); and
the names are listed in one step. A note that is there but cannot be read is served as it
was last read. A request with a project does not look at its age, although the comment at
`wiki_recall.rs:223` names both filters.

## 9 Briefings: `BriefText`, `Ledger`, `Briefings`

`BriefText` is `coalesce_brief_answer`, the only place where the text of a model is put
into form: headings of one project are merged, bullets sorted by label, repeated and
placeholder bullets dropped. A line is a heading, a label or a bullet with what stands
before and behind its first sign; blanks inside names and texts are left out, and no bullet
is empty, since a line is trimmed before it is compared with `- `. `Ledger` has the
queries: which documents and claims they admit, how they order and limit them. Rows with
equal keys come in any order, so each query is a set of possible results. `NearestClaims`
is wider still: `current_claims` orders by distance over an HNSW index (`store.rs:456`) and
filters by project after the scan (`store.rs:1079-1088`), with the default `ef_search` of
40 and no iterative scan, so that claims of other projects can fill the scan; any subset of
the admitted claims, the empty one too, may come back. `Briefings` runs them, one query a
step, for the scheduler and for clients, against a store that changes in between.

| action | code |
|---|---|
| `Strike`, `Look`, `Create`, `Write` | `spawn_scheduler`, `run_brief`: the hour, the check, the file made and written |
| `QueryWindow`, `QueryReserved`, `QueryStalled` | `brief`: windows that widen, claims by kind within one budget, stalled claims |
| `QueryDocs`, `QueryClaims` | `weekly_brief`, `project_status`, the registers, `context_card`, `claims` |
| `Answered`, `Fail` | the model answers, panics on its answer, or fails twice; a query fails |
| `Request`, `Ask`, `Call`, `Respond` | the HTTP handlers and the tools |
| `Work`, `Forget` | external: what the write door does to documents and claims |
| `NextDay`, `ClockBack`, `Crash` | midnight; a clock that is set back; a restart |

A process is a record of where it stands; `steady` in it is history: the claims and
documents that have been there since its first query. Reading the code for this also
showed: an empty brief file that a crash leaves between `Create` and `Write` stops the
note of that day, while `/brief` makes its own; registers look at all origins; an empty
project reaches the tools `decisions`, `risks`, `next_actions` and `stalled` as a project
of that name, not as none; `next_actions` asks for `next` and `blocked` together, though
its comment calls the latter a fallback (`ask.rs:839`); a text without headings coalesces to
nothing.

`NothingLost` compares, line by line and without the scan of the code, what the answer and
the served text say of which project (`Remarks`); it promises this for no answer with
sub-headings (`Plainly`; section 14 has why). `NoticeMeansNothing` is about what a report
answers for (`Covers`): the claims or documents it queries exactly, but for `status` its
recent documents only, since the claims it looks for are the nearest ones.

## 10 Graph and answers: `MemoryGraph`

State: `row`, `chunk`, `node`, `edge`, `fact` (the store), `job` (what each worker is at,
as the list of its remaining statements), `asker`, and `whole`, history: no job on the
document was cut short since its last whole one.

| action | code |
|---|---|
| `Ingest`, `Delete`, `Execute` | `ingest_file_with` and `FrontmatterGraphExtractor::extract`, `delete_document`: statement by statement (`Script`) |
| `Compact` | `gc_orphans` under `sync_lock`; the vacuums change no row |
| `CutShort` | a statement fails, a request is dropped, the daemon dies |
| `Ask`, `Search`, `Recall`, `Neighbours` | the handlers and tools of these names |
| `SearchVectors`, `SearchNearest`, `SearchText`, `QueryLinked`, `QueryNeighbours`, `Respond` | `retrieve`, `retrieve_budget`, `answer`, `graph::query` |

Closeness gives each version a place of its own, the words of the question another to those
that have them. The search by words filters first and takes the best of what is left
(`Found`). The search by meaning is approximate: `chunk_hnsw` (`store.rs:409`) is scanned
with the default `ef_search` of 40 and no iterative scan, and the project is a filter on
what the scan came to (`store.rs:1284-1291`). It may miss any row, nearer chunks of other
projects may leave none, and more than 40 never come back, whatever `LIMIT` asks for; so
`Scanned` is any set of eligible rows within the limit. `BestAreHits` speaks of the rows
the scan came to and of those with the words: of these the best are the hits. Reciprocal
rank fusion is computed exactly, in fractions, and ties go either way. A `LIMIT` is a
choice of rows none of which comes after one that is left out (`Firsts`). The rows that
share concepts are found by counting, as the SQL does.

Also seen: `related_doc_content` does not apply the project, though `mcp.rs:293` says that
it restricts retrieval; `in_project` edges of an earlier project stay (the comment at
`store.rs:1112` says "regeneration"), which is why `GraphSaysNote` is about tools,
concepts and topics; the command-line ingest and `compact` take no `sync_lock`, so the
sweep may come between a node and its edge (`NodesOutliveEdges`, checked and proved, is
about the engine's own jobs); a recall whose share of text is nothing
answers nothing (`retrieve.rs:88-121`); the context of an answer is limited in bytes,
though the constant says characters, and its sources name hits that did not fit.

## 11 Runs

| run | properties | instance | shows |
|---|---|---|---|
| `engine_crash` | `TypeOK` `PathKeepsEvent` `FreshPathIsOwned` `PruneSparesLiveNotes` `DigestMeansIndexed` `EventStaysSearchable` | 2 clients (symmetric), 3 notes, two of them similar and of two sessions; 3 requests, 1 forget, 1 crash | what replies leave behind survives syncs, overlapping requests and a crash |
| `engine_recover` | `OneNotePerSession` `EventuallyMirrored` `RequestsReturn` | 1 client, 3 notes, two of them similar and of one session; 2 requests, 1 each of forget, crash, failed step, cancelled request | the dedup gate; digests and rows come back after faults; every request ends |
| `claims_current` | `TypeOK` `CurrentIsNewest` `ProvenanceLives` `CurrentIsAsserted` | 2 notes, 2 values; engine and command line with 2 writes; engine alone with 3 writes and 1 abort | supersession under interleaving and abort |
| `queue_settle` | `TypeOK` `DoneIsAccounted` `VerdictsExclude` `EverySessionSettles` | 8 scenarios of 1 or 2 sessions: some slow, some broken, or 1 end, 1 failure and 1 killed hook; any number of ticks; one with vectors | markers of three programs never clash, and only slow sessions and endless offers keep one from being settled |
| `lock_drains` | `TypeOK` `WorkersExclude` `QueueDrains` | 3 collectors in 2 namespaces, 2 sessions; 2 crashes anywhere, or 1 crash, 1 failure, 1 overrun | exclusion, and no starvation but by a lock without text |
| `code_sync` | `TypeOK` `KeysAreFresh` `RowsFollowHashes` `ReportMatchesStatus` `IdsSurviveEdits` `MirrorsRepository` `EventuallyMirrored` | 2 repositories, the daily run and one by hand; 2 edits, or 1 edit and 2 faults | the index implements `CodeMirror` and catches up |
| `recall_honest` | `TypeOK` `HitsAreHonest` `NothingBetterMissed` | a resident and a one-request index, 2 files, 3 texts, 3 changes | answers are of the vault as it was during the request |
| `briefs` | `TypeOK` `SectionsFed` `NothingLost` `WrittenOnce` `NoticeMeansNothing` `StalledShareSlots` | scheduler and 1 client, 3 documents, 5 claims in 9 ages, 4 replies, 2 days; 1 piece of work, or 1 crash and 1 clock set back | briefings and reports of a store that changes |
| `graph_answers` | `TypeOK` `NodesOutliveEdges` `GraphSaysNote` `BestAreHits` | 2 workers (symmetric), 3 documents, 4 versions; 4 jobs, 1 request of 5 kinds, 1 job cut short | the graph under sweeps, and what answers are made of |
| `brief_dies` | `MorningsBriefed` | the same, without faults | finding 1 |
| `graph_rebuild` | `ClaimsStayLinked` | 2 jobs | finding 2 |
| `dedup_order` | `SessionGoesFirst` | 1 client, 3 notes, similar ones of two sessions, 3 requests | finding 3 |

The last three end in a counterexample.

Why the bounds are enough. *Engine*: three paths let a replacement, a link and a fresh note
coexist; two clients and the syncer give every pair of overlapping operations, with a crash
at each point, and one client with the syncer one fault of each kind at each point. That
`FreshPathIsOwned` and `PathKeepsEvent` end at the first forget is needed there: without
that premise both fail. Every property has a mutation of the code that breaks it within the
bounds. *Claims*: two notes supersede each other; three writes let one change its mind and
back, which is what skipped and revived rows need; the engine alone was also run once with
four writes and an abort (10.9 million states), without a violation. *Queue*: one session
is enough for programs to race about its markers, two for one to be ahead of the other;
`MaxAttempts = 2` and `MaxTries = 1` are the least values with a retry, and a broken
session needs them both. *Lock*: two runs race for a stale lock, the third makes the lock
change hands meanwhile. *Code index*: a second repository makes the last one depend on the
first; two runs cross each other, and a third would be crossed by either in the same way;
two texts with repeated names and calls, one of them broken, are what the ordinals are
about. *Wiki index*: a save between a stat and its read, a deletion and a move each need
one change, three allow any two of them around a request; one hit of two notes makes the
order matter. *Briefings*: two windows, two reserves and two slots are the least for one to
be full and the next to matter; five claims let two notes compete for the slots; the second
day shows that the note of the first is gone. *Graph*: a note that is rewritten, one that
shares its terms and a foreign one that is nearest; four jobs write both, rewrite the first
and sweep.

`CHECK_DEADLOCK FALSE` stands where the system may stop: no session left to distill, no
note left to ingest within the bounds.

The definitions that a module's header calls wrong on purpose stand beside the
definition they mutate; putting one in its place makes the property named there fail.

## 12 Fairness

- `VaultEngine`: weak fairness of each client step and of the code under the lock (tokio
  tasks are polled until they end); strong fairness of the two lock acquisitions and of
  `BeginSync`, since `tokio::sync::Mutex` is FIFO and the scheduler's ticker queues again
  and again. None for clients' requests and for faults, which are bounded.
- `SessionQueue`: weak fairness of a running hook, of the kill of one that outlasts its
  time-out, of a hermes tick under way and of the TTL of `.pending`; strong fairness of
  the scheduled collector taking a session that is the head of its queue again and
  again. None for session ends, hermes ticks or the agent.
- `CollectorLock`: weak fairness of a started run, of time, and of the schedule of the
  canonical owner only; other collectors may never run.
- `CodeIndex`: weak fairness of a run that was started, and of the start of the daily one
  (`scripts/schedule-maintenance.sh:43-46`). None for runs by hand, edits and faults.
- `Briefings`: weak fairness of the hour, of midnight and of the scheduler's task. None for
  clients and faults.

`ClaimStore`, `WikiIndex` and `MemoryGraph` have safety properties only.

## 13 Proofs

| theorem | says | assuming |
|---|---|---|
| `VaultEngineProofs!TypeCorrect` | `TypeOK` | `ConstantsAssumption` |
| `VaultEngineProofs!FreshPathsOwned` | `FreshPathIsOwned`, until the first forget | `ConstantsAssumption` |
| `VaultEngineProofs!PathsKeepEvent` | `PathKeepsEvent`, until the first forget | `ConstantsAssumption` |
| `VaultEngineProofs!DigestsMeanIndexed` | `DigestMeansIndexed` until the first failure, crash or cancelled request | `ConstantsAssumption` |
| `VaultEngineProofs!PruneSpares` | `PruneSparesLiveNotes` until the first cancelled request | `ConstantsAssumption` |
| `VaultEngineProofs!EventsStaySearchable` | `EventStaysSearchable`, until the first forget | `ConstantsAssumption` |
| `VaultEngineProofs!OneNoteForASession` | `OneNotePerSession`, if similarity stays within sessions and no forget is abandoned | `Clients = {c}` |
| `ClaimStoreProofs!ClaimsTyped` | `TypeOK` | `ClaimAssumption` |
| `ClaimStoreProofs!NewestIsCurrent` | `CurrentIsNewest` | `ClaimAssumption` |
| `ClaimStoreProofs!ProvenanceStays` | `ProvenanceLives` | `ClaimAssumption` |
| `ClaimStoreProofs!CurrentStaysAsserted` | `CurrentIsAsserted` | `ClaimAssumption` |
| `CollectorLockProofs!LockTyped` | `TypeOK` | `LockAssumption` |
| `CollectorLockProofs!RunsExclude` | `WorkersExclude` | `LockAssumption` |
| `SessionQueueProofs!QueueTyped` | `TypeOK` | `MarkersAssumption`, `QueueAssumption` |
| `SessionQueueProofs!DoneMeansAccounted` | `DoneIsAccounted` | `MarkersAssumption`, `QueueAssumption` |
| `SessionQueueProofs!VerdictsNeverClash` | `VerdictsExclude` | `MarkersAssumption`, `QueueAssumption` |
| `CodeIndexProofs!RowsAreOfHashes` | `RowsFollowHashes` | `CodeAssumption` |
| `CodeIndexProofs!IndexMirrors` | `MirrorsRepository`, the refinement of `CodeMirror` | `CodeAssumption` |
| `CodeIndexProofs!IndexTyped` | `TypeOK` | `CodeAssumption` |
| `CodeIndexProofs!KeysStayFresh` | `KeysAreFresh` | `CodeAssumption` |
| `CodeIndexProofs!ReportsMatchStatus` | `ReportMatchesStatus` | `CodeAssumption` |
| `CodeIndexProofs!IdsStay` | `IdsSurviveEdits` | `CodeAssumption` |
| `WikiIndexProofs!HonestAnswers` | `HitsAreHonest` | `SavesPerTick = 1` |
| `WikiIndexProofs!RecallTyped` | `TypeOK` | `WikiAssumption` |
| `WikiIndexProofs!NothingBetterIsMissed` | `NothingBetterMissed` | `SavesPerTick = 1` |
| `BriefingsProofs!NoteWrittenOnce` | `WrittenOnce` | `BriefAssumption` |
| `BriefingsProofs!BriefsTyped` | `TypeOK` | `BriefAssumption` |
| `BriefingsProofs!EverySectionFed` | `SectionsFed` | reserves within the budget (`Sums(sum)`) |
| `BriefingsProofs!SlotsAreShared` | `StalledShareSlots` | `BriefAssumption` |
| `BriefingsProofs!NoticesAreHonest` | `NoticeMeansNothing`, claims of a status report aside | `Limited`: limits are not zero, what is tagged as a briefing is named so, no answer reads like the notice |
| `BriefingsProofs!NothingIsLost` | `NothingLost`, for answers without sub-headings | `BriefAssumption`, `TextAssumption` |
| `MemoryGraphProofs!NoDanglingEdge` | `NodesOutliveEdges` | `GraphAssumption` |
| `MemoryGraphProofs!DeterministicGraph` | `GraphSaysNote` | `GraphAssumption` |
| `MemoryGraphProofs!GraphTyped` | `TypeOK` | `GraphAssumption` |
| `MemoryGraphProofs!BestRowsAreHits` | `BestAreHits`, whatever the search by meaning misses | `GraphAssumption` |

They hold for any number of clients, ingesters, hooks, collectors, syncs, indexes,
workers and askers, for any notes, values, sessions, repositories, paths and texts, and
for any budget of crashes, failures and cancellations.

*VaultEngine.* `TypeInv` adds to `TypeOK` that a request past the allocation knows its
path, that the holder of the lock is at work, and that the buffer of the link pass is a
note. `EventInv` adds what a path cannot lose: every writer under way (a replacement, a
fresh write, the link pass with its old text) writes a note of the event that the path
promises, and a fresh path has one owner; the property alone is not inductive because it
says nothing about the writes that are still to come. With forgets a number can be freed
and allocated again while an old request or the link pass still holds it; that is why
both properties end at the first forget. Nothing is assumed of similarity but that similar
notes have one event.

The other four proofs share `LockInv`: only the holder of the lock has work, a budget is
never above its limit, and (`UnspentBefore`) what is unspent after a step was unspent
before it. `DigestInv` says which parts of the one row that an ingest is at are those of
the note in its buffer. `PruneInv`: what the walk of a sync did not see is no note, or is
that of a request that waits for the lock. `RowsInv` says of the store what `EventInv`
says of the files, that what it holds or is about to hold of a path is of the path's
event, and that a sync has seen every row there is, so that prune deletes none;
`ChunksInv` follows a request's document on its way from the file to its chunks. `OneInv`
says where a single client's request stands: past the dedup gate no file has a note of its
session, and the link pass writes back into the file it read, or, after a forget, a note
whose session no other path has. That a replacement is of the request's own session is
where it needs similarity to stay within sessions.

*ClaimStore.* `CurrentInv` adds the primary key to `CurrentIsNewest`: a seal leaves
current only rows with none newer, and the key makes these one row. `OwnerInv` says where
a sole ingester stands: between `upsert_document` and its last claim statement its
document is there, and a document taken away leaves it at the delete of its claims.
`AssertInv` is what `CurrentIsAsserted` needs more, since a row that is not current can
become so when a newer one goes: of a note's rows only the latest is current, it says what
the stored text says, and the times of rows, document, ingest and file are in this order,
so that the next row of a note is its latest and takes no other's key.

*CollectorLock.* `TypeOK` and `WorkersExclude` are inductive together: that a lock in use
belongs to a run in its section is part of the types.

*SessionQueue.* A rewrite of a session's verdict writes the new marker and then unlinks the
ones that rival it, so two rivals do meet on disk. `ClashInv` says that where they do, a
process still has the removal of one of them before it; the lemmas about the scripts of
`markers.py` (`Covering`: each marker a script writes is followed by the removal of its
rivals) carry it through each transition, and a process that is killed in between makes the
session one of `torn`, which the property leaves out. `ProcInv` ties the script a process
is at to the verdict that chose it; for `DoneIsAccounted` it says that nobody is about to
write `.done` for a session the vault does not have.

*CodeIndex.* `CodeInv` says of each run what it knows: what it read or found absent was so
at some moment since it began, and as long as nobody crossed it, the table still has what
it did not take for changed, so that the transaction that leaves those rows alone leaves
the right ones. The other half of the step of `CodeMirror` is that a crossed run invents
nothing; `RowsInv` carries the cascades of the schema.
`TypeInv` adds that a run learns last what it takes for changed. `ReportInv` is stronger
than its property: the last report is true, crossed or not, until the next transaction.
`KeysAreFresh` and `IdsSurviveEdits` rest on the parser: the ordinals of one identity are
0 and up without a gap (`OrdinalsDiffer`, `OrdinalsDense`), so that keys are distinct and
a text with as many symbols of an identity has all the identifiers there were.

*WikiIndex.* `CacheInv` says that a cached text whose modification time is that of the note
on disk is the text of that note, which needs one save to a tick and that the time is
taken before the text is read; `WindowInv` that what a refresh has behind it is in the
window of the request.
`BestInv` follows a readable note that nobody touches during a request: it is listed, it
is cached as it is once it is looked at, and so it is in the set the best are chosen of.

*MemoryGraph.* `JobsInv` says that only one worker is at work, and that each edge of what
it has left to do follows its node or has it in the table; the sweep is a script of its
own. The lemmas show it of the scripts of every version (`ScriptChained`) and that what is
left of a script keeps it (`RestChained`). `NoteInv` says what will be true when the rest
of a job is through: as long as the statement that erases the edges of a kind is still to
come, those that follow it are the version's; once it is done, those that are there and
those that follow. `Stands` says which fields of a request mean something where it stands,
and that what is linked has no hit. `KnowsInv` follows a chunk that could be found all
along: after the search by words it is among the rows found, or as many as the search may
return come before it (`Served`); of the search by meaning it is only known whether it came
to the chunk. So a hit that is before it in neither ranking is behind it in each list it is
in, and has the lesser sum of reciprocals (`ScoreLess`), which the fusion excludes
(`MergedFair`); `GraphAssumption` has the searches return no fewer rows than hits are asked
for, as `retrieve` does with four times as many.

*Briefings.* `NoteInv` says that a scheduler at work on a briefing has found no note, and
that what it writes into is the empty note it made itself. It is inductive because the day
ends only when the scheduler is at rest, and clients never make a note.
`TypeInv` says which fields of a process mean something where it stands. `FeedInv` goes
section by section: the sections queried so far have what is reserved for them, from no
more rows than the partial sum of the reserves. `HonestInv` says what a report knows from
its earlier queries when a later one returns nothing. That a query returns the best rows,
as many as its limit or all (`Tops`, `OnePerDoc`), are lemmas about finite sets.

*The text of a briefing.* `NothingIsLost` is about all texts the model may give, so it
needs induction over their lines. The induction theorems of the library take an operator,
which the provers cannot instantiate; but a set will do: a set of numbers with 0 that is
closed under successor is `Nat` (`NatInd`, from the least element of the rest), and a set
of sequences with `<<>>` that is closed under `Append` is `Seq(E)` (`SeqInd`). The lemmas
go from the bottom up: what flattening, selecting and scanning do with one element more;
`Scanned`, the invariant of the scan (a bullet is under a project whose heading came
before, and is no placeholder); `Distinct` keeps each text once, and `Arranged` is a
permutation that is idempotent (`DistinctFacts`, `ArrangedFacts`); and `Printing`, the
round trip: a scan of what is printed finds exactly the bullets that were printed, in that
order, also where a label without text is printed as a bare word. `SaidInv` says that a
process with an answer is done with the model and that its text is made of that answer.
The first scan may end in a panic; the lemmas hold for what it has then, too.

Assumptions on constants are those the code's types give: syntax trees are finite
sequences, vaults and tables finite, documents and claims different things, and the sign
for an absent file no note; `Nothing` is none of the six labels. `SavesPerTick = 1` (no two
saves of a note share a modification time), `Clients = {c}`, `Sums` and `Limited` are hypotheses
of the theorems they stand at; premises such as "until the first forget" are part of the
properties. Section 14 has the counterexamples without them.

Model-checked only: everything under fairness (`VaultEngine`'s and `CodeIndex`'s
`EventuallyMirrored`, `RequestsReturn`, `EverySessionSettles`, `QueueDrains`,
`MorningsBriefed`), which the prover cannot reach. Every invariant and action property that
a passing run checks is also a theorem, under the hypotheses of the table.

## 14 Findings and known limits

Three runs end in a counterexample; `PROJECT.json` quotes the lines.

1. **No more mornings** (`brief_dies`). `coalesce_brief_answer` takes the text behind the
   sign a bullet is split at from its second byte on, although two of the signs have three
   bytes: the slice panics, and with it the task of the daily briefing, which nothing
   restarts. A request that meets such an answer loses its connection only.
2. **Claims lose their edges** (`graph_rebuild`). An ingest clears the semantic edges of a
   document, those to its claims among them, and then skips every claim that the table has
   already: after its second ingest a note that keeps a claim is no longer linked to it.
3. **Similarity before the session** (`dedup_order`). The comment on `check_duplicate` says
   that it checks, in order, for the same session, for a similar note, for the title. It
   does all three file by file, so that the directory's order decides: a better note of
   session s2, similar to a note of session s1 that is listed first, overwrites that note.
   Then s2 has two notes and s1 none, with one client and without any fault.

The modules also say how far other promises go. These are limits that the properties or
scenarios leave room for; each was found by a counterexample to a stronger property.

- *Two notes of one session.* `remember` holds no lock between the dedup check and the
  write: two overlapping calls both store the session. `OneNotePerSession` is about one
  client, and about similarity within sessions (finding 3). Even then a session gets two
  notes if a `forget` is dropped while it waits for the lock: a sync in its link pass
  writes the forgotten note back, after the client has remembered the session again under
  another path. Hence `NoForgetAbandoned`.
- *Acknowledged and not found.* Two better versions of a draft are both decided on as
  replacements, and the process dies between the digest and the chunks of the best. When
  the same bytes are put there again, the digest settles the ingest, and the reply promises
  what has no chunks (three clients, four requests, one crash). The first half of
  `EventStaysSearchable` is therefore about the time before the first fault; that what
  can be found stays so holds with faults.
- *A lost replacement.* The link pass writes back what it read before three awaits, over a
  better draft written meanwhile; the reply said "recallable now" of a note that is gone.
  In the same way it puts a file back that `forget` has removed, which the next sync
  ingests again. `PathKeepsEvent` and `EventStaysSearchable` say what remains.
- *Skipped for good.* The digest is stored first; when the chunks, the graph or the claims
  fail after it, every later sync takes the file for unchanged. `DigestMeansIndexed` and
  what `EventuallyMirrored` says of chunks and graph end at the first fault; without that
  premise both fail. The digests and the rows themselves do come back.
- *Head of line.* A session whose distillation outlasts 180 seconds leaves no marker, is
  the newest unmarked one at each run, and shuts out all older ones. The Kimi collector has
  the same time-out. `EverySessionSettles` is checked with such sessions and names them
  (`Blocked`); one that fails each time is given up and shuts out nobody.
- *Offered for ever.* An offer by hermes writes `.pending` and removes the attempts that
  `.retry` counts, so that a session no agent remembers may be offered without end, and
  those behind it wait (`Offering`).
- *A lock nobody can read.* A crash between the creation of the lock file and the write of
  its text blocks every later run, until someone removes the file. `QueueDrains` names it
  (`Wedged`).
- *Approximate searches.* Chunks and claims by meaning come from an HNSW scan of about 40
  candidates that is filtered afterwards. Chunks of other projects can crowd out those of
  the one that is asked for, and `status` can say that a project has no record although it
  has claims (`ask.rs:682`), if it has no recent documents. No property promises otherwise.
- *Sub-headings.* A comment says that a sub-heading like `### Done` sets the pending label
  (`ask.rs:283`), but the branch before it (`ask.rs:274`) takes the line for a project named
  `# Done`: bullets of several projects come out together under that name. `NothingLost`
  leaves such answers out.
- *History in a derived table.* A note rewritten without its claim leaves the row current;
  so does, for the other note's value, the deletion of the note that superseded it. Even
  without either, the order of ingests matters: a claim that was skipped as unchanged keeps
  its old `valid_from` and loses to a note that a rebuild would put before it.
- *A report about a store that moves.* `status` asks for recent documents, then for claims.
  A note that is too old for the first query and is changed before the second (its claim
  superseded by the change) is in neither, and the report may say that there is nothing:
  `NoticeMeansNothing` is about documents that were recent at each query for them. As many
  notes tagged as briefings as the query's limit, but not named so, would hide all others,
  since the limit comes before that filter; `Tagged \subseteq Aside` excludes them.
- A forgotten highest number is used again (`remember.rs:103-126`); a batch of the Codex
  collector is scanned before its lock is taken, so that a session another run has just
  finished may be distilled twice (the dedup gate of `remember` meets it).

## 15 Not modelled

- Embeddings, prompts, and everything an LLM returns: outcomes and orders only.
- Text: frontmatter, chunk boundaries, redaction, PII rules, rendering. A note is a value;
  the one text that is taken apart line by line is that of a briefing.
- Postgres inside a statement or a transaction, and the file system below `open`, `write`,
  `unlink` and `rename`: each is a step. Torn writes of a file are not modelled.
- The query log, which handlers write without waiting for it, and the event log.
- Configuration, schema migration, agent wiring and operations scripts: one process at a
  time, no shared state with the components above while they run.
- The components of section 2's list "what is left".

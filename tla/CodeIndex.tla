------------------------------- MODULE CodeIndex -------------------------------
(*****************************************************************************)
(* `drudge code-sync`: each enabled repository in turn is collected, compared*)
(* with the hashes of the last time and replaced in one transaction          *)
(* (drudge/src/main.rs, code_index.rs, code_index/store.rs). Nothing keeps   *)
(* two of them from running at once, and sources change under them.          *)
(*                                                                           *)
(* A step is a file read, a query or a transaction. A hash is identified     *)
(* with the text it is of. What a file becomes in the tables is CodeParser.  *)
(*                                                                           *)
(* ChangedOrGone, ChangedIfNew, KeptAll and VanishedNone are wrong on        *)
(* purpose: they show that the properties can fail.                          *)
(*****************************************************************************)
EXTENDS CodeParser

CONSTANTS
  Syncs,      \* runs of the command
  Scheduled,  \* the ones the daily maintenance starts
  Selected,   \* Selected[s]: the repositories s was asked for
  Last,       \* the repositories are 1..Last, in the order of the configuration
  Paths,      \* relative paths of source files
  Contents,   \* their texts
  Absent,     \* no file
  Unread,     \* a path the collection has not come to
  Language,   \* the language of the repositories
  Tree,       \* Tree[c]: the syntax tree of text c, its nodes in a sequence
  Initial,    \* the directories a run starts with
  Budgets     \* bounds: edits per repository; failures, and roots that go or come

Repos == 1..Last
File == Contents \cup {Absent}

ASSUME CodeAssumption ==
  /\ Last \in Nat \ {0}
  /\ Selected \in [Syncs -> SUBSET Repos]
  /\ Absent \notin Contents /\ Unread \notin File
  /\ Language \in DOMAIN SymbolKind
  /\ \A c \in Contents : Len(Tree[c]) \in Nat /\ DOMAIN Tree[c] = 1..Len(Tree[c])
  /\ Initial \subseteq [Repos -> [Paths -> File]]
  /\ Budgets \subseteq [edits: [Repos -> Nat], faults: Nat]

\* What is derived from each text, and the rows of it at each path.
Parsed == [c \in Contents |-> Parse(Language, Tree[c])]
Symbols == [p \in Paths |-> [c \in File |->
  IF c = Absent THEN {} ELSE {<<p, id>> : id \in Parsed[c].symbols}]]
Relations == [p \in Paths |-> [c \in File |->
  IF c = Absent THEN {} ELSE {<<p, id>> : id \in Parsed[c].relations}]]
Errors == [c \in File |-> IF c = Absent THEN 0 ELSE Parsed[c].errors]

VARIABLES
  disk,      \* disk[r][p]: the source file
  root,      \* root[r]: is the configured directory there
  file,      \* file[r][p]: the hash in code_index.file, Absent if there is no row
  symbols,   \* symbols[r]: rows <<path, id>> of code_index.symbol
  relations, \* relations[r]: rows <<path, id>> of code_index.relation
  errors,    \* errors[r][p]: the error_count of the row of p
  sync,      \* where each run stands
  report,    \* the last report, if no other run crossed the one it is of
  recent, crossed,  \* history: see CodeMirror
  budget

tables == <<file, symbols, relations, errors, report>>
env == <<disk, root>>
vars == <<env, tables, sync, recent, crossed, budget>>

Blank == [p \in Paths |-> Unread]
Quiet == [p \in Paths |-> {}]
Home == [pc |-> "idle", repo |-> 1, seen |-> Blank, changed |-> {}]

Init ==
  /\ disk \in Initial
  /\ root = [r \in Repos |-> TRUE]
  /\ file = [r \in Repos |-> [p \in Paths |-> Absent]]
  /\ symbols = [r \in Repos |-> {}]
  /\ relations = [r \in Repos |-> {}]
  /\ errors = [r \in Repos |-> [p \in Paths |-> 0]]
  /\ sync = [s \in Syncs |-> Home]
  /\ report = [repo |-> 0, scanned |-> 0]
  /\ recent = [s \in Syncs |-> Quiet]
  /\ crossed = {}
  /\ budget \in Budgets

-------------------------------------------------------------------------------
(* One run *)

\* The first source after r that is enabled and asked for; none ends the run.
Onward(s, r) ==
  LET rest == {q \in Selected[s] : q > r} IN
  IF rest = {} THEN Home
  ELSE [Home EXCEPT !.pc = "open", !.repo = CHOOSE q \in rest : \A o \in rest : q <= o]

Begin(s) ==
  /\ sync[s].pc = "idle" /\ Selected[s] # {}
  /\ sync' = [sync EXCEPT ![s] = Onward(s, 0)]
  /\ UNCHANGED <<env, tables, recent, crossed, budget>>

\* Any error ends the run, and the sources after this one are not looked at.
Abandon(s) ==
  /\ sync' = [sync EXCEPT ![s] = Home]
  /\ recent' = [recent EXCEPT ![s] = Quiet]
  /\ crossed' = crossed \ {s}

\* The root must be a directory.
Open(s) ==
  /\ sync[s].pc = "open"
  /\ IF root[sync[s].repo]
       THEN /\ sync' = [sync EXCEPT ![s].pc = "collect"]
            /\ recent' = [recent EXCEPT ![s] = [p \in Paths |-> {disk[sync[s].repo][p]}]]
            /\ UNCHANGED crossed
       ELSE Abandon(s)
  /\ UNCHANGED <<env, tables, budget>>

\* The walk comes to p; a file that is gone is not in the list.
ReadSource(s, p) ==
  /\ sync[s].pc = "collect" /\ sync[s].seen[p] = Unread
  /\ sync' = [sync EXCEPT ![s].seen[p] = disk[sync[s].repo][p]]
  /\ UNCHANGED <<env, tables, recent, crossed, budget>>

ChangedOrGone(seen, stored) == {p \in Paths : seen[p] # stored[p]}

ChangedIfNew(seen, stored) == {p \in Paths : seen[p] # Absent /\ stored[p] = Absent}

\* What is parsed: the files whose hash differs from the stored one.
Changed(seen, stored) == {p \in Paths : seen[p] # Absent /\ seen[p] # stored[p]}

ReadHashes(s) ==
  /\ sync[s].pc = "collect" /\ \A p \in Paths : sync[s].seen[p] # Unread
  /\ sync' = [sync EXCEPT ![s].pc = "replace",
                          ![s].changed = Changed(sync[s].seen, file[sync[s].repo])]
  /\ UNCHANGED <<env, tables, recent, crossed, budget>>

KeptAll(rows, gone) == rows

\* The rows a repository keeps when the files `gone` are deleted from it: the
\* foreign keys delete on cascade.
Kept(rows, gone) == {row \in rows : row[1] \notin gone}

VanishedNone(seen, stored) == {}

\* The files that are not in the list any more.
Vanished(seen, stored) == {p \in Paths : seen[p] = Absent /\ stored[p] # Absent}

\* One transaction: the changed files are deleted and inserted anew, the ones
\* that were not seen are deleted.
Replace(s) ==
  LET r == sync[s].repo
      seen == sync[s].seen
      new == sync[s].changed
      gone == new \cup Vanished(seen, file[r])
      Inserted(table) == UNION {table[p][seen[p]] : p \in new}
  IN /\ sync[s].pc = "replace"
     /\ file' = [file EXCEPT ![r] = [p \in Paths |-> IF p \in gone THEN seen[p] ELSE @[p]]]
     /\ errors' = [errors EXCEPT ![r] =
          [p \in Paths |-> IF p \in gone THEN Errors[seen[p]] ELSE @[p]]]
     /\ symbols' = [symbols EXCEPT ![r] = Kept(@, gone) \cup Inserted(Symbols)]
     /\ relations' = [relations EXCEPT ![r] = Kept(@, gone) \cup Inserted(Relations)]
     /\ report' = IF s \in crossed THEN [repo |-> 0, scanned |-> 0]
                   ELSE [repo |-> r, scanned |-> Cardinality({p \in Paths : seen[p] # Absent})]
     /\ recent' = [recent EXCEPT ![s] = Quiet]
     /\ crossed' = (crossed \ {s}) \cup
          {t \in Syncs \ {s} : sync[t].repo = r /\ recent[t] # Quiet}
     /\ sync' = [sync EXCEPT ![s] = Onward(s, r)]
     /\ UNCHANGED <<env, budget>>

\* An entry that cannot be read, a database that does not answer, a killed
\* process; what the transaction did so far is rolled back.
Fails(s) ==
  /\ sync[s].pc \in {"collect", "replace"}
  /\ budget.faults > 0
  /\ budget' = [budget EXCEPT !.faults = @ - 1]
  /\ Abandon(s)
  /\ UNCHANGED <<env, tables>>

-------------------------------------------------------------------------------
(* The sources *)

Edit(r, p, c) ==
  /\ root[r] /\ budget.edits[r] > 0 /\ disk[r][p] # c
  /\ disk' = [disk EXCEPT ![r][p] = c]
  /\ recent' = [s \in Syncs |->
       IF sync[s].repo = r /\ recent[s] # Quiet
         THEN [recent[s] EXCEPT ![p] = @ \cup {c}] ELSE recent[s]]
  /\ budget' = [budget EXCEPT !.edits[r] = @ - 1]
  /\ UNCHANGED <<root, tables, sync, crossed>>

\* The directory is renamed or its volume unmounted, or it comes back.
MoveRoot(r) ==
  /\ budget.faults > 0
  /\ root' = [root EXCEPT ![r] = ~@]
  /\ budget' = [budget EXCEPT !.faults = @ - 1]
  /\ UNCHANGED <<disk, tables, sync, recent, crossed>>

Advance(s) == Open(s) \/ (\E p \in Paths : ReadSource(s, p)) \/ ReadHashes(s) \/ Replace(s)

Next ==
  \/ \E s \in Syncs : Begin(s) \/ Advance(s) \/ Fails(s)
  \/ \E r \in Repos, p \in Paths, c \in File : Edit(r, p, c)
  \/ \E r \in Repos : MoveRoot(r)

Spec == Init /\ [][Next]_vars

\* A run that was started goes on; the maintenance starts its own every day.
FairSpec ==
  /\ Spec
  /\ \A s \in Syncs : WF_vars(Advance(s))
  /\ \A s \in Scheduled : WF_vars(Begin(s))

-------------------------------------------------------------------------------
(* Properties *)

Status(r) ==
  [files |-> Cardinality({p \in Paths : file[r][p] # Absent}),
   symbols |-> Cardinality(symbols[r]), relations |-> Cardinality(relations[r]),
   broken |-> Cardinality({p \in Paths : errors[r][p] > 0})]

\* Every variable has its type, and only a run at work has a window of moments.
TypeOK ==
  /\ disk \in [Repos -> [Paths -> File]] /\ root \in [Repos -> BOOLEAN]
  /\ file \in [Repos -> [Paths -> File]]
  /\ errors \in [Repos -> [Paths -> Nat]]
  /\ \A s \in Syncs : \A p \in sync[s].changed : sync[s].seen[p] \in Contents
  /\ sync \in [Syncs -> [pc: {"idle", "open", "collect", "replace"}, repo: Repos,
                         seen: [Paths -> File \cup {Unread}], changed: SUBSET Paths]]
  /\ recent \in [Syncs -> [Paths -> SUBSET File]]
  /\ crossed \subseteq {s \in Syncs : sync[s].pc \in {"collect", "replace"}}
  /\ budget \in [edits: [Repos -> Nat], faults: Nat]

Insertable == {c \in Contents : DistinctKeys(Language, Tree[c])}

\* A transaction never fails on a key of its own: the identifiers of the
\* symbols and relations of each file it inserts are all different, whatever
\* the file repeats.
KeysAreFresh ==
  \A s \in Syncs : sync[s].pc = "replace" =>
    \A p \in sync[s].changed : sync[s].seen[p] \in Insertable

\* Whatever syncs overlapped or failed, the rows of a file are those of the
\* text its hash is of, all of them, and a path without a row has none.
RowsFollowHashes ==
  \A r \in Repos :
    /\ symbols[r] = UNION {Symbols[p][file[r][p]] : p \in Paths}
    /\ relations[r] = UNION {Relations[p][file[r][p]] : p \in Paths}
    /\ \A p \in Paths : errors[r][p] = Errors[file[r][p]]

\* What a sync that no other crossed reports is what the index then says of
\* the repository: as many files as it scanned.
ReportMatchesStatus ==
  report.repo # 0 => Status(report.repo).files = report.scanned

\* An edit of a file leaves the identifiers of its symbols alone unless it
\* removes one of several with one name and signature: a reader may keep them.
IdsSurviveEdits ==
  [][\A r \in Repos, p \in Paths :
       Absent \notin {file[r][p], file'[r][p]} /\ file[r][p] # file'[r][p] =>
         LET Ids(rows) == {row[2] : row \in {x \in rows : x[1] = p}}
             Same(ids, id) == {x \in ids : SubSeq(x, 1, 3) = SubSeq(id, 1, 3)}
             before == Ids(symbols[r])
             after == Ids(symbols'[r])
         IN \A id \in before :
              Cardinality(Same(before, id)) <= Cardinality(Same(after, id))
                => id \in after]_vars

\* The last repository is mirrored (see CodeMirror) through all the syncs that
\* overlap on it, fail at it or never come to it.
Mirror == INSTANCE CodeMirror WITH
  source <- disk[Last],
  mirror <- file[Last],
  recent <- [s \in Syncs |-> IF sync[s].repo = Last THEN recent[s] ELSE Quiet],
  crossed <- {s \in crossed : sync[s].repo = Last}

MirrorsRepository == Mirror!Spec

\* When the roots of a repository and of those before it stay in place, the
\* index comes to mirror it: a missing root holds up the ones after it.
EventuallyMirrored ==
  \A r \in Repos :
    <>[](\A q \in 1..r : root[q]) => <>[](file[r] = disk[r])
===============================================================================

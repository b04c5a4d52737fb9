---------------------------- MODULE CodeIndexProofs ----------------------------
(*****************************************************************************)
(* That the code index implements its mirror, that its rows are those of its *)
(* hashes, its keys fresh, its reports true and its identifiers stable, for  *)
(* any number of runs, repositories, paths and texts, any syntax trees, and  *)
(* whatever fails.                                                           *)
(*****************************************************************************)
EXTENDS CodeIndex, TLAPS, SequenceTheorems, FiniteSetTheorems

Busy == {"collect", "replace"}

\* The directory, the table of files and the shapes of the rest.
TableInv ==
  /\ disk \in [Repos -> [Paths -> File]]
  /\ file \in [Repos -> [Paths -> File]]
  /\ DOMAIN sync = Syncs /\ DOMAIN recent = Syncs /\ crossed \subseteq Syncs

\* What run s knows: nothing that was not there since it began, and as long as
\* no other crosses it, the table has what it did not take for changed.
Knows(s) ==
  /\ DOMAIN sync[s] = {"pc", "repo", "seen", "changed"}
  /\ DOMAIN sync[s].seen = Paths /\ sync[s].changed \subseteq Paths /\ DOMAIN recent[s] = Paths
  /\ sync[s].pc \in {"idle", "open"} \cup Busy
  /\ sync[s].pc \notin Busy => recent[s] = Quiet /\ sync[s].seen = Blank
  /\ s \in crossed => recent[s] # Quiet
  /\ sync[s].pc \in Busy => \A p \in Paths :
       /\ disk[sync[s].repo][p] \in recent[s][p]
       /\ sync[s].seen[p] \in recent[s][p] \cup {Unread}
       /\ sync[s].repo \in Repos => recent[s][p] \subseteq File
  /\ sync[s].pc = "replace" => \A p \in Paths :
       /\ sync[s].seen[p] # Unread
       /\ p \in sync[s].changed => sync[s].seen[p] # Absent
       /\ s \notin crossed /\ p \notin sync[s].changed /\ sync[s].seen[p] # Absent
            => file[sync[s].repo][p] = sync[s].seen[p]

CodeInv == TableInv /\ \A s \in Syncs : Knows(s)

\* A run that does not move keeps what it knows, unless files are replaced under
\* it and it is not told.
LEMMA Unmoved ==
  ASSUME NEW t \in Syncs, Knows(t), sync'[t] = sync[t], recent'[t] = recent[t], UNCHANGED disk,
         t \in crossed' => recent[t] # Quiet,
         t \in crossed => t \in crossed',
         t \notin crossed' => \A p \in Paths : sync[t].pc = "replace" =>
           file'[sync[t].repo][p] = file[sync[t].repo][p]
  PROVE  Knows(t)'
BY DEF Knows

\* A step of run s that leaves the files alone and takes nobody's place.
LEMMA OneMoves ==
  ASSUME CodeInv, NEW s \in Syncs, UNCHANGED <<disk, file>>,
         DOMAIN sync' = Syncs, DOMAIN recent' = Syncs,
         \A t \in Syncs \ {s} : sync'[t] = sync[t] /\ recent'[t] = recent[t],
         crossed' = crossed \/ crossed' = crossed \ {s},
         Knows(s)'
  PROVE  CodeInv'
<1>1. TableInv'
  BY DEF CodeInv, TableInv
<1>2. ASSUME NEW t \in Syncs, t # s PROVE Knows(t)'
  <2>1. Knows(t) /\ sync'[t] = sync[t] /\ recent'[t] = recent[t]
    BY <1>2 DEF CodeInv
  <2>2. t \in crossed' <=> t \in crossed
    BY <1>2
  <2>3. t \in crossed' => recent[t] # Quiet
    BY <2>1, <2>2 DEF Knows
  <2> QED
    BY <2>1, <2>2, <2>3, Unmoved
<1> QED
  BY <1>1, <1>2 DEF CodeInv

\* A run that is at no repository knows nothing.
LEMMA AtRest ==
  ASSUME NEW s \in Syncs, sync'[s] = Home \/ \E q : sync'[s] = [Home EXCEPT !.pc = "open", !.repo = q],
         recent'[s] = Quiet, s \notin crossed'
  PROVE  Knows(s)'
<1>1. /\ DOMAIN sync'[s] = {"pc", "repo", "seen", "changed"}
      /\ sync'[s].pc \in {"idle", "open"} /\ sync'[s].seen = Blank /\ sync'[s].changed = {}
  <2>1. CASE sync'[s] = Home
    BY <2>1 DEF Home
  <2>2. CASE \E q : sync'[s] = [Home EXCEPT !.pc = "open", !.repo = q]
    <3>1. PICK q : sync'[s] = [Home EXCEPT !.pc = "open", !.repo = q]
      BY <2>2
    <3> QED
      BY <3>1 DEF Home
  <2> QED
    BY <2>1, <2>2
<1>2. DOMAIN Blank = Paths /\ DOMAIN Quiet = Paths
  BY DEF Blank, Quiet
<1> QED
  BY <1>1, <1>2 DEF Knows, Busy

LEMMA AbandonKeeps ==
  ASSUME CodeInv, NEW s \in Syncs, Abandon(s), UNCHANGED <<disk, file>>
  PROVE  CodeInv'
<1>1. sync'[s] = Home /\ recent'[s] = Quiet /\ s \notin crossed'
  BY DEF Abandon, CodeInv, TableInv
<1>2. Knows(s)'
  BY <1>1, AtRest
<1>3. /\ DOMAIN sync' = Syncs /\ DOMAIN recent' = Syncs
      /\ \A t \in Syncs \ {s} : sync'[t] = sync[t] /\ recent'[t] = recent[t]
      /\ crossed' = crossed \ {s}
  BY DEF Abandon, CodeInv, TableInv
<1> QED
  BY <1>2, <1>3, OneMoves

LEMMA BeginKeeps ==
  ASSUME CodeInv, NEW s \in Syncs, Begin(s)
  PROVE  CodeInv'
<1>1. /\ DOMAIN sync' = Syncs /\ DOMAIN recent' = Syncs
      /\ \A t \in Syncs \ {s} : sync'[t] = sync[t] /\ recent'[t] = recent[t]
      /\ UNCHANGED <<disk, file, crossed, recent>>
  BY DEF Begin, CodeInv, TableInv, env, tables
<1>2. sync'[s] = Onward(s, 0) /\ recent'[s] = Quiet /\ s \notin crossed'
  <2>1. sync[s].pc = "idle" /\ sync'[s] = Onward(s, 0)
    BY DEF Begin, CodeInv, TableInv
  <2>2. Knows(s)
    BY DEF CodeInv
  <2> QED
    BY <1>1, <2>1, <2>2 DEF Knows, Busy
<1>3. sync'[s] = Home \/ \E q : sync'[s] = [Home EXCEPT !.pc = "open", !.repo = q]
  BY <1>2 DEF Onward
<1>4. Knows(s)'
  BY <1>2, <1>3, AtRest
<1> QED
  BY <1>1, <1>4, OneMoves

LEMMA OpenKeeps ==
  ASSUME CodeInv, NEW s \in Syncs, Open(s)
  PROVE  CodeInv'
<1>1. UNCHANGED <<disk, file>>
  BY DEF Open, env, tables
<1>2. CASE root[sync[s].repo]
  <2>1. sync' = [sync EXCEPT ![s] = [sync[s] EXCEPT !.pc = "collect"]]
    BY <1>2 DEF Open
  <2>2. recent' = [recent EXCEPT ![s] = [p \in Paths |-> {disk[sync[s].repo][p]}]] /\ crossed' = crossed
    BY <1>2 DEF Open
  <2>3. /\ DOMAIN sync' = Syncs /\ DOMAIN recent' = Syncs
        /\ \A t \in Syncs \ {s} : sync'[t] = sync[t] /\ recent'[t] = recent[t]
    BY <2>1, <2>2 DEF CodeInv, TableInv
  <2>4. Knows(s)'
    <3>1. /\ sync'[s] = [sync[s] EXCEPT !.pc = "collect"]
          /\ recent'[s] = [p \in Paths |-> {disk[sync[s].repo][p]}]
      BY <2>1, <2>2 DEF CodeInv, TableInv
    <3>2. /\ DOMAIN sync'[s] = {"pc", "repo", "seen", "changed"}
          /\ sync'[s].pc = "collect" /\ sync'[s].repo = sync[s].repo
          /\ sync'[s].seen = sync[s].seen /\ sync'[s].changed \subseteq Paths
      BY <3>1 DEF CodeInv, Knows
    <3>3. sync[s].seen = Blank /\ s \notin crossed'
      <4>1. Knows(s) /\ sync[s].pc = "open"
        BY DEF Open, CodeInv
      <4> QED
        BY <4>1, <2>2 DEF Knows, Busy
    <3>4. ASSUME NEW p \in Paths
          PROVE  /\ disk[sync[s].repo][p] \in recent'[s][p]
                 /\ sync'[s].seen[p] = Unread
                 /\ sync[s].repo \in Repos => recent'[s][p] \subseteq File
      BY <3>1, <3>2, <3>3 DEF Blank, CodeInv, TableInv
    <3>5. DOMAIN sync'[s].seen = Paths /\ DOMAIN recent'[s] = Paths
      BY <3>1, <3>2, <3>3 DEF Blank
    <3> QED
      BY <3>2, <3>3, <3>4, <3>5, <1>1 DEF Knows, Busy
  <2> QED
    BY <1>1, <2>2, <2>3, <2>4, OneMoves
<1>3. CASE ~root[sync[s].repo]
  BY <1>1, <1>3, AbandonKeeps DEF Open
<1> QED
  BY <1>2, <1>3

LEMMA ReadKeeps ==
  ASSUME CodeInv, NEW s \in Syncs, NEW q \in Paths, ReadSource(s, q)
  PROVE  CodeInv'
<1>1. UNCHANGED <<disk, file, recent, crossed>>
  BY DEF ReadSource, env, tables
<1>2. sync' = [sync EXCEPT ![s] = [sync[s] EXCEPT !.seen = [sync[s].seen EXCEPT ![q] = disk[sync[s].repo][q]]]]
  BY DEF ReadSource
<1>3. /\ DOMAIN sync' = Syncs /\ DOMAIN recent' = Syncs
      /\ \A t \in Syncs \ {s} : sync'[t] = sync[t] /\ recent'[t] = recent[t]
      /\ sync'[s] = [sync[s] EXCEPT !.seen = [sync[s].seen EXCEPT ![q] = disk[sync[s].repo][q]]]
  BY <1>1, <1>2 DEF CodeInv, TableInv
<1>4. Knows(s) /\ sync[s].pc = "collect"
  BY DEF ReadSource, CodeInv
<1>5. /\ DOMAIN sync'[s] = {"pc", "repo", "seen", "changed"}
      /\ sync'[s].pc = "collect" /\ sync'[s].repo = sync[s].repo
      /\ sync'[s].seen = [sync[s].seen EXCEPT ![q] = disk[sync[s].repo][q]]
      /\ sync'[s].changed \subseteq Paths
  BY <1>3, <1>4 DEF Knows
<1>6. Knows(s)'
  <2>1. DOMAIN sync'[s].seen = Paths
    BY <1>4, <1>5 DEF Knows
  <2>2. \A p \in Paths : sync'[s].seen[p] \in recent[s][p] \cup {Unread}
    BY <1>4, <1>5 DEF Knows, Busy
  <2> QED
    BY <1>1, <1>4, <1>5, <2>1, <2>2 DEF Knows, Busy
<1> QED
  BY <1>1, <1>3, <1>6, OneMoves

LEMMA HashesKeep ==
  ASSUME CodeInv, NEW s \in Syncs, ReadHashes(s)
  PROVE  CodeInv'
<1> DEFINE new == Changed(sync[s].seen, file[sync[s].repo])
<1>1. UNCHANGED <<disk, file, recent, crossed>>
  BY DEF ReadHashes, env, tables
<1>2. sync' = [sync EXCEPT ![s] = [sync[s] EXCEPT !.pc = "replace", !.changed = new]]
  BY DEF ReadHashes
<1>3. /\ DOMAIN sync' = Syncs /\ DOMAIN recent' = Syncs
      /\ \A t \in Syncs \ {s} : sync'[t] = sync[t] /\ recent'[t] = recent[t]
      /\ sync'[s] = [sync[s] EXCEPT !.pc = "replace", !.changed = new]
  BY <1>1, <1>2 DEF CodeInv, TableInv
<1>4. Knows(s) /\ sync[s].pc = "collect" /\ \A p \in Paths : sync[s].seen[p] # Unread
  BY DEF ReadHashes, CodeInv
<1>5. /\ DOMAIN sync'[s] = {"pc", "repo", "seen", "changed"}
      /\ sync'[s].pc = "replace" /\ sync'[s].repo = sync[s].repo
      /\ sync'[s].seen = sync[s].seen /\ sync'[s].changed = new
  BY <1>3, <1>4 DEF Knows
<1>6. /\ new \subseteq Paths
      /\ \A p \in Paths : /\ p \in new => sync[s].seen[p] # Absent
                          /\ p \notin new /\ sync[s].seen[p] # Absent
                               => file[sync[s].repo][p] = sync[s].seen[p]
  BY DEF Changed
<1>7. Knows(s)'
  BY <1>1, <1>4, <1>5, <1>6 DEF Knows, Busy
<1> QED
  BY <1>1, <1>3, <1>7, OneMoves

LEMMA FailsKeeps ==
  ASSUME CodeInv, NEW s \in Syncs, Fails(s)
  PROVE  CodeInv'
BY AbandonKeeps DEF Fails, env, tables

LEMMA EditKeeps ==
  ASSUME CodeInv, NEW r \in Repos, NEW q \in Paths, NEW c \in File, Edit(r, q, c)
  PROVE  CodeInv'
<1>1. UNCHANGED <<file, sync, crossed>>
  BY DEF Edit, tables
<1>2. disk' = [disk EXCEPT ![r] = [disk[r] EXCEPT ![q] = c]]
  BY DEF Edit
<1>3. disk' \in [Repos -> [Paths -> File]] /\ DOMAIN recent' = Syncs
  BY <1>2 DEF Edit, CodeInv, TableInv
<1>4. ASSUME NEW s \in Syncs PROVE Knows(s)'
  <2>1. Knows(s)
    BY DEF CodeInv
  <2>2. CASE sync[s].repo = r /\ recent[s] # Quiet
    <3>1. recent'[s] = [recent[s] EXCEPT ![q] = @ \cup {c}]
      BY <2>2 DEF Edit
    <3>2. recent'[s] # Quiet /\ DOMAIN recent'[s] = Paths
      BY <2>1, <3>1 DEF Knows, Quiet
    <3>3. \A p \in Paths : disk'[r][p] = IF p = q THEN c ELSE disk[r][p]
      BY <1>2 DEF CodeInv, TableInv
    <3>4. \A p \in Paths : recent'[s][p] = IF p = q THEN recent[s][p] \cup {c} ELSE recent[s][p]
      BY <2>1, <3>1 DEF Knows
    <3>5. sync[s].pc \in Busy => \A p \in Paths :
            /\ disk'[sync[s].repo][p] \in recent'[s][p]
            /\ sync[s].seen[p] \in recent'[s][p] \cup {Unread}
            /\ sync[s].repo \in Repos => recent'[s][p] \subseteq File
      <4> SUFFICES ASSUME sync[s].pc \in Busy, NEW p \in Paths
                   PROVE  /\ disk'[r][p] \in recent'[s][p]
                          /\ sync[s].seen[p] \in recent'[s][p] \cup {Unread}
                          /\ recent'[s][p] \subseteq File
        BY <2>2
      <4>1. /\ disk[r][p] \in recent[s][p] /\ sync[s].seen[p] \in recent[s][p] \cup {Unread}
            /\ recent[s][p] \subseteq File
        BY <2>1, <2>2 DEF Knows
      <4> QED
        BY <4>1, <3>3, <3>4
    <3> QED
      BY <1>1, <2>1, <2>2, <3>2, <3>5 DEF Knows
  <2>3. CASE ~(sync[s].repo = r /\ recent[s] # Quiet)
    <3>1. recent'[s] = recent[s]
      BY <2>3 DEF Edit
    <3>2. CASE sync[s].repo = r
      <4>1. \A p \in Paths : sync[s].pc \notin Busy
        BY <2>1, <2>3, <3>2 DEF Knows, Quiet
      <4> QED
        BY <1>1, <2>1, <3>1, <4>1 DEF Knows
    <3>3. CASE sync[s].repo # r
      <4>1. disk'[sync[s].repo] = disk[sync[s].repo]
        BY <1>2, <3>3 DEF CodeInv, TableInv
      <4> QED
        BY <1>1, <2>1, <3>1, <4>1 DEF Knows
    <3> QED
      BY <3>2, <3>3
  <2> QED
    BY <2>2, <2>3
<1> QED
  BY <1>1, <1>3, <1>4 DEF CodeInv, TableInv

\* What the transaction replaces, and the runs that are told.
LEMMA ReplaceKeeps ==
  ASSUME CodeInv, NEW s \in Syncs, Replace(s)
  PROVE  CodeInv'
<1> DEFINE r == sync[s].repo
           seen == sync[s].seen
           gone == sync[s].changed \cup Vanished(seen, file[r])
<1>1. /\ UNCHANGED disk
      /\ sync[s].pc = "replace"
      /\ file' = [file EXCEPT ![r] = [p \in Paths |-> IF p \in gone THEN seen[p] ELSE file[r][p]]]
      /\ recent' = [recent EXCEPT ![s] = Quiet]
      /\ crossed' = (crossed \ {s}) \cup {t \in Syncs \ {s} : sync[t].repo = r /\ recent[t] # Quiet}
      /\ sync' = [sync EXCEPT ![s] = Onward(s, r)]
  BY DEF Replace, env
<1>2. Knows(s)
  BY DEF CodeInv
<1>3. \A p \in Paths : r \in Repos => seen[p] \in File
  BY <1>1, <1>2 DEF Knows, Busy
<1>4. TableInv'
  <2>1. file' \in [Repos -> [Paths -> File]]
    BY <1>1, <1>3 DEF CodeInv, TableInv
  <2> QED
    BY <1>1, <2>1 DEF CodeInv, TableInv
<1>5. Knows(s)'
  <2>1. sync'[s] = Home \/ \E q : sync'[s] = [Home EXCEPT !.pc = "open", !.repo = q]
    BY <1>1 DEF Onward, CodeInv, TableInv
  <2>2. recent'[s] = Quiet /\ s \notin crossed'
    BY <1>1 DEF CodeInv, TableInv
  <2> QED
    BY <2>1, <2>2, AtRest
<1>6. ASSUME NEW t \in Syncs, t # s PROVE Knows(t)'
  <2>1. Knows(t) /\ sync'[t] = sync[t] /\ recent'[t] = recent[t]
    BY <1>1, <1>6 DEF CodeInv, TableInv
  <2>2. t \in crossed' => recent[t] # Quiet
    BY <1>1, <2>1 DEF Knows
  <2>3. t \in crossed => t \in crossed'
    BY <1>1, <1>6
  <2>4. ASSUME t \notin crossed', NEW p \in Paths, sync[t].pc = "replace"
        PROVE  file'[sync[t].repo][p] = file[sync[t].repo][p]
    <3>1. CASE sync[t].repo = r
      <4>1. recent[t] = Quiet
        BY <1>1, <1>6, <2>4, <3>1
      <4>2. recent[t][p] # {}
        BY <2>1, <2>4 DEF Knows, Busy
      <4> QED
        BY <4>1, <4>2 DEF Quiet
    <3>2. CASE sync[t].repo # r
      BY <1>1, <3>2 DEF CodeInv, TableInv
    <3> QED
      BY <3>1, <3>2
  <2> QED
    BY <1>1, <2>1, <2>2, <2>3, <2>4, Unmoved
<1> QED
  BY <1>4, <1>5, <1>6 DEF CodeInv

\* CodeInv is an invariant.
LEMMA CodeInvariant == Spec => []CodeInv
<1>1. Init => CodeInv
  <2> SUFFICES ASSUME Init PROVE CodeInv
    OBVIOUS
  <2>1. TableInv
    BY CodeAssumption DEF Init, TableInv, Repos, File
  <2>2. ASSUME NEW s \in Syncs PROVE Knows(s)
    BY DEF Init, Knows, Home, Blank, Quiet, Busy
  <2> QED
    BY <2>1, <2>2 DEF CodeInv
<1>2. CodeInv /\ [Next]_vars => CodeInv'
  <2> SUFFICES ASSUME CodeInv, [Next]_vars PROVE CodeInv'
    OBVIOUS
  <2>1. ASSUME NEW s \in Syncs, Begin(s) \/ Advance(s) \/ Fails(s)
        PROVE  CodeInv'
    BY <2>1, BeginKeeps, OpenKeeps, ReadKeeps, HashesKeep, ReplaceKeeps, FailsKeeps DEF Advance
  <2>2. ASSUME NEW r \in Repos, NEW p \in Paths, NEW c \in File, Edit(r, p, c)
        PROVE  CodeInv'
    BY <2>2, EditKeeps
  <2>3. CASE UNCHANGED <<disk, file, sync, recent, crossed>>
    BY <2>3 DEF CodeInv, TableInv, Knows
  <2>4. ASSUME NEW r \in Repos, MoveRoot(r)
        PROVE  CodeInv'
    BY <2>3, <2>4 DEF MoveRoot, tables
  <2>5. CASE UNCHANGED vars
    BY <2>3, <2>5 DEF vars, env, tables
  <2> QED
    BY <2>1, <2>2, <2>4, <2>5 DEF Next
<1> QED
  BY <1>1, <1>2, PTL DEF Spec

-------------------------------------------------------------------------------
(* Rows *)

\* Of the rows of a table, those of the files that are gone are replaced by the
\* rows of the new ones.
LEMMA RowsReplaced ==
  ASSUME NEW table, NEW old, NEW seen, NEW now, NEW before, NEW after,
         NEW new \in SUBSET Paths, NEW gone \in SUBSET Paths,
         \A p \in Paths : table[p][Absent] = {},
         \A p \in Paths : \A c \in File : \A row \in table[p][c] : row[1] = p,
         new \subseteq gone,
         \A p \in Paths : old[p] \in File,
         \A p \in gone : seen[p] \in File /\ (p \notin new => seen[p] = Absent),
         \A p \in Paths : now[p] = IF p \in gone THEN seen[p] ELSE old[p],
         \A row : row \in before <=> \E p \in Paths : row \in table[p][old[p]],
         \A row : row \in after <=> \/ row \in before /\ row[1] \notin gone
                                  \/ \E p \in new : row \in table[p][seen[p]]
  PROVE  \A row : row \in after <=> \E p \in Paths : row \in table[p][now[p]]
<1> SUFFICES ASSUME NEW row
             PROVE  row \in after <=> \E p \in Paths : row \in table[p][now[p]]
  OBVIOUS
<1>1. ASSUME row \in before, row[1] \notin gone
      PROVE  \E p \in Paths : row \in table[p][now[p]]
  BY <1>1
<1>2. ASSUME NEW p \in new, row \in table[p][seen[p]]
      PROVE  \E q \in Paths : row \in table[q][now[q]]
  BY <1>2
<1>3. ASSUME NEW p \in Paths, row \in table[p][now[p]]
      PROVE  row \in after
  <2>1. CASE p \in gone
    BY <1>3, <2>1
  <2>2. CASE p \notin gone
    BY <1>3, <2>2
  <2> QED
    BY <2>1, <2>2
<1> QED
  BY <1>1, <1>2, <1>3

\* What the two tables have at each path.
LEMMA RowsNamed ==
  /\ \A p \in Paths : Symbols[p][Absent] = {} /\ Relations[p][Absent] = {}
  /\ \A p \in Paths : \A c \in File : /\ \A row \in Symbols[p][c] : row[1] = p
                                     /\ \A row \in Relations[p][c] : row[1] = p
BY DEF Symbols, Relations, File

RowsInv ==
  /\ DOMAIN symbols = Repos /\ DOMAIN relations = Repos /\ DOMAIN errors = Repos
  /\ RowsFollowHashes

\* The transaction keeps rows and hashes together.
LEMMA ReplaceRows ==
  ASSUME CodeInv, RowsInv, NEW s \in Syncs, Replace(s)
  PROVE  RowsInv'
<1> DEFINE r == sync[s].repo
           seen == sync[s].seen
           new == sync[s].changed
           gone == new \cup Vanished(seen, file[r])
           after == [p \in Paths |-> IF p \in gone THEN seen[p] ELSE file[r][p]]
<1>1. /\ sync[s].pc = "replace"
      /\ file' = [file EXCEPT ![r] = after]
      /\ errors' = [errors EXCEPT ![r] =
           [p \in Paths |-> IF p \in gone THEN Errors[seen[p]] ELSE errors[r][p]]]
      /\ symbols' = [symbols EXCEPT ![r] =
           Kept(symbols[r], gone) \cup UNION {Symbols[p][seen[p]] : p \in new}]
      /\ relations' = [relations EXCEPT ![r] =
           Kept(relations[r], gone) \cup UNION {Relations[p][seen[p]] : p \in new}]
  BY DEF Replace
<1>2. Knows(s) /\ TableInv
  BY DEF CodeInv
<1>3. DOMAIN symbols' = Repos /\ DOMAIN relations' = Repos /\ DOMAIN errors' = Repos
  BY <1>1 DEF RowsInv
<1>4. ASSUME NEW q \in Repos, q # r
      PROVE  /\ file'[q] = file[q] /\ symbols'[q] = symbols[q]
             /\ relations'[q] = relations[q] /\ errors'[q] = errors[q]
  BY <1>1, <1>2, <1>4 DEF RowsInv, TableInv
<1>5. ASSUME r \in Repos
      PROVE  /\ symbols'[r] = UNION {Symbols[p][file'[r][p]] : p \in Paths}
             /\ relations'[r] = UNION {Relations[p][file'[r][p]] : p \in Paths}
             /\ \A p \in Paths : errors'[r][p] = Errors[file'[r][p]]
  <2>1. file'[r] = after
    BY <1>1, <1>2, <1>5 DEF TableInv
  <2>2. gone \in SUBSET Paths /\ new \in SUBSET Paths /\ new \subseteq gone
    BY <1>2 DEF Knows, Vanished
  <2>3. \A p \in Paths : file[r][p] \in File
    BY <1>2, <1>5 DEF TableInv
  <2>4. \A p \in gone : seen[p] \in File /\ (p \notin new => seen[p] = Absent)
    <3>1. \A p \in Paths : seen[p] \in File
      BY <1>1, <1>2, <1>5 DEF Knows, Busy
    <3> QED
      BY <2>2, <3>1 DEF Vanished
  <2>5. \A p \in Paths : file'[r][p] = IF p \in gone THEN seen[p] ELSE file[r][p]
    BY <2>1
  <2> HIDE DEF gone, after, new, seen
  <2>6. symbols'[r] = UNION {Symbols[p][file'[r][p]] : p \in Paths}
    <3> DEFINE table == Symbols
               old == file[r]
               now == file'[r]
               before == symbols[r]
               rows == symbols'[r]
    <3>1. \A row : row \in before <=> \E p \in Paths : row \in table[p][old[p]]
      BY <1>5 DEF RowsInv, RowsFollowHashes
    <3>2. \A row : row \in rows <=> \/ row \in before /\ row[1] \notin gone
                                  \/ \E p \in new : row \in table[p][seen[p]]
      BY <1>1, <1>5 DEF RowsInv, Kept
    <3>3. /\ \A p \in Paths : table[p][Absent] = {}
          /\ \A p \in Paths : \A c \in File : \A row \in table[p][c] : row[1] = p
      BY RowsNamed
    <3>4. /\ \A p \in Paths : old[p] \in File
          /\ \A p \in Paths : now[p] = IF p \in gone THEN seen[p] ELSE old[p]
      BY <2>3, <2>5
    <3>5. \A row : row \in rows <=> \E p \in Paths : row \in table[p][now[p]]
      <4> HIDE DEF table, old, now, before, rows
      <4> QED
        BY <2>2, <2>4, <3>1, <3>2, <3>3, <3>4, RowsReplaced
    <3> QED
      BY <3>5
  <2>7. relations'[r] = UNION {Relations[p][file'[r][p]] : p \in Paths}
    <3> DEFINE table == Relations
               old == file[r]
               now == file'[r]
               before == relations[r]
               rows == relations'[r]
    <3>1. \A row : row \in before <=> \E p \in Paths : row \in table[p][old[p]]
      BY <1>5 DEF RowsInv, RowsFollowHashes
    <3>2. \A row : row \in rows <=> \/ row \in before /\ row[1] \notin gone
                                  \/ \E p \in new : row \in table[p][seen[p]]
      BY <1>1, <1>5 DEF RowsInv, Kept
    <3>3. /\ \A p \in Paths : table[p][Absent] = {}
          /\ \A p \in Paths : \A c \in File : \A row \in table[p][c] : row[1] = p
      BY RowsNamed
    <3>4. /\ \A p \in Paths : old[p] \in File
          /\ \A p \in Paths : now[p] = IF p \in gone THEN seen[p] ELSE old[p]
      BY <2>3, <2>5
    <3>5. \A row : row \in rows <=> \E p \in Paths : row \in table[p][now[p]]
      <4> HIDE DEF table, old, now, before, rows
      <4> QED
        BY <2>2, <2>4, <3>1, <3>2, <3>3, <3>4, RowsReplaced
    <3> QED
      BY <3>5
  <2>8. \A p \in Paths : errors'[r][p] = Errors[file'[r][p]]
    BY <1>1, <1>5, <2>5 DEF RowsInv, RowsFollowHashes
  <2> QED
    BY <2>6, <2>7, <2>8
<1>6. ASSUME NEW q \in Repos
      PROVE  /\ symbols'[q] = UNION {Symbols[p][file'[q][p]] : p \in Paths}
             /\ relations'[q] = UNION {Relations[p][file'[q][p]] : p \in Paths}
             /\ \A p \in Paths : errors'[q][p] = Errors[file'[q][p]]
  <2>1. CASE q = r
    BY <1>5, <2>1
  <2>2. CASE q # r
    BY <1>4, <2>2 DEF RowsInv, RowsFollowHashes
  <2> QED
    BY <2>1, <2>2
<1> QED
  BY <1>3, <1>6 DEF RowsInv, RowsFollowHashes

\* Whatever runs overlap, are abandoned or lose their root, the rows of a file are
\* those of the text its hash is of.
THEOREM RowsAreOfHashes == Spec => []RowsFollowHashes
<1>1. Init => RowsInv
  <2> SUFFICES ASSUME Init PROVE RowsInv
    OBVIOUS
  <2>1. ASSUME NEW r \in Repos
        PROVE  /\ symbols[r] = UNION {Symbols[p][file[r][p]] : p \in Paths}
               /\ relations[r] = UNION {Relations[p][file[r][p]] : p \in Paths}
               /\ \A p \in Paths : errors[r][p] = Errors[file[r][p]]
    <3>1. symbols[r] = {} /\ relations[r] = {} /\ \A p \in Paths : file[r][p] = Absent /\ errors[r][p] = 0
      BY DEF Init
    <3>2. Errors[Absent] = 0
      BY DEF Errors, File
    <3> QED
      BY <3>1, <3>2, RowsNamed
  <2> QED
    BY <2>1 DEF Init, RowsInv, RowsFollowHashes
<1>2. CodeInv /\ RowsInv /\ [Next]_vars => RowsInv'
  <2> SUFFICES ASSUME CodeInv, RowsInv, [Next]_vars PROVE RowsInv'
    OBVIOUS
  <2>1. CASE UNCHANGED <<file, symbols, relations, errors>>
    BY <2>1 DEF RowsInv, RowsFollowHashes
  <2>2. ASSUME NEW s \in Syncs, Begin(s) \/ Advance(s) \/ Fails(s)
        PROVE  RowsInv'
    <3>1. CASE Replace(s)
      BY <3>1, ReplaceRows
    <3>2. CASE Begin(s) \/ Open(s) \/ ReadHashes(s) \/ Fails(s) \/ \E p \in Paths : ReadSource(s, p)
      BY <2>1, <3>2 DEF Begin, Open, ReadHashes, Fails, ReadSource, tables
    <3> QED
      BY <2>2, <3>1, <3>2 DEF Advance
  <2>3. ASSUME NEW r \in Repos, NEW p \in Paths, NEW c \in File, Edit(r, p, c)
        PROVE  RowsInv'
    BY <2>1, <2>3 DEF Edit, tables
  <2>4. ASSUME NEW r \in Repos, MoveRoot(r)
        PROVE  RowsInv'
    BY <2>1, <2>4 DEF MoveRoot, tables
  <2>5. CASE UNCHANGED vars
    BY <2>1, <2>5 DEF vars, tables
  <2> QED
    BY <2>2, <2>3, <2>4, <2>5 DEF Next
<1>3. RowsInv => RowsFollowHashes
  BY DEF RowsInv
<1> QED
  BY <1>1, <1>2, <1>3, CodeInvariant, PTL DEF Spec

-------------------------------------------------------------------------------
(* The refinement of CodeMirror *)

\* What CodeMirror is told of a run.
Seen(s) == IF sync[s].repo = Last THEN recent[s] ELSE Quiet

Told == [s \in Syncs |-> Seen(s)]

Crossing == {s \in crossed : sync[s].repo = Last}

\* A step of run s that CodeMirror does not see.
LEMMA Unseen ==
  ASSUME CodeInv, NEW s \in Syncs, UNCHANGED disk, file'[Last] = file[Last],
         \A t \in Syncs \ {s} : sync'[t] = sync[t] /\ recent'[t] = recent[t],
         Seen(s)' = Seen(s),
         \A t \in Syncs : (t \in crossed' /\ sync'[t].repo = Last) <=> (t \in crossed /\ sync[t].repo = Last),
         crossed' \subseteq Syncs
  PROVE  UNCHANGED Mirror!vars
<1>1. \A t \in Syncs : Seen(t)' = Seen(t)
  BY DEF Seen
<1>2. UNCHANGED Told
  BY <1>1 DEF Told
<1>3. UNCHANGED Crossing
  BY DEF Crossing, CodeInv, TableInv
<1> QED
  BY <1>2, <1>3 DEF Mirror!vars, Told, Seen, Crossing

\* A transaction on the last repository is the commit of its run.
LEMMA ReplaceCommits ==
  ASSUME CodeInv, CodeInv', NEW s \in Syncs, Replace(s), sync[s].repo = Last
  PROVE  Mirror!Commit(s)
<1> DEFINE r == sync[s].repo
           seen == sync[s].seen
           gone == sync[s].changed \cup Vanished(seen, file[r])
<1>1. /\ UNCHANGED disk
      /\ sync[s].pc = "replace"
      /\ file' = [file EXCEPT ![r] = [p \in Paths |-> IF p \in gone THEN seen[p] ELSE file[r][p]]]
      /\ recent' = [recent EXCEPT ![s] = Quiet]
      /\ crossed' = (crossed \ {s}) \cup {t \in Syncs \ {s} : sync[t].repo = r /\ recent[t] # Quiet}
      /\ sync' = [sync EXCEPT ![s] = Onward(s, r)]
  BY DEF Replace, env
<1>2. Knows(s) /\ r \in Repos
  BY CodeAssumption DEF CodeInv, Repos
<1>3. file'[Last] \in [Paths -> File]
  BY <1>2 DEF CodeInv, TableInv
<1>4. ASSUME NEW p \in Paths
      PROVE  \/ file'[Last][p] \in Told[s][p]
             \/ s \in Crossing /\ file'[Last][p] = file[Last][p]
  <2>1. Told[s] = recent[s] /\ (s \in Crossing <=> s \in crossed)
    BY DEF Told, Seen, Crossing
  <2>2. file'[Last][p] = IF p \in gone THEN seen[p] ELSE file[Last][p]
    BY <1>1, <1>2 DEF CodeInv, TableInv
  <2>3. seen[p] \in recent[s][p]
    BY <1>1, <1>2 DEF Knows, Busy
  <2>4. CASE p \in gone
    BY <2>1, <2>2, <2>3, <2>4
  <2>5. CASE p \notin gone /\ s \notin crossed
    <3>1. file[Last][p] = seen[p]
      BY <1>1, <1>2, <2>5 DEF Knows, Vanished
    <3> QED
      BY <2>1, <2>2, <2>3, <2>5, <3>1
  <2>6. CASE p \notin gone /\ s \in crossed
    BY <2>1, <2>2, <2>6
  <2> QED
    BY <2>4, <2>5, <2>6
<1>5. \A t \in Syncs \ {s} : sync'[t] = sync[t] /\ recent'[t] = recent[t]
  BY <1>1 DEF CodeInv, TableInv
<1>6. Told' = [Told EXCEPT ![s] = Quiet]
  <2>1. Seen(s)' = Quiet
    BY <1>1 DEF Seen, CodeInv, TableInv
  <2>2. \A t \in Syncs \ {s} : Seen(t)' = Seen(t)
    BY <1>5 DEF Seen
  <2> QED
    BY <2>1, <2>2 DEF Told
<1>7. Crossing' = {t \in Syncs \ {s} : Told[t] # Quiet}
  <2>1. ASSUME NEW t \in Syncs \ {s}
        PROVE  t \in Crossing' <=> Told[t] # Quiet
    <3>1. t \in crossed => recent[t] # Quiet
      BY DEF CodeInv, Knows
    <3>2. Told[t] = IF sync[t].repo = Last THEN recent[t] ELSE Quiet
      BY DEF Told, Seen
    <3> QED
      BY <1>1, <1>5, <3>1, <3>2 DEF Crossing
  <2>2. s \notin Crossing' /\ Crossing' \subseteq Syncs
    BY <1>1 DEF Crossing, CodeInv, TableInv
  <2> QED
    BY <2>1, <2>2
<1>8. UNCHANGED disk[Last]
  BY <1>1
<1> HIDE DEF gone, seen, r
<1> QED
  BY <1>3, <1>4, <1>6, <1>7, <1>8
     DEF Mirror!Commit, Mirror!Idle, Mirror!File, Told, Seen, Crossing, Quiet, File

\* A run that is at no repository yet is not seen.
LEMMA NotSeen ==
  ASSUME CodeInv, NEW s \in Syncs, sync[s].pc \notin Busy
  PROVE  Seen(s) = Quiet /\ s \notin crossed
BY DEF CodeInv, Knows, Seen

\* A run that gives up fails if it was at the last repository.
LEMMA AbandonFails ==
  ASSUME CodeInv, NEW s \in Syncs, Abandon(s), UNCHANGED <<disk, file>>
  PROVE  [Mirror!Next]_(Mirror!vars)
<1>1. /\ sync' = [sync EXCEPT ![s] = Home]
      /\ recent' = [recent EXCEPT ![s] = Quiet]
      /\ crossed' = crossed \ {s}
  BY DEF Abandon
<1>2. \A t \in Syncs \ {s} : sync'[t] = sync[t] /\ recent'[t] = recent[t]
  BY <1>1 DEF CodeInv, TableInv
<1>3. Seen(s)' = Quiet
  BY <1>1 DEF Seen, CodeInv, TableInv
<1>4. Told' = [Told EXCEPT ![s] = Quiet]
  BY <1>2, <1>3 DEF Told, Seen
<1>5. Crossing' = Crossing \ {s}
  BY <1>1, <1>2 DEF Crossing, CodeInv, TableInv
<1>6. Mirror!Fail(s)
  BY <1>4, <1>5 DEF Mirror!Fail, Mirror!Idle, Told, Seen, Crossing, Quiet
<1> QED
  BY <1>6 DEF Mirror!Next

LEMMA OpenBegins ==
  ASSUME CodeInv, NEW s \in Syncs, Open(s)
  PROVE  [Mirror!Next]_(Mirror!vars)
<1>1. UNCHANGED <<disk, file>>
  BY DEF Open, env, tables
<1>2. CASE ~root[sync[s].repo]
  BY <1>1, <1>2, AbandonFails DEF Open
<1>3. CASE root[sync[s].repo]
  <2>1. /\ sync' = [sync EXCEPT ![s] = [sync[s] EXCEPT !.pc = "collect"]]
        /\ recent' = [recent EXCEPT ![s] = [p \in Paths |-> {disk[sync[s].repo][p]}]]
        /\ crossed' = crossed
    BY <1>3 DEF Open
  <2>2. \A t \in Syncs \ {s} : sync'[t] = sync[t] /\ recent'[t] = recent[t]
    BY <2>1 DEF CodeInv, TableInv
  <2>3. /\ sync'[s].repo = sync[s].repo
        /\ recent'[s] = [p \in Paths |-> {disk[sync[s].repo][p]}]
    BY <2>1 DEF CodeInv, TableInv, Knows
  <2>4. Seen(s) = Quiet /\ s \notin crossed
    BY NotSeen DEF Open, Busy
  <2>5. CASE sync[s].repo = Last
    <3>1. Told' = [Told EXCEPT ![s] = [p \in Paths |-> {disk[Last][p]}]]
      BY <2>2, <2>3, <2>5 DEF Told, Seen
    <3>2. Crossing' = Crossing
      BY <2>1, <2>2, <2>3 DEF Crossing, CodeInv, TableInv
    <3>3. Mirror!Begin(s)
      BY <1>1, <3>1, <3>2 DEF Mirror!Begin, Told, Seen, Crossing, Quiet
    <3> QED
      BY <3>3 DEF Mirror!Next
  <2>6. CASE sync[s].repo # Last
    <3>1. Seen(s)' = Seen(s)
      BY <2>3, <2>6 DEF Seen
    <3>2. crossed' \subseteq Syncs
      BY <2>1 DEF CodeInv, TableInv
    <3> QED
      BY <1>1, <2>1, <2>2, <2>3, <3>1, <3>2, Unseen
  <2> QED
    BY <2>5, <2>6
<1> QED
  BY <1>2, <1>3

LEMMA BeginUnseen ==
  ASSUME CodeInv, NEW s \in Syncs, Begin(s)
  PROVE  UNCHANGED Mirror!vars
<1>1. UNCHANGED <<disk, file, recent, crossed>>
  BY DEF Begin, env, tables
<1>2. sync[s].pc = "idle" /\ sync' = [sync EXCEPT ![s] = Onward(s, 0)]
  BY DEF Begin
<1>3. Seen(s) = Quiet /\ s \notin crossed /\ recent[s] = Quiet
  BY <1>2 DEF CodeInv, Knows, Seen, Busy
<1>4. Seen(s)' = Seen(s)
  BY <1>1, <1>3 DEF Seen
<1>5. \A t \in Syncs \ {s} : sync'[t] = sync[t] /\ recent'[t] = recent[t]
  BY <1>1, <1>2 DEF CodeInv, TableInv
<1>6. crossed' \subseteq Syncs
  BY <1>1 DEF CodeInv, TableInv
<1> QED
  BY <1>1, <1>3, <1>4, <1>5, <1>6, Unseen

LEMMA LooksUnseen ==
  ASSUME CodeInv, NEW s \in Syncs, ReadHashes(s) \/ \E p \in Paths : ReadSource(s, p)
  PROVE  UNCHANGED Mirror!vars
<1>1. UNCHANGED <<disk, file, recent, crossed>>
  BY DEF ReadHashes, ReadSource, env, tables
<1>2. \A t \in Syncs \ {s} : sync'[t] = sync[t]
  BY DEF ReadHashes, ReadSource, CodeInv, TableInv
<1>3. sync'[s].repo = sync[s].repo
  BY DEF ReadHashes, ReadSource, CodeInv, TableInv, Knows
<1>4. Seen(s)' = Seen(s)
  BY <1>1, <1>3 DEF Seen
<1>5. crossed' \subseteq Syncs
  BY <1>1 DEF CodeInv, TableInv
<1> QED
  BY <1>1, <1>2, <1>3, <1>4, <1>5, Unseen

\* A transaction on another repository.
LEMMA ReplaceUnseen ==
  ASSUME CodeInv, NEW s \in Syncs, Replace(s), sync[s].repo # Last
  PROVE  UNCHANGED Mirror!vars
<1> DEFINE r == sync[s].repo
<1>1. /\ UNCHANGED disk
      /\ \E after : file' = [file EXCEPT ![r] = after]
      /\ recent' = [recent EXCEPT ![s] = Quiet]
      /\ crossed' = (crossed \ {s}) \cup {t \in Syncs \ {s} : sync[t].repo = r /\ recent[t] # Quiet}
      /\ sync' = [sync EXCEPT ![s] = Onward(s, r)]
  BY DEF Replace, env
<1>2. file'[Last] = file[Last]
  BY <1>1, CodeAssumption DEF CodeInv, TableInv, Repos
<1>3. \A t \in Syncs \ {s} : sync'[t] = sync[t] /\ recent'[t] = recent[t]
  BY <1>1 DEF CodeInv, TableInv
<1>4. Seen(s)' = Seen(s)
  BY <1>1 DEF Seen, CodeInv, TableInv
<1>5. \A t \in Syncs : (t \in crossed' /\ sync'[t].repo = Last) <=> (t \in crossed /\ sync[t].repo = Last)
  BY <1>1, <1>3
<1>6. crossed' \subseteq Syncs
  BY <1>1 DEF CodeInv, TableInv
<1> QED
  BY <1>1, <1>2, <1>3, <1>4, <1>5, <1>6, Unseen

\* An edit of the last repository is one of its source, and the runs at work on it
\* may have read either text.
LEMMA EditEdits ==
  ASSUME CodeInv, NEW r \in Repos, NEW q \in Paths, NEW c \in File, Edit(r, q, c)
  PROVE  [Mirror!Next]_(Mirror!vars)
<1>1. UNCHANGED <<file, sync, crossed>> /\ disk' = [disk EXCEPT ![r] = [disk[r] EXCEPT ![q] = c]]
  BY DEF Edit, tables
<1>2. recent' = [s \in Syncs |->
        IF sync[s].repo = r /\ recent[s] # Quiet THEN [recent[s] EXCEPT ![q] = @ \cup {c}]
        ELSE recent[s]]
  BY DEF Edit
<1>3. Crossing' = Crossing
  BY <1>1 DEF Crossing
<1>4. CASE r = Last
  <2>1. disk'[Last] = [disk[Last] EXCEPT ![q] = c]
    BY <1>1, <1>4 DEF CodeInv, TableInv
  <2>2. \A s \in Syncs : Seen(s)' =
          IF Seen(s) = Quiet THEN Quiet ELSE [Seen(s) EXCEPT ![q] = @ \cup {c}]
    BY <1>1, <1>2, <1>4 DEF Seen
  <2>3. Told' = [s \in Syncs |-> IF Told[s] = Quiet THEN Quiet
                                 ELSE [Told[s] EXCEPT ![q] = @ \cup {c}]]
    BY <2>2 DEF Told
  <2>4. Mirror!Edit(q, c)
    BY <1>1, <1>3, <2>1, <2>3 DEF Mirror!Edit, Mirror!Idle, Told, Seen, Crossing, Quiet
  <2> QED
    BY <2>4 DEF Mirror!Next, Mirror!File, File
<1>5. CASE r # Last
  <2>1. disk'[Last] = disk[Last]
    BY <1>1, <1>5, CodeAssumption DEF CodeInv, TableInv, Repos
  <2>2. \A s \in Syncs : Seen(s)' = Seen(s)
    BY <1>1, <1>2, <1>5 DEF Seen
  <2>3. Told' = Told
    BY <2>2 DEF Told
  <2> QED
    BY <1>1, <1>3, <2>1, <2>3 DEF Mirror!vars, Told, Seen, Crossing
<1> QED
  BY <1>4, <1>5

\* Through all the runs that overlap on the last repository, fail at it or never
\* come to it, the index is a mirror of it that changes by synchronizations only.
THEOREM IndexMirrors == Spec => MirrorsRepository
<1>1. Init => Mirror!Init
  <2> SUFFICES ASSUME Init PROVE Mirror!Init
    OBVIOUS
  <2>1. Last \in Repos
    BY CodeAssumption DEF Repos
  <2>2. disk[Last] \in [Paths -> Mirror!File] /\ file[Last] = [p \in Paths |-> Absent]
    BY <2>1, CodeAssumption DEF Init, Mirror!File, File
  <2>3. Told = [s \in Syncs |-> Quiet]
    BY DEF Init, Told, Seen
  <2>4. Crossing = {}
    BY DEF Init, Crossing
  <2> QED
    BY <2>2, <2>3, <2>4 DEF Mirror!Init, Mirror!Idle, Told, Seen, Crossing, Quiet
<1>2. CodeInv /\ CodeInv' /\ [Next]_vars => [Mirror!Next]_(Mirror!vars)
  <2> SUFFICES ASSUME CodeInv, CodeInv', [Next]_vars PROVE [Mirror!Next]_(Mirror!vars)
    OBVIOUS
  <2>1. ASSUME NEW s \in Syncs, Begin(s) \/ Advance(s) \/ Fails(s)
        PROVE  [Mirror!Next]_(Mirror!vars)
    <3>1. CASE Begin(s) \/ ReadHashes(s) \/ \E p \in Paths : ReadSource(s, p)
      BY <3>1, BeginUnseen, LooksUnseen
    <3>2. CASE Open(s)
      BY <3>2, OpenBegins
    <3>3. CASE Replace(s) /\ sync[s].repo = Last
      BY <3>3, ReplaceCommits DEF Mirror!Next
    <3>4. CASE Replace(s) /\ sync[s].repo # Last
      BY <3>4, ReplaceUnseen
    <3>5. CASE Fails(s)
      BY <3>5, AbandonFails DEF Fails, env, tables
    <3> QED
      BY <2>1, <3>1, <3>2, <3>3, <3>4, <3>5 DEF Advance
  <2>2. ASSUME NEW r \in Repos, NEW p \in Paths, NEW c \in File, Edit(r, p, c)
        PROVE  [Mirror!Next]_(Mirror!vars)
    BY <2>2, EditEdits
  <2>3. CASE UNCHANGED <<disk, file, sync, recent, crossed>>
    <3>1. UNCHANGED Told
      BY <2>3 DEF Told, Seen
    <3>2. UNCHANGED Crossing
      BY <2>3 DEF Crossing
    <3> QED
      BY <2>3, <3>1, <3>2 DEF Mirror!vars, Told, Seen, Crossing
  <2>4. ASSUME NEW r \in Repos, MoveRoot(r)
        PROVE  [Mirror!Next]_(Mirror!vars)
    BY <2>3, <2>4 DEF MoveRoot, tables
  <2>5. CASE UNCHANGED vars
    BY <2>3, <2>5 DEF vars, env, tables
  <2> QED
    BY <2>1, <2>2, <2>4, <2>5 DEF Next
<1> QED
  BY <1>1, <1>2, CodeInvariant, PTL DEF Spec, MirrorsRepository, Mirror!Spec

-------------------------------------------------------------------------------
(* Types. That a run is always at a repository there is needs the first one of *)
(* those left to exist, and that the error counts are numbers that a tree has  *)
(* finitely many nodes.                                                        *)

LEMMA LeastNumber ==
  ASSUME NEW S \in SUBSET Nat, S # {}
  PROVE  \E q \in S : \A o \in S : q <= o
<1>1. PICK q \in S : \A o \in S : <<o, q>> \notin OpToRel(<, Nat)
  BY NatLessThanWellFounded, WFMin
<1>2. \A o \in S : ~(o < q)
  BY <1>1 DEF OpToRel
<1> QED
  BY <1>2

Runs == [pc: {"idle", "open", "collect", "replace"}, repo: Repos,
         seen: [Paths -> File \cup {Unread}], changed: SUBSET Paths]

LEMMA HomeTyped == Home \in Runs /\ Home.changed = {} /\ Home.pc = "idle"
<1>1. 1 \in Repos
  BY CodeAssumption DEF Repos
<1>2. Blank \in [Paths -> File \cup {Unread}]
  BY DEF Blank
<1> QED
  BY <1>1, <1>2 DEF Home, Runs

\* The source a run comes to next is one of the configuration.
LEMMA OnwardTyped ==
  ASSUME NEW s \in Syncs, NEW r
  PROVE  Onward(s, r) \in Runs /\ Onward(s, r).changed = {} /\ Onward(s, r).pc # "replace"
<1> DEFINE rest == {q \in Selected[s] : q > r}
<1>1. rest \subseteq Repos /\ Repos \subseteq Nat
  BY CodeAssumption DEF Repos
<1>2. CASE rest = {}
  BY <1>2, HomeTyped DEF Onward
<1>3. CASE rest # {}
  <2>1. \E q \in rest : \A o \in rest : q <= o
    BY <1>1, <1>3, LeastNumber
  <2>2. PICK q \in rest : q = CHOOSE x \in rest : \A o \in rest : x <= o
    BY <2>1
  <2>3. Onward(s, r) = [Home EXCEPT !.pc = "open", !.repo = q]
    BY <1>3, <2>2 DEF Onward
  <2> QED
    BY <1>1, <2>3, HomeTyped DEF Runs
<1> QED
  BY <1>2, <1>3

\* The number of errors is one.
LEMMA ErrorsTyped == \A c \in File : Errors[c] \in Nat
<1>1. Errors[Absent] = 0
  BY DEF Errors, File
<1>2. ASSUME NEW c \in Contents PROVE Errors[c] \in Nat
  <2> DEFINE bad == {i \in DOMAIN Tree[c] : Tree[c][i].kind = "ERROR" \/ Tree[c][i].missing}
  <2>1. IsFiniteSet(DOMAIN Tree[c])
    BY CodeAssumption, FS_Interval
  <2>2. Cardinality(bad) \in Nat
    BY <2>1, FS_Subset, FS_CardinalityType
  <2>3. Errors[c] = Cardinality(bad)
    BY CodeAssumption DEF Errors, File, Parsed, Parse
  <2> QED
    BY <2>2, <2>3
<1> QED
  BY <1>1, <1>2 DEF File

PlainTypes ==
  /\ disk \in [Repos -> [Paths -> File]] /\ root \in [Repos -> BOOLEAN]
  /\ file \in [Repos -> [Paths -> File]]
  /\ errors \in [Repos -> [Paths -> Nat]]
  /\ sync \in [Syncs -> Runs]
  /\ recent \in [Syncs -> [Paths -> SUBSET File]]
  /\ budget \in [edits: [Repos -> Nat], faults: Nat]

\* What a run takes for changed it learns last.
ChangedLate == \A s \in Syncs : sync[s].pc # "replace" => sync[s].changed = {}

TypeInv == CodeInv /\ PlainTypes /\ ChangedLate

LEMMA TypesFollow == TypeInv => TypeOK
<1> SUFFICES ASSUME TypeInv PROVE TypeOK
  OBVIOUS
<1>1. ASSUME NEW s \in Syncs, NEW p \in sync[s].changed
      PROVE  sync[s].seen[p] \in Contents
  <2>1. sync[s].pc = "replace" /\ sync[s].repo \in Repos /\ p \in Paths
    BY <1>1 DEF TypeInv, PlainTypes, ChangedLate, Runs
  <2>2. Knows(s)
    BY DEF TypeInv, CodeInv
  <2> QED
    BY <1>1, <2>1, <2>2 DEF Knows, Busy, File
<1>2. crossed \subseteq {s \in Syncs : sync[s].pc \in {"collect", "replace"}}
  BY DEF TypeInv, CodeInv, TableInv, Knows, Busy
<1> QED
  BY <1>1, <1>2 DEF TypeInv, PlainTypes, TypeOK, Runs

\* A run that moves on, as it may.
LEMMA RunTyped ==
  ASSUME PlainTypes, ChangedLate, NEW s \in Syncs, NEW v \in Runs,
         v.pc # "replace" => v.changed = {}, sync' = [sync EXCEPT ![s] = v],
         NEW w \in [Paths -> SUBSET File],
         recent' = recent \/ recent' = [recent EXCEPT ![s] = w],
         UNCHANGED <<disk, root, file, errors>>,
         budget' \in [edits: [Repos -> Nat], faults: Nat]
  PROVE  PlainTypes' /\ ChangedLate'
<1>1. PlainTypes'
  BY DEF PlainTypes
<1>2. ChangedLate'
  BY DEF PlainTypes, ChangedLate
<1> QED
  BY <1>1, <1>2

LEMMA QuietTyped == Quiet \in [Paths -> SUBSET File]
BY DEF Quiet

LEMMA AbandonTyped ==
  ASSUME PlainTypes, ChangedLate, NEW s \in Syncs, Abandon(s),
         UNCHANGED <<disk, root, file, errors>>,
         budget' \in [edits: [Repos -> Nat], faults: Nat]
  PROVE  PlainTypes' /\ ChangedLate'
BY HomeTyped, QuietTyped, RunTyped DEF Abandon

LEMMA RunStepTyped ==
  ASSUME PlainTypes, ChangedLate, NEW s \in Syncs,
         Begin(s) \/ Open(s) \/ (\E p \in Paths : ReadSource(s, p)) \/ ReadHashes(s) \/ Fails(s)
  PROVE  PlainTypes' /\ ChangedLate'
<1>1. /\ UNCHANGED <<disk, root, file, errors>>
      /\ budget' \in [edits: [Repos -> Nat], faults: Nat]
  BY SMTT(30) DEF Begin, Open, ReadSource, ReadHashes, Fails, env, tables, PlainTypes
<1>2. sync[s] \in Runs
  BY DEF PlainTypes
<1>3. CASE Begin(s)
  <2>1. sync' = [sync EXCEPT ![s] = Onward(s, 0)] /\ recent' = recent
    BY <1>3 DEF Begin
  <2> QED
    BY <1>1, <2>1, OnwardTyped, QuietTyped, RunTyped
<1>4. CASE Open(s) /\ root[sync[s].repo]
  <2>1. PICK v : v = [sync[s] EXCEPT !.pc = "collect"]
    OBVIOUS
  <2>2. v \in Runs /\ v.changed = {}
    BY <1>2, <1>4, <2>1 DEF Runs, ChangedLate, Open
  <2>3. PICK w : w = [p \in Paths |-> {disk[sync[s].repo][p]}]
    OBVIOUS
  <2>4. w \in [Paths -> SUBSET File]
    BY <1>2, <2>3 DEF PlainTypes, Runs
  <2>5. sync' = [sync EXCEPT ![s] = v] /\ recent' = [recent EXCEPT ![s] = w]
    BY <1>4, <2>1, <2>3 DEF Open
  <2> QED
    BY <1>1, <2>2, <2>4, <2>5, RunTyped
<1>5. CASE (Open(s) /\ ~root[sync[s].repo]) \/ Fails(s)
  BY <1>1, <1>5, AbandonTyped DEF Open, Fails
<1>6. ASSUME NEW p \in Paths, ReadSource(s, p)
      PROVE  PlainTypes' /\ ChangedLate'
  <2>1. PICK seen : seen = [sync[s].seen EXCEPT ![p] = disk[sync[s].repo][p]]
    OBVIOUS
  <2>2. seen \in [Paths -> File \cup {Unread}]
    BY <1>2, <2>1 DEF PlainTypes, Runs
  <2>3. PICK v : v = [sync[s] EXCEPT !.seen = seen]
    OBVIOUS
  <2>4. v \in Runs /\ v.changed = {}
    BY <1>2, <1>6, <2>2, <2>3 DEF Runs, ChangedLate, ReadSource
  <2>5. sync' = [sync EXCEPT ![s] = v] /\ recent' = recent
    BY <1>6, <2>1, <2>3 DEF ReadSource
  <2> QED
    BY <1>1, <2>4, <2>5, QuietTyped, RunTyped
<1>7. CASE ReadHashes(s)
  <2>1. PICK new : new = Changed(sync[s].seen, file[sync[s].repo])
    OBVIOUS
  <2>2. PICK v : v = [sync[s] EXCEPT !.pc = "replace", !.changed = new]
    OBVIOUS
  <2>3. v \in Runs /\ v.pc = "replace"
    BY <1>2, <2>1, <2>2 DEF Runs, Changed
  <2>4. sync' = [sync EXCEPT ![s] = v] /\ recent' = recent
    BY <1>7, <2>1, <2>2 DEF ReadHashes
  <2> QED
    BY <1>1, <2>3, <2>4, QuietTyped, RunTyped
<1> QED
  BY <1>3, <1>4, <1>5, <1>6, <1>7

\* The transaction writes what was read, and counts errors.
LEMMA ReplaceTyped ==
  ASSUME TypeInv, NEW s \in Syncs, Replace(s)
  PROVE  PlainTypes' /\ ChangedLate'
<1>1. PICK r \in Repos : r = sync[s].repo
  BY DEF TypeInv, PlainTypes, Runs
<1>2. PICK seen : seen = sync[s].seen
  OBVIOUS
<1>3. PICK gone : gone = sync[s].changed \cup Vanished(seen, file[r])
  OBVIOUS
<1>4. /\ UNCHANGED <<disk, root, budget>> /\ sync[s].pc = "replace"
      /\ file' = [file EXCEPT ![r] = [p \in Paths |-> IF p \in gone THEN seen[p] ELSE file[r][p]]]
      /\ errors' = [errors EXCEPT ![r] =
           [p \in Paths |-> IF p \in gone THEN Errors[seen[p]] ELSE errors[r][p]]]
      /\ recent' = [recent EXCEPT ![s] = Quiet]
      /\ sync' = [sync EXCEPT ![s] = Onward(s, r)]
  BY <1>1, <1>2, <1>3 DEF Replace, env
<1>5. \A p \in Paths : seen[p] \in File
  BY <1>1, <1>2, <1>4 DEF TypeInv, CodeInv, Knows, Busy
<1>6. /\ [p \in Paths |-> IF p \in gone THEN seen[p] ELSE file[r][p]] \in [Paths -> File]
      /\ [p \in Paths |-> IF p \in gone THEN Errors[seen[p]] ELSE errors[r][p]] \in [Paths -> Nat]
  BY <1>5, ErrorsTyped DEF TypeInv, PlainTypes
<1>7. file' \in [Repos -> [Paths -> File]] /\ errors' \in [Repos -> [Paths -> Nat]]
  BY <1>4, <1>6 DEF TypeInv, PlainTypes
<1>8. sync' \in [Syncs -> Runs] /\ recent' \in [Syncs -> [Paths -> SUBSET File]]
  BY <1>4, OnwardTyped, QuietTyped DEF TypeInv, PlainTypes
<1>9. PlainTypes'
  BY <1>4, <1>7, <1>8 DEF TypeInv, PlainTypes
<1>10. ChangedLate'
  BY <1>4, OnwardTyped DEF TypeInv, PlainTypes, ChangedLate
<1> QED
  BY <1>9, <1>10

LEMMA EditTyped ==
  ASSUME PlainTypes, ChangedLate, NEW r \in Repos, NEW q \in Paths, NEW c \in File, Edit(r, q, c)
  PROVE  PlainTypes' /\ ChangedLate'
<1>1. UNCHANGED <<root, file, errors, sync>>
  BY DEF Edit, tables
<1>2. disk' \in [Repos -> [Paths -> File]]
  BY DEF Edit, PlainTypes
<1>3. recent' \in [Syncs -> [Paths -> SUBSET File]]
  <2>1. \A s \in Syncs : [recent[s] EXCEPT ![q] = @ \cup {c}] \in [Paths -> SUBSET File]
    BY DEF PlainTypes
  <2>2. recent' = [s \in Syncs |-> IF sync[s].repo = r /\ recent[s] # Quiet
                                     THEN [recent[s] EXCEPT ![q] = @ \cup {c}] ELSE recent[s]]
    BY DEF Edit
  <2> QED
    BY <2>1, <2>2 DEF PlainTypes
<1>4. budget' \in [edits: [Repos -> Nat], faults: Nat]
  <2>1. PICK left \in Nat : left = budget.edits[r] - 1
    BY DEF Edit, PlainTypes
  <2>2. budget' = [budget EXCEPT !.edits = [budget.edits EXCEPT ![r] = left]]
    BY <2>1 DEF Edit
  <2> QED
    BY <2>2 DEF PlainTypes
<1> QED
  BY <1>1, <1>2, <1>3, <1>4 DEF PlainTypes, ChangedLate

\* Every variable has its type, in particular no run goes to a repository there is
\* not, and the files a transaction inserts have texts.
THEOREM IndexTyped == Spec => []TypeOK
<1>1. Init => PlainTypes /\ ChangedLate
  <2> SUFFICES ASSUME Init PROVE PlainTypes /\ ChangedLate
    OBVIOUS
  <2>1. disk \in [Repos -> [Paths -> File]] /\ budget \in [edits: [Repos -> Nat], faults: Nat]
    BY CodeAssumption DEF Init
  <2>2. sync = [s \in Syncs |-> Home] /\ recent = [s \in Syncs |-> Quiet]
    BY DEF Init
  <2> QED
    BY <2>1, <2>2, HomeTyped, QuietTyped DEF Init, PlainTypes, ChangedLate, File
<1>2. TypeInv /\ [Next]_vars => PlainTypes' /\ ChangedLate'
  <2> SUFFICES ASSUME TypeInv, [Next]_vars PROVE PlainTypes' /\ ChangedLate'
    OBVIOUS
  <2>1. PlainTypes /\ ChangedLate
    BY DEF TypeInv
  <2>2. ASSUME NEW s \in Syncs, Begin(s) \/ Advance(s) \/ Fails(s)
        PROVE  PlainTypes' /\ ChangedLate'
    BY <2>1, <2>2, RunStepTyped, ReplaceTyped DEF Advance
  <2>3. ASSUME NEW r \in Repos, NEW p \in Paths, NEW c \in File, Edit(r, p, c)
        PROVE  PlainTypes' /\ ChangedLate'
    BY <2>1, <2>3, EditTyped
  <2>4. ASSUME NEW r \in Repos, MoveRoot(r)
        PROVE  PlainTypes' /\ ChangedLate'
    <3>1. root' \in [Repos -> BOOLEAN]
      <4>1. root' = [root EXCEPT ![r] = ~root[r]]
        BY <2>4 DEF MoveRoot
      <4>2. root \in [Repos -> BOOLEAN]
        BY <2>1 DEF PlainTypes
      <4>3. PICK there \in BOOLEAN : there = ~root[r]
        OBVIOUS
      <4> QED
        BY <4>1, <4>2, <4>3
    <3>2. budget' \in [edits: [Repos -> Nat], faults: Nat]
      <4>1. budget.faults > 0 /\ budget' = [budget EXCEPT !.faults = budget.faults - 1]
        BY <2>4 DEF MoveRoot
      <4>2. budget \in [edits: [Repos -> Nat], faults: Nat]
        BY <2>1 DEF PlainTypes
      <4>3. budget.faults - 1 \in Nat
        BY <4>1, <4>2
      <4> QED
        BY <4>1, <4>2, <4>3
    <3> QED
      BY <2>1, <2>4, <3>1, <3>2 DEF MoveRoot, tables, PlainTypes, ChangedLate
  <2>5. CASE UNCHANGED vars
    BY <2>1, <2>5 DEF vars, env, tables, PlainTypes, ChangedLate
  <2> QED
    BY <2>2, <2>3, <2>4, <2>5 DEF Next
<1> QED
  BY <1>1, <1>2, CodeInvariant, TypesFollow, PTL DEF Spec, TypeInv

-------------------------------------------------------------------------------
(* Keys. The ordinal tells apart the nodes of one identity; an identifier is an  *)
(* identity with its ordinal.                                                   *)

\* The nodes before i of the same identity, which the ordinal counts.
Equals(f, i) == {j \in DOMAIN f : j < i /\ f[j] = f[i]}

\* Of two nodes with one identity the later one has the greater ordinal.
LEMMA OrdinalGrows ==
  ASSUME NEW n \in Nat, NEW f, DOMAIN f \subseteq 1..n,
         NEW i \in DOMAIN f, NEW j \in DOMAIN f, f[i] = f[j], i < j
  PROVE  Ordinal(f, i) \in Nat /\ Ordinal(f, j) \in Nat /\ Ordinal(f, i) < Ordinal(f, j)
<1>1. IsFiniteSet(1..n)
  BY FS_Interval
<1>2. IsFiniteSet(Equals(f, j)) /\ IsFiniteSet(Equals(f, i))
  BY <1>1, FS_Subset DEF Equals
<1>3. Equals(f, i) \subseteq Equals(f, j) /\ i \in Equals(f, j) /\ i \notin Equals(f, i)
  BY DEF Equals
<1>4. /\ Cardinality(Equals(f, i)) <= Cardinality(Equals(f, j))
      /\ Cardinality(Equals(f, i)) # Cardinality(Equals(f, j))
  BY <1>2, <1>3, FS_Subset
<1>5. Cardinality(Equals(f, i)) \in Nat /\ Cardinality(Equals(f, j)) \in Nat
  BY <1>2, FS_CardinalityType
<1> QED
  BY <1>4, <1>5 DEF Ordinal, Equals

LEMMA OrdinalsDiffer ==
  ASSUME NEW n \in Nat, NEW f, DOMAIN f \subseteq 1..n,
         NEW i \in DOMAIN f, NEW j \in DOMAIN f, f[i] = f[j], Ordinal(f, i) = Ordinal(f, j)
  PROVE  i = j
<1>1. i \in Nat /\ j \in Nat
  OBVIOUS
<1>2. CASE i < j
  BY <1>2, OrdinalGrows
<1>3. CASE j < i
  BY <1>3, OrdinalGrows
<1> QED
  BY <1>1, <1>2, <1>3

\* No two symbols and no two relations of a tree have one identifier.
LEMMA KeysDiffer ==
  ASSUME NEW lang, NEW src, Len(src) \in Nat, DOMAIN src = 1..Len(src)
  PROVE  DistinctKeys(lang, src)
<1>1. \A i, j \in DOMAIN SymbolIds(lang, src) :
        SymbolIds(lang, src)[i] = SymbolIds(lang, src)[j] => i = j
  <2> DEFINE scope == Scope(lang, src)
             identity == [i \in Definitions(lang, src) |->
                            <<SymbolKind[lang][src[i].kind], scope[i].path, src[i].text>>]
  <2>1. SymbolIds(lang, src) =
          [i \in Definitions(lang, src) |-> Append(identity[i], Ordinal(identity, i))]
    BY DEF SymbolIds
  <2>2. DOMAIN identity = Definitions(lang, src) /\ Definitions(lang, src) \subseteq 1..Len(src)
    BY DEF Definitions
  <2>3. \A i \in Definitions(lang, src) : \E a, b, c : identity[i] = <<a, b, c>>
    OBVIOUS
  <2> HIDE DEF identity
  <2>4. ASSUME NEW i \in Definitions(lang, src), NEW j \in Definitions(lang, src),
               Append(identity[i], Ordinal(identity, i)) = Append(identity[j], Ordinal(identity, j))
        PROVE  i = j
    <3>1. PICK a, b, c : identity[i] = <<a, b, c>>
      BY <2>3
    <3>2. PICK d, e, f : identity[j] = <<d, e, f>>
      BY <2>3
    <3>3. <<a, b, c, Ordinal(identity, i)>> = <<d, e, f, Ordinal(identity, j)>>
      BY <2>4, <3>1, <3>2
    <3>4. identity[i] = identity[j] /\ Ordinal(identity, i) = Ordinal(identity, j)
      BY <3>1, <3>2, <3>3
    <3> QED
      BY <2>2, <3>4, OrdinalsDiffer
  <2> QED
    BY <2>1, <2>4
<1>2. \A i, j \in DOMAIN RelationIds(lang, src) :
        RelationIds(lang, src)[i] = RelationIds(lang, src)[j] => i = j
  <2> DEFINE scope == Scope(lang, src)
             symbol == SymbolIds(lang, src)
             Within(i) == IF scope[i].symbol = 0 THEN None ELSE symbol[scope[i].symbol]
             defs == Definitions(lang, src)
             nodes == defs \cup {j \in DOMAIN src : Mention(src, j) # None}
             identity == [i \in nodes |->
                IF i \in defs
                  THEN <<Within(src[i].up), "contains", symbol[i], None, None>>
                  ELSE <<Within(i), Mention(src, i), None, src[i].name, src[i].text>>]
  <2>1. RelationIds(lang, src) =
          [i \in nodes |-> Append(identity[i], Ordinal(identity, i))]
    BY DEF RelationIds
  <2>2. DOMAIN identity = nodes /\ nodes \subseteq 1..Len(src)
    BY DEF Definitions
  <2>3. \A i \in nodes : \E a, b, c, d, e : identity[i] = <<a, b, c, d, e>>
    OBVIOUS
  <2> HIDE DEF identity, nodes
  <2>4. ASSUME NEW i \in nodes, NEW j \in nodes,
               Append(identity[i], Ordinal(identity, i)) = Append(identity[j], Ordinal(identity, j))
        PROVE  i = j
    <3>1. PICK a, b, c, d, e : identity[i] = <<a, b, c, d, e>>
      BY <2>3
    <3>2. PICK k, l, m, o, q : identity[j] = <<k, l, m, o, q>>
      BY <2>3
    <3>3. <<a, b, c, d, e, Ordinal(identity, i)>> = <<k, l, m, o, q, Ordinal(identity, j)>>
      BY <2>4, <3>1, <3>2
    <3>4. identity[i] = identity[j] /\ Ordinal(identity, i) = Ordinal(identity, j)
      BY <3>1, <3>2, <3>3
    <3> QED
      BY <2>2, <3>4, OrdinalsDiffer
  <2> QED
    BY <2>1, <2>4
<1> QED
  BY <1>1, <1>2 DEF DistinctKeys

\* No transaction fails on a key of its own, whatever the tree of a text repeats.
THEOREM KeysStayFresh == Spec => []KeysAreFresh
<1>1. TypeOK => KeysAreFresh
  <2>1. \A c \in Contents : DistinctKeys(Language, Tree[c])
    BY KeysDiffer, CodeAssumption
  <2> QED
    BY <2>1 DEF TypeOK, KeysAreFresh, Insertable
<1> QED
  BY <1>1, IndexTyped, PTL

-------------------------------------------------------------------------------
(* Reports. *)

ReportInv == report.repo # 0 => report.repo \in Repos /\ Status(report.repo).files = report.scanned

LEMMA ReportStep ==
  ASSUME CodeInv, TypeOK, ReportInv, [Next]_vars
  PROVE  ReportInv'
<1>1. CASE UNCHANGED <<file, report>>
  BY <1>1 DEF ReportInv, Status
<1>2. ASSUME NEW s \in Syncs, Replace(s)
      PROVE  ReportInv'
  <2>1. PICK r \in Repos : r = sync[s].repo
    BY DEF TypeOK
  <2>2. PICK seen : seen = sync[s].seen
    OBVIOUS
  <2>3. PICK gone : gone = sync[s].changed \cup Vanished(seen, file[r])
    OBVIOUS
  <2>4. /\ sync[s].pc = "replace"
        /\ file' = [file EXCEPT ![r] = [p \in Paths |-> IF p \in gone THEN seen[p] ELSE file[r][p]]]
        /\ report' = IF s \in crossed THEN [repo |-> 0, scanned |-> 0]
                     ELSE [repo |-> r, scanned |-> Cardinality({p \in Paths : seen[p] # Absent})]
    BY <1>2, <2>1, <2>2, <2>3 DEF Replace
  <2>5. CASE s \in crossed
    BY <2>4, <2>5 DEF ReportInv
  <2>6. CASE s \notin crossed
    <3>1. ASSUME NEW p \in Paths
          PROVE  seen[p] # Absent <=> file'[r][p] # Absent
      <4>1. file'[r][p] = IF p \in gone THEN seen[p] ELSE file[r][p]
        BY <2>4 DEF TypeOK
      <4>2. Knows(s)
        BY DEF CodeInv
      <4> QED
        BY <2>1, <2>2, <2>3, <2>4, <2>6, <4>1, <4>2 DEF Knows, Vanished
    <3>2. {p \in Paths : seen[p] # Absent} = {p \in Paths : file'[r][p] # Absent}
      BY <3>1
    <3> QED
      BY <2>4, <2>6, <3>2 DEF ReportInv, Status
  <2> QED
    BY <2>5, <2>6
<1>3. ASSUME NEW s \in Syncs, Begin(s) \/ Advance(s) \/ Fails(s)
      PROVE  ReportInv'
  <2>1. CASE Begin(s) \/ Open(s) \/ ReadHashes(s) \/ Fails(s) \/ \E p \in Paths : ReadSource(s, p)
    BY <1>1, <2>1 DEF Begin, Open, ReadHashes, Fails, ReadSource, tables
  <2> QED
    BY <1>2, <1>3, <2>1 DEF Advance
<1>4. ASSUME NEW r \in Repos, NEW p \in Paths, NEW c \in File, Edit(r, p, c)
      PROVE  ReportInv'
  BY <1>1, <1>4 DEF Edit, tables
<1>5. ASSUME NEW r \in Repos, MoveRoot(r)
      PROVE  ReportInv'
  BY <1>1, <1>5 DEF MoveRoot, tables
<1>6. CASE UNCHANGED vars
  BY <1>1, <1>6 DEF vars, tables
<1> QED
  BY <1>3, <1>4, <1>5, <1>6 DEF Next

\* The files a sync reports to have scanned are those the index then has, as long as
\* no other run crossed it and until the next transaction.
THEOREM ReportsMatchStatus == Spec => []ReportMatchesStatus
<1>1. Init => ReportInv
  BY DEF Init, ReportInv
<1>2. ReportInv => ReportMatchesStatus
  BY DEF ReportInv, ReportMatchesStatus
<1>3. CodeInv /\ TypeOK /\ ReportInv /\ [Next]_vars => ReportInv'
  BY ReportStep
<1> QED
  BY <1>1, <1>2, <1>3, CodeInvariant, IndexTyped, PTL DEF Spec

-------------------------------------------------------------------------------
(* Identifiers. The ordinals of the nodes of one identity are 0 and up without a *)
(* gap, so that a file with as many of them has all the identifiers there were.  *)

\* The identifiers of one identity.
Like(ids, key) == {x \in ids : SubSeq(x, 1, 3) = key}

LEMMA KeyOf ==
  ASSUME NEW a, NEW b, NEW c, NEW d
  PROVE  SubSeq(<<a, b, c, d>>, 1, 3) = <<a, b, c>>
<1>1. <<a, b, c, d>> \in Seq({a, b, c, d}) /\ Len(<<a, b, c, d>>) = 4
  OBVIOUS
<1>2. /\ SubSeq(<<a, b, c, d>>, 1, 3) \in Seq({a, b, c, d})
      /\ Len(SubSeq(<<a, b, c, d>>, 1, 3)) = 3
      /\ \A i \in 1..3 : SubSeq(<<a, b, c, d>>, 1, 3)[i] = <<a, b, c, d>>[i]
  BY <1>1, SubSeqProperties
<1>3. <<a, b, c>> \in Seq({a, b, c, d}) /\ Len(<<a, b, c>>) = 3
  OBVIOUS
<1>4. ASSUME NEW i \in 1..3 PROVE <<a, b, c, d>>[i] = <<a, b, c>>[i]
  <2>1. i = 1 \/ i = 2 \/ i = 3
    OBVIOUS
  <2> QED
    BY <2>1
<1>5. PICK s : s = SubSeq(<<a, b, c, d>>, 1, 3)
  OBVIOUS
<1>6. PICK t : t = <<a, b, c>>
  OBVIOUS
<1>7. s \in Seq({a, b, c, d}) /\ t \in Seq({a, b, c, d}) /\ Len(s) = 3 /\ Len(t) = 3
  BY <1>2, <1>3, <1>5, <1>6
<1>8. \A i \in 1..Len(s) : s[i] = t[i]
  BY <1>2, <1>4, <1>5, <1>6, <1>7
<1>9. s = t
  BY <1>7, <1>8, SeqEqual
<1> QED
  BY <1>5, <1>6, <1>9

LEMMA KeyAppended ==
  ASSUME NEW a, NEW b, NEW c, NEW d
  PROVE  Append(<<a, b, c>>, d) = <<a, b, c, d>>
<1>1. <<a, b, c>> \in Seq({a, b, c, d}) /\ Len(<<a, b, c>>) = 3
  OBVIOUS
<1>2. /\ Append(<<a, b, c>>, d) \in Seq({a, b, c, d})
      /\ Len(Append(<<a, b, c>>, d)) = 4
      /\ \A i \in 1..3 : Append(<<a, b, c>>, d)[i] = <<a, b, c>>[i]
      /\ Append(<<a, b, c>>, d)[4] = d
  BY <1>1, AppendProperties
<1>3. <<a, b, c, d>> \in Seq({a, b, c, d}) /\ Len(<<a, b, c, d>>) = 4
  OBVIOUS
<1>4. ASSUME NEW i \in 1..4 PROVE Append(<<a, b, c>>, d)[i] = <<a, b, c, d>>[i]
  <2>1. i = 1 \/ i = 2 \/ i = 3 \/ i = 4
    OBVIOUS
  <2> QED
    BY <1>2, <2>1
<1> QED
  BY <1>2, <1>3, <1>4, SeqEqual

\* Ordinals are below the number of nodes with the identity, and take all values.
Having(f, key) == {i \in DOMAIN f : f[i] = key}

LEMMA OrdinalsDense ==
  ASSUME NEW n \in Nat, NEW f, DOMAIN f \subseteq 1..n, NEW key
  PROVE  \E m \in Nat :
           /\ IsFiniteSet(Having(f, key)) /\ m = Cardinality(Having(f, key))
           /\ \A i \in Having(f, key) : Ordinal(f, i) \in 0..(m - 1)
           /\ \A d \in 0..(m - 1) : \E i \in Having(f, key) : Ordinal(f, i) = d
<1>1. PICK nodes \in SUBSET (1..n) : nodes = Having(f, key)
  BY DEF Having
<1>2. IsFiniteSet(1..n)
  BY FS_Interval
<1>3. IsFiniteSet(nodes)
  BY <1>2, FS_Subset
<1>4. PICK m \in Nat : m = Cardinality(nodes)
  BY <1>3, FS_CardinalityType
<1>5. ASSUME NEW i \in nodes PROVE Ordinal(f, i) \in 0..(m - 1)
  <2>1. Equals(f, i) \subseteq nodes /\ i \notin Equals(f, i)
    BY <1>1 DEF Equals, Having
  <2>2. IsFiniteSet(Equals(f, i)) /\ Cardinality(Equals(f, i)) <= m /\ Cardinality(Equals(f, i)) # m
    BY <1>3, <1>4, <2>1, FS_Subset
  <2>3. Cardinality(Equals(f, i)) \in Nat
    BY <2>2, FS_CardinalityType
  <2> QED
    BY <1>4, <2>2, <2>3 DEF Ordinal, Equals
<1>6. PICK g : g = [i \in nodes |-> Ordinal(f, i)]
  OBVIOUS
<1>7. \A i, j \in nodes : g[i] = g[j] => i = j
  BY <1>1, <1>6, OrdinalsDiffer DEF Having
<1>8. g \in Injection(nodes, 0..(m - 1))
  BY <1>5, <1>6, <1>7 DEF Injection, IsInjective
<1>9. IsFiniteSet(0..(m - 1)) /\ Cardinality(0..(m - 1)) = m
  <2>1. m - 1 \in Int /\ 0 \in Int
    OBVIOUS
  <2>2. /\ IsFiniteSet(0..(m - 1))
        /\ Cardinality(0..(m - 1)) = IF 0 > m - 1 THEN 0 ELSE (m - 1) - 0 + 1
    BY <2>1, FS_Interval
  <2> QED
    BY <2>2
<1>10. g \in Surjection(nodes, 0..(m - 1))
  BY <1>4, <1>8, <1>9, FS_Injection
<1>11. \A d \in 0..(m - 1) : \E i \in nodes : g[i] = d
  BY <1>10 DEF Surjection
<1> QED
  BY <1>1, <1>3, <1>4, <1>5, <1>6, <1>11

\* The identifiers of an identity in a tree.
LEMMA IdsDense ==
  ASSUME NEW lang, NEW src, Len(src) \in Nat, DOMAIN src = 1..Len(src),
         NEW ids, ids = Parse(lang, src).symbols
  PROVE  /\ \A x \in ids : \E a, b, c, d : x = <<a, b, c, d>>
         /\ \A a, b, c : /\ Cardinality(Like(ids, <<a, b, c>>)) \in Nat
                         /\ \A d : <<a, b, c, d>> \in ids
                              <=> d \in 0..(Cardinality(Like(ids, <<a, b, c>>)) - 1)
<1> DEFINE scope == Scope(lang, src)
           identity == [i \in Definitions(lang, src) |->
                          <<SymbolKind[lang][src[i].kind], scope[i].path, src[i].text>>]
<1>1. PICK f : f = identity
  OBVIOUS
<1>2. ids = {Append(f[i], Ordinal(f, i)) : i \in DOMAIN f}
  BY <1>1 DEF Parse, SymbolIds
<1>3. DOMAIN f \subseteq 1..Len(src)
  BY <1>1 DEF Definitions
<1>4. \A i \in DOMAIN f : \E a, b, c : f[i] = <<a, b, c>>
  BY <1>1
<1> HIDE DEF identity, scope
<1>5. ASSUME NEW i \in DOMAIN f
      PROVE  \E a, b, c : f[i] = <<a, b, c>> /\ Append(f[i], Ordinal(f, i)) = <<a, b, c, Ordinal(f, i)>>
  <2>1. PICK a, b, c : f[i] = <<a, b, c>>
    BY <1>4
  <2> QED
    BY <2>1, KeyAppended
<1>6. \A x \in ids : \E a, b, c, d : x = <<a, b, c, d>>
  <2> SUFFICES ASSUME NEW x \in ids PROVE \E a, b, c, d : x = <<a, b, c, d>>
    OBVIOUS
  <2>1. PICK i \in DOMAIN f : x = Append(f[i], Ordinal(f, i))
    BY <1>2
  <2> QED
    BY <1>5, <2>1
<1>7. ASSUME NEW a, NEW b, NEW c, NEW d
      PROVE  <<a, b, c, d>> \in ids <=> \E i \in Having(f, <<a, b, c>>) : Ordinal(f, i) = d
  <2>1. ASSUME <<a, b, c, d>> \in ids
        PROVE  \E i \in Having(f, <<a, b, c>>) : Ordinal(f, i) = d
    <3>1. PICK i \in DOMAIN f : <<a, b, c, d>> = Append(f[i], Ordinal(f, i))
      BY <1>2, <2>1
    <3>2. PICK k, l, m : f[i] = <<k, l, m>> /\ Append(f[i], Ordinal(f, i)) = <<k, l, m, Ordinal(f, i)>>
      BY <1>5
    <3>3. <<a, b, c, d>> = <<k, l, m, Ordinal(f, i)>>
      BY <3>1, <3>2
    <3>4. a = k /\ b = l /\ c = m /\ d = Ordinal(f, i)
      BY <3>3
    <3> QED
      BY <3>2, <3>4 DEF Having
  <2>2. ASSUME NEW i \in Having(f, <<a, b, c>>), Ordinal(f, i) = d
        PROVE  <<a, b, c, d>> \in ids
    <3>1. i \in DOMAIN f /\ f[i] = <<a, b, c>>
      BY <2>2 DEF Having
    <3>2. Append(f[i], Ordinal(f, i)) = <<a, b, c, d>>
      BY <2>2, <3>1, KeyAppended
    <3> QED
      BY <1>2, <3>1, <3>2
  <2> QED
    BY <2>1, <2>2
<1>8. ASSUME NEW a, NEW b, NEW c
      PROVE  /\ Cardinality(Like(ids, <<a, b, c>>)) \in Nat
             /\ \A d : <<a, b, c, d>> \in ids
                         <=> d \in 0..(Cardinality(Like(ids, <<a, b, c>>)) - 1)
  <2>1. PICK nodes : nodes = Having(f, <<a, b, c>>)
    OBVIOUS
  <2>2. PICK m \in Nat :
          /\ IsFiniteSet(nodes) /\ m = Cardinality(nodes)
          /\ \A i \in nodes : Ordinal(f, i) \in 0..(m - 1)
          /\ \A d \in 0..(m - 1) : \E i \in nodes : Ordinal(f, i) = d
    BY <1>3, <2>1, OrdinalsDense
  <2>3. PICK g : g = [i \in nodes |-> <<a, b, c, Ordinal(f, i)>>]
    OBVIOUS
  <2>4. ASSUME NEW x
        PROVE  x \in Like(ids, <<a, b, c>>) <=> \E i \in nodes : x = <<a, b, c, Ordinal(f, i)>>
    <3>1. ASSUME x \in Like(ids, <<a, b, c>>)
          PROVE  \E i \in nodes : x = <<a, b, c, Ordinal(f, i)>>
      <4>1. PICK k, l, n, d : x = <<k, l, n, d>>
        BY <1>6, <3>1 DEF Like
      <4>2. <<k, l, n>> = <<a, b, c>>
        BY <3>1, <4>1, KeyOf DEF Like
      <4>3. x = <<a, b, c, d>>
        BY <4>1, <4>2
      <4> QED
        BY <1>7, <2>1, <3>1, <4>3 DEF Like
    <3>2. ASSUME NEW i \in nodes, x = <<a, b, c, Ordinal(f, i)>>
          PROVE  x \in Like(ids, <<a, b, c>>)
      BY <1>7, <2>1, <3>2, KeyOf DEF Like
    <3> QED
      BY <3>1, <3>2
  <2>5. \A i, j \in nodes : g[i] = g[j] => i = j
    <3> SUFFICES ASSUME NEW i \in nodes, NEW j \in nodes, g[i] = g[j] PROVE i = j
      OBVIOUS
    <3>1. <<a, b, c, Ordinal(f, i)>> = <<a, b, c, Ordinal(f, j)>>
      BY <2>3
    <3>2. Ordinal(f, i) = Ordinal(f, j)
      BY <3>1
    <3> QED
      BY <1>3, <2>1, <3>2, OrdinalsDiffer DEF Having
  <2>6. /\ \A i \in nodes : g[i] \in Like(ids, <<a, b, c>>)
        /\ \A x \in Like(ids, <<a, b, c>>) : \E i \in nodes : g[i] = x
    BY <2>3, <2>4
  <2>7. g \in Bijection(nodes, Like(ids, <<a, b, c>>))
    BY <2>3, <2>5, <2>6 DEF Bijection, Injection, Surjection, IsInjective
  <2>8. Cardinality(Like(ids, <<a, b, c>>)) = m
    BY <2>2, <2>7, FS_Bijection DEF ExistsBijection
  <2>9. \A d : <<a, b, c, d>> \in ids <=> d \in 0..(m - 1)
    BY <1>7, <2>1, <2>2
  <2> QED
    BY <2>8, <2>9
<1> QED
  BY <1>6, <1>8

\* What a reader of the table finds for a file.
IdsAt(rows, p) == {row[2] : row \in {x \in rows : x[1] = p}}

LEMMA IdsOfFile ==
  ASSUME NEW files, NEW rows,
         \A row : row \in rows <=> \E q \in Paths : row \in Symbols[q][files[q]],
         \A q \in Paths : files[q] \in File, NEW p \in Paths, files[p] \in Contents
  PROVE  IdsAt(rows, p) = Parse(Language, Tree[files[p]]).symbols
<1>1. \A q \in Paths : \A row \in Symbols[q][files[q]] : row[1] = q
  BY RowsNamed
<1>2. Symbols[p][files[p]] = {<<p, id>> : id \in Parse(Language, Tree[files[p]]).symbols}
  BY CodeAssumption DEF Symbols, Parsed, File
<1> DEFINE ids == Parse(Language, Tree[files[p]]).symbols
<1>3. {x \in rows : x[1] = p} = {<<p, id>> : id \in ids}
  BY <1>1, <1>2
<1> HIDE DEF ids
<1>4. ASSUME NEW id PROVE id \in IdsAt(rows, p) <=> id \in ids
  <2>1. ASSUME id \in IdsAt(rows, p) PROVE id \in ids
    <3>1. PICK row \in rows : row[1] = p /\ id = row[2]
      BY <2>1 DEF IdsAt
    <3>2. PICK x \in ids : row = <<p, x>>
      BY <1>3, <3>1
    <3> QED
      BY <3>1, <3>2
  <2>2. ASSUME id \in ids PROVE id \in IdsAt(rows, p)
    <3>1. <<p, id>> \in rows /\ <<p, id>>[1] = p /\ <<p, id>>[2] = id
      BY <1>3, <2>2
    <3> QED
      BY <3>1 DEF IdsAt
  <2> QED
    BY <2>1, <2>2
<1>5. \A id : id \in IdsAt(rows, p) <=> id \in ids
  BY <1>4
<1>6. IdsAt(rows, p) = ids
  BY <1>5
<1> QED
  BY <1>6 DEF ids

\* An identifier stays with a file that has as many symbols of its name and signature
\* as before, whatever else of it changes.
THEOREM IdsStay == Spec => IdsSurviveEdits
<1> DEFINE Same(ids, id) == {x \in ids : SubSeq(x, 1, 3) = SubSeq(id, 1, 3)}
<1>1. ASSUME TypeOK, TypeOK', RowsFollowHashes, RowsFollowHashes', NEW r \in Repos, NEW p \in Paths,
             Absent \notin {file[r][p], file'[r][p]},
             NEW id \in IdsAt(symbols[r], p),
             Cardinality(Same(IdsAt(symbols[r], p), id)) <= Cardinality(Same(IdsAt(symbols'[r], p), id))
      PROVE  id \in IdsAt(symbols'[r], p)
  <2>1. file[r][p] \in Contents /\ file'[r][p] \in Contents
    BY <1>1 DEF TypeOK, File
  <2>2. PICK before : before = IdsAt(symbols[r], p)
    OBVIOUS
  <2>3. PICK after : after = IdsAt(symbols'[r], p)
    OBVIOUS
  <2>4. before = Parse(Language, Tree[file[r][p]]).symbols
    <3>1. PICK files : files = file[r]
      OBVIOUS
    <3>2. \A row : row \in symbols[r] <=> \E q \in Paths : row \in Symbols[q][files[q]]
      BY <1>1, <3>1 DEF RowsFollowHashes
    <3>3. \A q \in Paths : files[q] \in File
      BY <1>1, <3>1 DEF TypeOK
    <3> QED
      BY <2>1, <2>2, <3>1, <3>2, <3>3, IdsOfFile
  <2>5. after = Parse(Language, Tree[file'[r][p]]).symbols
    <3>1. PICK files : files = file'[r]
      OBVIOUS
    <3>2. \A row : row \in symbols'[r] <=> \E q \in Paths : row \in Symbols[q][files[q]]
      BY <1>1, <3>1 DEF RowsFollowHashes
    <3>3. \A q \in Paths : files[q] \in File
      BY <1>1, <3>1 DEF TypeOK
    <3> QED
      BY <2>1, <2>3, <3>1, <3>2, <3>3, IdsOfFile
  <2>6. PICK a, b, c, d : id = <<a, b, c, d>>
    BY <1>1, <2>1, <2>2, <2>4, IdsDense, CodeAssumption
  <2>7. /\ Cardinality(Like(before, <<a, b, c>>)) \in Nat
        /\ d \in 0..(Cardinality(Like(before, <<a, b, c>>)) - 1)
    BY <1>1, <2>1, <2>2, <2>4, <2>6, IdsDense, CodeAssumption
  <2>8. /\ Cardinality(Like(after, <<a, b, c>>)) \in Nat
        /\ d \in 0..(Cardinality(Like(after, <<a, b, c>>)) - 1) => <<a, b, c, d>> \in after
    BY <2>1, <2>5, IdsDense, CodeAssumption
  <2>9. Cardinality(Like(before, <<a, b, c>>)) <= Cardinality(Like(after, <<a, b, c>>))
    BY <1>1, <2>2, <2>3, <2>6, KeyOf DEF Like
  <2> QED
    BY <2>3, <2>6, <2>7, <2>8, <2>9
<1> HIDE DEF Same
<1>2. TypeOK /\ TypeOK' /\ RowsFollowHashes /\ RowsFollowHashes' =>
        \A r \in Repos, p \in Paths :
          Absent \notin {file[r][p], file'[r][p]} /\ file[r][p] # file'[r][p] =>
            LET Ids(rows) == {row[2] : row \in {x \in rows : x[1] = p}}
                S(ids, id) == {x \in ids : SubSeq(x, 1, 3) = SubSeq(id, 1, 3)}
                before == Ids(symbols[r])
                after == Ids(symbols'[r])
            IN \A id \in before :
                 Cardinality(S(before, id)) <= Cardinality(S(after, id)) => id \in after
  BY <1>1 DEF Same, IdsAt
<1> QED
  BY <1>2, IndexTyped, RowsAreOfHashes, PTL DEF IdsSurviveEdits
===============================================================================

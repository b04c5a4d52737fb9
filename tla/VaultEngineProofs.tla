--------------------------- MODULE VaultEngineProofs ---------------------------
(*****************************************************************************)
(* Proofs about VaultEngine, for any number of clients, notes and files and  *)
(* for any budget of faults:                                                 *)
(*  - the type invariant;                                                    *)
(*  - until a note is forgotten, a fresh path belongs to the request that    *)
(*    created it, a path keeps the event of its note, and acknowledged       *)
(*    events become and stay searchable;                                     *)
(*  - up to the first fault a stored digest means an indexed note, and up to *)
(*    the first cancelled request prune spares the notes of the vault;       *)
(*  - one client at a time never gives a session two notes, unless           *)
(*    similarity matches notes of two sessions.                              *)
(*****************************************************************************)
EXTENDS VaultEngine, TLAPS

-------------------------------------------------------------------------------
(* The inductive invariants *)

\* A request that goes on to touch a path knows which one and with what.
RequestsKnowTheirPath ==
  \A c \in Clients :
    /\ req[c].pc \in {"create", "write", "rewrite", "ingest", "purge"} => req[c].id \in Ids
    /\ req[c].pc \notin {"idle", "purge"} => req[c].note \in Notes

\* sync_lock is held by sync, or by a request that is ingesting or purging.
HolderIsBusy ==
  work.stage # "off" =>
    \/ holder = Syncer
    \/ holder \in Clients /\ req[holder].pc \in {"ingest", "purge"}

\* Between reading a file and being done with it, the holder keeps its content.
BufferIsANote ==
  work.stage \in {"store", "chunks", "graph", "relink"} =>
    work.cur \in Ids /\ work.buf.note \in Notes

TypeInv == TypeOK /\ RequestsKnowTheirPath /\ HolderIsBusy /\ BufferIsANote

\* Path p holds a note of the event of n.
Keeps(p, n) == files[p].note \in Notes /\ Event[files[p].note] = Event[n]

\* ... of the very session of n.
Holds(p, n) == files[p].note \in Notes /\ Session[files[p].note] = Session[n]

\* A request that rewrites or ingests a path, and a link pass that is about to
\* write one back, found there a note of the event they write.
WritersKeepEvent ==
  /\ \A c \in Clients : req[c].pc \in {"rewrite", "ingest"} => Keeps(req[c].id, req[c].note)
  /\ work.stage = "relink" => Keeps(work.cur, work.buf.note)

\* The two properties of the write door, without their premise.
FreshIsOwned ==
  \A c \in Clients : req[c].pc = "write" =>
    /\ files[req[c].id].note = Blank
    /\ \A d \in Clients \ {c} : req[d].pc = "write" => req[d].id # req[c].id
PathsKeep == \A p \in Ids : promise[p] \in Notes => Keeps(p, promise[p])

\* Holds as long as nothing was forgotten.
EventInv == WritersKeepEvent /\ FreshIsOwned /\ PathsKeep

-------------------------------------------------------------------------------
(* Lemmas *)

\* Contents and rows that the actions build have their type.
LEMMA Constructors ==
  /\ NoFile \in Contents
  /\ NoRow \in Rows
  /\ NoWork \in Works
  /\ Idle \in Requests
  /\ \A n \in Notes \cup {Blank} : Page(n) \in Contents
  /\ \A p : Links(p) \in SUBSET Ids
BY ConstantsAssumption
   DEF NoFile, NoRow, NoWork, Idle, Page, Links, InStore, Contents, Rows, Works, Requests,
       Stages, Places, Ids

LEMMA IdsAreNumbers ==
  /\ 0 \in 0..MaxId
  /\ \A p \in Ids : p \in 0..MaxId /\ (p < MaxId => p + 1 \in Ids)
BY ConstantsAssumption DEF Ids

\* Spending a budget leaves a budget.
LEMMA Spending ==
  ASSUME budget \in Budgets,
         NEW what \in {"requests", "forgets", "crashes", "failures", "cancels"}, Spend(what)
  PROVE  budget' \in Budgets
BY DEF Budgets, Spend

-------------------------------------------------------------------------------
(* Type correctness *)

LEMMA TypeInvInit == Init => TypeInv
BY Constructors, ConstantsAssumption
   DEF Init, TypeInv, TypeOK, RequestsKnowTheirPath, HolderIsBusy, BufferIsANote, NoWork, Idle

\* The steps a request takes outside sync_lock.
\* A request moves on: what its new record must satisfy.
Proper(r) ==
  /\ r \in Requests
  /\ r.pc \in {"create", "write", "rewrite", "ingest", "purge"} => r.id \in Ids
  /\ r.pc \notin {"idle", "purge"} => r.note \in Notes

LEMMA RequestMoves ==
  ASSUME TypeInv, NEW c \in Clients, NEW r, Proper(r), req' = [req EXCEPT ![c] = r],
         req[c].pc \notin {"ingest", "purge"},
         files' \in [Ids -> Contents],
         promise' \in [Ids -> Notes \cup {Absent, Forgotten}],
         budget' \in Budgets,
         UNCHANGED <<rows, holder, work>>
  PROVE  TypeInv'
BY DEF Proper, TypeInv, TypeOK, RequestsKnowTheirPath, HolderIsBusy, BufferIsANote

\* The steps a request takes outside sync_lock.
LEMMA TypeInvClientStep ==
  ASSUME TypeInv, NEW c \in Clients, ClientStep(c)
  PROVE  TypeInv'
<1>1. /\ req[c] \in Requests
      /\ req[c].pc \notin {"idle", "purge"} => req[c].note \in Notes
      /\ files \in [Ids -> Contents] /\ budget \in Budgets
      /\ promise \in [Ids -> Notes \cup {Absent, Forgotten}]
  BY DEF TypeInv, TypeOK, RequestsKnowTheirPath
<1>2. Proper(Idle)
  BY Constructors DEF Proper, Idle
<1>3. CASE FindDuplicate(c)
  <2>1. PICK p \in Ids : req' = IF ShouldReplace(req[c].note, p)
                                THEN [req EXCEPT ![c] = [@ EXCEPT !.pc = "rewrite", !.id = p]]
                                ELSE [req EXCEPT ![c] = Idle]
    BY <1>3 DEF FindDuplicate, DuplicatePaths, Reply
  <2>2. Proper([req[c] EXCEPT !.pc = "rewrite", !.id = p])
    BY <1>1, <1>3, IdsAreNumbers DEF FindDuplicate, Proper, Requests, Places
  <2> QED
    BY <1>1, <1>2, <1>3, <2>1, <2>2, RequestMoves DEF FindDuplicate
<1>4. CASE NoDuplicate(c)
  <2> DEFINE r == [req[c] EXCEPT !.pc = IF VectorOn THEN "near" ELSE "next"]
  <2>1. Proper(r)
    BY <1>1, <1>4 DEF NoDuplicate, Proper, Requests, Places
  <2>2. req' = [req EXCEPT ![c] = r]
    BY <1>4 DEF NoDuplicate, Goto
  <2> QED
    BY <1>1, <1>4, <2>1, <2>2, RequestMoves DEF NoDuplicate
<1>5. CASE ProbeStore(c)
  <2> DEFINE r == [req[c] EXCEPT !.pc = "ids"]
  <2>1. Proper(r)
    BY <1>1, <1>5 DEF ProbeStore, Proper, Requests, Places
  <2>2. req' = [req EXCEPT ![c] = r] \/ req' = [req EXCEPT ![c] = Idle]
    BY <1>5 DEF ProbeStore, Goto, Reply
  <2> QED
    BY <1>1, <1>2, <1>5, <2>1, <2>2, RequestMoves DEF ProbeStore
<1>6. CASE ReadStoreIds(c)
  <2> DEFINE r == [req[c] EXCEPT !.pc = "next", !.ids = InStore]
  <2>1. Proper(r)
    BY <1>1, <1>6 DEF ReadStoreIds, InStore, Proper, Requests, Places
  <2> QED
    BY <1>1, <1>6, <2>1, RequestMoves DEF ReadStoreIds
<1>7. CASE PickId(c)
  <2>1. PICK n \in Ids :
          req' = [req EXCEPT ![c] = [@ EXCEPT !.pc = "create", !.id = n, !.ids = {}]]
    BY <1>7 DEF PickId
  <2>2. Proper([req[c] EXCEPT !.pc = "create", !.id = n, !.ids = {}])
    BY <1>1, <1>7, IdsAreNumbers DEF PickId, Proper, Requests, Places
  <2> QED
    BY <1>1, <1>7, <2>1, <2>2, RequestMoves DEF PickId
<1>8. CASE Create(c)
  <2> DEFINE next == [req[c] EXCEPT !.id = req[c].id + 1]
             write == [req[c] EXCEPT !.pc = "write"]
  <2>1. req[c].id \in Ids
    BY <1>8 DEF TypeInv, RequestsKnowTheirPath, Create
  <2>2. CASE req' = [req EXCEPT ![c] = next] /\ req[c].id < MaxId /\ UNCHANGED <<files, promise>>
    <3>1. Proper(next)
      BY <1>1, <1>8, <2>1, <2>2, IdsAreNumbers DEF Create, Proper, Requests, Places
    <3> QED
      BY <1>1, <1>8, <2>2, <3>1, RequestMoves DEF Create
  <2>3. CASE /\ req' = [req EXCEPT ![c] = write]
             /\ files' = [files EXCEPT ![req[c].id] = Page(Blank)]
             /\ promise' = [promise EXCEPT ![req[c].id] = IF @ = Forgotten THEN Absent ELSE @]
    <3>1. Proper(write)
      BY <1>1, <1>8, <2>1 DEF Create, Proper, Requests, Places
    <3>2. /\ files' \in [Ids -> Contents]
          /\ promise' \in [Ids -> Notes \cup {Absent, Forgotten}]
      BY <1>1, <2>3, Constructors
    <3> QED
      BY <1>1, <1>8, <2>3, <3>1, <3>2, RequestMoves DEF Create
  <2> QED
    BY <1>1, <1>8, <2>2, <2>3 DEF Create, Goto
<1>9. CASE WriteNote(c)
  <2> DEFINE r == [req[c] EXCEPT !.pc = "ingest"]
  <2>1. Proper(r) /\ req[c].id \in Ids
    BY <1>1, <1>9 DEF TypeInv, RequestsKnowTheirPath, WriteNote, Proper, Requests, Places
  <2>2. req' = [req EXCEPT ![c] = r] \/ req' = [req EXCEPT ![c] = Idle]
    BY <1>9 DEF WriteNote, Goto, Reply
  <2>3. /\ files' \in [Ids -> Contents]
        /\ promise' \in [Ids -> Notes \cup {Absent, Forgotten}]
    BY <1>1, <1>9, Constructors DEF WriteNote
  <2> QED
    BY <1>1, <1>2, <1>9, <2>1, <2>2, <2>3, RequestMoves DEF WriteNote
<1> QED
  BY <1>3, <1>4, <1>5, <1>6, <1>7, <1>8, <1>9 DEF ClientStep

\* The holder of sync_lock moves on: what its new locals must satisfy.
Orderly(w) ==
  /\ w \in Works
  /\ w.stage \in {"store", "chunks", "graph", "relink"} => w.cur \in Ids /\ w.buf.note \in Notes

LEMMA WorkMoves ==
  ASSUME TypeInv, Orderly(work'), work.stage # "off",
         files' \in [Ids -> Contents], rows' \in [Ids -> Rows], budget' \in Budgets,
         UNCHANGED <<holder, req, promise>>
  PROVE  TypeInv'
BY DEF Orderly, TypeInv, TypeOK, RequestsKnowTheirPath, HolderIsBusy, BufferIsANote

LEMMA WorkEnds ==
  ASSUME TypeInv, Unlock,
         files' \in [Ids -> Contents], rows' \in [Ids -> Rows], budget' \in Budgets,
         promise' \in [Ids -> Notes \cup {Absent, Forgotten}]
  PROVE  TypeInv'
<1>1. /\ req' \in [Clients -> Requests]
      /\ \A c \in Clients : req'[c] = req[c] \/ req'[c] = Idle
  BY Constructors DEF TypeInv, TypeOK, Unlock, Reply
<1>2. work' = NoWork /\ NoWork \in Works /\ holder' = Nobody
  BY Constructors DEF Unlock
<1> QED
  BY <1>1, <1>2 DEF TypeInv, TypeOK, RequestsKnowTheirPath, HolderIsBusy, BufferIsANote, NoWork, Idle

\* The steps taken under sync_lock.
LEMMA TypeInvLockedStep ==
  ASSUME TypeInv, LockedStep
  PROVE  TypeInv'
<1>1. /\ work \in Works /\ req \in [Clients -> Requests]
      /\ files \in [Ids -> Contents] /\ rows \in [Ids -> Rows] /\ budget \in Budgets
      /\ promise \in [Ids -> Notes \cup {Absent, Forgotten}]
  BY DEF TypeInv, TypeOK
<1>2. /\ NoFile \in Contents /\ NoRow \in Rows /\ NoWork \in Works
      /\ \A p : Links(p) \in SUBSET Ids
  BY Constructors
<1>3. CASE ReadFile
  <2>1. PICK p \in work.todo :
          work' = IF Settled(p)
                  THEN [work EXCEPT !.todo = @ \ {p}]
                  ELSE [work EXCEPT !.todo = @ \ {p}, !.cur = p, !.buf = files[p], !.stage = "store"]
    BY <1>3 DEF ReadFile
  <2>2. p \in Ids /\ p \in 0..MaxId /\ files[p] \in Contents
    BY <1>1, IdsAreNumbers DEF Works
  <2>3. CASE Settled(p)
    BY <1>1, <1>3, <2>1, <2>3, WorkMoves DEF ReadFile, Orderly, Works
  <2>4. CASE ~Settled(p)
    <3>1. files[p].note \in Notes
      BY <2>2, <2>4 DEF Settled, Contents
    <3> QED
      BY <1>1, <1>3, <2>1, <2>2, <2>4, <3>1, WorkMoves DEF ReadFile, Orderly, Works, Stages
  <2> QED
    BY <2>3, <2>4
<1>4. CASE StoreDocument
  <2>1. rows' \in [Ids -> Rows]
    BY <1>1, <1>4 DEF StoreDocument, Works, Rows
  <2>2. Orderly(work')
    BY <1>1, <1>4 DEF StoreDocument, Orderly, Works, Stages, TypeInv, BufferIsANote
  <2> QED
    BY <1>1, <1>4, <2>1, <2>2, WorkMoves DEF StoreDocument
<1>5. CASE StoreChunks
  <2>1. rows' \in [Ids -> Rows]
    BY <1>1, <1>5 DEF StoreChunks, Rows, TypeInv, BufferIsANote
  <2>2. Orderly(work')
    BY <1>1, <1>5 DEF StoreChunks, Orderly, Works, Stages, TypeInv, BufferIsANote
  <2> QED
    BY <1>1, <1>5, <2>1, <2>2, WorkMoves DEF StoreChunks
<1>6. CASE ExtractGraph
  <2>1. rows' \in [Ids -> Rows]
    BY <1>1, <1>6 DEF ExtractGraph, Rows, TypeInv, BufferIsANote
  <2>2. Orderly(work')
    BY <1>1, <1>2, <1>6, IdsAreNumbers DEF ExtractGraph, Orderly, Works, Stages
  <2> QED
    BY <1>1, <1>6, <2>1, <2>2, WorkMoves DEF ExtractGraph
<1>7. CASE EndIngest
  <2>1. holder # Syncer => req[holder].id \in Ids
    BY <1>7 DEF EndIngest, TypeInv, HolderIsBusy, RequestsKnowTheirPath
  <2>2. Orderly(work')
    BY <1>1, <1>7, <2>1 DEF EndIngest, Orderly, Works, Stages
  <2> QED
    BY <1>1, <1>7, <2>2, WorkMoves DEF EndIngest
<1>8. CASE Purge
  <2>1. Orderly(work')
    BY <1>1, <1>2, <1>8 DEF Purge, Orderly, Works, Stages, OnDisk
  <2> QED
    BY <1>1, <1>2, <1>8, <2>1, WorkMoves DEF Purge
<1>9. CASE Prune
  <2>1. Orderly(work')
    BY <1>1, <1>2, <1>9 DEF Prune, Orderly, Works, Stages, OnDisk
  <2> QED
    BY <1>1, <1>2, <1>9, <2>1, WorkMoves DEF Prune
<1>10. CASE ReadForLinks
  <2>1. PICK p \in work.todo :
          work' = CASE files[p].note = Absent -> [work EXCEPT !.todo = {}]
                    [] files[p].note = Blank -> [work EXCEPT !.todo = @ \ {p}]
                    [] OTHER -> [work EXCEPT !.todo = @ \ {p}, !.cur = p, !.buf = files[p],
                                             !.stage = "relink"]
    BY <1>10 DEF ReadForLinks
  <2>2. p \in Ids /\ p \in 0..MaxId /\ files[p] \in Contents
    BY <1>1, IdsAreNumbers DEF Works
  <2>3. CASE files[p].note \in {Absent, Blank}
    BY <1>1, <1>10, <2>1, <2>3, WorkMoves, ConstantsAssumption DEF ReadForLinks, Orderly, Works
  <2>4. CASE files[p].note \in Notes
    <3>1. work' = [work EXCEPT !.todo = @ \ {p}, !.cur = p, !.buf = files[p], !.stage = "relink"]
      BY <2>1, <2>4, ConstantsAssumption
    <3> QED
      BY <1>1, <1>10, <2>2, <2>4, <3>1, WorkMoves DEF ReadForLinks, Orderly, Works, Stages
  <2> QED
    BY <2>2, <2>3, <2>4 DEF Contents
<1>11. CASE WriteLinks
  <2>1. files' \in [Ids -> Contents]
    BY <1>1, <1>2, <1>11 DEF WriteLinks, Works, Contents
  <2>2. Orderly(work')
    BY <1>1, <1>2, <1>11, IdsAreNumbers DEF WriteLinks, Orderly, Works, Stages
  <2> QED
    BY <1>1, <1>11, <2>1, <2>2, WorkMoves DEF WriteLinks
<1>12. CASE Finish
  <2>1. promise' \in [Ids -> Notes \cup {Absent, Forgotten}]
    BY <1>1, <1>12 DEF Finish, Requests
  <2> QED
    BY <1>1, <1>12, <2>1, WorkEnds DEF Finish
<1> QED
  BY <1>3, <1>4, <1>5, <1>6, <1>7, <1>8, <1>9, <1>10, <1>11, <1>12 DEF LockedStep

\* The steps that take sync_lock.
LEMMA TypeInvLock ==
  ASSUME TypeInv, BeginSync \/ \E c \in Clients : LockForIngest(c) \/ LockForPurge(c)
  PROVE  TypeInv'
<1>1. NoWork \in Works
  BY Constructors
<1>2. CASE BeginSync
  BY <1>1, <1>2
     DEF BeginSync, NoWork, OnDisk, Works, Stages,
         TypeInv, TypeOK, RequestsKnowTheirPath, HolderIsBusy, BufferIsANote
<1>3. CASE \E c \in Clients : LockForIngest(c)
  <2>1. PICK c \in Clients : LockForIngest(c)
    BY <1>3
  <2>2. req[c].id \in Ids
    BY <2>1 DEF LockForIngest, TypeInv, RequestsKnowTheirPath
  <2>3. work' \in Works /\ work'.stage = "ingest"
    BY <1>1, <2>1, <2>2 DEF LockForIngest, NoWork, Works, Stages
  <2> QED
    BY <2>1, <2>3
       DEF LockForIngest, TypeInv, TypeOK, RequestsKnowTheirPath, HolderIsBusy, BufferIsANote
<1>4. CASE \E c \in Clients : LockForPurge(c)
  BY <1>1, <1>4
     DEF LockForPurge, NoWork, Works, Stages,
         TypeInv, TypeOK, RequestsKnowTheirPath, HolderIsBusy, BufferIsANote
<1> QED
  BY <1>2, <1>3, <1>4

LEMMA TypeInvFault ==
  ASSUME TypeInv, Fault
  PROVE  TypeInv'
<1>1. /\ work \in Works /\ req \in [Clients -> Requests]
      /\ files \in [Ids -> Contents] /\ rows \in [Ids -> Rows] /\ budget \in Budgets
      /\ promise \in [Ids -> Notes \cup {Absent, Forgotten}]
  BY DEF TypeInv, TypeOK
<1>2. NoWork \in Works /\ Idle \in Requests /\ NoFile \in Contents
  BY Constructors
<1>3. budget' \in Budgets
  BY <1>1, Spending DEF Fault, IngestFails, DeleteFails, LinksFail, CancelSync, Crash, Cancel
<1>4. CASE IngestFails
  <2>1. CASE holder = Syncer
    <3>1. Orderly(work')
      BY <1>1, <1>2, <1>4, <2>1, IdsAreNumbers, ZenonT(60) DEF IngestFails, Orderly, Works, Stages
    <3> QED
      BY <1>1, <1>3, <1>4, <2>1, <3>1, WorkMoves DEF IngestFails
  <2>2. CASE holder # Syncer
    BY <1>1, <1>3, <1>4, <2>2, WorkEnds DEF IngestFails
  <2> QED
    BY <2>1, <2>2
<1>5. CASE DeleteFails
  BY <1>1, <1>3, <1>5, WorkEnds DEF DeleteFails
<1>6. CASE LinksFail
  <2>1. Orderly(work')
    BY <1>1, <1>2, <1>6 DEF LinksFail, Orderly, Works, Stages
  <2> QED
    BY <1>1, <1>3, <1>6, <2>1, WorkMoves DEF LinksFail
<1>7. CASE CancelSync
  BY <1>1, <1>3, <1>7, WorkEnds DEF CancelSync
<1>8. CASE Crash
  BY <1>1, <1>2, <1>3, <1>8
     DEF Crash, NoWork, Idle, TypeInv, TypeOK, RequestsKnowTheirPath, HolderIsBusy, BufferIsANote
<1>9. ASSUME NEW c \in Clients, Cancel(c)
      PROVE  TypeInv'
  <2>1. req' = [req EXCEPT ![c] = Idle] /\ UNCHANGED <<files, rows, promise>>
    BY <1>9 DEF Cancel, Reply
  <2>2. \/ holder = c /\ holder' = Nobody /\ work' = NoWork
        \/ holder # c /\ UNCHANGED <<holder, work>>
    BY <1>9 DEF Cancel
  <2>3. TypeOK'
    BY <1>1, <1>2, <1>3, <2>1, <2>2 DEF TypeInv, TypeOK
  <2>4. RequestsKnowTheirPath'
    BY <1>1, <2>1 DEF Idle, TypeInv, RequestsKnowTheirPath
  <2>5. HolderIsBusy'
    BY <1>1, <2>1, <2>2 DEF NoWork, TypeInv, HolderIsBusy
  <2>6. BufferIsANote'
    BY <2>2 DEF NoWork, TypeInv, BufferIsANote
  <2> QED
    BY <2>3, <2>4, <2>5, <2>6 DEF TypeInv
<1> QED
  BY <1>4, <1>5, <1>6, <1>7, <1>8, <1>9 DEF Fault

\* The steps that open a request.
LEMMA TypeInvRequest ==
  ASSUME TypeInv, NEW c \in Clients,
         (\E n \in Notes : Remember(c, n)) \/ (\E p \in Ids : Forget(c, p))
  PROVE  TypeInv'
<1>1. /\ req[c] \in Requests
      /\ files \in [Ids -> Contents] /\ budget \in Budgets
      /\ promise \in [Ids -> Notes \cup {Absent, Forgotten}]
  BY DEF TypeInv, TypeOK
<1>2. Proper(Idle) /\ NoFile \in Contents
  BY Constructors DEF Proper, Idle
<1>3. CASE \E n \in Notes : Remember(c, n)
  <2>1. PICK n \in Notes : Remember(c, n)
    BY <1>3
  <2>2. Proper([Idle EXCEPT !.pc = "scan", !.note = n])
    BY Constructors DEF Proper, Idle, Requests, Places
  <2> QED
    BY <1>1, <2>1, <2>2, RequestMoves, Spending DEF Remember
<1>4. CASE \E p \in Ids : Forget(c, p)
  <2>1. PICK p \in Ids : Forget(c, p)
    BY <1>4
  <2>2. Proper([Idle EXCEPT !.pc = "purge", !.id = p])
    BY Constructors, IdsAreNumbers DEF Proper, Idle, Requests, Places
  <2> QED
    BY <1>1, <1>2, <2>1, <2>2, RequestMoves, Spending DEF Forget, Reply
<1> QED
  BY <1>3, <1>4

LEMMA TypeInvStep == TypeInv /\ [Next]_vars => TypeInv'
<1> SUFFICES ASSUME TypeInv, [Next]_vars
             PROVE  TypeInv'
  OBVIOUS
<1>1. CASE UNCHANGED vars
  BY <1>1 DEF vars, TypeInv, TypeOK, RequestsKnowTheirPath, HolderIsBusy, BufferIsANote
<1>2. CASE Next
  BY <1>2, TypeInvRequest, TypeInvClientStep, TypeInvLock, TypeInvLockedStep, TypeInvFault DEF Next
<1> QED
  BY <1>1, <1>2

LEMMA TypeInvHolds == Spec => []TypeInv
BY TypeInvInit, TypeInvStep, PTL DEF Spec

\* Every variable of the write door keeps its type, with any number of clients
\* and any mix of failures, cancelled requests and crashes.
THEOREM TypeCorrect == Spec => []TypeOK
BY TypeInvHolds, PTL DEF TypeInv

-------------------------------------------------------------------------------
(* What every later proof needs: budgets and the lock *)

Kinds == {"requests", "forgets", "crashes", "failures", "cancels"}

\* Only the holder of sync_lock has work, it is there only when there is a store
\* to keep in step, and only a sync prunes.
LockInv ==
  /\ \A k \in Kinds : budget[k] <= Limits[k]
  /\ holder = Nobody <=> work.stage = "off"
  /\ work.stage # "off" => VectorOn
  /\ \A c \in Clients : req[c].pc \in {"ingest", "purge"} => VectorOn
  /\ work.stage = "prune" => holder = Syncer

LEMMA LimitsAreNumbers ==
  /\ \A k \in Kinds : Limits[k] \in Nat
  /\ budget \in Budgets => \A k \in Kinds : budget[k] \in Nat
BY ConstantsAssumption DEF Budgets, Kinds

\* Spending leaves the other budgets alone.
LEMMA SpendShrinks ==
  ASSUME budget \in Budgets, NEW what \in Kinds, Spend(what)
  PROVE  /\ budget'[what] = budget[what] - 1 /\ budget[what] > 0
         /\ \A k \in Kinds \ {what} : budget'[k] = budget[k]
BY DEF Budgets, Kinds, Spend

\* Every step spends at most one budget, and says which.
LEMMA StepBudget ==
  ASSUME [Next]_vars
  PROVE  UNCHANGED budget \/ \E what \in Kinds : Spend(what)
<1>1. CASE UNCHANGED vars
  BY <1>1 DEF vars
<1>2. CASE \E c \in Clients, n \in Notes : Remember(c, n)
  BY <1>2 DEF Remember, Kinds
<1>3. CASE \E c \in Clients, p \in Ids : Forget(c, p)
  BY <1>3 DEF Forget, Kinds
<1>4. ASSUME NEW c \in Clients, ClientStep(c) \/ LockForIngest(c) \/ LockForPurge(c)
      PROVE  UNCHANGED budget
  BY <1>4
     DEF ClientStep, FindDuplicate, NoDuplicate, ProbeStore, ReadStoreIds, PickId, Create,
         WriteNote, LockForIngest, LockForPurge
<1>5. CASE BeginSync \/ LockedStep
  BY <1>5
     DEF BeginSync, LockedStep, ReadFile, StoreDocument, StoreChunks, ExtractGraph, EndIngest,
         Purge, Prune, ReadForLinks, WriteLinks, Finish
<1>6. CASE Fault
  BY <1>6 DEF Fault, IngestFails, DeleteFails, LinksFail, CancelSync, Crash, Cancel, Kinds
<1> QED
  BY <1>1, <1>2, <1>3, <1>4, <1>5, <1>6 DEF Next

\* A budget that is unspent after a step was unspent before it, and the step did
\* not spend it.
LEMMA UnspentBefore ==
  ASSUME TypeInv, LockInv, [Next]_vars, NEW k \in Kinds
  PROVE  /\ budget'[k] <= Limits[k]
         /\ Unspent(k)' => Unspent(k) /\ ~Spend(k)
<1>1. budget \in Budgets /\ budget[k] \in Nat /\ Limits[k] \in Nat /\ budget[k] <= Limits[k]
  BY LimitsAreNumbers DEF TypeInv, TypeOK, LockInv
<1>2. Spend(k) => budget'[k] = budget[k] - 1
  BY <1>1, SpendShrinks
<1>3. budget'[k] = budget[k] \/ budget'[k] = budget[k] - 1
  BY <1>1, StepBudget, SpendShrinks
<1>4. /\ Unspent(k) <=> budget[k] = Limits[k]
      /\ Unspent(k)' <=> budget'[k] = Limits[k]
  BY DEF Unspent
<1> QED
  BY <1>1, <1>2, <1>3, <1>4

LEMMA FaultlessBefore ==
  ASSUME TypeInv, LockInv, [Next]_vars, Faultless'
  PROVE  /\ Faultless
         /\ ~Spend("crashes") /\ ~Spend("failures") /\ ~Spend("cancels")
         /\ ~Fault
<1>1. /\ Faultless
      /\ ~Spend("crashes") /\ ~Spend("failures") /\ ~Spend("cancels")
  BY UnspentBefore DEF Faultless, Kinds
<1> QED
  BY <1>1 DEF Fault, IngestFails, DeleteFails, LinksFail, CancelSync, Crash, Cancel

\* The note that is replaced is of the same event, or of the same session if
\* similarity never matches notes of two.
LEMMA ReplacedIsKin ==
  ASSUME NEW n \in Notes, NEW p \in Ids, ShouldReplace(n, p)
  PROVE  Keeps(p, n) /\ (SimilarOfOneSession => Holds(p, n))
<1>1. CASE SameSession(n, p)
  BY <1>1, ConstantsAssumption DEF SameSession, Keeps, Holds
<1>2. CASE ProbableSession(n, p)
  <2>1. files[p].note \in Notes /\ <<n, files[p].note>> \in Similar
    BY <1>2 DEF ProbableSession
  <2>2. Event[n] = Event[files[p].note]
    BY <2>1, ConstantsAssumption
  <2> QED
    BY <2>1, <2>2 DEF Keeps, Holds, SimilarOfOneSession
<1> QED
  BY <1>1, <1>2 DEF ShouldReplace

\* What a request's own step does, in the words of the invariants below: it ends,
\* moves on, finds the note to rewrite, creates a file or writes one.
LEMMA ClientStepMoves ==
  ASSUME TypeInv, NEW c \in Clients, ClientStep(c)
  PROVE  /\ \A d \in Clients \ {c} : req'[d] = req[d]
         /\ UNCHANGED <<rows, holder, work, budget>>
         /\ req[c].pc \in {"scan", "near", "ids", "next", "create", "write", "rewrite"}
         /\ \/ UNCHANGED <<files, promise>> /\ req'[c].pc = "idle"
            \/ /\ UNCHANGED <<files, promise>>
               /\ req[c].pc = "scan" /\ req'[c].pc = "rewrite"
               /\ req'[c].note = req[c].note
               /\ req'[c].id \in Ids /\ Keeps(req'[c].id, req[c].note)
               /\ SimilarOfOneSession => Holds(req'[c].id, req[c].note)
            \/ /\ UNCHANGED <<files, promise>>
               /\ req[c].pc = "scan" /\ req'[c].pc \in {"near", "next"}
               /\ req'[c].note = req[c].note
               /\ Session[req[c].note] # Absent => \A p \in Ids : ~Holds(p, req[c].note)
            \/ /\ UNCHANGED <<files, promise>>
               /\ req[c].pc \in {"near", "ids", "next", "create"}
               /\ req'[c].pc \in {"ids", "next", "create"}
               /\ req'[c].note = req[c].note
            \/ /\ req[c].pc = "create" /\ req'[c].pc = "write"
               /\ req'[c].note = req[c].note /\ req'[c].id = req[c].id
               /\ req[c].id \in Ids /\ files[req[c].id].note = Absent
               /\ files' = [files EXCEPT ![req[c].id] = Page(Blank)]
               /\ \A p \in Ids : promise'[p] \in Notes => promise'[p] = promise[p]
            \/ /\ req[c].pc \in {"write", "rewrite"}
               /\ req[c].id \in Ids /\ req[c].note \in Notes
               /\ files' = [files EXCEPT ![req[c].id] = Page(req[c].note)]
               /\ promise' = [promise EXCEPT ![req[c].id] = IF VectorOn THEN Absent ELSE req[c].note]
               /\ \/ VectorOn /\ req'[c].pc = "ingest" /\ req'[c].id = req[c].id
                              /\ req'[c].note = req[c].note
                  \/ ~VectorOn /\ req'[c].pc = "idle"
<1>1. /\ req \in [Clients -> Requests] /\ req[c] \in Requests
      /\ promise \in [Ids -> Notes \cup {Absent, Forgotten}]
      /\ Absent \notin Notes
      /\ req[c].pc \in {"create", "write", "rewrite"} => req[c].id \in Ids
      /\ req[c].pc \notin {"idle", "purge"} => req[c].note \in Notes
  BY ConstantsAssumption DEF TypeInv, TypeOK, RequestsKnowTheirPath
<1>2. CASE FindDuplicate(c)
  <2>1. PICK p \in Ids :
          \/ /\ ShouldReplace(req[c].note, p)
             /\ req' = [req EXCEPT ![c] = [@ EXCEPT !.pc = "rewrite", !.id = p]]
          \/ req' = [req EXCEPT ![c] = Idle]
    BY <1>2 DEF FindDuplicate, DuplicatePaths, Reply
  <2>2. CASE req' = [req EXCEPT ![c] = Idle]
    BY <1>1, <1>2, <2>2 DEF FindDuplicate, Idle
  <2>3. CASE /\ ShouldReplace(req[c].note, p)
             /\ req' = [req EXCEPT ![c] = [@ EXCEPT !.pc = "rewrite", !.id = p]]
    <3>1. Keeps(p, req[c].note) /\ (SimilarOfOneSession => Holds(p, req[c].note))
      BY <1>1, <1>2, <2>3, ReplacedIsKin DEF FindDuplicate
    <3>2. req'[c] = [req[c] EXCEPT !.pc = "rewrite", !.id = p]
      BY <1>1, <2>3
    <3>3. req'[c].pc = "rewrite" /\ req'[c].id = p /\ req'[c].note = req[c].note
      BY <1>1, <3>2 DEF Requests
    <3> QED
      BY <1>1, <1>2, <2>3, <3>1, <3>3 DEF FindDuplicate
  <2> QED
    BY <2>1, <2>2, <2>3
<1>3. CASE NoDuplicate(c)
  <2>1. Session[req[c].note] # Absent => \A p \in Ids : ~Holds(p, req[c].note)
    BY <1>3 DEF NoDuplicate, DuplicatePaths, SameSession, Holds
  <2> QED
    BY <1>1, <1>3, <2>1 DEF NoDuplicate, Goto, Requests
<1>4. CASE ProbeStore(c)
  BY <1>1, <1>4 DEF ProbeStore, Goto, Reply, Idle, Requests
<1>5. CASE ReadStoreIds(c)
  BY <1>1, <1>5 DEF ReadStoreIds, Requests
<1>6. CASE PickId(c)
  BY <1>1, <1>6 DEF PickId, Requests
<1>7. CASE Create(c)
  <2>1. CASE req' = [req EXCEPT ![c].id = req[c].id + 1] /\ UNCHANGED <<files, promise>>
    BY <1>1, <1>7, <2>1 DEF Create, Requests
  <2>2. CASE /\ files[req[c].id].note = Absent
             /\ files' = [files EXCEPT ![req[c].id] = Page(Blank)]
             /\ promise' = [promise EXCEPT ![req[c].id] = IF @ = Forgotten THEN Absent ELSE @]
             /\ req' = [req EXCEPT ![c].pc = "write"]
    BY <1>1, <1>7, <2>2 DEF Create, Requests
  <2> QED
    BY <1>7, <2>1, <2>2 DEF Create, Taken, Goto
<1>8. CASE WriteNote(c)
  <2>1. \/ VectorOn /\ req' = [req EXCEPT ![c].pc = "ingest"]
        \/ ~VectorOn /\ req' = [req EXCEPT ![c] = Idle]
    BY <1>8, ConstantsAssumption DEF WriteNote, Goto, Reply
  <2>2. /\ \A d \in Clients \ {c} : req'[d] = req[d]
        /\ \/ VectorOn /\ req'[c].pc = "ingest" /\ req'[c].id = req[c].id
                       /\ req'[c].note = req[c].note
           \/ ~VectorOn /\ req'[c].pc = "idle"
    BY <1>1, <2>1 DEF Idle, Requests
  <2> QED
    BY <1>1, <1>8, <2>2 DEF WriteNote
<1> QED
  BY <1>2, <1>3, <1>4, <1>5, <1>6, <1>7, <1>8 DEF ClientStep

LEMMA LockInvStep == TypeInv /\ LockInv /\ [Next]_vars => LockInv'
<1> SUFFICES ASSUME TypeInv, LockInv, [Next]_vars
             PROVE  LockInv'
  OBVIOUS
<1>1. \A k \in Kinds : budget'[k] <= Limits[k]
  BY UnspentBefore
<1>2. /\ req \in [Clients -> Requests] /\ work \in Works
      /\ holder \in Clients \cup {Syncer, Nobody}
      /\ Syncer \notin Clients /\ Nobody \notin Clients \cup {Syncer}
      /\ work.stage # "off" => VectorOn
      /\ \A c \in Clients : req[c].pc \in {"ingest", "purge"} => VectorOn
      /\ holder = Nobody <=> work.stage = "off"
      /\ work.stage = "prune" => holder = Syncer
  BY ConstantsAssumption DEF TypeInv, TypeOK, LockInv
<1>3. \A c \in Clients : req'[c].pc \in {"ingest", "purge"} => VectorOn
  <2>1. CASE UNCHANGED vars \/ BeginSync \/ \E c \in Clients : LockForIngest(c) \/ LockForPurge(c)
    BY <1>2, <2>1 DEF vars, BeginSync, LockForIngest, LockForPurge
  <2>2. ASSUME NEW c \in Clients, NEW n \in Notes, Remember(c, n)
        PROVE  \A d \in Clients : req'[d] = req[d] \/ req'[d].pc = "scan"
    BY <1>2, <2>2 DEF Remember, Idle
  <2>3. ASSUME NEW c \in Clients, NEW p \in Ids, Forget(c, p)
        PROVE  \A d \in Clients : req'[d] = req[d] \/ req'[d].pc = "idle" \/ VectorOn
    BY <1>2, <2>3 DEF Forget, Reply, Idle
  <2>4. ASSUME NEW c \in Clients, ClientStep(c)
        PROVE  \A d \in Clients : req'[d] = req[d] \/ req'[d].pc \notin {"ingest", "purge"} \/ VectorOn
    BY <2>4, ClientStepMoves
  <2>5. CASE LockedStep
    BY <1>2, <2>5
       DEF LockedStep, ReadFile, StoreDocument, StoreChunks, ExtractGraph, EndIngest, Purge, Prune,
           ReadForLinks, WriteLinks, Finish, Unlock, Reply, Idle
  <2>6. CASE Fault
    BY <1>2, <2>6
       DEF Fault, IngestFails, DeleteFails, LinksFail, CancelSync, Crash, Cancel, Unlock, Reply, Idle
  <2> QED
    BY <1>2, <2>1, <2>2, <2>3, <2>4, <2>5, <2>6 DEF Next
<1>4. \/ holder' = holder /\ (work'.stage = work.stage \/ (work.stage # "off" /\ work'.stage # "off"))
                          /\ (work'.stage = "prune" => holder = Syncer)
      \/ holder = Nobody /\ holder' # Nobody /\ work'.stage \notin {"off", "prune"} /\ VectorOn
      \/ holder' = Nobody /\ work'.stage = "off"
  <2>1. CASE UNCHANGED vars
    BY <1>2, <2>1 DEF vars
  <2>2. CASE \/ \E c \in Clients, n \in Notes : Remember(c, n)
             \/ \E c \in Clients, p \in Ids : Forget(c, p)
             \/ \E c \in Clients : ClientStep(c)
    BY <1>2, <2>2
       DEF Remember, Forget, ClientStep, FindDuplicate, NoDuplicate, ProbeStore, ReadStoreIds,
           PickId, Create, WriteNote
  <2>3. CASE BeginSync \/ \E c \in Clients : LockForIngest(c) \/ LockForPurge(c)
    BY <1>2, <2>3 DEF BeginSync, LockForIngest, LockForPurge, NoWork
  <2>4. CASE ReadFile \/ StoreDocument \/ StoreChunks \/ ExtractGraph
    BY <1>2, <2>4 DEF ReadFile, StoreDocument, StoreChunks, ExtractGraph, Works
  <2>5. CASE EndIngest
    BY <1>2, <2>5 DEF EndIngest, Works
  <2>6. CASE Purge \/ Prune
    BY <1>2, <2>6 DEF Purge, Prune, NoWork
  <2>7. CASE ReadForLinks \/ WriteLinks
    BY <1>2, <2>7 DEF ReadForLinks, WriteLinks, Works
  <2>8. CASE Finish \/ DeleteFails \/ CancelSync \/ Crash
    BY <2>8 DEF Finish, DeleteFails, CancelSync, Crash, Unlock, NoWork
  <2>9. CASE IngestFails
    <3>1. CASE holder = Syncer
      <4>1. work' = [work EXCEPT !.stage = "ingest", !.cur = 0, !.buf = NoFile]
        BY <2>9, <3>1 DEF IngestFails
      <4>2. work'.stage = "ingest" /\ work.stage # "off" /\ holder' = holder
        BY <1>2, <2>9, <3>1, <4>1 DEF IngestFails, Works
      <4> QED
        BY <4>2
    <3>2. CASE holder # Syncer
      BY <2>9, <3>2 DEF IngestFails, Unlock, NoWork
    <3> QED
      BY <3>1, <3>2
  <2>10. CASE LinksFail
    BY <1>2, <2>10 DEF LinksFail, NoWork
  <2>11. CASE \E c \in Clients : Cancel(c)
    BY <1>2, <2>11 DEF Cancel, NoWork
  <2> QED
    BY <2>1, <2>2, <2>3, <2>4, <2>5, <2>6, <2>7, <2>8, <2>9, <2>10, <2>11
       DEF Next, LockedStep, Fault
<1> QED
  BY <1>1, <1>2, <1>3, <1>4 DEF LockInv

LEMMA LockInvHolds == Spec => []LockInv
<1>1. Init => LockInv
  BY LimitsAreNumbers, ConstantsAssumption DEF Init, Idle, NoWork, LockInv
<1> QED
  BY <1>1, TypeInvHolds, LockInvStep, PTL DEF Spec
-------------------------------------------------------------------------------
(* Paths keep their event until something is forgotten *)

\* A step that leaves a file as it is or replaces its note by one of its event.
StaysInEvent(p) ==
  \/ files'[p].note = files[p].note
  \/ /\ files[p].note \in Notes /\ files'[p].note \in Notes
     /\ Event[files'[p].note] = Event[files[p].note]

LEMMA EventFrame ==
  ASSUME TypeInv, EventInv,
         \A p \in Ids : StaysInEvent(p),
         \A c \in Clients :
           \/ req'[c] = req[c]
           \/ req'[c].pc \notin {"write", "rewrite", "ingest"}
           \/ /\ req'[c].pc # "write" /\ req'[c].id \in Ids
              /\ Keeps(req'[c].id, req'[c].note),
         work' = work \/ (work'.stage = "relink" =>
                            work'.cur \in Ids /\ Keeps(work'.cur, work'.buf.note)),
         \A p \in Ids : \/ promise'[p] = promise[p] \/ promise'[p] \notin Notes
                        \/ Keeps(p, promise'[p])
  PROVE  EventInv'
<1> USE DEF EventInv
<1>1. ASSUME NEW p \in Ids, NEW n, Keeps(p, n)
      PROVE  files'[p].note \in Notes /\ Event[files'[p].note] = Event[n]
  BY <1>1 DEF StaysInEvent, Keeps
<1>2. WritersKeepEvent'
  <2>1. ASSUME NEW c \in Clients, req'[c].pc \in {"rewrite", "ingest"}
        PROVE  req'[c].id \in Ids /\ Keeps(req'[c].id, req'[c].note)
    BY <2>1 DEF WritersKeepEvent, TypeInv, RequestsKnowTheirPath
  <2>2. ASSUME work'.stage = "relink"
        PROVE  work'.cur \in Ids /\ Keeps(work'.cur, work'.buf.note)
    BY <2>2 DEF WritersKeepEvent, TypeInv, BufferIsANote
  <2> QED
    BY <1>1, <2>1, <2>2 DEF WritersKeepEvent, Keeps
<1>3. FreshIsOwned'
  <2>1. ASSUME NEW c \in Clients, req'[c].pc = "write"
        PROVE  req'[c] = req[c] /\ req[c].id \in Ids
    BY <2>1 DEF TypeInv, RequestsKnowTheirPath
  <2>2. ASSUME NEW p \in Ids, files[p].note = Blank
        PROVE  files'[p].note = Blank
    BY <2>2, ConstantsAssumption DEF StaysInEvent
  <2>3. \A c \in Clients : req[c].pc = "write" =>
          files[req[c].id].note = Blank
          /\ \A d \in Clients \ {c} : req[d].pc = "write" => req[d].id # req[c].id
    BY DEF FreshIsOwned
  <2> QED
    BY <2>1, <2>2, <2>3 DEF FreshIsOwned
<1>4. PathsKeep'
  <2>1. ASSUME NEW p \in Ids, promise'[p] \in Notes
        PROVE  Keeps(p, promise'[p])
    BY <2>1 DEF PathsKeep, Keeps
  <2> QED
    BY <1>1, <2>1 DEF PathsKeep, Keeps
<1> QED
  BY <1>2, <1>3, <1>4

\* A fresh file is nobody else's: no request, no link pass and no promise speaks
\* of a path without a note.
LEMMA CreateKeepsEvent ==
  ASSUME TypeInv, EventInv, NEW c \in Clients, Create(c)
  PROVE  EventInv'
<1> DEFINE p == req[c].id
<1>1. p \in Ids /\ req[c] \in Requests /\ req \in [Clients -> Requests]
      /\ files \in [Ids -> Contents] /\ promise \in [Ids -> Notes \cup {Absent, Forgotten}]
      /\ req[c].pc = "create" /\ UNCHANGED <<work, budget>>
  BY DEF TypeInv, TypeOK, RequestsKnowTheirPath, Create
<1>2. CASE req' = [req EXCEPT ![c].id = p + 1] /\ UNCHANGED <<files, promise>>
  <2>1. \A d \in Clients : req'[d] = req[d] \/ req'[d].pc = "create"
    BY <1>1, <1>2
  <2> QED
    BY <1>1, <1>2, <2>1, EventFrame DEF EventInv, StaysInEvent
<1>3. CASE /\ files[p].note = Absent
           /\ files' = [files EXCEPT ![p] = Page(Blank)]
           /\ promise' = [promise EXCEPT ![p] = IF @ = Forgotten THEN Absent ELSE @]
           /\ req' = [req EXCEPT ![c].pc = "write"]
  <2>1. /\ files'[p].note = Blank
        /\ \A q \in Ids \ {p} : files'[q] = files[q] /\ promise'[q] = promise[q]
        /\ promise'[p] \notin Notes
    BY <1>1, <1>3, ConstantsAssumption DEF Page, EventInv, PathsKeep, Keeps
  <2>2. /\ req'[c].pc = "write" /\ req'[c].id = p
        /\ \A d \in Clients \ {c} : req'[d] = req[d]
    BY <1>1, <1>3
  <2>3. Absent \notin Notes /\ Absent # Blank
    BY ConstantsAssumption
  <2>4. WritersKeepEvent'
    BY <1>1, <1>3, <2>1, <2>2, <2>3
       DEF EventInv, WritersKeepEvent, Keeps, TypeInv, RequestsKnowTheirPath, BufferIsANote
  <2>5. FreshIsOwned'
    BY <1>1, <1>3, <2>1, <2>2, <2>3
       DEF EventInv, FreshIsOwned, TypeInv, RequestsKnowTheirPath
  <2>6. PathsKeep'
    BY <2>1, <2>3 DEF EventInv, PathsKeep, Keeps
  <2> QED
    BY <1>1, <2>4, <2>5, <2>6 DEF EventInv
<1> QED
  BY <1>1, <1>2, <1>3 DEF Create, Taken, Goto

\* The first write of a fresh note.
LEMMA FirstWriteKeepsEvent ==
  ASSUME TypeInv, EventInv, NEW c \in Clients, WriteNote(c), req[c].pc = "write"
  PROVE  EventInv'
<1> DEFINE p == req[c].id
           n == req[c].note
<1>1. /\ p \in Ids /\ n \in Notes /\ req \in [Clients -> Requests]
      /\ files \in [Ids -> Contents] /\ promise \in [Ids -> Notes \cup {Absent, Forgotten}]
      /\ UNCHANGED <<work, budget>>
  BY DEF TypeInv, TypeOK, RequestsKnowTheirPath, WriteNote
<1>2. /\ files'[p].note = n
      /\ promise'[p] \in {Absent, n}
      /\ \A q \in Ids \ {p} : files'[q] = files[q] /\ promise'[q] = promise[q]
  BY <1>1 DEF WriteNote, Page
<1>3. /\ \A d \in Clients \ {c} : req'[d] = req[d]
      /\ req'[c].pc \in {"ingest", "idle"}
      /\ req'[c].pc = "ingest" => req'[c].id = p /\ req'[c].note = n
  <2>1. req' = [req EXCEPT ![c].pc = "ingest"] \/ req' = [req EXCEPT ![c] = Idle]
    BY DEF WriteNote, Goto, Reply
  <2> QED
    BY <1>1, <2>1 DEF Idle, Requests
<1>4. files[p].note = Blank /\ Blank \notin Notes /\ Absent \notin Notes
  BY ConstantsAssumption DEF EventInv, FreshIsOwned
<1>5. WritersKeepEvent'
  <2>1. ASSUME NEW d \in Clients, req'[d].pc \in {"rewrite", "ingest"}
        PROVE  Keeps(req[d].id, req[d].note)'
    <3>1. CASE d = c
      BY <1>2, <1>3, <1>1, <2>1, <3>1 DEF Keeps
    <3>2. CASE d # c
      BY <1>2, <1>3, <1>4, <2>1, <3>2
         DEF EventInv, WritersKeepEvent, Keeps, TypeInv, RequestsKnowTheirPath
    <3> QED
      BY <3>1, <3>2
  <2>2. ASSUME work'.stage = "relink"
        PROVE  Keeps(work.cur, work.buf.note)'
    BY <1>1, <1>2, <1>4, <2>2
       DEF EventInv, WritersKeepEvent, Keeps, TypeInv, BufferIsANote
  <2> QED
    BY <2>1, <2>2 DEF WritersKeepEvent
<1>6. FreshIsOwned'
  BY <1>1, <1>2, <1>3, <1>4 DEF EventInv, FreshIsOwned, TypeInv, RequestsKnowTheirPath
<1>7. PathsKeep'
  BY <1>1, <1>2, <1>4 DEF EventInv, PathsKeep, Keeps
<1> QED
  BY <1>1, <1>5, <1>6, <1>7 DEF EventInv

\* project_note writes back what it read, with other links: the note it read is
\* of the event the path has now, even if it was rewritten in between.
LEMMA WriteLinksKeepsEvent ==
  ASSUME TypeInv, EventInv, WriteLinks
  PROVE  EventInv'
<1>1. /\ work.cur \in Ids /\ work.buf \in Contents /\ work.buf.note \in Notes
      /\ files \in [Ids -> Contents] /\ Keeps(work.cur, work.buf.note)
  BY DEF WriteLinks, TypeInv, TypeOK, BufferIsANote, Works, EventInv, WritersKeepEvent
<1>2. \A p \in Ids : StaysInEvent(p)
  BY <1>1 DEF WriteLinks, StaysInEvent, Keeps, Contents
<1>3. work'.stage = "link"
  BY DEF WriteLinks, TypeInv, TypeOK, Works
<1> QED
  BY <1>2, <1>3, EventFrame DEF WriteLinks, EventInv

LEMMA EventInvClientStep ==
  ASSUME TypeInv, EventInv, NEW c \in Clients, ClientStep(c)
  PROVE  EventInv'
<1>1. /\ req \in [Clients -> Requests] /\ req[c] \in Requests
      /\ files \in [Ids -> Contents] /\ promise \in [Ids -> Notes \cup {Absent, Forgotten}]
  BY DEF TypeInv, TypeOK
<1>2. CASE FindDuplicate(c)
  <2>1. PICK p \in Ids :
          \/ /\ ShouldReplace(req[c].note, p)
             /\ req' = [req EXCEPT ![c] = [@ EXCEPT !.pc = "rewrite", !.id = p]]
          \/ req' = [req EXCEPT ![c] = Idle]
    BY <1>2 DEF FindDuplicate, DuplicatePaths, Reply
  <2>2. \/ req'[c].pc = "idle"
        \/ req'[c].pc = "rewrite" /\ req'[c].id = p /\ Keeps(p, req'[c].note)
    <3>1. CASE /\ ShouldReplace(req[c].note, p)
               /\ req' = [req EXCEPT ![c] = [@ EXCEPT !.pc = "rewrite", !.id = p]]
      <4>1. req'[c] = [req[c] EXCEPT !.pc = "rewrite", !.id = p]
        BY <1>1, <3>1
      <4>2. req'[c].pc = "rewrite" /\ req'[c].id = p /\ req'[c].note = req[c].note
        BY <1>1, <4>1 DEF Requests
      <4> QED
        BY <1>1, <1>2, <3>1, <4>2, ReplacedIsKin
           DEF FindDuplicate, TypeInv, RequestsKnowTheirPath
    <3>2. CASE req' = [req EXCEPT ![c] = Idle]
      BY <1>1, <3>2 DEF Idle
    <3> QED
      BY <2>1, <3>1, <3>2
  <2>3. \A d \in Clients \ {c} : req'[d] = req[d]
    BY <1>1, <2>1
  <2> QED
    BY <1>2, <2>2, <2>3, EventFrame DEF FindDuplicate, EventInv, StaysInEvent
<1>3. CASE NoDuplicate(c) \/ ProbeStore(c) \/ ReadStoreIds(c) \/ PickId(c)
  <2>1. /\ req'[c].pc \in {"near", "next", "ids", "idle", "create"}
        /\ \A d \in Clients \ {c} : req'[d] = req[d]
    <3>1. CASE NoDuplicate(c)
      BY <1>1, <3>1 DEF NoDuplicate, Goto, Requests
    <3>2. CASE ProbeStore(c)
      BY <1>1, <3>2 DEF ProbeStore, Goto, Reply, Idle, Requests
    <3>3. CASE ReadStoreIds(c)
      BY <1>1, <3>3 DEF ReadStoreIds, Requests
    <3>4. CASE PickId(c)
      BY <1>1, <3>4 DEF PickId, Requests
    <3> QED
      BY <1>3, <3>1, <3>2, <3>3, <3>4
  <2>2. UNCHANGED <<files, rows, holder, work, promise, budget>>
    BY <1>3 DEF NoDuplicate, ProbeStore, ReadStoreIds, PickId
  <2> QED
    BY <2>1, <2>2, EventFrame DEF EventInv, StaysInEvent
<1>4. CASE Create(c)
  BY <1>4, CreateKeepsEvent
<1>5. CASE WriteNote(c)
  <2>1. CASE req[c].pc = "write"
    BY <1>5, <2>1, FirstWriteKeepsEvent
  <2>2. CASE req[c].pc = "rewrite"
    <3> DEFINE p == req[c].id
               n == req[c].note
    <3>1. p \in Ids /\ n \in Notes /\ Keeps(p, n)
      BY <2>2
         DEF TypeInv, RequestsKnowTheirPath, EventInv, WritersKeepEvent
    <3>2. /\ files'[p].note = n
          /\ \A q \in Ids \ {p} : files'[q] = files[q] /\ promise'[q] = promise[q]
          /\ promise'[p] \in {Absent, n}
      BY <1>1, <1>5, <3>1 DEF WriteNote, Page
    <3>3. /\ \A d \in Clients \ {c} : req'[d] = req[d]
          /\ \/ req'[c].pc = "ingest" /\ req'[c].id = p /\ req'[c].note = n
             \/ req'[c].pc = "idle"
      <4>1. req' = [req EXCEPT ![c].pc = "ingest"] \/ req' = [req EXCEPT ![c] = Idle]
        BY <1>5 DEF WriteNote, Goto, Reply
      <4> QED
        BY <1>1, <4>1 DEF Idle, Requests
    <3>4. \A q \in Ids : StaysInEvent(q)
      BY <3>1, <3>2 DEF StaysInEvent, Keeps
    <3>5. \A q \in Ids : promise'[q] = promise[q] \/ promise'[q] \notin Notes \/ Keeps(q, promise'[q])
      BY <3>1, <3>2, ConstantsAssumption
    <3>6. UNCHANGED <<work, budget>>
      BY <1>5 DEF WriteNote
    <3> QED
      BY <3>1, <3>3, <3>4, <3>5, <3>6, EventFrame DEF EventInv
  <2> QED
    BY <1>5, <2>1, <2>2 DEF WriteNote
<1> QED
  BY <1>2, <1>3, <1>4, <1>5 DEF ClientStep

LEMMA EventInvLockedStep ==
  ASSUME TypeInv, EventInv, LockedStep
  PROVE  EventInv'
<1>1. /\ req \in [Clients -> Requests] /\ work \in Works /\ files \in [Ids -> Contents]
      /\ promise \in [Ids -> Notes \cup {Absent, Forgotten}]
  BY DEF TypeInv, TypeOK
<1>2. CASE WriteLinks
  BY <1>2, WriteLinksKeepsEvent
<1>3. CASE Finish
  <2>1. \A c \in Clients : req'[c] = req[c] \/ req'[c].pc = "idle"
    BY <1>1, <1>3 DEF Finish, Unlock, Reply, Idle
  <2>2. work'.stage = "off"
    BY <1>3 DEF Finish, Unlock, NoWork
  <2>3. \A p \in Ids : \/ promise'[p] = promise[p]
                       \/ Keeps(p, promise'[p])
    <3>1. CASE holder \in Clients /\ req[holder].pc = "ingest"
      <4>1. Keeps(req[holder].id, req[holder].note)
        BY <3>1 DEF EventInv, WritersKeepEvent
      <4>2. promise' = [promise EXCEPT ![req[holder].id] = req[holder].note]
        BY <1>3, <3>1 DEF Finish
      <4> QED
        BY <1>1, <4>1, <4>2
    <3>2. CASE ~(holder \in Clients /\ req[holder].pc = "ingest")
      BY <1>3, <3>2 DEF Finish
    <3> QED
      BY <3>1, <3>2
  <2> QED
    BY <1>3, <2>1, <2>2, <2>3, EventFrame DEF Finish, EventInv, StaysInEvent
<1>4. CASE ReadForLinks
  <2>1. work'.stage = "relink" => work'.cur \in Ids /\ Keeps(work'.cur, work'.buf.note)
    <3>1. PICK p \in work.todo :
            work' = CASE files[p].note = Absent -> [work EXCEPT !.todo = {}]
                      [] files[p].note = Blank -> [work EXCEPT !.todo = @ \ {p}]
                      [] OTHER -> [work EXCEPT !.todo = @ \ {p}, !.cur = p, !.buf = files[p],
                                               !.stage = "relink"]
      BY <1>4 DEF ReadForLinks
    <3>2. work.stage = "link" /\ p \in Ids /\ files[p] \in Contents
      BY <1>1, <1>4 DEF ReadForLinks, Works
    <3>3. CASE files[p].note \in {Absent, Blank}
      BY <1>1, <3>1, <3>2, <3>3 DEF Works
    <3>4. CASE files[p].note \in Notes
      <4>1. work' = [work EXCEPT !.todo = @ \ {p}, !.cur = p, !.buf = files[p], !.stage = "relink"]
        BY <3>1, <3>4, ConstantsAssumption
      <4> QED
        BY <1>1, <3>2, <3>4, <4>1 DEF Works, Keeps
    <3> QED
      BY <3>2, <3>3, <3>4 DEF Contents
  <2> QED
    BY <1>4, <2>1, EventFrame DEF ReadForLinks, EventInv, StaysInEvent
<1>5. CASE ReadFile \/ StoreDocument \/ StoreChunks \/ ExtractGraph \/ EndIngest \/ Purge \/ Prune
  <2>1. work'.stage # "relink"
    <3>1. CASE ReadFile
      BY <1>1, <3>1 DEF ReadFile, Works
    <3>2. CASE StoreDocument \/ StoreChunks \/ ExtractGraph
      BY <1>1, <3>2 DEF StoreDocument, StoreChunks, ExtractGraph, Works
    <3>3. CASE EndIngest
      BY <1>1, <3>3 DEF EndIngest, Works
    <3>4. CASE Purge \/ Prune
      BY <3>4 DEF Purge, Prune, NoWork
    <3> QED
      BY <1>5, <3>1, <3>2, <3>3, <3>4
  <2>2. UNCHANGED <<files, req, promise, budget>>
    BY <1>5
       DEF ReadFile, StoreDocument, StoreChunks, ExtractGraph, EndIngest, Purge, Prune
  <2> QED
    BY <2>1, <2>2, EventFrame DEF EventInv, StaysInEvent
<1> QED
  BY <1>2, <1>3, <1>4, <1>5 DEF LockedStep

\* A step that only takes or gives back sync_lock, ends requests or opens them.
LEMMA EventInvQuietStep ==
  ASSUME TypeInv, EventInv, UNCHANGED <<files, promise>>,
         work'.stage # "relink",
         \A c \in Clients : req'[c] = req[c] \/ req'[c].pc \notin {"write", "rewrite", "ingest"}
  PROVE  EventInv'
BY EventFrame DEF StaysInEvent

LEMMA EventInvStep ==
  ASSUME TypeInv, EventInv, [Next]_vars, ~Spend("forgets")
  PROVE  EventInv'
<1>1. req \in [Clients -> Requests] /\ work \in Works
  BY DEF TypeInv, TypeOK
<1>2. CASE UNCHANGED vars
  BY <1>2 DEF vars, EventInv, WritersKeepEvent, Keeps, FreshIsOwned, PathsKeep
<1>3. ASSUME NEW c \in Clients, NEW n \in Notes, Remember(c, n)
      PROVE  EventInv'
  <2>1. \A d \in Clients : req'[d] = req[d] \/ req'[d].pc = "scan"
    BY <1>1, <1>3 DEF Remember, Idle
  <2> QED
    BY <1>3, <2>1, EventFrame DEF Remember, StaysInEvent
<1>4. ASSUME NEW c \in Clients, NEW p \in Ids
      PROVE  ~Forget(c, p)
  BY DEF Forget
<1>5. CASE BeginSync \/ \E c \in Clients : LockForIngest(c) \/ LockForPurge(c)
  <2>1. work'.stage # "relink"
    BY <1>5 DEF BeginSync, LockForIngest, LockForPurge, NoWork
  <2> QED
    BY <1>1, <1>5, <2>1, EventInvQuietStep DEF BeginSync, LockForIngest, LockForPurge
<1>6. CASE Fault
  <2>1. UNCHANGED <<files, promise>>
    BY <1>6 DEF Fault, IngestFails, DeleteFails, LinksFail, CancelSync, Crash, Cancel
  <2>2. \A c \in Clients : req'[c] = req[c] \/ req'[c].pc = "idle"
    BY <1>1, <1>6
       DEF Fault, IngestFails, DeleteFails, LinksFail, CancelSync, Crash, Cancel, Unlock, Reply, Idle
  <2>3. work' = work \/ work'.stage # "relink"
    <3>1. CASE IngestFails
      <4>1. CASE holder = Syncer
        <5>1. work' = [work EXCEPT !.stage = "ingest", !.cur = 0, !.buf = NoFile]
          BY <3>1, <4>1 DEF IngestFails
        <5> QED
          BY <1>1, <5>1 DEF Works
      <4>2. CASE holder # Syncer
        BY <3>1, <4>2 DEF IngestFails, Unlock, NoWork
      <4> QED
        BY <4>1, <4>2
    <3>2. CASE LinksFail
      BY <3>2 DEF LinksFail, NoWork
    <3>3. CASE DeleteFails \/ CancelSync \/ Crash \/ \E c \in Clients : Cancel(c)
      BY <3>3 DEF DeleteFails, CancelSync, Crash, Cancel, Unlock, NoWork
    <3> QED
      BY <1>6, <3>1, <3>2, <3>3 DEF Fault
  <2> QED
    BY <2>1, <2>2, <2>3, EventFrame DEF StaysInEvent
<1> QED
  BY <1>2, <1>3, <1>4, <1>5, <1>6, EventInvClientStep, EventInvLockedStep DEF Next

LEMMA EventInvHolds == Spec => [](Unspent("forgets") => EventInv)
<1>1. Init => EventInv
  BY ConstantsAssumption
     DEF Init, Idle, NoWork, EventInv, WritersKeepEvent, FreshIsOwned, PathsKeep
<1>2. TypeInv /\ LockInv /\ (Unspent("forgets") => EventInv) /\ [Next]_vars
        => (Unspent("forgets") => EventInv)'
  BY UnspentBefore, EventInvStep DEF Kinds
<1> QED
  BY <1>1, <1>2, TypeInvHolds, LockInvHolds, PTL DEF Spec

\* O_EXCL allocation, for any number of concurrent requests: as long as nothing was
\* forgotten, until its first write a fresh file belongs to the one request that
\* created it.
THEOREM FreshPathsOwned == Spec => []FreshPathIsOwned
<1>1. (Unspent("forgets") => EventInv) => FreshPathIsOwned
  BY DEF EventInv, FreshIsOwned, FreshPathIsOwned
<1> QED
  BY <1>1, EventInvHolds, PTL

\* Replacements and link rewrites never move an acknowledged note's path to another
\* event (a session, or a chain of similar notes), although both write what they read
\* before an await, as long as nothing was forgotten.
THEOREM PathsKeepEvent == Spec => []PathKeepsEvent
<1>1. (Unspent("forgets") => EventInv) => PathKeepsEvent
  BY DEF EventInv, PathsKeep, Keeps, PathKeepsEvent
<1> QED
  BY <1>1, EventInvHolds, PTL

-------------------------------------------------------------------------------
(* A stored digest means an indexed note, up to the first fault *)

Indexed(p) == rows[p].chunks = rows[p].sha.note /\ rows[p].graph = rows[p].sha.note

\* Only the row that an ingest is between storing and graphing lacks anything, and
\* of that one the parts stored so far are those of the note being ingested.
DigestInv ==
  /\ \A p \in InStore : Indexed(p) \/ (work.stage \in {"chunks", "graph"} /\ p = work.cur)
  /\ work.stage \in {"chunks", "graph"} => rows[work.cur].sha = work.buf
  /\ work.stage = "graph" => rows[work.cur].chunks = work.buf.note

\* Storing, and what the later steps of an ingest add to the row.
LEMMA DigestInvIngest ==
  ASSUME TypeInv, DigestInv, StoreDocument \/ StoreChunks \/ ExtractGraph
  PROVE  DigestInv'
<1>1. /\ work \in Works /\ rows \in [Ids -> Rows]
      /\ work.cur \in Ids
  BY DEF TypeInv, TypeOK, BufferIsANote, StoreDocument, StoreChunks, ExtractGraph
<1>2. \A p \in Ids : rows[p] \in Rows
  BY <1>1
<1>3. \A p \in Ids \ {work.cur} : rows'[p] = rows[p]
  BY <1>1 DEF StoreDocument, StoreChunks, ExtractGraph
<1>4. CASE StoreDocument
  <2>1. /\ work'.stage = "chunks" /\ work'.cur = work.cur /\ work'.buf = work.buf
        /\ rows'[work.cur].sha = work.buf /\ work.stage = "store"
    BY <1>1, <1>2, <1>4 DEF StoreDocument, Works, Rows
  <2> QED
    BY <1>3, <2>1 DEF DigestInv, Indexed, InStore
<1>5. CASE StoreChunks
  <2>1. /\ work'.stage = "graph" /\ work'.cur = work.cur /\ work'.buf = work.buf
        /\ rows'[work.cur].sha = rows[work.cur].sha
        /\ rows'[work.cur].chunks = work.buf.note /\ work.stage = "chunks"
    BY <1>1, <1>2, <1>5 DEF StoreChunks, Works, Rows
  <2> QED
    BY <1>3, <2>1 DEF DigestInv, Indexed, InStore
<1>6. CASE ExtractGraph
  <2>1. /\ work'.stage = "ingest" /\ work.stage = "graph"
        /\ rows'[work.cur].sha = rows[work.cur].sha
        /\ rows'[work.cur].chunks = rows[work.cur].chunks
        /\ rows'[work.cur].graph = work.buf.note
    BY <1>1, <1>2, <1>6 DEF ExtractGraph, Works, Rows
  <2> QED
    BY <1>3, <2>1 DEF DigestInv, Indexed, InStore
<1> QED
  BY <1>4, <1>5, <1>6

LEMMA DigestInvStep ==
  ASSUME TypeInv, LockInv, DigestInv, [Next]_vars, ~Fault
  PROVE  DigestInv'
<1>1. /\ work \in Works /\ rows \in [Ids -> Rows]
      /\ holder = Nobody <=> work.stage = "off"
  BY DEF TypeInv, TypeOK, LockInv
<1>2. CASE UNCHANGED vars
  BY <1>2 DEF vars, DigestInv, Indexed, InStore
<1>3. CASE \/ \E c \in Clients, n \in Notes : Remember(c, n)
           \/ \E c \in Clients, p \in Ids : Forget(c, p)
           \/ \E c \in Clients : ClientStep(c)
  <2>1. UNCHANGED <<rows, work>>
    BY <1>3, ClientStepMoves DEF Remember, Forget
  <2> QED
    BY <2>1 DEF DigestInv, Indexed, InStore
<1>4. CASE BeginSync \/ \E c \in Clients : LockForIngest(c) \/ LockForPurge(c)
  <2>1. work.stage = "off" /\ work'.stage \in {"ingest", "purge"} /\ rows' = rows
    BY <1>1, <1>4 DEF BeginSync, LockForIngest, LockForPurge, NoWork
  <2> QED
    BY <2>1 DEF DigestInv, Indexed, InStore
<1>5. CASE StoreDocument \/ StoreChunks \/ ExtractGraph
  BY <1>5, DigestInvIngest
<1>6. CASE ReadFile \/ EndIngest \/ ReadForLinks \/ WriteLinks \/ Finish
  <2>1. /\ work.stage \notin {"chunks", "graph"} /\ work'.stage \notin {"chunks", "graph"}
        /\ rows' = rows
    <3>1. CASE ReadFile
      BY <1>1, <3>1 DEF ReadFile, Works
    <3>2. CASE EndIngest
      BY <1>1, <3>2 DEF EndIngest, Works
    <3>3. CASE ReadForLinks \/ WriteLinks
      BY <1>1, <3>3 DEF ReadForLinks, WriteLinks, Works
    <3>4. CASE Finish
      BY <3>4 DEF Finish, Unlock, NoWork
    <3> QED
      BY <1>6, <3>1, <3>2, <3>3, <3>4
  <2> QED
    BY <2>1 DEF DigestInv, Indexed, InStore
<1>7. CASE Purge \/ Prune
  <2>1. /\ work.stage \notin {"chunks", "graph"} /\ work'.stage = "link"
        /\ \A p \in Ids : rows'[p] = rows[p] \/ rows'[p].sha.note = Absent
    <3>1. CASE Purge
      BY <1>1, <3>1 DEF Purge, NoWork, NoRow, NoFile
    <3>2. CASE Prune
      BY <1>1, <3>2 DEF Prune, NoWork, NoRow, NoFile
    <3> QED
      BY <1>7, <3>1, <3>2
  <2> QED
    BY <2>1 DEF DigestInv, Indexed, InStore
<1> QED
  BY <1>2, <1>3, <1>4, <1>5, <1>6, <1>7 DEF Next, LockedStep

LEMMA DigestInvHolds == Spec => [](Faultless => DigestInv)
<1>1. Init => DigestInv
  BY DEF Init, DigestInv, InStore, NoRow, NoFile, NoWork
<1>2. TypeInv /\ LockInv /\ (Faultless => DigestInv) /\ [Next]_vars => (Faultless => DigestInv)'
  BY FaultlessBefore, DigestInvStep
<1> QED
  BY <1>1, <1>2, TypeInvHolds, LockInvHolds, PTL DEF Spec

\* As long as nothing fails, is cancelled or crashes, ingest may take a stored
\* digest for "already built", however requests and syncs overlap: outside the
\* ingest of a path its row, its chunks and its graph are of one note.
THEOREM DigestsMeanIndexed == Spec => []DigestMeansIndexed
<1>1. (Faultless => DigestInv) => DigestMeansIndexed
  BY DEF DigestInv, Indexed, DigestMeansIndexed
<1> QED
  BY <1>1, DigestInvHolds, PTL

-------------------------------------------------------------------------------
(* prune spares the notes of the vault, until a request is cancelled *)

\* What the walk of a sync did not see is no note, or it is the note of a request
\* that waits to ingest it.
PruneInv ==
  holder = Syncer /\ work.stage \in {"ingest", "store", "chunks", "graph", "prune"} =>
    \A p \in Ids \ work.seen : files[p].note \in Notes =>
      \E c \in Clients : req[c].pc = "ingest" /\ req[c].id = p

\* Requests that do not hold the lock go on writing while a sync runs.
LEMMA PruneInvClientStep ==
  ASSUME TypeInv, LockInv, PruneInv, NEW c \in Clients, ClientStep(c)
  PROVE  PruneInv'
<1> SUFFICES ASSUME holder = Syncer, work.stage \in {"ingest", "store", "chunks", "graph", "prune"},
                    NEW p \in Ids \ work.seen, files'[p].note \in Notes
             PROVE  \E d \in Clients : req'[d].pc = "ingest" /\ req'[d].id = p
  BY ClientStepMoves DEF PruneInv
<1>1. VectorOn /\ files \in [Ids -> Contents] /\ Blank \notin Notes
  BY ConstantsAssumption DEF LockInv, TypeInv, TypeOK
<1>2. CASE files'[p].note = files[p].note
  <2>1. PICK d \in Clients : req[d].pc = "ingest" /\ req[d].id = p
    BY <1>2 DEF PruneInv
  <2>2. d # c /\ req'[d] = req[d]
    BY <2>1, ClientStepMoves
  <2> QED
    BY <2>1, <2>2
<1>3. CASE files'[p].note # files[p].note
  <2>1. \/ files' = files
        \/ req[c].id \in Ids /\ files' = [files EXCEPT ![req[c].id] = Page(Blank)]
        \/ /\ files' = [files EXCEPT ![req[c].id] = Page(req[c].note)]
           /\ req'[c].pc = "ingest" /\ req'[c].id = req[c].id
    BY <1>1, ClientStepMoves
  <2>2. p = req[c].id /\ files'[p] # Page(Blank)
    BY <1>1, <1>3, <2>1 DEF Page
  <2> QED
    BY <1>1, <1>3, <2>1, <2>2 DEF Page
<1> QED
  BY <1>2, <1>3

LEMMA PruneInvStep ==
  ASSUME TypeInv, LockInv, PruneInv, [Next]_vars, ~Spend("cancels")
  PROVE  PruneInv'
<1>1. /\ work \in Works /\ req \in [Clients -> Requests] /\ files \in [Ids -> Contents]
      /\ Syncer \notin Clients /\ Nobody \notin Clients \cup {Syncer} /\ Absent \notin Notes
      /\ holder = Nobody <=> work.stage = "off"
  BY ConstantsAssumption DEF TypeInv, TypeOK, LockInv
<1>2. CASE UNCHANGED vars
  BY <1>2 DEF vars, PruneInv
<1>3. ASSUME NEW c \in Clients, NEW n \in Notes, Remember(c, n)
      PROVE  PruneInv'
  <2>1. \A d \in Clients : req[d].pc = "ingest" => req'[d] = req[d]
    BY <1>1, <1>3 DEF Remember
  <2> QED
    BY <1>3, <2>1 DEF Remember, PruneInv
<1>4. ASSUME NEW c \in Clients, NEW p \in Ids, Forget(c, p)
      PROVE  PruneInv'
  <2>1. \A d \in Clients : req[d].pc = "ingest" => req'[d] = req[d]
    BY <1>1, <1>4 DEF Forget, Reply
  <2>2. \A q \in Ids : files'[q].note \in Notes => files'[q] = files[q]
    BY <1>1, <1>4 DEF Forget, NoFile
  <2> QED
    BY <1>4, <2>1, <2>2 DEF Forget, PruneInv
<1>5. ASSUME NEW c \in Clients, ClientStep(c)
      PROVE  PruneInv'
  BY <1>5, PruneInvClientStep
<1>6. CASE BeginSync
  BY <1>1, <1>6 DEF BeginSync, OnDisk, NoWork, PruneInv
<1>7. CASE \E c \in Clients : LockForIngest(c) \/ LockForPurge(c)
  BY <1>1, <1>7 DEF LockForIngest, LockForPurge, PruneInv
<1>8. CASE ReadFile \/ StoreDocument \/ StoreChunks \/ ExtractGraph \/ EndIngest
  <2>1. /\ work.stage \in {"ingest", "store", "chunks", "graph", "prune"}
        /\ work'.seen = work.seen
    <3>1. CASE ReadFile
      BY <1>1, <3>1 DEF ReadFile, Works
    <3>2. CASE EndIngest
      BY <1>1, <3>2 DEF EndIngest, Works
    <3>3. CASE StoreDocument \/ StoreChunks \/ ExtractGraph
      BY <1>1, <3>3 DEF StoreDocument, StoreChunks, ExtractGraph, Works
    <3> QED
      BY <1>8, <3>1, <3>2, <3>3
  <2>2. UNCHANGED <<files, holder, req>>
    BY <1>8 DEF ReadFile, StoreDocument, StoreChunks, ExtractGraph, EndIngest
  <2> QED
    BY <2>1, <2>2 DEF PruneInv
<1>9. CASE Purge \/ Prune
  BY <1>9 DEF Purge, Prune, NoWork, PruneInv
<1>10. CASE ReadForLinks \/ WriteLinks
  <2>1. work'.stage \in {"link", "relink"}
    BY <1>1, <1>10 DEF ReadForLinks, WriteLinks, Works
  <2> QED
    BY <2>1 DEF PruneInv
<1>11. CASE Finish \/ DeleteFails \/ CancelSync \/ Crash
  BY <1>1, <1>11 DEF Finish, DeleteFails, CancelSync, Crash, Unlock, PruneInv
<1>12. CASE IngestFails
  <2>1. CASE holder = Syncer
    <3>1. /\ work.stage \in {"store", "chunks", "graph"} /\ work'.seen = work.seen
          /\ UNCHANGED <<files, req>>
      BY <1>1, <1>12, <2>1 DEF IngestFails, Works
    <3> QED
      BY <2>1, <3>1 DEF PruneInv
  <2>2. CASE holder # Syncer
    BY <1>1, <1>12, <2>2 DEF IngestFails, Unlock, PruneInv
  <2> QED
    BY <2>1, <2>2
<1>13. CASE LinksFail
  BY <1>13 DEF LinksFail, NoWork, PruneInv
<1> QED
  BY <1>2, <1>3, <1>4, <1>5, <1>6, <1>7, <1>8, <1>9, <1>10, <1>11, <1>12, <1>13
     DEF Next, LockedStep, Fault, Cancel

LEMMA PruneInvHolds == Spec => [](Unspent("cancels") => PruneInv)
<1>1. Init => PruneInv
  BY DEF Init, NoWork, PruneInv
<1>2. TypeInv /\ LockInv /\ [Next]_vars /\ Unspent("cancels")' => Unspent("cancels") /\ ~Spend("cancels")
  BY UnspentBefore DEF Kinds
<1>3. TypeInv /\ LockInv /\ (Unspent("cancels") => PruneInv) /\ [Next]_vars
        => (Unspent("cancels") => PruneInv)'
  BY <1>2, PruneInvStep
<1> QED
  BY <1>1, <1>3, TypeInvHolds, LockInvHolds, PTL DEF Spec

\* prune compares the rows with a listing that is as old as the sync. It takes the
\* row of a live note only from a request that waits to store it again, with any
\* number of requests, failed steps and crashes, until the first cancelled request.
THEOREM PruneSpares == Spec => []PruneSparesLiveNotes
<1>1. LockInv /\ (Unspent("cancels") => PruneInv) => PruneSparesLiveNotes
  BY DEF LockInv, PruneInv, PruneSparesLiveNotes, Pruned, InStore
<1> QED
  BY <1>1, LockInvHolds, PruneInvHolds, PTL
-------------------------------------------------------------------------------
(* Events become and stay searchable until something is forgotten *)

\* What the store holds, or is about to hold, of a path is of the event its file
\* has; a sync has seen every row; and no row is deleted by a forget.
RowsInv ==
  /\ \A p \in InStore : rows[p].sha.note \in Notes /\ Keeps(p, rows[p].sha.note)
  /\ \A p \in Ids : rows[p].chunks \in Notes => Keeps(p, rows[p].chunks)
  /\ work.stage \in {"store", "chunks", "graph"} => Keeps(work.cur, work.buf.note)
  /\ holder = Syncer /\ work.stage \in {"ingest", "store", "chunks", "graph", "prune"} =>
       /\ InStore \subseteq work.seen /\ work.todo \subseteq work.seen
       /\ work.stage \in {"store", "chunks", "graph"} => work.cur \in work.seen
  /\ work.stage # "purge" /\ \A c \in Clients : req[c].pc # "purge"

\* A file that holds a note of an event goes on to hold one.
LEMMA KeepsStays ==
  ASSUME TypeInv, EventInv, [Next]_vars, ~Spend("forgets"), NEW p \in Ids, NEW n, Keeps(p, n)
  PROVE  Keeps(p, n)'
<1>1. /\ files \in [Ids -> Contents]
      /\ Absent \notin Notes /\ Blank \notin Notes
      /\ files[p].note \in Notes /\ Event[files[p].note] = Event[n]
  BY ConstantsAssumption DEF TypeInv, TypeOK, EventInv, Keeps
<1>2. files'[p] = files[p] => Keeps(p, n)'
  BY <1>1 DEF Keeps
<1>3. ASSUME NEW c \in Clients, NEW q \in Ids
      PROVE  ~Forget(c, q)
  BY DEF Forget
<1>4. ASSUME NEW c \in Clients, ClientStep(c)
      PROVE  Keeps(p, n)'
  <2>1. CASE files' = files
    BY <1>2, <2>1
  <2>2. CASE req[c].id \in Ids /\ files[req[c].id].note = Absent
             /\ files' = [files EXCEPT ![req[c].id] = Page(Blank)]
    BY <1>1, <1>2, <2>2
  <2>3. CASE /\ req[c].pc \in {"write", "rewrite"} /\ req[c].id \in Ids /\ req[c].note \in Notes
             /\ files' = [files EXCEPT ![req[c].id] = Page(req[c].note)]
    <3>1. CASE req[c].id = p
      <4>1. files'[p].note = req[c].note
        BY <1>1, <2>3, <3>1 DEF Page
      <4>2. Keeps(p, req[c].note)
        BY <1>1, <2>3, <3>1 DEF EventInv, WritersKeepEvent, FreshIsOwned
      <4> QED
        BY <1>1, <2>3, <4>1, <4>2 DEF Keeps
    <3>2. CASE req[c].id # p
      BY <1>1, <1>2, <2>3, <3>2
    <3> QED
      BY <3>1, <3>2
  <2> QED
    BY <1>4, <2>1, <2>2, <2>3, ClientStepMoves
<1>5. CASE WriteLinks
  <2>1. work.cur \in Ids /\ work.buf \in Contents /\ Keeps(work.cur, work.buf.note)
    BY <1>5 DEF WriteLinks, TypeInv, TypeOK, Works, BufferIsANote, EventInv, WritersKeepEvent
  <2>2. files' = files \/ files' = [files EXCEPT ![work.cur] = [work.buf EXCEPT !.rel = Links(work.cur)]]
    BY <1>5 DEF WriteLinks
  <2>3. [work.buf EXCEPT !.rel = Links(work.cur)].note = work.buf.note
    BY <2>1 DEF Contents
  <2>4. CASE p = work.cur
    <3>1. files'[p].note = files[p].note \/ files'[p].note = work.buf.note
      BY <1>1, <2>2, <2>3, <2>4
    <3>2. Event[work.buf.note] = Event[files[p].note] /\ work.buf.note \in Notes
      BY <2>1, <2>4, <1>5 DEF Keeps, WriteLinks, TypeInv, BufferIsANote
    <3>3. files'[p].note \in Notes /\ Event[files'[p].note] = Event[n]
      BY <1>1, <3>1, <3>2
    <3> QED
      BY <3>3 DEF Keeps
  <2>5. CASE p # work.cur
    BY <1>1, <1>2, <2>2, <2>5
  <2> QED
    BY <2>4, <2>5
<1>6. CASE UNCHANGED files
  BY <1>2, <1>6
<1> QED
  BY <1>3, <1>4, <1>5, <1>6
     DEF Next, vars, Remember, LockForIngest, LockForPurge, BeginSync, LockedStep, ReadFile,
         StoreDocument, StoreChunks, ExtractGraph, EndIngest, Purge, Prune, ReadForLinks, Finish,
         Fault, IngestFails, DeleteFails, LinksFail, CancelSync, Crash, Cancel

\* Nothing but a forget makes a request purge.
LEMMA NobodyPurges ==
  ASSUME TypeInv, EventInv, RowsInv, [Next]_vars, ~Spend("forgets")
  PROVE  work'.stage # "purge" /\ \A c \in Clients : req'[c].pc # "purge"
<1>1. /\ work \in Works /\ req \in [Clients -> Requests]
      /\ work.stage # "purge" /\ \A c \in Clients : req[c].pc # "purge"
  BY DEF TypeInv, TypeOK, EventInv, RowsInv
<1>2. CASE UNCHANGED vars
  BY <1>1, <1>2 DEF vars
<1>3. ASSUME NEW c \in Clients, NEW n \in Notes, Remember(c, n)
      PROVE  work' = work /\ \A d \in Clients : req'[d] = req[d] \/ req'[d].pc = "scan"
  BY <1>1, <1>3 DEF Remember, Idle
<1>4. ASSUME NEW c \in Clients, NEW p \in Ids
      PROVE  ~Forget(c, p)
  BY DEF Forget
<1>5. ASSUME NEW c \in Clients, ClientStep(c)
      PROVE  work' = work /\ \A d \in Clients : req'[d] = req[d] \/ req'[d].pc # "purge"
  BY <1>5, ClientStepMoves
<1>6. ASSUME NEW c \in Clients, LockForIngest(c) \/ LockForPurge(c)
      PROVE  work'.stage # "purge" /\ req' = req
  BY <1>1, <1>6 DEF LockForIngest, LockForPurge, NoWork
<1>7. CASE BeginSync
  BY <1>1, <1>7 DEF BeginSync, NoWork
<1>8. CASE LockedStep
  <2>1. CASE ReadFile \/ ReadForLinks \/ WriteLinks
    BY <1>1, <2>1 DEF ReadFile, ReadForLinks, WriteLinks, Works
  <2>2. CASE StoreDocument \/ StoreChunks \/ ExtractGraph \/ EndIngest
    BY <1>1, <2>2 DEF StoreDocument, StoreChunks, ExtractGraph, EndIngest, Works
  <2>3. CASE Purge \/ Prune
    BY <1>1, <2>3 DEF Purge, Prune, NoWork
  <2>4. CASE Finish
    BY <1>1, <2>4 DEF Finish, Unlock, Reply, NoWork, Idle
  <2> QED
    BY <1>8, <2>1, <2>2, <2>3, <2>4 DEF LockedStep
<1>9. CASE Fault
  <2>1. CASE IngestFails
    <3>1. CASE holder = Syncer
      BY <1>1, <2>1, <3>1 DEF IngestFails, Works
    <3>2. CASE holder # Syncer
      BY <1>1, <2>1, <3>2 DEF IngestFails, Unlock, Reply, NoWork, Idle
    <3> QED
      BY <3>1, <3>2
  <2>2. CASE DeleteFails \/ CancelSync \/ Crash
    BY <1>1, <2>2 DEF DeleteFails, CancelSync, Crash, Unlock, Reply, NoWork, Idle
  <2>3. CASE LinksFail
    BY <1>1, <2>3 DEF LinksFail, NoWork
  <2>4. CASE \E c \in Clients : Cancel(c)
    BY <1>1, <2>4 DEF Cancel, Reply, NoWork, Idle
  <2> QED
    BY <1>9, <2>1, <2>2, <2>3, <2>4 DEF Fault
<1> QED
  BY <1>1, <1>2, <1>3, <1>4, <1>5, <1>6, <1>7, <1>8, <1>9 DEF Next

\* A step that leaves the rows alone, and works on what the sync has seen.
LEMMA RowsFrame ==
  ASSUME TypeInv, EventInv, RowsInv, [Next]_vars, ~Spend("forgets"), rows' = rows,
         \/ work' = work /\ holder' = holder
         \/ work'.stage \notin {"ingest", "store", "chunks", "graph", "prune"}
         \/ /\ work'.stage \in {"ingest", "prune", "store"}
            /\ work'.stage = "store" => work'.cur \in Ids /\ Keeps(work'.cur, work'.buf.note)
            /\ holder' = Syncer =>
                 /\ InStore \subseteq work'.seen /\ work'.todo \subseteq work'.seen
                 /\ work'.stage = "store" => work'.cur \in work'.seen
  PROVE  RowsInv'
<1>1. \A p \in Ids : \A n : Keeps(p, n) => Keeps(p, n)'
  BY KeepsStays
<1>2. InStore' = InStore /\ InStore \subseteq Ids
  BY DEF InStore
<1>3. /\ \A p \in InStore : rows[p].sha.note \in Notes /\ Keeps(p, rows[p].sha.note)
      /\ \A p \in Ids : rows[p].chunks \in Notes => Keeps(p, rows[p].chunks)
      /\ work.stage \in {"store", "chunks", "graph"} => work.cur \in Ids /\ Keeps(work.cur, work.buf.note)
  BY DEF RowsInv, TypeInv, BufferIsANote
<1>4. \A p \in InStore' : rows'[p].sha.note \in Notes /\ Keeps(p, rows[p].sha.note)'
  BY <1>1, <1>2, <1>3 DEF Keeps
<1>5. \A p \in Ids : rows'[p].chunks \in Notes => Keeps(p, rows[p].chunks)'
  BY <1>1, <1>3 DEF Keeps
<1>6. work'.stage \in {"store", "chunks", "graph"} => Keeps(work.cur, work.buf.note)'
  <2>1. work'.stage \in {"store", "chunks", "graph"} =>
          work'.cur \in Ids /\ Keeps(work'.cur, work'.buf.note)
    BY <1>3
  <2> QED
    BY <1>1, <2>1 DEF Keeps
<1>7. holder' = Syncer /\ work'.stage \in {"ingest", "store", "chunks", "graph", "prune"} =>
        /\ InStore' \subseteq work'.seen /\ work'.todo \subseteq work'.seen
        /\ work'.stage \in {"store", "chunks", "graph"} => work'.cur \in work'.seen
  BY <1>2 DEF RowsInv
<1> QED
  BY <1>4, <1>5, <1>6, <1>7, NobodyPurges DEF RowsInv
\* The steps that write rows write what keeps the event.
LEMMA RowsInvStores ==
  ASSUME TypeInv, EventInv, RowsInv, StoreDocument \/ StoreChunks \/ ExtractGraph
  PROVE  RowsInv'
<1>1. /\ work \in Works /\ rows \in [Ids -> Rows] /\ work.cur \in Ids
      /\ work.buf.note \in Notes /\ Keeps(work.cur, work.buf.note)
      /\ UNCHANGED <<files, holder, req>>
  BY DEF TypeInv, TypeOK, BufferIsANote, RowsInv, StoreDocument, StoreChunks, ExtractGraph
<1>2. \A p : \A n : Keeps(p, n)' <=> Keeps(p, n)
  BY <1>1 DEF Keeps
<1>3. /\ \A p \in Ids : rows'[p].sha = rows[p].sha \/ (p = work.cur /\ rows'[p].sha = work.buf)
      /\ \A p \in Ids : rows'[p].chunks = rows[p].chunks
                        \/ (p = work.cur /\ rows'[p].chunks = work.buf.note)
  BY <1>1 DEF StoreDocument, StoreChunks, ExtractGraph, Rows
<1>4. /\ work'.stage \in {"ingest", "chunks", "graph"}
      /\ work.stage \in {"store", "chunks", "graph"}
      /\ work'.stage # "ingest" => work'.cur = work.cur /\ work'.buf = work.buf
      /\ work'.seen = work.seen /\ work'.todo = work.todo
  BY <1>1 DEF StoreDocument, StoreChunks, ExtractGraph, Works
<1>5. \A p \in InStore' : rows'[p].sha.note \in Notes /\ Keeps(p, rows'[p].sha.note)
  BY <1>1, <1>3 DEF RowsInv, InStore
<1>6. \A p \in Ids : rows'[p].chunks \in Notes => Keeps(p, rows'[p].chunks)
  BY <1>1, <1>3 DEF RowsInv
<1>7. InStore' \subseteq InStore \cup {work.cur}
  BY <1>3 DEF InStore
<1>8. holder' = Syncer => /\ InStore' \subseteq work'.seen /\ work'.todo \subseteq work'.seen
                          /\ work.cur \in work'.seen
  BY <1>1, <1>4, <1>7 DEF RowsInv
<1> QED
  BY <1>1, <1>2, <1>4, <1>5, <1>6, <1>8 DEF RowsInv, Keeps

\* A sync that has seen every row prunes nothing.
LEMMA NothingPruned ==
  ASSUME TypeInv, LockInv, RowsInv, Prune
  PROVE  rows' = rows
<1>1. Pruned = {} /\ rows \in [Ids -> Rows]
  BY DEF Prune, LockInv, RowsInv, Pruned, TypeInv, TypeOK
<1>2. rows' = [p \in Ids |-> rows[p]]
  BY <1>1 DEF Prune
<1> QED
  BY <1>1, <1>2

LEMMA RowsInvStep ==
  ASSUME TypeInv, LockInv, EventInv, RowsInv, [Next]_vars, ~Spend("forgets")
  PROVE  RowsInv'
<1>1. /\ work \in Works /\ files \in [Ids -> Contents]
      /\ holder \in Clients \cup {Syncer, Nobody}
      /\ Syncer \notin Clients /\ Nobody \notin Clients \cup {Syncer} /\ Absent \notin Notes
  BY ConstantsAssumption DEF TypeInv, TypeOK, EventInv
<1>2. /\ \A p \in InStore : files[p].note \in Notes
      /\ holder = Syncer /\ work.stage \in {"ingest", "store", "chunks", "graph", "prune"} =>
           InStore \subseteq work.seen /\ work.todo \subseteq work.seen
  BY DEF RowsInv, Keeps
<1>3. CASE UNCHANGED vars
  BY <1>3, RowsFrame DEF vars
<1>4. ASSUME NEW c \in Clients, NEW n \in Notes, Remember(c, n)
      PROVE  RowsInv'
  BY <1>4, RowsFrame DEF Remember
<1>5. ASSUME NEW c \in Clients, NEW p \in Ids
      PROVE  ~Forget(c, p)
  BY DEF Forget
<1>6. ASSUME NEW c \in Clients, ClientStep(c)
      PROVE  RowsInv'
  BY <1>6, ClientStepMoves, RowsFrame
<1>7. CASE BeginSync
  <2>1. /\ work'.stage = "ingest" /\ work'.todo = OnDisk /\ work'.seen = OnDisk
        /\ rows' = rows
    BY <1>7 DEF BeginSync, NoWork
  <2>2. InStore \subseteq OnDisk
    BY <1>1, <1>2 DEF InStore, OnDisk
  <2> QED
    BY <2>1, <2>2, RowsFrame
<1>8. ASSUME NEW c \in Clients, LockForIngest(c) \/ LockForPurge(c)
      PROVE  RowsInv'
  <2>1. work'.stage \in {"ingest", "purge"} /\ holder' # Syncer /\ rows' = rows
    BY <1>1, <1>8 DEF LockForIngest, LockForPurge, NoWork
  <2> QED
    BY <2>1, RowsFrame
<1>9. CASE ReadFile
  <2>1. PICK p \in work.todo :
          work' = IF Settled(p)
                  THEN [work EXCEPT !.todo = @ \ {p}]
                  ELSE [work EXCEPT !.todo = @ \ {p}, !.cur = p, !.buf = files[p], !.stage = "store"]
    BY <1>9 DEF ReadFile
  <2>2. /\ p \in Ids /\ files[p] \in Contents /\ work.stage = "ingest"
        /\ UNCHANGED <<rows, holder>>
    BY <1>1, <1>9 DEF ReadFile, Works
  <2>3. CASE Settled(p)
    <3>1. work'.stage = "ingest" /\ work'.todo \subseteq work.todo /\ work'.seen = work.seen
      BY <1>1, <2>1, <2>2, <2>3 DEF Works
    <3> QED
      BY <1>2, <2>2, <3>1, RowsFrame
  <2>4. CASE ~Settled(p)
    <3>1. Keeps(p, files[p].note)
      BY <2>2, <2>4 DEF Settled, Contents, Keeps
    <3>2. /\ work'.stage = "store" /\ work'.todo \subseteq work.todo /\ work'.seen = work.seen
          /\ work'.cur = p /\ work'.buf = files[p]
      BY <1>1, <2>1, <2>2, <2>4 DEF Works
    <3> QED
      BY <1>2, <2>2, <3>1, <3>2, RowsFrame
  <2> QED
    BY <2>3, <2>4
<1>10. CASE StoreDocument \/ StoreChunks \/ ExtractGraph
  BY <1>10, RowsInvStores
<1>11. CASE EndIngest
  <2>1. /\ UNCHANGED <<rows, holder>> /\ work.stage = "ingest"
        /\ \/ work'.stage = "prune" /\ work'.todo = work.todo /\ work'.seen = work.seen
           \/ work'.stage = "link"
    BY <1>1, <1>11 DEF EndIngest, Works
  <2> QED
    BY <1>2, <2>1, RowsFrame
<1>12. CASE Purge
  BY <1>12 DEF Purge, RowsInv
<1>13. CASE Prune
  <2>1. work'.stage = "link" /\ rows' = rows
    BY <1>13, NothingPruned DEF Prune, NoWork
  <2> QED
    BY <2>1, RowsFrame
<1>14. CASE ReadForLinks \/ WriteLinks
  <2>1. work'.stage \in {"link", "relink"} /\ rows' = rows
    BY <1>1, <1>14 DEF ReadForLinks, WriteLinks, Works
  <2> QED
    BY <2>1, RowsFrame
<1>15. CASE Finish \/ DeleteFails \/ CancelSync \/ Crash
  <2>1. work'.stage = "off" /\ rows' = rows
    BY <1>15 DEF Finish, DeleteFails, CancelSync, Crash, Unlock, NoWork
  <2> QED
    BY <2>1, RowsFrame
<1>16. CASE IngestFails
  <2>1. CASE holder = Syncer
    <3>1. /\ UNCHANGED <<rows, holder>> /\ work.stage \in {"store", "chunks", "graph"}
          /\ work'.stage = "ingest" /\ work'.todo = work.todo /\ work'.seen = work.seen
      BY <1>1, <1>16, <2>1 DEF IngestFails, Works
    <3> QED
      BY <1>2, <3>1, RowsFrame
  <2>2. CASE holder # Syncer
    <3>1. work'.stage = "off" /\ rows' = rows
      BY <1>16, <2>2 DEF IngestFails, Unlock, NoWork
    <3> QED
      BY <3>1, RowsFrame
  <2> QED
    BY <2>1, <2>2
<1>17. CASE LinksFail
  <2>1. work'.stage = "link" /\ rows' = rows
    BY <1>17 DEF LinksFail, NoWork
  <2> QED
    BY <2>1, RowsFrame
<1>18. ASSUME NEW c \in Clients, Cancel(c)
       PROVE  RowsInv'
  <2>1. /\ rows' = rows
        /\ IF holder = c THEN work' = NoWork ELSE work' = work /\ holder' = holder
    BY <1>18 DEF Cancel
  <2>2. work'.stage = "off" \/ (work' = work /\ holder' = holder)
    BY <2>1 DEF NoWork
  <2> QED
    BY <2>1, <2>2, RowsFrame
<1> QED
  BY <1>3, <1>4, <1>5, <1>6, <1>7, <1>8, <1>9, <1>10, <1>11, <1>12, <1>13, <1>14, <1>15, <1>16,
     <1>17, <1>18
     DEF Next, LockedStep, Fault
\* Up to the first fault a row has chunks once its ingest has stored them, the note
\* of a request that holds the lock is on its way into the store or there, and what
\* is acknowledged has chunks.
ChunksInv ==
  /\ \A p \in InStore : rows[p].chunks \in Notes \/ (work.stage = "chunks" /\ p = work.cur)
  /\ holder \in Clients =>
       \/ req[holder].id \in InStore
       \/ work.stage \in {"ingest", "store", "chunks", "graph"} /\ req[holder].id \in work.todo
       \/ work.stage = "store" /\ work.cur = req[holder].id
  /\ \A p \in Ids : promise[p] \in Notes => rows[p].chunks \in Notes

\* A client that holds the lock is ingesting the note it wrote.
LEMMA HolderIngests ==
  ASSUME TypeInv, LockInv, EventInv, RowsInv, holder \in Clients
  PROVE  /\ work.stage # "off" /\ req[holder].pc = "ingest"
         /\ req[holder].id \in Ids /\ req[holder].note \in Notes
         /\ Keeps(req[holder].id, req[holder].note)
<1>1. holder # Nobody
  BY ConstantsAssumption
<1>2. holder # Syncer
  BY ConstantsAssumption
<1>3. work.stage # "off" /\ req[holder].pc = "ingest"
  BY <1>1, <1>2 DEF LockInv, TypeInv, HolderIsBusy, RowsInv
<1> QED
  BY <1>3 DEF TypeInv, RequestsKnowTheirPath, EventInv, WritersKeepEvent

LEMMA ChunksFrame ==
  ASSUME ChunksInv, UNCHANGED <<rows, work, holder>>,
         holder \in Clients => req'[holder] = req[holder],
         \A p \in Ids : promise'[p] \in Notes => promise'[p] = promise[p]
  PROVE  ChunksInv'
BY DEF ChunksInv, InStore

LEMMA ChunksInvLockedStep ==
  ASSUME TypeInv, LockInv, EventInv, RowsInv, ChunksInv, LockedStep
  PROVE  ChunksInv'
<1>1. /\ work \in Works /\ files \in [Ids -> Contents] /\ rows \in [Ids -> Rows]
      /\ promise \in [Ids -> Notes \cup {Absent, Forgotten}]
      /\ Absent \notin Notes /\ Blank \notin Notes /\ Syncer \notin Clients
      /\ Nobody \notin Clients
  BY ConstantsAssumption DEF TypeInv, TypeOK
<1>2. CASE ReadFile
  <2>1. PICK p \in work.todo :
          work' = IF Settled(p)
                  THEN [work EXCEPT !.todo = @ \ {p}]
                  ELSE [work EXCEPT !.todo = @ \ {p}, !.cur = p, !.buf = files[p], !.stage = "store"]
    BY <1>2 DEF ReadFile
  <2>2. /\ p \in Ids /\ work.stage = "ingest" /\ UNCHANGED <<files, rows, holder, req, promise>>
    BY <1>1, <1>2 DEF ReadFile, Works
  <2>3. /\ work'.todo = work.todo \ {p} /\ work'.stage \in {"ingest", "store"}
        /\ ~Settled(p) => work'.stage = "store" /\ work'.cur = p
    BY <1>1, <2>1, <2>2 DEF Works
  <2>4. holder \in Clients /\ req[holder].id = p /\ Settled(p) => p \in InStore
    BY <1>1, <2>2, HolderIngests DEF Settled, Keeps, InStore
  <2> QED
    BY <2>2, <2>3, <2>4 DEF ChunksInv, InStore
<1>3. CASE StoreDocument \/ StoreChunks \/ ExtractGraph
  <2>1. /\ work.cur \in Ids /\ work.buf.note \in Notes
        /\ work.stage \in {"store", "chunks", "graph"}
        /\ UNCHANGED <<holder, req, promise>>
        /\ \A p \in Ids \ {work.cur} : rows'[p] = rows[p]
    BY <1>1, <1>3 DEF StoreDocument, StoreChunks, ExtractGraph, TypeInv, BufferIsANote
  <2>2. /\ rows[work.cur] \in Rows /\ work'.todo = work.todo
        /\ work'.stage \in {"ingest", "chunks", "graph"}
    BY <1>1, <1>3, <2>1 DEF StoreDocument, StoreChunks, ExtractGraph, Works
  <2>3. CASE StoreDocument
    <3>1. /\ rows'[work.cur].sha = work.buf /\ rows'[work.cur].chunks = rows[work.cur].chunks
          /\ work'.stage = "chunks" /\ work'.cur = work.cur /\ work.stage = "store"
      BY <1>1, <2>1, <2>2, <2>3 DEF StoreDocument, Rows, Works
    <3> QED
      BY <1>1, <2>1, <2>2, <3>1 DEF ChunksInv, InStore
  <2>4. CASE StoreChunks
    <3>1. /\ rows'[work.cur].sha = rows[work.cur].sha /\ rows'[work.cur].chunks = work.buf.note
          /\ work.stage = "chunks"
      BY <1>1, <2>1, <2>2, <2>4 DEF StoreChunks, Rows
    <3> QED
      BY <1>1, <2>1, <2>2, <3>1 DEF ChunksInv, InStore
  <2>5. CASE ExtractGraph
    <3>1. /\ rows'[work.cur].sha = rows[work.cur].sha
          /\ rows'[work.cur].chunks = rows[work.cur].chunks
          /\ work.stage = "graph"
      BY <1>1, <2>1, <2>2, <2>5 DEF ExtractGraph, Rows
    <3> QED
      BY <1>1, <2>1, <2>2, <3>1 DEF ChunksInv, InStore
  <2> QED
    BY <1>3, <2>3, <2>4, <2>5
<1>4. CASE EndIngest \/ ReadForLinks \/ WriteLinks
  <2>1. /\ UNCHANGED <<rows, holder, req, promise>>
        /\ work.stage \in {"ingest", "link", "relink"}
        /\ work.stage = "ingest" => work.todo = {}
    BY <1>4 DEF EndIngest, ReadForLinks, WriteLinks
  <2> QED
    BY <2>1 DEF ChunksInv, InStore
<1>5. CASE Purge
  BY <1>5 DEF Purge, RowsInv
<1>6. CASE Prune
  <2>1. /\ UNCHANGED <<rows, holder, promise>> /\ work.stage = "prune" /\ holder \notin Clients
    BY <1>1, <1>6, NothingPruned DEF Prune, LockInv
  <2> QED
    BY <2>1 DEF ChunksInv, InStore
<1>7. CASE Finish
  <2>1. /\ work.stage = "link" /\ holder' \notin Clients /\ rows' = rows
    BY <1>1, <1>7 DEF Finish, Unlock
  <2>2. \A p \in InStore : rows[p].chunks \in Notes
    BY <2>1 DEF ChunksInv
  <2>3. \A p \in Ids : promise'[p] = promise[p] \/ (holder \in Clients /\ p = req[holder].id)
    BY <1>1, <1>7 DEF Finish
  <2>4. holder \in Clients => req[holder].id \in InStore
    BY <2>1 DEF ChunksInv
  <2> QED
    BY <2>1, <2>2, <2>3, <2>4 DEF ChunksInv, InStore
<1> QED
  BY <1>2, <1>3, <1>4, <1>5, <1>6, <1>7 DEF LockedStep

LEMMA ChunksInvStep ==
  ASSUME TypeInv, LockInv, EventInv, RowsInv, ChunksInv, VectorOn, [Next]_vars, ~Fault,
         ~Spend("forgets")
  PROVE  ChunksInv'
<1>1. /\ req \in [Clients -> Requests]
      /\ promise \in [Ids -> Notes \cup {Absent, Forgotten}] /\ Absent \notin Notes
      /\ Syncer \notin Clients /\ Nobody \notin Clients
      /\ holder = Nobody <=> work.stage = "off"
  BY ConstantsAssumption DEF TypeInv, TypeOK, EventInv, LockInv
<1>2. CASE UNCHANGED vars
  BY <1>2, ChunksFrame DEF vars
<1>3. ASSUME NEW c \in Clients, NEW n \in Notes, Remember(c, n)
      PROVE  ChunksInv'
  <2>1. holder \in Clients => req'[holder] = req[holder]
    BY <1>1, <1>3, HolderIngests DEF Remember
  <2> QED
    BY <1>3, <2>1, ChunksFrame DEF Remember
<1>4. ASSUME NEW c \in Clients, NEW p \in Ids
      PROVE  ~Forget(c, p)
  BY DEF Forget
<1>5. ASSUME NEW c \in Clients, ClientStep(c)
      PROVE  ChunksInv'
  <2>1. holder \in Clients => req'[holder] = req[holder]
    BY <1>5, ClientStepMoves, HolderIngests
  <2>2. \A p \in Ids : promise'[p] \in Notes => promise'[p] = promise[p]
    BY <1>1, <1>5, ClientStepMoves
  <2> QED
    BY <1>5, <2>1, <2>2, ClientStepMoves, ChunksFrame
<1>6. CASE BeginSync
  BY <1>1, <1>6 DEF BeginSync, ChunksInv, InStore
<1>7. ASSUME NEW c \in Clients, LockForIngest(c)
      PROVE  ChunksInv'
  BY <1>1, <1>7 DEF LockForIngest, NoWork, ChunksInv, InStore
<1>8. ASSUME NEW c \in Clients
      PROVE  ~LockForPurge(c)
  BY DEF LockForPurge, RowsInv
<1>9. CASE LockedStep
  BY <1>9, ChunksInvLockedStep
<1> QED
  BY <1>2, <1>3, <1>4, <1>5, <1>6, <1>7, <1>8, <1>9 DEF Next

LEMMA RowsInvHolds ==
  Spec => [](Unspent("forgets") => RowsInv /\ (Faultless /\ VectorOn => ChunksInv))
<1> DEFINE Good == Unspent("forgets") => RowsInv /\ (Faultless /\ VectorOn => ChunksInv)
           Calm == Unspent("forgets") => EventInv
<1>1. Init => Good
  BY ConstantsAssumption
     DEF Init, RowsInv, ChunksInv, InStore, NoRow, NoFile, NoWork, Idle
<1>2. TypeInv /\ LockInv /\ Calm /\ Good /\ [Next]_vars => Good'
  <2> SUFFICES ASSUME TypeInv, LockInv, Calm, Good, [Next]_vars, Unspent("forgets")'
               PROVE  RowsInv' /\ (Faultless /\ VectorOn => ChunksInv)'
    OBVIOUS
  <2>1. ~Spend("forgets") /\ EventInv /\ RowsInv /\ (Faultless /\ VectorOn => ChunksInv)
    BY UnspentBefore DEF Kinds
  <2>2. RowsInv'
    BY <2>1, RowsInvStep
  <2>3. ASSUME Faultless', VectorOn
        PROVE  ChunksInv'
    BY <2>1, <2>3, FaultlessBefore, ChunksInvStep
  <2> QED
    BY <2>2, <2>3
<1> QED
  BY <1>1, <1>2, TypeInvHolds, LockInvHolds, EventInvHolds, PTL DEF Spec

\* No step takes the chunks of a note away, or its event.
LEMMA SearchableStays ==
  ASSUME TypeInv, LockInv, EventInv, RowsInv, RowsInv', [Next]_vars, ~Spend("forgets"),
         NEW p \in Ids, Searchable(p)
  PROVE  Searchable(p)'
<1>1. /\ rows \in [Ids -> Rows] /\ work \in Works /\ rows[p].chunks \in Notes
      /\ Keeps(p, rows[p].chunks)
  BY DEF TypeInv, TypeOK, Searchable, Keeps
<1>2. rows'[p].chunks \in Notes
  <2>1. CASE UNCHANGED rows
    BY <1>1, <2>1
  <2>2. CASE StoreDocument \/ StoreChunks \/ ExtractGraph
    BY <1>1, <2>2
       DEF StoreDocument, StoreChunks, ExtractGraph, Rows, TypeInv, BufferIsANote
  <2>3. CASE Purge
    BY <2>3 DEF Purge, RowsInv
  <2>4. CASE Prune
    BY <1>1, <2>4, NothingPruned
  <2> QED
    BY <2>1, <2>2, <2>3, <2>4, ClientStepMoves
       DEF Next, vars, Remember, Forget, LockForIngest, LockForPurge, BeginSync, LockedStep, ReadFile,
           EndIngest, ReadForLinks, WriteLinks, Finish,
           Fault, IngestFails, DeleteFails, LinksFail, CancelSync, Crash, Cancel
<1>3. Keeps(p, rows[p].chunks)'
  BY <1>2 DEF RowsInv, Keeps
<1> QED
  BY <1>2, <1>3 DEF Searchable, Keeps

\* As long as nothing was forgotten, an acknowledged event can be found up to the
\* first fault, and what can be found stays so through every sync, overlapping
\* request, failure and crash: prune and the digests, both decided from what was
\* read earlier, never take a live note's chunks away.
THEOREM EventsStaySearchable == Spec => EventStaysSearchable
<1> DEFINE Good == Unspent("forgets") => RowsInv /\ (Faultless /\ VectorOn => ChunksInv)
           Calm == Unspent("forgets") => EventInv
           Kept == Unspent("forgets")' => \A p \in Ids : Searchable(p) => Searchable(p)'
<1>1. Good => PromisesSearchable
  BY DEF RowsInv, ChunksInv, PromisesSearchable, Searchable, Keeps
<1>2. TypeInv /\ LockInv /\ Calm /\ Good /\ Good' /\ [Next]_vars => [Kept]_<<files, rows, budget>>
  <2> SUFFICES ASSUME TypeInv, LockInv, Calm, Good, Good', [Next]_vars, Unspent("forgets")'
               PROVE  \A p \in Ids : Searchable(p) => Searchable(p)'
    OBVIOUS
  <2>1. ~Spend("forgets") /\ EventInv /\ RowsInv /\ RowsInv'
    BY UnspentBefore DEF Kinds
  <2> QED
    BY <2>1, SearchableStays
<1> QED
  BY <1>1, <1>2, TypeInvHolds, LockInvHolds, EventInvHolds, RowsInvHolds, PTL
     DEF Spec, EventStaysSearchable
-------------------------------------------------------------------------------
(* One note per session, when requests come one at a time *)

\* No path but p holds a note of the session of m.
Alone(p, m) == Session[m] # Absent => \A q \in Ids \ {p} : ~Holds(q, m)

\* Besides the property: from the dedup scan to the write, the note's session has
\* no file (or, for a better version, one); and a link pass writes back a note of
\* the session its path has, unless the one client has just forgotten it and waits
\* for the lock that the pass holds.
OneInv(c) ==
  /\ \A p \in Ids : files[p].note \in Notes => Alone(p, files[p].note)
  /\ req[c].pc \in {"near", "ids", "next", "create", "write"} =>
       (Session[req[c].note] # Absent => \A p \in Ids : ~Holds(p, req[c].note))
  /\ req[c].pc = "rewrite" => Holds(req[c].id, req[c].note)
  /\ req[c].pc = "write" => files[req[c].id].note = Blank
  /\ req[c].pc = "purge" => ~Unspent("forgets")
  /\ work.stage = "relink" =>
       Holds(work.cur, work.buf.note) \/ (req[c].pc = "purge" /\ Alone(work.cur, work.buf.note))

\* The two steps that write a note into a file.
LEMMA OneInvWrites ==
  ASSUME TypeInv, LockInv, NEW c \in Clients, Clients = {c}, OneInv(c),
         NEW p \in Ids, NEW m \in Contents, m.note \in Notes,
         Alone(p, m.note), files' = [files EXCEPT ![p] = m]
  PROVE  \A q \in Ids : files'[q].note \in Notes => Alone(q, files[q].note)'
<1>1. files \in [Ids -> Contents]
  BY DEF TypeInv, TypeOK
<1>2. files'[p].note = m.note /\ \A q \in Ids \ {p} : files'[q] = files[q]
  BY <1>1
<1>3. \A q \in Ids \ {p} : files[q].note \in Notes /\ Session[files[q].note] # Absent =>
        Session[files[q].note] # Session[m.note] /\ \A r \in Ids \ {q} : ~Holds(r, files[q].note)
  BY DEF Alone, Holds, OneInv
<1> QED
  BY <1>2, <1>3 DEF Alone, Holds
LEMMA OneInvFrame ==
  ASSUME TypeInv, LockInv, [Next]_vars, NEW c \in Clients, OneInv(c), UNCHANGED files,
         req'[c] = req[c] \/ req'[c].pc \in {"idle", "scan"},
         \/ work'.stage # "relink"
         \/ work' = work /\ (req'[c] = req[c] \/ req[c].pc # "purge")
         \/ Holds(work'.cur, work'.buf.note)
  PROVE  OneInv(c)'
<1>1. \A p : \A m : Holds(p, m)' <=> Holds(p, m)
  BY DEF Holds
<1>2. ~Unspent("forgets") => ~Unspent("forgets")'
  BY UnspentBefore DEF Kinds
<1> QED
  BY <1>1, <1>2 DEF OneInv, Alone, Holds

\* The client forgets a note, possibly the one a link pass is about to write back.
LEMMA OneInvForget ==
  ASSUME TypeInv, LockInv, [Next]_vars, NEW c \in Clients, Clients = {c}, OneInv(c),
         NEW p \in Ids, Forget(c, p)
  PROVE  OneInv(c)'
<1>1. /\ files \in [Ids -> Contents] /\ req \in [Clients -> Requests]
      /\ Absent \notin Notes /\ work' = work
  BY ConstantsAssumption DEF TypeInv, TypeOK, Forget
<1>2. files'[p].note = Absent /\ \A q \in Ids \ {p} : files'[q] = files[q]
  BY <1>1 DEF Forget, NoFile
<1>3. \A q \in Ids : \A m : Holds(q, m)' <=> Holds(q, m) /\ q # p
  BY <1>1, <1>2 DEF Holds
<1>4. \A q \in Ids : files'[q].note \in Notes => Alone(q, files[q].note)'
  BY <1>1, <1>2, <1>3 DEF OneInv, Alone
<1>5. ~Unspent("forgets")'
  BY UnspentBefore DEF Forget, Kinds
<1>6. \/ req'[c].pc = "purge"
      \/ req'[c].pc = "idle" /\ work.stage = "off"
  <2>1. CASE VectorOn
    <3>1. req'[c] = [Idle EXCEPT !.pc = "purge", !.id = p]
      BY <1>1, <2>1 DEF Forget
    <3> QED
      BY <3>1 DEF Idle
  <2>2. CASE ~VectorOn
    <3>1. req'[c] = Idle
      BY <1>1, <2>2 DEF Forget, Reply
    <3> QED
      BY <2>2, <3>1 DEF Idle, LockInv
  <2> QED
    BY <2>1, <2>2
<1>7. ASSUME work.stage = "relink"
      PROVE  Holds(work.cur, work.buf.note)' \/ (req'[c].pc = "purge" /\ Alone(work.cur, work.buf.note)')
  <2>1. work.cur \in Ids /\ Holds(work.cur, work.buf.note)
    BY <1>7 DEF Forget, TypeInv, BufferIsANote, OneInv
  <2>2. CASE work.cur # p
    BY <1>1, <1>3, <2>1, <2>2
  <2>3. CASE work.cur = p
    <3>1. Alone(p, work.buf.note)
      BY <2>1, <2>3 DEF OneInv, Alone, Holds
    <3>2. Alone(work.cur, work.buf.note)'
      BY <1>1, <1>3, <2>3, <3>1 DEF Alone
    <3> QED
      BY <1>6, <1>7, <3>2
  <2> QED
    BY <2>2, <2>3
<1> QED
  BY <1>1, <1>4, <1>5, <1>6, <1>7 DEF OneInv

\* The client's own steps: it found no file of the session, or the one it replaces.
LEMMA OneInvClientStep ==
  ASSUME SimilarOfOneSession, TypeInv, LockInv, [Next]_vars, NEW c \in Clients, Clients = {c},
         OneInv(c), ClientStep(c)
  PROVE  OneInv(c)'
<1>1. /\ files \in [Ids -> Contents] /\ work' = work /\ req[c].pc # "purge"
      /\ Absent \notin Notes /\ Blank \notin Notes /\ Absent # Blank
  BY ClientStepMoves, ConstantsAssumption DEF TypeInv, TypeOK
<1>2. work.stage = "relink" => work.cur \in Ids /\ Holds(work.cur, work.buf.note)
  BY <1>1 DEF OneInv, TypeInv, BufferIsANote
<1>3. CASE UNCHANGED files
  <2>1. \A p : \A m : Holds(p, m)' <=> Holds(p, m)
    BY <1>3 DEF Holds
  <2>2. ~(/\ req[c].id \in Ids /\ files[req[c].id].note = Absent
          /\ files' = [files EXCEPT ![req[c].id] = Page(Blank)])
    BY <1>1, <1>3 DEF Page
  <2>3. /\ req'[c].pc \in {"idle", "rewrite", "near", "next", "ids", "create", "ingest"}
        /\ req'[c].pc = "rewrite" => Holds(req'[c].id, req'[c].note)
        /\ req'[c].pc \in {"near", "next", "ids", "create"} /\ Session[req'[c].note] # Absent =>
             \A p \in Ids : ~Holds(p, req'[c].note)
    <3>1. req[c].pc \in {"near", "ids", "next", "create"} /\ Session[req[c].note] # Absent =>
            \A p \in Ids : ~Holds(p, req[c].note)
      BY DEF OneInv
    <3> QED
      BY <2>2, <3>1, ClientStepMoves
  <2> QED
    BY <1>1, <1>2, <1>3, <2>1, <2>3 DEF OneInv, Alone, Holds
<1>4. CASE /\ req[c].pc = "create" /\ req'[c].pc = "write"
           /\ req'[c].note = req[c].note /\ req'[c].id = req[c].id
           /\ req[c].id \in Ids /\ files[req[c].id].note = Absent
           /\ files' = [files EXCEPT ![req[c].id] = Page(Blank)]
  <2>1. files'[req[c].id].note = Blank /\ \A q \in Ids \ {req[c].id} : files'[q] = files[q]
    BY <1>1, <1>4 DEF Page
  <2>2. \A q \in Ids : \A m : Holds(q, m)' <=> Holds(q, m)
    BY <1>1, <1>4, <2>1 DEF Holds
  <2>3. \A q \in Ids : files'[q].note \in Notes => Alone(q, files[q].note)'
    BY <1>1, <1>4, <2>1, <2>2 DEF OneInv, Alone
  <2> QED
    BY <1>1, <1>2, <1>4, <2>1, <2>2, <2>3 DEF OneInv
<1>5. CASE /\ req[c].pc \in {"write", "rewrite"}
           /\ req[c].id \in Ids /\ req[c].note \in Notes
           /\ files' = [files EXCEPT ![req[c].id] = Page(req[c].note)]
           /\ req'[c].pc \in {"ingest", "idle"}
  <2> DEFINE p == req[c].id
             n == req[c].note
  <2>1. Alone(p, n)
    BY <1>5 DEF OneInv, Alone, Holds
  <2>2. Page(n) \in Contents /\ Page(n).note = n
    BY <1>5, Constructors DEF Page
  <2>3. \A q \in Ids : files'[q].note \in Notes => Alone(q, files[q].note)'
    BY <1>5, <2>1, <2>2, OneInvWrites
  <2>4. work.stage = "relink" => Holds(work.cur, work.buf.note)'
    <3>1. files'[p].note = n /\ \A q \in Ids \ {p} : files'[q] = files[q]
      BY <1>1, <1>5, <2>2
    <3>2. work.stage = "relink" /\ work.cur = p => Holds(p, n)
      BY <1>1, <1>2, <1>5 DEF OneInv, Holds
    <3>3. work.stage = "relink" /\ work.cur = p => Session[n] = Session[work.buf.note]
      BY <1>2, <3>2 DEF Holds
    <3> QED
      BY <1>1, <1>2, <1>5, <3>1, <3>3 DEF Holds
  <2> QED
    BY <1>1, <1>5, <2>3, <2>4 DEF OneInv
<1> QED
  BY <1>3, <1>4, <1>5, ClientStepMoves

\* A link pass puts back what it read: over a note of the same session, or where
\* the one client has just deleted it.
LEMMA OneInvWriteLinks ==
  ASSUME TypeInv, LockInv, [Next]_vars, NEW c \in Clients, Clients = {c}, OneInv(c), WriteLinks
  PROVE  OneInv(c)'
<1> DEFINE p == work.cur
           linked == [work.buf EXCEPT !.rel = Links(p)]
<1>1. /\ files \in [Ids -> Contents] /\ work \in Works /\ req' = req
      /\ p \in Ids /\ work.buf \in Contents /\ work.buf.note \in Notes /\ Blank \notin Notes
      /\ work'.stage = "link" /\ work.stage = "relink"
  BY ConstantsAssumption DEF TypeInv, TypeOK, Works, BufferIsANote, WriteLinks
<1>2. linked \in Contents /\ linked.note = work.buf.note
  BY <1>1, Constructors DEF Contents
<1>3. files' = files \/ files' = [files EXCEPT ![p] = linked]
  BY DEF WriteLinks
<1>4. Alone(p, work.buf.note)
  BY <1>1 DEF OneInv, Alone, Holds
<1> HIDE DEF linked
<1>5. CASE files' = files
  BY <1>1, <1>5, OneInvFrame
<1>6. CASE files' = [files EXCEPT ![p] = linked]
  <2>1. \A q \in Ids : files'[q].note \in Notes => Alone(q, files[q].note)'
    BY <1>1, <1>2, <1>4, <1>6, OneInvWrites
  <2>2. ~Unspent("forgets") => ~Unspent("forgets")'
    BY UnspentBefore DEF Kinds
  <2>3. files'[p].note = work.buf.note /\ \A q \in Ids \ {p} : files'[q] = files[q]
    BY <1>1, <1>2, <1>6
  <2>4. CASE req[c].pc = "purge"
    BY <1>1, <2>1, <2>2, <2>4 DEF OneInv
  <2>5. CASE req[c].pc # "purge"
    <3>1. Holds(p, work.buf.note)
      BY <1>1, <2>5 DEF OneInv
    <3>2. \A q \in Ids : \A m : Holds(q, m)' <=> Holds(q, m)
      BY <1>1, <2>3, <3>1 DEF Holds
    <3>3. req[c].pc = "write" => req[c].id # p /\ req[c].id \in Ids
      BY <1>1, <3>1 DEF OneInv, Holds, TypeInv, RequestsKnowTheirPath
    <3>4. req[c].pc = "rewrite" => req[c].id \in Ids
      BY DEF TypeInv, RequestsKnowTheirPath
    <3> QED
      BY <1>1, <2>1, <2>3, <2>5, <3>2, <3>3, <3>4 DEF OneInv
  <2> QED
    BY <2>4, <2>5
<1> QED
  BY <1>3, <1>5, <1>6
LEMMA OneInvFault ==
  ASSUME TypeInv, LockInv, [Next]_vars, NoForgetAbandoned', NEW c \in Clients, Clients = {c}, OneInv(c), Fault
  PROVE  OneInv(c)'
<1>1. /\ req \in [Clients -> Requests] /\ work \in Works
      /\ req[c].pc = "purge" => ~Unspent("forgets")
  BY DEF TypeInv, TypeOK, OneInv
<1>2. CASE IngestFails
  <2>1. CASE holder = Syncer
    <3>1. work'.stage # "relink" /\ req' = req /\ files' = files
      BY <1>1, <1>2, <2>1 DEF IngestFails, Works
    <3> QED
      BY <3>1, OneInvFrame
  <2>2. CASE holder # Syncer
    <3>1. work'.stage # "relink" /\ (req'[c] = req[c] \/ req'[c].pc = "idle") /\ files' = files
      BY <1>1, <1>2, <2>2 DEF IngestFails, Unlock, Reply, NoWork, Idle
    <3> QED
      BY <3>1, OneInvFrame
  <2> QED
    BY <2>1, <2>2
<1>3. CASE DeleteFails \/ CancelSync \/ Crash
  <2>1. work'.stage # "relink" /\ (req'[c] = req[c] \/ req'[c].pc = "idle") /\ files' = files
    BY <1>1, <1>3 DEF DeleteFails, CancelSync, Crash, Unlock, Reply, NoWork, Idle
  <2> QED
    BY <2>1, OneInvFrame
<1>4. CASE LinksFail
  <2>1. work'.stage # "relink" /\ req' = req /\ files' = files
    BY <1>4 DEF LinksFail, NoWork
  <2> QED
    BY <2>1, OneInvFrame
<1>5. CASE Cancel(c)
  <2>1. ~Unspent("cancels")' /\ (Unspent("forgets")' => Unspent("forgets"))
    BY <1>5, UnspentBefore DEF Cancel, Kinds
  <2>2. req[c].pc # "purge"
    BY <1>1, <2>1 DEF NoForgetAbandoned
  <2>3. /\ req'[c].pc = "idle" /\ files' = files
        /\ work' = work \/ work'.stage # "relink"
    BY <1>1, <1>5 DEF Cancel, Reply, NoWork, Idle
  <2> QED
    BY <2>2, <2>3, OneInvFrame
<1> QED
  BY <1>2, <1>3, <1>4, <1>5 DEF Fault

LEMMA OneInvStep ==
  ASSUME SimilarOfOneSession, TypeInv, LockInv, [Next]_vars, NoForgetAbandoned',
         NEW c \in Clients, Clients = {c}, OneInv(c)
  PROVE  OneInv(c)'
<1>1. /\ req \in [Clients -> Requests] /\ work \in Works /\ files \in [Ids -> Contents]
      /\ holder = Nobody <=> work.stage = "off"
  BY DEF TypeInv, TypeOK, LockInv
<1>2. CASE UNCHANGED vars
  BY <1>2, OneInvFrame DEF vars
<1>3. ASSUME NEW n \in Notes, Remember(c, n)
      PROVE  OneInv(c)'
  <2>1. req'[c].pc = "scan" /\ req[c].pc = "idle" /\ UNCHANGED <<files, work>>
    BY <1>1, <1>3 DEF Remember, Idle
  <2> QED
    BY <2>1, OneInvFrame
<1>4. ASSUME NEW p \in Ids, Forget(c, p)
      PROVE  OneInv(c)'
  BY <1>4, OneInvForget
<1>5. CASE ClientStep(c)
  BY <1>5, OneInvClientStep
<1>6. CASE BeginSync \/ LockForIngest(c) \/ LockForPurge(c)
  <2>1. work'.stage # "relink" /\ req' = req /\ files' = files
    BY <1>6 DEF BeginSync, LockForIngest, LockForPurge, NoWork
  <2> QED
    BY <2>1, OneInvFrame
<1>7. CASE ReadFile \/ StoreDocument \/ StoreChunks \/ ExtractGraph \/ EndIngest \/ Purge \/ Prune
  <2>1. UNCHANGED <<files, req>>
    BY <1>7 DEF ReadFile, StoreDocument, StoreChunks, ExtractGraph, EndIngest, Purge, Prune
  <2>2. work'.stage # "relink"
    <3>1. CASE ReadFile
      BY <1>1, <3>1 DEF ReadFile, Works
    <3>2. CASE StoreDocument \/ StoreChunks \/ ExtractGraph
      BY <1>1, <3>2 DEF StoreDocument, StoreChunks, ExtractGraph, Works
    <3>3. CASE EndIngest
      BY <1>1, <3>3 DEF EndIngest, Works
    <3>4. CASE Purge \/ Prune
      BY <3>4 DEF Purge, Prune, NoWork
    <3> QED
      BY <1>7, <3>1, <3>2, <3>3, <3>4
  <2> QED
    BY <2>1, <2>2, OneInvFrame
<1>8. CASE ReadForLinks
  <2>1. PICK p \in work.todo :
          work' = CASE files[p].note = Absent -> [work EXCEPT !.todo = {}]
                    [] files[p].note = Blank -> [work EXCEPT !.todo = @ \ {p}]
                    [] OTHER -> [work EXCEPT !.todo = @ \ {p}, !.cur = p, !.buf = files[p],
                                             !.stage = "relink"]
    BY <1>8 DEF ReadForLinks
  <2>2. p \in Ids /\ files[p] \in Contents /\ work.stage = "link" /\ UNCHANGED <<files, req>>
    BY <1>1, <1>8 DEF ReadForLinks, Works
  <2>3. CASE files[p].note \in {Absent, Blank}
    <3>1. work'.stage = "link"
      BY <1>1, <2>1, <2>2, <2>3 DEF Works
    <3> QED
      BY <2>2, <3>1, OneInvFrame
  <2>4. CASE files[p].note \in Notes
    <3>1. work' = [work EXCEPT !.todo = @ \ {p}, !.cur = p, !.buf = files[p], !.stage = "relink"]
      BY <2>1, <2>4, ConstantsAssumption
    <3>2. Holds(work'.cur, work'.buf.note)
      BY <1>1, <2>2, <2>4, <3>1 DEF Works, Holds
    <3> QED
      BY <2>2, <3>2, OneInvFrame
  <2> QED
    BY <2>2, <2>3, <2>4 DEF Contents
<1>9. CASE WriteLinks
  BY <1>9, OneInvWriteLinks
<1>10. CASE Finish
  <2>1. work'.stage # "relink" /\ (req'[c] = req[c] \/ req'[c].pc = "idle") /\ files' = files
    BY <1>1, <1>10 DEF Finish, Unlock, Reply, NoWork, Idle
  <2> QED
    BY <2>1, OneInvFrame
<1>11. CASE Fault
  BY <1>11, OneInvFault
<1> QED
  BY <1>2, <1>3, <1>4, <1>5, <1>6, <1>7, <1>8, <1>9, <1>10, <1>11 DEF Next, LockedStep

\* The dedup gate of one client at a time: whatever scheduled syncs, failures and
\* crashes come between its steps, a session never gets a second note, as long as
\* similarity never matches notes of two sessions, and no request is cancelled or
\* nothing is forgotten.
THEOREM OneNoteForASession ==
  ASSUME NEW c, Clients = {c}
  PROVE  Spec => []OneNotePerSession
<1>1. c \in Clients
  OBVIOUS
<1>2. CASE SimilarOfOneSession
  <2>1. Init => OneInv(c)
    BY <1>1, ConstantsAssumption DEF Init, NoFile, NoWork, Idle, OneInv
  <2>2. TypeInv /\ LockInv /\ [Next]_vars /\ NoForgetAbandoned' => NoForgetAbandoned
    BY UnspentBefore DEF NoForgetAbandoned, Kinds
  <2>3. TypeInv /\ LockInv /\ (NoForgetAbandoned => OneInv(c)) /\ [Next]_vars
          => (NoForgetAbandoned => OneInv(c))'
    BY <1>1, <1>2, <2>2, OneInvStep
  <2>4. (NoForgetAbandoned => OneInv(c)) => OneNotePerSession
    BY DEF OneInv, Alone, Holds, OneNotePerSession
  <2> QED
    BY <2>1, <2>3, <2>4, TypeInvHolds, LockInvHolds, PTL DEF Spec
<1>3. CASE ~SimilarOfOneSession
  <2>1. OneNotePerSession
    BY <1>3 DEF OneNotePerSession
  <2> QED
    BY <2>1, PTL
<1> QED
  BY <1>2, <1>3
===============================================================================

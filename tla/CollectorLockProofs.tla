------------------------- MODULE CollectorLockProofs --------------------------
(*****************************************************************************)
(* Type correctness of CollectorLock, and that runs exclude each other while *)
(* no reclaim is recent, for any set of collectors, any owners and any       *)
(* faults. TypeOK and WorkersExclude are inductive together.                 *)
(*****************************************************************************)
EXTENDS CollectorLock, TLAPS

\* No lock, and a new one, are values a lock can have.
LEMMA LockValues ==
  /\ NoLock \in Locks
  /\ \A c \in Collectors : NewLock(c) \in Locks
BY LockAssumption DEF NoLock, NewLock, Locks

\* Sending a run to another stage touches nothing else of any run.
LEMMA GotoFrame ==
  ASSUME TypeOK, NEW c \in Collectors, NEW stage, Goto(c, stage)
  PROVE  /\ proc'[c].at = stage
         /\ \A d \in Collectors \ {c} : proc'[d] = proc[d]
         /\ \A d \in Collectors : proc'[d].session = proc[d].session
         /\ stage \in {"off", "read", "reclaim", "create", "stamp", "work", "check", "unlink"} =>
              proc' \in [Collectors ->
                [at: {"off", "read", "reclaim", "create", "stamp", "work", "check", "unlink"},
                 session: Sessions \cup {0}]]
         /\ proc[c].at # "off" =>
              \A d \in Collectors : proc'[d].at # "off" => proc'[d].session \in Sessions
BY DEF TypeOK, Goto

\* A run that ends leaves a lock that no ended run is said to use, whether it
\* found the file as it was or has just unlinked it.
LEMMA ExitFrame ==
  ASSUME TypeOK, NEW c \in Collectors, NEW file \in {lock, NoLock}, Exit(c, file)
  PROVE  /\ lock' \in Locks /\ reclaimed' \in BOOLEAN
         /\ lock'.running => lock' = file /\ lock'.by # c /\ lock'.there
         /\ file.by # c => lock' = file
         /\ lock'.there = file.there /\ lock'.by = file.by
         /\ Goto(c, "off") /\ proc'[c].at = "off"
<1>1. file \in Locks
  BY LockValues DEF TypeOK
<1>2. Goto(c, "off") /\ proc'[c].at = "off"
  BY GotoFrame DEF Exit
<1>3. lock' \in Locks /\ lock'.there = file.there /\ lock'.by = file.by
  BY <1>1 DEF Exit, Locks
<1>4. file.running => file.there
  BY LockValues DEF TypeOK, NoLock
<1>5. lock'.running => lock' = file /\ lock'.by # c /\ lock'.there
  BY <1>1, <1>4 DEF Exit, Locks
<1>6. reclaimed' \in BOOLEAN
  BY DEF Exit, TypeOK
<1>7. file.by # c => lock' = file
  BY DEF Exit
<1> QED
  BY <1>2, <1>3, <1>5, <1>6, <1>7

-------------------------------------------------------------------------------
(* Type correctness *)

LEMMA ExitTypes ==
  ASSUME TypeOK, NEW c \in Collectors, NEW file \in {lock, NoLock}, Exit(c, file),
         done' \subseteq Sessions, setup' \in Setups
  PROVE  TypeOK'
<1>1. lock' \in Locks /\ reclaimed' \in BOOLEAN /\ Goto(c, "off") /\ proc'[c].at = "off"
  BY ExitFrame
<1>0. /\ proc' \in [Collectors ->
            [at: {"off", "read", "reclaim", "create", "stamp", "work", "check", "unlink"},
             session: Sessions \cup {0}]]
      /\ \A d \in Collectors : proc'[d].at # "off" => proc'[d].session \in Sessions
  BY <1>1, GotoFrame DEF TypeOK
<1>2. lock'.running => lock'.there /\ proc'[lock'.by].at \in Section
  <2> SUFFICES ASSUME lock'.running
               PROVE  lock'.there /\ proc'[lock'.by].at \in Section
    OBVIOUS
  <2>1. lock' = file /\ lock'.by # c /\ lock'.there
    BY ExitFrame
  <2>2. lock' = lock
    BY <2>1 DEF NoLock
  <2>3. lock.by \in Collectors /\ proc[lock.by].at \in Section
    BY <2>2 DEF TypeOK, Locks
  <2> QED
    BY <1>1, <2>1, <2>2, <2>3, GotoFrame
<1> QED
  BY <1>0, <1>1, <1>2 DEF TypeOK

LEMMA TypeInvariance == TypeOK /\ [Next]_vars => TypeOK'
<1> SUFFICES ASSUME TypeOK, [Next]_vars
             PROVE  TypeOK'
  OBVIOUS
<1>1. CASE Age
  <2>1. lock' \in Locks /\ lock'.there /\ lock'.by = lock.by /\ lock'.running = lock.running
    BY <1>1 DEF Age, TypeOK, Locks
  <2>2. setup' \in Setups
    BY <1>1 DEF Age, TypeOK, Setups
  <2> QED
    BY <1>1, <2>1, <2>2 DEF Age, TypeOK
<1>2. ASSUME NEW c \in Collectors, Scan(c)
      PROVE  TypeOK'
  <2>1. PICK s \in Sessions : /\ proc[c].at = "off"
                              /\ proc' = [proc EXCEPT ![c] = [at |-> "read", session |-> s]]
                              /\ UNCHANGED <<lock, done, reclaimed, setup>>
    BY <1>2 DEF Scan
  <2>2. lock'.running => lock'.there /\ proc'[lock'.by].at \in Section
    BY <2>1 DEF TypeOK, Locks, Section
  <2> QED
    BY <2>1, <2>2 DEF TypeOK
<1>3. ASSUME NEW c \in Collectors, ReadLock(c)
      PROVE  TypeOK'
  <2>1. CASE Exit(c, lock)
    BY <1>3, <2>1, ExitTypes DEF ReadLock, TypeOK
  <2>2. CASE \E stage \in {"reclaim", "create"} : Goto(c, stage) /\ UNCHANGED <<lock, reclaimed>>
    <3>1. PICK stage \in {"reclaim", "create"} : Goto(c, stage) /\ UNCHANGED <<lock, reclaimed>>
      BY <2>2
    <3>2. lock'.running => lock'.there /\ proc'[lock'.by].at \in Section
      BY <1>3, <3>1, GotoFrame DEF ReadLock, TypeOK, Locks, Section
    <3> QED
      BY <1>3, <3>1, <3>2, GotoFrame DEF ReadLock, TypeOK
  <2> QED
    BY <1>3, <2>1, <2>2 DEF ReadLock
<1>4. ASSUME NEW c \in Collectors, Reclaim(c)
      PROVE  TypeOK'
  <2>1. lock' = NoLock /\ NoLock \in Locks /\ ~NoLock.running
    BY <1>4, LockValues DEF Reclaim, NoLock
  <2> QED
    BY <1>4, <2>1, GotoFrame DEF Reclaim, TypeOK
<1>5. ASSUME NEW c \in Collectors, Create(c)
      PROVE  TypeOK'
  <2>1. CASE Exit(c, lock)
    BY <1>5, <2>1, ExitTypes DEF Create, TypeOK
  <2>2. CASE lock' = NewLock(c) /\ Goto(c, "stamp") /\ UNCHANGED reclaimed
    <3>1. NewLock(c) \in Locks /\ NewLock(c).by = c /\ NewLock(c).there
      BY LockValues DEF NewLock
    <3> QED
      BY <1>5, <2>2, <3>1, GotoFrame DEF Create, TypeOK, Section
  <2> QED
    BY <1>5, <2>1, <2>2 DEF Create
<1>6. ASSUME NEW c \in Collectors, Stamp(c)
      PROVE  TypeOK'
  <2>1. lock' \in Locks /\ lock'.there = lock.there /\ lock'.by = lock.by
          /\ lock'.running = lock.running
    BY <1>6 DEF Stamp, TypeOK, Locks
  <2>2. lock'.running => proc'[lock'.by].at \in Section
    BY <1>6, <2>1, GotoFrame DEF Stamp, TypeOK, Locks, Section
  <2> QED
    BY <1>6, <2>1, <2>2, GotoFrame DEF Stamp, TypeOK
<1>7. ASSUME NEW c \in Collectors, Work(c)
      PROVE  TypeOK'
  <2>1. lock'.running => lock'.there /\ proc'[lock'.by].at \in Section
    BY <1>7, GotoFrame DEF Work, TypeOK, Locks, Section
  <2>2. setup' \in Setups
    BY <1>7 DEF Work, TypeOK, Setups
  <2>3. done' \subseteq Sessions
    <3>1. CASE done' = done \cup {proc[c].session}
      <4>1. proc[c].session \in Sessions
        BY <1>7 DEF Work, TypeOK
      <4> QED
        BY <3>1, <4>1 DEF TypeOK
    <3> QED
      BY <1>7, <3>1 DEF Work, TypeOK
  <2> QED
    BY <1>7, <2>1, <2>2, <2>3, GotoFrame DEF Work, TypeOK
<1>8. ASSUME NEW c \in Collectors, CheckOwn(c)
      PROVE  TypeOK'
  <2>1. CASE Exit(c, lock)
    BY <1>8, <2>1, ExitTypes DEF CheckOwn, TypeOK
  <2>2. CASE Goto(c, "unlink") /\ UNCHANGED <<lock, reclaimed>>
    <3>1. lock'.running => lock'.there /\ proc'[lock'.by].at \in Section
      BY <2>2, GotoFrame DEF TypeOK, Locks, Section
    <3> QED
      BY <1>8, <2>2, <3>1, GotoFrame DEF CheckOwn, TypeOK
  <2> QED
    BY <1>8, <2>1, <2>2 DEF CheckOwn
<1>9. ASSUME NEW c \in Collectors, Release(c)
      PROVE  TypeOK'
  BY <1>9, ExitTypes DEF Release, TypeOK
<1>10. ASSUME NEW c \in Collectors, Crash(c)
       PROVE  TypeOK'
  <2>1. setup' \in Setups
    BY <1>10 DEF Crash, TypeOK, Setups
  <2> QED
    BY <1>10, <2>1, ExitTypes DEF Crash, TypeOK
<1>11. CASE UNCHANGED vars
  BY <1>11 DEF vars, TypeOK, Section
<1> QED
  BY <1>1, <1>2, <1>3, <1>4, <1>5, <1>6, <1>7, <1>8, <1>9, <1>10, <1>11 DEF Next, Step

LEMMA TypeInit == Init => TypeOK
<1> SUFFICES ASSUME Init
             PROVE  TypeOK
  OBVIOUS
<1>1. NoLock \in Locks /\ ~NoLock.running
  BY LockValues DEF NoLock
<1> QED
  BY <1>1, LockAssumption DEF Init, TypeOK

\* The lock, the runs and the history keep their types, and a lock in use is that
\* of a run between creating and removing it (acquire_ and
\* release_collector_lock).
THEOREM LockTyped == Spec => []TypeOK
BY TypeInit, TypeInvariance, PTL DEF Spec

-------------------------------------------------------------------------------
(* Exclusion *)

\* A run that ends leaves the others where they were, so what it may disturb is
\* the lock file: WorkersExclude survives if the file it leaves is the one in
\* use, or its own.
LEMMA ExitExcludes ==
  ASSUME TypeOK, WorkersExclude, NEW c \in Collectors, NEW file \in {lock, NoLock},
         Exit(c, file), ~reclaimed => file = lock \/ Mine(c)
  PROVE  WorkersExclude'
<1> SUFFICES ASSUME ~reclaimed', NEW d \in Collectors, proc'[d].at \in Section
             PROVE  /\ Mine(d)'
                    /\ \A e \in Collectors \ {d} : proc'[e].at \notin Section
  BY DEF WorkersExclude
<1>0. Goto(c, "off") /\ proc'[c].at = "off"
  BY ExitFrame
<1>1. d # c /\ proc[d].at \in Section
  <2>1. d # c
    BY <1>0 DEF Section
  <2> QED
    BY <1>0, <2>1, GotoFrame
<1>2. ~reclaimed
  <2>1. reclaimed' = (reclaimed /\ \E e \in Collectors \ {c} : proc[e].at # "off")
    BY DEF Exit
  <2>2. d \in Collectors \ {c} /\ proc[d].at # "off"
    BY <1>1 DEF Section
  <2> QED
    BY <2>1, <2>2, Zenon
<1>3. Mine(d) /\ \A e \in Collectors \ {d} : proc[e].at \notin Section
  BY <1>1, <1>2 DEF WorkersExclude
<1>4. file = lock /\ lock' = lock
  BY <1>1, <1>2, <1>3, ExitFrame DEF Mine
<1>5. \A e \in Collectors \ {d} : proc'[e].at \notin Section
  BY <1>0, <1>3, GotoFrame DEF Section
<1> QED
  BY <1>3, <1>4, <1>5 DEF Mine

\* The same for a step that ends no run and keeps everyone on the side of the
\* section it was on.
LEMMA StayExcludes ==
  ASSUME WorkersExclude, reclaimed' = reclaimed,
         lock'.there = lock.there, lock'.by = lock.by, lock'.running = lock.running,
         \A d \in Collectors : proc'[d].at \in Section => proc[d].at \in Section
  PROVE  WorkersExclude'
BY DEF WorkersExclude, Mine

LEMMA ExclusionInvariance == TypeOK /\ WorkersExclude /\ [Next]_vars => WorkersExclude'
<1> SUFFICES ASSUME TypeOK, WorkersExclude, [Next]_vars
             PROVE  WorkersExclude'
  OBVIOUS
<1>1. CASE Age
  <2>1. lock'.there = lock.there /\ lock'.by = lock.by /\ lock'.running = lock.running
    BY <1>1 DEF Age, TypeOK, Locks
  <2> QED
    BY <1>1, <2>1, StayExcludes DEF Age
<1>2. ASSUME NEW c \in Collectors, Scan(c)
      PROVE  WorkersExclude'
  <2>1. \A d \in Collectors : proc'[d].at \in Section => proc[d].at \in Section
    BY <1>2 DEF Scan, TypeOK, Section
  <2> QED
    BY <1>2, <2>1, StayExcludes DEF Scan
<1>3. ASSUME NEW c \in Collectors, ReadLock(c)
      PROVE  WorkersExclude'
  <2>1. CASE Exit(c, lock)
    BY <2>1, ExitExcludes
  <2>2. CASE UNCHANGED <<lock, reclaimed>> /\ \E stage \in {"reclaim", "create"} : Goto(c, stage)
    <3>1. \A d \in Collectors : proc'[d].at \in Section => proc[d].at \in Section
      BY <2>2, GotoFrame DEF Section
    <3> QED
      BY <2>2, <3>1, StayExcludes
  <2> QED
    BY <1>3, <2>1, <2>2 DEF ReadLock
<1>4. ASSUME NEW c \in Collectors, Reclaim(c)
      PROVE  WorkersExclude'
  BY <1>4 DEF Reclaim, WorkersExclude
<1>5. ASSUME NEW c \in Collectors, Create(c)
      PROVE  WorkersExclude'
  <2>1. CASE Exit(c, lock)
    BY <2>1, ExitExcludes
  <2>2. CASE ~lock.there /\ lock' = NewLock(c) /\ Goto(c, "stamp") /\ UNCHANGED reclaimed
    <3> SUFFICES ASSUME ~reclaimed', NEW d \in Collectors, proc'[d].at \in Section
                 PROVE  /\ Mine(d)'
                        /\ \A e \in Collectors \ {d} : proc'[e].at \notin Section
      BY DEF WorkersExclude
    <3>1. \A e \in Collectors : proc[e].at \notin Section
      BY <2>2 DEF WorkersExclude, Mine
    <3>2. d = c /\ \A e \in Collectors \ {c} : proc'[e].at \notin Section
      BY <2>2, <3>1, GotoFrame
    <3>3. Mine(c)'
      BY <2>2 DEF Mine, NewLock
    <3> QED
      BY <3>2, <3>3
  <2> QED
    BY <1>5, <2>1, <2>2 DEF Create
<1>6. ASSUME NEW c \in Collectors, Stamp(c)
      PROVE  WorkersExclude'
  <2>1. lock'.there = lock.there /\ lock'.by = lock.by /\ lock'.running = lock.running
    BY <1>6 DEF Stamp, TypeOK, Locks
  <2>2. \A d \in Collectors : proc'[d].at \in Section => proc[d].at \in Section
    BY <1>6, GotoFrame DEF Stamp, Section
  <2> QED
    BY <1>6, <2>1, <2>2, StayExcludes DEF Stamp
<1>7. ASSUME NEW c \in Collectors, Work(c)
      PROVE  WorkersExclude'
  <2>1. \A d \in Collectors : proc'[d].at \in Section => proc[d].at \in Section
    BY <1>7, GotoFrame DEF Work, Section
  <2> QED
    BY <1>7, <2>1, StayExcludes DEF Work
<1>8. ASSUME NEW c \in Collectors, CheckOwn(c)
      PROVE  WorkersExclude'
  <2>1. CASE Exit(c, lock)
    BY <2>1, ExitExcludes
  <2>2. CASE Goto(c, "unlink") /\ UNCHANGED <<lock, reclaimed>>
    <3>1. \A d \in Collectors : proc'[d].at \in Section => proc[d].at \in Section
      BY <1>8, <2>2, GotoFrame DEF CheckOwn, Section
    <3> QED
      BY <2>2, <3>1, StayExcludes
  <2> QED
    BY <1>8, <2>1, <2>2 DEF CheckOwn
<1>9. ASSUME NEW c \in Collectors, Release(c)
      PROVE  WorkersExclude'
  <2>1. ~reclaimed => Mine(c)
    BY <1>9 DEF Release, WorkersExclude, Section
  <2> QED
    BY <1>9, <2>1, ExitExcludes DEF Release
<1>10. ASSUME NEW c \in Collectors, Crash(c)
       PROVE  WorkersExclude'
  BY <1>10, ExitExcludes DEF Crash
<1>11. CASE UNCHANGED vars
  BY <1>11, StayExcludes DEF vars
<1> QED
  BY <1>1, <1>2, <1>3, <1>4, <1>5, <1>6, <1>7, <1>8, <1>9, <1>10, <1>11 DEF Next, Step

\* While no reclaim is recent, two runs are never in the distilling section at
\* once, and the lock a run is about to unlink is its own, for any number of
\* collectors and any crashes, failures and overruns.
THEOREM RunsExclude == Spec => []WorkersExclude
<1>1. Init => WorkersExclude
  BY DEF Init, WorkersExclude, Section
<1> QED
  BY <1>1, ExclusionInvariance, LockTyped, PTL DEF Spec
==============================================================================

----------------------------- MODULE CollectorLock -----------------------------
(*****************************************************************************)
(* The run lock of the Codex collector (agents/codex/collect-sessions.py).   *)
(* Two schedulers, launchd on the host and hermes cron in a container, may   *)
(* both start the collector on the same directory of sessions and markers;   *)
(* a lock file is to keep their distilling runs apart.                       *)
(*                                                                           *)
(* Each system call on the lock file is a step. A lock file is created empty *)
(* and gets its text (pid, host, start time, owner) in a second step; whoever*)
(* reads it in between cannot parse it and goes on as if there were none.    *)
(*                                                                           *)
(* Abstractions: pids are not reused; the clocks of host and container agree;*)
(* what a hook does to the markers is its outcome (SessionQueue has the      *)
(* rest); a collector distills one session per run (COLLECT_LIMIT = 1).      *)
(* CreateOver, StaleByPid and CheckOwnOnly are wrong on purpose: they show   *)
(* that the properties can fail.                                             *)
(*****************************************************************************)
EXTENDS Naturals

CONSTANTS
  Collectors,  \* the schedulers' instances; each runs one process at a time
  Owner,       \* Owner[c]: "host" or "container", the pid namespace of c
  Canonical,   \* the collectors whose scheduler is kept enabled
  Sessions,    \* sessions in the window, numbered by mtime
  Scenarios    \* bounds: crashes, failed distills, runs beyond the TTL

Setups == [crashes: Nat, failures: Nat, overruns: Nat]

ASSUME LockAssumption ==
  /\ Collectors # {} /\ Canonical \subseteq Collectors
  /\ Owner \in [Collectors -> {"host", "container"}]
  /\ Sessions \subseteq Nat \ {0}
  /\ Scenarios \subseteq Setups

VARIABLES
  lock,       \* the lock file
  proc,       \* proc[c]: the running process of collector c
  done,       \* sessions whose hook has left a done marker
  reclaimed,  \* history: a lock was unlinked as stale while a run of now was on
  setup       \* the scenario, with what is left of its bounds

vars == <<lock, proc, done, reclaimed, setup>>

\* A lock file: is there one, whose is it, does that process still run, is its
\* text written, and is it older than COLLECTOR_LOCK_TTL_S.
Locks == [there: BOOLEAN, by: Collectors, running: BOOLEAN, stamped: BOOLEAN, old: BOOLEAN]
NoLock == [there |-> FALSE, by |-> CHOOSE c \in Collectors : TRUE,
           running |-> FALSE, stamped |-> FALSE, old |-> FALSE]
Mine(c) == lock.there /\ lock.by = c /\ lock.running

Goto(c, stage) == proc' = [proc EXCEPT ![c].at = stage]

\* The process of c is gone, and with it the proof that its lock is in use. The
\* history starts afresh when no run is left.
Exit(c, file) ==
  /\ Goto(c, "off")
  /\ lock' = IF file.there /\ file.by = c THEN [file EXCEPT !.running = FALSE] ELSE file
  /\ reclaimed' = (reclaimed /\ \E d \in Collectors \ {c} : proc[d].at # "off")

-------------------------------------------------------------------------------
(* One run of the collector *)

\* _scan_sessions: the queue is read before the lock is asked for.
Scan(c) ==
  \E s \in Sessions \ done :
    /\ proc[c].at = "off"
    /\ \A t \in Sessions \ done : t <= s
    /\ proc' = [proc EXCEPT ![c] = [at |-> "read", session |-> s]]
    /\ UNCHANGED <<lock, done, reclaimed, setup>>

\* acquire_collector_lock calls a readable lock stale when it is older than the
\* TTL, or when it is of our own pid namespace and its process is gone.
StaleByPid(c) == Owner[lock.by] = Owner[c] /\ ~lock.running
Stale(c) == lock.old \/ (Owner[lock.by] = Owner[c] /\ ~lock.running)

\* acquire_collector_lock up to its verdict on the lock it has read.
ReadLock(c) ==
  /\ proc[c].at = "read"
  /\ IF lock.there /\ lock.stamped /\ ~Stale(c) THEN Exit(c, lock)
     ELSE /\ Goto(c, IF lock.there /\ lock.stamped THEN "reclaim" ELSE "create")
          /\ UNCHANGED <<lock, reclaimed>>
  /\ UNCHANGED <<done, setup>>

\* The unlink takes whatever file is there by now.
Reclaim(c) ==
  /\ proc[c].at = "reclaim"
  /\ lock' = NoLock /\ reclaimed' = TRUE
  /\ Goto(c, "create")
  /\ UNCHANGED <<done, setup>>

\* os.open with O_CREAT | O_EXCL fails when there is a file.
NewLock(c) == [there |-> TRUE, by |-> c, running |-> TRUE, stamped |-> FALSE, old |-> FALSE]
CreateOver(c) ==
  /\ proc[c].at = "create"
  /\ lock' = NewLock(c) /\ Goto(c, "stamp")
  /\ UNCHANGED <<done, reclaimed, setup>>
Create(c) ==
  /\ proc[c].at = "create"
  /\ \/ lock.there /\ Exit(c, lock)
     \/ ~lock.there /\ lock' = NewLock(c) /\ Goto(c, "stamp") /\ UNCHANGED reclaimed
  /\ UNCHANGED <<done, setup>>

\* The text goes to the file that was created, even if its name is gone.
Stamp(c) ==
  /\ proc[c].at = "stamp"
  /\ lock' = IF Mine(c) THEN [lock EXCEPT !.stamped = TRUE] ELSE lock
  /\ Goto(c, "work")
  /\ UNCHANGED <<done, reclaimed, setup>>

\* The batch: the hook distills the session and marks it, or fails, or the write
\* door is closed.
Work(c) ==
  /\ proc[c].at = "work"
  /\ \/ done' = done \cup {proc[c].session} /\ UNCHANGED setup
     \/ /\ setup.failures > 0 /\ setup' = [setup EXCEPT !.failures = @ - 1]
        /\ UNCHANGED done
  /\ Goto(c, "check")
  /\ UNCHANGED <<lock, reclaimed>>

CheckOwnOnly(c) ==
  /\ proc[c].at = "check"
  /\ Goto(c, IF Mine(c) /\ lock.stamped THEN "off" ELSE "unlink")
  /\ UNCHANGED <<lock, done, reclaimed, setup>>
\* release_collector_lock reads the file and unlinks it if its text is ours.
CheckOwn(c) ==
  /\ proc[c].at = "check"
  /\ IF Mine(c) /\ lock.stamped
     THEN Goto(c, "unlink") /\ UNCHANGED <<lock, reclaimed>>
     ELSE Exit(c, lock)
  /\ UNCHANGED <<done, setup>>

Release(c) ==
  /\ proc[c].at = "unlink"
  /\ Exit(c, NoLock)
  /\ UNCHANGED <<done, setup>>

-------------------------------------------------------------------------------
(* The environment *)

\* A process dies anywhere; `finally` does not run.
Crash(c) ==
  /\ proc[c].at # "off" /\ setup.crashes > 0
  /\ Exit(c, lock)
  /\ setup' = [setup EXCEPT !.crashes = @ - 1]
  /\ UNCHANGED done

\* The start time in the file comes to lie more than the TTL back.
Age ==
  /\ lock.there /\ lock.stamped /\ ~lock.old
  /\ lock.running => setup.overruns > 0
  /\ lock' = [lock EXCEPT !.old = TRUE]
  /\ setup' = IF lock.running THEN [setup EXCEPT !.overruns = @ - 1] ELSE setup
  /\ UNCHANGED <<proc, done, reclaimed>>

Init ==
  /\ lock = NoLock /\ reclaimed = FALSE /\ done = {}
  /\ proc = [c \in Collectors |-> [at |-> "off", session |-> 0]]
  /\ setup \in Scenarios

Step(c) ==
  \/ ReadLock(c) \/ Reclaim(c) \/ Create(c) \/ Stamp(c)
  \/ Work(c) \/ CheckOwn(c) \/ Release(c)

Next == Age \/ \E c \in Collectors : Scan(c) \/ Step(c) \/ Crash(c)

Spec == Init /\ [][Next]_vars

\* A started run goes on, time passes, and an enabled scheduler starts its
\* collector again and again.
FairSpec ==
  /\ Spec /\ WF_vars(Age)
  /\ \A c \in Collectors : WF_vars(Step(c))
  /\ \A c \in Canonical : WF_vars(Scan(c))

-------------------------------------------------------------------------------
(* Properties *)

\* From the creation of the lock file to its removal.
Section == {"stamp", "work", "check", "unlink"}

\* Types; and a lock that is in use belongs to a run that is past its creation.
TypeOK ==
  /\ lock \in Locks
  /\ lock.running => lock.there /\ proc[lock.by].at \in Section
  /\ proc \in [Collectors ->
       [at: {"off", "read", "reclaim", "create", "stamp", "work", "check", "unlink"},
        session: Sessions \cup {0}]]
  /\ \A c \in Collectors : proc[c].at # "off" => proc[c].session \in Sessions
  /\ done \subseteq Sessions /\ reclaimed \in BOOLEAN /\ setup \in Setups

\* One run at a time is in the section "a second concurrent scheduler instance
\* must not duplicate" (main), and the lock it will unlink is its own. A reclaim
\* can break this, since another run may reclaim the same lock at the same time;
\* it is restored once the runs of that moment, and those that overlap them, end.
WorkersExclude ==
  ~reclaimed => \A c \in Collectors : proc[c].at \in Section =>
    /\ Mine(c)
    /\ \A d \in Collectors \ {c} : proc[d].at \notin Section

\* "A crashed holder is reclaimed before the next legitimate run would starve"
\* (collect-sessions.py:67-70): the sessions in the queue are distilled in the
\* end, with one exception. A process that dies between the creation of the lock
\* file and the write of its text leaves an empty file that no run can parse, so
\* that none calls it stale, and that makes each O_EXCL fail: only an operator
\* can unlink it.
Wedged == lock.there /\ ~lock.stamped /\ ~lock.running
QueueDrains == <>(done = Sessions) \/ <>[]Wedged
==============================================================================

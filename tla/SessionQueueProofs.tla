--------------------------- MODULE SessionQueueProofs ---------------------------
(*****************************************************************************)
(* That marker files say what became of a session and do not contradict each *)
(* other, for any sessions, scenarios and interleavings of the processes.    *)
(*****************************************************************************)
EXTENDS SessionQueue, SequenceTheorems, TLAPS

\* Two kinds of marker that a session may not have at once.
Rivals(k) == {j \in Kinds : j # k /\ ("ts" \in {j, k} \/ {j, k} = {"pending", "retry"})}

\* A file that is written is followed by the removal of its rivals.
Covering(script) ==
  \A i \in DOMAIN script : script[i][2].on => \A k \in Rivals(script[i][1]) :
    \E j \in DOMAIN script : j > i /\ script[j][1] = k /\ ~script[j][2].on

\* A script that marks its session done.
Marking(script) == \E i \in DOMAIN script : script[i][1] = "ts" /\ script[i][2].on

-------------------------------------------------------------------------------
(* Scripts *)

LEMMA Operations ==
  /\ Gone \in Markers /\ ~Gone.on
  /\ \A n \in Nat, before \in Int : Text(n, before) \in Markers /\ Text(n, before).on
BY DEF Gone, Text, Markers

LEMMA TransitionShape ==
  ASSUME NEW target \in Kinds, NEW text \in Markers, NEW cleanup \in Seq(Kinds)
  PROVE  /\ Transition(target, text, cleanup) \in Seq(FileOps)
         /\ Len(Transition(target, text, cleanup)) = Len(cleanup) + 1
         /\ Transition(target, text, cleanup)[1] = <<target, text>>
         /\ \A i \in 1..Len(cleanup) :
              Transition(target, text, cleanup)[i + 1] = <<cleanup[i], Gone>>
<1> DEFINE first == <<<<target, text>>>>
           rest == [i \in DOMAIN cleanup |-> <<cleanup[i], Gone>>]
<1>1. first \in Seq(FileOps) /\ Len(first) = 1 /\ first[1] = <<target, text>>
  BY DEF FileOps
<1>2. rest \in Seq(FileOps) /\ Len(rest) = Len(cleanup)
      /\ \A i \in 1..Len(cleanup) : rest[i] = <<cleanup[i], Gone>>
  BY Operations DEF FileOps
<1>3. Transition(target, text, cleanup) = first \o rest
  BY DEF Transition
<1> HIDE DEF first, rest
<1>4. /\ first \o rest \in Seq(FileOps) /\ Len(first \o rest) = Len(cleanup) + 1
      /\ \A i \in 1..(1 + Len(cleanup)) :
           (first \o rest)[i] = IF i <= 1 THEN first[i] ELSE rest[i - 1]
  <2>1. /\ first \o rest \in Seq(FileOps) /\ Len(first \o rest) = Len(first) + Len(rest)
        /\ \A i \in 1..(Len(first) + Len(rest)) :
             (first \o rest)[i] = IF i <= Len(first) THEN first[i] ELSE rest[i - Len(first)]
    <3>1. first \in Seq(FileOps) /\ rest \in Seq(FileOps)
      BY <1>1, <1>2
    <3> QED
      BY <3>1, ConcatProperties
  <2>2. Len(cleanup) \in Nat
    OBVIOUS
  <2> QED
    BY <1>1, <1>2, <2>1, <2>2
<1>5. Len(cleanup) \in Nat
  OBVIOUS
<1>6. (first \o rest)[1] = <<target, text>>
  BY <1>1, <1>4, <1>5
<1>7. ASSUME NEW i \in 1..Len(cleanup) PROVE (first \o rest)[i + 1] = <<cleanup[i], Gone>>
  BY <1>2, <1>4, <1>5
<1> QED
  BY <1>3, <1>4, <1>6, <1>7

\* A transition whose cleanup names all rivals of its target covers them.
LEMMA TransitionCovers ==
  ASSUME NEW target \in Kinds, NEW text \in Markers, NEW cleanup \in Seq(Kinds),
         \A k \in Rivals(target) : \E i \in 1..Len(cleanup) : cleanup[i] = k
  PROVE  /\ Transition(target, text, cleanup) \in Seq(FileOps)
         /\ Transition(target, text, cleanup) # <<>>
         /\ Covering(Transition(target, text, cleanup))
         /\ target # "ts" => ~Marking(Transition(target, text, cleanup))
<1> DEFINE t == Transition(target, text, cleanup)
<1>1. /\ t \in Seq(FileOps) /\ Len(t) = Len(cleanup) + 1 /\ t[1] = <<target, text>>
      /\ \A i \in 1..Len(cleanup) : t[i + 1] = <<cleanup[i], Gone>>
  BY TransitionShape
<1> HIDE DEF t
<1>2. DOMAIN t = 1..(Len(cleanup) + 1) /\ Len(cleanup) \in Nat
  BY <1>1
<1>3. ASSUME NEW i \in DOMAIN t, i # 1 PROVE ~t[i][2].on
  <2>1. i - 1 \in 1..Len(cleanup) /\ t[(i - 1) + 1] = <<cleanup[i - 1], Gone>>
    BY <1>1, <1>2, <1>3
  <2> QED
    BY <1>2, <2>1, Operations
<1>4. ASSUME NEW k \in Rivals(target)
      PROVE  \E j \in DOMAIN t : j > 1 /\ t[j][1] = k /\ ~t[j][2].on
  <2>1. PICK i \in 1..Len(cleanup) : cleanup[i] = k
    OBVIOUS
  <2>2. i + 1 \in DOMAIN t /\ i + 1 > 1 /\ t[i + 1] = <<k, Gone>>
    BY <1>1, <1>2, <2>1
  <2> QED
    BY <2>2, Operations
<1>5. Covering(t)
  BY <1>1, <1>3, <1>4 DEF Covering
<1>6. target # "ts" => ~Marking(t)
  BY <1>1, <1>3 DEF Marking
<1>7. t # <<>>
  BY <1>2
<1> QED
  BY <1>1, <1>5, <1>6, <1>7 DEF t

\* A removal at the end of a script does no harm.
LEMMA RemovalAppended ==
  ASSUME NEW script \in Seq(FileOps), Covering(script)
  PROVE  /\ script \o RemovePending \in Seq(FileOps) /\ script \o RemovePending # <<>>
         /\ Covering(script \o RemovePending)
         /\ Marking(script \o RemovePending) => Marking(script)
<1> DEFINE t == script \o RemovePending
<1>1. RemovePending \in Seq(FileOps) /\ Len(RemovePending) = 1 /\ RemovePending[1] = <<"pending", Gone>>
  BY Operations DEF RemovePending, FileOps, Kinds
<1>2. /\ t \in Seq(FileOps) /\ Len(t) = Len(script) + 1
      /\ \A i \in 1..Len(script) : t[i] = script[i]
      /\ t[Len(script) + 1] = <<"pending", Gone>>
  <2> HIDE DEF t
  <2>1. /\ script \o RemovePending \in Seq(FileOps)
        /\ Len(script \o RemovePending) = Len(script) + 1
        /\ \A i \in 1..(Len(script) + 1) : (script \o RemovePending)[i] =
             IF i <= Len(script) THEN script[i] ELSE RemovePending[i - Len(script)]
    BY <1>1, ConcatProperties
  <2>2. Len(script) \in Nat
    OBVIOUS
  <2> QED
    BY <1>1, <2>1, <2>2 DEF t
<1> HIDE DEF t
<1>3. DOMAIN t = 1..(Len(script) + 1) /\ DOMAIN script = 1..Len(script) /\ Len(script) \in Nat
  BY <1>2
<1>4. ASSUME NEW i \in DOMAIN t, t[i][2].on PROVE i \in DOMAIN script /\ t[i] = script[i]
  <2>1. i # Len(script) + 1
    BY <1>2, <1>4, Operations
  <2> QED
    BY <1>2, <1>3, <2>1
<1>5. Covering(t)
  <2> SUFFICES ASSUME NEW i \in DOMAIN t, t[i][2].on, NEW k \in Rivals(t[i][1])
               PROVE  \E j \in DOMAIN t : j > i /\ t[j][1] = k /\ ~t[j][2].on
    BY DEF Covering
  <2>1. i \in DOMAIN script /\ t[i] = script[i]
    BY <1>4
  <2>2. PICK j \in DOMAIN script : j > i /\ script[j][1] = k /\ ~script[j][2].on
    BY <2>1 DEF Covering
  <2>3. j \in DOMAIN t /\ t[j] = script[j]
    BY <1>2, <1>3
  <2> QED
    BY <2>2, <2>3
<1>6. Marking(t) => Marking(script)
  BY <1>4 DEF Marking
<1> QED
  BY <1>2, <1>5, <1>6 DEF t

LEMMA NothingCovers ==
  /\ <<>> \in Seq(FileOps) /\ Covering(<<>>) /\ ~Marking(<<>>)
  /\ RemovePending \in Seq(FileOps) /\ RemovePending # <<>>
  /\ Covering(RemovePending) /\ ~Marking(RemovePending)
<1>1. <<>> \in Seq(FileOps) /\ Covering(<<>>) /\ ~Marking(<<>>)
  BY DEF Covering, Marking
<1>2. /\ RemovePending \in Seq(FileOps) /\ DOMAIN RemovePending = {1} /\ RemovePending # <<>>
      /\ RemovePending[1] = <<"pending", Gone>>
  BY Operations DEF RemovePending, FileOps, Kinds
<1> QED
  BY <1>1, <1>2, Operations DEF Covering, Marking

\* What each transition of the adapters is.
LEMMA DoneShape ==
  MarkDone \in Seq(FileOps) /\ MarkDone # <<>> /\ Covering(MarkDone)
<1> DEFINE cleanup == <<"pending", "retry", "dead">>
           target == "ts"
           text == Text(0, 0)
<1>1. cleanup \in Seq(Kinds) /\ target \in Kinds /\ text \in Markers
  BY Operations DEF Kinds
<1>2. \A k \in Rivals(target) : \E i \in 1..Len(cleanup) : cleanup[i] = k
  <2>1. 1 \in 1..Len(cleanup) /\ 2 \in 1..Len(cleanup) /\ 3 \in 1..Len(cleanup)
    OBVIOUS
  <2>2. cleanup[1] = "pending" /\ cleanup[2] = "retry" /\ cleanup[3] = "dead"
    OBVIOUS
  <2>3. \A k \in Rivals("ts") : k \in {"pending", "retry", "dead"}
    BY DEF Rivals, Kinds
  <2> HIDE DEF cleanup
  <2> QED
    BY <2>1, <2>2, <2>3
<1>3. MarkDone = Transition(target, text, cleanup)
  BY DEF MarkDone
<1> HIDE DEF cleanup, target, text
<1> QED
  BY <1>1, <1>2, <1>3, TransitionCovers

LEMMA PendingShape ==
  ASSUME NEW before \in Int, NEW tries \in Nat
  PROVE  /\ WriteIngestPending(before, tries) \in Seq(FileOps)
         /\ WriteIngestPending(before, tries) # <<>>
         /\ Covering(WriteIngestPending(before, tries))
         /\ ~Marking(WriteIngestPending(before, tries))
<1> DEFINE cleanup == <<"ts", "retry">>
           target == "pending"
           text == Text(tries, before)
           t == WriteIngestPending(before, tries)
<1>1. cleanup \in Seq(Kinds) /\ target \in Kinds /\ text \in Markers
  BY Operations DEF Kinds
<1>2. \A k \in Rivals(target) : \E i \in 1..Len(cleanup) : cleanup[i] = k
  <2>1. 1 \in 1..Len(cleanup) /\ 2 \in 1..Len(cleanup) /\ cleanup[1] = "ts" /\ cleanup[2] = "retry"
    OBVIOUS
  <2>2. \A k \in Rivals("pending") : k \in {"ts", "retry"}
    BY DEF Rivals, Kinds
  <2> HIDE DEF cleanup
  <2> QED
    BY <2>1, <2>2
<1>3. t = Transition(target, text, cleanup) /\ target # "ts"
  BY DEF WriteIngestPending
<1> HIDE DEF cleanup, target, text, t
<1>4. t \in Seq(FileOps) /\ t # <<>> /\ Covering(t) /\ ~Marking(t)
  BY <1>1, <1>2, <1>3, TransitionCovers
<1> QED
  BY <1>4 DEF t

LEMMA RetryShape ==
  ASSUME NEW s \in Sessions, mark \in [Sessions -> [Kinds -> Markers]]
  PROVE  /\ MarkRetry(s) \in Seq(FileOps) /\ MarkRetry(s) # <<>>
         /\ Covering(MarkRetry(s)) /\ ~Marking(MarkRetry(s))
<1> DEFINE attempts == RetryCount(s) + 1
<1>1. attempts \in Nat
  BY DEF RetryCount, Kinds, Markers
<1> HIDE DEF attempts
<1>3. CASE attempts >= MaxAttempts
  <2> DEFINE cleanup == <<"ts", "pending", "retry">>
             target == "dead"
             text == Text(attempts, 0)
  <2>1. cleanup \in Seq(Kinds) /\ target \in Kinds /\ text \in Markers
    BY <1>1, Operations DEF Kinds
  <2>2. \A k \in Rivals(target) : \E i \in 1..Len(cleanup) : cleanup[i] = k
    <3>1. 1 \in 1..Len(cleanup) /\ cleanup[1] = "ts"
      OBVIOUS
    <3>2. \A k \in Rivals("dead") : k = "ts"
      BY DEF Rivals, Kinds
    <3> HIDE DEF cleanup
    <3> QED
      BY <3>1, <3>2
  <2>3. MarkRetry(s) = Transition(target, text, cleanup) /\ target # "ts"
    BY <1>3 DEF MarkRetry, attempts
  <2> HIDE DEF cleanup, target, text
  <2> QED
    BY <2>1, <2>2, <2>3, TransitionCovers
<1>4. CASE ~(attempts >= MaxAttempts)
  <2> DEFINE cleanup == <<"ts", "pending">>
             target == "retry"
             text == Text(attempts, 0)
  <2>1. cleanup \in Seq(Kinds) /\ target \in Kinds /\ text \in Markers
    BY <1>1, Operations DEF Kinds
  <2>2. \A k \in Rivals(target) : \E i \in 1..Len(cleanup) : cleanup[i] = k
    <3>1. 1 \in 1..Len(cleanup) /\ 2 \in 1..Len(cleanup) /\ cleanup[1] = "ts" /\ cleanup[2] = "pending"
      OBVIOUS
    <3>2. \A k \in Rivals("retry") : k \in {"ts", "pending"}
      BY DEF Rivals, Kinds
    <3> HIDE DEF cleanup
    <3> QED
      BY <3>1, <3>2
  <2>3. MarkRetry(s) = Transition(target, text, cleanup) /\ target # "ts"
    BY <1>4 DEF MarkRetry, attempts
  <2> HIDE DEF cleanup, target, text
  <2> QED
    BY <2>1, <2>2, <2>3, TransitionCovers
<1> QED
  BY <1>3, <1>4

\* What hermes may settle a pending session with.
LEMMA SettlementShape ==
  ASSUME TypeOK, NEW s \in Sessions, NEW script \in Settlements(s)
  PROVE  /\ script \in Seq(FileOps) /\ Covering(script)
         /\ ~Vector /\ Marking(script) => s \in notes
<1> DEFINE pending == mark[s]["pending"]
<1>1. mark \in [Sessions -> [Kinds -> Markers]] /\ pending.before \in Int /\ pending.n + 1 \in Nat
  BY DEF TypeOK, Kinds, Markers
<1>2. /\ MarkDone \o RemovePending \in Seq(FileOps) /\ Covering(MarkDone \o RemovePending)
  BY DoneShape, RemovalAppended
<1>3. /\ MarkRetry(s) \o RemovePending \in Seq(FileOps)
      /\ Covering(MarkRetry(s) \o RemovePending) /\ ~Marking(MarkRetry(s) \o RemovePending)
  BY <1>1, RetryShape, RemovalAppended
<1>4. LET again == WriteIngestPending(pending.before, pending.n + 1) IN
      again \in Seq(FileOps) /\ Covering(again) /\ ~Marking(again)
  BY <1>1, PendingShape
<1>5. \/ script = MarkDone \o RemovePending /\ (s \in notes \/ Vector)
      \/ script = RemovePending \/ script = <<>>
      \/ script = WriteIngestPending(pending.before, pending.n + 1)
      \/ script = MarkRetry(s) \o RemovePending
  BY DEF Settlements
<1> QED
  BY <1>2, <1>3, <1>4, <1>5, NothingCovers

-------------------------------------------------------------------------------
(* The invariant *)

Stages == {"off", "distill", "mark", "write", "reconcile", "offer", "print"}

Procs == [at: Stages, session: Sessions \cup {0}, ok: BOOLEAN, script: Seq(FileOps),
          left: SUBSET Sessions, back: {"off", "reconcile", "offer", "print"}]

DataInv ==
  /\ mark \in [Sessions -> [Kinds -> Markers]]
  /\ agents \subseteq Sessions /\ notes \subseteq Sessions /\ skipped \subseteq Sessions
  /\ chunks \in Nat /\ torn \subseteq Sessions /\ setup \in Setups

\* A process at work has a session. It writes no file without removing the rivals
\* after it, and is not about to mark a session done that is not accounted for.
ProcInv(p) ==
  /\ proc[p] \in Procs
  /\ proc[p].at = "write" => proc[p].script # <<>>
  /\ proc[p].at \in {"distill", "mark", "write", "print"} => proc[p].session \in Sessions
  /\ Covering(proc[p].script)
  /\ ~Vector /\ (Marking(proc[p].script) \/ (proc[p].at = "mark" /\ proc[p].ok))
       => proc[p].session \in notes \cup skipped

\* Process p still has to remove the marker of kind k from session s.
Clears(p, s, k) ==
  /\ proc[p].at = "write" /\ proc[p].session = s
  /\ \E j \in DOMAIN proc[p].script : proc[p].script[j][1] = k /\ ~proc[p].script[j][2].on

\* Where two rivals meet, somebody is on the way to remove one of them.
ClashInv ==
  \A s \in Sessions \ torn, a \in Kinds : \A b \in Rivals(a) :
    mark[s][a].on /\ mark[s][b].on =>
      \E p \in Processes : Clears(p, s, a) \/ Clears(p, s, b)

QueueInv ==
  /\ DataInv /\ proc \in [Processes -> Procs] /\ \A p \in Processes : ProcInv(p)
  /\ DoneIsAccounted /\ ClashInv

LEMMA InvTyped == QueueInv => TypeOK
<1> SUFFICES ASSUME QueueInv PROVE TypeOK
  OBVIOUS
<1>1. proc \in [Processes -> Procs] /\ \A p \in Processes : proc[p].at = "write" => proc[p].script # <<>>
  BY DEF QueueInv, ProcInv
<1>2. DataInv
  BY DEF QueueInv
<1> QED
  BY <1>1, <1>2 DEF DataInv, TypeOK, Procs, Stages

\* Process p goes from one stage to the next, and no file changes.
LEMMA OneSteps ==
  ASSUME QueueInv, NEW p \in Processes, NEW now, proc' = [proc EXCEPT ![p] = now],
         UNCHANGED mark, DataInv', Vector' = Vector,
         notes \subseteq notes', skipped \subseteq skipped', torn \subseteq torn',
         proc[p].at = "write" => proc[p].session \in torn',
         now \in Procs, now.at # "write" \/ now.script # <<>>,
         now.at \in {"distill", "mark", "write", "print"} => now.session \in Sessions,
         Covering(now.script),
         ~Vector /\ (Marking(now.script) \/ (now.at = "mark" /\ now.ok))
           => now.session \in notes' \cup skipped'
  PROVE  QueueInv'
<1>1. /\ proc' \in [Processes -> Procs] /\ proc'[p] = now
      /\ \A q \in Processes \ {p} : proc'[q] = proc[q]
  BY DEF QueueInv
<1>2. ASSUME NEW q \in Processes PROVE ProcInv(q)'
  <2>1. CASE q = p
    BY <1>1, <2>1 DEF ProcInv
  <2>2. CASE q # p
    BY <1>1, <2>2 DEF QueueInv, ProcInv
  <2> QED
    BY <2>1, <2>2
<1>3. DoneIsAccounted'
  BY DEF QueueInv, DoneIsAccounted, IsDone
<1>4. ClashInv'
  <2> SUFFICES ASSUME NEW s \in Sessions, s \notin torn', NEW a \in Kinds, NEW b \in Rivals(a),
                      mark[s][a].on, mark[s][b].on
               PROVE  \E q \in Processes : Clears(q, s, a)' \/ Clears(q, s, b)'
    BY DEF ClashInv
  <2>1. PICK q \in Processes : Clears(q, s, a) \/ Clears(q, s, b)
    BY DEF QueueInv, ClashInv
  <2>2. q # p
    BY <2>1 DEF Clears
  <2> QED
    BY <1>1, <2>1, <2>2 DEF Clears
<1> QED
  BY <1>1, <1>2, <1>3, <1>4 DEF QueueInv

LEMMA IdleTyped == Idle \in Procs /\ Idle.at = "off" /\ Idle.script = <<>>
BY NothingCovers DEF Idle, Procs, Stages

\* The bounds count down.
LEMMA SetupTyped ==
  ASSUME setup \in Setups
  PROVE  /\ setup.ends > 0 => [setup EXCEPT !.ends = @ - 1] \in Setups
         /\ setup.failures > 0 => [setup EXCEPT !.failures = @ - 1] \in Setups
         /\ setup.kills > 0 => [setup EXCEPT !.kills = @ - 1] \in Setups
         /\ setup.sessions \subseteq Sessions
         /\ \A n : /\ [setup EXCEPT !.ends = n].vector = setup.vector
                   /\ [setup EXCEPT !.failures = n].vector = setup.vector
                   /\ [setup EXCEPT !.kills = n].vector = setup.vector
BY DEF Setups

LEMMA IngestedTyped ==
  ASSUME DataInv, Ingested
  PROVE  chunks' \in Nat
BY DEF DataInv, Ingested

LEMMA DistillKeeps ==
  ASSUME QueueInv, NEW p \in Hooks, Distill(p)
  PROVE  QueueInv'
<1> DEFINE s == proc[p].session
<1>1. PICK verdict \in {"skip", "note", "fail", "unheard"} :
        /\ proc[p].at = "distill"
        /\ \/ setup' = setup
           \/ setup.failures > 0 /\ setup' = [setup EXCEPT !.failures = @ - 1]
        /\ notes' = IF verdict \in {"note", "unheard"} THEN notes \cup {s} ELSE notes
        /\ skipped' = IF verdict = "skip" THEN skipped \cup {s} ELSE skipped
        /\ IF verdict \in {"note", "unheard"} THEN Ingested ELSE UNCHANGED chunks
        /\ proc' = [proc EXCEPT ![p].at = "mark", ![p].ok = verdict \notin {"fail", "unheard"}]
        /\ UNCHANGED <<mark, agents, torn>>
  BY DEF Distill
<1> DEFINE now == [proc[p] EXCEPT !.at = "mark", !.ok = verdict \notin {"fail", "unheard"}]
<1>2. p \in Processes /\ DataInv /\ ProcInv(p)
  BY DEF QueueInv, Processes
<1>3. proc' = [proc EXCEPT ![p] = now]
  BY <1>1
<1>4. s \in Sessions
  BY <1>1, <1>2 DEF ProcInv
<1>5. DataInv' /\ Vector' = Vector
  BY <1>1, <1>2, <1>4, SetupTyped, IngestedTyped DEF DataInv, Vector
<1>6. /\ now \in Procs /\ now.at = "mark" /\ now.session = s /\ now.script = proc[p].script
      /\ now.ok = (verdict \notin {"fail", "unheard"})
  BY <1>2 DEF ProcInv, Procs, Stages
<1>7. now.ok => s \in notes' \cup skipped'
  BY <1>1, <1>6
<1>8. notes \subseteq notes' /\ skipped \subseteq skipped'
  BY <1>1
<1>9. ~Vector /\ (Marking(now.script) \/ (now.at = "mark" /\ now.ok)) => now.session \in notes' \cup skipped'
  BY <1>2, <1>6, <1>7, <1>8 DEF ProcInv
<1>10. Covering(now.script)
  BY <1>2, <1>6 DEF ProcInv
<1> HIDE DEF now, s
<1> QED
  BY <1>1, <1>2, <1>3, <1>4, <1>5, <1>6, <1>8, <1>9, <1>10, OneSteps

\* A process that is at nothing.
LEMMA IdleKeeps ==
  ASSUME QueueInv, NEW p \in Processes, proc' = [proc EXCEPT ![p] = Idle],
         UNCHANGED <<mark, notes, skipped>>, DataInv', Vector' = Vector, torn \subseteq torn',
         proc[p].at = "write" => proc[p].session \in torn'
  PROVE  QueueInv'
<1>1. ~(Idle.at \in {"distill", "mark", "write", "print"}) /\ Idle.at # "write" /\ Idle.at # "mark"
  BY IdleTyped
<1>2. Covering(Idle.script) /\ ~Marking(Idle.script)
  BY IdleTyped, NothingCovers
<1> QED
  BY <1>1, <1>2, IdleTyped, OneSteps

\* A process that starts on a session.
LEMMA StartKeeps ==
  ASSUME QueueInv, NEW p \in Processes, NEW s \in Sessions, UNCHANGED <<mark, notes, skipped, torn>>,
         proc' = [proc EXCEPT ![p] = [Idle EXCEPT !.at = "distill", !.session = s]],
         DataInv', Vector' = Vector, proc[p].at = "off"
  PROVE  QueueInv'
<1> DEFINE now == [Idle EXCEPT !.at = "distill", !.session = s]
<1>1. now \in Procs /\ now.at = "distill" /\ now.session = s /\ now.script = <<>>
  BY NothingCovers DEF Idle, Procs, Stages
<1> HIDE DEF now
<1>2. proc' = [proc EXCEPT ![p] = now]
  BY DEF now
<1>3. now.at # "write" /\ now.at # "mark" /\ Covering(now.script) /\ ~Marking(now.script)
  BY <1>1, NothingCovers
<1>4. notes \subseteq notes' /\ skipped \subseteq skipped' /\ torn \subseteq torn' /\ UNCHANGED mark
  OBVIOUS
<1> QED
  BY <1>1, <1>2, <1>3, <1>4, OneSteps

LEMMA SessionEndsKeeps ==
  ASSUME QueueInv, NEW s \in Sessions, SessionEnds(s)
  PROVE  QueueInv'
<1>1. DataInv
  BY DEF QueueInv
<1>2. DataInv' /\ Vector' = Vector
  BY <1>1, SetupTyped DEF SessionEnds, DataInv, Vector
<1>3. "hook" \in Processes
  BY DEF Processes, Hooks
<1> QED
  BY <1>2, <1>3, StartKeeps DEF SessionEnds

LEMMA ScanKeeps ==
  ASSUME QueueInv, NEW s \in Sessions, Scan(s)
  PROVE  QueueInv'
<1>1. DataInv' /\ Vector' = Vector
  BY DEF QueueInv, Scan, DataInv, Vector
<1>2. "backfill" \in Processes
  BY DEF Processes, Hooks
<1> QED
  BY <1>1, <1>2, StartKeeps DEF Scan

LEMMA TimeOutKeeps ==
  ASSUME QueueInv, NEW p \in Hooks, TimeOut(p)
  PROVE  QueueInv'
<1>1. DataInv /\ ProcInv(p) /\ p \in Processes
  BY DEF QueueInv, Processes
<1>2. /\ setup' = setup \/ (setup.kills > 0 /\ setup' = [setup EXCEPT !.kills = @ - 1])
      /\ proc' = [proc EXCEPT ![p] = Idle]
      /\ torn' = IF proc[p].at = "write" THEN torn \cup {proc[p].session} ELSE torn
      /\ UNCHANGED <<mark, agents, notes, skipped, chunks>>
  BY DEF TimeOut
<1>3. setup' \in Setups /\ Vector' = Vector
  BY <1>1, <1>2, SetupTyped DEF DataInv, Vector
<1>4. torn' \subseteq Sessions
  BY <1>1, <1>2 DEF DataInv, ProcInv
<1>5. DataInv'
  BY <1>1, <1>2, <1>3, <1>4 DEF DataInv
<1> QED
  BY <1>1, <1>2, <1>3, <1>5, IdleKeeps

LEMMA MarkKeeps ==
  ASSUME QueueInv, NEW p \in Hooks, Mark(p)
  PROVE  QueueInv'
<1> DEFINE script == IF proc[p].ok THEN MarkDone ELSE MarkRetry(proc[p].session)
           now == [proc[p] EXCEPT !.at = "write", !.script = script]
<1>1. DataInv /\ ProcInv(p) /\ p \in Processes
  BY DEF QueueInv, Processes
<1>2. /\ proc[p].at = "mark" /\ proc' = [proc EXCEPT ![p] = now]
      /\ UNCHANGED <<mark, agents, notes, skipped, chunks, torn, setup>>
  BY DEF Mark
<1>3. proc[p].session \in Sessions /\ proc[p] \in Procs
  BY <1>1, <1>2 DEF ProcInv
<1>4. mark \in [Sessions -> [Kinds -> Markers]]
  BY <1>1 DEF DataInv
<1>5. /\ script \in Seq(FileOps) /\ script # <<>> /\ Covering(script)
      /\ Marking(script) => proc[p].ok
  BY <1>3, <1>4, DoneShape, RetryShape
<1> HIDE DEF script
<1>6. /\ now \in Procs /\ now.at = "write" /\ now.session = proc[p].session /\ now.script = script
  BY <1>3, <1>5 DEF Procs, Stages
<1>7. DataInv' /\ Vector' = Vector
  BY <1>1, <1>2 DEF DataInv, Vector
<1>8. ~Vector /\ Marking(now.script) => now.session \in notes' \cup skipped'
  BY <1>1, <1>2, <1>5, <1>6 DEF ProcInv
<1> HIDE DEF now
<1> QED
  BY <1>1, <1>2, <1>3, <1>5, <1>6, <1>7, <1>8, OneSteps

LEMMA TickKeeps ==
  ASSUME QueueInv, Tick
  PROVE  QueueInv'
<1> DEFINE listed == {s \in Sessions : mark[s]["pending"].on}
           now == [Idle EXCEPT !.at = "reconcile", !.left = listed]
<1>1. DataInv /\ "hermes" \in Processes
  BY DEF QueueInv, Processes
<1>2. /\ proc["hermes"].at = "off"
      /\ proc' = [proc EXCEPT !["hermes"] = now]
      /\ UNCHANGED <<mark, agents, notes, skipped, chunks, torn, setup>>
  BY DEF Tick
<1>3. now \in Procs /\ now.at = "reconcile" /\ now.script = <<>>
  BY NothingCovers DEF Idle, Procs, Stages
<1>4. DataInv' /\ Vector' = Vector
  BY <1>1, <1>2 DEF DataInv, Vector
<1> HIDE DEF now
<1> QED
  BY <1>1, <1>2, <1>3, <1>4, NothingCovers, OneSteps

LEMMA ReconcileKeeps ==
  ASSUME QueueInv, NEW s \in Sessions, Reconcile(s)
  PROVE  QueueInv'
<1>1. PICK script \in IF mark[s]["pending"].on THEN Settlements(s) ELSE {<<>>} :
        /\ proc["hermes"].at = "reconcile" /\ s \in proc["hermes"].left
        /\ proc' = [proc EXCEPT !["hermes"].left = @ \ {s}, !["hermes"].script = script,
                      !["hermes"].session = s, !["hermes"].back = "reconcile",
                      !["hermes"].at = IF script = <<>> THEN "reconcile" ELSE "write"]
        /\ UNCHANGED <<mark, agents, notes, skipped, chunks, torn, setup>>
  BY DEF Reconcile
<1> DEFINE now == [proc["hermes"] EXCEPT !.left = @ \ {s}, !.script = script, !.session = s,
                     !.back = "reconcile", !.at = IF script = <<>> THEN "reconcile" ELSE "write"]
<1>2. DataInv /\ "hermes" \in Processes /\ ProcInv("hermes") /\ proc["hermes"] \in Procs
  BY DEF QueueInv, Processes, ProcInv
<1>3. proc' = [proc EXCEPT !["hermes"] = now]
  BY <1>1
<1>4. /\ script \in Seq(FileOps) /\ Covering(script)
      /\ ~Vector /\ Marking(script) => s \in notes
  BY InvTyped, SettlementShape, NothingCovers
<1>5. /\ now \in Procs /\ now.at \in {"reconcile", "write"} /\ now.session = s /\ now.script = script
      /\ now.at = "write" => script # <<>>
  BY <1>2, <1>4 DEF Procs, Stages
<1>6. DataInv' /\ Vector' = Vector
  BY <1>1, <1>2 DEF DataInv, Vector
<1> HIDE DEF now
<1>7. ~Vector /\ (Marking(now.script) \/ (now.at = "mark" /\ now.ok)) => now.session \in notes' \cup skipped'
  BY <1>1, <1>4, <1>5
<1> QED
  BY <1>1, <1>2, <1>3, <1>4, <1>5, <1>6, <1>7, OneSteps

LEMMA ListKeeps ==
  ASSUME QueueInv, ListEligible
  PROVE  QueueInv'
<1> DEFINE listed == {s \in Queue : Eligible(s)}
           now == [proc["hermes"] EXCEPT !.at = "offer", !.left = listed]
<1>1. DataInv /\ "hermes" \in Processes /\ ProcInv("hermes") /\ proc["hermes"] \in Procs
  BY DEF QueueInv, Processes, ProcInv
<1>2. /\ proc["hermes"].at = "reconcile" /\ proc' = [proc EXCEPT !["hermes"] = now]
      /\ UNCHANGED <<mark, agents, notes, skipped, chunks, torn, setup>>
  BY DEF ListEligible
<1>3. listed \subseteq Sessions
  BY <1>1, SetupTyped DEF DataInv, Queue
<1> HIDE DEF listed
<1>4. now \in Procs /\ now.at = "offer" /\ now.session = proc["hermes"].session
      /\ now.script = proc["hermes"].script
  BY <1>1, <1>3 DEF Procs, Stages
<1>5. DataInv' /\ Vector' = Vector
  BY <1>1, <1>2 DEF DataInv, Vector
<1> HIDE DEF now
<1>6. /\ Covering(now.script)
      /\ ~Vector /\ (Marking(now.script) \/ (now.at = "mark" /\ now.ok)) => now.session \in notes' \cup skipped'
  BY <1>1, <1>2, <1>4 DEF ProcInv
<1> QED
  BY <1>1, <1>2, <1>4, <1>5, <1>6, OneSteps

LEMMA PassOverKeeps ==
  ASSUME QueueInv, NEW s \in Sessions, PassOver(s)
  PROVE  QueueInv'
<1> DEFINE now == [proc["hermes"] EXCEPT !.left = @ \ {s}, !.session = s, !.script = MarkDone,
                     !.back = "offer", !.at = "write"]
<1>1. DataInv /\ "hermes" \in Processes /\ proc["hermes"] \in Procs
  BY DEF QueueInv, Processes, ProcInv
<1>2. /\ proc["hermes"].at = "offer" /\ proc' = [proc EXCEPT !["hermes"] = now]
      /\ skipped' = skipped \cup {s}
      /\ UNCHANGED <<mark, agents, notes, chunks, torn, setup>>
  BY DEF PassOver
<1>3. now \in Procs /\ now.at = "write" /\ now.session = s /\ now.script = MarkDone
  BY <1>1, DoneShape DEF Procs, Stages
<1>4. DataInv' /\ Vector' = Vector
  BY <1>1, <1>2 DEF DataInv, Vector
<1> HIDE DEF now
<1> QED
  BY <1>1, <1>2, <1>3, <1>4, DoneShape, OneSteps

LEMMA OfferKeeps ==
  ASSUME QueueInv, NEW s \in Sessions, Offer(s)
  PROVE  QueueInv'
<1>1. PICK before \in ChunkCounts :
        /\ proc["hermes"].at = "offer"
        /\ proc' = [proc EXCEPT !["hermes"].session = s, !["hermes"].back = "print",
                      !["hermes"].script = WriteIngestPending(before, 0),
                      !["hermes"].at = "write"]
        /\ UNCHANGED <<mark, agents, notes, skipped, chunks, torn, setup>>
  BY DEF Offer
<1> DEFINE script == WriteIngestPending(before, 0)
           now == [proc["hermes"] EXCEPT !.session = s, !.back = "print", !.script = script,
                     !.at = "write"]
<1>2. DataInv /\ "hermes" \in Processes /\ proc["hermes"] \in Procs
  BY DEF QueueInv, Processes, ProcInv
<1>3. before \in Int
  BY <1>2 DEF ChunkCounts, DataInv
<1>4. script \in Seq(FileOps) /\ script # <<>> /\ Covering(script) /\ ~Marking(script)
  BY <1>3, PendingShape
<1>5. proc' = [proc EXCEPT !["hermes"] = now]
  BY <1>1
<1> HIDE DEF script
<1>6. now \in Procs /\ now.at = "write" /\ now.session = s /\ now.script = script
  BY <1>2, <1>4 DEF Procs, Stages
<1>7. DataInv' /\ Vector' = Vector
  BY <1>1, <1>2 DEF DataInv, Vector
<1> HIDE DEF now
<1> QED
  BY <1>1, <1>2, <1>4, <1>5, <1>6, <1>7, OneSteps

LEMMA EndTickKeeps ==
  ASSUME QueueInv, EndTick
  PROVE  QueueInv'
<1>1. DataInv /\ "hermes" \in Processes /\ ProcInv("hermes")
  BY DEF QueueInv, Processes
<1>2. /\ \/ proc["hermes"].at = "print" /\ agents' = agents \cup {proc["hermes"].session}
         \/ proc["hermes"].at = "offer" /\ agents' = agents
      /\ proc' = [proc EXCEPT !["hermes"] = Idle]
      /\ UNCHANGED <<mark, notes, skipped, chunks, torn, setup>>
  BY DEF EndTick
<1>3. agents' \subseteq Sessions
  BY <1>1, <1>2 DEF DataInv, ProcInv
<1>4. DataInv' /\ Vector' = Vector
  BY <1>1, <1>2, <1>3 DEF DataInv, Vector
<1>5. proc["hermes"].at # "write"
  BY <1>2
<1> QED
  BY <1>1, <1>2, <1>4, <1>5, IdleKeeps

\* What agents and time do changes no process.
LEMMA WorldKeeps ==
  ASSUME QueueInv, UNCHANGED <<proc, torn, setup>>, DataInv', notes \subseteq notes', UNCHANGED skipped,
         \A s \in Sessions, k \in Kinds : mark'[s][k].on = mark[s][k].on
  PROVE  QueueInv'
<1>1. \A p \in Processes : ProcInv(p)'
  BY DEF QueueInv, ProcInv, Vector
<1>2. DoneIsAccounted'
  BY DEF QueueInv, DoneIsAccounted, IsDone, Vector, Kinds
<1>3. ClashInv'
  <2> SUFFICES ASSUME NEW s \in Sessions, s \notin torn, NEW a \in Kinds, NEW b \in Rivals(a),
                      mark'[s][a].on, mark'[s][b].on
               PROVE  \E p \in Processes : Clears(p, s, a)' \/ Clears(p, s, b)'
    BY DEF ClashInv
  <2>1. b \in Kinds
    BY DEF Rivals
  <2>2. PICK p \in Processes : Clears(p, s, a) \/ Clears(p, s, b)
    BY <2>1 DEF QueueInv, ClashInv
  <2> QED
    BY <2>2 DEF Clears
<1> QED
  BY <1>1, <1>2, <1>3 DEF QueueInv

LEMMA AgentKeeps ==
  ASSUME QueueInv, NEW s \in Sessions, AgentActs(s)
  PROVE  QueueInv'
<1>1. DataInv
  BY DEF QueueInv
<1>2. DataInv' /\ notes \subseteq notes'
  BY <1>1, IngestedTyped DEF AgentActs, DataInv
<1> QED
  BY <1>2, WorldKeeps DEF AgentActs

LEMMA AgesKeep ==
  ASSUME QueueInv, NEW s \in Sessions, NEW k \in Kinds, Ages(s, k)
  PROVE  QueueInv'
<1>1. DataInv
  BY DEF QueueInv
<1>2. mark' = [mark EXCEPT ![s][k].fresh = FALSE]
      /\ UNCHANGED <<proc, agents, notes, skipped, chunks, torn, setup>>
  BY DEF Ages, Expire
<1>3. mark \in [Sessions -> [Kinds -> Markers]]
  BY <1>1 DEF DataInv
<1>4. /\ mark' \in [Sessions -> [Kinds -> Markers]]
      /\ \A t \in Sessions, j \in Kinds : mark'[t][j].on = mark[t][j].on
  <2> DEFINE aged == [mark[s][k] EXCEPT !.fresh = FALSE]
  <2>1. aged \in Markers /\ aged.on = mark[s][k].on
    <3>1. mark[s][k] \in Markers
      BY <1>3
    <3> HIDE DEF aged
    <3>2. aged = [mark[s][k] EXCEPT !.fresh = FALSE]
      BY DEF aged
    <3> QED
      BY <3>1, <3>2 DEF Markers
  <2>2. mark' = [mark EXCEPT ![s] = [mark[s] EXCEPT ![k] = aged]]
    BY <1>2
  <2> HIDE DEF aged
  <2> QED
    BY <1>3, <2>1, <2>2
<1>5. DataInv'
  BY <1>1, <1>2, <1>4 DEF DataInv
<1> QED
  BY <1>2, <1>4, <1>5, WorldKeeps

-------------------------------------------------------------------------------
(* File operations *)

LEMMA TailShape ==
  ASSUME NEW script \in Seq(FileOps), script # <<>>, Covering(script)
  PROVE  /\ Tail(script) \in Seq(FileOps) /\ Covering(Tail(script))
         /\ Len(script) > 1 <=> Tail(script) # <<>>
         /\ Marking(Tail(script)) => Marking(script)
         /\ 1 \in DOMAIN script /\ Head(script) = script[1] /\ script[1] \in FileOps
         /\ \A j \in DOMAIN script : j # 1 =>
              j - 1 \in DOMAIN Tail(script) /\ Tail(script)[j - 1] = script[j]
<1> DEFINE rest == Tail(script)
<1>1. /\ rest \in Seq(FileOps) /\ Len(rest) = Len(script) - 1 /\ Len(script) \in Nat \ {0}
      /\ \A i \in 1..Len(rest) : rest[i] = script[i + 1]
  BY HeadTailProperties
<1>2. Head(script) = script[1] /\ script[1] \in FileOps
  BY HeadTailProperties
<1> HIDE DEF rest
<1>3. DOMAIN script = 1..Len(script) /\ DOMAIN rest = 1..(Len(script) - 1)
  BY <1>1
<1>4. \A j \in DOMAIN script : j # 1 => j - 1 \in DOMAIN rest /\ rest[j - 1] = script[j]
  BY <1>1, <1>3
<1>5. \A i \in DOMAIN rest : i + 1 \in DOMAIN script /\ rest[i] = script[i + 1]
  BY <1>1, <1>3
<1>6. Covering(rest)
  <2> SUFFICES ASSUME NEW i \in DOMAIN rest, rest[i][2].on, NEW k \in Rivals(rest[i][1])
               PROVE  \E j \in DOMAIN rest : j > i /\ rest[j][1] = k /\ ~rest[j][2].on
    BY DEF Covering
  <2>1. i + 1 \in DOMAIN script /\ rest[i] = script[i + 1]
    BY <1>5
  <2>2. PICK j \in DOMAIN script : j > i + 1 /\ script[j][1] = k /\ ~script[j][2].on
    BY <2>1 DEF Covering
  <2>3. j # 1 /\ j - 1 > i
    BY <1>3, <2>2
  <2>4. j - 1 \in DOMAIN rest /\ rest[j - 1] = script[j]
    BY <1>4, <2>3
  <2> QED
    BY <2>2, <2>3, <2>4
<1>7. Marking(rest) => Marking(script)
  BY <1>5 DEF Marking
<1>8. Len(script) > 1 <=> rest # <<>>
  BY <1>1
<1>9. 1 \in DOMAIN script
  BY <1>1, <1>3
<1> QED
  BY <1>1, <1>2, <1>4, <1>6, <1>7, <1>8, <1>9 DEF rest

LEMMA FileOpKeeps ==
  ASSUME QueueInv, NEW p \in Processes, FileOp(p)
  PROVE  QueueInv'
<1> DEFINE s == proc[p].session
           script == proc[p].script
           rest == Tail(script)
           kind == script[1][1]
           file == script[1][2]
           now == IF Len(script) > 1 THEN [proc[p] EXCEPT !.script = rest]
                  ELSE IF proc[p].back = "off" THEN Idle
                  ELSE [proc[p] EXCEPT !.script = <<>>, !.at = proc[p].back]
<1>1. DataInv /\ ProcInv(p) /\ proc[p] \in Procs /\ proc \in [Processes -> Procs]
  BY DEF QueueInv, ProcInv
<1>2. /\ proc[p].at = "write" /\ Perform(s, Head(script)) /\ proc' = [proc EXCEPT ![p] = now]
      /\ UNCHANGED <<agents, notes, skipped, chunks, torn, setup>>
  BY DEF FileOp
<1>3. /\ s \in Sessions /\ script \in Seq(FileOps) /\ script # <<>> /\ Covering(script)
      /\ ~Vector /\ Marking(script) => s \in notes \cup skipped
  BY <1>1, <1>2 DEF ProcInv, Procs
<1>4. /\ rest \in Seq(FileOps) /\ Covering(rest) /\ (Len(script) > 1 <=> rest # <<>>)
      /\ Marking(rest) => Marking(script)
      /\ 1 \in DOMAIN script /\ Head(script) = script[1] /\ script[1] \in FileOps
      /\ \A j \in DOMAIN script : j # 1 => j - 1 \in DOMAIN rest /\ rest[j - 1] = script[j]
  BY <1>3, TailShape
<1>5. /\ now \in Procs /\ now.script = rest /\ (now.at = "write" <=> rest # <<>>)
      /\ now.at = "write" => now.session = s
      /\ now.at = "print" => now.session = s
      /\ now.at \notin {"distill", "mark"}
      /\ Marking(now.script) => now.session = s
  <2>1. CASE Len(script) > 1
    <3>1. now = [proc[p] EXCEPT !.script = rest]
      BY <2>1
    <3> HIDE DEF now, rest
    <3> QED
      BY <1>1, <1>2, <1>4, <2>1, <3>1 DEF Procs
  <2>2. CASE ~(Len(script) > 1) /\ proc[p].back = "off"
    <3>1. now = Idle /\ rest = <<>>
      BY <1>4, <2>2
    <3> HIDE DEF now, rest
    <3> QED
      BY <3>1, IdleTyped, NothingCovers
  <2>3. CASE ~(Len(script) > 1) /\ proc[p].back # "off"
    <3>1. now = [proc[p] EXCEPT !.script = <<>>, !.at = proc[p].back] /\ rest = <<>>
      BY <1>4, <2>3
    <3>2. <<>> \in Seq(FileOps) /\ proc[p].back \in {"reconcile", "offer", "print"}
      BY <1>1, <2>3, NothingCovers DEF Procs
    <3> HIDE DEF now, rest
    <3> QED
      BY <1>1, <3>1, <3>2, NothingCovers DEF Procs, Stages
  <2> QED
    BY <2>1, <2>2, <2>3
<1>6. kind \in Kinds /\ file \in Markers /\ mark' = [mark EXCEPT ![s] = [mark[s] EXCEPT ![kind] = file]]
  BY <1>2, <1>4 DEF Perform, FileOps
<1> HIDE DEF now, rest, s, script, kind, file
<1>7. /\ mark' \in [Sessions -> [Kinds -> Markers]]
      /\ \A t \in Sessions, k \in Kinds :
           mark'[t][k] = IF t = s /\ k = kind THEN file ELSE mark[t][k]
  BY <1>1, <1>3, <1>6 DEF DataInv
<1>8. DataInv' /\ Vector' = Vector
  BY <1>1, <1>2, <1>7 DEF DataInv, Vector
<1>9. /\ proc' \in [Processes -> Procs] /\ proc'[p] = now
      /\ \A q \in Processes \ {p} : proc'[q] = proc[q]
  BY <1>1, <1>2, <1>5
<1>10. ASSUME NEW q \in Processes PROVE ProcInv(q)'
  <2>1. CASE q = p
    <3>1. ~Vector /\ Marking(now.script) => now.session \in notes \cup skipped
      BY <1>3, <1>4, <1>5
    <3> QED
      BY <1>2, <1>3, <1>4, <1>5, <1>8, <1>9, <2>1, <3>1 DEF ProcInv
  <2>2. CASE q # p
    BY <1>2, <1>8, <1>9, <2>2 DEF QueueInv, ProcInv
  <2> QED
    BY <2>1, <2>2
<1>11. DoneIsAccounted'
  <2> SUFFICES ASSUME ~Vector, NEW t \in Sessions, mark'[t]["ts"].on
               PROVE  t \in notes \cup skipped
    BY <1>2, <1>8 DEF DoneIsAccounted, IsDone
  <2>1. CASE t = s /\ kind = "ts"
    <3>1. file.on
      BY <1>6, <1>7, <2>1
    <3>2. Marking(script)
      BY <1>4, <2>1, <3>1 DEF Marking, kind, file
    <3> QED
      BY <1>3, <2>1, <3>2
  <2>2. CASE ~(t = s /\ kind = "ts")
    <3>1. mark'[t]["ts"] = mark[t]["ts"]
      BY <1>7, <2>2 DEF Kinds
    <3> QED
      BY <3>1 DEF QueueInv, DoneIsAccounted, IsDone
  <2> QED
    BY <2>1, <2>2
<1>12. ASSUME NEW t \in Sessions, t = s, NEW k \in Kinds,
              NEW j \in DOMAIN script, j # 1, script[j][1] = k, ~script[j][2].on
       PROVE  Clears(p, t, k)'
  <2>1. j - 1 \in DOMAIN rest /\ rest[j - 1] = script[j]
    BY <1>4, <1>12
  <2>2. rest # <<>>
    BY <2>1
  <2> QED
    BY <1>5, <1>9, <1>12, <2>1, <2>2 DEF Clears
<1>13. ClashInv'
  <2> SUFFICES ASSUME NEW t \in Sessions, t \notin torn, NEW a \in Kinds, NEW b \in Rivals(a),
                      mark'[t][a].on, mark'[t][b].on
               PROVE  \E q \in Processes : Clears(q, t, a)' \/ Clears(q, t, b)'
    BY <1>2 DEF ClashInv
  <2>1. b \in Kinds /\ b # a /\ a \in Rivals(b)
    BY DEF Rivals
  <2>2. ASSUME t = s, kind \in {a, b}
        PROVE  \E k \in {a, b} : Clears(p, t, k)'
    <3>1. file.on
      BY <1>7, <2>1, <2>2
    <3>2. PICK k \in {a, b} : k \in Rivals(kind)
      BY <2>1, <2>2
    <3>3. PICK j \in DOMAIN script : j > 1 /\ script[j][1] = k /\ ~script[j][2].on
      BY <1>3, <1>4, <3>1, <3>2, ZenonT(60) DEF Covering, kind, file
    <3> QED
      BY <1>12, <2>1, <2>2, <3>3
  <2>3. ASSUME ~(t = s /\ kind \in {a, b})
        PROVE  \E q \in Processes : Clears(q, t, a)' \/ Clears(q, t, b)'
    <3>1. mark[t][a].on /\ mark[t][b].on
      BY <1>7, <2>1, <2>3
    <3>2. PICK q \in Processes : Clears(q, t, a) \/ Clears(q, t, b)
      BY <2>1, <3>1 DEF QueueInv, ClashInv
    <3>3. CASE q = p
      <4>1. t = s
        BY <3>2, <3>3 DEF Clears, s
      <4>2. PICK k \in {a, b}, j \in DOMAIN script : script[j][1] = k /\ ~script[j][2].on
        BY <3>2, <3>3 DEF Clears, script
      <4>3. j # 1
        BY <2>3, <4>1, <4>2 DEF kind
      <4> QED
        BY <1>12, <2>1, <3>3, <4>1, <4>2, <4>3
    <3>4. CASE q # p
      BY <1>9, <3>2, <3>4 DEF Clears
    <3> QED
      BY <3>3, <3>4
  <2> QED
    BY <2>2, <2>3
<1> QED
  BY <1>8, <1>9, <1>10, <1>11, <1>13 DEF QueueInv

-------------------------------------------------------------------------------
(* Theorems *)

LEMMA QueueInvariant == Spec => []QueueInv
<1>1. Init => QueueInv
  <2> SUFFICES ASSUME Init PROVE QueueInv
    OBVIOUS
  <2>1. DataInv
    BY Operations, QueueAssumption DEF Init, DataInv, NoMarks
  <2>2. proc \in [Processes -> Procs] /\ \A p \in Processes : proc[p] = Idle
    BY IdleTyped DEF Init
  <2>3. \A p \in Processes : ProcInv(p)
    BY <2>2, IdleTyped, NothingCovers DEF ProcInv
  <2>4. \A s \in Sessions, k \in Kinds : ~mark[s][k].on
    BY Operations DEF Init, NoMarks
  <2>5. DoneIsAccounted /\ ClashInv
    BY <2>4 DEF DoneIsAccounted, IsDone, ClashInv, Kinds
  <2> QED
    BY <2>1, <2>2, <2>3, <2>5 DEF QueueInv
<1>2. QueueInv /\ [Next]_vars => QueueInv'
  <2> SUFFICES ASSUME QueueInv, [Next]_vars PROVE QueueInv'
    OBVIOUS
  <2>1. ASSUME NEW p \in Hooks, HookStep(p) \/ TimeOut(p) PROVE QueueInv'
    BY <2>1, DistillKeeps, MarkKeeps, FileOpKeeps, TimeOutKeeps DEF HookStep, Processes
  <2>2. CASE HermesStep
    BY <2>2, FileOpKeeps, ListKeeps, EndTickKeeps, ReconcileKeeps, PassOverKeeps, OfferKeeps
       DEF HermesStep, Processes
  <2>3. CASE Tick
    BY <2>3, TickKeeps
  <2>4. ASSUME NEW s \in Sessions, SessionEnds(s) \/ Scan(s) \/ AgentActs(s) PROVE QueueInv'
    BY <2>4, SessionEndsKeeps, ScanKeeps, AgentKeeps
  <2>5. ASSUME NEW s \in Sessions, NEW k \in Kinds, Ages(s, k) PROVE QueueInv'
    BY <2>5, AgesKeep
  <2>6. CASE UNCHANGED vars
    <3>1. DataInv'
      BY <2>6 DEF vars, QueueInv, DataInv
    <3> QED
      BY <2>6, <3>1, WorldKeeps DEF vars
  <2> QED
    BY <2>1, <2>2, <2>3, <2>4, <2>5, <2>6 DEF Next
<1> QED
  BY <1>1, <1>2, PTL DEF Spec

\* Every variable of the session queue keeps its type.
THEOREM QueueTyped == Spec => []TypeOK
BY QueueInvariant, InvTyped, PTL

\* In wiki-first mode, whatever hooks, collectors and hermes do to the marker files
\* at once, and whoever is killed, a session is marked done only if it is in the
\* vault or was judged not to be memory.
THEOREM DoneMeansAccounted == Spec => []DoneIsAccounted
<1>1. QueueInv => DoneIsAccounted
  BY DEF QueueInv
<1> QED
  BY <1>1, QueueInvariant, PTL

\* Transitions of any number of sessions interleave file by file, and what they
\* leave behind does not contradict itself, unless one was cut short.
THEOREM VerdictsNeverClash == Spec => []VerdictsExclude
<1>1. QueueInv => VerdictsExclude
  <2> SUFFICES ASSUME QueueInv, NEW s \in Sessions \ torn,
                      \A p \in Processes : proc[p].at = "write" => proc[p].session # s
               PROVE  /\ IsDone(s) => \A k \in Kinds \ {"ts"} : ~mark[s][k].on
                      /\ ~(mark[s]["pending"].on /\ mark[s]["retry"].on)
    BY DEF VerdictsExclude
  <2>1. \A a \in Kinds : \A b \in Rivals(a) : ~(mark[s][a].on /\ mark[s][b].on)
    BY DEF QueueInv, ClashInv, Clears
  <2>2. /\ "ts" \in Kinds /\ "pending" \in Kinds /\ "retry" \in Rivals("pending")
        /\ \A k \in Kinds \ {"ts"} : k \in Rivals("ts")
    BY DEF Rivals, Kinds
  <2> QED
    BY <2>1, <2>2 DEF IsDone
<1> QED
  BY <1>1, QueueInvariant, PTL
===============================================================================

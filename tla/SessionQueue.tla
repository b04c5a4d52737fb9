----------------------------- MODULE SessionQueue -----------------------------
(*****************************************************************************)
(* How Claude Code sessions become notes. Three kinds of process share the   *)
(* marker files and no lock:                                                 *)
(*  - "hook": distill-session.py, started by Claude Code when a session ends;*)
(*  - "backfill": schedulers/collect-sessions.py, which runs the same hook   *)
(*    in a subprocess, for the newest session without a marker;              *)
(*  - "hermes": hermes/ingest-worker.py, whose tick reconciles the pending   *)
(*    sessions and offers the oldest eligible one to an agent.               *)
(*                                                                           *)
(* Abstractions: sessions are numbered by mtime and all lie in the window;   *)
(* the distilling LLM, the engine and the agent are their outcomes; `--now`, *)
(* a throttled Stop event and a run that finds the write door closed leave   *)
(* the queue as it is and are left out. SettlementsTrusting is wrong on      *)
(* purpose: it shows that DoneIsAccounted can fail.                          *)
(*****************************************************************************)
EXTENDS SessionMarkers, FiniteSetsExt

CONSTANTS
  MaxTries,   \* MAX_WIKI_ATTEMPTS
  MaxChunks,  \* bound: the chunks a run may come to have
  Scenarios   \* the setups to check: does the engine run the vector backend, is
              \* hermes scheduled, which sessions have a transcript, which of them
              \* take longer to distill than the time-outs allow (slow) or fail at
              \* each attempt (broken), and the bounds: how many session ends, other
              \* failed distills and killed hooks there are

Setups == [vector: BOOLEAN, hermes: BOOLEAN, sessions: SUBSET Sessions,
           slow: SUBSET Sessions, broken: SUBSET Sessions,
           ends: Nat, failures: Nat, kills: Nat]

ASSUME QueueAssumption ==
  /\ Sessions \subseteq Nat
  /\ MaxTries \in Nat /\ MaxChunks \in Nat
  /\ Scenarios \subseteq Setups

VARIABLES
  proc,     \* proc[p]: where process p stands
  agents,   \* sessions a hermes agent is working on
  notes,    \* sessions with a note in the vault that carries their id
  skipped,  \* sessions judged not to be memory
  chunks,   \* the engine's total_chunks (constant without vectors)
  torn,     \* history: sessions with a transition that was cut short
  setup     \* the scenario, with what is left of its bounds

vars == <<mark, proc, agents, notes, skipped, chunks, torn, setup>>

\* The sessions whose transcripts are there; is the vector backend on.
Queue == setup.sessions
Vector == setup.vector

Hooks == {"hook", "backfill"}
Processes == Hooks \cup {"hermes"}

\* `ok` is the distill verdict, `script` the file operations still to perform on
\* `session`, `left` the sessions a hermes tick still has to look at, and `back`
\* the stage it continues with.
Idle == [at |-> "off", session |-> 0, ok |-> FALSE, script |-> <<>>,
         left |-> {}, back |-> "off"]

-------------------------------------------------------------------------------
(* The distill hook *)

\* main() gets as far as the LLM. `_throttled` can only turn this into a no-op.
SessionEnds(s) ==
  /\ proc["hook"].at = "off" /\ setup.ends > 0 /\ s \in Queue
  /\ proc' = [proc EXCEPT !["hook"] = [Idle EXCEPT !.at = "distill", !.session = s]]
  /\ setup' = [setup EXCEPT !.ends = @ - 1]
  /\ UNCHANGED <<mark, agents, notes, skipped, chunks, torn>>

\* A note is new or replaces an older one, so total_chunks grows or stays.
Ingested == chunks' \in IF Vector /\ chunks < MaxChunks THEN {chunks, chunks + 1} ELSE {chunks}

\* distill_and_remember: the session is skipped (by the LLM, as too short, or as
\* an automated run), remembered, or it fails; `unheard` is a remember the engine
\* did carry out and whose answer did not arrive.
Distill(p) ==
  \E verdict \in {"skip", "note", "fail", "unheard"} :
    LET s == proc[p].session
        failed == verdict \in {"fail", "unheard"}
        charged == failed /\ s \notin setup.broken
    IN  /\ proc[p].at = "distill"
        /\ s \notin setup.slow
        /\ s \in setup.broken => verdict = "fail"
        /\ charged => setup.failures > 0
        /\ setup' = IF charged THEN [setup EXCEPT !.failures = @ - 1] ELSE setup
        /\ notes' = IF verdict \in {"note", "unheard"} THEN notes \cup {s} ELSE notes
        /\ skipped' = IF verdict = "skip" THEN skipped \cup {s} ELSE skipped
        /\ IF verdict \in {"note", "unheard"} THEN Ingested ELSE UNCHANGED chunks
        /\ proc' = [proc EXCEPT ![p].at = "mark", ![p].ok = ~failed]
        /\ UNCHANGED <<mark, agents, torn>>

\* _mark: the retry count is read here, the files change one by one afterwards.
Mark(p) ==
  /\ proc[p].at = "mark"
  /\ proc' = [proc EXCEPT ![p].at = "write",
                ![p].script = IF proc[p].ok THEN MarkDone ELSE MarkRetry(proc[p].session)]
  /\ UNCHANGED <<mark, agents, notes, skipped, chunks, torn, setup>>

\* One file operation of the transition a process is in; the last one takes a
\* hook to its end and hermes back into its tick.
FileOp(p) ==
  /\ proc[p].at = "write"
  /\ Perform(proc[p].session, Head(proc[p].script))
  /\ proc' = [proc EXCEPT ![p] =
       IF Len(proc[p].script) > 1 THEN [proc[p] EXCEPT !.script = Tail(proc[p].script)]
       ELSE IF proc[p].back = "off" THEN Idle
       ELSE [proc[p] EXCEPT !.script = <<>>, !.at = proc[p].back]]
  /\ UNCHANGED <<agents, notes, skipped, chunks, torn, setup>>

\* subprocess.run(..., timeout=180) in the collector, and "timeout": 130 in
\* Claude Code's settings, kill the hook wherever it is. The collector counts the
\* time-out; nobody leaves a marker.
TimeOut(p) ==
  LET s == proc[p].session
      forced == proc[p].at = "distill" /\ s \in setup.slow
  IN  /\ proc[p].at # "off"
      /\ forced \/ setup.kills > 0
      /\ setup' = IF forced THEN setup ELSE [setup EXCEPT !.kills = @ - 1]
      /\ proc' = [proc EXCEPT ![p] = Idle]
      /\ torn' = IF proc[p].at = "write" THEN torn \cup {s} ELSE torn
      /\ UNCHANGED <<mark, agents, notes, skipped, chunks>>

-------------------------------------------------------------------------------
(* The backfill collector *)

\* _marked in collect-sessions.py
Marked(s) == IsDone(s) \/ IsPending(s) \/ IsDead(s)

\* main(): the newest unmarked session is distilled (LIMIT = 1).
Scan(s) ==
  /\ proc["backfill"].at = "off"
  /\ s \in Queue /\ ~Marked(s)
  /\ \A t \in Queue : t > s => Marked(t)
  /\ proc' = [proc EXCEPT !["backfill"] = [Idle EXCEPT !.at = "distill", !.session = s]]
  /\ UNCHANGED <<mark, agents, notes, skipped, chunks, torn, setup>>

-------------------------------------------------------------------------------
(* The hermes worker and the agent its stdout instructs *)

\* main(): a tick starts with the glob over *.pending.
Tick ==
  /\ proc["hermes"].at = "off" /\ setup.hermes
  /\ proc' = [proc EXCEPT !["hermes"] = [Idle EXCEPT !.at = "reconcile",
                !.left = {s \in Sessions : mark[s]["pending"].on}]]
  /\ UNCHANGED <<mark, agents, notes, skipped, chunks, torn, setup>>

\* _chunk_count(): -1 when the engine does not answer.
ChunkCounts == IF Vector THEN {chunks, -1} ELSE {chunks}

SettlementsTrusting(s) ==
  IF s \in notes \/ mark[s]["pending"].n >= MaxTries THEN {MarkDone \o RemovePending}
  ELSE {WriteIngestPending(mark[s]["pending"].before, mark[s]["pending"].n + 1)}
\* What _reconcile does about a pending file it could parse. `_is_vector_mode`
\* falls back to wiki-first when the engine does not answer.
Settlements(s) ==
  LET pending == mark[s]["pending"]
      confirmed == MarkDone \o RemovePending
      byChunks(now) == IF now > pending.before THEN confirmed
                       ELSE IF ~IsPending(s) THEN RemovePending ELSE <<>>
      byTries == IF pending.n < MaxTries
                 THEN WriteIngestPending(pending.before, pending.n + 1)
                 ELSE MarkRetry(s) \o RemovePending
  IN  IF s \in notes THEN {confirmed}
      ELSE (IF Vector THEN {byChunks(now) : now \in ChunkCounts} ELSE {}) \cup {byTries}

\* _reconcile: one session of the glob. A file that is gone by now is skipped.
Reconcile(s) ==
  \E script \in IF mark[s]["pending"].on THEN Settlements(s) ELSE {<<>>} :
    /\ proc["hermes"].at = "reconcile" /\ s \in proc["hermes"].left
    /\ proc' = [proc EXCEPT !["hermes"].left = @ \ {s}, !["hermes"].script = script,
                  !["hermes"].session = s, !["hermes"].back = "reconcile",
                  !["hermes"].at = IF script = <<>> THEN "reconcile" ELSE "write"]
    /\ UNCHANGED <<mark, agents, notes, skipped, chunks, torn, setup>>

\* _eligible in ingest-worker.py
Eligible(s) == ~IsDone(s) /\ ~IsPending(s) /\ ~IsRetry(s)

\* main(): with the previous tick settled, list the eligible sessions.
ListEligible ==
  /\ proc["hermes"].at = "reconcile" /\ proc["hermes"].left = {}
  /\ proc' = [proc EXCEPT !["hermes"].at = "offer",
                !["hermes"].left = {s \in Queue : Eligible(s)}]
  /\ UNCHANGED <<mark, agents, notes, skipped, chunks, torn, setup>>

\* The oldest listed session is too short to have content: mark it done, go on.
PassOver(s) ==
  /\ proc["hermes"].at = "offer"
  /\ proc["hermes"].left # {} /\ s = Min(proc["hermes"].left)
  /\ skipped' = skipped \cup {s}
  /\ proc' = [proc EXCEPT !["hermes"].left = @ \ {s}, !["hermes"].session = s,
                !["hermes"].script = MarkDone, !["hermes"].back = "offer",
                !["hermes"].at = "write"]
  /\ UNCHANGED <<mark, agents, notes, chunks, torn, setup>>

\* The oldest listed session is offered: mark it pending, print its text.
Offer(s) ==
  \E before \in ChunkCounts :
    /\ proc["hermes"].at = "offer"
    /\ proc["hermes"].left # {} /\ s = Min(proc["hermes"].left)
    /\ proc' = [proc EXCEPT !["hermes"].session = s, !["hermes"].back = "print",
                  !["hermes"].script = WriteIngestPending(before, 0),
                  !["hermes"].at = "write"]
    /\ UNCHANGED <<mark, agents, notes, skipped, chunks, torn, setup>>

\* The tick ends: with the instruction for the agent, or with nothing to offer.
EndTick ==
  /\ \/ /\ proc["hermes"].at = "print"
        /\ agents' = agents \cup {proc["hermes"].session}
     \/ /\ proc["hermes"].at = "offer" /\ proc["hermes"].left = {}
        /\ UNCHANGED agents
  /\ proc' = [proc EXCEPT !["hermes"] = Idle]
  /\ UNCHANGED <<mark, notes, skipped, chunks, torn, setup>>

\* The agent remembers the session, with the omb_session_id line or without it,
\* or derails or replies SKIP, which leaves no trace.
AgentActs(s) ==
  /\ s \in agents /\ agents' = agents \ {s}
  /\ \/ notes' = notes \cup {s} /\ Ingested
     \/ UNCHANGED notes /\ Ingested
  /\ UNCHANGED <<mark, proc, skipped, torn, setup>>

-------------------------------------------------------------------------------
(* The system *)

Init ==
  /\ mark = [s \in Sessions |-> NoMarks]
  /\ proc = [p \in Processes |-> Idle]
  /\ agents = {} /\ notes = {} /\ skipped = {} /\ torn = {}
  /\ chunks = 0 /\ setup \in Scenarios

Ages(s, k) ==
  /\ Expire(s, k)
  /\ UNCHANGED <<proc, agents, notes, skipped, chunks, torn, setup>>

HookStep(p) == Distill(p) \/ Mark(p) \/ FileOp(p)
HookKilled(p) == TimeOut(p) /\ proc[p].session \in setup.slow
HermesStep ==
  \/ FileOp("hermes") \/ ListEligible \/ EndTick
  \/ \E s \in Sessions : Reconcile(s) \/ PassOver(s) \/ Offer(s)

Next ==
  \/ \E p \in Hooks : HookStep(p) \/ TimeOut(p)
  \/ HermesStep \/ Tick
  \/ \E s \in Sessions : SessionEnds(s) \/ Scan(s) \/ AgentActs(s)
  \/ \E s \in Sessions, k \in Kinds : Ages(s, k)

Spec == Init /\ [][Next]_vars

\* A started process goes on, a TTL runs out, and the scheduled collector sees a
\* session that is at the head of its queue again and again. Nothing is assumed
\* of session ends, of hermes ticks or of the agent.
FairSpec ==
  /\ Spec
  /\ \A p \in Hooks : WF_vars(HookStep(p)) /\ WF_vars(HookKilled(p))
  /\ WF_vars(HermesStep)
  /\ \A s \in Sessions : SF_vars(Scan(s))
  /\ \A s \in Sessions : WF_vars(Ages(s, "pending"))

-------------------------------------------------------------------------------
(* Properties *)

TypeOK ==
  /\ mark \in [Sessions -> [Kinds -> Markers]]
  /\ proc \in [Processes ->
       [at: {"off", "distill", "mark", "write", "reconcile", "offer", "print"},
        session: Sessions \cup {0}, ok: BOOLEAN, script: Seq(FileOps),
        left: SUBSET Sessions, back: {"off", "reconcile", "offer", "print"}]]
  /\ \A p \in Processes : proc[p].at = "write" => proc[p].script # <<>>
  /\ agents \subseteq Sessions /\ notes \subseteq Sessions /\ skipped \subseteq Sessions
  /\ chunks \in Nat /\ torn \subseteq Sessions
  /\ setup \in Setups

\* In wiki-first mode a done marker means the session is in the vault or was
\* judged not to be memory: "We do not mark unconfirmed sessions done"
\* (ingest-worker.py:91-92). The chunk counter of vector mode breaks this.
DoneIsAccounted ==
  ~Vector => \A s \in Sessions : IsDone(s) => s \in notes \cup skipped

\* Two processes can settle one session at the same time with different results.
\* Because each writes its own marker before it unlinks the others, the files
\* they leave behind never say both "done" and "not done", nor "queued" and
\* "failed". A transition that was cut short is the only exception.
VerdictsExclude ==
  \A s \in Sessions \ torn :
    (\A p \in Processes : proc[p].at = "write" => proc[p].session # s) =>
      /\ IsDone(s) => \A k \in Kinds \ {"ts"} : ~mark[s][k].on
      /\ ~(mark[s]["pending"].on /\ mark[s]["retry"].on)

\* Every session is at last remembered, skipped or given up, and a session that
\* fails each time does not keep older ones from their turn: "a repeatedly-failing
\* session stops occupying the head of the line" (markers.py:13-16). There are two
\* exceptions. A hook killed at its time-out leaves no marker, so that a session
\* too slow for it is the newest unmarked one at each run and shuts out the older
\* ones. And hermes removes the count of attempts when it offers a session: what
\* it offers again and again may never be given up.
Settles(s) == s \in Queue /\ ~Vector => s \in notes \cup skipped \/ IsDead(s)
Blocked(s) == \E t \in Queue \cap setup.slow : t >= s /\ ~IsDone(t) /\ ~IsDead(t)
Offering(s) == proc["hermes"].back = "print" /\ proc["hermes"].session >= s
EverySessionSettles ==
  \A s \in Sessions : <>Settles(s) \/ <>[]Blocked(s) \/ []<>Offering(s)
==============================================================================

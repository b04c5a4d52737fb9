--------------------------- MODULE BriefingsProofs ---------------------------
(*****************************************************************************)
(* For any clients, documents, claims, replies, crashes and clocks that are  *)
(* set back: the note of a day is written once, every variable has its type, *)
(* the sections of a briefing are fed, no note takes two slots of the        *)
(* stalled block, a report denies nothing that was there, and a text keeps   *)
(* what the model said.                                                      *)
(*****************************************************************************)
EXTENDS Briefings, TLAPS, FiniteSetTheorems, SequenceTheorems, WellFoundedInduction

\* Where the scheduler is, before and after it makes the note.
Apart == {"idle", "look", "write", "dead"}

\* The scheduler at work on a briefing has found no note, and nobody else makes
\* one; what it writes into is the empty note it has made.
NoteInv ==
  /\ day \in Nat
  /\ DOMAIN process = Processes
  /\ \A p \in Processes : "pc" \in DOMAIN process[p]
  /\ process[Scheduler].pc \notin Apart => note = None
  /\ process[Scheduler].pc = "write" => note = <<>>

\* A process that goes on, and neither writes nor takes up a briefing that is
\* there, keeps the invariant.
LEMMA GoingOn ==
  ASSUME NoteInv, NEW p \in Processes, NEW now, Goes(p, now), UNCHANGED <<day, note>>,
         "pc" \in DOMAIN now, now.pc # "write",
         p = Scheduler /\ now.pc \notin Apart => note = None
  PROVE  NoteInv'
<1>1. \A q \in Processes : process'[q] = IF q = p THEN now ELSE process[q]
  BY DEF NoteInv, Goes
<1>2. DOMAIN process' = Processes
  BY DEF NoteInv, Goes
<1>3. Scheduler \in Processes
  BY DEF Processes
<1> QED
  BY <1>1, <1>2, <1>3 DEF NoteInv, Apart

\* A process at work, whichever it is, is past the look at the note.
LEMMA AtWork ==
  ASSUME NoteInv, NEW p \in Processes, process[p].pc \notin Apart
  PROVE  p = Scheduler => note = None
BY DEF NoteInv

\* What a process goes to that is out of a report: still a record, not writing.
LEMMA Reported ==
  ASSUME NEW empty \in BOOLEAN, NEW next, "pc" \in DOMAIN next, next.pc # "write"
  PROVE  "pc" \in DOMAIN Unless(empty, next) /\ Unless(empty, next).pc # "write"
BY DEF Unless, Idle

\* Queries, answers and failures: of no consequence for the note.
LEMMA QueriesKeep ==
  ASSUME NoteInv, NEW p \in Processes,
         \/ QueryWindow(p) \/ QueryReserved(p) \/ QueryDocs(p) \/ QueryClaims(p)
         \/ QueryStalled(p) \/ Answered(p) \/ Fail(p)
  PROVE  NoteInv'
<1>1. "pc" \in DOMAIN process[p] /\ "pc" \in DOMAIN Idle
  BY DEF NoteInv, Idle
<1>2. process[p].pc \in {"windows", "reserved", "docs", "claims", "stalled", "model"}
  BY DEF QueryWindow, QueryReserved, QueryDocs, QueryClaims, QueryStalled, Answered, Fail
<1>3. p = Scheduler => note = None
  BY <1>2 DEF NoteInv, Apart
<1>4. UNCHANGED <<day, note>>
  BY DEF QueryWindow, QueryReserved, QueryDocs, QueryClaims, QueryStalled, Answered, Fail, ledger
<1>5. \A now : Goes(p, now) /\ "pc" \in DOMAIN now /\ now.pc # "write" => NoteInv'
  BY <1>3, <1>4, GoingOn
<1>6. CASE QueryWindow(p)
  <2>1. PICK found : Goes(p, IF ~Suffices(process[p].window, found) THEN [process[p] EXCEPT !.window = @ + 1]
               ELSE IF found = {} THEN [Idle EXCEPT !.pc = "finished", !.text = Notice]
               ELSE [process[p] EXCEPT !.pc = "reserved", !.steady = Current(from)])
    BY <1>6 DEF QueryWindow
  <2>2. process[p].pc = "windows"
    BY <1>6 DEF QueryWindow
  <2>3. CASE ~Suffices(process[p].window, found)
    <3> DEFINE now == [process[p] EXCEPT !.window = @ + 1]
    <3>1. "pc" \in DOMAIN now /\ now.pc = "windows"
      BY <1>1, <2>2
    <3>2. Goes(p, now)
      BY <2>1, <2>3
    <3> HIDE DEF now
    <3> QED
      BY <3>1, <3>2, <1>5
  <2>4. CASE Suffices(process[p].window, found) /\ found = {}
    <3> DEFINE now == [Idle EXCEPT !.pc = "finished", !.text = Notice]
    <3>1. "pc" \in DOMAIN now /\ now.pc = "finished"
      BY DEF Idle
    <3>2. Goes(p, now)
      BY <2>1, <2>4
    <3> HIDE DEF now
    <3> QED
      BY <3>1, <3>2, <1>5
  <2>5. CASE Suffices(process[p].window, found) /\ found # {}
    <3> DEFINE now == [process[p] EXCEPT !.pc = "reserved", !.steady = Current(from)]
    <3>1. "pc" \in DOMAIN now /\ now.pc = "reserved"
      BY <1>1
    <3>2. Goes(p, now)
      BY <2>1, <2>5
    <3> HIDE DEF now
    <3> QED
      BY <3>1, <3>2, <1>5
  <2> QED
    BY <2>3, <2>4, <2>5
<1>7. CASE QueryReserved(p)
  <2> DEFINE after(rows) == [process[p] EXCEPT !.query = @ + 1, !.rows = @ \cup rows,
                               !.pc = IF process[p].query <= Len(Reserve) THEN @ ELSE "stalled"]
  <2>1. PICK rows : Goes(p, after(rows))
    BY <1>7 DEF QueryReserved
  <2>2. "pc" \in DOMAIN after(rows) /\ after(rows).pc # "write"
    BY <1>1, <1>2
  <2> HIDE DEF after
  <2> QED
    BY <2>1, <2>2, <1>5
<1>8. CASE QueryDocs(p)
  <2> DEFINE kept(found) == IF process[p].task = "weekly" THEN found \ Tagged ELSE found
             next(found) == [process[p] EXCEPT !.docs = kept(found), !.pc = "claims",
                               !.steady = {x \in @ : x \in Docs => updated[x] >= day - Surface(p).docs}]
             empty(found) == process[p].task = "weekly" /\ kept(found) = {}
  <2>1. PICK found : Goes(p, Unless(empty(found), next(found)))
    BY <1>8 DEF QueryDocs
  <2>2. "pc" \in DOMAIN next(found) /\ next(found).pc # "write"
    BY <1>1
  <2>3. empty(found) \in BOOLEAN
    OBVIOUS
  <2> HIDE DEF empty, next
  <2> QED
    BY <2>1, <2>2, <2>3, <1>5, Reported
<1>9. CASE QueryClaims(p)
  <2> DEFINE k == process[p].query
             queries == Surface(p).claims
             more == CASE k < Len(queries) -> "claims"
                       [] process[p].task \in Plain -> "finished"
                       [] Surface(p).stalled # 0 -> "stalled"
                       [] OTHER -> "model"
             next(rows) == [process[p] EXCEPT !.query = @ + 1, !.rows = @ \cup rows, !.pc = more]
  <2>1. PICK rows : Goes(p, Unless(NothingFound(p, rows), next(rows)))
    BY <1>9 DEF QueryClaims
  <2>2. more \in {"claims", "finished", "stalled", "model"}
    OBVIOUS
  <2> HIDE DEF more
  <2>3. "pc" \in DOMAIN next(rows) /\ next(rows).pc # "write"
    BY <1>1, <2>2
  <2>4. NothingFound(p, rows) \in BOOLEAN
    BY DEF NothingFound
  <2> HIDE DEF next
  <2> QED
    BY <2>1, <2>3, <2>4, <1>5, Reported
<1>10. CASE QueryStalled(p)
  <2> DEFINE next(rows) == [process[p] EXCEPT !.pc = "model", !.stalled = rows]
             empty(rows) == process[p].task = "stalled" /\ rows = {}
  <2>1. PICK rows : Goes(p, Unless(empty(rows), next(rows)))
    BY <1>10 DEF QueryStalled
  <2>2. "pc" \in DOMAIN next(rows) /\ next(rows).pc # "write"
    BY <1>1
  <2>3. empty(rows) \in BOOLEAN
    OBVIOUS
  <2> HIDE DEF empty, next
  <2> QED
    BY <2>1, <2>2, <2>3, <1>5, Reported
<1>11. CASE Answered(p)
  <2> DEFINE stop == [Idle EXCEPT !.pc = IF p = Scheduler THEN "dead" ELSE "failed"]
             put(said) == [process[p] EXCEPT !.pc = "finished", !.said = said, !.text = Coalesce(said)]
             reply == [process[p] EXCEPT !.pc = "finished", !.text = Reply]
  <2>1. PICK said : Goes(p, stop) \/ Goes(p, put(said)) \/ Goes(p, reply)
    BY <1>11 DEF Answered
  <2>2. "pc" \in DOMAIN stop /\ stop.pc # "write"
    BY DEF Idle
  <2>3. "pc" \in DOMAIN put(said) /\ put(said).pc # "write"
    BY <1>1
  <2>4. "pc" \in DOMAIN reply /\ reply.pc # "write"
    BY <1>1
  <2> HIDE DEF stop, put, reply
  <2> QED
    BY <2>1, <2>2, <2>3, <2>4, <1>5
<1>12. CASE Fail(p)
  <2> DEFINE now == IF p = Scheduler THEN Idle ELSE [Idle EXCEPT !.pc = "failed"]
  <2>1. Goes(p, now)
    BY <1>12 DEF Fail
  <2>2. "pc" \in DOMAIN now /\ now.pc # "write"
    BY DEF Idle
  <2> HIDE DEF now
  <2> QED
    BY <2>1, <2>2, <1>5
<1> QED
  BY <1>6, <1>7, <1>8, <1>9, <1>10, <1>11, <1>12

\* The look at the note.
LEMMA LookKeeps ==
  ASSUME NoteInv, NEW p \in Processes, Look(p)
  PROVE  NoteInv'
<1>1. UNCHANGED <<day, note>>
  BY DEF Look, ledger
<1>2. CASE p = Scheduler
  <2>1. CASE note = None
    BY <1>1, <1>2, <2>1, GoingOn DEF Look, Written, Idle
  <2>2. CASE note # None
    BY <1>1, <1>2, <2>2, GoingOn DEF Look, Written, Idle, Apart
  <2> QED
    BY <2>1, <2>2
<1>3. CASE p # Scheduler
  BY <1>1, <1>3, GoingOn DEF Look, Idle
<1> QED
  BY <1>2, <1>3

\* Requests and responses are those of clients.
LEMMA ClientsKeep ==
  ASSUME NoteInv, BriefAssumption, NEW c \in Clients,
         \/ Request(c) \/ Respond(c)
         \/ \E task \in DOMAIN Surfaces, project \in Projects \cup {Anywhere} : Enter(c, task, project)
  PROVE  NoteInv'
<1>1. c \in Processes /\ c # Scheduler
  BY DEF Processes, BriefAssumption
<1>2. CASE Request(c)
  BY <1>1, <1>2, GoingOn DEF Request, Idle, ledger
<1>3. CASE Respond(c)
  BY <1>1, <1>3, GoingOn DEF Respond, Idle, ledger
<1>4. ASSUME NEW task \in DOMAIN Surfaces, NEW project \in Projects \cup {Anywhere}, Enter(c, task, project)
      PROVE  NoteInv'
  BY <1>1, <1>4, GoingOn DEF Enter, Idle, ledger
<1> QED
  BY <1>2, <1>3, <1>4

\* The scheduler's hour, its note, and what happens to the day and the daemon.
LEMMA SchedulerKeeps ==
  ASSUME NoteInv, Strike \/ Create \/ Write \/ NextDay \/ ClockBack \/ Crash
  PROVE  NoteInv'
<1>1. Scheduler \in Processes
  BY DEF Processes
<1>2. CASE Strike
  <2>1. CASE UNCHANGED process
    BY <1>2, <2>1 DEF Strike, NoteInv, ledger
  <2>2. CASE Goes(Scheduler, [Idle EXCEPT !.pc = "look"])
    BY <1>1, <1>2, <2>2, GoingOn DEF Strike, Idle, Apart, ledger
  <2> QED
    BY <1>2, <2>1, <2>2 DEF Strike
<1>3. CASE Create
  BY <1>1, <1>3 DEF Create, Goes, NoteInv, Apart, ledger
<1>4. CASE Write
  BY <1>1, <1>4 DEF Write, Goes, NoteInv, Apart, Idle, ledger
<1>5. CASE NextDay
  BY <1>5 DEF NextDay, NoteInv, Apart, ledger
<1>6. CASE ClockBack
  BY <1>6 DEF ClockBack, NoteInv, ledger
<1>7. CASE Crash
  BY <1>1, <1>7 DEF Crash, NoteInv, Apart, Idle, ledger
<1> QED
  BY <1>2, <1>3, <1>4, <1>5, <1>6, <1>7

\* Work on notes changes the process records in their history only.
LEMMA WorkKeeps ==
  ASSUME NoteInv, NEW gone, Unsteady(gone), UNCHANGED <<day, note>>
  PROVE  NoteInv'
<1>1. \A p \in Processes : "pc" \in DOMAIN process'[p] /\ process'[p].pc = process[p].pc
  BY DEF Unsteady, NoteInv
<1>2. DOMAIN process' = Processes
  BY DEF Unsteady
<1> QED
  BY <1>1, <1>2 DEF NoteInv, Processes

\* NoteInv is an invariant.
LEMMA NoteInvariant == Spec => []NoteInv
<1>1. Init => NoteInv
  BY DEF Init, NoteInv, Idle, Apart, Processes
<1>2. NoteInv /\ [Next]_vars => NoteInv'
  <2> SUFFICES ASSUME NoteInv, [Next]_vars PROVE NoteInv'
    OBVIOUS
  <2>1. ASSUME NEW p \in Processes, Advance(p) \/ Fail(p)
        PROVE  NoteInv'
    BY <2>1, QueriesKeep, LookKeeps DEF Advance
  <2>2. ASSUME NEW c \in Clients, Request(c) \/ Respond(c)
        PROVE  NoteInv'
    BY <2>2, ClientsKeep, BriefAssumption
  <2>3. ASSUME NEW c \in Clients, NEW task \in DOMAIN Surfaces, NEW project \in Projects \cup {Anywhere},
               Ask(c, task, project) \/ Call(c, task, project)
        PROVE  NoteInv'
    <3>1. Enter(c, task, project)
      BY <2>3 DEF Ask, Call
    <3> QED
      BY <3>1, ClientsKeep, BriefAssumption
  <2>4. ASSUME Strike \/ Create \/ Write \/ NextDay \/ ClockBack \/ Crash
        PROVE  NoteInv'
    BY <2>4, SchedulerKeeps
  <2>5. ASSUME NEW d \in Docs, Work(d)
        PROVE  NoteInv'
    BY <2>5, WorkKeeps DEF Work
  <2>6. ASSUME NEW d \in Docs, Forget(d)
        PROVE  NoteInv'
    BY <2>6, WorkKeeps DEF Forget
  <2>7. CASE UNCHANGED vars
    BY <2>7 DEF vars, NoteInv
  <2> QED
    BY <2>1, <2>2, <2>3, <2>4, <2>5, <2>6, <2>7 DEF Next
<1> QED
  BY <1>1, <1>2, PTL DEF Spec

\* The note of a day that has content keeps it until the day is over: the file
\* is made only by a scheduler that has found none, and only the end of the day
\* lets the next one begin.
THEOREM NoteWrittenOnce == Spec => WrittenOnce
<1>1. NoteInv /\ [Next]_vars
        => [note = None \/ note = <<>> \/ note' = note \/ day' # day]_vars
  <2> SUFFICES ASSUME NoteInv, Next
               PROVE  note = None \/ note = <<>> \/ note' = note \/ day' # day
    OBVIOUS
  <2>1. CASE Create
    BY <2>1 DEF Create, NoteInv, Apart
  <2>2. CASE Write
    BY <2>2 DEF Write, NoteInv
  <2>3. CASE NextDay
    BY <2>3 DEF NextDay, NoteInv
  <2>4. CASE Strike \/ ClockBack \/ Crash
    BY <2>4 DEF Strike, ClockBack, Crash
  <2>5. ASSUME NEW p \in Processes, Advance(p) \/ Fail(p)
        PROVE  note' = note
    BY <2>5 DEF Advance, Fail, Look, QueryWindow, QueryReserved, QueryDocs, QueryClaims,
               QueryStalled, Answered
  <2>6. ASSUME NEW c \in Clients, Request(c) \/ Respond(c)
        PROVE  note' = note
    BY <2>6 DEF Request, Respond
  <2>7. ASSUME NEW c \in Clients, NEW task \in DOMAIN Surfaces, NEW project \in Projects \cup {Anywhere},
               Ask(c, task, project) \/ Call(c, task, project)
        PROVE  note' = note
    BY <2>7 DEF Ask, Call, Enter
  <2>8. ASSUME NEW d \in Docs, Work(d) \/ Forget(d)
        PROVE  note' = note
    BY <2>8 DEF Work, Forget
  <2> QED
    BY <2>1, <2>2, <2>3, <2>4, <2>5, <2>6, <2>7, <2>8 DEF Next
<1> QED
  BY <1>1, NoteInvariant, PTL DEF Spec, WrittenOnce
-------------------------------------------------------------------------------
(* Types *)

Fields == {"pc", "task", "project", "window", "query", "docs", "rows", "stalled",
           "steady", "said", "text"}

\* The record of a process, of its type; which task a process is at shows from
\* where it stands in it.
Stands(p, now) ==
  /\ DOMAIN now = Fields
  /\ now.pc \in {"idle", "look", "windows", "reserved", "docs", "claims", "stalled",
                 "model", "finished", "failed", "write", "dead"}
  /\ now.window \in 1..Len(Windows)
  /\ now.docs \subseteq Docs /\ now.rows \subseteq Claims
  /\ p # Scheduler => now.pc \notin {"write", "dead"}
  /\ now.pc \in {"windows", "reserved"} => now.task = "brief"
  /\ now.pc \in {"docs", "claims"} => now.task # "brief"

\* A process that does not query for the morning briefing.
Elsewhere(now) ==
  /\ now.pc \notin {"windows", "reserved"}
  /\ now.pc = "stalled" => now.task # "brief"

\* Every variable has its type, and every process its record.
TypeInv ==
  /\ day \in 1..MaxDay /\ struck \in BOOLEAN /\ tried \in 0..MaxDay
  /\ updated \in [Docs -> Int] /\ from \in [Claims -> Int]
  /\ DOMAIN process = Processes
  /\ \A p \in Processes : Stands(p, process[p])

\* Some window is there.
LEMMA WindowThere == Len(Windows) \in Nat \ {0}
<1>1. Windows \in Seq(Nat \X Nat) /\ Windows # <<>>
  BY LedgerAssumption
<1> QED
  BY <1>1

\* A process at rest.
LEMMA IdleStands == ASSUME NEW p PROVE Stands(p, Idle) /\ Elsewhere(Idle)
BY WindowThere DEF Stands, Elsewhere, Idle, Fields

\* What a query returns is of what it asks for.
LEMMA RowsOfQueries ==
  ASSUME NEW rows, NEW k, NEW key
  PROVE  \A top \in Tops(rows, k, key) : top \subseteq rows
BY DEF Tops, kSubset

\* One window after the other.
LEMMA WindowStands ==
  ASSUME TypeInv, NEW p \in Processes, QueryWindow(p)
  PROVE  \E now : /\ Goes(p, now) /\ Stands(p, now)
                  /\ \/ Elsewhere(now)
                     \/ now = [process[p] EXCEPT !.window = @ + 1]
                     \/ now = [process[p] EXCEPT !.pc = "reserved", !.steady = Current(from)]
<1>1. PICK found \in InWindow(updated, day, process[p].window, {}, DocLimit) :
        Goes(p, IF ~Suffices(process[p].window, found) THEN [process[p] EXCEPT !.window = @ + 1]
               ELSE IF found = {} THEN [Idle EXCEPT !.pc = "finished", !.text = Notice]
               ELSE [process[p] EXCEPT !.pc = "reserved", !.steady = Current(from)])
  BY DEF QueryWindow
<1>2. Stands(p, process[p]) /\ process[p].pc = "windows"
  BY DEF TypeInv, QueryWindow
<1>3. CASE ~Suffices(process[p].window, found)
  <2> DEFINE now == [process[p] EXCEPT !.window = @ + 1]
  <2>1. process[p].window \in 1..Len(Windows) /\ process[p].window # Len(Windows)
    BY <1>2, <1>3 DEF Suffices, Stands
  <2>2. process[p].window + 1 \in 1..Len(Windows)
    BY <2>1, WindowThere
  <2>3. Stands(p, now)
    BY <1>2, <2>2 DEF Stands, Fields
  <2> QED
    BY <1>1, <1>3, <2>3
<1>4. CASE Suffices(process[p].window, found) /\ found = {}
  <2> DEFINE now == [Idle EXCEPT !.pc = "finished", !.text = Notice]
  <2>1. Stands(p, now) /\ Elsewhere(now)
    BY WindowThere DEF Stands, Elsewhere, Idle, Fields
  <2> QED
    BY <1>1, <1>4, <2>1
<1>5. CASE Suffices(process[p].window, found) /\ found # {}
  <2> DEFINE now == [process[p] EXCEPT !.pc = "reserved", !.steady = Current(from)]
  <2>1. Stands(p, now)
    BY <1>2 DEF Stands, Fields
  <2> QED
    BY <1>1, <1>5, <2>1
<1> QED
  BY <1>3, <1>4, <1>5

\* The queries for the claims of the morning briefing.
AfterReserved(r, rows) ==
  [r EXCEPT !.query = @ + 1, !.rows = @ \cup rows,
            !.pc = IF r.query <= Len(Reserve) THEN @ ELSE "stalled"]

\* The record after such a query is of its type.
LEMMA ReservedStands ==
  ASSUME TypeInv, NEW p \in Processes, QueryReserved(p)
  PROVE  \E rows \in ReservedClaims(from, process[p].query, process[p].rows) :
           /\ Goes(p, AfterReserved(process[p], rows))
           /\ Stands(p, AfterReserved(process[p], rows))
<1>1. PICK rows \in ReservedClaims(from, process[p].query, process[p].rows) :
        Goes(p, AfterReserved(process[p], rows))
  BY DEF QueryReserved, AfterReserved
<1>2. Stands(p, process[p]) /\ process[p].pc = "reserved"
  BY DEF TypeInv, QueryReserved
<1>3. rows \subseteq Claims
  BY <1>1, RowsOfQueries DEF ReservedClaims, RecentClaims, Current
<1>4. Stands(p, AfterReserved(process[p], rows))
  BY <1>2, <1>3 DEF Stands, AfterReserved, Fields
<1> QED
  BY <1>1, <1>4

\* A report that has nothing to say is done.
LEMMA UnlessStands ==
  ASSUME NEW p, NEW empty \in BOOLEAN, NEW next, Stands(p, next), Elsewhere(next)
  PROVE  Stands(p, Unless(empty, next)) /\ Elsewhere(Unless(empty, next))
<1>1. CASE empty
  <2> DEFINE now == [Idle EXCEPT !.pc = "finished", !.task = next.task,
                                 !.project = next.project, !.text = Notice]
  <2>1. Stands(p, now) /\ Elsewhere(now)
    BY WindowThere DEF Stands, Elsewhere, Idle, Fields
  <2> QED
    BY <1>1, <2>1 DEF Unless
<1>2. CASE ~empty
  BY <1>2 DEF Unless
<1> QED
  BY <1>1, <1>2

\* The other queries and the model.
LEMMA QueriesStand ==
  ASSUME TypeInv, NEW p \in Processes,
         QueryDocs(p) \/ QueryClaims(p) \/ QueryStalled(p) \/ Answered(p) \/ Fail(p) \/ Look(p)
  PROVE  \E now : Goes(p, now) /\ Stands(p, now)
                  /\ (Elsewhere(now) \/ now = [Idle EXCEPT !.pc = "windows"])
<1> DEFINE Fine(now) == Goes(p, now) /\ Stands(p, now)
                         /\ (Elsewhere(now) \/ now = [Idle EXCEPT !.pc = "windows"])
<1>1. Stands(p, process[p])
  BY DEF TypeInv
<1>2. CASE QueryDocs(p)
  <2> DEFINE kept(found) == IF process[p].task = "weekly" THEN found \ Tagged ELSE found
             next(found) == [process[p] EXCEPT !.docs = kept(found), !.pc = "claims",
                               !.steady = {x \in @ : x \in Docs => updated[x] >= day - Surface(p).docs}]
             empty(found) == process[p].task = "weekly" /\ kept(found) = {}
  <2>1. PICK found \in RecentDocs(updated, DocLimit, {}, day - Surface(p).docs, process[p].project) :
          Goes(p, Unless(empty(found), next(found)))
    BY <1>2 DEF QueryDocs
  <2>2. kept(found) \subseteq Docs
    BY <2>1, RowsOfQueries DEF RecentDocs
  <2>3. process[p].pc = "docs"
    BY <1>2 DEF QueryDocs
  <2> HIDE DEF kept
  <2>4. Stands(p, next(found)) /\ Elsewhere(next(found))
    BY <1>1, <2>2, <2>3 DEF Stands, Elsewhere, Fields
  <2>5. empty(found) \in BOOLEAN
    OBVIOUS
  <2> HIDE DEF empty, next
  <2>6. Fine(Unless(empty(found), next(found)))
    BY <2>1, <2>4, <2>5, UnlessStands
  <2> QED
    BY <2>6
<1>3. CASE QueryClaims(p)
  <2> DEFINE k == process[p].query
             queries == Surface(p).claims
             more == CASE k < Len(queries) -> "claims"
                       [] process[p].task \in Plain -> "finished"
                       [] Surface(p).stalled # 0 -> "stalled"
                       [] OTHER -> "model"
             next(rows) == [process[p] EXCEPT !.query = @ + 1, !.rows = @ \cup rows, !.pc = more]
  <2>1. PICK rows \in Rows(p, queries[k]) : Goes(p, Unless(NothingFound(p, rows), next(rows)))
    BY <1>3 DEF QueryClaims
  <2>2. rows \subseteq Claims
    BY <2>1, RowsOfQueries DEF Rows, RecentClaims, NearestClaims, Current, kSubset
  <2>3. more \in {"claims", "finished", "stalled", "model"}
    OBVIOUS
  <2>4. process[p].pc = "claims"
    BY <1>3 DEF QueryClaims
  <2> HIDE DEF more
  <2>5. Stands(p, next(rows)) /\ Elsewhere(next(rows))
    BY <1>1, <2>2, <2>3, <2>4 DEF Stands, Elsewhere, Fields
  <2>6. NothingFound(p, rows) \in BOOLEAN
    BY DEF NothingFound
  <2> HIDE DEF next
  <2>7. Fine(Unless(NothingFound(p, rows), next(rows)))
    BY <2>1, <2>5, <2>6, UnlessStands
  <2> QED
    BY <2>7
<1>4. CASE QueryStalled(p)
  <2> DEFINE next(rows) == [process[p] EXCEPT !.pc = "model", !.stalled = rows]
             empty(rows) == process[p].task = "stalled" /\ rows = {}
  <2>1. PICK rows : Goes(p, Unless(empty(rows), next(rows)))
    BY <1>4 DEF QueryStalled
  <2>2. Stands(p, next(rows)) /\ Elsewhere(next(rows))
    BY <1>1 DEF Stands, Elsewhere, Fields
  <2>3. empty(rows) \in BOOLEAN
    OBVIOUS
  <2> HIDE DEF empty, next
  <2>4. Fine(Unless(empty(rows), next(rows)))
    BY <2>1, <2>2, <2>3, UnlessStands
  <2> QED
    BY <2>4
<1>5. CASE Answered(p)
  <2> DEFINE stop == [Idle EXCEPT !.pc = IF p = Scheduler THEN "dead" ELSE "failed"]
             put(said) == [process[p] EXCEPT !.pc = "finished", !.said = said, !.text = Coalesce(said)]
             reply == [process[p] EXCEPT !.pc = "finished", !.text = Reply]
  <2>1. PICK said : Goes(p, stop) \/ Goes(p, put(said)) \/ Goes(p, reply)
    BY <1>5 DEF Answered
  <2>2. Stands(p, stop) /\ Elsewhere(stop)
    BY WindowThere DEF Stands, Elsewhere, Idle, Fields
  <2>3. Stands(p, put(said)) /\ Elsewhere(put(said))
    BY <1>1 DEF Stands, Elsewhere, Fields
  <2>4. Stands(p, reply) /\ Elsewhere(reply)
    BY <1>1 DEF Stands, Elsewhere, Fields
  <2> HIDE DEF stop, put, reply
  <2> QED
    BY <2>1, <2>2, <2>3, <2>4
<1>6. CASE Fail(p)
  <2> DEFINE now == IF p = Scheduler THEN Idle ELSE [Idle EXCEPT !.pc = "failed"]
  <2>1. Goes(p, now)
    BY <1>6 DEF Fail
  <2>2. Stands(p, now) /\ Elsewhere(now)
    BY WindowThere DEF Stands, Elsewhere, Idle, Fields
  <2> HIDE DEF now
  <2> QED
    BY <2>1, <2>2
<1>7. CASE Look(p)
  <2> DEFINE ask == [Idle EXCEPT !.pc = "windows"]
             serve == [Idle EXCEPT !.pc = "finished", !.text = note]
  <2>1. Goes(p, ask) \/ Goes(p, Idle) \/ Goes(p, serve)
    BY <1>7 DEF Look
  <2>2. Stands(p, ask)
    BY WindowThere DEF Stands, Idle, Fields
  <2>3. Stands(p, serve) /\ Elsewhere(serve)
    BY WindowThere DEF Stands, Elsewhere, Idle, Fields
  <2>4. Stands(p, Idle) /\ Elsewhere(Idle)
    BY IdleStands
  <2> HIDE DEF serve
  <2> QED
    BY <2>1, <2>2, <2>3, <2>4
<1> QED
  BY <1>2, <1>3, <1>4, <1>5, <1>6, <1>7

\* A process goes to where it does not query for the morning briefing, or is
\* about to.
Moves(p) ==
  \E now : /\ Goes(p, now) /\ Stands(p, now)
           /\ Elsewhere(now) \/ now = [Idle EXCEPT !.pc = "windows"]

\* Requests and responses.
LEMMA ClientsMove ==
  ASSUME TypeInv, NEW c \in Clients,
         \/ Request(c) \/ Respond(c)
         \/ \E task \in DOMAIN Surfaces, project \in Projects \cup {Anywhere} : Enter(c, task, project)
  PROVE  Moves(c)
<1>1. CASE Request(c)
  <2> DEFINE now == [Idle EXCEPT !.pc = "look"]
  <2>1. Stands(c, now) /\ Elsewhere(now)
    BY WindowThere DEF Stands, Elsewhere, Idle, Fields
  <2> QED
    BY <1>1, <2>1 DEF Request, Moves
<1>2. CASE Respond(c)
  BY <1>2, IdleStands DEF Respond, Moves
<1>3. ASSUME NEW task \in DOMAIN Surfaces, NEW project \in Projects \cup {Anywhere}, Enter(c, task, project)
      PROVE  Moves(c)
  <2> DEFINE start == IF Surfaces[task].docs # 0 THEN "docs"
                      ELSE IF Surfaces[task].claims # <<>> THEN "claims" ELSE "stalled"
             now == [Idle EXCEPT !.task = task, !.project = project,
                       !.steady = Current(from) \cup {d \in Docs : Present(d)}, !.pc = start]
  <2>1. Goes(c, now)
    BY <1>3 DEF Enter
  <2>2. start \in {"docs", "claims", "stalled"}
    OBVIOUS
  <2>3. task # "brief"
    BY DEF Surfaces
  <2> HIDE DEF start
  <2>4. Stands(c, now) /\ Elsewhere(now)
    BY <2>2, <2>3, WindowThere DEF Stands, Elsewhere, Idle, Fields
  <2> QED
    BY <2>1, <2>4 DEF Moves
<1> QED
  BY <1>1, <1>2, <1>3

\* The scheduler's hour and its note.
LEMMA SchedulerMoves ==
  ASSUME TypeInv, Strike \/ Create \/ Write
  PROVE  Moves(Scheduler) \/ UNCHANGED process
<1>1. CASE Strike
  <2> DEFINE now == [Idle EXCEPT !.pc = "look"]
  <2>1. Stands(Scheduler, now) /\ Elsewhere(now)
    BY WindowThere DEF Stands, Elsewhere, Idle, Fields
  <2> QED
    BY <1>1, <2>1 DEF Strike, Moves
<1>2. CASE Create
  <2> DEFINE now == [process[Scheduler] EXCEPT !.pc = "write"]
  <2>1. Stands(Scheduler, process[Scheduler])
    BY DEF TypeInv, Processes
  <2>2. Stands(Scheduler, now) /\ Elsewhere(now)
    BY <2>1 DEF Stands, Elsewhere, Fields
  <2> QED
    BY <1>2, <2>2 DEF Create, Moves
<1>3. CASE Write
  BY <1>3, IdleStands DEF Write, Moves
<1> QED
  BY <1>1, <1>2, <1>3

\* There are days.
LEMMA DaysThere == MaxDay \in Nat \ {0}
BY BriefAssumption

\* Work takes from what was steady all that it takes from the claims.
LEMMA WorkUnsteadies ==
  ASSUME TypeInv, NEW d \in Docs, Work(d) \/ Forget(d)
  PROVE  /\ from' \in [Claims -> Int] /\ updated' \in [Docs -> Int]
         /\ \E gone : Unsteady(gone) /\ Current(from) \ gone \subseteq Current(from)'
<1>1. CASE Work(d)
  <2>1. PICK c \in ClaimsOf(d) :
          /\ from' = [from EXCEPT ![c] = IF @ = Gone THEN day ELSE Gone]
          /\ Unsteady({c})
    BY <1>1 DEF Work
  <2>2. from \in [Claims -> Int] /\ day \in Int
    BY DaysThere DEF TypeInv
  <2> DEFINE t == IF from[c] = Gone THEN day ELSE Gone
  <2>3. t \in Int
    BY <2>2 DEF Gone
  <2>4. from' = [from EXCEPT ![c] = t]
    BY <2>1
  <2> HIDE DEF t
  <2>5. from' \in [Claims -> Int] /\ Current(from) \ {c} \subseteq Current(from)'
    BY <2>2, <2>3, <2>4 DEF Current
  <2>6. updated' \in [Docs -> Int]
    BY <1>1 DEF Work, TypeInv
  <2> QED
    BY <2>1, <2>5, <2>6
<1>2. CASE Forget(d)
  <2>1. from' \in [Claims -> Int] /\ updated' \in [Docs -> Int]
    BY <1>2 DEF Forget, TypeInv, Gone
  <2>2. Current(from) \ (ClaimsOf(d) \cup {d}) \subseteq Current(from)'
    BY <1>2 DEF Forget, TypeInv, Current, ClaimsOf
  <2> QED
    BY <1>2, <2>1, <2>2 DEF Forget
<1> QED
  BY <1>1, <1>2

\* What a step does to the processes and the ledger.
LEMMA Steps ==
  ASSUME TypeInv, Next
  PROVE  \/ /\ UNCHANGED ledger
            /\ \/ \E p \in Processes : Moves(p) \/ QueryWindow(p) \/ QueryReserved(p)
               \/ UNCHANGED process
               \/ process' = [p \in Processes |-> Idle]
         \/ \E d \in Docs : Work(d) \/ Forget(d)
<1>1. ASSUME NEW p \in Processes, Advance(p) \/ Fail(p)
      PROVE  UNCHANGED ledger /\ (Moves(p) \/ QueryWindow(p) \/ QueryReserved(p))
  <2>1. UNCHANGED ledger
    BY <1>1 DEF Advance, Fail, Look, QueryWindow, QueryReserved, QueryDocs, QueryClaims,
               QueryStalled, Answered
  <2>2. Moves(p) \/ QueryWindow(p) \/ QueryReserved(p)
    BY <1>1, QueriesStand DEF Advance, Moves
  <2> QED
    BY <2>1, <2>2
<1>2. ASSUME NEW c \in Clients, Request(c) \/ Respond(c)
      PROVE  UNCHANGED ledger /\ Moves(c) /\ c \in Processes
  BY <1>2, ClientsMove DEF Request, Respond, Processes
<1>3. ASSUME NEW c \in Clients, NEW task \in DOMAIN Surfaces, NEW project \in Projects \cup {Anywhere},
             Ask(c, task, project) \/ Call(c, task, project)
      PROVE  UNCHANGED ledger /\ Moves(c) /\ c \in Processes
  <2>1. Enter(c, task, project)
    BY <1>3 DEF Ask, Call
  <2> QED
    BY <2>1, ClientsMove DEF Enter, Processes
<1>4. ASSUME Strike \/ Create \/ Write
      PROVE  UNCHANGED ledger /\ (Moves(Scheduler) \/ UNCHANGED process) /\ Scheduler \in Processes
  BY <1>4, SchedulerMoves DEF Strike, Create, Write, Processes
<1>5. ASSUME NextDay \/ ClockBack \/ Crash
      PROVE  UNCHANGED ledger /\ (UNCHANGED process \/ process' = [p \in Processes |-> Idle])
  BY <1>5 DEF NextDay, ClockBack, Crash
<1> QED
  BY <1>1, <1>2, <1>3, <1>4, <1>5 DEF Next

\* The day and what has been taken up on it.
LEMMA DaysTyped ==
  ASSUME TypeInv, Next
  PROVE  day' \in 1..MaxDay /\ struck' \in BOOLEAN /\ tried' \in 0..MaxDay
<1>1. MaxDay \in Nat \ {0}
  BY DaysThere
<1>2. ASSUME NEW p \in Processes, Advance(p) \/ Fail(p)
      PROVE  UNCHANGED <<day, struck>> /\ tried' \in {tried, day}
  BY <1>2 DEF Advance, Fail, Look, QueryWindow, QueryReserved, QueryDocs, QueryClaims,
             QueryStalled, Answered
<1>3. ASSUME NEW c \in Clients, Request(c) \/ Respond(c)
      PROVE  UNCHANGED <<day, struck, tried>>
  BY <1>3 DEF Request, Respond
<1>4. ASSUME NEW c \in Clients, NEW task \in DOMAIN Surfaces, NEW project \in Projects \cup {Anywhere},
             Ask(c, task, project) \/ Call(c, task, project)
      PROVE  UNCHANGED <<day, struck, tried>>
  BY <1>4 DEF Ask, Call, Enter
<1>5. ASSUME NEW d \in Docs, Work(d) \/ Forget(d)
      PROVE  UNCHANGED <<day, struck, tried>>
  BY <1>5 DEF Work, Forget
<1>6. ASSUME Strike \/ Create \/ Write \/ NextDay \/ ClockBack \/ Crash
      PROVE  day' \in 1..MaxDay /\ struck' \in BOOLEAN /\ tried' = tried
  <2>1. day \in 1..MaxDay /\ struck \in BOOLEAN
    BY DEF TypeInv
  <2>2. CASE NextDay
    <3>1. day < MaxDay /\ day' = day + 1 /\ tried' = tried
      BY <2>2 DEF NextDay
    <3>2. struck' = FALSE
      BY <2>2 DEF NextDay
    <3>3. struck' \in BOOLEAN
      BY <3>2
    <3> QED
      BY <1>1, <2>1, <3>1, <3>3
  <2>3. CASE Strike
    BY <2>1, <2>3 DEF Strike
  <2>4. CASE ClockBack
    BY <2>1, <2>4 DEF ClockBack
  <2>5. CASE Create \/ Write \/ Crash
    BY <2>1, <2>5 DEF Create, Write, Crash
  <2> QED
    BY <1>6, <2>2, <2>3, <2>4, <2>5
<1> QED
  BY <1>1, <1>2, <1>3, <1>4, <1>5, <1>6 DEF Next, TypeInv

\* Where one process goes.
LEMMA OneGoes ==
  ASSUME TypeInv, NEW p \in Processes, NEW now, Goes(p, now)
  PROVE  /\ DOMAIN process' = Processes
         /\ process'[p] = now
         /\ \A q \in Processes : q # p => process'[q] = process[q]
BY DEF TypeInv, Goes

\* A step leaves the records of the processes typed.
LEMMA ProcessesTyped ==
  ASSUME TypeInv, Next
  PROVE  /\ updated' \in [Docs -> Int] /\ from' \in [Claims -> Int]
         /\ DOMAIN process' = Processes
         /\ \A p \in Processes : Stands(p, process'[p])
<1>1. ASSUME NEW p \in Processes, NEW now, Goes(p, now), Stands(p, now)
      PROVE  DOMAIN process' = Processes /\ \A q \in Processes : Stands(q, process'[q])
  BY <1>1, OneGoes DEF TypeInv
<1>2. ASSUME UNCHANGED ledger
      PROVE  updated' \in [Docs -> Int] /\ from' \in [Claims -> Int]
  BY <1>2 DEF ledger, TypeInv
<1>3. CASE \E p \in Processes : UNCHANGED ledger /\ (Moves(p) \/ QueryWindow(p) \/ QueryReserved(p))
  BY <1>1, <1>2, <1>3, WindowStands, ReservedStands DEF Moves
<1>4. CASE UNCHANGED ledger /\ UNCHANGED process
  BY <1>2, <1>4 DEF TypeInv
<1>5. CASE UNCHANGED ledger /\ process' = [p \in Processes |-> Idle]
  BY <1>2, <1>5, IdleStands
<1>6. ASSUME NEW d \in Docs, Work(d) \/ Forget(d)
      PROVE  /\ updated' \in [Docs -> Int] /\ from' \in [Claims -> Int]
             /\ DOMAIN process' = Processes
             /\ \A p \in Processes : Stands(p, process'[p])
  <2>1. PICK gone : Unsteady(gone)
    BY <1>6, WorkUnsteadies
  <2>2. ASSUME NEW p \in Processes
        PROVE  Stands(p, [process[p] EXCEPT !.steady = @ \ gone])
    <3>1. Stands(p, process[p])
      BY DEF TypeInv
    <3> QED
      BY <3>1 DEF Stands, Fields
  <2> QED
    BY <1>6, <2>1, <2>2, WorkUnsteadies DEF Unsteady
<1> QED
  BY <1>3, <1>4, <1>5, <1>6, Steps

\* TypeInv is an invariant.
LEMMA TypeInvariant == Spec => []TypeInv
<1>1. Init => TypeInv
  <2> SUFFICES ASSUME Init PROVE TypeInv
    OBVIOUS
  <2>1. MaxDay \in Nat \ {0} /\ Ages \subseteq [docs: [Docs -> Int], claims: [Claims -> Int]]
    BY BriefAssumption
  <2>2. PICK age \in Ages : /\ updated = [d \in Docs |-> 1 - age.docs[d]]
                            /\ from = [c \in Claims |-> 1 - age.claims[c]]
    BY DEF Init
  <2>3. age \in [docs: [Docs -> Int], claims: [Claims -> Int]]
    BY <2>1
  <2>4. age.docs \in [Docs -> Int] /\ age.claims \in [Claims -> Int]
    BY <2>3
  <2>5. updated \in [Docs -> Int] /\ from \in [Claims -> Int]
    BY <2>2, <2>4
  <2>6. day = 1 /\ tried = 0 /\ struck = FALSE
    BY DEF Init
  <2>7. struck \in BOOLEAN
    BY <2>6
  <2>8. day \in 1..MaxDay /\ struck \in BOOLEAN /\ tried \in 0..MaxDay
    BY <2>1, <2>6, <2>7
  <2>9. DOMAIN process = Processes /\ \A p \in Processes : Stands(p, process[p])
    BY IdleStands DEF Init
  <2> QED
    BY <2>5, <2>8, <2>9 DEF TypeInv
<1>2. TypeInv /\ [Next]_vars => TypeInv'
  <2> SUFFICES ASSUME TypeInv, [Next]_vars PROVE TypeInv'
    OBVIOUS
  <2>1. CASE Next
    <3>1. day' \in 1..MaxDay /\ struck' \in BOOLEAN /\ tried' \in 0..MaxDay
      BY <2>1, DaysTyped
    <3> QED
      BY <2>1, <3>1, ProcessesTyped DEF TypeInv
  <2>2. CASE UNCHANGED vars
    BY <2>2 DEF vars, ledger, TypeInv
  <2> QED
    BY <2>1, <2>2
<1> QED
  BY <1>1, <1>2, PTL DEF Spec

\* Every variable has its type: a window is one of those that are tried, what is
\* found is of the ledger, and only the scheduler writes, or is dead.
THEOREM BriefsTyped == Spec => []TypeOK
<1>1. TypeInv => TypeOK
  BY DEF TypeInv, TypeOK, Stands
<1> QED
  BY <1>1, TypeInvariant, PTL

-------------------------------------------------------------------------------
(* Sections *)

\* A query returns all the rows that there are, or as many as its limit.
LEMMA RowsReturned ==
  ASSUME NEW rows, IsFiniteSet(rows), NEW k \in Nat, NEW key, NEW top \in Tops(rows, k, key)
  PROVE  /\ top \subseteq rows /\ IsFiniteSet(top)
         /\ Cardinality(top) = IF k < Cardinality(rows) THEN k ELSE Cardinality(rows)
         /\ Cardinality(top) \in Nat /\ Cardinality(top) <= k
<1>1. top \subseteq rows /\ Cardinality(top) = IF k < Cardinality(rows) THEN k ELSE Cardinality(rows)
  BY DEF Tops, kSubset
<1>2. IsFiniteSet(top)
  BY <1>1, FS_Subset
<1>3. Cardinality(rows) \in Nat /\ Cardinality(top) \in Nat
  BY <1>2, FS_CardinalityType
<1> QED
  BY <1>1, <1>2, <1>3

\* The claims of a section.
OfSection(k, claims) == {c \in claims : KindOf[c] = Reserve[k][1] /\ DocOf[c] \notin Aside}

\* There are finitely many claims.
LEMMA ClaimsFinite == IsFiniteSet(Claims) /\ \A rows \in SUBSET Claims : IsFiniteSet(rows)
BY LedgerAssumption, FS_Subset

\* What is reserved for a section is a number of rows.
LEMMA ReserveThere ==
  ASSUME NEW k \in 1..Len(Reserve)
  PROVE  Len(Reserve) \in Nat /\ Reserve[k][2] \in Nat
<1>1. Reserve \in Seq(STRING \X Nat)
  BY LedgerAssumption
<1> QED
  BY <1>1

\* A section that is fed stays so with more rows, and when less is steady.
LEMMA FedStays ==
  ASSUME NEW more \in SUBSET Claims, NEW rows \in SUBSET more, NEW steady \in SUBSET Claims,
         NEW less \in SUBSET steady, NEW k \in 1..Len(Reserve), SectionFed(rows, k, steady)
  PROVE  SectionFed(more, k, less)
<1>1. /\ OfSection(k, rows) \subseteq OfSection(k, more)
      /\ OfSection(k, less) \subseteq OfSection(k, steady)
      /\ OfSection(k, more) \in SUBSET Claims /\ OfSection(k, steady) \in SUBSET Claims
  BY DEF OfSection
<1>2. IsFiniteSet(OfSection(k, more)) /\ IsFiniteSet(OfSection(k, steady))
  BY <1>1, ClaimsFinite
<1>3. /\ Cardinality(OfSection(k, rows)) <= Cardinality(OfSection(k, more))
      /\ Cardinality(OfSection(k, less)) <= Cardinality(OfSection(k, steady))
      /\ IsFiniteSet(OfSection(k, rows)) /\ IsFiniteSet(OfSection(k, less))
  BY <1>1, <1>2, FS_Subset
<1>4. /\ Cardinality(OfSection(k, rows)) \in Nat /\ Cardinality(OfSection(k, more)) \in Nat
      /\ Cardinality(OfSection(k, less)) \in Nat /\ Cardinality(OfSection(k, steady)) \in Nat
  BY <1>2, <1>3, FS_CardinalityType
<1>5. Reserve[k][2] \in Nat
  BY ReserveThere
<1>6. Cardinality(OfSection(k, rows)) >=
        IF Cardinality(OfSection(k, steady)) < Reserve[k][2]
          THEN Cardinality(OfSection(k, steady)) ELSE Reserve[k][2]
  BY DEF SectionFed, OfSection
<1>7. Cardinality(OfSection(k, more)) >=
        IF Cardinality(OfSection(k, less)) < Reserve[k][2]
          THEN Cardinality(OfSection(k, less)) ELSE Reserve[k][2]
  BY <1>3, <1>4, <1>5, <1>6
<1> QED
  BY <1>7 DEF SectionFed, OfSection

\* A query for the claims of a section feeds it, and takes no more than its
\* reserve.
LEMMA QueryFeeds ==
  ASSUME TypeInv, NEW k \in 1..Len(Reserve), NEW rows \in SUBSET Claims,
         NEW found \in ReservedClaims(from, k, rows), NEW steady \in SUBSET Current(from)
  PROVE  /\ SectionFed(rows \cup found, k, steady)
         /\ found \subseteq Claims /\ Cardinality(found) <= Reserve[k][2]
<1> DEFINE all == {c \in Current(from) : KindOf[c] \in {Reserve[k][1]} /\ Admitted(DocOf[c], Anywhere, {})}
<1>1. Reserve[k][2] \in Nat /\ Len(Reserve) \in Nat
  BY ReserveThere
<1>2. found \in Tops(all, Reserve[k][2], from)
  BY <1>1 DEF ReservedClaims, RecentClaims
<1>3. all = OfSection(k, Current(from)) /\ all \in SUBSET Claims
  BY DEF OfSection, Admitted, Current
<1> HIDE DEF all
<1>4. IsFiniteSet(all)
  BY <1>3, ClaimsFinite
<1>5. /\ found \subseteq all /\ IsFiniteSet(found) /\ Cardinality(found) \in Nat
      /\ Cardinality(found) = IF Reserve[k][2] < Cardinality(all) THEN Reserve[k][2] ELSE Cardinality(all)
      /\ Cardinality(found) <= Reserve[k][2]
  BY <1>1, <1>2, <1>4, RowsReturned
<1>6. OfSection(k, steady) \subseteq all /\ found \subseteq OfSection(k, rows \cup found)
  BY <1>3, <1>5 DEF OfSection
<1>7. OfSection(k, rows \cup found) \in SUBSET Claims
  BY <1>3, <1>5 DEF OfSection
<1>8. IsFiniteSet(OfSection(k, rows \cup found)) /\ IsFiniteSet(OfSection(k, steady))
  BY <1>4, <1>6, <1>7, ClaimsFinite, FS_Subset
<1>9. /\ Cardinality(OfSection(k, steady)) <= Cardinality(all)
      /\ Cardinality(found) <= Cardinality(OfSection(k, rows \cup found))
  BY <1>4, <1>6, <1>8, FS_Subset
<1>10. /\ Cardinality(OfSection(k, steady)) \in Nat /\ Cardinality(all) \in Nat
       /\ Cardinality(OfSection(k, rows \cup found)) \in Nat
  BY <1>4, <1>8, FS_CardinalityType
<1>11. Cardinality(OfSection(k, rows \cup found)) >=
         IF Cardinality(OfSection(k, steady)) < Reserve[k][2]
           THEN Cardinality(OfSection(k, steady)) ELSE Reserve[k][2]
  BY <1>1, <1>5, <1>9, <1>10
<1>12. SectionFed(rows \cup found, k, steady)
  BY <1>11 DEF SectionFed, OfSection
<1> QED
  BY <1>3, <1>5, <1>12

\* No more rows than those that there were and those that are new.
LEMMA RowsAdd ==
  ASSUME NEW rows \in SUBSET Claims, NEW found \in SUBSET Claims, NEW m \in Nat,
         Cardinality(found) <= m
  PROVE  /\ Cardinality(rows) \in Nat /\ Cardinality(rows \cup found) \in Nat
         /\ Cardinality(rows \cup found) <= Cardinality(rows) + m
<1>1. IsFiniteSet(rows) /\ IsFiniteSet(found) /\ IsFiniteSet(rows \cap found)
  BY ClaimsFinite
<1>2. /\ Cardinality(rows \cup found) = Cardinality(rows) + Cardinality(found) - Cardinality(rows \cap found)
      /\ IsFiniteSet(rows \cup found)
  BY <1>1, FS_Union
<1>3. /\ Cardinality(rows) \in Nat /\ Cardinality(found) \in Nat
      /\ Cardinality(rows \cap found) \in Nat /\ Cardinality(rows \cup found) \in Nat
  BY <1>1, <1>2, FS_CardinalityType
<1> QED
  BY <1>2, <1>3

\* The facts fill what is left of the budget.
LEMMA FactsFill ==
  ASSUME TypeInv, NEW rows \in SUBSET Claims, Cardinality(rows) <= Budget,
         NEW found \in ReservedClaims(from, Len(Reserve) + 1, rows)
  PROVE  found \subseteq Claims /\ Cardinality(rows \cup found) <= Budget
<1>1. Len(Reserve) \in Nat /\ Budget \in Nat
  <2>1. Reserve \in Seq(STRING \X Nat) /\ Budget \in Nat
    BY LedgerAssumption
  <2> QED
    BY <2>1
<1>2. Cardinality(rows) \in Nat
  BY ClaimsFinite, FS_CardinalityType
<1>3. CASE Budget > Cardinality(rows)
  <2> DEFINE all == {c \in Current(from) : KindOf[c] \in {"fact"} /\ Admitted(DocOf[c], Anywhere, {})}
  <2>1. found \in Tops(all, Budget - Cardinality(rows), from)
    BY <1>1, <1>3 DEF ReservedClaims, RecentClaims
  <2>2. all \in SUBSET Claims
    BY DEF Current
  <2> HIDE DEF all
  <2>3. IsFiniteSet(all)
    BY <2>2, ClaimsFinite
  <2>4. Budget - Cardinality(rows) \in Nat
    BY <1>1, <1>2, <1>3
  <2>5. found \subseteq all /\ Cardinality(found) <= Budget - Cardinality(rows)
    BY <2>1, <2>3, <2>4, RowsReturned
  <2>6. found \in SUBSET Claims
    BY <2>2, <2>5
  <2>7. /\ Cardinality(rows \cup found) \in Nat
        /\ Cardinality(rows \cup found) <= Cardinality(rows) + (Budget - Cardinality(rows))
    BY <2>4, <2>5, <2>6, RowsAdd
  <2> QED
    BY <1>1, <1>2, <2>6, <2>7
<1>4. CASE ~(Budget > Cardinality(rows))
  <2>1. found = {}
    BY <1>1, <1>4 DEF ReservedClaims
  <2>2. rows \cup found = rows
    BY <2>1
  <2> QED
    BY <2>1, <2>2
<1> QED
  BY <1>3, <1>4

\* sum[k]: the rows that are reserved for the first k sections.
Sums(sum) ==
  /\ sum \in [0..Len(Reserve) -> Nat] /\ sum[0] = 0
  /\ \A k \in 1..Len(Reserve) : sum[k] = sum[k - 1] + Reserve[k][2]
  /\ sum[Len(Reserve)] <= Budget

\* The first n sections are fed.
FirstFed(n, rows, steady) == \A k \in 1..n : SectionFed(rows, k, steady)

\* Where a process stands in the queries for the claims of the morning briefing:
\* the sections it has queried for are fed, from no more rows than theirs.
Feeds(sum, facts, now) ==
  /\ now.pc = "windows" => now.query = 1 /\ now.rows = {}
  /\ now.pc = "reserved" =>
       /\ now.query \in 1..(Len(Reserve) + 1) /\ now.steady \subseteq facts
       /\ FirstFed(now.query - 1, now.rows, now.steady)
       /\ Cardinality(now.rows) <= sum[now.query - 1]
  /\ now.pc = "stalled" /\ now.task = "brief" =>
       /\ now.steady \subseteq Claims
       /\ FirstFed(Len(Reserve), now.rows, now.steady)
       /\ Cardinality(now.rows) <= Budget

FeedInv(sum) == \A p \in Processes : Feeds(sum, Current(from), process[p])

\* A process that does not query for the briefing, or is about to.
LEMMA ElsewhereFeeds ==
  ASSUME NEW sum, NEW facts, NEW now, Elsewhere(now) \/ now = [Idle EXCEPT !.pc = "windows"]
  PROVE  Feeds(sum, facts, now)
BY DEF Elsewhere, Feeds, Idle

\* Another window, or enough documents: the queries for claims begin.
LEMMA WindowFeeds ==
  ASSUME NEW sum, Sums(sum), NEW p, Stands(p, process[p]), process[p].pc = "windows",
         Feeds(sum, Current(from), process[p])
  PROVE  /\ Feeds(sum, Current(from), [process[p] EXCEPT !.window = @ + 1])
         /\ Feeds(sum, Current(from), [process[p] EXCEPT !.pc = "reserved", !.steady = Current(from)])
<1>1. process[p].query = 1 /\ process[p].rows = {}
  BY DEF Feeds
<1>2. Cardinality({}) = 0
  BY FS_EmptySet
<1>3. Len(Reserve) \in Nat
  <2>1. Reserve \in Seq(STRING \X Nat)
    BY LedgerAssumption
  <2> QED
    BY <2>1
<1>4. Feeds(sum, Current(from), [process[p] EXCEPT !.window = @ + 1])
  BY <1>1 DEF Stands, Fields, Feeds
<1>5. Feeds(sum, Current(from), [process[p] EXCEPT !.pc = "reserved", !.steady = Current(from)])
  <2> DEFINE now == [process[p] EXCEPT !.pc = "reserved", !.steady = Current(from)]
  <2>1. now.pc = "reserved" /\ now.query = 1 /\ now.rows = {} /\ now.steady = Current(from)
    BY <1>1 DEF Stands, Fields
  <2> HIDE DEF now
  <2>2. now.query \in 1..(Len(Reserve) + 1) /\ Cardinality(now.rows) <= sum[now.query - 1]
    BY <1>2, <1>3, <2>1 DEF Sums
  <2>3. FirstFed(now.query - 1, now.rows, now.steady)
    BY <2>1 DEF FirstFed
  <2>4. Feeds(sum, Current(from), now)
    BY <2>1, <2>2, <2>3 DEF Feeds
  <2> QED
    BY <2>4 DEF now
<1> QED
  BY <1>4, <1>5

\* One query for claims more.
LEMMA ReservedFeeds ==
  ASSUME TypeInv, NEW sum, Sums(sum), NEW p, Stands(p, process[p]), process[p].pc = "reserved",
         Feeds(sum, Current(from), process[p]),
         NEW found \in ReservedClaims(from, process[p].query, process[p].rows)
  PROVE  Feeds(sum, Current(from), AfterReserved(process[p], found))
<1> DEFINE k == process[p].query
           rows == process[p].rows
           steady == process[p].steady
           now == AfterReserved(process[p], found)
<1>1. /\ k \in 1..(Len(Reserve) + 1) /\ steady \subseteq Current(from) /\ rows \in SUBSET Claims
      /\ FirstFed(k - 1, rows, steady)
      /\ Cardinality(rows) <= sum[k - 1]
  BY DEF Feeds, Stands
<1>2. Len(Reserve) \in Nat /\ Budget \in Nat
  <2>1. Reserve \in Seq(STRING \X Nat) /\ Budget \in Nat
    BY LedgerAssumption
  <2> QED
    BY <2>1
<1>3. now.query = k + 1 /\ now.rows = rows \cup found /\ now.steady = steady
      /\ now.pc = (IF k <= Len(Reserve) THEN "reserved" ELSE "stalled")
  BY DEF Stands, Fields, AfterReserved
<1>4. steady \in SUBSET Claims
  BY <1>1 DEF Current
<1>5. Cardinality(rows) \in Nat
  BY <1>1, ClaimsFinite, FS_CardinalityType
<1> HIDE DEF k, rows, steady, now
<1>6. found \in ReservedClaims(from, k, rows)
  BY DEF k, rows
<1>7. ASSUME k <= Len(Reserve) PROVE Feeds(sum, Current(from), now)
  <2>1. k \in 1..Len(Reserve) /\ k - 1 \in 0..Len(Reserve) /\ Reserve[k][2] \in Nat
    BY <1>1, <1>2, <1>7, ReserveThere
  <2>2. /\ SectionFed(rows \cup found, k, steady)
        /\ found \in SUBSET Claims /\ Cardinality(found) <= Reserve[k][2]
    BY <1>1, <1>6, <2>1, QueryFeeds
  <2>3. \A i \in 1..(k - 1) : SectionFed(rows \cup found, i, steady)
    <3> TAKE i \in 1..(k - 1)
    <3>1. i \in 1..Len(Reserve)
      BY <1>2, <2>1
    <3>2. SectionFed(rows, i, steady)
      BY <1>1 DEF FirstFed
    <3> QED
      BY <1>1, <1>4, <2>2, <3>1, <3>2, FedStays
  <2>4. FirstFed(k, rows \cup found, steady)
    <3> SUFFICES ASSUME NEW i \in 1..k PROVE SectionFed(rows \cup found, i, steady)
      BY DEF FirstFed
    <3>1. i = k \/ i \in 1..(k - 1)
      BY <1>2, <2>1
    <3> QED
      BY <2>2, <2>3, <3>1
  <2>5. /\ Cardinality(rows \cup found) \in Nat
        /\ Cardinality(rows \cup found) <= Cardinality(rows) + Reserve[k][2]
    BY <1>1, <2>1, <2>2, RowsAdd
  <2>6. sum[k] = sum[k - 1] + Reserve[k][2] /\ sum[k - 1] \in Nat
    BY <2>1 DEF Sums
  <2>7. Cardinality(rows \cup found) <= sum[k]
    BY <1>1, <1>5, <2>1, <2>5, <2>6
  <2>8. now.query - 1 = k /\ now.query \in 1..(Len(Reserve) + 1) /\ now.pc = "reserved"
    BY <1>2, <1>3, <1>7, <2>1
  <2> QED
    BY <1>1, <1>3, <2>4, <2>7, <2>8 DEF Feeds
<1>8. ASSUME ~(k <= Len(Reserve)) PROVE Feeds(sum, Current(from), now)
  <2>1. k = Len(Reserve) + 1 /\ now.pc = "stalled"
    BY <1>1, <1>2, <1>3, <1>8
  <2>2. Cardinality(rows) <= Budget
    BY <1>1, <1>2, <1>5, <2>1 DEF Sums
  <2>3. found \in SUBSET Claims /\ Cardinality(rows \cup found) <= Budget
    BY <1>1, <1>6, <2>1, <2>2, FactsFill
  <2>4. FirstFed(Len(Reserve), rows \cup found, steady)
    <3> SUFFICES ASSUME NEW i \in 1..Len(Reserve) PROVE SectionFed(rows \cup found, i, steady)
      BY DEF FirstFed
    <3>1. SectionFed(rows, i, steady)
      BY <1>1, <1>2, <2>1 DEF FirstFed
    <3> QED
      BY <1>1, <1>4, <2>3, <3>1, FedStays
  <2> QED
    BY <1>3, <1>4, <2>1, <2>3, <2>4 DEF Feeds
<1>9. Feeds(sum, Current(from), now)
  BY <1>7, <1>8
<1> QED
  BY <1>9 DEF now

\* What a section was fed is not taken away by work.
LEMMA UnsteadyFeeds ==
  ASSUME NEW sum, NEW p, NEW now, Stands(p, now), NEW facts \in SUBSET Claims, NEW later, NEW gone,
         Feeds(sum, facts, now), facts \ gone \subseteq later
  PROVE  Feeds(sum, later, [now EXCEPT !.steady = @ \ gone])
<1> DEFINE after == [now EXCEPT !.steady = @ \ gone]
<1>1. /\ after.pc = now.pc /\ after.query = now.query /\ after.task = now.task
      /\ after.rows = now.rows /\ after.steady = now.steady \ gone
  BY DEF Stands, Fields
<1> HIDE DEF after
<1>2. now.rows \in SUBSET Claims
  BY DEF Stands
<1>3. CASE now.pc = "windows"
  BY <1>1, <1>3 DEF Feeds
<1>4. CASE now.pc = "reserved"
  <2>1. /\ now.query \in 1..(Len(Reserve) + 1) /\ now.steady \in SUBSET facts
        /\ FirstFed(now.query - 1, now.rows, now.steady)
        /\ Cardinality(now.rows) <= sum[now.query - 1]
    BY <1>4 DEF Feeds
  <2>2. Len(Reserve) \in Nat
    <3>1. Reserve \in Seq(STRING \X Nat)
      BY LedgerAssumption
    <3> QED
      BY <3>1
  <2>3. FirstFed(now.query - 1, now.rows, now.steady \ gone)
    <3> SUFFICES ASSUME NEW k \in 1..(now.query - 1) PROVE SectionFed(now.rows, k, now.steady \ gone)
      BY DEF FirstFed
    <3>1. k \in 1..Len(Reserve) /\ SectionFed(now.rows, k, now.steady)
      BY <2>1, <2>2 DEF FirstFed
    <3>2. now.steady \in SUBSET Claims /\ now.steady \ gone \in SUBSET now.steady
      BY <2>1
    <3> QED
      BY <1>2, <3>1, <3>2, FedStays
  <2>4. now.steady \ gone \subseteq later
    BY <2>1
  <2> QED
    BY <1>1, <1>4, <2>1, <2>3, <2>4 DEF Feeds
<1>5. CASE now.pc = "stalled" /\ now.task = "brief"
  <2>1. /\ now.steady \in SUBSET Claims
        /\ FirstFed(Len(Reserve), now.rows, now.steady)
        /\ Cardinality(now.rows) <= Budget
    BY <1>5 DEF Feeds
  <2>2. FirstFed(Len(Reserve), now.rows, now.steady \ gone)
    <3> SUFFICES ASSUME NEW k \in 1..Len(Reserve) PROVE SectionFed(now.rows, k, now.steady \ gone)
      BY DEF FirstFed
    <3>1. now.steady \ gone \in SUBSET now.steady /\ SectionFed(now.rows, k, now.steady)
      BY <2>1 DEF FirstFed
    <3> QED
      BY <1>2, <2>1, <3>1, FedStays
  <2> QED
    BY <1>1, <1>5, <2>1, <2>2 DEF Feeds
<1>6. CASE now.pc \notin {"windows", "reserved"} /\ ~(now.pc = "stalled" /\ now.task = "brief")
  BY <1>1, <1>6 DEF Feeds
<1> QED
  BY <1>3, <1>4, <1>5, <1>6 DEF after

\* A step leaves the sections fed.
LEMMA StepFeeds ==
  ASSUME TypeInv, NEW sum, Sums(sum), FeedInv(sum), Next
  PROVE  \A p \in Processes : Feeds(sum, Current(from'), process'[p])
<1>1. ASSUME NEW p \in Processes, NEW now, Goes(p, now), Feeds(sum, Current(from), now), from' = from
      PROVE  \A q \in Processes : Feeds(sum, Current(from'), process'[q])
  <2> TAKE q \in Processes
  <2>1. process'[q] = now \/ process'[q] = process[q]
    BY <1>1, OneGoes
  <2> QED
    BY <1>1, <2>1 DEF FeedInv
<1>2. ASSUME NEW p \in Processes, UNCHANGED ledger, Moves(p) \/ QueryWindow(p) \/ QueryReserved(p)
      PROVE  \A q \in Processes : Feeds(sum, Current(from'), process'[q])
  <2>1. from' = from
    BY <1>2 DEF ledger
  <2>2. Stands(p, process[p]) /\ Feeds(sum, Current(from), process[p])
    BY DEF TypeInv, FeedInv
  <2>3. CASE Moves(p)
    BY <1>1, <2>1, <2>3, ElsewhereFeeds DEF Moves
  <2>4. CASE QueryWindow(p)
    <3>1. process[p].pc = "windows"
      BY <2>4 DEF QueryWindow
    <3> DEFINE wider == [process[p] EXCEPT !.window = @ + 1]
               enough == [process[p] EXCEPT !.pc = "reserved", !.steady = Current(from)]
    <3>2. PICK now : Goes(p, now) /\ (Elsewhere(now) \/ now = wider \/ now = enough)
      BY <2>4, WindowStands
    <3>3. Feeds(sum, Current(from), wider) /\ Feeds(sum, Current(from), enough)
      BY <2>2, <3>1, WindowFeeds
    <3> HIDE DEF wider, enough
    <3>4. Feeds(sum, Current(from), now)
      BY <3>2, <3>3, ElsewhereFeeds
    <3> QED
      BY <1>1, <2>1, <3>2, <3>4
  <2>5. CASE QueryReserved(p)
    <3>1. process[p].pc = "reserved"
      BY <2>5 DEF QueryReserved
    <3>2. PICK rows \in ReservedClaims(from, process[p].query, process[p].rows) :
            Goes(p, AfterReserved(process[p], rows))
      BY <2>5, ReservedStands
    <3>3. Feeds(sum, Current(from), AfterReserved(process[p], rows))
      BY <2>2, <3>1, ReservedFeeds
    <3> QED
      BY <1>1, <2>1, <3>2, <3>3
  <2> QED
    BY <1>2, <2>3, <2>4, <2>5
<1>3. CASE UNCHANGED ledger /\ UNCHANGED process
  BY <1>3 DEF ledger, FeedInv
<1>4. CASE UNCHANGED ledger /\ process' = [p \in Processes |-> Idle]
  BY <1>4, IdleStands, ElsewhereFeeds
<1>5. ASSUME NEW d \in Docs, Work(d) \/ Forget(d)
      PROVE  \A p \in Processes : Feeds(sum, Current(from'), process'[p])
  <2>1. PICK gone : Unsteady(gone) /\ Current(from) \ gone \subseteq Current(from)'
    BY <1>5, WorkUnsteadies
  <2> TAKE p \in Processes
  <2>2. process'[p] = [process[p] EXCEPT !.steady = @ \ gone]
    BY <2>1 DEF Unsteady
  <2>3. Stands(p, process[p]) /\ Feeds(sum, Current(from), process[p])
    BY DEF TypeInv, FeedInv
  <2>4. Current(from) \in SUBSET Claims /\ Current(from') = Current(from)'
    BY DEF Current
  <2> QED
    BY <2>1, <2>2, <2>3, <2>4, UnsteadyFeeds
<1> QED
  BY <1>2, <1>3, <1>4, <1>5, Steps

\* The prompt of the morning briefing has the claims of each section, as many as
\* are reserved for it, and no more rows than the budget, however many claims
\* there are and whatever is superseded between two queries; the reserves are no
\* more than the budget, as the tests of ask.rs require.
THEOREM EverySectionFed ==
  ASSUME NEW sum, Sums(sum)
  PROVE  Spec => []SectionsFed
<1>1. Init => FeedInv(sum)
  BY IdleStands, ElsewhereFeeds DEF Init, FeedInv
<1>2. TypeInv /\ FeedInv(sum) /\ [Next]_vars => FeedInv(sum)'
  <2> SUFFICES ASSUME TypeInv, FeedInv(sum), [Next]_vars PROVE FeedInv(sum)'
    OBVIOUS
  <2>1. CASE Next
    BY <2>1, StepFeeds DEF FeedInv
  <2>2. CASE UNCHANGED vars
    BY <2>2 DEF vars, ledger, FeedInv
  <2> QED
    BY <2>1, <2>2
<1>3. FeedInv(sum) => SectionsFed
  BY DEF FeedInv, Feeds, FirstFed, SectionsFed
<1> QED
  BY <1>1, <1>2, <1>3, TypeInvariant, PTL DEF Spec

-------------------------------------------------------------------------------
(* Slots *)

\* One claim of each document: as many documents as claims.
LEMMA OneEach ==
  ASSUME NEW shown \in SUBSET Claims,
         \A c, o \in shown : DocOf[c] = DocOf[o] => c = o
  PROVE  Cardinality({DocOf[c] : c \in shown}) = Cardinality(shown)
<1> DEFINE docs == {DocOf[c] : c \in shown}
           f == [c \in shown |-> DocOf[c]]
<1>1. IsFiniteSet(shown)
  BY ClaimsFinite
<1>2. f \in [shown -> docs]
  OBVIOUS
<1>3. \A c, o \in shown : f[c] = f[o] => c = o
  OBVIOUS
<1>4. \A d \in docs : \E c \in shown : f[c] = d
  OBVIOUS
<1>5. f \in Bijection(shown, docs)
  BY <1>2, <1>3, <1>4 DEF Bijection, Injection, Surjection, IsInjective
<1>6. ExistsBijection(shown, docs)
  BY <1>5 DEF ExistsBijection
<1> QED
  BY <1>1, <1>6, FS_Bijection

\* Of the claims the rows of the stalled block are chosen from, there is one of
\* each document.
LEMMA ChosenOnePerDoc ==
  ASSUME NEW facts, NEW stalled \in SUBSET Claims, NEW rows \in OnePerDoc(facts, stalled)
  PROVE  /\ rows \subseteq stalled
         /\ \A c, o \in rows : DocOf[c] = DocOf[o] => c = o
         /\ \A c \in stalled : \E o \in rows : DocOf[o] = DocOf[c]
<1> DEFINE own(d) == {c \in rows : DocOf[c] = d}
<1>1. /\ rows \subseteq stalled
      /\ \A d \in {DocOf[c] : c \in stalled} : Cardinality(own(d)) = 1
  BY DEF OnePerDoc
<1>2. \A d : IsFiniteSet(own(d))
  BY <1>1, ClaimsFinite
<1>3. ASSUME NEW c \in stalled
      PROVE  \E x : own(DocOf[c]) = {x}
  <2>1. Cardinality(own(DocOf[c])) = 1
    BY <1>1
  <2>2. IsFiniteSet(own(DocOf[c]))
    BY <1>2
  <2> HIDE DEF own
  <2> QED
    BY <2>1, <2>2, FS_Singleton
<1>4. ASSUME NEW c \in rows, NEW o \in rows, DocOf[c] = DocOf[o]
      PROVE  c = o
  <2>1. PICK x : own(DocOf[c]) = {x}
    BY <1>1, <1>3
  <2>2. c \in own(DocOf[c]) /\ o \in own(DocOf[c])
    BY <1>4
  <2> QED
    BY <2>1, <2>2
<1>5. ASSUME NEW c \in stalled
      PROVE  \E o \in rows : DocOf[o] = DocOf[c]
  <2>1. PICK x : own(DocOf[c]) = {x}
    BY <1>3
  <2>2. x \in own(DocOf[c])
    BY <2>1
  <2> QED
    BY <2>2
<1> QED
  BY <1>1, <1>4, <1>5

\* The documents of the rows that are returned are all that have stalled, or as
\* many as there are slots.
LEMMA SlotsShared ==
  ASSUME NEW facts, NEW stalled \in SUBSET Claims, NEW key,
         NEW rows \in OnePerDoc(facts, stalled), NEW found \in Tops(rows, Slots, key)
  PROVE  \/ {DocOf[c] : c \in stalled} \subseteq {DocOf[c] : c \in found}
         \/ Cardinality({DocOf[c] : c \in found}) = Slots
<1>1. /\ rows \in SUBSET Claims
      /\ \A c, o \in rows : DocOf[c] = DocOf[o] => c = o
      /\ \A c \in stalled : \E o \in rows : DocOf[o] = DocOf[c]
  BY ChosenOnePerDoc
<1>2. IsFiniteSet(rows)
  BY <1>1, ClaimsFinite
<1>3. Slots \in Nat
  BY LedgerAssumption
<1>4. /\ found \in SUBSET rows
      /\ Cardinality(found) = IF Slots < Cardinality(rows) THEN Slots ELSE Cardinality(rows)
  BY <1>2, <1>3, RowsReturned
<1>5. CASE Slots < Cardinality(rows)
  <2>1. Cardinality({DocOf[c] : c \in found}) = Cardinality(found)
    BY <1>1, <1>4, OneEach
  <2> QED
    BY <1>4, <1>5, <2>1
<1>6. CASE ~(Slots < Cardinality(rows))
  <2>1. found = rows
    BY <1>2, <1>4, <1>6, FS_Subset
  <2> QED
    BY <1>1, <2>1
<1> QED
  BY <1>5, <1>6

\* Only its query for what has stalled takes a process from there to the model.
LEMMA StalledToModel ==
  ASSUME TypeInv, Next, NEW p \in Processes, process[p].pc = "stalled", process'[p].pc = "model"
  PROVE  QueryStalled(p)
<1>1. ASSUME NEW q \in Processes, NEW now, Goes(q, now)
      PROVE  q = p /\ now.pc = "model"
  BY <1>1, OneGoes
<1>2. ASSUME NEW q \in Processes, Advance(q)
      PROVE  QueryStalled(p)
  <2>1. q = p
    BY <1>1, <1>2 DEF Advance, Look, QueryWindow, QueryReserved, QueryDocs, QueryClaims,
               QueryStalled, Answered
  <2> QED
    BY <1>2, <2>1 DEF Advance, Look, QueryWindow, QueryReserved, QueryDocs, QueryClaims, Answered
<1>3. ASSUME NEW q \in Processes, Fail(q)
      PROVE  FALSE
  <2> DEFINE now == IF q = Scheduler THEN Idle ELSE [Idle EXCEPT !.pc = "failed"]
  <2>1. Goes(q, now)
    BY <1>3 DEF Fail
  <2>2. now.pc # "model"
    BY DEF Idle
  <2> HIDE DEF now
  <2> QED
    BY <1>1, <2>1, <2>2
<1>4. ASSUME NEW c \in Clients, Request(c) \/ Respond(c)
      PROVE  FALSE
  BY <1>1, <1>4 DEF Request, Respond, Processes, Idle
<1>5. ASSUME NEW c \in Clients, NEW task \in DOMAIN Surfaces, NEW project \in Projects \cup {Anywhere},
             Ask(c, task, project) \/ Call(c, task, project)
      PROVE  FALSE
  <2>1. process[c].pc = "idle" /\ \E now : Goes(c, now)
    BY <1>5 DEF Ask, Call, Enter
  <2> QED
    BY <1>1, <2>1 DEF Processes
<1>6. ASSUME NEW d \in Docs, Work(d) \/ Forget(d)
      PROVE  FALSE
  <2>1. PICK gone : Unsteady(gone)
    BY <1>6, WorkUnsteadies
  <2>2. "pc" \in DOMAIN process[p]
    BY DEF TypeInv, Stands, Fields
  <2>3. process'[p].pc = process[p].pc
    BY <2>1, <2>2 DEF Unsteady
  <2> QED
    BY <2>3
<1>7. ASSUME Strike \/ Create \/ Write
      PROVE  FALSE
  <2>1. CASE UNCHANGED process
    BY <2>1
  <2>2. CASE \E now : Goes(Scheduler, now) /\ process[Scheduler].pc # "stalled"
    BY <1>1, <2>2 DEF Processes
  <2> QED
    BY <1>7, <2>1, <2>2 DEF Strike, Create, Write
<1>8. ASSUME NextDay \/ ClockBack \/ Crash
      PROVE  FALSE
  BY <1>8 DEF NextDay, ClockBack, Crash, Idle
<1> QED
  BY <1>2, <1>3, <1>4, <1>5, <1>6, <1>7, <1>8 DEF Next

\* No note takes two slots of the stalled block, for any claims: each note with
\* work that has stalled is there, unless as many others are as there are slots.
THEOREM SlotsAreShared == Spec => StalledShareSlots
<1> DEFINE stalled(p) == {c \in Current(from) :
             /\ KindOf[c] \in Open /\ Admitted(DocOf[c], process[p].project, {})
             /\ from[c] < day - Stall /\ from[c] >= day - Horizon}
           notes(p) == {DocOf[c] : c \in stalled(p)}
           shown(p) == {DocOf[c] : c \in process'[p].stalled}
           Shares == \A p \in Processes :
             process[p].pc = "stalled" /\ process'[p].pc = "model"
               => notes(p) \subseteq shown(p) \/ Cardinality(shown(p)) = Slots
<1>1. TypeInv /\ [Next]_vars => [Shares]_vars
  <2> SUFFICES ASSUME TypeInv, Next, NEW p \in Processes,
                      process[p].pc = "stalled", process'[p].pc = "model"
               PROVE  notes(p) \subseteq shown(p) \/ Cardinality(shown(p)) = Slots
    OBVIOUS
  <2>1. QueryStalled(p)
    BY StalledToModel
  <2> DEFINE next(rows) == [process[p] EXCEPT !.pc = "model", !.stalled = rows]
             empty(rows) == process[p].task = "stalled" /\ rows = {}
  <2>2. PICK rows \in StalledClaims(from, day, Slots, process[p].project, Open, {}, Stall) :
          Goes(p, Unless(empty(rows), next(rows)))
    BY <2>1 DEF QueryStalled
  <2>3. process'[p] = Unless(empty(rows), next(rows))
    BY <2>2, OneGoes
  <2>4. process'[p] = next(rows)
    BY <2>3 DEF Unless, Idle
  <2>5. process'[p].stalled = rows
    <3>1. "stalled" \in DOMAIN process[p]
      BY DEF TypeInv, Stands, Fields
    <3> QED
      BY <2>4, <3>1
  <2> HIDE DEF next, empty
  <2>6. stalled(p) \in SUBSET Claims
    BY DEF Current
  <2>7. PICK chosen \in OnePerDoc(from, stalled(p)) : rows \in Tops(chosen, Slots, Negated(from))
    <3>1. stalled(p) = {c \in Current(from) :
            /\ from[c] < day - Stall /\ from[c] >= day - Horizon
            /\ KindOf[c] \in Open /\ Admitted(DocOf[c], process[p].project, {})}
      OBVIOUS
    <3> HIDE DEF stalled
    <3> QED
      BY <2>2, <3>1 DEF StalledClaims
  <2> HIDE DEF stalled
  <2>8. \/ {DocOf[c] : c \in stalled(p)} \subseteq {DocOf[c] : c \in rows}
        \/ Cardinality({DocOf[c] : c \in rows}) = Slots
    BY <2>6, <2>7, SlotsShared
  <2> QED
    BY <2>5, <2>8
<1> QED
  BY <1>1, TypeInvariant, PTL DEF Spec, StalledShareSlots

-------------------------------------------------------------------------------
(* Notices *)

\* What the code's constants say of limits and windows, and its briefings of
\* their names; no answer of the model is the notice.
Limited ==
  /\ DocLimit # 0 /\ RowLimit # 0 /\ Slots # 0
  /\ \A w \in 1..Len(Windows) : Windows[w][2] # 0
  /\ Tagged \subseteq Aside
  /\ \A said \in Answers : Coalesce(said) # Notice

\* Where a process stands in a report: it has no text yet; what is steady of the
\* claims is current, and what is steady of the documents is not the project's if
\* the query for them found none.
Honest(facts, now) ==
  /\ now.pc = "docs" => now.task \in {"weekly", "status"} /\ now.query = 1
  /\ now.pc \in {"docs", "claims"} => now.text # Notice
  /\ now.pc = "claims" =>
       /\ now.task \in DOMAIN Surfaces \ {"stalled"}
       /\ now.task \notin Plain => now.query = 1
       /\ now.task = "weekly" => now.docs # {}
       /\ now.task = "status" /\ now.docs = {} =>
            \A x \in now.steady : x \in Docs => ~Admitted(x, now.project, {})
  /\ now.pc \in {"docs", "claims", "stalled"} /\ now.task # "brief" =>
       \A x \in now.steady : x \in Claims => x \in facts

HonestInv == \A p \in Processes : Honest(Current(from), process[p])

\* A process that makes no report, or is done with the queries for it.
Quiet(now) ==
  now.pc \notin {"docs", "claims"} /\ (now.pc = "stalled" => now.task = "brief")

\* Such a process denies nothing.
LEMMA QuietHonest == ASSUME NEW facts, NEW now, Quiet(now) PROVE Honest(facts, now)
BY DEF Quiet, Honest

\* The reports, and the days and queries of each.
LEMMA SurfacesAre ==
  /\ DOMAIN Surfaces = {"weekly", "status", "decisions", "risks", "next", "stalled", "context", "nearest"}
  /\ Surfaces["weekly"].docs = 7 /\ Surfaces["status"].docs = 30
  /\ \A task \in DOMAIN Surfaces \ {"weekly", "status"} : Surfaces[task].docs = 0
  /\ Surfaces["stalled"].claims = <<>>
  /\ \A task \in DOMAIN Surfaces \ (Plain \cup {"stalled"}) : Len(Surfaces[task].claims) = 1
  /\ Surfaces["status"].claims[1] = AllKinds
BY DEF Surfaces, Plain

\* The queries and answers that leave no report open.
LEMMA QuietSteps ==
  ASSUME TypeInv, NEW p \in Processes,
         \/ QueryWindow(p) \/ QueryReserved(p) \/ QueryStalled(p)
         \/ Answered(p) \/ Fail(p) \/ Look(p)
  PROVE  \E now : Goes(p, now) /\ Quiet(now)
<1>1. Stands(p, process[p])
  BY DEF TypeInv
<1>2. CASE QueryWindow(p)
  <2> DEFINE wider == [process[p] EXCEPT !.window = @ + 1]
             none == [Idle EXCEPT !.pc = "finished", !.text = Notice]
             enough == [process[p] EXCEPT !.pc = "reserved", !.steady = Current(from)]
  <2>1. process[p].pc = "windows"
    BY <1>2 DEF QueryWindow
  <2>2. Goes(p, wider) \/ Goes(p, none) \/ Goes(p, enough)
    BY <1>2 DEF QueryWindow
  <2>3. Quiet(wider) /\ Quiet(none) /\ Quiet(enough)
    BY <1>1, <2>1 DEF Quiet, Stands, Fields, Idle
  <2> HIDE DEF wider, none, enough
  <2> QED
    BY <2>2, <2>3
<1>3. CASE QueryReserved(p)
  <2>1. PICK rows : Goes(p, AfterReserved(process[p], rows))
    BY <1>3, ReservedStands
  <2>2. process[p].pc = "reserved"
    BY <1>3 DEF QueryReserved
  <2>3. Quiet(AfterReserved(process[p], rows))
    BY <1>1, <2>2 DEF Quiet, Stands, Fields, AfterReserved
  <2> QED
    BY <2>1, <2>3
<1>4. CASE QueryStalled(p)
  <2> DEFINE next(rows) == [process[p] EXCEPT !.pc = "model", !.stalled = rows]
             none(rows) == [Idle EXCEPT !.pc = "finished", !.task = next(rows).task,
                              !.project = next(rows).project, !.text = Notice]
  <2>1. PICK rows : Goes(p, none(rows)) \/ Goes(p, next(rows))
    BY <1>4 DEF QueryStalled, Unless
  <2>2. Quiet(none(rows))
    BY DEF Quiet, Idle
  <2>3. Quiet(next(rows))
    BY <1>1 DEF Quiet, Stands, Fields
  <2> HIDE DEF next, none
  <2> QED
    BY <2>1, <2>2, <2>3
<1>5. CASE Answered(p)
  <2> DEFINE stop == [Idle EXCEPT !.pc = IF p = Scheduler THEN "dead" ELSE "failed"]
             put(said) == [process[p] EXCEPT !.pc = "finished", !.said = said, !.text = Coalesce(said)]
             reply == [process[p] EXCEPT !.pc = "finished", !.text = Reply]
  <2>1. PICK said : Goes(p, stop) \/ Goes(p, put(said)) \/ Goes(p, reply)
    BY <1>5 DEF Answered
  <2>2. Quiet(stop)
    BY DEF Quiet, Idle
  <2>3. Quiet(put(said)) /\ Quiet(reply)
    BY <1>1 DEF Quiet, Stands, Fields
  <2> HIDE DEF stop, put, reply
  <2> QED
    BY <2>1, <2>2, <2>3
<1>6. CASE Fail(p)
  <2> DEFINE now == IF p = Scheduler THEN Idle ELSE [Idle EXCEPT !.pc = "failed"]
  <2>1. Goes(p, now)
    BY <1>6 DEF Fail
  <2>2. Quiet(now)
    BY DEF Quiet, Idle
  <2> HIDE DEF now
  <2> QED
    BY <2>1, <2>2
<1>7. CASE Look(p)
  <2> DEFINE ask == [Idle EXCEPT !.pc = "windows"]
             serve == [Idle EXCEPT !.pc = "finished", !.text = note]
  <2>1. Goes(p, ask) \/ Goes(p, Idle) \/ Goes(p, serve)
    BY <1>7 DEF Look
  <2>2. Quiet(ask) /\ Quiet(Idle) /\ Quiet(serve)
    BY DEF Quiet, Idle
  <2> HIDE DEF ask, serve
  <2> QED
    BY <2>1, <2>2
<1> QED
  BY <1>2, <1>3, <1>4, <1>5, <1>6, <1>7

\* Limits are numbers.
LEMMA LimitsThere == DocLimit \in Nat /\ RowLimit \in Nat
BY BriefAssumption

\* There are finitely many documents.
LEMMA DocsFinite == \A docs \in SUBSET Docs : IsFiniteSet(docs)
BY LedgerAssumption, FS_Subset

\* A query with a limit comes back empty only if there is nothing.
LEMMA NothingReturned ==
  ASSUME NEW rows, IsFiniteSet(rows), NEW k \in Nat, k # 0, NEW found,
         found \subseteq rows, found = {},
         Cardinality(found) = IF k < Cardinality(rows) THEN k ELSE Cardinality(rows)
  PROVE  rows = {}
<1>1. Cardinality(found) = 0 /\ Cardinality(rows) \in Nat
  BY FS_EmptySet, FS_CardinalityType
<1>2. Cardinality(rows) = 0
  BY <1>1
<1> QED
  BY <1>2, FS_EmptySet

\* No documents found: none that is recent is admitted.
LEMMA NoDocsFound ==
  ASSUME Limited, TypeInv, NEW since, NEW project,
         {} \in RecentDocs(updated, DocLimit, {}, since, project)
  PROVE  \A d \in Docs : ~(updated[d] >= since /\ Admitted(d, project, {}))
<1> DEFINE all == {d \in Docs : updated[d] >= since /\ Admitted(d, project, {})}
<1>1. {} \in Tops(all, DocLimit, updated)
  BY DEF RecentDocs
<1>2. IsFiniteSet(all)
  BY DocsFinite
<1> HIDE DEF all
<1>3. all = {}
  BY <1>1, <1>2, LimitsThere, RowsReturned, NothingReturned DEF Limited
<1> QED
  BY <1>3 DEF all

\* A query for documents, for a report that goes on.
AfterDocs(r, docs, since) ==
  [r EXCEPT !.docs = docs, !.pc = "claims",
            !.steady = {x \in @ : x \in Docs => updated[x] >= since}]

\* A query for documents keeps a report honest.
LEMMA DocsHonest ==
  ASSUME Limited, TypeInv, HonestInv, NEW p \in Processes, QueryDocs(p)
  PROVE  \E now : Goes(p, now) /\ Honest(Current(from), now)
<1> DEFINE r == process[p]
           since == day - Surface(p).docs
           kept(found) == IF r.task = "weekly" THEN found \ Tagged ELSE found
           next(found) == AfterDocs(r, kept(found), since)
           none(found) == [Idle EXCEPT !.pc = "finished", !.task = next(found).task,
                             !.project = next(found).project, !.text = Notice]
<1>1. PICK found \in RecentDocs(updated, DocLimit, {}, since, r.project) :
        Goes(p, Unless(r.task = "weekly" /\ kept(found) = {}, next(found)))
  BY DEF QueryDocs, AfterDocs
<1>2. Stands(p, r) /\ r.pc = "docs" /\ Honest(Current(from), r)
  BY DEF TypeInv, HonestInv, QueryDocs
<1>3. r.task \in {"weekly", "status"} /\ r.query = 1 /\ r.text # Notice
      /\ \A x \in r.steady : x \in Claims => x \in Current(from)
  BY <1>2 DEF Honest, Stands
<1>4. CASE r.task = "weekly" /\ kept(found) = {}
  <2>1. Goes(p, none(found))
    BY <1>1, <1>4 DEF Unless
  <2>2. Quiet(none(found))
    BY DEF Quiet, Idle
  <2> HIDE DEF none
  <2> QED
    BY <2>1, <2>2, QuietHonest
<1>5. CASE ~(r.task = "weekly" /\ kept(found) = {})
  <2>1. Goes(p, next(found))
    BY <1>1, <1>5 DEF Unless
  <2>2. /\ next(found).pc = "claims" /\ next(found).task = r.task /\ next(found).query = 1
        /\ next(found).text = r.text /\ next(found).docs = kept(found) /\ next(found).project = r.project
        /\ next(found).steady = {x \in r.steady : x \in Docs => updated[x] >= since}
    BY <1>2, <1>3 DEF AfterDocs, Stands, Fields
  <2>3. ASSUME r.task = "status", kept(found) = {}
        PROVE  \A x \in next(found).steady : x \in Docs => ~Admitted(x, r.project, {})
    <3>1. found = {}
      BY <2>3
    <3>2. \A d \in Docs : ~(updated[d] >= since /\ Admitted(d, r.project, {}))
      BY <1>1, <3>1, NoDocsFound
    <3> QED
      BY <2>2, <3>2
  <2>4. r.task \in DOMAIN Surfaces \ {"stalled"}
    BY <1>3, SurfacesAre
  <2> HIDE DEF next, kept
  <2>5. Honest(Current(from), next(found))
    BY <1>3, <1>5, <2>2, <2>3, <2>4 DEF Honest
  <2> QED
    BY <2>1, <2>5
<1> QED
  BY <1>4, <1>5

\* A query for claims.
LEMMA ClaimsHonest ==
  ASSUME TypeInv, HonestInv, NEW p \in Processes, QueryClaims(p)
  PROVE  \E now : Goes(p, now) /\ Honest(Current(from), now)
<1> DEFINE r == process[p]
           queries == Surface(p).claims
           more == CASE r.query < Len(queries) -> "claims"
                     [] r.task \in Plain -> "finished"
                     [] Surface(p).stalled # 0 -> "stalled"
                     [] OTHER -> "model"
           next(rows) == [r EXCEPT !.query = @ + 1, !.rows = @ \cup rows, !.pc = more]
           none(rows) == [Idle EXCEPT !.pc = "finished", !.task = next(rows).task,
                            !.project = next(rows).project, !.text = Notice]
<1>1. PICK rows : Goes(p, Unless(NothingFound(p, rows), next(rows)))
  BY DEF QueryClaims
<1>2. Stands(p, r) /\ r.pc = "claims" /\ Honest(Current(from), r)
  BY DEF TypeInv, HonestInv, QueryClaims
<1>3. CASE NothingFound(p, rows)
  <2>1. Goes(p, none(rows))
    BY <1>1, <1>3 DEF Unless
  <2>2. Quiet(none(rows))
    BY DEF Quiet, Idle
  <2> HIDE DEF none
  <2> QED
    BY <2>1, <2>2, QuietHonest
<1>4. CASE ~NothingFound(p, rows)
  <2>1. Goes(p, next(rows))
    BY <1>1, <1>4 DEF Unless
  <2>2. /\ r.task \in DOMAIN Surfaces \ {"stalled"} /\ (r.task \notin Plain => r.query = 1)
        /\ r.text # Notice /\ \A x \in r.steady : x \in Claims => x \in Current(from)
    BY <1>2 DEF Honest, Stands
  <2>3. more \in {"claims", "finished", "stalled", "model"} /\ (more = "claims" => r.task \in Plain)
    <3>1. more \in {"claims", "finished", "stalled", "model"}
      OBVIOUS
    <3>2. r.task \notin Plain => Len(queries) = 1
      BY <2>2, SurfacesAre DEF Surface
    <3>3. \A q, n : q = 1 /\ n = 1 => ~(q < n)
      OBVIOUS
    <3>4. r.task \notin Plain => ~(r.query < Len(queries))
      BY <2>2, <3>2, <3>3
    <3> QED
      BY <3>1, <3>4
  <2> HIDE DEF more
  <2>4. next(rows).pc = more /\ next(rows).text = r.text /\ next(rows).task = r.task /\ next(rows).steady = r.steady
    BY <1>2 DEF Stands, Fields
  <2> HIDE DEF next
  <2>5. r.task \in Plain => r.task # "weekly" /\ r.task # "status"
    BY DEF Plain
  <2>6. Honest(Current(from), next(rows))
    BY <2>2, <2>3, <2>4, <2>5 DEF Honest
  <2> QED
    BY <2>1, <2>6
<1> QED
  BY <1>3, <1>4

\* A request for a report.
LEMMA EnterHonest ==
  ASSUME TypeInv, NEW c \in Clients, NEW task \in DOMAIN Surfaces,
         NEW project \in Projects \cup {Anywhere}, Enter(c, task, project)
  PROVE  \E now : Goes(c, now) /\ Honest(Current(from), now)
<1> DEFINE start == IF Surfaces[task].docs # 0 THEN "docs"
                    ELSE IF Surfaces[task].claims # <<>> THEN "claims" ELSE "stalled"
           steady == Current(from) \cup {d \in Docs : Present(d)}
           now == [Idle EXCEPT !.task = task, !.project = project, !.steady = steady, !.pc = start]
<1>1. Goes(c, now)
  BY DEF Enter
<1>2. \A x \in steady : x \in Claims => x \in Current(from)
  BY LedgerAssumption
<1>3. /\ start = "docs" => task \in {"weekly", "status"}
      /\ start = "claims" => task \in DOMAIN Surfaces \ {"stalled", "weekly", "status"}
  <2>1. start = "docs" => Surfaces[task].docs # 0
    OBVIOUS
  <2>2. start = "claims" => Surfaces[task].docs = 0 /\ Surfaces[task].claims # <<>>
    OBVIOUS
  <2> HIDE DEF start
  <2> QED
    BY <2>1, <2>2, SurfacesAre
<1> HIDE DEF start, steady
<1>4. now.pc = start /\ now.task = task /\ now.steady = steady /\ now.query = 1 /\ now.text = <<>>
  BY DEF Idle
<1> HIDE DEF now
<1>5. Notice # <<>>
  BY DEF Notice
<1>6. Honest(Current(from), now)
  BY <1>2, <1>3, <1>4, <1>5 DEF Honest
<1> QED
  BY <1>1, <1>6

\* A step of any process and of the ledger keeps reports honest.
LEMMA StepHonest ==
  ASSUME Limited, TypeInv, HonestInv, Next
  PROVE  \A p \in Processes : Honest(Current(from'), process'[p])
<1>1. ASSUME NEW p \in Processes, NEW now, Goes(p, now), Honest(Current(from), now), UNCHANGED ledger
      PROVE  \A q \in Processes : Honest(Current(from'), process'[q])
  <2> TAKE q \in Processes
  <2>1. process'[q] = now \/ process'[q] = process[q]
    BY <1>1, OneGoes
  <2>2. from' = from
    BY <1>1 DEF ledger
  <2> QED
    BY <1>1, <2>1, <2>2 DEF HonestInv
<1>2. ASSUME NEW p \in Processes, Advance(p) \/ Fail(p)
      PROVE  \A q \in Processes : Honest(Current(from'), process'[q])
  <2>1. UNCHANGED ledger
    BY <1>2 DEF Advance, Fail, Look, QueryWindow, QueryReserved, QueryDocs, QueryClaims,
               QueryStalled, Answered
  <2>2. \E now : Goes(p, now) /\ Honest(Current(from), now)
    BY <1>2, QuietSteps, QuietHonest, DocsHonest, ClaimsHonest DEF Advance
  <2> QED
    BY <1>1, <2>1, <2>2
<1>3. ASSUME NEW c \in Clients, Request(c) \/ Respond(c)
      PROVE  \A q \in Processes : Honest(Current(from'), process'[q])
  <2> DEFINE look == [Idle EXCEPT !.pc = "look"]
  <2>1. UNCHANGED ledger /\ (Goes(c, look) \/ Goes(c, Idle)) /\ c \in Processes
    BY <1>3 DEF Request, Respond, Processes
  <2>2. Quiet(look) /\ Quiet(Idle)
    BY DEF Quiet, Idle
  <2> HIDE DEF look
  <2> QED
    BY <1>1, <2>1, <2>2, QuietHonest
<1>4. ASSUME NEW c \in Clients, NEW task \in DOMAIN Surfaces, NEW project \in Projects \cup {Anywhere},
             Ask(c, task, project) \/ Call(c, task, project)
      PROVE  \A q \in Processes : Honest(Current(from'), process'[q])
  <2>1. Enter(c, task, project)
    BY <1>4 DEF Ask, Call
  <2>2. UNCHANGED ledger /\ c \in Processes
    BY <2>1 DEF Enter, Processes
  <2> QED
    BY <1>1, <2>1, <2>2, EnterHonest
<1>5. ASSUME Strike \/ Create \/ Write
      PROVE  \A q \in Processes : Honest(Current(from'), process'[q])
  <2> DEFINE look == [Idle EXCEPT !.pc = "look"]
             write == [process[Scheduler] EXCEPT !.pc = "write"]
  <2>1. Scheduler \in Processes /\ UNCHANGED ledger
    BY <1>5 DEF Strike, Create, Write, Processes
  <2>2. UNCHANGED process \/ Goes(Scheduler, look) \/ Goes(Scheduler, write) \/ Goes(Scheduler, Idle)
    BY <1>5 DEF Strike, Create, Write
  <2>3. Stands(Scheduler, process[Scheduler])
    BY <2>1 DEF TypeInv
  <2>4. Quiet(look) /\ Quiet(Idle) /\ Quiet(write)
    BY <2>3 DEF Quiet, Idle, Stands, Fields
  <2> HIDE DEF look, write
  <2>5. CASE UNCHANGED process
    BY <2>1, <2>5 DEF HonestInv, ledger
  <2> QED
    BY <1>1, <2>1, <2>2, <2>4, <2>5, QuietHonest
<1>6. ASSUME NextDay \/ ClockBack \/ Crash
      PROVE  \A q \in Processes : Honest(Current(from'), process'[q])
  <2>1. from' = from /\ (UNCHANGED process \/ process' = [p \in Processes |-> Idle])
    BY <1>6 DEF NextDay, ClockBack, Crash, ledger
  <2>2. Quiet(Idle)
    BY DEF Quiet, Idle
  <2> QED
    BY <2>1, <2>2, QuietHonest DEF HonestInv
<1>7. ASSUME NEW d \in Docs, Work(d) \/ Forget(d)
      PROVE  \A p \in Processes : Honest(Current(from'), process'[p])
  <2>1. PICK gone : Unsteady(gone) /\ Current(from) \ gone \subseteq Current(from)'
    BY <1>7, WorkUnsteadies
  <2> TAKE p \in Processes
  <2> DEFINE now == [process[p] EXCEPT !.steady = @ \ gone]
  <2>2. process'[p] = now
    BY <2>1 DEF Unsteady
  <2>3. Stands(p, process[p]) /\ Honest(Current(from), process[p])
    BY DEF TypeInv, HonestInv
  <2>4. /\ now.pc = process[p].pc /\ now.task = process[p].task /\ now.query = process[p].query
        /\ now.docs = process[p].docs /\ now.text = process[p].text /\ now.project = process[p].project
        /\ now.steady = process[p].steady \ gone
    BY <2>3 DEF Stands, Fields
  <2> HIDE DEF now
  <2>5. Current(from) \ gone \subseteq Current(from')
    BY <2>1 DEF Current
  <2>6. Honest(Current(from'), now)
    BY <2>3, <2>4, <2>5 DEF Honest
  <2> QED
    BY <2>2, <2>6
<1> QED
  BY <1>2, <1>3, <1>4, <1>5, <1>6, <1>7 DEF Next

\* Only the queries and the model finish a report.
LEMMA FinishedBy ==
  ASSUME TypeInv, Next, NEW p \in Processes, process'[p].pc = "finished",
         process[p].pc \notin {"finished", "look"}
  PROVE  QueryWindow(p) \/ QueryDocs(p) \/ QueryClaims(p) \/ QueryStalled(p) \/ Answered(p)
<1>1. ASSUME NEW q \in Processes, NEW now, Goes(q, now)
      PROVE  q = p /\ now.pc = "finished"
  BY <1>1, OneGoes
<1>2. ASSUME NEW q \in Processes, Advance(q)
      PROVE  QueryWindow(p) \/ QueryDocs(p) \/ QueryClaims(p) \/ QueryStalled(p) \/ Answered(p)
  <2>1. q = p
    BY <1>1, <1>2 DEF Advance, Look, QueryWindow, QueryReserved, QueryDocs, QueryClaims,
               QueryStalled, Answered
  <2>2. ~Look(p)
    BY DEF Look
  <2>3. ASSUME QueryReserved(p) PROVE FALSE
    <3>1. PICK rows : Goes(p, AfterReserved(process[p], rows))
      BY <2>3, ReservedStands
    <3>2. Stands(p, process[p]) /\ process[p].pc = "reserved"
      BY <2>3 DEF TypeInv, QueryReserved
    <3>3. AfterReserved(process[p], rows).pc # "finished"
      BY <3>2 DEF Stands, Fields, AfterReserved
    <3> QED
      BY <1>1, <3>1, <3>3
  <2> QED
    BY <1>2, <2>1, <2>2, <2>3 DEF Advance
<1>3. ASSUME NEW q \in Processes, Fail(q)
      PROVE  FALSE
  <2> DEFINE now == IF q = Scheduler THEN Idle ELSE [Idle EXCEPT !.pc = "failed"]
  <2>1. Goes(q, now)
    BY <1>3 DEF Fail
  <2>2. now.pc # "finished"
    BY DEF Idle
  <2> HIDE DEF now
  <2> QED
    BY <1>1, <2>1, <2>2
<1>4. ASSUME NEW c \in Clients, Request(c) \/ Respond(c)
      PROVE  FALSE
  BY <1>1, <1>4 DEF Request, Respond, Processes, Idle
<1>5. ASSUME NEW c \in Clients, NEW task \in DOMAIN Surfaces, NEW project \in Projects \cup {Anywhere},
             Ask(c, task, project) \/ Call(c, task, project)
      PROVE  FALSE
  <2>1. Enter(c, task, project)
    BY <1>5 DEF Ask, Call
  <2> DEFINE start == IF Surfaces[task].docs # 0 THEN "docs"
                      ELSE IF Surfaces[task].claims # <<>> THEN "claims" ELSE "stalled"
             now == [Idle EXCEPT !.task = task, !.project = project,
                       !.steady = Current(from) \cup {d \in Docs : Present(d)}, !.pc = start]
  <2>2. Goes(c, now) /\ c \in Processes
    BY <2>1 DEF Enter, Processes
  <2>3. start # "finished"
    OBVIOUS
  <2> HIDE DEF start
  <2>4. now.pc # "finished"
    BY <2>3 DEF Idle
  <2> HIDE DEF now
  <2> QED
    BY <1>1, <2>2, <2>4
<1>6. ASSUME NEW d \in Docs, Work(d) \/ Forget(d)
      PROVE  FALSE
  <2>1. PICK gone : Unsteady(gone)
    BY <1>6, WorkUnsteadies
  <2>2. "pc" \in DOMAIN process[p]
    BY DEF TypeInv, Stands, Fields
  <2>3. process'[p].pc = process[p].pc
    BY <2>1, <2>2 DEF Unsteady
  <2> QED
    BY <2>3
<1>7. ASSUME Strike \/ Create \/ Write
      PROVE  FALSE
  <2> DEFINE look == [Idle EXCEPT !.pc = "look"]
             write == [process[Scheduler] EXCEPT !.pc = "write"]
  <2>1. Scheduler \in Processes
    BY DEF Processes
  <2>2. UNCHANGED process \/ Goes(Scheduler, look) \/ Goes(Scheduler, write) \/ Goes(Scheduler, Idle)
    BY <1>7 DEF Strike, Create, Write
  <2>3. Stands(Scheduler, process[Scheduler])
    BY <2>1 DEF TypeInv
  <2>4. look.pc # "finished" /\ Idle.pc # "finished" /\ write.pc # "finished"
    BY <2>3 DEF Idle, Stands, Fields
  <2> HIDE DEF look, write
  <2> QED
    BY <1>1, <2>1, <2>2, <2>4
<1>8. ASSUME NextDay \/ ClockBack \/ Crash
      PROVE  FALSE
  BY <1>8 DEF NextDay, ClockBack, Crash, Idle
<1> QED
  BY <1>2, <1>3, <1>4, <1>5, <1>6, <1>7, <1>8 DEF Next

\* Notices of the morning briefing: there is no document in the widest window,
\* and the daily briefings have not taken the places of any.
LEMMA WindowNotice ==
  ASSUME Limited, TypeInv, NEW p \in Processes, QueryWindow(p), process'[p].pc = "finished",
         NEW x \in Docs
  PROVE  process[p].task = "brief" /\ ~Covers(p, x)
<1> DEFINE w == process[p].window
<1>1. PICK found \in InWindow(updated, day, w, {}, DocLimit) :
        Goes(p, IF ~Suffices(w, found) THEN [process[p] EXCEPT !.window = @ + 1]
               ELSE IF found = {} THEN [Idle EXCEPT !.pc = "finished", !.text = Notice]
               ELSE [process[p] EXCEPT !.pc = "reserved", !.steady = Current(from)])
  BY DEF QueryWindow
<1>2. Stands(p, process[p]) /\ process[p].pc = "windows"
  BY DEF TypeInv, QueryWindow
<1>3. process[p].task = "brief" /\ w \in 1..Len(Windows)
  BY <1>2 DEF Stands
<1>4. Suffices(w, found) /\ found = {}
  <2>1. CASE ~Suffices(w, found)
    <3> DEFINE now == [process[p] EXCEPT !.window = @ + 1]
    <3>1. Goes(p, now)
      BY <1>1, <2>1
    <3>2. now.pc = "windows"
      BY <1>2 DEF Stands, Fields
    <3> HIDE DEF now
    <3> QED
      BY <3>1, <3>2, OneGoes
  <2>2. CASE Suffices(w, found) /\ found # {}
    <3> DEFINE now == [process[p] EXCEPT !.pc = "reserved", !.steady = Current(from)]
    <3>1. Goes(p, now)
      BY <1>1, <2>2
    <3>2. now.pc = "reserved"
      BY <1>2 DEF Stands, Fields
    <3> HIDE DEF now
    <3> QED
      BY <3>1, <3>2, OneGoes
  <2> QED
    BY <2>1, <2>2
<1>5. w = Len(Windows)
  <2>1. Windows[w][2] \in Nat /\ Windows[w][2] # 0
    <3>1. Windows \in Seq(Nat \X Nat)
      BY LedgerAssumption
    <3>2. Windows[w] \in Nat \X Nat
      BY <1>3, <3>1
    <3> QED
      BY <1>3, <3>2 DEF Limited
  <2>2. Cardinality(found) = 0
    BY <1>4, FS_EmptySet
  <2> QED
    BY <1>4, <2>1, <2>2 DEF Suffices
<1> DEFINE since == day - Windows[w][1]
<1>6. PICK all \in RecentDocs(updated, DocLimit, {}, since, Anywhere) : found = all \ Tagged
  BY DEF InWindow
<1>7. all \in SUBSET Docs /\ \A d \in all : d \notin Aside
  BY <1>6, RowsOfQueries DEF RecentDocs, Admitted
<1>8. all = {}
  BY <1>4, <1>6, <1>7 DEF Limited
<1>9. \A d \in Docs : ~(updated[d] >= since /\ Admitted(d, Anywhere, {}))
  BY <1>6, <1>8, NoDocsFound
<1>10. Admitted(x, process[p].project, {}) => Admitted(x, Anywhere, {})
  BY DEF Admitted
<1>11. ~(updated[x] >= day - Windows[Len(Windows)][1] /\ Admitted(x, process[p].project, {}))
  BY <1>5, <1>9, <1>10
<1> QED
  BY <1>3, <1>11 DEF Covers

\* Notices of a weekly briefing.
LEMMA DocsNotice ==
  ASSUME Limited, TypeInv, HonestInv, NEW p \in Processes, QueryDocs(p), process'[p].pc = "finished",
         NEW x
  PROVE  process[p].task = "weekly" /\ ~Covers(p, x)
<1> DEFINE r == process[p]
           since == day - Surface(p).docs
           kept(found) == IF r.task = "weekly" THEN found \ Tagged ELSE found
           next(found) == AfterDocs(r, kept(found), since)
<1>1. PICK found \in RecentDocs(updated, DocLimit, {}, since, r.project) :
        Goes(p, Unless(r.task = "weekly" /\ kept(found) = {}, next(found)))
  BY DEF QueryDocs, AfterDocs
<1>2. Stands(p, r)
  BY DEF TypeInv
<1>3. r.task = "weekly" /\ kept(found) = {}
  <2> SUFFICES ASSUME ~(r.task = "weekly" /\ kept(found) = {}) PROVE FALSE
    OBVIOUS
  <2>1. Goes(p, next(found))
    BY <1>1 DEF Unless
  <2>2. next(found).pc = "claims"
    BY <1>2 DEF AfterDocs, Stands, Fields
  <2> HIDE DEF next
  <2> QED
    BY <2>1, <2>2, OneGoes
<1>4. since = day - 7
  BY <1>3, SurfacesAre DEF Surface
<1>5. found \in SUBSET Docs /\ \A d \in found : d \notin Aside
  BY <1>1, RowsOfQueries DEF RecentDocs, Admitted
<1>6. found = {}
  BY <1>3, <1>5 DEF Limited
<1>7. \A d \in Docs : ~(updated[d] >= since /\ Admitted(d, r.project, {}))
  BY <1>1, <1>6, NoDocsFound
<1>8. ~(x \in Docs /\ updated[x] >= day - 7 /\ Admitted(x, r.project, {}))
  BY <1>4, <1>7
<1> QED
  BY <1>3, <1>8 DEF Covers

\* No claims found, by recency: none of these kinds that is current is admitted.
LEMMA NoClaimsFound ==
  ASSUME Limited, NEW p, process[p].task \notin {"status", "nearest"}, NEW kinds, {} \in Rows(p, kinds)
  PROVE  \A c \in Current(from) : ~(KindOf[c] \in kinds /\ Admitted(DocOf[c], process[p].project, {}))
<1> DEFINE all == {c \in Current(from) : KindOf[c] \in kinds /\ Admitted(DocOf[c], process[p].project, {})}
<1>1. Cardinality({}) = IF RowLimit < Cardinality(all) THEN RowLimit ELSE Cardinality(all)
  BY DEF Rows, RecentClaims, Tops, kSubset
<1>2. all \in SUBSET Claims
  BY DEF Current
<1>3. IsFiniteSet(all)
  BY <1>2, ClaimsFinite
<1> HIDE DEF all
<1>4. all = {}
  BY <1>1, <1>3, LimitsThere, NothingReturned DEF Limited
<1> QED
  BY <1>4 DEF all

\* Notices of the query for claims.
LEMMA ClaimsNotice ==
  ASSUME Limited, TypeInv, HonestInv, NEW p \in Processes, QueryClaims(p),
         process'[p].pc = "finished", process'[p].text = Notice,
         NEW x \in process[p].steady
  PROVE  process[p].task # "brief" /\ ~Covers(p, x)
<1> DEFINE r == process[p]
           queries == Surface(p).claims
           more == CASE r.query < Len(queries) -> "claims"
                     [] r.task \in Plain -> "finished"
                     [] Surface(p).stalled # 0 -> "stalled"
                     [] OTHER -> "model"
           next(rows) == [r EXCEPT !.query = @ + 1, !.rows = @ \cup rows, !.pc = more]
<1>1. PICK rows \in Rows(p, queries[r.query]) : Goes(p, Unless(NothingFound(p, rows), next(rows)))
  BY DEF QueryClaims
<1>2. Stands(p, r) /\ r.pc = "claims" /\ Honest(Current(from), r)
  BY DEF TypeInv, HonestInv, QueryClaims
<1>3. NothingFound(p, rows)
  <2> SUFFICES ASSUME ~NothingFound(p, rows) PROVE FALSE
    OBVIOUS
  <2>1. Goes(p, next(rows))
    BY <1>1 DEF Unless
  <2>2. r.text # Notice
    BY <1>2 DEF Honest
  <2> HIDE DEF more
  <2>3. next(rows).text = r.text
    BY <1>2 DEF Stands, Fields
  <2> HIDE DEF next
  <2> QED
    BY <2>1, <2>2, <2>3, OneGoes
<1>4. r.docs = {} /\ rows = {} /\ r.task \notin Plain
  BY <1>3 DEF NothingFound
<1>5. /\ r.task \in DOMAIN Surfaces \ {"stalled", "weekly"} /\ r.query = 1 /\ r.task # "brief"
      /\ r.task = "status" => (x \in Docs => ~Admitted(x, r.project, {}))
      /\ x \in Claims => x \in Current(from)
  BY <1>2, <1>4, SurfacesAre DEF Honest, Stands
<1>6. r.task # "status" => \A c \in Current(from) :
        ~(KindOf[c] \in Surfaces[r.task].claims[1] /\ Admitted(DocOf[c], r.project, {}))
  <2>1. r.task # "nearest"
    BY <1>4 DEF Plain
  <2> QED
    BY <1>1, <1>4, <1>5, <2>1, NoClaimsFound DEF Surface
<1>7. CASE r.task = "status"
  BY <1>5, <1>7 DEF Covers
<1>8. CASE r.task # "status"
  BY <1>5, <1>6, <1>8, SurfacesAre DEF Covers
<1> QED
  BY <1>7, <1>8

\* Notices of the register of what has stalled.
LEMMA StalledNotice ==
  ASSUME Limited, TypeInv, HonestInv, NEW p \in Processes, QueryStalled(p),
         process'[p].pc = "finished"
  PROVE  process[p].task = "stalled" /\ \A x \in process[p].steady : ~Covers(p, x)
<1> DEFINE r == process[p]
           next(rows) == [r EXCEPT !.pc = "model", !.stalled = rows]
           stalled == {c \in Current(from) :
             /\ from[c] < day - Stall /\ from[c] >= day - Horizon
             /\ KindOf[c] \in Open /\ Admitted(DocOf[c], r.project, {})}
<1>1. PICK rows \in StalledClaims(from, day, Slots, r.project, Open, {}, Stall) :
        Goes(p, Unless(r.task = "stalled" /\ rows = {}, next(rows)))
  BY DEF QueryStalled
<1>2. Stands(p, r) /\ r.pc = "stalled" /\ Honest(Current(from), r)
  BY DEF TypeInv, HonestInv, QueryStalled
<1>3. r.task = "stalled" /\ rows = {}
  <2> SUFFICES ASSUME ~(r.task = "stalled" /\ rows = {}) PROVE FALSE
    OBVIOUS
  <2>1. Goes(p, next(rows))
    BY <1>1 DEF Unless
  <2>2. next(rows).pc = "model"
    BY <1>2 DEF Stands, Fields
  <2> HIDE DEF next
  <2> QED
    BY <2>1, <2>2, OneGoes
<1>4. PICK chosen \in OnePerDoc(from, stalled) : {} \in Tops(chosen, Slots, Negated(from))
  BY <1>1, <1>3 DEF StalledClaims
<1>5. stalled \in SUBSET Claims
  BY DEF Current
<1> HIDE DEF stalled
<1>6. chosen \in SUBSET Claims /\ \A c \in stalled : \E o \in chosen : DocOf[o] = DocOf[c]
  BY <1>4, <1>5, ChosenOnePerDoc
<1>7. IsFiniteSet(chosen) /\ Slots \in Nat
  BY <1>6, ClaimsFinite, LedgerAssumption
<1>8. chosen = {}
  BY <1>4, <1>7, RowsReturned, NothingReturned DEF Limited
<1>9. stalled = {}
  BY <1>6, <1>8
<1> SUFFICES ASSUME NEW x \in r.steady PROVE ~Covers(p, x)
  BY <1>3
<1>10. x \in Claims => x \in Current(from)
  BY <1>2, <1>3 DEF Honest, Stands
<1>11. ~(/\ x \in Claims /\ KindOf[x] \in Open /\ Admitted(DocOf[x], r.project, {})
         /\ from[x] < day - Stall /\ from[x] >= day - Horizon)
  BY <1>9, <1>10 DEF stalled
<1> QED
  BY <1>3, <1>11 DEF Covers

\* The model's text is no notice.
LEMMA AnsweredNoNotice ==
  ASSUME Limited, TypeInv, NEW p \in Processes, Answered(p), process'[p].pc = "finished"
  PROVE  process'[p].text # Notice
<1> DEFINE stop == [Idle EXCEPT !.pc = IF p = Scheduler THEN "dead" ELSE "failed"]
           put(said) == [process[p] EXCEPT !.pc = "finished", !.said = said, !.text = Coalesce(said)]
           reply == [process[p] EXCEPT !.pc = "finished", !.text = Reply]
<1>1. Goes(p, stop) \/ Goes(p, reply) \/ \E said \in Answers : Goes(p, put(said))
  BY DEF Answered
<1>2. Stands(p, process[p])
  BY DEF TypeInv
<1>3. stop.pc # "finished"
  BY DEF Idle
<1>4. reply.text = Reply /\ \A said \in Answers : put(said).text = Coalesce(said)
  BY <1>2 DEF Stands, Fields
<1>5. Reply # Notice
  BY DEF Reply, Notice
<1> HIDE DEF stop, put, reply
<1> QED
  BY <1>1, <1>3, <1>4, <1>5, OneGoes DEF Limited

\* A report that says there is nothing has looked for all that it answers for: what
\* was there from its first query to its last is not denied, whatever is written,
\* superseded and forgotten in between, and whatever the search for the claims of a
\* status report misses, which answers for documents only.
THEOREM NoticesAreHonest ==
  ASSUME Limited
  PROVE  Spec => NoticeMeansNothing
<1> DEFINE Denies == \A p \in Processes :
             process'[p].pc = "finished" /\ process'[p].text = Notice /\ process[p].pc \notin {"finished", "look"}
               => \A x \in IF process[p].task = "brief" THEN Docs ELSE process[p].steady : ~Covers(p, x)
<1>1. Init => HonestInv
  <2>1. Quiet(Idle)
    BY DEF Quiet, Idle
  <2> QED
    BY <2>1, QuietHonest DEF Init, HonestInv
<1>2. TypeInv /\ HonestInv /\ [Next]_vars => HonestInv'
  <2> SUFFICES ASSUME TypeInv, HonestInv, [Next]_vars PROVE HonestInv'
    OBVIOUS
  <2>1. CASE Next
    BY <2>1, StepHonest DEF HonestInv
  <2>2. CASE UNCHANGED vars
    BY <2>2 DEF vars, ledger, HonestInv
  <2> QED
    BY <2>1, <2>2
<1>3. TypeInv /\ HonestInv /\ [Next]_vars => [Denies]_vars
  <2> SUFFICES ASSUME TypeInv, HonestInv, Next, NEW p \in Processes, process'[p].pc = "finished",
                      process'[p].text = Notice, process[p].pc \notin {"finished", "look"},
                      NEW x \in IF process[p].task = "brief" THEN Docs ELSE process[p].steady
               PROVE  ~Covers(p, x)
    OBVIOUS
  <2>1. CASE QueryWindow(p)
    <3>1. process[p].task = "brief"
      BY <2>1 DEF TypeInv, Stands, QueryWindow
    <3> QED
      BY <2>1, <3>1, WindowNotice
  <2>2. CASE QueryDocs(p)
    BY <2>2, DocsNotice
  <2>3. CASE QueryClaims(p)
    <3>1. process[p].task # "brief"
      BY <2>3 DEF TypeInv, Stands, QueryClaims
    <3> QED
      BY <2>3, <3>1, ClaimsNotice
  <2>4. CASE QueryStalled(p)
    <3>1. process[p].task = "stalled" /\ \A y \in process[p].steady : ~Covers(p, y)
      BY <2>4, StalledNotice
    <3> QED
      BY <3>1
  <2>5. CASE Answered(p)
    BY <2>5, AnsweredNoNotice
  <2> QED
    BY <2>1, <2>2, <2>3, <2>4, <2>5, FinishedBy
<1> QED
  BY <1>1, <1>2, <1>3, TypeInvariant, PTL DEF Spec, NoticeMeansNothing

-------------------------------------------------------------------------------
(* The text of a briefing *)

\* Induction over the natural numbers, for a set of them.
LEMMA NatInd ==
  ASSUME NEW T \in SUBSET Nat, 0 \in T, \A n \in T : n + 1 \in T
  PROVE  T = Nat
<1>1. SUFFICES ASSUME Nat \ T # {} PROVE FALSE
  OBVIOUS
<1>2. IsWellFoundedOn(OpToRel(<, Nat), Nat)
  BY NatLessThanWellFounded
<1>3. \E x \in Nat \ T : \A y \in Nat \ T : ~(<<y, x>> \in OpToRel(<, Nat))
  BY <1>1, <1>2, WFMin
<1>4. PICK x \in Nat \ T : \A y \in Nat \ T : ~(<<y, x>> \in OpToRel(<, Nat))
  BY <1>3
<1>5. x # 0 /\ x - 1 \in Nat /\ x - 1 < x
  OBVIOUS
<1>6. x - 1 \notin T
  <2>1. SUFFICES ASSUME x - 1 \in T PROVE FALSE
    OBVIOUS
  <2>2. (x - 1) + 1 \in T
    BY <2>1
  <2> QED BY <2>2
<1>7. <<x - 1, x>> \in OpToRel(<, Nat)
  BY <1>5 DEF OpToRel
<1> QED BY <1>4, <1>5, <1>6, <1>7

\* Induction over sequences, for a set of them.
LEMMA SeqInd ==
  ASSUME NEW E, NEW T \in SUBSET Seq(E), <<>> \in T,
         \A s \in T, e \in E : Append(s, e) \in T
  PROVE  T = Seq(E)
<1> DEFINE N == {n \in Nat : \A s \in Seq(E) : Len(s) = n => s \in T}
<1>1. 0 \in N
  BY EmptySeq
<1>2. ASSUME NEW n \in N PROVE n + 1 \in N
  <2>1. SUFFICES ASSUME NEW s \in Seq(E), Len(s) = n + 1 PROVE s \in T
    OBVIOUS
  <2>2. s # <<>>
    BY <2>1, EmptySeq
  <2>3. PICK r \in Seq(E), e \in E : s = Append(r, e)
    BY <2>2, SequenceEmptyOrAppend
  <2>4. Len(r) = n
    BY <2>1, <2>3, AppendProperties, LenProperties
  <2> QED BY <2>3, <2>4
<1> HIDE DEF N
<1>3. N = Nat
  <2>1. N \in SUBSET Nat
    BY DEF N
  <2> QED BY <2>1, <1>1, <1>2, NatInd
<1> QED BY <1>3, LenProperties DEF N

-----------------------------------------------------------------------------
(* Recursion *)

\* A sequence of sequences, flattened up to n.
LEMMA FlattenExists ==
  ASSUME NEW E, NEW ss \in Seq(Seq(E)), NEW n \in 0..Len(ss)
  PROVE  \E f : f = [i \in 1..n |-> IF i = 1 THEN ss[i] ELSE f[i - 1] \o ss[i]]
<1> DEFINE Is(f, m) == f = [i \in 1..m |-> IF i = 1 THEN ss[i] ELSE f[i - 1] \o ss[i]]
           N == {m \in Nat : \E f : Is(f, m)}
<1>1. 0 \in N
  <2>1. Is([i \in 1..0 |-> <<>>], 0)
    OBVIOUS
  <2> QED BY <2>1
<1>2. ASSUME NEW m \in N PROVE m + 1 \in N
  <2>1. PICK f : Is(f, m)
    OBVIOUS
  <2> DEFINE g == [i \in 1..(m + 1) |-> IF i <= m THEN f[i]
                                        ELSE IF i = 1 THEN ss[i] ELSE f[i - 1] \o ss[i]]
  <2>2. Is(g, m + 1)
    <3>1. \A i \in 1..(m + 1) : g[i] = IF i = 1 THEN ss[i] ELSE g[i - 1] \o ss[i]
      <4>1. TAKE i \in 1..(m + 1)
      <4>2. CASE i <= m
        <5>1. i \in 1..m /\ (i # 1 => i - 1 \in 1..(m + 1) /\ i - 1 <= m)
          BY <4>2
        <5>2. f[i] = IF i = 1 THEN ss[i] ELSE f[i - 1] \o ss[i]
          BY <2>1, <5>1
        <5>3. g[i] = f[i] /\ (i # 1 => g[i - 1] = f[i - 1])
          BY <5>1, <4>2
        <5> QED BY <5>2, <5>3
      <4>3. CASE ~(i <= m)
        <5>1. i # 1 => i - 1 \in 1..(m + 1) /\ i - 1 <= m
          OBVIOUS
        <5>2. i # 1 => g[i - 1] = f[i - 1]
          BY <5>1
        <5> QED BY <4>3, <5>2
      <4> QED BY <4>2, <4>3
    <3>2. g = [i \in 1..(m + 1) |-> g[i]]
      OBVIOUS
    <3> HIDE DEF g
    <3> QED BY <3>1, <3>2
  <2> HIDE DEF Is, g
  <2> QED BY <2>2
<1>3. N = Nat
  <2> HIDE DEF N
  <2>1. N \in SUBSET Nat
    BY DEF N
  <2> QED BY <2>1, <1>1, <1>2, NatInd
<1>4. n \in N
  <2> HIDE DEF N
  <2> QED BY <1>3
<1> QED BY <1>4

\* What a flattened sequence of sequences is, one sequence after the other.
LEMMA FlattenSteps ==
  ASSUME NEW E, NEW ss \in Seq(Seq(E)), ss # <<>>
  PROVE  \E f : /\ DOMAIN f = 1..Len(ss) /\ f[1] = ss[1]
                /\ \A i \in 1..Len(ss) : i # 1 => f[i] = f[i - 1] \o ss[i]
                /\ FlattenSeq(ss) = f[Len(ss)]
<1> DEFINE Is(f) == f = [i \in 1..Len(ss) |-> IF i = 1 THEN ss[i] ELSE f[i - 1] \o ss[i]]
           f == CHOOSE f : Is(f)
<1>1. Len(ss) \in Nat /\ Len(ss) # 0
  BY EmptySeq
<1>2. \E x : Is(x)
  <2>1. Len(ss) \in 0..Len(ss)
    BY <1>1
  <2> QED BY <2>1, FlattenExists
<1>3. FlattenSeq(ss) = f[Len(ss)]
  BY <1>1 DEF FlattenSeq
<1>4. Is(f)
  <2> HIDE DEF Is
  <2> QED BY <1>2
<1> HIDE DEF f
<1>5. DOMAIN f = 1..Len(ss) /\ f[1] = ss[1] /\ \A i \in 1..Len(ss) : i # 1 => f[i] = f[i - 1] \o ss[i]
  <2>1. f = [i \in 1..Len(ss) |-> IF i = 1 THEN ss[i] ELSE f[i - 1] \o ss[i]]
    BY <1>4
  <2>2. DOMAIN f = 1..Len(ss)
    BY <2>1
  <2>3. \A i \in 1..Len(ss) : f[i] = IF i = 1 THEN ss[i] ELSE f[i - 1] \o ss[i]
    BY <2>1, Zenon
  <2>4. 1 \in 1..Len(ss)
    BY <1>1
  <2>5. f[1] = ss[1]
    BY <2>3, <2>4, Zenon
  <2>6. \A i \in 1..Len(ss) : i # 1 => f[i] = f[i - 1] \o ss[i]
    BY <2>3, Zenon
  <2> QED BY <2>2, <2>5, <2>6
<1> QED BY <1>3, <1>5

\* Of nothing, nothing.
LEMMA FlattenEmpty == FlattenSeq(<<>>) = <<>>
BY DEF FlattenSeq

\* Of one sequence, that sequence.
LEMMA FlattenOne ==
  ASSUME NEW E, NEW e \in Seq(E)
  PROVE  FlattenSeq(<<e>>) = e
<1>1. <<e>> \in Seq(Seq(E)) /\ <<e>> # <<>> /\ Len(<<e>>) = 1 /\ <<e>>[1] = e
  OBVIOUS
<1> QED BY <1>1, FlattenSteps

\* One sequence more is appended.
LEMMA FlattenAppend ==
  ASSUME NEW E, NEW ss \in Seq(Seq(E)), NEW e \in Seq(E)
  PROVE  FlattenSeq(Append(ss, e)) = FlattenSeq(ss) \o e
<1> DEFINE tt == Append(ss, e)  n == Len(ss)
<1>1. /\ tt \in Seq(Seq(E)) /\ tt # <<>> /\ Len(tt) = n + 1 /\ tt[n + 1] = e /\ n \in Nat
      /\ \A i \in 1..n : tt[i] = ss[i]
  BY AppendProperties, LenProperties
<1> HIDE DEF tt
<1>2. CASE ss = <<>>
  <2>1. tt = <<e>> /\ n = 0
    BY <1>2 DEF tt
  <2>2. FlattenSeq(tt) = e
    BY <2>1, FlattenOne
  <2>3. FlattenSeq(ss) = <<>>
    BY <1>2, FlattenEmpty
  <2>4. <<>> \o e = e
    BY ConcatEmptySeq
  <2> QED BY <2>2, <2>3, <2>4 DEF tt
<1>3. CASE ss # <<>>
  <2>1. PICK f : /\ DOMAIN f = 1..n /\ f[1] = ss[1]
                 /\ \A i \in 1..n : i # 1 => f[i] = f[i - 1] \o ss[i]
                 /\ FlattenSeq(ss) = f[n]
    BY <1>3, FlattenSteps
  <2>2. PICK g : /\ DOMAIN g = 1..Len(tt) /\ g[1] = tt[1]
                 /\ \A i \in 1..Len(tt) : i # 1 => g[i] = g[i - 1] \o tt[i]
                 /\ FlattenSeq(tt) = g[Len(tt)]
    BY <1>1, FlattenSteps
  <2>3. n # 0
    BY <1>3, EmptySeq
  <2> DEFINE N == {i \in Nat : i + 1 <= n => f[i + 1] = g[i + 1]}
  <2>4. 0 \in N
    BY <1>1, <2>1, <2>2, <2>3
  <2>5. ASSUME NEW i \in N PROVE i + 1 \in N
    <3>1. SUFFICES ASSUME (i + 1) + 1 <= n PROVE f[(i + 1) + 1] = g[(i + 1) + 1]
      OBVIOUS
    <3>2. f[i + 1] = g[i + 1]
      BY <3>1, <1>1
    <3>3. (i + 1) + 1 \in 1..n /\ (i + 1) + 1 \in 1..Len(tt) /\ (i + 1) + 1 # 1 /\ ((i + 1) + 1) - 1 = i + 1
      BY <3>1, <1>1
    <3>4. f[(i + 1) + 1] = f[i + 1] \o ss[(i + 1) + 1]
      BY <2>1, <3>3
    <3>5. g[(i + 1) + 1] = g[i + 1] \o tt[(i + 1) + 1]
      BY <2>2, <3>3
    <3> QED BY <3>2, <3>3, <3>4, <3>5, <1>1
  <2>6. N = Nat
    <3>1. N \in SUBSET Nat
      OBVIOUS
    <3> HIDE DEF N
    <3> QED BY <3>1, <2>4, <2>5, NatInd
  <2>7. f[n] = g[n]
    <3>1. n - 1 \in Nat /\ (n - 1) + 1 = n
      BY <2>3, <1>1
    <3>2. n - 1 \in N
      BY <2>6, <3>1
    <3> QED BY <3>1, <3>2
  <2>8. g[n + 1] = g[n] \o e
    <3>1. n + 1 \in 1..Len(tt) /\ n + 1 # 1 /\ (n + 1) - 1 = n
      BY <1>1, <2>3
    <3>2. g[n + 1] = g[(n + 1) - 1] \o tt[n + 1]
      BY <2>2, <3>1
    <3> QED BY <3>1, <3>2, <1>1
  <2> QED BY <2>1, <2>2, <2>7, <2>8, <1>1 DEF tt
<1> QED BY <1>2, <1>3

\* A flattened sequence has the elements of its parts.
LEMMA FlattenType ==
  ASSUME NEW E, NEW ss \in Seq(Seq(E))
  PROVE  FlattenSeq(ss) \in Seq(E)
<1> DEFINE T == {u \in Seq(Seq(E)) : FlattenSeq(u) \in Seq(E)}
<1>1. <<>> \in T
  BY FlattenEmpty, EmptySeq
<1>2. ASSUME NEW u \in T, NEW e \in Seq(E) PROVE Append(u, e) \in T
  <2>0. u \in Seq(Seq(E)) /\ FlattenSeq(u) \in Seq(E)
    OBVIOUS
  <2> HIDE DEF T
  <2>1. Append(u, e) \in Seq(Seq(E))
    BY <2>0, AppendProperties
  <2>2. FlattenSeq(Append(u, e)) = FlattenSeq(u) \o e
    BY <2>0, FlattenAppend
  <2>3. FlattenSeq(u) \o e \in Seq(E)
    BY <2>0, ConcatProperties
  <2> QED BY <2>1, <2>2, <2>3 DEF T
<1>3. T = Seq(Seq(E))
  <2>1. T \in SUBSET Seq(Seq(E))
    OBVIOUS
  <2> HIDE DEF T
  <2> QED BY <2>1, <1>1, <1>2, SeqInd
<1> QED BY <1>3

\* f selects from s what is in S, element by element, up to n.
Selects(f, s, S, n) ==
  f = [i \in 0..n |-> IF i = 0 THEN <<>> ELSE IF s[i] \in S THEN Append(f[i - 1], s[i]) ELSE f[i - 1]]

\* A selection, one element after the other.
LEMMA OnlyExists ==
  ASSUME NEW E, NEW s \in Seq(E), NEW S, NEW n \in Nat
  PROVE  \E f : Selects(f, s, S, n)
<1> DEFINE Is(f, m) == f = [i \in 0..m |-> IF i = 0 THEN <<>> ELSE IF s[i] \in S THEN Append(f[i - 1], s[i]) ELSE f[i - 1]]
           N == {m \in Nat : \E f : Is(f, m)}
<1>1. 0 \in N
  <2> DEFINE g == [i \in 0..0 |-> <<>>]
  <2>1. Is(g, 0)
    <3>1. \A i \in 0..0 : g[i] = IF i = 0 THEN <<>> ELSE IF s[i] \in S THEN Append(g[i - 1], s[i]) ELSE g[i - 1]
      OBVIOUS
    <3>2. g = [i \in 0..0 |-> g[i]]
      OBVIOUS
    <3> HIDE DEF g
    <3> QED BY <3>1, <3>2
  <2> HIDE DEF Is, g
  <2> QED BY <2>1
<1>2. ASSUME NEW m \in N PROVE m + 1 \in N
  <2>1. PICK f : Is(f, m)
    OBVIOUS
  <2> DEFINE g == [i \in 0..(m + 1) |-> IF i <= m THEN f[i] ELSE IF s[i] \in S THEN Append(f[i - 1], s[i]) ELSE f[i - 1]]
  <2>2. Is(g, m + 1)
    <3>1. \A i \in 0..(m + 1) : g[i] = IF i = 0 THEN <<>> ELSE IF s[i] \in S THEN Append(g[i - 1], s[i]) ELSE g[i - 1]
      <4>1. TAKE i \in 0..(m + 1)
      <4>2. CASE i <= m
        <5>1. i \in 0..m /\ (i # 0 => i - 1 \in 0..(m + 1) /\ i - 1 <= m)
          BY <4>2
        <5>2. f[i] = IF i = 0 THEN <<>> ELSE IF s[i] \in S THEN Append(f[i - 1], s[i]) ELSE f[i - 1]
          BY <2>1, <5>1
        <5>3. g[i] = f[i] /\ (i # 0 => g[i - 1] = f[i - 1])
          BY <5>1, <4>2
        <5> QED BY <5>2, <5>3
      <4>3. CASE ~(i <= m)
        <5>1. i # 0 /\ i - 1 \in 0..(m + 1) /\ i - 1 <= m
          BY <4>3
        <5>2. g[i - 1] = f[i - 1]
          BY <5>1
        <5>3. g[i] = IF s[i] \in S THEN Append(f[i - 1], s[i]) ELSE f[i - 1]
          BY <4>3
        <5> QED BY <5>1, <5>2, <5>3
      <4> QED BY <4>2, <4>3
    <3>2. g = [i \in 0..(m + 1) |-> g[i]]
      OBVIOUS
    <3> HIDE DEF g
    <3> QED BY <3>1, <3>2
  <2> HIDE DEF Is, g
  <2> QED BY <2>2
<1>3. N = Nat
  <2> HIDE DEF N
  <2>1. N \in SUBSET Nat
    BY DEF N
  <2> QED BY <2>1, <1>1, <1>2, NatInd
<1>4. n \in N
  <2> HIDE DEF N
  <2> QED BY <1>3
<1>5. PICK f : Is(f, n)
  BY <1>4
<1> QED BY <1>5 DEF Selects

\* The same, with what is selected.
LEMMA OnlySteps ==
  ASSUME NEW E, NEW s \in Seq(E), NEW S
  PROVE  \E f : /\ f[0] = <<>>
                /\ \A i \in 1..Len(s) : f[i] = IF s[i] \in S THEN Append(f[i - 1], s[i]) ELSE f[i - 1]
                /\ Only(s, S) = f[Len(s)]
<1> DEFINE Is(f) == f = [i \in 0..Len(s) |-> IF i = 0 THEN <<>> ELSE IF s[i] \in S THEN Append(f[i - 1], s[i]) ELSE f[i - 1]]
           f == CHOOSE f : Is(f)
<1>1. Len(s) \in Nat
  OBVIOUS
<1>2. \E x : Is(x)
  <2>1. PICK x : Selects(x, s, S, Len(s))
    BY <1>1, OnlyExists
  <2> QED BY <2>1 DEF Selects
<1>3. Only(s, S) = f[Len(s)]
  BY <1>1 DEF Only
<1>4. Is(f)
  <2> HIDE DEF Is
  <2> QED BY <1>2
<1> HIDE DEF f
<1>5. \A i \in 0..Len(s) : f[i] = IF i = 0 THEN <<>> ELSE IF s[i] \in S THEN Append(f[i - 1], s[i]) ELSE f[i - 1]
  <2>1. f = [i \in 0..Len(s) |-> IF i = 0 THEN <<>> ELSE IF s[i] \in S THEN Append(f[i - 1], s[i]) ELSE f[i - 1]]
    BY <1>4
  <2> QED BY <2>1, Zenon
<1>6. f[0] = <<>>
  <2>1. 0 \in 0..Len(s)
    BY <1>1
  <2> QED BY <1>5, <2>1, Zenon
<1>7. \A i \in 1..Len(s) : f[i] = IF s[i] \in S THEN Append(f[i - 1], s[i]) ELSE f[i - 1]
  <2>1. TAKE i \in 1..Len(s)
  <2>2. i \in 0..Len(s) /\ i # 0
    BY <1>1
  <2> QED BY <1>5, <2>2, Zenon
<1> QED BY <1>3, <1>6, <1>7

\* Selecting goes on from where it was.
LEMMA OnlyAppend ==
  ASSUME NEW E, NEW s \in Seq(E), NEW S, NEW e \in E
  PROVE  Only(Append(s, e), S) = IF e \in S THEN Append(Only(s, S), e) ELSE Only(s, S)
<1> DEFINE t == Append(s, e)  n == Len(s)
<1>1. /\ t \in Seq(E) /\ Len(t) = n + 1 /\ t[n + 1] = e /\ n \in Nat
      /\ \A i \in 1..n : t[i] = s[i]
  BY AppendProperties, LenProperties
<1> HIDE DEF t
<1>2. PICK f : /\ f[0] = <<>>
               /\ \A i \in 1..n : f[i] = IF s[i] \in S THEN Append(f[i - 1], s[i]) ELSE f[i - 1]
               /\ Only(s, S) = f[n]
  BY OnlySteps
<1>3. PICK g : /\ g[0] = <<>>
               /\ \A i \in 1..Len(t) : g[i] = IF t[i] \in S THEN Append(g[i - 1], t[i]) ELSE g[i - 1]
               /\ Only(t, S) = g[Len(t)]
  BY <1>1, OnlySteps
<1> DEFINE N == {i \in Nat : i <= n => f[i] = g[i]}
<1>4. 0 \in N
  BY <1>2, <1>3
<1>5. ASSUME NEW i \in N PROVE i + 1 \in N
  <2>1. SUFFICES ASSUME i + 1 <= n PROVE f[i + 1] = g[i + 1]
    OBVIOUS
  <2>2. f[i] = g[i]
    BY <2>1, <1>1
  <2>3. i + 1 \in 1..n /\ i + 1 \in 1..Len(t) /\ (i + 1) - 1 = i
    BY <2>1, <1>1
  <2>4. f[i + 1] = IF s[i + 1] \in S THEN Append(f[i], s[i + 1]) ELSE f[i]
    BY <1>2, <2>3
  <2>5. g[i + 1] = IF t[i + 1] \in S THEN Append(g[i], t[i + 1]) ELSE g[i]
    BY <1>3, <2>3
  <2> QED BY <2>2, <2>3, <2>4, <2>5, <1>1
<1>6. N = Nat
  <2>1. N \in SUBSET Nat
    OBVIOUS
  <2> HIDE DEF N
  <2> QED BY <2>1, <1>4, <1>5, NatInd
<1>7. f[n] = g[n]
  <2>1. n \in N
    <3> HIDE DEF N
    <3> QED BY <1>6, <1>1
  <2> QED BY <2>1
<1>8. n + 1 \in 1..Len(t) /\ (n + 1) - 1 = n
  BY <1>1
<1>9. g[n + 1] = IF t[n + 1] \in S THEN Append(g[n], t[n + 1]) ELSE g[n]
  BY <1>3, <1>8
<1> QED BY <1>1, <1>2, <1>3, <1>7, <1>9 DEF t

\* Of the empty sequence nothing is selected.
LEMMA OnlyEmpty ==
  ASSUME NEW S
  PROVE  Only(<<>>, S) = <<>>
<1>1. <<>> \in Seq({}) /\ Len(<<>>) = 0
  OBVIOUS
<1>2. PICK f : /\ f[0] = <<>>
               /\ \A i \in 1..Len(<<>>) : f[i] = IF <<>>[i] \in S THEN Append(f[i - 1], <<>>[i]) ELSE f[i - 1]
               /\ Only(<<>>, S) = f[Len(<<>>)]
  BY <1>1, OnlySteps
<1> QED BY <1>1, <1>2

\* A scan, one line after the other.
LEMMA ScanExists ==
  ASSUME NEW E, NEW s \in Seq(E), NEW n \in Nat
  PROVE  \E f : f = [i \in 0..n |-> IF i = 0 THEN Start ELSE Take(f[i - 1], s[i])]
<1> DEFINE Is(f, m) == f = [i \in 0..m |-> IF i = 0 THEN Start ELSE Take(f[i - 1], s[i])]
           N == {m \in Nat : \E f : Is(f, m)}
<1>1. 0 \in N
  <2> DEFINE g == [i \in 0..0 |-> Start]
  <2>1. Is(g, 0)
    <3>1. \A i \in 0..0 : g[i] = IF i = 0 THEN Start ELSE Take(g[i - 1], s[i])
      OBVIOUS
    <3>2. g = [i \in 0..0 |-> g[i]]
      OBVIOUS
    <3> HIDE DEF g
    <3> QED BY <3>1, <3>2
  <2> HIDE DEF Is, g
  <2> QED BY <2>1
<1>2. ASSUME NEW m \in N PROVE m + 1 \in N
  <2>1. PICK f : Is(f, m)
    OBVIOUS
  <2> DEFINE g == [i \in 0..(m + 1) |-> IF i <= m THEN f[i] ELSE Take(f[i - 1], s[i])]
  <2>2. Is(g, m + 1)
    <3>1. \A i \in 0..(m + 1) : g[i] = IF i = 0 THEN Start ELSE Take(g[i - 1], s[i])
      <4>1. TAKE i \in 0..(m + 1)
      <4>2. CASE i <= m
        <5>1. i \in 0..m /\ (i # 0 => i - 1 \in 0..(m + 1) /\ i - 1 <= m)
          BY <4>2
        <5>2. f[i] = IF i = 0 THEN Start ELSE Take(f[i - 1], s[i])
          BY <2>1, <5>1
        <5>3. g[i] = f[i] /\ (i # 0 => g[i - 1] = f[i - 1])
          BY <5>1, <4>2
        <5> QED BY <5>2, <5>3
      <4>3. CASE ~(i <= m)
        <5>1. i # 0 /\ i - 1 \in 0..(m + 1) /\ i - 1 <= m
          BY <4>3
        <5>2. g[i - 1] = f[i - 1]
          BY <5>1
        <5>3. g[i] = Take(f[i - 1], s[i])
          BY <4>3
        <5> QED BY <5>1, <5>2, <5>3
      <4> QED BY <4>2, <4>3
    <3>2. g = [i \in 0..(m + 1) |-> g[i]]
      OBVIOUS
    <3> HIDE DEF g
    <3> QED BY <3>1, <3>2
  <2> HIDE DEF Is, g
  <2> QED BY <2>2
<1>3. N = Nat
  <2> HIDE DEF N
  <2>1. N \in SUBSET Nat
    BY DEF N
  <2> QED BY <2>1, <1>1, <1>2, NatInd
<1>4. n \in N
  <2> HIDE DEF N
  <2> QED BY <1>3
<1> QED BY <1>4

\* The same, with what the scan ends in.
LEMMA ScanSteps ==
  ASSUME NEW E, NEW s \in Seq(E)
  PROVE  \E f : /\ f[0] = Start
                /\ \A i \in 1..Len(s) : f[i] = Take(f[i - 1], s[i])
                /\ Scan(s) = f[Len(s)]
<1> DEFINE Is(f) == f = [i \in 0..Len(s) |-> IF i = 0 THEN Start ELSE Take(f[i - 1], s[i])]
           f == CHOOSE f : Is(f)
<1>1. Len(s) \in Nat
  OBVIOUS
<1>2. \E x : Is(x)
  BY <1>1, ScanExists
<1>3. Scan(s) = f[Len(s)]
  BY <1>1 DEF Scan
<1>4. Is(f)
  <2> HIDE DEF Is
  <2> QED BY <1>2
<1> HIDE DEF f
<1>5. \A i \in 0..Len(s) : f[i] = IF i = 0 THEN Start ELSE Take(f[i - 1], s[i])
  <2>1. f = [i \in 0..Len(s) |-> IF i = 0 THEN Start ELSE Take(f[i - 1], s[i])]
    BY <1>4
  <2> QED BY <2>1, Zenon
<1>6. f[0] = Start
  <2>1. 0 \in 0..Len(s)
    BY <1>1
  <2> QED BY <1>5, <2>1, Zenon
<1>7. \A i \in 1..Len(s) : f[i] = Take(f[i - 1], s[i])
  <2>1. TAKE i \in 1..Len(s)
  <2>2. i \in 0..Len(s) /\ i # 0
    BY <1>1
  <2> QED BY <1>5, <2>2, Zenon
<1> QED BY <1>3, <1>6, <1>7

\* Scanning goes on from where it was.
LEMMA ScanAppend ==
  ASSUME NEW E, NEW s \in Seq(E), NEW e \in E
  PROVE  Scan(Append(s, e)) = Take(Scan(s), e)
<1> DEFINE t == Append(s, e)  n == Len(s)
<1>1. /\ t \in Seq(E) /\ Len(t) = n + 1 /\ t[n + 1] = e /\ n \in Nat
      /\ \A i \in 1..n : t[i] = s[i]
  BY AppendProperties, LenProperties
<1> HIDE DEF t
<1>2. PICK f : /\ f[0] = Start
               /\ \A i \in 1..n : f[i] = Take(f[i - 1], s[i])
               /\ Scan(s) = f[n]
  BY ScanSteps
<1>3. PICK g : /\ g[0] = Start
               /\ \A i \in 1..Len(t) : g[i] = Take(g[i - 1], t[i])
               /\ Scan(t) = g[Len(t)]
  BY <1>1, ScanSteps
<1> DEFINE N == {i \in Nat : i <= n => f[i] = g[i]}
<1>4. 0 \in N
  BY <1>2, <1>3
<1>5. ASSUME NEW i \in N PROVE i + 1 \in N
  <2>1. SUFFICES ASSUME i + 1 <= n PROVE f[i + 1] = g[i + 1]
    OBVIOUS
  <2>2. f[i] = g[i]
    BY <2>1, <1>1
  <2>3. i + 1 \in 1..n /\ i + 1 \in 1..Len(t) /\ (i + 1) - 1 = i
    BY <2>1, <1>1
  <2>4. f[i + 1] = Take(f[i], s[i + 1])
    BY <1>2, <2>3
  <2>5. g[i + 1] = Take(g[i], t[i + 1])
    BY <1>3, <2>3
  <2> QED BY <2>2, <2>3, <2>4, <2>5, <1>1
<1>6. N = Nat
  <2>1. N \in SUBSET Nat
    OBVIOUS
  <2> HIDE DEF N
  <2> QED BY <2>1, <1>4, <1>5, NatInd
<1>7. f[n] = g[n]
  <2>1. n \in N
    <3> HIDE DEF N
    <3> QED BY <1>6, <1>1
  <2> QED BY <2>1
<1>8. n + 1 \in 1..Len(t) /\ (n + 1) - 1 = n
  BY <1>1
<1>9. g[n + 1] = Take(g[n], t[n + 1])
  BY <1>3, <1>8
<1> QED BY <1>1, <1>2, <1>3, <1>7, <1>9 DEF t

\* Without a line the scan is at its start.
LEMMA ScanEmpty == Scan(<<>>) = Start
<1>1. <<>> \in Seq({}) /\ Len(<<>>) = 0
  OBVIOUS
<1> QED BY <1>1, ScanSteps

-----------------------------------------------------------------------------
(* Selections *)

\* Appending to what comes second.
LEMMA ConcatAppend ==
  ASSUME NEW E, NEW s \in Seq(E), NEW t \in Seq(E), NEW e \in E
  PROVE  s \o Append(t, e) = Append(s \o t, e)
<1>1. Append(t, e) = t \o <<e>> /\ <<e>> \in Seq(E)
  BY AppendIsConcat
<1>2. s \o t \in Seq(E)
  BY ConcatProperties
<1>3. Append(s \o t, e) = (s \o t) \o <<e>>
  BY <1>2, AppendIsConcat
<1>4. (s \o t) \o <<e>> = s \o (t \o <<e>>)
  BY <1>1, ConcatAssociative
<1> QED BY <1>1, <1>3, <1>4

\* The elements, with one more.
LEMMA SetAppend ==
  ASSUME NEW E, NEW s \in Seq(E), NEW e \in E
  PROVE  ToSet(Append(s, e)) = ToSet(s) \cup {e}
<1>1. /\ Append(s, e) \in Seq(E) /\ Len(Append(s, e)) = Len(s) + 1 /\ Append(s, e)[Len(s) + 1] = e
      /\ \A i \in 1..Len(s) : Append(s, e)[i] = s[i]
  BY AppendProperties
<1>2. DOMAIN Append(s, e) = 1..(Len(s) + 1) /\ DOMAIN s = 1..Len(s) /\ Len(s) \in Nat
  BY <1>1, LenProperties
<1>3. 1..(Len(s) + 1) = 1..Len(s) \cup {Len(s) + 1}
  BY <1>2
<1> QED BY <1>1, <1>2, <1>3 DEF ToSet

\* The empty sequence has no elements.
LEMMA SetEmpty == ToSet(<<>>) = {}
BY DEF ToSet

\* The elements of a sequence, by their places.
LEMMA SetType ==
  ASSUME NEW E, NEW s \in Seq(E)
  PROVE  ToSet(s) \subseteq E /\ ToSet(s) = {s[i] : i \in 1..Len(s)}
BY LenProperties DEF ToSet

\* The elements of two sequences in a row.
LEMMA SetConcat ==
  ASSUME NEW E, NEW s \in Seq(E), NEW t \in Seq(E)
  PROVE  ToSet(s \o t) = ToSet(s) \cup ToSet(t)
<1> DEFINE T == {u \in Seq(E) : ToSet(s \o u) = ToSet(s) \cup ToSet(u)}
<1>1. <<>> \in T
  BY ConcatEmptySeq, SetEmpty
<1>2. ASSUME NEW u \in T, NEW e \in E PROVE Append(u, e) \in T
  <2>0. u \in Seq(E) /\ ToSet(s \o u) = ToSet(s) \cup ToSet(u)
    OBVIOUS
  <2> HIDE DEF T
  <2>1. Append(u, e) \in Seq(E) /\ s \o u \in Seq(E)
    BY <2>0, AppendProperties, ConcatProperties
  <2>2. s \o Append(u, e) = Append(s \o u, e)
    BY <2>0, ConcatAppend
  <2>3. ToSet(Append(s \o u, e)) = ToSet(s \o u) \cup {e}
    <3> DEFINE v == s \o u
    <3>1. v \in Seq(E)
      BY <2>1
    <3> HIDE DEF v
    <3>2. ToSet(Append(v, e)) = ToSet(v) \cup {e}
      BY <3>1, SetAppend
    <3> QED BY <3>2 DEF v
  <2>4. ToSet(Append(u, e)) = ToSet(u) \cup {e}
    BY <2>0, SetAppend
  <2> QED BY <2>0, <2>1, <2>2, <2>3, <2>4 DEF T
<1>3. T = Seq(E)
  <2>1. T \in SUBSET Seq(E)
    OBVIOUS
  <2> HIDE DEF T
  <2> QED BY <2>1, <1>1, <1>2, SeqInd
<1> QED BY <1>3

\* What is selected is a sequence of just the elements in the set.
LEMMA OnlySet ==
  ASSUME NEW E, NEW s \in Seq(E), NEW S
  PROVE  Only(s, S) \in Seq(E) /\ ToSet(Only(s, S)) = ToSet(s) \cap S
<1> DEFINE T == {u \in Seq(E) : Only(u, S) \in Seq(E) /\ ToSet(Only(u, S)) = ToSet(u) \cap S}
<1>1. <<>> \in T
  BY OnlyEmpty, SetEmpty, EmptySeq
<1>2. ASSUME NEW u \in T, NEW e \in E PROVE Append(u, e) \in T
  <2>1. Append(u, e) \in Seq(E) /\ Append(Only(u, S), e) \in Seq(E)
    BY AppendProperties
  <2>2. Only(Append(u, e), S) = IF e \in S THEN Append(Only(u, S), e) ELSE Only(u, S)
    BY OnlyAppend
  <2>3. ToSet(Append(Only(u, S), e)) = ToSet(Only(u, S)) \cup {e}
    BY SetAppend
  <2>4. ToSet(Append(u, e)) = ToSet(u) \cup {e}
    BY SetAppend
  <2> QED BY <2>1, <2>2, <2>3, <2>4
<1>3. T = Seq(E)
  <2>1. T \in SUBSET Seq(E)
    OBVIOUS
  <2> HIDE DEF T
  <2> QED BY <2>1, <1>1, <1>2, SeqInd
<1> QED BY <1>3

\* What is not in a sequence does not matter for a selection of it.
LEMMA OnlyAgrees ==
  ASSUME NEW E, NEW s \in Seq(E), NEW S, NEW R, ToSet(s) \cap S = ToSet(s) \cap R
  PROVE  Only(s, S) = Only(s, R)
<1> DEFINE T == {u \in Seq(E) : ToSet(u) \cap S = ToSet(u) \cap R => Only(u, S) = Only(u, R)}
<1>1. <<>> \in T
  BY OnlyEmpty
<1>2. ASSUME NEW u \in T, NEW e \in E PROVE Append(u, e) \in T
  <2>1. Append(u, e) \in Seq(E)
    BY AppendProperties
  <2>2. /\ Only(Append(u, e), S) = IF e \in S THEN Append(Only(u, S), e) ELSE Only(u, S)
        /\ Only(Append(u, e), R) = IF e \in R THEN Append(Only(u, R), e) ELSE Only(u, R)
    BY OnlyAppend
  <2>3. ToSet(Append(u, e)) = ToSet(u) \cup {e}
    BY SetAppend
  <2>4. CASE ToSet(Append(u, e)) \cap S = ToSet(Append(u, e)) \cap R
    <3>1. ToSet(u) \cap S \subseteq R /\ ToSet(u) \cap R \subseteq S /\ (e \in S <=> e \in R)
      BY <2>3, <2>4
    <3>2. ToSet(u) \cap S = ToSet(u) \cap R
      BY <3>1
    <3>3. Only(u, S) = Only(u, R)
      BY <3>2
    <3> QED BY <2>1, <2>2, <3>1, <3>3
  <2> QED BY <2>1, <2>4
<1>3. T = Seq(E)
  <2>1. T \in SUBSET Seq(E)
    OBVIOUS
  <2> HIDE DEF T
  <2> QED BY <2>1, <1>1, <1>2, SeqInd
<1> QED BY <1>3

\* A selection that takes all, or nothing.
LEMMA OnlyAllOrNone ==
  ASSUME NEW E, NEW s \in Seq(E), NEW S
  PROVE  /\ ToSet(s) \subseteq S => Only(s, S) = s
         /\ ToSet(s) \cap S = {} => Only(s, S) = <<>>
<1> DEFINE T == {u \in Seq(E) : /\ ToSet(u) \subseteq S => Only(u, S) = u
                                /\ ToSet(u) \cap S = {} => Only(u, S) = <<>>}
<1>1. <<>> \in T
  BY OnlyEmpty
<1>2. ASSUME NEW u \in T, NEW e \in E PROVE Append(u, e) \in T
  <2>1. Append(u, e) \in Seq(E)
    BY AppendProperties
  <2>2. Only(Append(u, e), S) = IF e \in S THEN Append(Only(u, S), e) ELSE Only(u, S)
    BY OnlyAppend
  <2>3. ToSet(Append(u, e)) = ToSet(u) \cup {e}
    BY SetAppend
  <2> QED BY <2>1, <2>2, <2>3
<1>3. T = Seq(E)
  <2>1. T \in SUBSET Seq(E)
    OBVIOUS
  <2> HIDE DEF T
  <2> QED BY <2>1, <1>1, <1>2, SeqInd
<1> QED BY <1>3

\* A selection of two sequences in a row is two selections in a row.
LEMMA OnlyConcat ==
  ASSUME NEW E, NEW s \in Seq(E), NEW t \in Seq(E), NEW S
  PROVE  Only(s \o t, S) = Only(s, S) \o Only(t, S)
<1> DEFINE T == {u \in Seq(E) : Only(s \o u, S) = Only(s, S) \o Only(u, S)}
<1>1. <<>> \in T
  <2>1. Only(s, S) \in Seq(E)
    BY OnlySet
  <2> QED BY <2>1, OnlyEmpty, ConcatEmptySeq
<1>2. ASSUME NEW u \in T, NEW e \in E PROVE Append(u, e) \in T
  <2>0. u \in Seq(E) /\ Only(s \o u, S) = Only(s, S) \o Only(u, S)
    OBVIOUS
  <2> HIDE DEF T
  <2>1. /\ Append(u, e) \in Seq(E) /\ s \o u \in Seq(E)
        /\ Only(s, S) \in Seq(E) /\ Only(u, S) \in Seq(E)
    BY <2>0, AppendProperties, ConcatProperties, OnlySet
  <2>2. s \o Append(u, e) = Append(s \o u, e)
    BY <2>0, ConcatAppend
  <2>3. Only(Append(s \o u, e), S) = IF e \in S THEN Append(Only(s \o u, S), e) ELSE Only(s \o u, S)
    <3> DEFINE v == s \o u
    <3>1. v \in Seq(E)
      BY <2>1
    <3> HIDE DEF v
    <3>2. Only(Append(v, e), S) = IF e \in S THEN Append(Only(v, S), e) ELSE Only(v, S)
      BY <3>1, OnlyAppend
    <3> QED BY <3>2 DEF v
  <2>4. Only(Append(u, e), S) = IF e \in S THEN Append(Only(u, S), e) ELSE Only(u, S)
    BY <2>0, OnlyAppend
  <2>5. Only(s, S) \o Append(Only(u, S), e) = Append(Only(s, S) \o Only(u, S), e)
    BY <2>1, ConcatAppend
  <2> QED BY <2>0, <2>1, <2>2, <2>3, <2>4, <2>5 DEF T
<1>3. T = Seq(E)
  <2>1. T \in SUBSET Seq(E)
    OBVIOUS
  <2> HIDE DEF T
  <2> QED BY <2>1, <1>1, <1>2, SeqInd
<1> QED BY <1>3

-----------------------------------------------------------------------------
(* Sequences of which the elements differ in something *)

\* No two elements have the same value of K.
Keyed(s, K) == \A i, j \in 1..Len(s) : K[s[i]] = K[s[j]] => i = j

\* Two sequences in a row, which have no value of K in common.
LEMMA KeyedConcat ==
  ASSUME NEW E, NEW s \in Seq(E), NEW t \in Seq(E), NEW K, Keyed(s, K), Keyed(t, K),
         \A x \in ToSet(s), y \in ToSet(t) : K[x] # K[y]
  PROVE  Keyed(s \o t, K)
<1>1. /\ Len(s) \in Nat /\ Len(t) \in Nat /\ Len(s \o t) = Len(s) + Len(t)
      /\ \A i \in 1..(Len(s) + Len(t)) : (s \o t)[i] = IF i <= Len(s) THEN s[i] ELSE t[i - Len(s)]
  BY ConcatProperties
<1>2. SUFFICES ASSUME NEW i \in 1..(Len(s) + Len(t)), NEW j \in 1..(Len(s) + Len(t)),
                      K[(s \o t)[i]] = K[(s \o t)[j]]
               PROVE  i = j
  BY <1>1 DEF Keyed
<1>3. /\ (s \o t)[i] = IF i <= Len(s) THEN s[i] ELSE t[i - Len(s)]
      /\ (s \o t)[j] = IF j <= Len(s) THEN s[j] ELSE t[j - Len(s)]
  BY <1>1
<1>4. ToSet(s) = {s[k] : k \in 1..Len(s)} /\ ToSet(t) = {t[k] : k \in 1..Len(t)}
  BY SetType
<1>5. CASE i <= Len(s) /\ j <= Len(s)
  <2>1. i \in 1..Len(s) /\ j \in 1..Len(s)
    BY <1>5, <1>1
  <2> QED BY <1>2, <1>3, <1>5, <2>1 DEF Keyed
<1>6. CASE i <= Len(s) /\ ~(j <= Len(s))
  <2>1. i \in 1..Len(s) /\ j - Len(s) \in 1..Len(t)
    BY <1>6, <1>1
  <2>2. s[i] \in ToSet(s) /\ t[j - Len(s)] \in ToSet(t)
    BY <1>4, <2>1
  <2> QED BY <1>2, <1>3, <1>6, <2>2
<1>7. CASE ~(i <= Len(s)) /\ j <= Len(s)
  <2>1. j \in 1..Len(s) /\ i - Len(s) \in 1..Len(t)
    BY <1>7, <1>1
  <2>2. s[j] \in ToSet(s) /\ t[i - Len(s)] \in ToSet(t)
    BY <1>4, <2>1
  <2> QED BY <1>2, <1>3, <1>7, <2>2
<1>8. CASE ~(i <= Len(s)) /\ ~(j <= Len(s))
  <2>1. i - Len(s) \in 1..Len(t) /\ j - Len(s) \in 1..Len(t)
    BY <1>8, <1>1
  <2>2. i - Len(s) = j - Len(s)
    BY <1>2, <1>3, <1>8, <2>1 DEF Keyed
  <2> QED BY <2>2, <1>1
<1> QED BY <1>5, <1>6, <1>7, <1>8

\* One element more, with a value of its own.
LEMMA KeyedAppend ==
  ASSUME NEW E, NEW s \in Seq(E), NEW e \in E, NEW K
  PROVE  Keyed(Append(s, e), K) <=> Keyed(s, K) /\ \A x \in ToSet(s) : K[x] # K[e]
<1> DEFINE t == Append(s, e)  n == Len(s)
<1>1. /\ t \in Seq(E) /\ Len(t) = n + 1 /\ t[n + 1] = e /\ n \in Nat
      /\ \A i \in 1..n : t[i] = s[i]
  BY AppendProperties, LenProperties
<1> HIDE DEF t
<1>2. ToSet(s) = {s[k] : k \in 1..n}
  BY SetType
<1>3. ASSUME Keyed(t, K) PROVE Keyed(s, K) /\ \A x \in ToSet(s) : K[x] # K[e]
  <2>1. Keyed(s, K)
    BY <1>1, <1>3 DEF Keyed
  <2>2. ASSUME NEW k \in 1..n, K[s[k]] = K[e] PROVE FALSE
    <3>1. k \in 1..Len(t) /\ n + 1 \in 1..Len(t) /\ k # n + 1 /\ t[k] = s[k]
      BY <1>1
    <3> QED BY <3>1, <2>2, <1>1, <1>3 DEF Keyed
  <2> QED BY <2>1, <2>2, <1>2
<1>4. ASSUME Keyed(s, K), \A x \in ToSet(s) : K[x] # K[e] PROVE Keyed(t, K)
  <2>1. SUFFICES ASSUME NEW i \in 1..(n + 1), NEW j \in 1..(n + 1), K[t[i]] = K[t[j]] PROVE i = j
    BY <1>1 DEF Keyed
  <2>2. \A k \in 1..n : K[s[k]] # K[e]
    BY <1>4, <1>2
  <2>3. (i = n + 1 \/ i \in 1..n) /\ (j = n + 1 \/ j \in 1..n)
    BY <1>1
  <2> QED BY <2>1, <2>2, <2>3, <1>1, <1>4 DEF Keyed
<1> QED BY <1>3, <1>4 DEF t

\* An empty sequence has no two elements.
LEMMA KeyedEmpty ==
  ASSUME NEW K
  PROVE  Keyed(<<>>, K)
BY DEF Keyed

\* Two elements that have the same value are the same.
LEMMA KeyedSame ==
  ASSUME NEW E, NEW s \in Seq(E), NEW K, Keyed(s, K),
         NEW x \in ToSet(s), NEW y \in ToSet(s), K[x] = K[y]
  PROVE  x = y
<1>1. PICK i \in 1..Len(s) : x = s[i]
  BY SetType
<1>2. PICK j \in 1..Len(s) : y = s[j]
  BY SetType
<1> QED BY <1>1, <1>2 DEF Keyed

\* A selection has no value of K twice if the sequence has not.
LEMMA KeyedOnly ==
  ASSUME NEW E, NEW s \in Seq(E), NEW K, Keyed(s, K), NEW S
  PROVE  Keyed(Only(s, S), K)
<1> DEFINE T == {u \in Seq(E) : Keyed(u, K) => Keyed(Only(u, S), K)}
<1>1. <<>> \in T
  BY OnlyEmpty, KeyedEmpty, EmptySeq
<1>2. ASSUME NEW u \in T, NEW e \in E PROVE Append(u, e) \in T
  <2>0. u \in Seq(E) /\ (Keyed(u, K) => Keyed(Only(u, S), K))
    OBVIOUS
  <2> HIDE DEF T
  <2>1. Append(u, e) \in Seq(E) /\ Only(u, S) \in Seq(E)
    BY <2>0, AppendProperties, OnlySet
  <2>2. SUFFICES ASSUME Keyed(Append(u, e), K) PROVE Keyed(Only(Append(u, e), S), K)
    BY <2>1 DEF T
  <2>3. Only(Append(u, e), S) = IF e \in S THEN Append(Only(u, S), e) ELSE Only(u, S)
    BY <2>0, OnlyAppend
  <2>4. Keyed(u, K) /\ \A x \in ToSet(u) : K[x] # K[e]
    BY <2>0, <2>2, KeyedAppend
  <2>5. ToSet(Only(u, S)) \subseteq ToSet(u)
    BY <2>0, OnlySet
  <2>6. Keyed(Append(Only(u, S), e), K)
    BY <2>0, <2>1, <2>4, <2>5, KeyedAppend
  <2> QED BY <2>0, <2>3, <2>4, <2>6
<1>3. T = Seq(E)
  <2>1. T \in SUBSET Seq(E)
    OBVIOUS
  <2> HIDE DEF T
  <2> QED BY <2>1, <1>1, <1>2, SeqInd
<1> QED BY <1>3

-----------------------------------------------------------------------------
(* Sequences made of groups *)

\* F[n] is the group of n, for each n of N.
Groups(F, N, E) == F \in [N -> Seq(E)]

\* The groups F[n] of the names n in o, one after the other.
Group(F, o) == FlattenSeq([k \in 1..Len(o) |-> F[o[k]]])

\* The groups of no names.
LEMMA GroupEmpty ==
  ASSUME NEW F
  PROVE  Group(F, <<>>) = <<>>
<1>1. [k \in 1..Len(<<>>) |-> F[<<>>[k]]] = <<>>
  OBVIOUS
<1> QED BY <1>1, FlattenEmpty DEF Group

\* The group of one name more comes last.
LEMMA GroupAppend ==
  ASSUME NEW E, NEW N, NEW F, Groups(F, N, E), NEW o \in Seq(N), NEW n \in N
  PROVE  Group(F, Append(o, n)) = Group(F, o) \o F[n]
<1> DEFINE p == Append(o, n)
           ss == [k \in 1..Len(o) |-> F[o[k]]]
           tt == [k \in 1..Len(p) |-> F[p[k]]]
<1>1. /\ p \in Seq(N) /\ Len(p) = Len(o) + 1 /\ p[Len(o) + 1] = n /\ Len(o) \in Nat
      /\ \A i \in 1..Len(o) : p[i] = o[i]
  BY AppendProperties, LenProperties
<1>0. F \in [N -> Seq(E)]
  BY DEF Groups
<1>2. \A i \in 1..Len(o) : o[i] \in N
  BY ElementOfSeq
<1> HIDE DEF p
<1>3. ss \in Seq(Seq(E)) /\ Len(ss) = Len(o) /\ \A i \in 1..Len(o) : ss[i] = F[o[i]]
  BY <1>0, <1>1, <1>2
<1>4. \A i \in 1..Len(p) : p[i] \in N
  BY <1>1, ElementOfSeq
<1>5. tt \in Seq(Seq(E)) /\ Len(tt) = Len(o) + 1 /\ \A i \in 1..(Len(o) + 1) : tt[i] = F[p[i]]
  BY <1>0, <1>1, <1>4
<1> DEFINE g == F[n]
<1>6. g \in Seq(E)
  BY <1>0
<1> HIDE DEF ss, tt, g
<1>7. /\ Append(ss, g) \in Seq(Seq(E)) /\ Len(Append(ss, g)) = Len(o) + 1
      /\ Append(ss, g)[Len(o) + 1] = g
      /\ \A i \in 1..Len(o) : Append(ss, g)[i] = ss[i]
  BY <1>3, <1>6, AppendProperties
<1>8. \A i \in 1..(Len(o) + 1) : tt[i] = Append(ss, g)[i]
  <2>1. TAKE i \in 1..(Len(o) + 1)
  <2>2. CASE i = Len(o) + 1
    BY <2>2, <1>1, <1>5, <1>7 DEF g
  <2>3. CASE i # Len(o) + 1
    <3>1. i \in 1..Len(o)
      BY <2>3, <1>1
    <3>2. p[i] = o[i]
      BY <3>1, <1>1
    <3>3. Append(ss, g)[i] = F[o[i]]
      BY <3>1, <1>3, <1>7
    <3>4. tt[i] = F[p[i]]
      BY <1>5
    <3> QED BY <3>2, <3>3, <3>4
  <2> QED BY <2>2, <2>3
<1>9. tt = Append(ss, g)
  BY <1>5, <1>7, <1>8, SeqEqual
<1>10. FlattenSeq(tt) = FlattenSeq(ss) \o g
  BY <1>3, <1>6, <1>9, FlattenAppend
<1> QED BY <1>10 DEF ss, tt, p, g, Group

\* What is in the groups is in the group of one of the names.
LEMMA GroupSet ==
  ASSUME NEW E, NEW N, NEW F, Groups(F, N, E), NEW o \in Seq(N)
  PROVE  /\ Group(F, o) \in Seq(E)
         /\ \A e : e \in ToSet(Group(F, o)) <=> \E n \in ToSet(o) : e \in ToSet(F[n])
<1> DEFINE Is(u) == /\ Group(F, u) \in Seq(E)
                    /\ \A e : e \in ToSet(Group(F, u)) <=> \E n \in ToSet(u) : e \in ToSet(F[n])
           T == {u \in Seq(N) : Is(u)}
<1>1. <<>> \in T
  BY GroupEmpty, SetEmpty, EmptySeq
<1>2. ASSUME NEW u \in T, NEW n \in N PROVE Append(u, n) \in T
  <2>0. u \in Seq(N) /\ Is(u)
    OBVIOUS
  <2> HIDE DEF T
  <2> DEFINE g == F[n]  r == Group(F, u)
  <2>1. Append(u, n) \in Seq(N) /\ g \in Seq(E) /\ r \in Seq(E)
    BY <2>0, AppendProperties DEF Groups
  <2>2. Group(F, Append(u, n)) = r \o g
    BY <2>0, GroupAppend
  <2>5. ToSet(Append(u, n)) = ToSet(u) \cup {n}
    BY <2>0, SetAppend
  <2>6. \A e : e \in ToSet(r) <=> \E m \in ToSet(u) : e \in ToSet(F[m])
    BY <2>0
  <2> HIDE DEF r
  <2>7. \A e : e \in ToSet(r) \cup ToSet(g) <=> \E m \in ToSet(u) \cup {n} : e \in ToSet(F[m])
    BY <2>6
  <2> HIDE DEF g
  <2>3. r \o g \in Seq(E)
    BY <2>1, ConcatProperties
  <2>4. ToSet(r \o g) = ToSet(r) \cup ToSet(g)
    BY <2>1, SetConcat
  <2> QED BY <2>1, <2>2, <2>3, <2>4, <2>5, <2>7 DEF T
<1>3. T = Seq(N)
  <2>1. T \in SUBSET Seq(N)
    OBVIOUS
  <2> HIDE DEF T
  <2> QED BY <2>1, <1>1, <1>2, SeqInd
<1> QED BY <1>3

\* Empty groups may be left out.
LEMMA GroupDrops ==
  ASSUME NEW E, NEW N, NEW F, Groups(F, N, E), NEW o \in Seq(N), NEW S,
         \A n \in N : n \notin S => F[n] = <<>>
  PROVE  Group(F, Only(o, S)) = Group(F, o)
<1> DEFINE T == {u \in Seq(N) : Group(F, Only(u, S)) = Group(F, u)}
<1>1. <<>> \in T
  BY OnlyEmpty, EmptySeq
<1>2. ASSUME NEW u \in T, NEW n \in N PROVE Append(u, n) \in T
  <2>0. u \in Seq(N) /\ Group(F, Only(u, S)) = Group(F, u)
    OBVIOUS
  <2> HIDE DEF T
  <2> DEFINE g == F[n]  r == Group(F, u)  v == Only(u, S)
  <2>1. Append(u, n) \in Seq(N) /\ g \in Seq(E) /\ r \in Seq(E) /\ v \in Seq(N)
    BY <2>0, AppendProperties, GroupSet, OnlySet DEF Groups
  <2>2. Group(F, Append(u, n)) = r \o g
    BY <2>0, GroupAppend
  <2>3. Only(Append(u, n), S) = IF n \in S THEN Append(v, n) ELSE v
    BY <2>0, OnlyAppend
  <2>4. Group(F, v) = r
    BY <2>0
  <2>5. n \notin S => g = <<>>
    OBVIOUS
  <2> HIDE DEF v
  <2>6. Group(F, Append(v, n)) = Group(F, v) \o g
    BY <2>1, GroupAppend
  <2> HIDE DEF g, r
  <2>7. r \o <<>> = r
    BY <2>1, ConcatEmptySeq
  <2>8. Group(F, IF n \in S THEN Append(v, n) ELSE v) = r \o g
    BY <2>4, <2>5, <2>6, <2>7
  <2> QED BY <2>1, <2>2, <2>3, <2>8 DEF T
<1>3. T = Seq(N)
  <2>1. T \in SUBSET Seq(N)
    OBVIOUS
  <2> HIDE DEF T
  <2> QED BY <2>1, <1>1, <1>2, SeqInd
<1> QED BY <1>3

\* No name is there twice.
Once(o) == \A i, j \in 1..Len(o) : o[i] = o[j] => i = j

\* One name more, that is not there yet.
LEMMA OnceAppend ==
  ASSUME NEW E, NEW s \in Seq(E), NEW e \in E
  PROVE  Once(Append(s, e)) <=> Once(s) /\ e \notin ToSet(s)
<1> DEFINE K == [x \in E |-> x]
<1>1. \A t \in Seq(E) : Keyed(t, K) <=> Once(t)
  <2>1. TAKE t \in Seq(E)
  <2>2. \A i \in 1..Len(t) : t[i] \in E
    BY ElementOfSeq
  <2>3. \A i, j \in 1..Len(t) : K[t[i]] = t[i] /\ K[t[j]] = t[j]
    BY <2>2
  <2> HIDE DEF K
  <2> QED BY <2>3 DEF Keyed, Once
<1>2. \A x \in ToSet(s) : K[x] = x
  BY SetType
<1>3. K[e] = e
  OBVIOUS
<1> HIDE DEF K
<1>4. Keyed(Append(s, e), K) <=> Keyed(s, K) /\ \A x \in ToSet(s) : K[x] # K[e]
  BY KeyedAppend
<1>5. Append(s, e) \in Seq(E)
  BY AppendProperties
<1> QED BY <1>1, <1>2, <1>3, <1>4, <1>5

\* The elements of one group are found again, if they can be told from others.
LEMMA GroupOnly ==
  ASSUME NEW E, NEW N, NEW F, Groups(F, N, E), NEW o \in Seq(N), Once(o),
         NEW n \in N, NEW S, ToSet(F[n]) \subseteq S,
         \A m \in N : m # n => ToSet(F[m]) \cap S = {}
  PROVE  Only(Group(F, o), S) = IF n \in ToSet(o) THEN F[n] ELSE <<>>
<1> DEFINE Is(u) == Only(Group(F, u), S) = IF n \in ToSet(u) THEN F[n] ELSE <<>>
           T == {u \in Seq(N) : Once(u) => Is(u)}
<1>1. <<>> \in T
  BY OnlyEmpty, GroupEmpty, SetEmpty, EmptySeq
<1>2. ASSUME NEW u \in T, NEW m \in N PROVE Append(u, m) \in T
  <2>0. u \in Seq(N) /\ (Once(u) => Is(u))
    OBVIOUS
  <2> HIDE DEF T
  <2>1. SUFFICES ASSUME Once(Append(u, m)) PROVE Is(Append(u, m))
    BY <2>0, AppendProperties DEF T
  <2>2. Once(u) /\ m \notin ToSet(u)
    BY <2>0, <2>1, OnceAppend
  <2> DEFINE g == F[m]  r == Group(F, u)  h == F[n]
  <2>3. g \in Seq(E) /\ r \in Seq(E) /\ h \in Seq(E)
    BY <2>0, GroupSet DEF Groups
  <2>4. Group(F, Append(u, m)) = r \o g
    BY <2>0, GroupAppend
  <2>5. ToSet(Append(u, m)) = ToSet(u) \cup {m}
    BY <2>0, SetAppend
  <2>6. Only(r, S) = IF n \in ToSet(u) THEN h ELSE <<>>
    BY <2>0, <2>2
  <2>7. /\ m = n => g = h /\ ToSet(g) \subseteq S
        /\ m # n => ToSet(g) \cap S = {}
    OBVIOUS
  <2> HIDE DEF g, r, h
  <2>8. Only(r \o g, S) = Only(r, S) \o Only(g, S)
    BY <2>3, OnlyConcat
  <2>9. Only(g, S) = IF m = n THEN h ELSE <<>>
    BY <2>3, <2>7, OnlyAllOrNone
  <2>10. h \o <<>> = h /\ <<>> \o h = h /\ <<>> \o <<>> = <<>>
    BY <2>3, ConcatEmptySeq, EmptySeq
  <2>11. Only(r \o g, S) = IF n \in ToSet(u) \cup {m} THEN h ELSE <<>>
    <3>1. CASE m = n
      BY <3>1, <2>2, <2>6, <2>8, <2>9, <2>10
    <3>2. CASE m # n
      BY <3>2, <2>6, <2>8, <2>9, <2>10
    <3> QED BY <3>1, <3>2
  <2> QED BY <2>4, <2>5, <2>11 DEF h
<1>3. T = Seq(N)
  <2>1. T \in SUBSET Seq(N)
    OBVIOUS
  <2> HIDE DEF T
  <2> QED BY <2>1, <1>1, <1>2, SeqInd
<1> QED BY <1>3

\* Groups that have no value of K twice and none in common, in a row.
LEMMA GroupKeyed ==
  ASSUME NEW E, NEW N, NEW F, Groups(F, N, E), NEW o \in Seq(N), Once(o), NEW K,
         \A n \in N : Keyed(F[n], K),
         \A m, n \in N : \A x \in ToSet(F[m]), y \in ToSet(F[n]) : K[x] = K[y] => m = n
  PROVE  Keyed(Group(F, o), K)
<1> DEFINE T == {u \in Seq(N) : Once(u) => Keyed(Group(F, u), K)}
<1>1. <<>> \in T
  BY GroupEmpty, KeyedEmpty, EmptySeq
<1>2. ASSUME NEW u \in T, NEW m \in N PROVE Append(u, m) \in T
  <2>0. u \in Seq(N) /\ (Once(u) => Keyed(Group(F, u), K))
    OBVIOUS
  <2> HIDE DEF T
  <2>1. SUFFICES ASSUME Once(Append(u, m)) PROVE Keyed(Group(F, Append(u, m)), K)
    BY <2>0, AppendProperties DEF T
  <2>2. Once(u) /\ m \notin ToSet(u)
    BY <2>0, <2>1, OnceAppend
  <2> DEFINE g == F[m]  r == Group(F, u)
  <2>3. g \in Seq(E) /\ r \in Seq(E)
    BY <2>0, GroupSet DEF Groups
  <2>4. Group(F, Append(u, m)) = r \o g
    BY <2>0, GroupAppend
  <2>5. Keyed(r, K) /\ Keyed(g, K)
    BY <2>0, <2>2
  <2>6. \A x \in ToSet(r), y \in ToSet(g) : K[x] # K[y]
    <3>1. TAKE x \in ToSet(r), y \in ToSet(g)
    <3>2. PICK n \in ToSet(u) : x \in ToSet(F[n])
      BY <2>0, GroupSet
    <3>3. n \in N /\ n # m
      BY <2>0, <2>2, <3>2, SetType
    <3> QED BY <3>2, <3>3
  <2> HIDE DEF g, r
  <2>7. Keyed(r \o g, K)
    BY <2>3, <2>5, <2>6, KeyedConcat
  <2> QED BY <2>4, <2>7
<1>3. T = Seq(N)
  <2>1. T \in SUBSET Seq(N)
    OBVIOUS
  <2> HIDE DEF T
  <2> QED BY <2>1, <1>1, <1>2, SeqInd
<1> QED BY <1>3

-----------------------------------------------------------------------------
(* Bullets *)

\* What stands before the split of a bullet, and behind it; names of projects.
Tags == ToSet(Labels) \cup {Nothing}
Words == (Texts \cup ToSet(Labels)) \ {Nothing}
Heads == Names \ {Nothing}
\* The bullets a scan finds.
Items == [project: Heads, label: Tags, text: Words]
\* What a bullet says, and that with its project.
Low == [b \in Items |-> Lower[b.text]]
PLow == [b \in Items |-> <<b.project, Lower[b.text]>>]

\* No bullets are no bullets.
LEMMA DistinctEmpty == Distinct(<<>>) = <<>>
BY FlattenEmpty DEF Distinct

\* One bullet more stays if none before it has its text.
LEMMA DistinctAppend ==
  ASSUME NEW s \in Seq(Items), NEW e \in Items
  PROVE  Distinct(Append(s, e)) =
           IF \E x \in ToSet(s) : Low[x] = Low[e] THEN Distinct(s) ELSE Append(Distinct(s), e)
<1> DEFINE t == Append(s, e)  n == Len(s)
           Again(u, i) == \E j \in 1..(i - 1) : Lower[u[j].text] = Lower[u[i].text]
           ss == [i \in 1..Len(s) |-> IF Again(s, i) THEN <<>> ELSE <<s[i]>>]
           tt == [i \in 1..Len(t) |-> IF Again(t, i) THEN <<>> ELSE <<t[i]>>]
           seen == \E x \in ToSet(s) : Low[x] = Low[e]
           last == IF seen THEN <<>> ELSE <<e>>
<1>1. /\ t \in Seq(Items) /\ Len(t) = n + 1 /\ t[n + 1] = e /\ n \in Nat
      /\ \A i \in 1..n : t[i] = s[i]
  BY AppendProperties, LenProperties
<1>2. \A i \in 1..n : s[i] \in Items
  BY ElementOfSeq
<1> HIDE DEF t
<1>3. \A i \in 1..(n + 1) : t[i] \in Items
  BY <1>1, ElementOfSeq
<1>4. ss \in Seq(Seq(Items)) /\ Len(ss) = n
  <2>1. \A i \in 1..n : (IF Again(s, i) THEN <<>> ELSE <<s[i]>>) \in Seq(Items)
    BY <1>2, EmptySeq
  <2> HIDE DEF Again
  <2> QED BY <1>1, <2>1
<1>5. tt \in Seq(Seq(Items)) /\ Len(tt) = n + 1
  <2>1. \A i \in 1..(n + 1) : (IF Again(t, i) THEN <<>> ELSE <<t[i]>>) \in Seq(Items)
    BY <1>3, EmptySeq
  <2> HIDE DEF Again
  <2> QED BY <1>1, <2>1
<1>6. \A i \in 1..n : Again(t, i) = Again(s, i)
  <2>1. TAKE i \in 1..n
  <2>2. \A j \in 1..(i - 1) : j \in 1..n
    BY <1>1
  <2>3. \A j \in 1..(i - 1) : t[j] = s[j]
    BY <1>1, <2>2
  <2>4. t[i] = s[i]
    BY <1>1
  <2> QED BY <2>3, <2>4
<1>7. Again(t, n + 1) = seen
  <2>1. (n + 1) - 1 = n
    BY <1>1
  <2>2. ToSet(s) = {s[i] : i \in 1..n}
    BY SetType
  <2>3. \A j \in 1..n : Low[s[j]] = Lower[s[j].text]
    BY <1>2 DEF Low
  <2>4. Low[e] = Lower[e.text]
    BY DEF Low
  <2> QED BY <1>1, <2>1, <2>2, <2>3, <2>4
<1>8. \A i \in 1..n : tt[i] = ss[i]
  <2>1. TAKE i \in 1..n
  <2>2. i \in 1..Len(t) /\ t[i] = s[i] /\ Again(t, i) = Again(s, i)
    BY <1>1, <1>6
  <2> HIDE DEF Again
  <2> QED BY <2>2
<1>9. tt[n + 1] = last
  <2>1. n + 1 \in 1..Len(t)
    BY <1>1
  <2> HIDE DEF Again, seen
  <2> QED BY <2>1, <1>1, <1>7
<1>10. last \in Seq(Items)
  <2> HIDE DEF seen
  <2> QED BY EmptySeq
<1>11. FlattenSeq(ss) = Distinct(s) /\ FlattenSeq(tt) = Distinct(t)
  BY DEF Distinct
<1> HIDE DEF ss, tt, last, seen
<1>12. tt = Append(ss, last)
  <2>1. /\ Append(ss, last) \in Seq(Seq(Items)) /\ Len(Append(ss, last)) = n + 1
        /\ Append(ss, last)[n + 1] = last
        /\ \A i \in 1..n : Append(ss, last)[i] = ss[i]
    BY <1>4, <1>10, AppendProperties
  <2>2. \A i \in 1..(n + 1) : tt[i] = Append(ss, last)[i]
    <3>1. TAKE i \in 1..(n + 1)
    <3>2. i = n + 1 \/ i \in 1..n
      BY <1>1
    <3> QED BY <3>2, <2>1, <1>8, <1>9
  <2> QED BY <2>1, <2>2, <1>5, SeqEqual
<1>13. FlattenSeq(Append(ss, last)) = FlattenSeq(ss) \o last
  BY <1>4, <1>10, FlattenAppend
<1>14. Distinct(t) = Distinct(s) \o last
  BY <1>11, <1>12, <1>13
<1>15. Distinct(s) \in Seq(Items)
  <2>1. FlattenSeq(ss) \in Seq(Items)
    BY <1>4, FlattenType
  <2> QED BY <2>1, <1>11
<1>16. CASE seen
  <2>1. last = <<>>
    BY <1>16 DEF last
  <2>2. Distinct(s) \o <<>> = Distinct(s)
    BY <1>15, ConcatEmptySeq
  <2> QED BY <1>16, <2>1, <2>2, <1>14 DEF t, seen
<1>17. CASE ~seen
  <2>1. last = <<e>>
    BY <1>17 DEF last
  <2>2. Distinct(s) \o <<e>> = Append(Distinct(s), e)
    BY <1>15, AppendIsConcat
  <2> QED BY <1>17, <2>1, <2>2, <1>14 DEF t, seen
<1> QED BY <1>16, <1>17

\* Every text stays, none is there twice, and nothing else is.
LEMMA DistinctFacts ==
  ASSUME NEW s \in Seq(Items)
  PROVE  /\ Distinct(s) \in Seq(Items)
         /\ ToSet(Distinct(s)) \subseteq ToSet(s)
         /\ \A x \in ToSet(s) : \E y \in ToSet(Distinct(s)) : Low[x] = Low[y]
         /\ Keyed(Distinct(s), Low)
         /\ Keyed(s, Low) => Distinct(s) = s
<1> DEFINE Is(u) == /\ Distinct(u) \in Seq(Items)
                    /\ ToSet(Distinct(u)) \subseteq ToSet(u)
                    /\ \A x \in ToSet(u) : \E y \in ToSet(Distinct(u)) : Low[x] = Low[y]
                    /\ Keyed(Distinct(u), Low)
                    /\ Keyed(u, Low) => Distinct(u) = u
           T == {u \in Seq(Items) : Is(u)}
<1>1. <<>> \in T
  BY DistinctEmpty, EmptySeq, SetEmpty, KeyedEmpty
<1>2. ASSUME NEW u \in T, NEW e \in Items PROVE Append(u, e) \in T
  <2>0. u \in Seq(Items) /\ Is(u)
    OBVIOUS
  <2> HIDE DEF T
  <2> DEFINE v == Append(u, e)  d == Distinct(u)  seen == \E x \in ToSet(u) : Low[x] = Low[e]
  <2>1. v \in Seq(Items) /\ d \in Seq(Items)
    BY <2>0, AppendProperties
  <2>2. Distinct(v) = IF seen THEN d ELSE Append(d, e)
    BY <2>0, DistinctAppend
  <2>3. ToSet(v) = ToSet(u) \cup {e}
    BY <2>0, SetAppend
  <2>4. Keyed(v, Low) <=> Keyed(u, Low) /\ \A x \in ToSet(u) : Low[x] # Low[e]
    BY <2>0, KeyedAppend
  <2>5. /\ ToSet(d) \subseteq ToSet(u)
        /\ \A x \in ToSet(u) : \E y \in ToSet(d) : Low[x] = Low[y]
        /\ Keyed(d, Low)
        /\ Keyed(u, Low) => d = u
    BY <2>0
  <2> HIDE DEF d
  <2>6. Append(d, e) \in Seq(Items) /\ ToSet(Append(d, e)) = ToSet(d) \cup {e}
    BY <2>1, AppendProperties, SetAppend
  <2>7. Keyed(Append(d, e), Low) <=> Keyed(d, Low) /\ \A x \in ToSet(d) : Low[x] # Low[e]
    BY <2>1, KeyedAppend
  <2>8. CASE seen
    <3>1. Distinct(v) = d /\ ~Keyed(v, Low)
      BY <2>2, <2>4, <2>8
    <3>2. \A x \in ToSet(v) : \E y \in ToSet(d) : Low[x] = Low[y]
      BY <2>3, <2>5, <2>8
    <3>3. Is(v)
      BY <3>1, <3>2, <2>1, <2>3, <2>5
    <3> QED BY <3>3, <2>1 DEF T
  <2>9. CASE ~seen
    <3>1. Distinct(v) = Append(d, e)
      BY <2>2, <2>9
    <3>2. \A x \in ToSet(v) : \E y \in ToSet(d) \cup {e} : Low[x] = Low[y]
      BY <2>3, <2>5
    <3>3. Keyed(Append(d, e), Low)
      BY <2>5, <2>7, <2>9
    <3>4. Keyed(v, Low) => Append(d, e) = v
      BY <2>4, <2>5
    <3> HIDE DEF seen, v
    <3>5. Is(v)
      BY <3>1, <3>2, <3>3, <3>4, <2>3, <2>5, <2>6
    <3> QED BY <3>5, <2>1 DEF T, v
  <2> QED BY <2>8, <2>9
<1>3. T = Seq(Items)
  <2>1. T \in SUBSET Seq(Items)
    OBVIOUS
  <2> HIDE DEF T
  <2> QED BY <2>1, <1>1, <1>2, SeqInd
<1> QED BY <1>3

\* The labels in the order in which they are printed.
Order == Append(Labels, Nothing)

\* The bullets of each label.
OfLabel(s) == [l \in Tags |-> WithLabel(s, l)]

\* Every label is printed, and once.
LEMMA OrderFacts == Order \in Seq(Tags) /\ ToSet(Order) = Tags /\ Once(Order)
<1>1. Labels \in Seq(ToSet(Labels)) /\ Nothing \in Tags
  BY DEF Labels, ToSet, Tags
<1>2. Labels \in Seq(Tags)
  BY <1>1 DEF Tags, Labels, ToSet
<1>3. Once(Labels)
  BY DEF Labels, Once
<1>4. Nothing \notin ToSet(Labels)
  BY TextAssumption
<1>5. Order \in Seq(Tags)
  BY <1>1, <1>2, AppendProperties DEF Order
<1>6. ToSet(Order) = Tags
  BY <1>1, <1>2, SetAppend DEF Order, Tags
<1>7. Once(Order)
  BY <1>1, <1>2, <1>3, <1>4, OnceAppend DEF Order
<1> QED BY <1>5, <1>6, <1>7

\* The bullets with a label, as a selection.
LEMMA WithLabelFacts ==
  ASSUME NEW s \in Seq(Items)
  PROVE  /\ Groups(OfLabel(s), Tags, Items)
         /\ \A l \in Tags : /\ OfLabel(s)[l] = WithLabel(s, l)
                            /\ WithLabel(s, l) = Only(s, {b \in Items : b.label = l})
                            /\ ToSet(WithLabel(s, l)) = {b \in ToSet(s) : b.label = l}
<1>1. ToSet(s) \subseteq Items
  BY SetType
<1>2. ASSUME NEW l \in Tags
      PROVE  /\ WithLabel(s, l) \in Seq(Items)
             /\ WithLabel(s, l) = Only(s, {b \in Items : b.label = l})
             /\ ToSet(WithLabel(s, l)) = {b \in ToSet(s) : b.label = l}
  <2> DEFINE S == {b \in ToSet(s) : b.label = l}  R == {b \in Items : b.label = l}
  <2>1. ToSet(s) \cap S = S /\ ToSet(s) \cap S = ToSet(s) \cap R
    BY <1>1
  <2>2. WithLabel(s, l) = Only(s, S)
    BY DEF WithLabel
  <2> HIDE DEF S, R
  <2>3. Only(s, S) = Only(s, R)
    BY <2>1, OnlyAgrees
  <2>4. Only(s, S) \in Seq(Items) /\ ToSet(Only(s, S)) = ToSet(s) \cap S
    BY OnlySet
  <2> QED BY <2>1, <2>2, <2>3, <2>4 DEF S, R
<1> QED BY <1>2 DEF Groups, OfLabel

\* Bullets are arranged by putting the groups of the labels in a row.
LEMMA ArrangedGroups ==
  ASSUME NEW s \in Seq(Items)
  PROVE  Arranged(s) = Group(OfLabel(s), Order)
<1> DEFINE F == OfLabel(s)
<1>1. Groups(F, Tags, Items) /\ \A l \in Tags : F[l] = WithLabel(s, l)
  BY WithLabelFacts
<1>2. Labels \in Seq(Tags) /\ Nothing \in Tags
  BY DEF Labels, ToSet, Tags
<1> HIDE DEF F
<1>3. Group(F, Append(Labels, Nothing)) = Group(F, Labels) \o F[Nothing]
  BY <1>1, <1>2, GroupAppend
<1>4. \A k \in 1..Len(Labels) : Labels[k] \in Tags
  BY <1>2, ElementOfSeq
<1>5. [k \in 1..Len(Labels) |-> F[Labels[k]]] = [k \in 1..Len(Labels) |-> WithLabel(s, Labels[k])]
  BY <1>1, <1>4
<1>6. Group(F, Labels) = FlattenSeq([k \in 1..Len(Labels) |-> WithLabel(s, Labels[k])])
  BY <1>5 DEF Group
<1> QED BY <1>1, <1>2, <1>3, <1>6 DEF F, Order, Arranged

\* Arranging loses and repeats nothing, and arranging twice is arranging once.
LEMMA ArrangedFacts ==
  ASSUME NEW s \in Seq(Items)
  PROVE  /\ Arranged(s) \in Seq(Items)
         /\ ToSet(Arranged(s)) = ToSet(s)
         /\ Keyed(s, Low) => Keyed(Arranged(s), Low)
         /\ Arranged(Arranged(s)) = Arranged(s)
<1> DEFINE F == OfLabel(s)  a == Arranged(s)
<1>1. Groups(F, Tags, Items) /\ \A l \in Tags : F[l] = Only(s, {b \in Items : b.label = l})
  BY WithLabelFacts
<1>2. \A l \in Tags : ToSet(F[l]) = {b \in ToSet(s) : b.label = l}
  BY WithLabelFacts
<1>3. Order \in Seq(Tags) /\ ToSet(Order) = Tags /\ Once(Order)
  BY OrderFacts
<1>4. a = Group(F, Order)
  BY ArrangedGroups
<1>5. ToSet(s) \subseteq Items /\ \A b \in Items : b.label \in Tags
  BY SetType DEF Items
<1> HIDE DEF F, a
<1>6. a \in Seq(Items) /\ \A e : e \in ToSet(a) <=> \E l \in Tags : e \in ToSet(F[l])
  BY <1>1, <1>3, <1>4, GroupSet
<1>7. ToSet(a) = ToSet(s)
  <2>1. \A l \in Tags : \A e : e \in ToSet(F[l]) <=> e \in ToSet(s) /\ e.label = l
    BY <1>2
  <2>2. \A e \in ToSet(s) : e.label \in Tags
    BY <1>5
  <2>3. \A e : e \in ToSet(a) <=> e \in ToSet(s)
    BY <2>1, <2>2, <1>6
  <2> QED BY <2>3
<1>8. ASSUME Keyed(s, Low) PROVE Keyed(a, Low)
  <2>1. ASSUME NEW l \in Tags PROVE Keyed(F[l], Low)
    <3>1. PICK S : S = {b \in Items : b.label = l}
      OBVIOUS
    <3>2. F[l] = Only(s, S)
      BY <1>1, <3>1
    <3>3. Keyed(Only(s, S), Low)
      BY <1>8, KeyedOnly
    <3> QED BY <3>2, <3>3
  <2>2. \A l, m \in Tags : \A x \in ToSet(F[l]), y \in ToSet(F[m]) : Low[x] = Low[y] => l = m
    <3>1. TAKE l, m \in Tags
    <3>2. TAKE x \in ToSet(F[l]), y \in ToSet(F[m])
    <3>3. x \in ToSet(s) /\ y \in ToSet(s) /\ x.label = l /\ y.label = m
      BY <1>2
    <3>4. Low[x] = Low[y] => x = y
      BY <3>3, <1>8, KeyedSame
    <3> QED BY <3>3, <3>4
  <2> QED BY <2>1, <2>2, <1>1, <1>3, <1>4, GroupKeyed
<1>9. ASSUME NEW l \in Tags PROVE WithLabel(a, l) = WithLabel(s, l)
  <2> DEFINE S == {b \in Items : b.label = l}
  <2>1. WithLabel(a, l) = Only(a, S)
    BY <1>6, WithLabelFacts
  <2>2. ToSet(F[l]) \subseteq S /\ \A m \in Tags : m # l => ToSet(F[m]) \cap S = {}
    BY <1>2, <1>5
  <2>3. WithLabel(s, l) = F[l]
    BY WithLabelFacts DEF F
  <2> HIDE DEF S
  <2>4. Only(Group(F, Order), S) = IF l \in ToSet(Order) THEN F[l] ELSE <<>>
    BY <2>2, <1>1, <1>3, GroupOnly
  <2> QED BY <2>1, <2>3, <2>4, <1>3, <1>4
<1>10. Arranged(a) = a
  <2>1. OfLabel(a) = OfLabel(s)
    BY <1>9 DEF OfLabel
  <2>2. Arranged(a) = Group(OfLabel(a), Order)
    BY <1>6, ArrangedGroups
  <2> QED BY <2>1, <2>2, <1>4 DEF F
<1> QED BY <1>6, <1>7, <1>8, <1>10 DEF a

-----------------------------------------------------------------------------
(* Projects *)

\* The bullets of one project.
OfProject(n) == {b \in Items : b.project = n}

\* The bullets of a project, as a selection.
LEMMA OwnFacts ==
  ASSUME NEW s \in Seq(Items), NEW n
  PROVE  /\ Own(s, n) \in Seq(Items)
         /\ Own(s, n) = Only(s, OfProject(n))
         /\ ToSet(Own(s, n)) = {b \in ToSet(s) : b.project = n}
<1> DEFINE S == {b \in ToSet(s) : b.project = n}  R == OfProject(n)
<1>1. ToSet(s) \subseteq Items
  BY SetType
<1>2. ToSet(s) \cap S = S /\ ToSet(s) \cap S = ToSet(s) \cap R
  BY <1>1 DEF OfProject
<1>3. Own(s, n) = Only(s, S)
  BY DEF Own
<1> HIDE DEF S, R
<1>4. Only(s, S) = Only(s, R)
  BY <1>2, OnlyAgrees
<1>5. Only(s, S) \in Seq(Items) /\ ToSet(Only(s, S)) = ToSet(s) \cap S
  BY OnlySet
<1> QED BY <1>2, <1>3, <1>4, <1>5 DEF S, R

\* What is printed of each project.
Part(s) == [n \in Heads |-> Arranged(Distinct(Own(s, n)))]

\* A sequence without elements is empty.
LEMMA EmptySet ==
  ASSUME NEW E, NEW s \in Seq(E)
  PROVE  s = <<>> <=> ToSet(s) = {}
<1>1. ToSet(s) = {s[i] : i \in 1..Len(s)} /\ Len(s) \in Nat
  BY SetType, LenProperties
<1>2. s # <<>> => 1 \in 1..Len(s)
  BY EmptySeq
<1> QED BY <1>1, <1>2, SetEmpty

\* What is printed of a project: each text it has bullets with, once, in form.
LEMMA PartFacts ==
  ASSUME NEW s \in Seq(Items)
  PROVE  /\ Groups(Part(s), Heads, Items)
         /\ \A n \in Heads :
              /\ Part(s)[n] = Arranged(Distinct(Own(s, n)))
              /\ ToSet(Part(s)[n]) \subseteq ToSet(s) \cap OfProject(n)
              /\ \A x \in ToSet(s) : x.project = n => \E y \in ToSet(Part(s)[n]) : Low[x] = Low[y]
              /\ Keyed(Part(s)[n], Low)
              /\ Part(s)[n] = <<>> <=> Own(s, n) = <<>>
              /\ Arranged(Distinct(Part(s)[n])) = Part(s)[n]
<1>1. ASSUME NEW n \in Heads
      PROVE  /\ Part(s)[n] = Arranged(Distinct(Own(s, n)))
             /\ Part(s)[n] \in Seq(Items)
             /\ ToSet(Part(s)[n]) \subseteq ToSet(s) \cap OfProject(n)
             /\ \A x \in ToSet(s) : x.project = n => \E y \in ToSet(Part(s)[n]) : Low[x] = Low[y]
             /\ Keyed(Part(s)[n], Low)
             /\ Part(s)[n] = <<>> <=> Own(s, n) = <<>>
             /\ Arranged(Distinct(Part(s)[n])) = Part(s)[n]
  <2> DEFINE o == Own(s, n)  d == Distinct(o)  p == Part(s)[n]
  <2>1. p = Arranged(d)
    BY DEF Part
  <2>2. o \in Seq(Items) /\ ToSet(o) = {b \in ToSet(s) : b.project = n} /\ ToSet(s) \subseteq Items
    BY OwnFacts, SetType
  <2> HIDE DEF o, p
  <2>3. /\ d \in Seq(Items)
        /\ ToSet(d) \subseteq ToSet(o)
        /\ \A x \in ToSet(o) : \E y \in ToSet(d) : Low[x] = Low[y]
        /\ Keyed(d, Low)
    BY <2>2, DistinctFacts
  <2> HIDE DEF d
  <2>4. p \in Seq(Items) /\ ToSet(p) = ToSet(d) /\ Keyed(p, Low) /\ Arranged(p) = p
    BY <2>1, <2>3, ArrangedFacts
  <2>5. Distinct(p) = p
    BY <2>4, DistinctFacts
  <2>6. p = <<>> <=> o = <<>>
    <3>1. p = <<>> <=> ToSet(p) = {}
      BY <2>4, EmptySet
    <3>2. o = <<>> <=> ToSet(o) = {}
      BY <2>2, EmptySet
    <3>3. ToSet(p) = {} <=> ToSet(o) = {}
      BY <2>3, <2>4
    <3> QED BY <3>1, <3>2, <3>3
  <2>7. ToSet(p) \subseteq ToSet(s) \cap OfProject(n)
    BY <2>2, <2>3, <2>4 DEF OfProject
  <2>8. \A x \in ToSet(s) : x.project = n => \E y \in ToSet(p) : Low[x] = Low[y]
    BY <2>2, <2>3, <2>4
  <2>9. Arranged(Distinct(p)) = p
    BY <2>4, <2>5
  <2> HIDE DEF d
  <2>10. p = Arranged(Distinct(o))
    BY <2>1 DEF d
  <2> QED BY <2>4, <2>6, <2>7, <2>8, <2>9, <2>10 DEF o, p
<1>2. Groups(Part(s), Heads, Items)
  <2>1. Part(s) = [n \in Heads |-> Part(s)[n]]
    BY DEF Part
  <2>2. \A n \in Heads : Part(s)[n] \in Seq(Items)
    BY <1>1
  <2> QED BY <2>1, <2>2 DEF Groups
<1> QED BY <1>1, <1>2

\* What is printed of each project is found again under it.
LEMMA FoundAgain ==
  ASSUME NEW s \in Seq(Items), NEW o \in Seq(Heads), Once(o), NEW n \in Heads
  PROVE  Own(Group(Part(s), o), n) = IF n \in ToSet(o) THEN Part(s)[n] ELSE <<>>
<1> DEFINE F == Part(s)  g == Group(F, o)  S == OfProject(n)
<1>1. Groups(F, Heads, Items) /\ \A m \in Heads : ToSet(F[m]) \subseteq OfProject(m)
  BY PartFacts
<1> HIDE DEF F
<1>2. g \in Seq(Items)
  BY <1>1, GroupSet
<1>3. Own(g, n) = Only(g, S)
  <2> HIDE DEF g
  <2> QED BY <1>2, OwnFacts
<1>4. ToSet(F[n]) \subseteq S /\ \A m \in Heads : m # n => ToSet(F[m]) \cap S = {}
  BY <1>1 DEF OfProject
<1> HIDE DEF S
<1>5. Only(g, S) = IF n \in ToSet(o) THEN F[n] ELSE <<>>
  BY <1>1, <1>4, GroupOnly
<1> QED BY <1>3, <1>5 DEF F

\* No text is printed twice of one project.
LEMMA FoundOnce ==
  ASSUME NEW s \in Seq(Items), NEW o \in Seq(Heads), Once(o)
  PROVE  Keyed(Group(Part(s), o), PLow)
<1> DEFINE F == Part(s)
<1>1. /\ Groups(F, Heads, Items)
      /\ \A m \in Heads : ToSet(F[m]) \subseteq OfProject(m) /\ Keyed(F[m], Low)
  BY PartFacts
<1> HIDE DEF F
<1>2. \A m, n \in Heads : \A x \in ToSet(F[m]), y \in ToSet(F[n]) : PLow[x] = PLow[y] => m = n
  BY <1>1 DEF OfProject, PLow
<1>3. ASSUME NEW n \in Heads PROVE Keyed(F[n], PLow)
  <2>1. F[n] \in Seq(Items) /\ Keyed(F[n], Low)
    BY <1>1 DEF Groups
  <2>2. \A i \in 1..Len(F[n]) : F[n][i] \in Items
    BY <2>1, ElementOfSeq
  <2> QED BY <2>1, <2>2 DEF Keyed, Low, PLow
<1> QED BY <1>1, <1>2, <1>3, GroupKeyed DEF F

-----------------------------------------------------------------------------
(* Scans *)

\* What the model may say: headings, labels, and bullets that are not empty.
Lines ==
  {Heading(n) : n \in Names \cup {Nothing}} \cup {Label(Labels[k]) : k \in 1..Len(Labels)}
  \cup {b \in [kind: {"bullet"}, label: Tags, text: Words \cup {Nothing}, wide: BOOLEAN] :
          b.label # Nothing \/ b.text # Nothing}

\* What a scan is after some lines.
Scanned(s) ==
  /\ s \in [current: Names \cup {Nothing}, pending: Tags, order: Seq(Heads),
            bullets: Seq(Items), panics: BOOLEAN]
  /\ s.current # Nothing => s.current \in ToSet(s.order)
  /\ Once(s.order)
  /\ \A b \in ToSet(s.bullets) : b.project \in ToSet(s.order) /\ ~IsPlaceholder(b.label, b.text)

\* What a sequence contains are its elements.
LEMMA ContainsSet ==
  ASSUME NEW E, NEW s \in Seq(E), NEW e
  PROVE  Contains(s, e) <=> e \in ToSet(s)
BY SetType DEF Contains

\* A heading, new or not.
LEMMA TakesHeading ==
  ASSUME NEW s, Scanned(s), NEW n \in Names \cup {Nothing}
  PROVE  /\ Scanned(Take(s, Heading(n)))
         /\ n # Nothing /\ n \notin ToSet(s.order) =>
              Take(s, Heading(n)) = [s EXCEPT !.pending = Nothing, !.current = n, !.order = Append(s.order, n)]
<1> DEFINE o == s.order  line == Heading(n)  t == Take(s, line)
           p == IF n = Nothing \/ Contains(o, n) THEN o ELSE Append(o, n)
           c == IF n = Nothing THEN s.current ELSE n
<1>1. o \in Seq(Heads) /\ Once(o)
  BY DEF Scanned
<1>2. Contains(o, n) <=> n \in ToSet(o)
  BY <1>1, ContainsSet
<1>3. line.kind = "heading" /\ line.name = n
  BY DEF Heading
<1>4. t = [s EXCEPT !.pending = Nothing, !.current = c, !.order = p]
  BY <1>3 DEF Take, Scanned
<1> HIDE DEF t, line
<1>5. p \in Seq(Heads) /\ Once(p) /\ ToSet(o) \subseteq ToSet(p) /\ (n # Nothing => n \in ToSet(p))
  <2>1. CASE n = Nothing \/ n \in ToSet(o)
    BY <2>1, <1>1, <1>2
  <2>2. CASE ~(n = Nothing \/ n \in ToSet(o))
    <3>1. n \in Heads
      BY <2>2 DEF Heads
    <3>2. Append(o, n) \in Seq(Heads) /\ Once(Append(o, n)) /\ ToSet(Append(o, n)) = ToSet(o) \cup {n}
      BY <3>1, <2>2, <1>1, AppendProperties, OnceAppend, SetAppend
    <3> QED BY <3>2, <2>2, <1>2
  <2> QED BY <2>1, <2>2
<1>6. n # Nothing /\ n \notin ToSet(o) => p = Append(o, n) /\ c = n
  BY <1>2
<1> HIDE DEF p, o
<1>7. c \in Names \cup {Nothing} /\ (c # Nothing => c \in ToSet(p))
  BY <1>5 DEF Scanned, o
<1>8. Nothing \in Tags
  BY DEF Tags
<1> HIDE DEF c
<1>9. /\ t \in [current: Names \cup {Nothing}, pending: Tags, order: Seq(Heads),
                bullets: Seq(Items), panics: BOOLEAN]
      /\ t.current = c /\ t.order = p /\ t.bullets = s.bullets
  BY <1>4, <1>5, <1>7, <1>8 DEF Scanned
<1>10. Scanned(t)
  BY <1>9, <1>5, <1>7 DEF Scanned, o
<1> QED BY <1>4, <1>6, <1>10 DEF t, line, o

\* A label on a line of its own.
LEMMA TakesLabel ==
  ASSUME NEW s, Scanned(s), NEW k \in 1..Len(Labels)
  PROVE  Scanned(Take(s, Label(Labels[k])))
<1> DEFINE line == Label(Labels[k])
<1>1. Labels[k] \in Tags
  BY DEF Labels, Tags, ToSet
<1>2. line.kind = "label" /\ line.label = Labels[k]
  BY DEF Label
<1>3. Take(s, line) = [s EXCEPT !.pending = Labels[k]]
  BY <1>2 DEF Take
<1> HIDE DEF line
<1> QED BY <1>1, <1>3 DEF Scanned, line

\* A bullet: dropped, found, or a panic.
LEMMA TakesBullet ==
  ASSUME NEW s, Scanned(s), NEW l \in Tags, NEW t \in Words \cup {Nothing}, NEW w \in BOOLEAN,
         l # Nothing \/ t # Nothing
  PROVE  Scanned(Take(s, Bullet(l, t, w)))
<1> DEFINE line == Bullet(l, t, w)  b == Labelled(s, line)
           u == Take(s, line)
<1>1. line.kind = "bullet" /\ line.label = l /\ line.text = t /\ line.wide = w
  BY DEF Bullet
<1>2. u = IF s.current = Nothing THEN s ELSE IF w THEN [s EXCEPT !.panics = TRUE]
          ELSE IF IsPlaceholder(b.label, b.text) THEN s ELSE [s EXCEPT !.bullets = Append(s.bullets, b)]
  BY <1>1 DEF Take, Scanned
<1>3. CASE s.current = Nothing
  BY <1>2, <1>3
<1>4. CASE s.current # Nothing /\ w
  BY <1>2, <1>4 DEF Scanned
<1>5. CASE s.current # Nothing /\ ~w /\ IsPlaceholder(b.label, b.text)
  BY <1>2, <1>5
<1>6. CASE s.current # Nothing /\ ~w /\ ~IsPlaceholder(b.label, b.text)
  <2>1. b = IF l # Nothing /\ t # Nothing
              THEN [project |-> s.current, label |-> l, text |-> t]
              ELSE [project |-> s.current, label |-> s.pending, text |-> IF l = Nothing THEN t ELSE l]
    BY <1>1 DEF Labelled
  <2>2. s.current \in Heads /\ s.pending \in Tags /\ s.current \in ToSet(s.order)
    BY <1>6 DEF Scanned, Heads
  <2>3. (IF l = Nothing THEN t ELSE l) \in Words /\ (l # Nothing /\ t # Nothing => t \in Words)
    BY TextAssumption DEF Tags, Words
  <2>4. b \in Items /\ b.project = s.current
    BY <2>1, <2>2, <2>3 DEF Items
  <2> HIDE DEF b
  <2>5. s.bullets \in Seq(Items)
    BY DEF Scanned
  <2> DEFINE v == Append(s.bullets, b)
  <2>6. v \in Seq(Items) /\ ToSet(v) = ToSet(s.bullets) \cup {b}
    BY <2>4, <2>5, AppendProperties, SetAppend
  <2>7. u = [s EXCEPT !.bullets = v]
    BY <1>2, <1>6
  <2> HIDE DEF v, u
  <2>8. /\ u \in [current: Names \cup {Nothing}, pending: Tags, order: Seq(Heads),
                  bullets: Seq(Items), panics: BOOLEAN]
        /\ u.current = s.current /\ u.order = s.order /\ u.bullets = v
    BY <2>6, <2>7 DEF Scanned
  <2>9. \A x \in ToSet(v) : x.project \in ToSet(s.order) /\ ~IsPlaceholder(x.label, x.text)
    BY <2>2, <2>4, <2>6, <1>6 DEF Scanned
  <2> QED BY <2>8, <2>9 DEF Scanned, u
<1> QED BY <1>3, <1>4, <1>5, <1>6

\* The state of any scan.
LEMMA ScanIsScanned ==
  ASSUME NEW lines \in Seq(Lines)
  PROVE  Scanned(Scan(lines))
<1> DEFINE T == {u \in Seq(Lines) : Scanned(Scan(u))}
<1>1. <<>> \in T
  <2>1. <<>> \in Seq(Heads) /\ <<>> \in Seq(Items) /\ <<>> \in Seq(Lines) /\ ToSet(<<>>) = {}
    BY EmptySeq, SetEmpty
  <2>2. Once(<<>>)
    BY DEF Once
  <2>3. Scanned(Start)
    BY <2>1, <2>2 DEF Scanned, Start, Tags
  <2> QED BY <2>1, <2>3, ScanEmpty
<1>2. ASSUME NEW u \in T, NEW e \in Lines PROVE Append(u, e) \in T
  <2>0. u \in Seq(Lines) /\ Scanned(Scan(u))
    OBVIOUS
  <2> HIDE DEF T
  <2>1. Append(u, e) \in Seq(Lines)
    BY <2>0, AppendProperties
  <2>2. Scan(Append(u, e)) = Take(Scan(u), e)
    BY <2>0, ScanAppend
  <2>3. Scanned(Take(Scan(u), e))
    <3>1. CASE e \in {Heading(n) : n \in Names \cup {Nothing}}
      BY <3>1, <2>0, TakesHeading
    <3>2. CASE e \in {Label(Labels[k]) : k \in 1..Len(Labels)}
      BY <3>2, <2>0, TakesLabel
    <3>3. CASE e \in {b \in [kind: {"bullet"}, label: Tags, text: Words \cup {Nothing}, wide: BOOLEAN] :
                      b.label # Nothing \/ b.text # Nothing}
      <4>1. /\ e.label \in Tags /\ e.text \in Words \cup {Nothing} /\ e.wide \in BOOLEAN
            /\ e.label # Nothing \/ e.text # Nothing
            /\ e = Bullet(e.label, e.text, e.wide)
        BY <3>3 DEF Bullet
      <4>2. Scanned(Take(Scan(u), Bullet(e.label, e.text, e.wide)))
        BY <4>1, <2>0, TakesBullet
      <4> QED BY <4>1, <4>2
    <3> QED BY <3>1, <3>2, <3>3 DEF Lines
  <2> QED BY <2>1, <2>2, <2>3 DEF T
<1>3. T = Seq(Lines)
  <2>1. T \in SUBSET Seq(Lines)
    OBVIOUS
  <2> HIDE DEF T
  <2> QED BY <2>1, <1>1, <1>2, SeqInd
<1> QED BY <1>3

-----------------------------------------------------------------------------
(* Scans of what has been printed *)

\* The places of the bullets in a text.
BulletsOf(text) == {i \in 1..Len(text) : text[i].kind = "bullet"}

\* A text of which the scan finds these bullets and this order, one bullet for
\* each line with one, and in which no heading is there twice.
Printing(text, bullets, order, names) ==
  /\ text \in Seq(Lines)
  /\ ~Scan(text).panics /\ Scan(text).bullets = bullets /\ Scan(text).order = order
  /\ IsFiniteSet(BulletsOf(text)) /\ Cardinality(BulletsOf(text)) = Len(bullets)
  /\ \A i \in 1..Len(text) : text[i].kind = "heading" => text[i].name \in names
  /\ \A i, j \in 1..Len(text) : text[i].kind = "heading" /\ text[i] = text[j] => i = j

\* The scan is under a project, without a label.
Under(text, n) == Scan(text).current = n /\ Scan(text).pending = Nothing

\* The places of the bullets, with one line more.
LEMMA BulletsAppend ==
  ASSUME NEW E, NEW text \in Seq(E), NEW e \in E
  PROVE  BulletsOf(Append(text, e)) =
           IF e.kind = "bullet" THEN BulletsOf(text) \cup {Len(text) + 1} ELSE BulletsOf(text)
<1> DEFINE t == Append(text, e)  n == Len(text)
<1>1. /\ Len(t) = n + 1 /\ t[n + 1] = e /\ n \in Nat
      /\ \A i \in 1..n : t[i] = text[i]
  BY AppendProperties, LenProperties
<1> HIDE DEF t
<1>2. 1..(n + 1) = 1..n \cup {n + 1}
  BY <1>1
<1>3. BulletsOf(t) = IF e.kind = "bullet" THEN BulletsOf(text) \cup {n + 1} ELSE BulletsOf(text)
  BY <1>1, <1>2 DEF BulletsOf
<1> QED BY <1>3 DEF t

\* The heading of a new project is printed, and the scan is under it.
LEMMA PrintsHeading ==
  ASSUME NEW text, NEW bullets, NEW order, NEW names, Printing(text, bullets, order, names),
         NEW n \in Heads, n \notin ToSet(order), n \notin names
  PROVE  /\ Printing(Append(text, Heading(n)), bullets, Append(order, n), names \cup {n})
         /\ Under(Append(text, Heading(n)), n)
<1> DEFINE line == Heading(n)  t == Append(text, line)  s == Scan(text)
<1>1. text \in Seq(Lines) /\ Scanned(s)
  BY ScanIsScanned DEF Printing
<1>2. line \in Lines /\ line.kind = "heading" /\ line.name = n /\ n # Nothing /\ n \in Names \cup {Nothing}
  BY DEF Lines, Heading, Heads
<1>3. Scan(t) = Take(s, line)
  BY <1>1, <1>2, ScanAppend
<1>4. Take(s, line) = [s EXCEPT !.pending = Nothing, !.current = n, !.order = Append(s.order, n)]
  BY <1>1, <1>2, TakesHeading DEF Printing
<1>5. BulletsOf(t) = BulletsOf(text)
  BY <1>1, <1>2, BulletsAppend
<1>6. /\ t \in Seq(Lines) /\ Len(t) = Len(text) + 1 /\ t[Len(text) + 1] = line /\ Len(text) \in Nat
      /\ \A i \in 1..Len(text) : t[i] = text[i]
  BY <1>1, <1>2, AppendProperties, LenProperties
<1> HIDE DEF t, s, line
<1>7. /\ Scan(t).panics = s.panics /\ Scan(t).bullets = s.bullets /\ Scan(t).order = Append(s.order, n)
      /\ Scan(t).current = n /\ Scan(t).pending = Nothing
  BY <1>1, <1>3, <1>4 DEF Scanned
<1>8. \A i \in 1..Len(t) : i = Len(text) + 1 \/ i \in 1..Len(text)
  BY <1>6
<1>9. \A i \in 1..Len(t) : t[i].kind = "heading" => t[i].name \in names \cup {n}
  BY <1>2, <1>6, <1>8 DEF Printing
<1>10. \A i, j \in 1..Len(t) : t[i].kind = "heading" /\ t[i] = t[j] => i = j
  <2>1. \A i \in 1..Len(text) : text[i] # line
    BY <1>2 DEF Printing
  <2> QED BY <2>1, <1>2, <1>6, <1>8 DEF Printing
<1> QED BY <1>5, <1>6, <1>7, <1>9, <1>10 DEF Printing, Under, s, t, line

\* A bullet of that project is printed, and found again as it was.
LEMMA PrintsBullet ==
  ASSUME NEW text, NEW bullets, NEW order, NEW names, Printing(text, bullets, order, names),
         NEW b \in Items, Under(text, b.project), ~IsPlaceholder(b.label, b.text)
  PROVE  /\ Printing(Append(text, Printed(b)), Append(bullets, b), order, names)
         /\ Under(Append(text, Printed(b)), b.project)
<1> DEFINE line == Printed(b)  t == Append(text, line)  s == Scan(text)
<1>1. text \in Seq(Lines) /\ Scanned(s) /\ s.current = b.project /\ s.pending = Nothing
  BY ScanIsScanned DEF Printing, Under
<1>2. b.project # Nothing /\ b.label \in Tags /\ b.text \in Words /\ b.text # Nothing
      /\ b = [project |-> b.project, label |-> b.label, text |-> b.text]
  BY DEF Items, Heads, Words
<1>3. line = IF b.label = Nothing /\ b.text \in ToSet(Labels)
               THEN [kind |-> "bullet", label |-> b.text, text |-> Nothing, wide |-> FALSE]
               ELSE [kind |-> "bullet", label |-> b.label, text |-> b.text, wide |-> FALSE]
  BY DEF Printed, Bullet
<1>4. line.kind = "bullet" /\ line.wide = FALSE /\ line \in Lines
  <2>1. line.kind = "bullet" /\ line.wide = FALSE
    BY <1>3
  <2>2. /\ line \in [kind: {"bullet"}, label: Tags, text: Words \cup {Nothing}, wide: BOOLEAN]
        /\ line.label # Nothing \/ line.text # Nothing
    BY <1>2, <1>3 DEF Tags
  <2> HIDE DEF line
  <2> QED BY <2>1, <2>2 DEF Lines
<1>5. Labelled(s, line) = b
  BY <1>1, <1>2, <1>3, TextAssumption DEF Labelled
<1>6. Scan(t) = Take(s, line)
  BY <1>1, <1>4, ScanAppend
<1> HIDE DEF line
<1>7. Take(s, line) = [s EXCEPT !.bullets = Append(s.bullets, b)]
  BY <1>1, <1>2, <1>4, <1>5 DEF Take
<1>8. BulletsOf(t) = BulletsOf(text) \cup {Len(text) + 1}
  BY <1>1, <1>4, BulletsAppend
<1>9. /\ t \in Seq(Lines) /\ Len(t) = Len(text) + 1 /\ t[Len(text) + 1] = line /\ Len(text) \in Nat
      /\ \A i \in 1..Len(text) : t[i] = text[i]
  BY <1>1, <1>4, AppendProperties, LenProperties
<1> HIDE DEF t, s
<1>10. /\ Scan(t).panics = s.panics /\ Scan(t).order = s.order
       /\ Scan(t).current = s.current /\ Scan(t).pending = s.pending
       /\ Scan(t).bullets = Append(s.bullets, b)
  BY <1>1, <1>6, <1>7 DEF Scanned
<1>11. IsFiniteSet(BulletsOf(t)) /\ Cardinality(BulletsOf(t)) = Len(Append(bullets, b))
  <2>1. Len(text) + 1 \notin BulletsOf(text)
    BY <1>9 DEF BulletsOf
  <2>2. IsFiniteSet(BulletsOf(text)) /\ Cardinality(BulletsOf(text)) = Len(bullets)
    BY DEF Printing
  <2>3. Cardinality(BulletsOf(text) \cup {Len(text) + 1}) = Len(bullets) + 1
        /\ IsFiniteSet(BulletsOf(text) \cup {Len(text) + 1})
    BY <2>1, <2>2, FS_AddElement
  <2>4. bullets \in Seq(Items)
    BY <1>1 DEF Scanned, Printing, s
  <2>5. Len(Append(bullets, b)) = Len(bullets) + 1
    BY <2>4, AppendProperties
  <2> QED BY <2>3, <2>5, <1>8
<1>12. \A i \in 1..Len(t) : i = Len(text) + 1 \/ i \in 1..Len(text)
  BY <1>9
<1>13. \A i \in 1..Len(t) : t[i].kind = "heading" => i \in 1..Len(text)
  BY <1>4, <1>9, <1>12
<1>14. \A i \in 1..Len(t) : t[i].kind = "heading" => t[i].name \in names
  BY <1>9, <1>13 DEF Printing
<1>15. \A i, j \in 1..Len(t) : t[i].kind = "heading" /\ t[i] = t[j] => i = j
  BY <1>9, <1>13 DEF Printing
<1> QED BY <1>1, <1>9, <1>10, <1>11, <1>14, <1>15 DEF Printing, Under, s, t, line

\* Bullets as they are printed.
AllPrinted(q) == [i \in 1..Len(q) |-> Printed(q[i])]

\* A printed bullet is a line.
LEMMA PrintedLine ==
  ASSUME NEW b \in Items
  PROVE  Printed(b) \in Lines
<1>1. /\ Printed(b) \in [kind: {"bullet"}, label: Tags, text: Words \cup {Nothing}, wide: BOOLEAN]
      /\ Printed(b).label # Nothing \/ Printed(b).text # Nothing
  BY TextAssumption DEF Printed, Bullet, Items, Tags, Words
<1> QED BY <1>1 DEF Lines

\* Bullets are printed one after the other.
LEMMA AllPrintedAppend ==
  ASSUME NEW q \in Seq(Items), NEW b \in Items
  PROVE  /\ AllPrinted(q) \in Seq(Lines)
         /\ AllPrinted(Append(q, b)) = Append(AllPrinted(q), Printed(b))
<1> DEFINE r == Append(q, b)  n == Len(q)  u == AllPrinted(q)  v == AllPrinted(r)
<1>1. /\ r \in Seq(Items) /\ Len(r) = n + 1 /\ r[n + 1] = b /\ n \in Nat
      /\ \A i \in 1..n : r[i] = q[i]
  BY AppendProperties, LenProperties
<1>2. \A i \in 1..n : Printed(q[i]) \in Lines
  BY ElementOfSeq, PrintedLine
<1>3. Printed(b) \in Lines
  BY PrintedLine
<1> HIDE DEF r
<1>4. u \in Seq(Lines) /\ Len(u) = n /\ \A i \in 1..n : u[i] = Printed(q[i])
  BY <1>1, <1>2 DEF AllPrinted
<1>5. \A i \in 1..(n + 1) : Printed(r[i]) \in Lines
  BY <1>1, ElementOfSeq, PrintedLine
<1>6. v \in Seq(Lines) /\ Len(v) = n + 1 /\ \A i \in 1..(n + 1) : v[i] = Printed(r[i])
  BY <1>1, <1>5 DEF AllPrinted
<1> DEFINE line == Printed(b)
<1> HIDE DEF u, v, line
<1>7. /\ Append(u, line) \in Seq(Lines) /\ Len(Append(u, line)) = n + 1
      /\ Append(u, line)[n + 1] = line
      /\ \A i \in 1..n : Append(u, line)[i] = u[i]
  BY <1>3, <1>4, AppendProperties DEF line
<1>8. \A i \in 1..(n + 1) : v[i] = Append(u, line)[i]
  <2>1. TAKE i \in 1..(n + 1)
  <2>2. i = n + 1 \/ i \in 1..n
    BY <1>1
  <2> QED BY <2>2, <1>1, <1>4, <1>6, <1>7 DEF line
<1>9. v = Append(u, line)
  BY <1>6, <1>7, <1>8, SeqEqual
<1> QED BY <1>4, <1>9 DEF u, v, r, line

\* The bullets of a project, printed one after the other.
LEMMA PrintsBullets ==
  ASSUME NEW text, NEW bullets, NEW order, NEW names, Printing(text, bullets, order, names),
         NEW n \in Heads, Under(text, n), NEW q \in Seq(Items),
         \A b \in ToSet(q) : b.project = n /\ ~IsPlaceholder(b.label, b.text)
  PROVE  Printing(text \o AllPrinted(q), bullets \o q, order, names)
<1> DEFINE Is(u) == /\ Printing(text \o AllPrinted(u), bullets \o u, order, names)
                    /\ Under(text \o AllPrinted(u), n)
           Fit(u) == \A b \in ToSet(u) : b.project = n /\ ~IsPlaceholder(b.label, b.text)
           T == {u \in Seq(Items) : Fit(u) => Is(u)}
<1>1. text \in Seq(Lines) /\ bullets \in Seq(Items)
  BY ScanIsScanned DEF Printing, Scanned
<1>2. <<>> \in T
  <2>1. AllPrinted(<<>>) = <<>>
    BY DEF AllPrinted
  <2>2. text \o <<>> = text /\ bullets \o <<>> = bullets
    BY <1>1, ConcatEmptySeq
  <2>3. Is(<<>>)
    BY <2>1, <2>2
  <2> QED BY <2>3, EmptySeq
<1>3. ASSUME NEW u \in T, NEW b \in Items PROVE Append(u, b) \in T
  <2>0. u \in Seq(Items) /\ (Fit(u) => Is(u))
    OBVIOUS
  <2> HIDE DEF T
  <2>1. SUFFICES ASSUME Fit(Append(u, b)) PROVE Is(Append(u, b))
    BY <2>0, AppendProperties DEF T
  <2>2. ToSet(Append(u, b)) = ToSet(u) \cup {b}
    BY <2>0, SetAppend
  <2>3. Fit(u) /\ b.project = n /\ ~IsPlaceholder(b.label, b.text)
    BY <2>1, <2>2
  <2> DEFINE r == text \o AllPrinted(u)  p == bullets \o u
  <2>4. Printing(r, p, order, names) /\ Under(r, n)
    BY <2>0, <2>3
  <2>5. AllPrinted(u) \in Seq(Lines) /\ AllPrinted(Append(u, b)) = Append(AllPrinted(u), Printed(b))
    BY <2>0, AllPrintedAppend
  <2>6. text \o Append(AllPrinted(u), Printed(b)) = Append(text \o AllPrinted(u), Printed(b))
    BY <1>1, <2>5, PrintedLine, ConcatAppend
  <2>7. bullets \o Append(u, b) = Append(bullets \o u, b)
    BY <1>1, <2>0, ConcatAppend
  <2> HIDE DEF r, p
  <2>8. Printing(Append(r, Printed(b)), Append(p, b), order, names) /\ Under(Append(r, Printed(b)), n)
    BY <2>3, <2>4, PrintsBullet
  <2> QED BY <2>5, <2>6, <2>7, <2>8 DEF r, p
<1>4. T = Seq(Items)
  <2>1. T \in SUBSET Seq(Items)
    OBVIOUS
  <2> HIDE DEF T
  <2> QED BY <2>1, <1>2, <1>3, SeqInd
<1>5. q \in T /\ Fit(q)
  BY <1>4
<1> QED BY <1>5

-----------------------------------------------------------------------------
(* The whole text *)

\* The section of each project, and the projects that have one.
Sections(s) == [n \in Heads |-> Section(s, n)]
Kept(s) == {n \in Heads : Part(s)[n] # <<>>}

\* The section of a project: its heading and what is printed of it, or nothing.
LEMMA SectionFacts ==
  ASSUME NEW s \in Seq(Items)
  PROVE  /\ Groups(Sections(s), Heads, Lines)
         /\ \A n \in Heads : Sections(s)[n] = IF n \notin Kept(s) THEN <<>>
                               ELSE <<Heading(n)>> \o AllPrinted(Part(s)[n])
<1>1. ASSUME NEW n \in Heads
      PROVE  /\ Section(s, n) = IF n \notin Kept(s) THEN <<>>
                                ELSE <<Heading(n)>> \o AllPrinted(Part(s)[n])
             /\ Section(s, n) \in Seq(Lines)
  <2> DEFINE p == Part(s)[n]
  <2>1. p = Arranged(Distinct(Own(s, n))) /\ (p = <<>> <=> Own(s, n) = <<>>) /\ p \in Seq(Items)
    BY PartFacts DEF Groups
  <2>2. Section(s, n) = IF Own(s, n) = <<>> THEN <<>> ELSE <<Heading(n)>> \o AllPrinted(p)
    BY <2>1 DEF Section, AllPrinted
  <2> HIDE DEF p
  <2>3. \A i \in 1..Len(p) : Printed(p[i]) \in Lines
    BY <2>1, ElementOfSeq, PrintedLine
  <2>4. AllPrinted(p) \in Seq(Lines)
    BY <2>1, <2>3, LenProperties DEF AllPrinted
  <2>5. <<Heading(n)>> \in Seq(Lines)
    <3>1. Heading(n) \in Lines
      BY DEF Lines, Heads
    <3> QED BY <3>1
  <2>6. <<Heading(n)>> \o AllPrinted(p) \in Seq(Lines) /\ <<>> \in Seq(Lines)
    BY <2>4, <2>5, ConcatProperties, EmptySeq
  <2>7. n \notin Kept(s) <=> Own(s, n) = <<>>
    BY <2>1 DEF Kept, p
  <2> QED BY <2>2, <2>6, <2>7 DEF p
<1>2. Sections(s) \in [Heads -> Seq(Lines)]
  BY <1>1 DEF Sections
<1> QED BY <1>1, <1>2 DEF Sections, Groups

\* Three pieces of a text in a row.
LEMMA LinesInARow ==
  ASSUME NEW a \in Seq(Lines), NEW b \in Seq(Lines), NEW c \in Seq(Lines)
  PROVE  (a \o b) \o c = a \o (b \o c)
BY ConcatAssociative

\* What a scan finds in the sections of some projects.
LEMMA SectionsPrint ==
  ASSUME NEW s \in Seq(Items), \A b \in ToSet(s) : ~IsPlaceholder(b.label, b.text),
         NEW o \in Seq(Heads), Once(o)
  PROVE  Printing(Group(Sections(s), o), Group(Part(s), o), Only(o, Kept(s)), ToSet(o))
<1> DEFINE F == Sections(s)  P == Part(s)  K == Kept(s)
           Is(u) == Printing(Group(F, u), Group(P, u), Only(u, K), ToSet(u))
           T == {u \in Seq(Heads) : Once(u) => Is(u)}
<1>1. /\ Groups(F, Heads, Lines)
      /\ \A n \in Heads : F[n] = IF n \notin K THEN <<>> ELSE <<Heading(n)>> \o AllPrinted(P[n])
  BY SectionFacts
<1>2. /\ Groups(P, Heads, Items)
      /\ \A n \in Heads : ToSet(P[n]) \subseteq ToSet(s) \cap OfProject(n)
  BY PartFacts
<1>3. \A n \in Heads : n \notin K => P[n] = <<>>
  BY DEF Kept
<1> HIDE DEF F, P, K
<1>4. <<>> \in T
  <2>1. Group(F, <<>>) = <<>> /\ Group(P, <<>>) = <<>> /\ Only(<<>>, K) = <<>> /\ ToSet(<<>>) = {}
    BY GroupEmpty, OnlyEmpty, SetEmpty
  <2>2. <<>> \in Seq(Lines) /\ <<>> \in Seq(Heads) /\ Len(<<>>) = 0
    BY EmptySeq
  <2>3. BulletsOf(<<>>) = {}
    BY DEF BulletsOf
  <2>4. IsFiniteSet({}) /\ Cardinality({}) = 0
    BY FS_EmptySet
  <2>5. Printing(<<>>, <<>>, <<>>, {})
    <3>1. ~Scan(<<>>).panics /\ Scan(<<>>).bullets = <<>> /\ Scan(<<>>).order = <<>>
      BY ScanEmpty DEF Start
    <3>2. 1..Len(<<>>) = {}
      BY <2>2
    <3>3. Cardinality(BulletsOf(<<>>)) = Len(<<>>) /\ IsFiniteSet(BulletsOf(<<>>))
      BY <2>2, <2>3, <2>4
    <3> QED BY <2>2, <3>1, <3>2, <3>3 DEF Printing
  <2>6. Is(<<>>)
    BY <2>1, <2>5
  <2> QED BY <2>2, <2>6
<1>5. ASSUME NEW u \in T, NEW n \in Heads PROVE Append(u, n) \in T
  <2>0. u \in Seq(Heads) /\ (Once(u) => Is(u))
    OBVIOUS
  <2> HIDE DEF T
  <2>1. SUFFICES ASSUME Once(Append(u, n)) PROVE Is(Append(u, n))
    BY <2>0, AppendProperties DEF T
  <2>2. Once(u) /\ n \notin ToSet(u)
    BY <2>0, <2>1, OnceAppend
  <2> DEFINE r == Group(F, u)  p == Group(P, u)  k == Only(u, K)  f == F[n]  g == P[n]
  <2>3. Printing(r, p, k, ToSet(u))
    BY <2>0, <2>2
  <2>4. r \in Seq(Lines) /\ p \in Seq(Items) /\ f \in Seq(Lines) /\ g \in Seq(Items)
    BY <2>0, <1>1, <1>2, GroupSet DEF Groups
  <2>5. k \in Seq(Heads) /\ ToSet(k) \subseteq ToSet(u)
    BY <2>0, OnlySet
  <2>6. Group(F, Append(u, n)) = r \o f
    BY <2>0, <1>1, GroupAppend
  <2>7. Group(P, Append(u, n)) = p \o g
    BY <2>0, <1>2, GroupAppend
  <2>8. Only(Append(u, n), K) = IF n \in K THEN Append(k, n) ELSE k
    BY <2>0, OnlyAppend
  <2>9. ToSet(Append(u, n)) = ToSet(u) \cup {n}
    BY <2>0, SetAppend
  <2>10. f = IF n \notin K THEN <<>> ELSE <<Heading(n)>> \o AllPrinted(g)
    BY <1>1
  <2>11. n \notin K => g = <<>>
    BY <1>3
  <2>12. \A b \in ToSet(g) : b.project = n /\ ~IsPlaceholder(b.label, b.text)
    BY <1>2 DEF OfProject
  <2> HIDE DEF r, p, k, f, g
  <2>13. CASE n \notin K
    <3>1. r \o <<>> = r /\ p \o <<>> = p
      BY <2>4, ConcatEmptySeq
    <3>2. Printing(r, p, k, ToSet(u) \cup {n})
      BY <2>3 DEF Printing
    <3>3. Printing(r \o f, p \o g, k, ToSet(u) \cup {n})
      BY <3>1, <3>2, <2>10, <2>11, <2>13
    <3> QED BY <3>3, <2>6, <2>7, <2>8, <2>9, <2>13
  <2>14. CASE n \in K
    <3> DEFINE h == Append(r, Heading(n))  q == AllPrinted(g)
    <3>1. Printing(h, p, Append(k, n), ToSet(u) \cup {n}) /\ Under(h, n)
      BY <2>2, <2>3, <2>5, PrintsHeading
    <3>2. Printing(h \o q, p \o g, Append(k, n), ToSet(u) \cup {n})
      <4> HIDE DEF h
      <4> QED BY <3>1, <2>4, <2>12, PrintsBullets
    <3>3. Heading(n) \in Lines
      BY DEF Lines, Heads
    <3>4. h = r \o <<Heading(n)>> /\ <<Heading(n)>> \in Seq(Lines)
      BY <3>3, <2>4, AppendIsConcat
    <3>5. q \in Seq(Lines)
      <4>1. \A i \in 1..Len(g) : Printed(g[i]) \in Lines
        BY <2>4, ElementOfSeq, PrintedLine
      <4> QED BY <4>1, <2>4, LenProperties DEF AllPrinted
    <3> DEFINE one == <<Heading(n)>>
    <3>6. f = one \o q /\ h = r \o one /\ one \in Seq(Lines)
      BY <2>10, <2>14, <3>4
    <3> HIDE DEF h, q, one
    <3>7. h \o q = r \o f
      <4>0. r \in Seq(Lines) /\ one \in Seq(Lines) /\ q \in Seq(Lines)
        BY <3>5, <3>6, <2>4
      <4>1. (r \o one) \o q = r \o (one \o q)
        BY <4>0, LinesInARow
      <4> QED BY <4>1, <3>6
    <3> QED BY <3>2, <3>7, <2>6, <2>7, <2>8, <2>9, <2>14
  <2> QED BY <2>13, <2>14
<1>6. T = Seq(Heads)
  <2>1. T \in SUBSET Seq(Heads)
    OBVIOUS
  <2> HIDE DEF T
  <2> QED BY <2>1, <1>4, <1>5, SeqInd
<1>7. Is(o)
  <2>1. o \in T
    BY <1>6
  <2> QED BY <2>1
<1> QED BY <1>7 DEF F, P, K

\* A text in form is the sections of its projects in a row.
LEMMA CoalesceSections ==
  ASSUME NEW lines \in Seq(Lines)
  PROVE  Coalesce(lines) = Group(Sections(Scan(lines).bullets), Scan(lines).order)
<1> DEFINE s == Scan(lines)  o == s.order
<1>1. o \in Seq(Heads)
  BY ScanIsScanned DEF Scanned
<1>2. \A k \in 1..Len(o) : o[k] \in Heads
  BY <1>1, ElementOfSeq
<1>3. \A k \in 1..Len(o) : Sections(s.bullets)[o[k]] = Section(s.bullets, o[k])
  BY <1>2 DEF Sections
<1>4. Coalesce(lines) = FlattenSeq([k \in 1..Len(o) |-> Section(s.bullets, o[k])])
  BY DEF Coalesce
<1> HIDE DEF s, o
<1>5. [k \in 1..Len(o) |-> Section(s.bullets, o[k])] = [k \in 1..Len(o) |-> Sections(s.bullets)[o[k]]]
  BY <1>3
<1>6. Coalesce(lines) = Group(Sections(s.bullets), o)
  BY <1>4, <1>5 DEF Group
<1> QED BY <1>6 DEF s, o

\* What a scan finds in a text in form.
LEMMA CoalescePrints ==
  ASSUME NEW lines \in Seq(Lines), NEW s, s = Scan(lines)
  PROVE  Printing(Coalesce(lines), Group(Part(s.bullets), s.order),
                  Only(s.order, Kept(s.bullets)), ToSet(s.order))
<1>1. Scanned(s)
  BY ScanIsScanned
<1> DEFINE o == s.order  b == s.bullets
<1>2. o \in Seq(Heads) /\ Once(o) /\ b \in Seq(Items) /\ \A x \in ToSet(b) : ~IsPlaceholder(x.label, x.text)
  BY <1>1 DEF Scanned
<1>3. Coalesce(lines) = Group(Sections(b), o)
  BY CoalesceSections
<1> HIDE DEF o, b
<1>4. Printing(Group(Sections(b), o), Group(Part(b), o), Only(o, Kept(b)), ToSet(o))
  BY <1>2, SectionsPrint
<1> QED BY <1>3, <1>4 DEF o, b

-----------------------------------------------------------------------------
(* What is said of which project *)

\* What bullets say of their projects.
Told(b) == [project |-> b.project, text |-> Lower[b.text]]
Said(bullets) == {Told(b) : b \in ToSet(bullets)}

\* The heading that a line after the last would be under.
LastHead(lines) == Above(lines, Len(lines) + 1)
Headed(lines) == {lines[j].name : j \in LastHead(lines)}

\* What such a line adds to what is said.
Adds(lines, e, but) ==
  IF e.kind = "bullet" /\ Wording(e) \notin but
    THEN {[project |-> n, text |-> Lower[Wording(e)]] : n \in Headed(lines)} ELSE {}

\* What is said with one line more.
LEMMA RemarksAppend ==
  ASSUME NEW E, NEW lines \in Seq(E), NEW e \in E, NEW but
  PROVE  Remarks(Append(lines, e), but) = Remarks(lines, but) \cup Adds(lines, e, but)
<1> DEFINE t == Append(lines, e)  n == Len(lines)
           say(u, i) == {[project |-> u[j].name, text |-> Lower[Wording(u[i])]] : j \in Above(u, i)}
           Counts(u, i) == u[i].kind = "bullet" /\ Wording(u[i]) \notin but
<1>1. /\ Len(t) = n + 1 /\ t[n + 1] = e /\ n \in Nat
      /\ \A i \in 1..n : t[i] = lines[i]
  BY AppendProperties, LenProperties
<1> HIDE DEF t
<1>2. ASSUME NEW i \in 1..(n + 1) PROVE Above(t, i) = Above(lines, i)
  <2>1. \A j \in 1..(i - 1) : t[j] = lines[j]
    BY <1>1
  <2>2. \A j \in 1..(i - 1) : \A k \in (j + 1)..(i - 1) : t[k] = lines[k]
    BY <1>1
  <2> QED BY <2>1, <2>2 DEF Above
<1>3. ASSUME NEW i \in 1..n PROVE say(t, i) = say(lines, i) /\ (Counts(t, i) <=> Counts(lines, i))
  <2>1. i \in 1..(n + 1) /\ t[i] = lines[i] /\ \A j \in 1..(i - 1) : j \in 1..n
    BY <1>1
  <2>2. \A j \in Above(lines, i) : j \in 1..n
    BY <2>1 DEF Above
  <2>3. Above(t, i) = Above(lines, i) /\ \A j \in Above(lines, i) : t[j] = lines[j]
    BY <1>1, <1>2, <2>1, <2>2
  <2> QED BY <2>1, <2>3
<1>4. say(t, n + 1) = {[project |-> m, text |-> Lower[Wording(e)]] : m \in Headed(lines)}
      /\ (Counts(t, n + 1) <=> e.kind = "bullet" /\ Wording(e) \notin but)
  <2>1. n + 1 \in 1..(n + 1)
    BY <1>1
  <2>2. Above(t, n + 1) = LastHead(lines) /\ \A j \in LastHead(lines) : t[j] = lines[j]
    BY <1>1, <1>2, <2>1 DEF Above, LastHead
  <2>3. say(t, n + 1) = {[project |-> lines[j].name, text |-> Lower[Wording(e)]] : j \in LastHead(lines)}
    BY <1>1, <2>2
  <2> QED BY <1>1, <2>3 DEF Headed
<1>5. \A x : /\ x \in Remarks(t, but) <=> \E i \in 1..(n + 1) : Counts(t, i) /\ x \in say(t, i)
             /\ x \in Remarks(lines, but) <=> \E i \in 1..n : Counts(lines, i) /\ x \in say(lines, i)
  BY <1>1 DEF Remarks
<1>6. \A x : x \in Adds(lines, e, but) <=> Counts(t, n + 1) /\ x \in say(t, n + 1)
  BY <1>4 DEF Adds
<1> HIDE DEF say, Counts
<1>7. 1..(n + 1) = 1..n \cup {n + 1}
  BY <1>1
<1>8. \A x : x \in Remarks(t, but) <=> x \in Remarks(lines, but) \/ x \in Adds(lines, e, but)
  BY <1>3, <1>5, <1>6, <1>7
<1> QED BY <1>8 DEF t

\* Only a heading that names a project is the last of them.
LEMMA LastHeadAppend ==
  ASSUME NEW E, NEW lines \in Seq(E), NEW e \in E
  PROVE  Headed(Append(lines, e)) = IF NamesProject(e) THEN {e.name} ELSE Headed(lines)
<1> DEFINE t == Append(lines, e)  n == Len(lines)
<1>1. /\ Len(t) = n + 1 /\ t[n + 1] = e /\ n \in Nat
      /\ \A i \in 1..n : t[i] = lines[i]
  BY AppendProperties, LenProperties
<1> HIDE DEF t
<1>2. /\ LastHead(t) = {j \in 1..(n + 1) : NamesProject(t[j]) /\ \A k \in (j + 1)..(n + 1) : ~NamesProject(t[k])}
      /\ LastHead(lines) = {j \in 1..n : NamesProject(lines[j]) /\ \A k \in (j + 1)..n : ~NamesProject(lines[k])}
  <2>1. (n + 1) + 1 - 1 = n + 1 /\ (n + 1) - 1 = n
    BY <1>1
  <2> QED BY <1>1, <2>1 DEF LastHead, Above
<1>3. CASE NamesProject(e)
  <2>1. \A j \in 1..n : n + 1 \in (j + 1)..(n + 1)
    BY <1>1
  <2>2. n + 1 \in 1..(n + 1) /\ \A k : k \notin (n + 1 + 1)..(n + 1)
    BY <1>1
  <2>3. \A j \in 1..(n + 1) : j \in 1..n \/ j = n + 1
    BY <1>1
  <2>4. LastHead(t) = {n + 1}
    BY <1>1, <1>2, <1>3, <2>1, <2>2, <2>3
  <2> QED BY <1>1, <1>3, <2>4 DEF t, Headed
<1>4. CASE ~NamesProject(e)
  <2>1. ASSUME NEW j \in 1..n
        PROVE  (\A k \in (j + 1)..(n + 1) : ~NamesProject(t[k])) <=> (\A k \in (j + 1)..n : ~NamesProject(lines[k]))
    <3>1. (j + 1)..(n + 1) = (j + 1)..n \cup {n + 1}
      BY <1>1
    <3>2. \A k \in (j + 1)..n : t[k] = lines[k]
      BY <1>1
    <3> QED BY <1>1, <1>4, <3>1, <3>2
  <2>2. \A j \in 1..(n + 1) : j \in 1..n \/ j = n + 1
    BY <1>1
  <2>3. \A j \in 1..n : j \in 1..(n + 1)
    BY <1>1
  <2>4. LastHead(t) = LastHead(lines)
    BY <1>1, <1>2, <1>4, <2>1, <2>2, <2>3
  <2>5. \A j \in LastHead(lines) : t[j] = lines[j]
    BY <1>1, <1>2
  <2> QED BY <1>4, <2>4, <2>5 DEF t, Headed
<1> QED BY <1>3, <1>4

\* A line has at most one heading it is under, and each bullet is said of at most
\* one project.
LEMMA RemarksFew ==
  ASSUME NEW E, NEW lines \in Seq(E)
  PROVE  /\ IsFiniteSet(Remarks(lines, {})) /\ IsFiniteSet(BulletsOf(lines))
         /\ Cardinality(Remarks(lines, {})) <= Cardinality(BulletsOf(lines))
<1> DEFINE Few(u) == /\ IsFiniteSet(Remarks(u, {})) /\ IsFiniteSet(BulletsOf(u))
                     /\ Cardinality(Remarks(u, {})) <= Cardinality(BulletsOf(u))
           T == {u \in Seq(E) : Few(u)}
<1>1. <<>> \in T
  <2>1. Remarks(<<>>, {}) = {} /\ BulletsOf(<<>>) = {}
    BY DEF Remarks, BulletsOf
  <2>2. IsFiniteSet({}) /\ Cardinality({}) = 0 /\ 0 <= 0
    BY FS_EmptySet
  <2>3. <<>> \in Seq(E)
    OBVIOUS
  <2>4. Few(<<>>)
    BY <2>1, <2>2, Zenon
  <2> HIDE DEF Few
  <2> QED BY <2>3, <2>4
<1>2. ASSUME NEW u \in T, NEW e \in E PROVE Append(u, e) \in T
  <2> DEFINE t == Append(u, e)
  <2>1. u \in Seq(E) /\ Few(u)
    OBVIOUS
  <2>2. t \in Seq(E) /\ Remarks(t, {}) = Remarks(u, {}) \cup Adds(u, e, {})
    BY <2>1, AppendProperties, RemarksAppend
  <2>3. BulletsOf(t) = IF e.kind = "bullet" THEN BulletsOf(u) \cup {Len(u) + 1} ELSE BulletsOf(u)
    BY <2>1, BulletsAppend
  <2> HIDE DEF t
  <2>4. Few(t)
    <3>1. CASE e.kind # "bullet"
      BY <2>1, <2>2, <2>3, <3>1 DEF Adds
    <3>2. CASE e.kind = "bullet"
      <4>1. \A i, j \in LastHead(u) : i = j
        <5>1. \A i, j \in Nat : i < j /\ j <= Len(u) => j \in (i + 1)..Len(u)
          BY <2>1
        <5>2. Len(u) + 1 - 1 = Len(u) /\ Len(u) \in Nat
          BY <2>1
        <5> QED BY <5>1, <5>2 DEF LastHead, Above
      <4>2. Adds(u, e, {}) = {} \/ \E x : Adds(u, e, {}) = {x}
        <5>1. CASE LastHead(u) = {}
          BY <5>1 DEF Adds, Headed
        <5>2. CASE LastHead(u) # {}
          <6>1. PICK j : LastHead(u) = {j}
            BY <4>1, <5>2
          <6> HIDE DEF t, Few, T
          <6>2. Headed(u) = {u[i].name : i \in {j}}
            BY <6>1 DEF Headed
          <6>3. Headed(u) = {u[j].name}
            BY <6>2, Zenon
          <6> QED BY <3>2, <6>3 DEF Adds
        <5> QED BY <5>1, <5>2
      <4>3. Len(u) + 1 \notin BulletsOf(u)
        BY <2>1 DEF BulletsOf
      <4>4. /\ IsFiniteSet(BulletsOf(t)) /\ Cardinality(BulletsOf(t)) = Cardinality(BulletsOf(u)) + 1
            /\ Cardinality(BulletsOf(u)) \in Nat
        BY <2>1, <2>3, <3>2, <4>3, FS_AddElement, FS_CardinalityType
      <4>5. /\ IsFiniteSet(Remarks(t, {})) /\ Cardinality(Remarks(u, {})) \in Nat
            /\ Cardinality(Remarks(t, {})) <= Cardinality(Remarks(u, {})) + 1
        <5>1. Cardinality(Remarks(u, {})) \in Nat /\ \A k \in Nat : k <= k + 1 /\ k + 1 <= k + 1
          BY <2>1, FS_CardinalityType
        <5>2. CASE Adds(u, e, {}) = {}
          <6>1. Remarks(t, {}) = Remarks(u, {})
            BY <2>2, <5>2
          <6> QED BY <2>1, <5>1, <6>1
        <5>3. ASSUME NEW x, Adds(u, e, {}) = {x}
              PROVE  /\ IsFiniteSet(Remarks(t, {}))
                     /\ Cardinality(Remarks(t, {})) <= Cardinality(Remarks(u, {})) + 1
          <6>1. Remarks(t, {}) = Remarks(u, {}) \cup {x}
            BY <2>2, <5>3
          <6>2. /\ IsFiniteSet(Remarks(t, {}))
                /\ Cardinality(Remarks(t, {})) \in {Cardinality(Remarks(u, {})), Cardinality(Remarks(u, {})) + 1}
            BY <2>1, <6>1, FS_AddElement
          <6> QED BY <5>1, <6>2
        <5> QED BY <4>2, <5>1, <5>2, <5>3
      <4>6. Cardinality(Remarks(t, {})) \in Nat
        BY <4>5, FS_CardinalityType
      <4> QED BY <2>1, <4>4, <4>5, <4>6
    <3> QED BY <3>1, <3>2
  <2> HIDE DEF Few
  <2> QED BY <2>2, <2>4 DEF t
<1>3. T = Seq(E)
  <2>1. T \in SUBSET Seq(E)
    OBVIOUS
  <2> HIDE DEF T
  <2> QED BY <2>1, <1>1, <1>2, SeqInd
<1> QED BY <1>3

\* What a scan has found is what is said: it is under the last heading, has all
\* that is no placeholder, and nothing else.
Tracks(lines) ==
  LET s == Scan(lines) IN
  /\ ToSet(s.order) \cap Marked = {}
  /\ Headed(lines) = IF s.current = Nothing THEN {} ELSE {s.current}
  /\ Remarks(lines, Placeholders) \subseteq Said(s.bullets)
  /\ Said(s.bullets) \subseteq Remarks(lines, {})

\* A line that is no bullet says nothing, and may begin another project.
LEMMA TracksHeading ==
  ASSUME NEW u \in Seq(Lines), NEW n \in Names \cup {Nothing}, n \notin Marked, Tracks(u)
  PROVE  Tracks(Append(u, Heading(n)))
<1> DEFINE line == Heading(n)  t == Append(u, line)  s == Scan(u)  v == Scan(t)
           p == IF n = Nothing \/ Contains(s.order, n) THEN s.order ELSE Append(s.order, n)
           c == IF n = Nothing THEN s.current ELSE n
<1>1. line \in Lines /\ line.kind = "heading" /\ line.name = n
  BY DEF Lines, Heading
<1>2. Scanned(s)
  BY ScanIsScanned
<1>3. v = Take(s, line)
  BY <1>1, ScanAppend
<1>4. /\ \A but : Remarks(t, but) = Remarks(u, but) \cup Adds(u, line, but)
      /\ Headed(t) = IF NamesProject(line) THEN {n} ELSE Headed(u)
  BY <1>1, RemarksAppend, LastHeadAppend
<1>5. Tracks(u)
  OBVIOUS
<1> HIDE DEF line, t
<1>6. v = [s EXCEPT !.pending = Nothing, !.current = c, !.order = p]
  BY <1>1, <1>2, <1>3 DEF Take, Scanned
<1>7. ToSet(p) \subseteq ToSet(s.order) \cup (IF n = Nothing THEN {} ELSE {n})
  <2>1. CASE n = Nothing \/ Contains(s.order, n)
    BY <2>1
  <2>2. CASE ~(n = Nothing \/ Contains(s.order, n))
    <3>1. n \in Heads /\ s.order \in Seq(Heads)
      BY <1>2, <2>2 DEF Heads, Scanned
    <3>2. ToSet(Append(s.order, n)) = ToSet(s.order) \cup {n}
      BY <3>1, SetAppend
    <3> QED BY <2>2, <3>2
  <2> QED BY <2>1, <2>2
<1> HIDE DEF p, c, v
<1>8. v.order = p /\ v.current = c /\ v.bullets = s.bullets
  BY <1>2, <1>6 DEF Scanned
<1> HIDE DEF s
<1>9. \A but : Adds(u, line, but) = {}
  BY <1>1 DEF Adds
<1>10. NamesProject(line) <=> n # Nothing
  BY <1>1 DEF NamesProject
<1>11. /\ ToSet(s.order) \cap Marked = {}
       /\ Headed(u) = IF s.current = Nothing THEN {} ELSE {s.current}
       /\ Remarks(u, Placeholders) \subseteq Said(s.bullets)
       /\ Said(s.bullets) \subseteq Remarks(u, {})
  BY <1>5 DEF Tracks, s
<1>12. ToSet(v.order) \cap Marked = {}
  BY <1>7, <1>8, <1>11
<1>13. Headed(t) = IF v.current = Nothing THEN {} ELSE {v.current}
  BY <1>4, <1>8, <1>10, <1>11 DEF c
<1>14. Remarks(t, Placeholders) \subseteq Said(v.bullets) /\ Said(v.bullets) \subseteq Remarks(t, {})
  BY <1>4, <1>8, <1>9, <1>11
<1>15. Tracks(t)
  BY <1>12, <1>13, <1>14 DEF Tracks, v
<1> QED BY <1>15 DEF t, line

\* Neither does a label on a line of its own.
LEMMA TracksLabel ==
  ASSUME NEW u \in Seq(Lines), NEW k \in 1..Len(Labels), Tracks(u)
  PROVE  Tracks(Append(u, Label(Labels[k])))
<1> DEFINE line == Label(Labels[k])  t == Append(u, line)  s == Scan(u)  v == Scan(t)
<1>1. line \in Lines /\ line.kind = "label" /\ line.label = Labels[k]
  BY DEF Lines, Label
<1>2. Scanned(s)
  BY ScanIsScanned
<1>3. v = Take(s, line)
  BY <1>1, ScanAppend
<1>4. ~NamesProject(line)
  BY <1>1 DEF NamesProject
<1>5. /\ \A but : Remarks(t, but) = Remarks(u, but) \cup Adds(u, line, but)
      /\ Headed(t) = Headed(u)
  BY <1>1, <1>4, RemarksAppend, LastHeadAppend
<1>6. Tracks(u)
  OBVIOUS
<1> HIDE DEF line, t
<1>7. v = [s EXCEPT !.pending = Labels[k]]
  BY <1>1, <1>3 DEF Take
<1> HIDE DEF v
<1>8. v.order = s.order /\ v.current = s.current /\ v.bullets = s.bullets
  BY <1>2, <1>7 DEF Scanned
<1>9. \A but : Adds(u, line, but) = {}
  BY <1>1 DEF Adds
<1>10. Tracks(t)
  BY <1>5, <1>6, <1>8, <1>9 DEF Tracks, v, s
<1> QED BY <1>10 DEF t, line

\* A bullet says its wording of the project the scan is under.
LEMMA TracksBullet ==
  ASSUME NEW u \in Seq(Lines), NEW l \in Tags, NEW w \in Words \cup {Nothing}, NEW wide \in BOOLEAN,
         l # Nothing \/ w # Nothing, Tracks(u), ~Scan(Append(u, Bullet(l, w, wide))).panics
  PROVE  Tracks(Append(u, Bullet(l, w, wide)))
<1> DEFINE line == Bullet(l, w, wide)  t == Append(u, line)  s == Scan(u)  v == Scan(t)
           b == Labelled(s, line)  said == [project |-> s.current, text |-> Lower[Wording(line)]]
<1>1. /\ line \in Lines /\ line.kind = "bullet" /\ line.label = l /\ line.text = w /\ line.wide = wide
      /\ line = [kind |-> "bullet", label |-> l, text |-> w, wide |-> wide]
  BY DEF Lines, Bullet
<1>2. Scanned(s)
  BY ScanIsScanned
<1>3. v = Take(s, line)
  BY <1>1, ScanAppend
<1>4. ~NamesProject(line)
  BY <1>1 DEF NamesProject
<1>5. /\ \A but : Remarks(t, but) = Remarks(u, but) \cup Adds(u, line, but)
      /\ Headed(t) = Headed(u)
  BY <1>1, <1>4, RemarksAppend, LastHeadAppend
<1>6. /\ ToSet(s.order) \cap Marked = {}
      /\ Headed(u) = IF s.current = Nothing THEN {} ELSE {s.current}
      /\ Remarks(u, Placeholders) \subseteq Said(s.bullets)
      /\ Said(s.bullets) \subseteq Remarks(u, {})
  BY DEF Tracks
<1>7. b.project = s.current /\ b.text = Wording(line)
  BY <1>1 DEF Labelled, Wording
<1>8. v = IF s.current = Nothing THEN s ELSE IF wide THEN [s EXCEPT !.panics = TRUE]
          ELSE IF IsPlaceholder(b.label, b.text) THEN s ELSE [s EXCEPT !.bullets = Append(s.bullets, b)]
  BY <1>1, <1>3 DEF Take, Scanned
<1>9. ~v.panics
  OBVIOUS
<1> HIDE DEF line, t, s
<1>10. ASSUME NEW but
       PROVE  /\ Adds(u, line, but) \subseteq {said}
              /\ s.current = Nothing \/ Wording(line) \in but => Adds(u, line, but) = {}
              /\ s.current # Nothing /\ Wording(line) \notin but => Adds(u, line, but) = {said}
  <2>1. Headed(u) = IF s.current = Nothing THEN {} ELSE {s.current}
    BY <1>6
  <2> QED BY <1>1, <2>1 DEF Adds
<1> HIDE DEF said, b, v
<1>11. CASE v = s
  <2>1. s.current = Nothing \/ Wording(line) \in Placeholders
    <3>1. s.current # Nothing => ~wide
      BY <1>2, <1>8, <1>9, <1>11 DEF Scanned
    <3>2. s.current # Nothing /\ ~wide /\ ~IsPlaceholder(b.label, b.text) => FALSE
      <4> SUFFICES ASSUME s.current # Nothing, ~wide, ~IsPlaceholder(b.label, b.text) PROVE FALSE
        OBVIOUS
      <4>1. v = [s EXCEPT !.bullets = Append(s.bullets, b)]
        BY <1>8
      <4>2. s.bullets \in Seq(Items) /\ v.bullets = Append(s.bullets, b)
        BY <1>2, <4>1 DEF Scanned
      <4>3. Len(Append(s.bullets, b)) = Len(s.bullets) + 1 /\ Len(s.bullets) \in Nat
        BY <4>2
      <4> QED BY <1>11, <4>2, <4>3
    <3> QED BY <1>7, <3>1, <3>2 DEF IsPlaceholder
  <2>2. Adds(u, line, Placeholders) = {}
    BY <1>10, <2>1
  <2>3. Tracks(t)
    BY <1>5, <1>6, <1>11, <2>2 DEF Tracks, v
  <2> QED BY <2>3 DEF t, line
<1>12. CASE v # s
  <2>1. s.current # Nothing /\ ~wide /\ ~IsPlaceholder(b.label, b.text)
    <3>1. s.current # Nothing /\ wide => v.panics
      BY <1>2, <1>8 DEF Scanned
    <3> QED BY <1>8, <1>9, <1>12, <3>1
  <2>2. v = [s EXCEPT !.bullets = Append(s.bullets, b)]
    BY <1>8, <2>1
  <2>3. b \in Items
    <3>1. b = IF l # Nothing /\ w # Nothing
                THEN [project |-> s.current, label |-> l, text |-> w]
                ELSE [project |-> s.current, label |-> s.pending, text |-> IF l = Nothing THEN w ELSE l]
      BY <1>1 DEF Labelled, b
    <3>2. s.current \in Heads /\ s.pending \in Tags
      BY <1>2, <2>1 DEF Scanned, Heads
    <3>3. (IF l = Nothing THEN w ELSE l) \in Words /\ (l # Nothing /\ w # Nothing => w \in Words)
      BY TextAssumption DEF Tags, Words
    <3> QED BY <3>1, <3>2, <3>3 DEF Items
  <2>4. s.bullets \in Seq(Items)
    BY <1>2 DEF Scanned
  <2>5. ToSet(Append(s.bullets, b)) = ToSet(s.bullets) \cup {b}
    BY <2>3, <2>4, SetAppend
  <2>6. /\ v.bullets = Append(s.bullets, b) /\ v.order = s.order /\ v.current = s.current
    BY <1>2, <2>2 DEF Scanned
  <2>7. Said(v.bullets) = Said(s.bullets) \cup {said}
    <3>1. Told(b) = said
      BY <1>7 DEF Told, said
    <3> QED BY <2>5, <2>6, <3>1 DEF Said
  <2>8. Adds(u, line, {}) = {said}
    BY <1>10, <2>1
  <2>9. Remarks(t, Placeholders) \subseteq Said(v.bullets) /\ Said(v.bullets) \subseteq Remarks(t, {})
    BY <1>5, <1>6, <1>10, <2>7, <2>8
  <2>10. Tracks(t)
    BY <1>5, <1>6, <2>6, <2>9 DEF Tracks, v
  <2> QED BY <2>10 DEF t, line
<1> QED BY <1>11, <1>12

\* What a text without sub-headings says is what a scan that does not panic finds.
LEMMA ScanTracks ==
  ASSUME NEW lines \in Seq(Lines), Plainly(lines), ~Panics(lines)
  PROVE  Tracks(lines)
<1> DEFINE Fine(u) == Plainly(u) /\ ~Scan(u).panics
           T == {u \in Seq(Lines) : Fine(u) => Tracks(u)}
<1>1. <<>> \in T
  <2>1. <<>> \in Seq(Lines) /\ LastHead(<<>>) = {} /\ \A but : Remarks(<<>>, but) = {}
    BY DEF LastHead, Above, Remarks
  <2>2. Scan(<<>>).current = Nothing /\ Scan(<<>>).order = <<>> /\ Scan(<<>>).bullets = <<>>
    BY ScanEmpty DEF Start
  <2>3. ToSet(Scan(<<>>).order) = {} /\ Said(Scan(<<>>).bullets) = {}
    BY <2>2, SetEmpty DEF Said
  <2>4. Headed(<<>>) = {}
    BY <2>1 DEF Headed
  <2>5. Tracks(<<>>)
    BY <2>1, <2>2, <2>3, <2>4 DEF Tracks
  <2> QED BY <2>1, <2>5
<1>2. ASSUME NEW u \in T, NEW e \in Lines PROVE Append(u, e) \in T
  <2> DEFINE t == Append(u, e)
  <2>1. u \in Seq(Lines) /\ (Fine(u) => Tracks(u))
    OBVIOUS
  <2> HIDE DEF T
  <2>2. /\ t \in Seq(Lines) /\ Len(t) = Len(u) + 1 /\ t[Len(u) + 1] = e /\ Len(u) \in Nat
        /\ \A i \in 1..Len(u) : t[i] = u[i]
    BY <2>1, AppendProperties, LenProperties
  <2>3. Scan(t) = Take(Scan(u), e) /\ Scanned(Scan(u))
    BY <2>1, ScanAppend, ScanIsScanned
  <2>4. ASSUME Fine(t) PROVE Tracks(t)
    <3>1. Plainly(u) /\ (e.kind = "heading" => e.name \notin Marked)
      <4>1. Len(u) + 1 \in 1..Len(t) /\ \A i \in 1..Len(u) : i \in 1..Len(t)
        BY <2>2
      <4> HIDE DEF t
      <4> QED BY <2>2, <2>4, <4>1 DEF Plainly
    <3>2. ~Scan(u).panics
      <4>1. Scan(u).panics => Take(Scan(u), e).panics
        BY <2>3 DEF Take, Scanned
      <4> HIDE DEF t
      <4> QED BY <2>3, <2>4, <4>1
    <3>3. Tracks(u)
      BY <2>1, <3>1, <3>2
    <3>4. CASE e \in {Heading(n) : n \in Names \cup {Nothing}}
      <4>1. PICK n \in Names \cup {Nothing} : e = Heading(n)
        BY <3>4
      <4>2. n \notin Marked
        BY <3>1, <4>1 DEF Heading
      <4> QED BY <2>1, <3>3, <4>1, <4>2, TracksHeading
    <3>5. CASE e \in {Label(Labels[k]) : k \in 1..Len(Labels)}
      BY <2>1, <3>3, <3>5, TracksLabel
    <3>6. CASE e \in {b \in [kind: {"bullet"}, label: Tags, text: Words \cup {Nothing}, wide: BOOLEAN] :
                      b.label # Nothing \/ b.text # Nothing}
      <4>1. /\ e.label \in Tags /\ e.text \in Words \cup {Nothing} /\ e.wide \in BOOLEAN
            /\ e.label # Nothing \/ e.text # Nothing
            /\ e = Bullet(e.label, e.text, e.wide)
        BY <3>6 DEF Bullet
      <4>2. ~Scan(Append(u, Bullet(e.label, e.text, e.wide))).panics
        BY <2>4, <4>1
      <4>3. Tracks(Append(u, Bullet(e.label, e.text, e.wide)))
        BY <2>1, <3>3, <4>1, <4>2, TracksBullet
      <4> QED BY <4>1, <4>3
    <3> QED BY <3>4, <3>5, <3>6 DEF Lines
  <2> HIDE DEF t, Fine
  <2> QED BY <2>2, <2>4 DEF T, t
<1>3. T = Seq(Lines)
  <2>1. T \in SUBSET Seq(Lines)
    OBVIOUS
  <2> HIDE DEF T
  <2> QED BY <2>1, <1>1, <1>2, SeqInd
<1>4. Fine(lines)
  BY DEF Panics
<1> HIDE DEF Fine
<1> QED BY <1>3, <1>4

\* As many things are said as there are bullets with a text and project of their own.
LEMMA SaidOnce ==
  ASSUME NEW s \in Seq(Items), Keyed(s, PLow)
  PROVE  IsFiniteSet(Said(s)) /\ Cardinality(Said(s)) = Len(s)
<1> DEFINE f == [i \in 1..Len(s) |-> Told(s[i])]
<1>1. Len(s) \in Nat /\ ToSet(s) = {s[i] : i \in 1..Len(s)} /\ \A i \in 1..Len(s) : s[i] \in Items
  BY SetType, ElementOfSeq, LenProperties
<1>2. \A i, j \in 1..Len(s) : f[i] = f[j] => i = j
  <2> SUFFICES ASSUME NEW i \in 1..Len(s), NEW j \in 1..Len(s), Told(s[i]) = Told(s[j]) PROVE i = j
    OBVIOUS
  <2>1. s[i].project = s[j].project /\ Lower[s[i].text] = Lower[s[j].text]
    BY DEF Told
  <2>2. PLow[s[i]] = PLow[s[j]]
    BY <1>1, <2>1 DEF PLow
  <2> QED BY <2>2 DEF Keyed
<1>3. /\ f \in [1..Len(s) -> Said(s)]
      /\ \A x \in Said(s) : \E i \in 1..Len(s) : f[i] = x
  BY <1>1 DEF Said
<1> HIDE DEF f
<1>4. f \in Bijection(1..Len(s), Said(s))
  BY <1>2, <1>3 DEF Bijection, Injection, Surjection, IsInjective
<1>5. ExistsBijection(1..Len(s), Said(s))
  BY <1>4 DEF ExistsBijection
<1> QED BY <1>1, <1>5, FS_CountingElements, FS_NatBijection

\* What the model said is kept, once and in one place: what the text says is what
\* the scan of the answer has found.
LEMMA TextDigests ==
  ASSUME NEW lines \in Seq(Lines), Plainly(lines), ~Panics(lines)
  PROVE  Digests(lines, Coalesce(lines))
<1> DEFINE text == Coalesce(lines)  s == Scan(lines)  o == s.order  b == s.bullets
           g == Group(Part(b), o)
<1>1. Printing(text, g, Only(o, Kept(b)), ToSet(o))
  BY CoalescePrints
<1>2. /\ o \in Seq(Heads) /\ Once(o) /\ b \in Seq(Items)
      /\ \A x \in ToSet(b) : x.project \in ToSet(o)
  BY ScanIsScanned DEF Scanned
<1> HIDE DEF text, s, o, b
<1>3. Keyed(g, PLow)
  BY <1>2, FoundOnce
<1>4. /\ Groups(Part(b), Heads, Items)
      /\ \A n \in Heads :
           /\ ToSet(Part(b)[n]) \subseteq ToSet(b) \cap OfProject(n)
           /\ \A x \in ToSet(b) : x.project = n => \E y \in ToSet(Part(b)[n]) : Low[x] = Low[y]
  BY <1>2, PartFacts
<1>5. g \in Seq(Items) /\ \A e : e \in ToSet(g) <=> \E n \in ToSet(o) : e \in ToSet(Part(b)[n])
  BY <1>2, <1>4, GroupSet
<1>6. ToSet(o) \subseteq Heads /\ ToSet(b) \subseteq Items /\ ToSet(g) \subseteq Items
  BY <1>2, <1>5, SetType
<1>7. Scan(text).bullets = g
  BY <1>1 DEF Printing
<1> HIDE DEF g
<1>a. Tracks(lines)
  BY ScanTracks
<1>b. ToSet(o) \cap Marked = {} /\ Remarks(lines, Placeholders) \subseteq Said(b) /\ Said(b) \subseteq Remarks(lines, {})
  BY <1>a DEF Tracks, o, b, s
<1>c. text \in Seq(Lines) /\ ~Panics(text) /\ Plainly(text)
  BY <1>1, <1>b DEF Printing, Plainly, Panics
<1>d. Said(g) \subseteq Remarks(text, {})
  <2>1. Tracks(text)
    BY <1>c, ScanTracks
  <2> QED BY <1>7, <2>1 DEF Tracks
<1>8. Said(g) = Said(b)
  <2>1. ToSet(g) \subseteq ToSet(b)
    BY <1>4, <1>5, <1>6
  <2>2. ASSUME NEW x \in ToSet(b) PROVE \E y \in ToSet(g) : Told(x) = Told(y)
    <3>1. PICK n \in Heads : n \in ToSet(o) /\ x.project = n
      BY <1>2, <1>6
    <3>2. PICK y \in ToSet(Part(b)[n]) : Low[x] = Low[y]
      BY <1>4, <3>1
    <3>3. y \in ToSet(g) /\ y.project = n
      BY <1>4, <1>5, <3>1 DEF OfProject
    <3>4. Lower[x.text] = Lower[y.text]
      BY <1>6, <3>2, <3>3 DEF Low
    <3> QED BY <3>1, <3>3, <3>4 DEF Told
  <2> QED BY <2>1, <2>2 DEF Said
<1>9. IsFiniteSet(Said(g)) /\ Cardinality(Said(g)) = Len(g)
  BY <1>3, <1>5, SaidOnce
<1>10. Len(g) = Cardinality(BulletsOf(text))
  BY <1>1 DEF Printing
<1>11. \A i, j \in 1..Len(text) : text[i].kind = "heading" /\ text[i] = text[j] => i = j
  BY <1>1 DEF Printing
<1>12. Said(g) = Remarks(text, {}) /\ Cardinality(Remarks(text, {})) = Cardinality(BulletsOf(text))
  <2>1. /\ IsFiniteSet(Remarks(text, {})) /\ Cardinality(Remarks(text, {})) <= Cardinality(BulletsOf(text))
        /\ IsFiniteSet(BulletsOf(text))
    BY <1>c, RemarksFew
  <2>2. Cardinality(Said(g)) <= Cardinality(Remarks(text, {}))
    BY <1>d, <2>1, FS_Subset
  <2>3. Cardinality(Remarks(text, {})) \in Nat /\ Cardinality(BulletsOf(text)) \in Nat
    BY <2>1, FS_CardinalityType
  <2>4. Cardinality(Said(g)) = Cardinality(Remarks(text, {}))
    BY <1>9, <1>10, <2>1, <2>2, <2>3
  <2> QED BY <1>9, <1>10, <1>d, <2>1, <2>4, FS_Subset
<1> QED BY <1>b, <1>8, <1>11, <1>12 DEF Digests, BulletsOf, text

\* A text in form stays as it is.
LEMMA TextSettles ==
  ASSUME NEW lines \in Seq(Lines)
  PROVE  Settles(lines)
<1> DEFINE text == Coalesce(lines)  s == Scan(lines)  o == s.order  b == s.bullets
           g == Group(Part(b), o)  k == Only(o, Kept(b))
<1>1. Printing(text, g, k, ToSet(o))
  BY CoalescePrints
<1>2. o \in Seq(Heads) /\ Once(o) /\ b \in Seq(Items)
  BY ScanIsScanned DEF Scanned
<1>3. text = Group(Sections(b), o)
  BY CoalesceSections
<1> HIDE DEF text, s, o, b
<1>4. text \in Seq(Lines) /\ Scan(text).bullets = g /\ Scan(text).order = k
  BY <1>1 DEF Printing
<1>5. Coalesce(text) = Group(Sections(g), k)
  BY <1>4, CoalesceSections
<1>6. k \in Seq(Heads) /\ ToSet(k) \subseteq ToSet(o)
  BY <1>2, OnlySet
<1>7. g \in Seq(Items)
  <2>1. Groups(Part(b), Heads, Items)
    BY <1>2, PartFacts
  <2> QED BY <1>2, <2>1, GroupSet
<1>8. ASSUME NEW n \in Heads, n \in ToSet(o) PROVE Sections(g)[n] = Sections(b)[n]
  <2>1. Own(g, n) = Part(b)[n]
    BY <1>2, <1>8, FoundAgain
  <2>2. Arranged(Distinct(Part(b)[n])) = Part(b)[n] /\ Part(b)[n] = Arranged(Distinct(Own(b, n)))
        /\ (Part(b)[n] = <<>> <=> Own(b, n) = <<>>)
    BY <1>2, PartFacts
  <2> HIDE DEF g
  <2>3. Section(g, n) = Section(b, n)
    BY <2>1, <2>2 DEF Section
  <2> QED BY <2>3 DEF Sections
<1> HIDE DEF g, k
<1>9. Group(Sections(g), k) = Group(Sections(b), k)
  <2>1. \A i \in 1..Len(k) : k[i] \in Heads /\ k[i] \in ToSet(o)
    BY <1>6, SetType
  <2>2. [i \in 1..Len(k) |-> Sections(g)[k[i]]] = [i \in 1..Len(k) |-> Sections(b)[k[i]]]
    BY <2>1, <1>8
  <2> QED BY <2>2 DEF Group
<1>10. Group(Sections(b), k) = Group(Sections(b), o)
  <2>1. Groups(Sections(b), Heads, Lines) /\ \A n \in Heads : n \notin Kept(b) => Sections(b)[n] = <<>>
    BY <1>2, SectionFacts
  <2> QED BY <1>2, <2>1, GroupDrops DEF k
<1>11. Coalesce(text) = text
  BY <1>3, <1>5, <1>9, <1>10
<1> QED BY <1>11 DEF Settles, text

-------------------------------------------------------------------------------
(* Texts that are served *)

\* A process that has an answer of the model has finished with it, and its text
\* is what is made of that answer.
SaidOf(now) ==
  now.said # <<>> =>
    /\ now.pc \in {"finished", "write"} /\ now.said \in Answers /\ now.text = Coalesce(now.said)
    /\ ~Panics(now.said)

SaidInv == \A p \in Processes : SaidOf(process[p])

\* A record that has no answer.
Unsaid(now) == now.said = <<>>

\* Such a record owes nothing to the model.
LEMMA UnsaidIs == ASSUME NEW now, Unsaid(now) PROVE SaidOf(now)
BY DEF Unsaid, SaidOf

\* A process at its queries goes on without an answer; only the model gives one.
LEMMA AdvanceSaid ==
  ASSUME TypeInv, SaidInv, NEW p \in Processes, Advance(p) \/ Fail(p)
  PROVE  \E now : Goes(p, now) /\ SaidOf(now)
<1>1. Stands(p, process[p]) /\ SaidOf(process[p])
  BY DEF TypeInv, SaidInv
<1>2. process[p].pc \notin {"finished", "write"} => Unsaid(process[p])
  BY <1>1 DEF SaidOf, Unsaid
<1>3. ASSUME NEW empty, NEW next, Unsaid(next)
      PROVE  Unsaid(Unless(empty, next))
  BY <1>3 DEF Unless, Unsaid, Idle
<1>4. CASE Look(p)
  <2> DEFINE ask == [Idle EXCEPT !.pc = "windows"]
             serve == [Idle EXCEPT !.pc = "finished", !.text = note]
  <2>1. Goes(p, ask) \/ Goes(p, Idle) \/ Goes(p, serve)
    BY <1>4 DEF Look
  <2>2. Unsaid(ask) /\ Unsaid(Idle) /\ Unsaid(serve)
    BY DEF Unsaid, Idle
  <2> HIDE DEF ask, serve
  <2> QED
    BY <2>1, <2>2, UnsaidIs
<1>5. CASE QueryWindow(p)
  <2> DEFINE wider == [process[p] EXCEPT !.window = @ + 1]
             none == [Idle EXCEPT !.pc = "finished", !.text = Notice]
             enough == [process[p] EXCEPT !.pc = "reserved", !.steady = Current(from)]
  <2>1. process[p].pc = "windows"
    BY <1>5 DEF QueryWindow
  <2>2. Goes(p, wider) \/ Goes(p, none) \/ Goes(p, enough)
    BY <1>5 DEF QueryWindow
  <2>3. Unsaid(wider) /\ Unsaid(none) /\ Unsaid(enough)
    BY <1>1, <1>2, <2>1 DEF Unsaid, Stands, Fields, Idle
  <2> HIDE DEF wider, none, enough
  <2> QED
    BY <2>2, <2>3, UnsaidIs
<1>6. CASE QueryReserved(p)
  <2>1. PICK rows : Goes(p, AfterReserved(process[p], rows))
    BY <1>6, ReservedStands
  <2>2. process[p].pc = "reserved"
    BY <1>6 DEF QueryReserved
  <2>3. Unsaid(AfterReserved(process[p], rows))
    BY <1>1, <1>2, <2>2 DEF Unsaid, Stands, Fields, AfterReserved
  <2> QED
    BY <2>1, <2>3, UnsaidIs
<1>7. CASE QueryDocs(p)
  <2> DEFINE r == process[p]
             since == day - Surface(p).docs
             kept(found) == IF r.task = "weekly" THEN found \ Tagged ELSE found
             next(found) == AfterDocs(r, kept(found), since)
  <2>1. PICK found : Goes(p, Unless(r.task = "weekly" /\ kept(found) = {}, next(found)))
    BY <1>7 DEF QueryDocs, AfterDocs
  <2>2. r.pc = "docs"
    BY <1>7 DEF QueryDocs
  <2>3. Unsaid(next(found))
    BY <1>1, <1>2, <2>2 DEF Unsaid, Stands, Fields, AfterDocs
  <2> HIDE DEF next, kept
  <2> QED
    BY <1>3, <2>1, <2>3, UnsaidIs
<1>8. CASE QueryClaims(p)
  <2> DEFINE r == process[p]
             queries == Surface(p).claims
             more == CASE r.query < Len(queries) -> "claims"
                       [] r.task \in Plain -> "finished"
                       [] Surface(p).stalled # 0 -> "stalled"
                       [] OTHER -> "model"
             next(rows) == [r EXCEPT !.query = @ + 1, !.rows = @ \cup rows, !.pc = more]
  <2>1. PICK rows : Goes(p, Unless(NothingFound(p, rows), next(rows)))
    BY <1>8 DEF QueryClaims
  <2>2. r.pc = "claims"
    BY <1>8 DEF QueryClaims
  <2> HIDE DEF more
  <2>3. Unsaid(next(rows))
    BY <1>1, <1>2, <2>2 DEF Unsaid, Stands, Fields
  <2> HIDE DEF next
  <2> QED
    BY <1>3, <2>1, <2>3, UnsaidIs
<1>9. CASE QueryStalled(p)
  <2> DEFINE next(rows) == [process[p] EXCEPT !.pc = "model", !.stalled = rows]
             empty(rows) == process[p].task = "stalled" /\ rows = {}
  <2>1. PICK rows : Goes(p, Unless(empty(rows), next(rows)))
    BY <1>9 DEF QueryStalled
  <2>2. process[p].pc = "stalled"
    BY <1>9 DEF QueryStalled
  <2>3. Unsaid(next(rows))
    BY <1>1, <1>2, <2>2 DEF Unsaid, Stands, Fields
  <2> HIDE DEF next, empty
  <2> QED
    BY <1>3, <2>1, <2>3, UnsaidIs
<1>10. CASE Answered(p)
  <2> DEFINE stop == [Idle EXCEPT !.pc = IF p = Scheduler THEN "dead" ELSE "failed"]
             put(said) == [process[p] EXCEPT !.pc = "finished", !.said = said, !.text = Coalesce(said)]
             reply == [process[p] EXCEPT !.pc = "finished", !.text = Reply]
  <2>1. Goes(p, stop) \/ Goes(p, reply) \/ \E said \in Answers : Goes(p, put(said)) /\ ~Panics(said)
    BY <1>10 DEF Answered
  <2>2. process[p].pc = "model"
    BY <1>10 DEF Answered
  <2>3. Unsaid(stop) /\ Unsaid(reply)
    BY <1>1, <1>2, <2>2 DEF Unsaid, Stands, Fields, Idle
  <2>4. ASSUME NEW said \in Answers, ~Panics(said) PROVE SaidOf(put(said))
    <3>1. put(said).pc = "finished" /\ put(said).said = said /\ put(said).text = Coalesce(said)
      BY <1>1 DEF Stands, Fields
    <3> HIDE DEF put
    <3> QED
      BY <2>4, <3>1 DEF SaidOf
  <2> HIDE DEF stop, put, reply
  <2> QED
    BY <2>1, <2>3, <2>4, UnsaidIs
<1>11. CASE Fail(p)
  <2> DEFINE now == IF p = Scheduler THEN Idle ELSE [Idle EXCEPT !.pc = "failed"]
  <2>1. Goes(p, now)
    BY <1>11 DEF Fail
  <2>2. Unsaid(now)
    BY DEF Unsaid, Idle
  <2> HIDE DEF now
  <2> QED
    BY <2>1, <2>2, UnsaidIs
<1> QED
  BY <1>4, <1>5, <1>6, <1>7, <1>8, <1>9, <1>10, <1>11 DEF Advance

\* A step of any process leaves each text what is made of its answer.
LEMMA StepSaid ==
  ASSUME TypeInv, SaidInv, Next
  PROVE  SaidInv'
<1>1. ASSUME NEW p \in Processes, NEW now, Goes(p, now), SaidOf(now)
      PROVE  SaidInv'
  <2>1. \A q \in Processes : process'[q] = now \/ process'[q] = process[q]
    BY <1>1, OneGoes
  <2>2. \A q \in Processes : SaidOf(process'[q])
    BY <1>1, <2>1 DEF SaidInv
  <2> QED
    BY <2>2 DEF SaidInv, SaidOf
<1>2. ASSUME NEW p \in Processes, Advance(p) \/ Fail(p)
      PROVE  SaidInv'
  BY <1>1, <1>2, AdvanceSaid
<1>3. ASSUME NEW c \in Clients, Request(c) \/ Respond(c)
      PROVE  SaidInv'
  <2> DEFINE look == [Idle EXCEPT !.pc = "look"]
  <2>1. (Goes(c, look) \/ Goes(c, Idle)) /\ c \in Processes
    BY <1>3 DEF Request, Respond, Processes
  <2>2. Unsaid(look) /\ Unsaid(Idle)
    BY DEF Unsaid, Idle
  <2> HIDE DEF look
  <2> QED
    BY <1>1, <2>1, <2>2, UnsaidIs
<1>4. ASSUME NEW c \in Clients, NEW task \in DOMAIN Surfaces, NEW project \in Projects \cup {Anywhere},
             Ask(c, task, project) \/ Call(c, task, project)
      PROVE  SaidInv'
  <2> DEFINE start == IF Surfaces[task].docs # 0 THEN "docs"
                      ELSE IF Surfaces[task].claims # <<>> THEN "claims" ELSE "stalled"
             now == [Idle EXCEPT !.task = task, !.project = project,
                       !.steady = Current(from) \cup {d \in Docs : Present(d)}, !.pc = start]
  <2>1. Goes(c, now) /\ c \in Processes
    BY <1>4 DEF Ask, Call, Enter, Processes
  <2>2. Unsaid(now)
    BY DEF Unsaid, Idle
  <2> HIDE DEF now
  <2> QED
    BY <1>1, <2>1, <2>2, UnsaidIs
<1>5. ASSUME Strike \/ Create \/ Write
      PROVE  SaidInv'
  <2> DEFINE look == [Idle EXCEPT !.pc = "look"]
             write == [process[Scheduler] EXCEPT !.pc = "write"]
  <2>1. Scheduler \in Processes
    BY DEF Processes
  <2>2. UNCHANGED process \/ Goes(Scheduler, look) \/ Goes(Scheduler, write) \/ Goes(Scheduler, Idle)
    BY <1>5 DEF Strike, Create, Write
  <2>3. Stands(Scheduler, process[Scheduler]) /\ SaidOf(process[Scheduler])
    BY <2>1 DEF TypeInv, SaidInv
  <2>4. Unsaid(look) /\ Unsaid(Idle)
    BY DEF Unsaid, Idle
  <2>5. /\ write.pc = "write" /\ write.said = process[Scheduler].said
        /\ write.text = process[Scheduler].text
    BY <2>3 DEF Stands, Fields
  <2> HIDE DEF look, write
  <2>6. SaidOf(write)
    BY <2>3, <2>5 DEF SaidOf
  <2>7. CASE UNCHANGED process
    BY <2>7 DEF SaidInv, SaidOf
  <2> QED
    BY <1>1, <2>1, <2>2, <2>4, <2>6, <2>7, UnsaidIs
<1>6. ASSUME NextDay \/ ClockBack \/ Crash
      PROVE  SaidInv'
  <2>1. UNCHANGED process \/ process' = [p \in Processes |-> Idle]
    BY <1>6 DEF NextDay, ClockBack, Crash
  <2>2. SaidOf(Idle)
    BY UnsaidIs DEF Unsaid, Idle
  <2>3. \A p \in Processes : SaidOf(process'[p])
    BY <2>1, <2>2 DEF SaidInv
  <2> QED
    BY <2>3 DEF SaidInv, SaidOf
<1>7. ASSUME NEW d \in Docs, Work(d) \/ Forget(d)
      PROVE  SaidInv'
  <2>1. PICK gone : Unsteady(gone)
    BY <1>7, WorkUnsteadies
  <2>2. ASSUME NEW p \in Processes PROVE SaidOf(process'[p])
    <3> DEFINE now == [process[p] EXCEPT !.steady = @ \ gone]
    <3>1. process'[p] = now
      BY <2>1 DEF Unsteady
    <3>2. Stands(p, process[p]) /\ SaidOf(process[p])
      BY DEF TypeInv, SaidInv
    <3>3. now.pc = process[p].pc /\ now.said = process[p].said /\ now.text = process[p].text
      BY <3>2 DEF Stands, Fields
    <3> HIDE DEF now
    <3> QED
      BY <3>1, <3>2, <3>3 DEF SaidOf
  <2> QED
    BY <2>2 DEF SaidInv, SaidOf
<1> QED
  BY <1>2, <1>3, <1>4, <1>5, <1>6, <1>7 DEF Next

\* What the model may say are lines.
LEMMA AnswersAreLines == Answers \subseteq Seq(Lines)
<1> DEFINE spoken == {Heading(n) : n \in Names \cup {Nothing}}
             \cup {Label(Labels[k]) : k \in 1..Len(Labels)}
             \cup {b \in [kind: {"bullet"}, label: ToSet(Labels) \cup {Nothing},
                          text: Texts \cup {Nothing}, wide: BOOLEAN] :
                     b.label # Nothing \/ b.text # Nothing}
<1>1. Answers \subseteq Seq(spoken)
  BY BriefAssumption
<1>2. Texts \cup {Nothing} \subseteq Words \cup {Nothing}
  BY DEF Words
<1>3. spoken \subseteq Lines
  BY <1>2 DEF Lines, Tags
<1> HIDE DEF spoken
<1>4. Seq(spoken) \subseteq Seq(Lines)
  BY <1>3, SeqMonotonic
<1> QED
  BY <1>1, <1>4

\* What the model said of a project reaches the reader once and under the project it
\* was said of, for any answers it may give without sub-headings: no bullet but a
\* placeholder is lost or invented, none is twice under one project, no project has
\* two headings; and a text that is in form already stays as it is.
THEOREM NothingIsLost == Spec => []NothingLost
<1>1. Init => SaidInv
  <2>1. SaidOf(Idle)
    BY UnsaidIs DEF Unsaid, Idle
  <2> QED
    BY <2>1 DEF Init, SaidInv
<1>2. TypeInv /\ SaidInv /\ [Next]_vars => SaidInv'
  <2>1. ASSUME TypeInv, SaidInv, Next PROVE SaidInv'
    BY <2>1, StepSaid
  <2>2. ASSUME SaidInv, UNCHANGED vars PROVE SaidInv'
    BY <2>2 DEF vars, SaidInv, SaidOf
  <2> QED
    BY <2>1, <2>2
<1>3. SaidInv => NothingLost
  <2> SUFFICES ASSUME SaidInv, NEW p \in Processes, process[p].said # <<>>
               PROVE  /\ Plainly(process[p].said) => Digests(process[p].said, process[p].text)
                      /\ Settles(process[p].said)
    BY DEF NothingLost
  <2> DEFINE said == process[p].said
  <2>1. said \in Answers /\ process[p].text = Coalesce(said) /\ ~Panics(said)
    BY DEF SaidInv, SaidOf
  <2>2. said \in Seq(Lines)
    BY <2>1, AnswersAreLines
  <2> HIDE DEF said
  <2>3. (Plainly(said) => Digests(said, Coalesce(said))) /\ Settles(said)
    BY <2>1, <2>2, TextDigests, TextSettles
  <2> QED
    BY <2>1, <2>3 DEF said
<1> QED
  BY <1>1, <1>2, <1>3, TypeInvariant, PTL DEF Spec

==============================================================================

------------------------------ MODULE Briefings ------------------------------
(*****************************************************************************)
(* Briefings, status reports and registers of claims (drudge/src/ask.rs,     *)
(* serve/http.rs, llm.rs), and the morning briefing the scheduler makes at   *)
(* its hour, writes as a note and /brief serves (serve/scheduler.rs), while  *)
(* work goes on.                                                             *)
(*                                                                           *)
(* A step is a query, an answer of the model, or an operation on a file. The *)
(* note is that of today. The scheduler and each client are processes; both  *)
(* run the same ask::brief. A process is a record of where it stands.        *)
(*                                                                           *)
(* LookNot and HalfEmpty are wrong on purpose: they show that the properties *)
(* can fail.                                                                 *)
(*****************************************************************************)
EXTENDS BriefText, Ledger

CONSTANTS
  Clients, Scheduler,
  None,
  Answers,      \* what the model may say
  Projects,     \* what registers and status reports are asked about
  DocLimit,     \* most documents in a briefing
  RowLimit,     \* most claims of a query, but of those of the morning briefing
  Ages,         \* ages of the documents and claims a run starts with
  MaxDay,       \* bound: days
  Budgets       \* bounds: pieces of work, crashes, times the clock is set back

Processes == Clients \cup {Scheduler}

ASSUME BriefAssumption ==
  /\ Scheduler \notin Clients /\ MaxDay \in Nat \ {0} /\ DocLimit \in Nat /\ RowLimit \in Nat
  /\ Answers \subseteq Seq({Heading(n) : n \in Names \cup {Nothing}}
       \cup {Label(Labels[k]) : k \in 1..Len(Labels)}
       \cup {b \in [kind: {"bullet"}, label: ToSet(Labels) \cup {Nothing},
                    text: Texts \cup {Nothing}, wide: BOOLEAN] :
               b.label # Nothing \/ b.text # Nothing})
  /\ Ages \subseteq [docs: [Docs -> Int], claims: [Claims -> Int]]
  /\ Budgets \subseteq [work: Nat, crashes: Nat, back: Nat]

VARIABLES
  day, struck,  \* today, and whether its hour has come
  updated,      \* updated[d]: the day document d was changed last, Gone if it is not there
  from,         \* from[c]: the day since when claim c is true, Gone if it is not
  note,         \* the text of today's note, empty when just created; None if there is none
  process,      \* where each process stands
  tried,        \* history: the last day the scheduler took up the briefing
  budget

ledger == <<updated, from>>
vars == <<day, struck, updated, from, note, process, tried, budget>>

AllKinds == {KindOf[c] : c \in Claims}
Open == {"next", "blocked"}

\* The requests apart from /brief: days back to look for documents, the kinds of
\* claims of each query, days after which open claims are stalled; 0 and <<>>
\* for queries a request does not make.
Surfaces == [
  weekly    |-> [docs |-> 7,  claims |-> <<AllKinds>>, stalled |-> Stall],
  status    |-> [docs |-> 30, claims |-> <<AllKinds>>, stalled |-> 0],
  decisions |-> [docs |-> 0,  claims |-> <<{"decision"}>>, stalled |-> 0],
  risks     |-> [docs |-> 0,  claims |-> <<{"risk", "assumption", "blocked"}>>, stalled |-> 0],
  next      |-> [docs |-> 0,  claims |-> <<Open>>, stalled |-> 0],
  stalled   |-> [docs |-> 0,  claims |-> <<>>, stalled |-> Stall],
  context   |-> [docs |-> 0,  claims |-> <<{"decision"}, {"risk", "assumption", "blocked"},
                                           {"fact"}, {"term"}, Open>>, stalled |-> 0],
  nearest   |-> [docs |-> 0,  claims |-> <<AllKinds>>, stalled |-> 0]]

\* Claims as they are: the context card and the tool that looks up claims ask no
\* model and may come back empty.
Plain == {"context", "nearest"}

Notice == <<"No recent work records ingested.">>
Reply == <<"a reply that is passed on as it is">>
Idle == [pc |-> "idle", task |-> "brief", project |-> Anywhere, window |-> 1, query |-> 1,
         docs |-> {}, rows |-> {}, stalled |-> {}, steady |-> {}, said |-> <<>>, text |-> <<>>]

Present(d) == updated[d] # Gone

Init ==
  /\ day = 1 /\ struck = FALSE
  /\ \E age \in Ages :
       /\ updated = [d \in Docs |-> 1 - age.docs[d]]
       /\ from = [c \in Claims |-> 1 - age.claims[c]]
  /\ note = None
  /\ process = [p \in Processes |-> Idle]
  /\ tried = 0
  /\ budget \in Budgets

Goes(p, now) == process' = [process EXCEPT ![p] = now]

-------------------------------------------------------------------------------
(* The morning briefing *)

LookNot(p) == FALSE

\* The scheduler leaves a note that exists alone. A request is served with one
\* that has a body.
Written(p) == note # None /\ (p = Scheduler \/ note # <<>>)

Look(p) ==
  /\ process[p].pc = "look"
  /\ Goes(p, IF ~Written(p) THEN [Idle EXCEPT !.pc = "windows"]
             ELSE IF p = Scheduler THEN Idle
             ELSE [Idle EXCEPT !.pc = "finished", !.text = note])
  /\ tried' = IF p = Scheduler THEN day ELSE tried
  /\ UNCHANGED <<day, struck, ledger, note, budget>>

\* The documents of one window after the other, until there are enough.
QueryWindow(p) ==
  /\ process[p].pc = "windows"
  /\ \E found \in InWindow(updated, day, process[p].window, {}, DocLimit) :
       Goes(p, IF ~Suffices(process[p].window, found) THEN [process[p] EXCEPT !.window = @ + 1]
               ELSE IF found = {} THEN [Idle EXCEPT !.pc = "finished", !.text = Notice]
               ELSE [process[p] EXCEPT !.pc = "reserved", !.steady = Current(from)])
  /\ UNCHANGED <<day, struck, ledger, note, tried, budget>>

\* The claims of the sections, one kind after the other, and the facts.
QueryReserved(p) ==
  LET k == process[p].query IN
  /\ process[p].pc = "reserved"
  /\ \E rows \in ReservedClaims(from, k, process[p].rows) :
       Goes(p, [process[p] EXCEPT !.query = @ + 1, !.rows = @ \cup rows,
                                  !.pc = IF k <= Len(Reserve) THEN @ ELSE "stalled"])
  /\ UNCHANGED <<day, struck, ledger, note, tried, budget>>

-------------------------------------------------------------------------------
(* The other requests *)

Surface(p) == Surfaces[process[p].task]

\* A report that has nothing to say says so, without the model.
Unless(empty, next) == IF empty THEN [Idle EXCEPT !.pc = "finished", !.task = next.task,
                                        !.project = next.project, !.text = Notice] ELSE next

\* A weekly briefing leaves out the daily ones, and is nothing without documents.
\* What is too old for the report now is not there from its first query on.
QueryDocs(p) ==
  LET since == day - Surface(p).docs IN
  /\ process[p].pc = "docs"
  /\ \E found \in RecentDocs(updated, DocLimit, {}, since, process[p].project) :
       LET docs == IF process[p].task = "weekly" THEN found \ Tagged ELSE found
       IN Goes(p, Unless(process[p].task = "weekly" /\ docs = {},
                         [process[p] EXCEPT !.docs = docs, !.pc = "claims",
                                            !.steady = {x \in @ : x \in Docs => updated[x] >= since}]))
  /\ UNCHANGED <<day, struck, ledger, note, tried, budget>>

HalfEmpty(p, rows) == process[p].docs = {} \/ rows = {}

\* Nothing to report: neither documents nor claims.
NothingFound(p, rows) == process[p].docs = {} /\ rows = {} /\ process[p].task \notin Plain

\* Claims near to a text, for a status report the name of its project; the others
\* take the newest.
Rows(p, kinds) ==
  IF process[p].task \in {"status", "nearest"}
    THEN NearestClaims(from, RowLimit, process[p].project, kinds, {})
    ELSE RecentClaims(from, RowLimit, process[p].project, kinds, {})

QueryClaims(p) ==
  LET k == process[p].query
      queries == Surface(p).claims
      more == CASE k < Len(queries) -> "claims"
                [] process[p].task \in Plain -> "finished"
                [] Surface(p).stalled # 0 -> "stalled"
                [] OTHER -> "model"
  IN /\ process[p].pc = "claims"
     /\ \E rows \in Rows(p, queries[k]) :
          Goes(p, Unless(NothingFound(p, rows),
                 [process[p] EXCEPT !.query = @ + 1, !.rows = @ \cup rows, !.pc = more]))
     /\ UNCHANGED <<day, struck, ledger, note, tried, budget>>

\* The stalled block of both briefings; a register of its own.
QueryStalled(p) ==
  /\ process[p].pc = "stalled"
  /\ \E rows \in StalledClaims(from, day, Slots, process[p].project, Open, {}, Stall) :
       Goes(p, Unless(process[p].task = "stalled" /\ rows = {},
                      [process[p] EXCEPT !.pc = "model", !.stalled = rows]))
  /\ UNCHANGED <<day, struck, ledger, note, tried, budget>>

\* The model answers. Only the text of a briefing is put into form. A panic ends
\* the task: the scheduler's for good, that of a request with its connection.
Answered(p) ==
  /\ process[p].pc = "model"
  /\ IF process[p].task \in {"brief", "weekly"}
       THEN \E said \in Answers :
              Goes(p, IF Panics(said)
                        THEN [Idle EXCEPT !.pc = IF p = Scheduler THEN "dead" ELSE "failed"]
                        ELSE [process[p] EXCEPT !.pc = "finished", !.said = said, !.text = Coalesce(said)])
       ELSE Goes(p, [process[p] EXCEPT !.pc = "finished", !.text = Reply])
  /\ UNCHANGED <<day, struck, ledger, note, tried, budget>>

\* A query fails, or the model does, or it says nothing, twice in a row.
Fail(p) ==
  /\ process[p].pc \in {"windows", "reserved", "docs", "claims", "stalled", "model"}
  /\ Goes(p, IF p = Scheduler THEN Idle ELSE [Idle EXCEPT !.pc = "failed"])
  /\ UNCHANGED <<day, struck, ledger, note, tried, budget>>

-------------------------------------------------------------------------------
(* The scheduler *)

\* The hour of the briefing comes. The task goes to sleep until the next only
\* when it is done with the last.
Strike ==
  /\ ~struck /\ struck' = TRUE
  /\ IF process[Scheduler].pc = "idle"
       THEN Goes(Scheduler, [Idle EXCEPT !.pc = "look"]) ELSE UNCHANGED process
  /\ UNCHANGED <<day, ledger, note, tried, budget>>

\* The note is made anew, empty at first.
Create ==
  /\ process[Scheduler].pc = "finished"
  /\ note' = <<>>
  /\ Goes(Scheduler, [process[Scheduler] EXCEPT !.pc = "write"])
  /\ UNCHANGED <<day, struck, ledger, tried, budget>>

\* The whole note goes out in one write.
Write ==
  /\ process[Scheduler].pc = "write"
  /\ note' = process[Scheduler].text
  /\ Goes(Scheduler, Idle)
  /\ UNCHANGED <<day, struck, ledger, tried, budget>>

-------------------------------------------------------------------------------
(* Requests, work and time *)

\* A briefing of the day, over HTTP or as a tool.
Request(c) ==
  /\ process[c].pc = "idle"
  /\ Goes(c, [Idle EXCEPT !.pc = "look"])
  /\ UNCHANGED <<day, struck, ledger, note, tried, budget>>

\* Any other request. A weekly briefing and a look-up of claims are of all
\* projects, a status report has to be of one.
Enter(c, task, project) ==
  LET surface == Surfaces[task] IN
  /\ process[c].pc = "idle"
  /\ task \in {"weekly", "nearest"} => project = Anywhere
  /\ task = "status" => project # Anywhere
  /\ Goes(c, [Idle EXCEPT !.task = task, !.project = project,
                 !.steady = Current(from) \cup {d \in Docs : Present(d)},
                 !.pc = IF surface.docs # 0 THEN "docs"
                        ELSE IF surface.claims # <<>> THEN "claims" ELSE "stalled"])
  /\ UNCHANGED <<day, struck, ledger, note, tried, budget>>

\* Over HTTP, and as a tool; claims are looked up by a tool only.
Ask(c, task, project) == task # "nearest" /\ Enter(c, task, project)
Call(c, task, project) == Enter(c, task, project)

\* The response goes out and the call is logged.
Respond(c) ==
  /\ process[c].pc \in {"finished", "failed"}
  /\ Goes(c, Idle)
  /\ UNCHANGED <<day, struck, ledger, note, tried, budget>>

\* What a process might have found has gone while it was looking.
Unsteady(gone) ==
  process' = [p \in Processes |-> [process[p] EXCEPT !.steady = @ \ gone]]

ClaimsOf(d) == {c \in Claims : DocOf[c] = d}

\* A note is written or changed today; a claim of it is new, or no longer true.
Work(d) ==
  /\ budget.work > 0
  /\ \E c \in ClaimsOf(d) :
       /\ from' = [from EXCEPT ![c] = IF @ = Gone THEN day ELSE Gone]
       /\ Unsteady({c})
  /\ updated' = [updated EXCEPT ![d] = day]
  /\ budget' = [budget EXCEPT !.work = @ - 1]
  /\ UNCHANGED <<day, struck, note, tried>>

\* A note is forgotten, and what it claimed.
Forget(d) ==
  /\ budget.work > 0 /\ Present(d)
  /\ updated' = [updated EXCEPT ![d] = Gone]
  /\ from' = [c \in Claims |-> IF DocOf[c] = d THEN Gone ELSE from[c]]
  /\ Unsteady(ClaimsOf(d) \cup {d})
  /\ budget' = [budget EXCEPT !.work = @ - 1]
  /\ UNCHANGED <<day, struck, note, tried>>

\* Midnight. Two calls of the model take seven minutes at the most.
NextDay ==
  /\ day < MaxDay /\ struck
  /\ process[Scheduler].pc \in {"idle", "dead"}
  /\ day' = day + 1 /\ struck' = FALSE /\ note' = None
  /\ UNCHANGED <<ledger, process, tried, budget>>

\* The local clock was set back: the sleep ended before the hour, which comes
\* again.
ClockBack ==
  /\ struck /\ budget.back > 0 /\ process[Scheduler].pc = "idle"
  /\ struck' = FALSE
  /\ budget' = [budget EXCEPT !.back = @ - 1]
  /\ UNCHANGED <<day, ledger, note, process, tried>>

\* The daemon is killed and starts again: the scheduler waits for the next hour.
Crash ==
  /\ budget.crashes > 0
  /\ process' = [p \in Processes |-> Idle]
  /\ budget' = [budget EXCEPT !.crashes = @ - 1]
  /\ UNCHANGED <<day, struck, ledger, note, tried>>

Advance(p) ==
  \/ Look(p) \/ QueryWindow(p) \/ QueryReserved(p)
  \/ QueryDocs(p) \/ QueryClaims(p) \/ QueryStalled(p) \/ Answered(p)

Next ==
  \/ \E p \in Processes : Advance(p) \/ Fail(p)
  \/ \E c \in Clients : Request(c) \/ Respond(c)
  \/ \E c \in Clients, task \in DOMAIN Surfaces, project \in Projects \cup {Anywhere} :
       Ask(c, task, project) \/ Call(c, task, project)
  \/ Strike \/ Create \/ Write
  \/ \E d \in Docs : Work(d) \/ Forget(d)
  \/ NextDay \/ ClockBack \/ Crash

Spec == Init /\ [][Next]_vars

\* Time goes on and tasks that can do something are run.
FairSpec ==
  Spec /\ WF_vars(Strike) /\ WF_vars(NextDay) /\ WF_vars(Advance(Scheduler))
       /\ WF_vars(Create) /\ WF_vars(Write)

-------------------------------------------------------------------------------
(* Properties *)

\* Every variable has its type; only the scheduler writes, or is dead.
TypeOK ==
  /\ day \in 1..MaxDay /\ struck \in BOOLEAN /\ tried \in 0..MaxDay
  /\ updated \in [Docs -> Int] /\ from \in [Claims -> Int]
  /\ \A p \in Processes :
       /\ process[p].pc \in {"idle", "look", "windows", "reserved", "docs", "claims", "stalled",
                             "model", "finished", "failed", "write", "dead"}
       /\ process[p].window \in 1..Len(Windows)
       /\ process[p].docs \subseteq Docs /\ process[p].rows \subseteq Claims
       /\ p # Scheduler => process[p].pc \notin {"write", "dead"}

\* The note of a day that has content keeps it until the day is over, whatever
\* restarts, clocks and requests do.
WrittenOnce ==
  [][note = None \/ note = <<>> \/ note' = note \/ day' # day]_vars

\* What a report answers for: documents of so many days, claims of some kinds. A
\* status report does not answer for claims, of which its search may miss any: it
\* says that there is no record when there are claims but no recent documents.
Covers(p, x) ==
  LET task == process[p].task
      project == process[p].project
      recent(days) == x \in Docs /\ updated[x] >= day - days /\ Admitted(x, project, {})
      claim(kinds) == x \in Claims /\ KindOf[x] \in kinds /\ Admitted(DocOf[x], project, {})
  IN CASE task = "brief" -> recent(Windows[Len(Windows)][1]) /\ x \notin Tagged
       [] task = "weekly" -> recent(7) /\ x \notin Tagged
       [] task = "status" -> recent(30)
       [] task = "stalled" -> claim(Open) /\ from[x] < day - Stall /\ from[x] >= day - Horizon
       [] OTHER -> claim(Surfaces[task].claims[1])

\* A report says that there is nothing only if there is nothing it answers for: what
\* was there from its first query to its last, in its widest window, is not denied.
NoticeMeansNothing ==
  [][\A p \in Processes :
       process'[p].pc = "finished" /\ process'[p].text = Notice /\ process[p].pc \notin {"finished", "look"}
         => \A x \in IF process[p].task = "brief" THEN Docs ELSE process[p].steady : ~Covers(p, x)]_vars

\* The prompt of the morning briefing has the claims each section is to be made
\* of, as many as are reserved for it, and no more rows in all than the budget,
\* whatever is superseded while they are queried.
SectionsFed ==
  \A p \in Processes : process[p].pc = "stalled" /\ process[p].task = "brief" =>
    /\ \A k \in 1..Len(Reserve) : SectionFed(process[p].rows, k, process[p].steady)
    /\ Cardinality(process[p].rows) <= Budget

\* No note takes two slots of the stalled block: each note with work that has
\* stalled is there, unless as many others are.
StalledShareSlots ==
  [][\A p \in Processes :
       process[p].pc = "stalled" /\ process'[p].pc = "model" =>
         LET notes == {DocOf[c] : c \in {c \in Current(from) :
               /\ KindOf[c] \in Open /\ Admitted(DocOf[c], process[p].project, {})
               /\ from[c] < day - Stall /\ from[c] >= day - Horizon}}
             shown == {DocOf[c] : c \in process'[p].stalled}
         IN notes \subseteq shown \/ Cardinality(shown) = Slots]_vars

\* What the model said of a project reaches the reader once and under the project
\* it was said of, and nothing else does. A reply with a sub-heading is not promised
\* that: "### Done" is taken for the project "# Done", and what follows it, of
\* whatever project, is found there.
NothingLost ==
  \A p \in Processes : process[p].said # <<>> =>
    /\ Plainly(process[p].said) => Digests(process[p].said, process[p].text)
    /\ Settles(process[p].said)

\* "Daily briefing scheduler: runs once at BORING_BRIEF_HOUR local time": on
\* every morning the scheduler takes up the briefing.
MorningsBriefed ==
  \A d \in 1..MaxDay : (day = d /\ struck) ~> (tried >= d)
===============================================================================

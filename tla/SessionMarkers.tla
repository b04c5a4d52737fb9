---------------------------- MODULE SessionMarkers ----------------------------
(*****************************************************************************)
(* The marker files all capture adapters share (agents/shared/markers.py):   *)
(* <sid>.ts (done), .pending, .retry and .dead under ~/.cache/boring-distill.*)
(* A transition is not atomic: it writes the target file and then unlinks    *)
(* the others one at a time, and any other process may act in between. An    *)
(* operator here returns the file operations in the code's order; the module *)
(* that owns the processes performs them one step at a time.                 *)
(*                                                                           *)
(* TransitionCleansFirst, WriteIngestPendingSwapped and RetryCountForgotten  *)
(* are wrong on purpose: each replaces its neighbour to show that a property *)
(* can fail.                                                                 *)
(*****************************************************************************)
EXTENDS Integers, Sequences

CONSTANTS
  Sessions,     \* session ids
  MaxAttempts   \* MARKER_RETRY_MAX_ATTEMPTS

ASSUME MarkersAssumption == MaxAttempts \in Nat \ {0}

VARIABLE mark   \* mark[s][k]: the marker file of kind k of session s

Kinds == {"ts", "pending", "retry", "dead"}

\* A marker file: is it there, is its mtime within the TTL its readers use, and
\* the numbers its text carries (attempts or tries, and the chunk count).
Markers == [on: BOOLEAN, fresh: BOOLEAN, n: Nat, before: Int]
Gone == [on |-> FALSE, fresh |-> FALSE, n |-> 0, before |-> 0]
Text(n, before) == [on |-> TRUE, fresh |-> TRUE, n |-> n, before |-> before]

FileOps == Kinds \X Markers
NoMarks == [k \in Kinds |-> Gone]

TransitionCleansFirst(target, text, cleanup) ==
  [i \in DOMAIN cleanup |-> <<cleanup[i], Gone>>] \o <<<<target, text>>>>
\* _transition_marker: write the target first, then clean up in the given order.
Transition(target, text, cleanup) ==
  <<<<target, text>>>> \o [i \in DOMAIN cleanup |-> <<cleanup[i], Gone>>]

RetryCountForgotten(s) == 0
\* _read_retry_count: 0 when there is no .retry file.
RetryCount(s) == mark[s]["retry"].n

MarkDone == Transition("ts", Text(0, 0), <<"pending", "retry", "dead">>)

\* The count is read when the transition starts; the last attempt dead-letters.
MarkRetry(s) ==
  LET attempts == RetryCount(s) + 1
  IN  IF attempts >= MaxAttempts
      THEN Transition("dead", Text(attempts, 0), <<"ts", "pending", "retry">>)
      ELSE Transition("retry", Text(attempts, 0), <<"ts", "pending">>)

WriteIngestPendingSwapped(before, tries) ==
  Transition("pending", Text(before, tries), <<"ts", "retry">>)
WriteIngestPending(before, tries) ==
  Transition("pending", Text(tries, before), <<"ts", "retry">>)

RemovePending == <<<<"pending", Gone>>>>

IsDone(s) == mark[s]["ts"].on
IsDead(s) == mark[s]["dead"].on
IsPending(s) == mark[s]["pending"].fresh
IsRetry(s) == mark[s]["retry"].fresh

\* One file operation of a transition.
Perform(s, op) == mark' = [mark EXCEPT ![s][op[1]] = op[2]]

\* The TTL of a .pending or .retry file runs out; the file stays.
Expire(s, k) ==
  /\ k \in {"pending", "retry"}
  /\ mark[s][k].fresh
  /\ mark' = [mark EXCEPT ![s][k].fresh = FALSE]
==============================================================================

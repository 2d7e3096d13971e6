--------------------------- MODULE ToolCallState ---------------------------
(***************************************************************************)
(* SchedulerStateManager of packages/core/src/scheduler/state-manager.ts:  *)
(* the three places a tool call of the running batch can be in (the queue, *)
(* the map of active calls, the completed batch) and the operations that   *)
(* move it.  The operations are functions of the present state, so that a  *)
(* synchronous segment of the scheduler can apply several of them.         *)
(***************************************************************************)
EXTENDS Naturals, Sequences

CONSTANT Call          \* the call ids: unique, as the model assigns them

VARIABLES
  queue,       \* SchedulerStateManager.queue
  wave,        \* the calls last moved to activeCalls, in Map insertion order
  active,      \* the keys of SchedulerStateManager.activeCalls
  status,      \* the status of the tool call object, "none" before it exists
  results      \* how often _completedBatch holds the call

stateVars == <<queue, wave, active, status, results>>

\* CoreToolCallStatus.
Terminal == {"success", "error", "cancelled"}
Status == {"validating", "scheduled", "awaiting", "executing"} \cup Terminal

Queued == {queue[i] : i \in DOMAIN queue}

\* transitionCall: an errored call has no invocation, so every transition but one
\* to "error" throws.  A terminal status is NOT protected.
Transitions(st, c, s) == st[c] = "error" => s = "error"

\* updateStatus.  A call that is not active is ignored.
UpdateStatus(st, c, s) ==
  IF c \in active /\ Transitions(st, c, s)
  THEN [st EXCEPT ![c] = s]
  ELSE st

\* finalizeCall and cancelAllQueued push calls on _completedBatch.
Complete(S) == [c \in Call |-> IF c \in S THEN results[c] + 1 ELSE results[c]]

\* cancelAllQueued: every queued call becomes cancelled, except those that
\* already carry an error.
CancelQueued(st) ==
  [c \in Call |-> IF c \in Queued /\ st[c] # "error" THEN "cancelled" ELSE st[c]]

CancelAllQueued(st) ==
  /\ status' = CancelQueued(st)
  /\ results' = Complete(Queued)
  /\ queue' = <<>>

\* dequeue, applied n times while nothing is active.
Dequeue(n) ==
  /\ wave' = SubSeq(queue, 1, n)
  /\ queue' = SubSeq(queue, n + 1, Len(queue))

\* A slip: the call is queued again but stays in the active map.
ReplaceKeepingActive(c) ==
  /\ queue' = <<c>> \o queue
  /\ UNCHANGED active

\* replaceActiveCallWithTailCall: the call leaves the active map and comes back
\* at the head of the queue.
Replace(c) ==
  /\ active' = active \ {c}
  /\ queue' = <<c>> \o queue

\* firstActiveCall: c is the oldest entry of the Map.
IsFirstActive(c) ==
  \E i \in DOMAIN wave :
    wave[i] = c /\ c \in active /\ \A j \in 1 .. (i - 1) : wave[j] \notin active

StateTypeOK ==
  /\ queue \in Seq(Call)
  /\ wave \in Seq(Call)
  /\ active \in SUBSET Call
  /\ status \in [Call -> Status \cup {"none"}]
  /\ results \in [Call -> Nat]

StateInit ==
  /\ queue = <<>>
  /\ wave = <<>>
  /\ active = {}
  /\ status = [c \in Call |-> "none"]
  /\ results = [c \in Call |-> 0]
=============================================================================

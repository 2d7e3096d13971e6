------------------------- MODULE SchedulerContract -------------------------
(***************************************************************************)
(* What Scheduler.schedule promises its callers, with no queue of calls,   *)
(* no policy and no coroutine in sight: batches are served one at a time,  *)
(* in the order in which they arrived; the promise of a served batch is    *)
(* resolved with one final result for each of its calls; a batch that      *)
(* waits may be rejected and is then never served; a promise settles once. *)
(***************************************************************************)
EXTENDS Naturals, Sequences

CONSTANTS Batch, NoBatch, Call,
          Members      \* the calls of each batch

VARIABLES promise, line, serving, reply

Final == {"success", "error", "cancelled"}
InLine == {line[i] : i \in DOMAIN line}

Init ==
  /\ promise = [b \in Batch |-> "new"]
  /\ line = <<>>
  /\ serving = NoBatch
  /\ reply = [c \in Call |-> "none"]

\* A request that finds the scheduler free is served at once.
Serve(b) ==
  /\ promise[b] = "new"
  /\ serving = NoBatch
  /\ promise' = [promise EXCEPT ![b] = "running"]
  /\ serving' = b
  /\ UNCHANGED <<line, reply>>

\* Otherwise it gets in line, or is refused.
GetInLine(b) ==
  /\ promise[b] = "new"
  /\ serving # NoBatch
  /\ \/ promise' = [promise EXCEPT ![b] = "queued"] /\ line' = Append(line, b)
     \/ promise' = [promise EXCEPT ![b] = "rejected"] /\ UNCHANGED line
  /\ UNCHANGED <<serving, reply>>

\* A cancellation takes one request, or all of them, out of the line.
Reject(S) ==
  /\ S # {} /\ S \subseteq InLine
  /\ promise' = [b \in Batch |-> IF b \in S THEN "rejected" ELSE promise[b]]
  /\ \/ S = InLine /\ line' = <<>>
     \/ \E i \in DOMAIN line :
          /\ S = {line[i]}
          /\ line' = SubSeq(line, 1, i - 1) \o SubSeq(line, i + 1, Len(line))
  /\ UNCHANGED <<serving, reply>>

\* The served batch is answered in full and the first in line is served next.
Resolve ==
  /\ serving # NoBatch
  /\ \/ /\ line = <<>>
        /\ promise' = [promise EXCEPT ![serving] = "resolved"]
        /\ serving' = NoBatch
        /\ UNCHANGED line
     \/ /\ line # <<>>
        /\ promise' = [promise EXCEPT ![serving] = "resolved", ![Head(line)] = "running"]
        /\ serving' = Head(line)
        /\ line' = Tail(line)
  /\ \E r \in [Members[serving] -> Final] :
       reply' = [c \in Call |-> IF c \in Members[serving] THEN r[c] ELSE reply[c]]

Next ==
  \/ \E b \in Batch : Serve(b) \/ GetInLine(b)
  \/ \E S \in SUBSET Batch : Reject(S)
  \/ Resolve

Spec == Init /\ [][Next]_<<promise, line, serving, reply>>
=============================================================================

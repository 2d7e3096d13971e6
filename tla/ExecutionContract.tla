--------------------------- MODULE ExecutionContract ---------------------------
(***************************************************************************)
(* What ExecutionLifecycleService promises to whoever starts an execution: *)
(* its result is given once, either because it ended or because it moved   *)
(* to the background, and the end of an execution that moved is announced  *)
(* at most once, and never when it was cancelled.                          *)
(***************************************************************************)
EXTENDS Naturals

CONSTANTS Execution,  \* ids of executions
          Loud        \* executions whose end is announced to the conversation

VARIABLES phase,      \* none, running, moved to the background, over
          result,     \* how the result promise stands
          news        \* how often the end was announced

vars == <<phase, result, news>>

Init ==
  /\ phase = [e \in Execution |-> "none"]
  /\ result = [e \in Execution |-> "none"]
  /\ news = [e \in Execution |-> 0]

Start(e) ==
  /\ phase[e] = "none"
  /\ phase' = [phase EXCEPT ![e] = "running"]
  /\ result' = [result EXCEPT ![e] = "pending"]
  /\ UNCHANGED news

Move(e) ==
  /\ phase[e] = "running"
  /\ phase' = [phase EXCEPT ![e] = "moved"]
  /\ result' = [result EXCEPT ![e] = "background"]
  /\ UNCHANGED news

\* The end of an execution in the foreground is its result.
End(e) ==
  /\ phase[e] = "running"
  /\ phase' = [phase EXCEPT ![e] = "over"]
  /\ \E how \in {"completed", "aborted"} : result' = [result EXCEPT ![e] = how]
  /\ UNCHANGED news

\* The result of an execution that moved was given; its end is news, unless it is
\* quiet or was cancelled.
EndMoved(e) ==
  /\ phase[e] = "moved"
  /\ phase' = [phase EXCEPT ![e] = "over"]
  /\ UNCHANGED result
  /\ \/ UNCHANGED news
     \/ e \in Loud /\ news' = [news EXCEPT ![e] = 1]

Next == \E e \in Execution : Start(e) \/ Move(e) \/ End(e) \/ EndMoved(e)

Spec == Init /\ [][Next]_vars
=============================================================================

---------------------- MODULE SchedulerApprovalProofs ----------------------
(***************************************************************************)
(* Theorems about what Scheduler lets run and whom it asks.  They need no  *)
(* more of the rest of the scheduler than its types, and hold whether or   *)
(* not processes go to the background.                                     *)
(***************************************************************************)
EXTENDS SchedulerProofs

-----------------------------------------------------------------------------
(* The inductive invariant.                                                *)

\* What RunsOnlyIfAllowed asks of a call that runs.
Allowed(c) ==
  \/ CheckedDecision(c) = "allow"
  \/ Policy[tool[c]] = "ask" /\ tool[c] \in Waived
  \/ <<c, tool[c], args[c]>> \in approved

\* Where a question may be put: a hook may insist, or the policy does not deny.
MayAsk(c) == "ask" \in HookDecisions \/ Policy[tool[c]] # "deny"

\* A call may run from the moment it is scheduled or the user says yes, and stays
\* allowed while it runs, reports and is confirmed again for its sandbox.
AllowedBefore(c) ==
  /\ pc[c] \in {"exec", "record"} => Allowed(c)
  /\ pc[c] \in {"details", "notify", "answer", "confirm"} /\ c \in sandboxed => Allowed(c)
  /\ pc[c] \in {"details", "notify", "answer", "confirm", "editor"} /\ c \notin sandboxed =>
       MayAsk(c)
  /\ pc[c] = "confirm" /\ answer[c] \in {"once", "always"} => Allowed(c)
  /\ pc[c] = "update" => answer[c] = "cancel" \/ Allowed(c)
  /\ status[c] = "scheduled" => Allowed(c)

\* A call whose coroutine works on it is not scheduled yet, and only a call that
\* has run is marked for a sandbox question.
Undecided(c) ==
  /\ pc[c] \notin {"idle", "settled"} => status[c] # "scheduled"
  /\ pc[c] \in {"hook", "policy", "editor", "inline", "update"} => c \notin sandboxed
  /\ c \in active /\ status[c] = "validating" => c \notin sandboxed

\* Inline content belongs to an edit that the user has seen.
InlineSeen(c) ==
  pc[c] = "inline" \/ (pc[c] = "confirm" /\ answer[c] = "inline") =>
    /\ "inline" \in Answers
    /\ tool[c] \in EditTools
    /\ <<c, tool[c], args[c]>> \in approved

ApprovalInv ==
  /\ asked # {} => "ask" \in HookDecisions
  /\ \A c \in Call : tool[c] \in TailTools \cup {ToolOf[c]}
  /\ \A c \in Call : AllowedBefore(c) /\ Undecided(c) /\ InlineSeen(c)

\* A hook that may force a question cannot force it where a denied tool would
\* answer it without the user.
NoWaivedDenial == "ask" \in HookDecisions => \A t \in Waived : Policy[t] # "deny"

\* Where the user may answer with inline content, no more than one call edits, so
\* that the first active call is the one being confirmed.
OneEditor ==
  "inline" \in Answers =>
    /\ TailTools \cap EditTools = {}
    /\ \A c, d \in Call : ToolOf[c] \in EditTools /\ ToolOf[d] \in EditTools => c = d

-----------------------------------------------------------------------------
(* What a step does to the calls it is not about.                          *)

Each(c) == AllowedBefore(c) /\ Undecided(c) /\ InlineSeen(c)

\* The step leaves d where it is: d may be cancelled, written to or created anew.
SameCall(d) ==
  /\ pc'[d] = pc[d] /\ answer'[d] = answer[d]
  /\ tool'[d] = tool[d] /\ args'[d] = args[d]
  /\ d \in sandboxed' <=> d \in sandboxed
  /\ d \in active' => d \in active
  /\ \/ status'[d] = status[d]
     \/ /\ status'[d] # "scheduled"
        /\ status'[d] = "validating" => d \notin active'

\* Rules and approvals are only added.
Grows == rules \subseteq rules' /\ approved \subseteq approved' /\ tails' = tails

\* The same for what bears on one call: a tail call forgets its own approvals.
GrowsFor(c) ==
  /\ rules \subseteq rules' /\ tails'[c] = tails[c]
  /\ \A t, a : <<c, t, a>> \in approved => <<c, t, a>> \in approved'

\* What is allowed stays allowed.
LEMMA AllowedStaysFor ==
  ASSUME NEW c \in Call, Allowed(c), GrowsFor(c), tool'[c] = tool[c], args'[c] = args[c]
  PROVE  Allowed(c)'
  BY DEF Allowed, CheckedDecision, Decision, GrowsFor

LEMMA GrowsEach ==
  ASSUME Grows, NEW c \in Call
  PROVE  GrowsFor(c)
  BY DEF Grows, GrowsFor

LEMMA AllowedStays ==
  ASSUME NEW c \in Call, Allowed(c), Grows, tool'[c] = tool[c], args'[c] = args[c]
  PROVE  Allowed(c)'
  BY AllowedStaysFor, GrowsEach

LEMMA SameKeeps ==
  ASSUME NEW d \in Call, Each(d), SameCall(d), GrowsFor(d)
  PROVE  Each(d)'
<1>1. Allowed(d) => Allowed(d)'
  BY AllowedStaysFor DEF SameCall
<1>2. AllowedBefore(d)'
  BY <1>1 DEF Each, AllowedBefore, SameCall, MayAsk
<1>3. Undecided(d)'
  BY DEF Each, Undecided, SameCall
<1>4. InlineSeen(d)'
  BY DEF Each, InlineSeen, SameCall, GrowsFor
<1> QED
  BY <1>2, <1>3, <1>4 DEF Each

\* A step that leaves every call where it is.
LEMMA AllSame ==
  ASSUME ApprovalInv, \A d \in Call : SameCall(d), Grows, asked' = asked
  PROVE  ApprovalInv'
<1>1. \A d \in Call : Each(d)'
  BY SameKeeps, GrowsEach DEF ApprovalInv, Each
<1>2. \A d \in Call : tool'[d] = tool[d]
  BY DEF SameCall
<1> QED
  BY <1>1, <1>2 DEF ApprovalInv, Each

\* A step of the coroutine of c.
LEMMA OwnStep ==
  ASSUME ApprovalInv, NEW c \in Call, \A d \in Call \ {c} : SameCall(d) /\ GrowsFor(d),
         asked' # {} => "ask" \in HookDecisions,
         tool'[c] \in TailTools \cup {ToolOf[c]}, Each(c)'
  PROVE  ApprovalInv'
<1>1. \A d \in Call : Each(d)'
  BY SameKeeps DEF ApprovalInv, Each
<1>2. \A d \in Call \ {c} : tool'[d] = tool[d]
  BY DEF SameCall
<1> QED
  BY <1>1, <1>2 DEF ApprovalInv, Each

LEMMA GotoEffect ==
  ASSUME TypeOK, NEW c \in Call, NEW l, Goto(c, l)
  PROVE  pc'[c] = l /\ \A d \in Call \ {c} : pc'[d] = pc[d]
  BY DEF TypeOK, Goto

LEMMA StatusEffect ==
  ASSUME TypeOK, NEW c \in Call, NEW s, status' = UpdateStatus(status, c, s)
  PROVE  /\ OthersKept(c)
         /\ c \in active => status'[c] \in {s, "error"}
         /\ c \notin active => status'[c] = status[c]
  BY DEF TypeOK, StateTypeOK, UpdateStatus, Transitions, OthersKept

\* The coroutine of c ends without letting its call run.
Quits(c) ==
  /\ pc'[c] = "settled"
  /\ status'[c] # "scheduled"
  /\ c \in active => status'[c] # "validating"
  /\ \A d \in Call \ {c} : pc'[d] = pc[d] /\ status'[d] = status[d]

LEMMA QuitsKeeps ==
  ASSUME NEW c \in Call, Quits(c), active' = active
  PROVE  Each(c)'
  BY DEF Quits, Each, AllowedBefore, Undecided, InlineSeen

LEMMA SettleQuits ==
  ASSUME TypeOK, NEW c \in Call, Each(c), pc[c] \notin {"idle", "settled"},
         NEW s \in Terminal, Settle(c, s)
  PROVE  Quits(c)
<1>1. status' = UpdateStatus(status, c, s) /\ Goto(c, "settled")
  BY DEF Settle
<1>2. status[c] # "scheduled"
  BY DEF Each, Undecided
<1> QED
  BY <1>1, <1>2, GotoEffect, StatusEffect DEF Quits, OthersKept, Terminal

LEMMA ThrowQuits ==
  ASSUME TypeOK, NEW c \in Call, Each(c), pc[c] \notin {"idle", "settled"}, Throw(c)
  PROVE  Quits(c)
<1>1. PICK s \in Terminal : Settle(c, s)
  BY DEF Throw, Terminal
<1> QED
  BY <1>1, SettleQuits

-----------------------------------------------------------------------------
(* The steps of the main loop, of schedule() and of a cancellation.        *)

LEMMA CancelledStatus ==
  ASSUME NEW st, CancelAllQueued(st), NEW d \in Call
  PROVE  status'[d] \in {st[d], "cancelled"}
  BY DEF CancelAllQueued, CancelQueued

LEMMA StartedStatus ==
  ASSUME NEW b \in Batch, StartBatch(b), NEW d \in Call
  PROVE  status'[d] \in {status[d], "validating", "error"}
  BY DEF StartBatch, Created

LEMMA ScheduleAllows ==
  ASSUME ApprovalInv, NEW b \in Batch, Schedule(b)
  PROVE  ApprovalInv'
<1>1. UNCHANGED <<active, pc, callVars>>
  BY DEF Schedule
<1>2. ASSUME NEW d \in Call
      PROVE  status'[d] = status[d] \/ (status'[d] # "scheduled" /\ active' = {})
  BY <1>1, StartedStatus DEF Schedule
<1>3. \A d \in Call : SameCall(d)
  BY <1>1, <1>2 DEF SameCall, callVars
<1> QED
  BY <1>1, <1>3, AllSame DEF Grows, callVars

LEMMA FinishAllows ==
  ASSUME TypeOK, ApprovalInv, FinishBatch
  PROVE  ApprovalInv'
<1>1. UNCHANGED <<active, pc, callVars>>
  BY DEF FinishBatch
<1>2. ASSUME NEW d \in Call
      PROVE  status'[d] = status[d] \/ (status'[d] # "scheduled" /\ active' = {})
  <2>1. HasNext => Head(requestQueue) \in Batch
    BY HeadTailProperties DEF HasNext, TypeOK
  <2> QED
    BY <1>1, <2>1, StartedStatus DEF FinishBatch
<1>3. \A d \in Call : SameCall(d)
  BY <1>1, <1>2 DEF SameCall, callVars
<1> QED
  BY <1>1, <1>3, AllSame DEF Grows, callVars

\* Any other step that moves no coroutine and schedules nothing.
LEMMA QuietStep ==
  ASSUME ApprovalInv, UNCHANGED <<active, pc, callVars>>,
         \A d \in Call : status'[d] \in {status[d], "cancelled", "executing"}
  PROVE  ApprovalInv'
<1>1. \A d \in Call : SameCall(d)
  BY DEF SameCall, callVars
<1> QED
  BY <1>1, AllSame DEF Grows, callVars

LEMMA TurnAllows ==
  ASSUME ApprovalInv, QueueDrained \/ StopLoop \/ FinalizeErrored
  PROVE  ApprovalInv'
<1>1. UNCHANGED <<active, pc, callVars>>
  BY DEF QueueDrained, StopLoop, FinalizeErrored, stateVars
<1>2. \A d \in Call : status'[d] \in {status[d], "cancelled"}
  BY CancelledStatus DEF QueueDrained, StopLoop, FinalizeErrored, stateVars
<1> QED
  BY <1>1, <1>2, QuietStep

LEMMA CancelAllows ==
  ASSUME ApprovalInv, CancelStep
  PROVE  ApprovalInv'
<1>1. UNCHANGED <<active, pc, callVars>>
  BY DEF CancelStep, CancelAll, UserCancels, Abort, stateVars
<1>2. CancelEverything \/ UNCHANGED status
  BY DEF CancelStep, CancelAll, UserCancels, Abort, stateVars
<1>3. ASSUME NEW d \in Call PROVE status'[d] \in {status[d], "cancelled"}
  <2>1. CASE CancelEverything /\ ~isCancelling
    <3> DEFINE st == [c \in Call |-> IF c \in active /\ status[c] \notin Terminal
                                     THEN "cancelled" ELSE status[c]]
    <3>1. CancelAllQueued(st)
      BY <2>1 DEF CancelEverything
    <3>2. st[d] \in {status[d], "cancelled"}
      OBVIOUS
    <3> HIDE DEF st
    <3> QED
      BY <3>1, <3>2, CancelledStatus
  <2>2. CASE UNCHANGED status
    BY <2>2
  <2> QED
    BY <1>2, <2>1, <2>2 DEF CancelEverything
<1> QED
  BY <1>1, <1>3, QuietStep

LEMMA OutputAllows ==
  ASSUME TypeOK, ApprovalInv, NEW c \in Call, Output(c) \/ OutputAfterResult(c)
  PROVE  ApprovalInv'
<1>1. UNCHANGED <<active, pc, callVars>> /\ status' = UpdateStatus(status, c, "executing")
  BY DEF Output, OutputAfterResult
<1>2. \A d \in Call : status'[d] \in {status[d], "executing"}
  BY <1>1 DEF UpdateStatus, TypeOK, StateTypeOK
<1> QED
  BY <1>1, <1>2, QuietStep

\* A step that sets every coroutine, with the rest of the calls as they are.
LEMMA ResetStep ==
  ASSUME ApprovalInv, UNCHANGED <<tool, args, asked, tails, rules, approved>>,
         \A d \in Call : pc'[d] \in {"idle", "settled", "hook", "exec"},
         \A d \in Call : pc'[d] = "exec" => Allowed(d) /\ status'[d] # "scheduled",
         \A d \in Call : pc'[d] = "hook" => d \notin sandboxed' /\ status'[d] # "scheduled",
         \A d \in Call : status'[d] \in {status[d], "executing", "cancelled"},
         \A d \in active' : status'[d] = "validating" => d \notin sandboxed'
  PROVE  ApprovalInv'
<1>1. ASSUME NEW d \in Call PROVE Each(d)'
  <2>1. Allowed(d) => Allowed(d)'
    BY AllowedStays DEF Grows
  <2>2. AllowedBefore(d)'
    BY <2>1 DEF ApprovalInv, AllowedBefore
  <2> QED
    BY <2>2 DEF Each, Undecided, InlineSeen
<1> QED
  BY <1>1 DEF ApprovalInv, Each

LEMMA StartWaveAllows ==
  ASSUME ApprovalInv, StartWave
  PROVE  ApprovalInv'
<1>1. PICK S : Validate(S) /\ active' = S
  BY DEF StartWave
<1>2. UNCHANGED <<tool, args, asked, tails, rules, approved, status>>
  BY DEF StartWave
<1> QED
  BY <1>1, <1>2, ResetStep DEF Validate

LEMMA RevisitAllows ==
  ASSUME TypeOK, ApprovalInv, Revisit
  PROVE  ApprovalInv'
<1>1. UNCHANGED <<tool, args, asked, tails, rules, approved, status, active, sandboxed>>
  BY DEF Revisit, stateVars, callVars
<1>2. \A d \in Call : pc'[d] = IF d \in active /\ status[d] = "validating" THEN "hook" ELSE "idle"
  BY DEF Revisit
<1>3. \A d \in active : d \in Call /\ (status[d] = "validating" => d \notin sandboxed)
  BY DEF ApprovalInv, Undecided, TypeOK, StateTypeOK
<1> QED
  BY <1>1, <1>2, <1>3, ResetStep

LEMMA ExecuteAllows ==
  ASSUME TypeOK, ApprovalInv, StartExecution
  PROVE  ApprovalInv'
<1>1. UNCHANGED <<tool, args, asked, tails, rules, approved, active, sandboxed>>
  BY DEF StartExecution, callVars
<1>2. \A d \in Call : d \in ScheduledCalls => Allowed(d)
  BY DEF ScheduledCalls, ApprovalInv, AllowedBefore
<1>3. \A d \in Call : /\ pc'[d] \in {"idle", "exec", "settled"}
                      /\ pc'[d] = "exec" => d \in ScheduledCalls
                      /\ d \in ScheduledCalls => status'[d] \in {"executing", "cancelled"}
                      /\ d \notin ScheduledCalls => status'[d] = status[d]
  BY DEF StartExecution
<1>4. \A d \in active : d \in Call /\ (status[d] = "validating" => d \notin sandboxed)
  BY DEF ApprovalInv, Undecided, TypeOK, StateTypeOK
<1>5. \A d \in active' : status'[d] = "validating" => d \notin sandboxed'
  BY <1>1, <1>3, <1>4
<1> QED
  BY <1>1, <1>2, <1>3, <1>5, ResetStep

LEMMA FinalizeAllows ==
  ASSUME TypeOK, ApprovalInv, NothingToExecute \/ ExecutionDone
  PROVE  ApprovalInv'
<1>1. /\ UNCHANGED <<tool, args, asked, tails, rules, approved, sandboxed, status>>
      /\ pc' = [d \in Call |-> "idle"] /\ active' \subseteq active
  BY DEF NothingToExecute, ExecutionDone, FinalizeTerminal, callVars
<1>2. \A d \in active : d \in Call /\ (status[d] = "validating" => d \notin sandboxed)
  BY DEF ApprovalInv, Undecided, TypeOK, StateTypeOK
<1> QED
  BY <1>1, <1>2, ResetStep

-----------------------------------------------------------------------------
(* The steps of a coroutine.                                               *)

\* What a step of the coroutine of c leaves alone.
Beside(c) ==
  /\ active' \subseteq active /\ Grows
  /\ \A d \in Call \ {c} : /\ pc'[d] = pc[d] /\ status'[d] \in {status[d], "cancelled"}
                           /\ answer'[d] = answer[d]
                           /\ tool'[d] = tool[d] /\ args'[d] = args[d]
                           /\ d \in sandboxed' <=> d \in sandboxed

LEMMA BesideStep ==
  ASSUME ApprovalInv, NEW c \in Call, Beside(c), Each(c)', tool'[c] = tool[c], asked' = asked
  PROVE  ApprovalInv'
<1>1. \A d \in Call \ {c} : SameCall(d)
  BY DEF Beside, SameCall
<1>2. \A d \in Call \ {c} : GrowsFor(d)
  BY GrowsEach DEF Beside
<1>3. asked' # {} => "ask" \in HookDecisions
  BY DEF ApprovalInv
<1>4. tool'[c] \in TailTools \cup {ToolOf[c]}
  BY DEF ApprovalInv
<1> QED
  BY <1>1, <1>2, <1>3, <1>4, OwnStep

\* The coroutine of c goes on without letting its call run.
LEMMA MovesOn ==
  ASSUME NEW c \in Call, NEW l \in {"policy", "details", "notify", "answer", "editor"},
         pc'[c] = l, status'[c] # "scheduled",
         c \in sandboxed' => l \in {"details", "notify", "answer"} /\ Allowed(c)',
         l # "policy" /\ c \notin sandboxed' => MayAsk(c)',
         c \in active' /\ status'[c] = "validating" => c \notin sandboxed'
  PROVE  Each(c)'
  BY DEF Each, AllowedBefore, Undecided, InlineSeen

LEMMA HookAllows ==
  ASSUME TypeOK, ApprovalInv, NEW c \in Call, HookReturns(c)
  PROVE  ApprovalInv'
<1>1. /\ pc[c] = "hook" /\ Each(c)
      /\ UNCHANGED <<active, sandboxed, answer, tool, args, tails, rules, approved>>
  BY DEF HookReturns, ApprovalInv, Each
<1>2. asked' # {} => "ask" \in HookDecisions
  BY DEF HookReturns, ApprovalInv
<1>3. Quits(c) \/ (Goto(c, "policy") /\ UNCHANGED status)
  BY <1>1, SettleQuits DEF HookReturns, Terminal
<1>4. \A d \in Call \ {c} : pc'[d] = pc[d] /\ status'[d] = status[d]
  BY <1>3, GotoEffect DEF Quits
<1>5. \A d \in Call \ {c} : SameCall(d)
  BY <1>1, <1>4 DEF SameCall
<1>6. Each(c)'
  <2>1. CASE Quits(c)
    BY <1>1, <2>1, QuitsKeeps
  <2>2. CASE Goto(c, "policy") /\ UNCHANGED status
    BY <1>1, <2>2, GotoEffect, MovesOn DEF Each, Undecided
  <2> QED
    BY <1>3, <2>1, <2>2
<1>7. tool'[c] \in TailTools \cup {ToolOf[c]}
  BY <1>1 DEF ApprovalInv
<1> QED
  BY <1>1, <1>2, <1>5, <1>6, <1>7, OwnStep DEF GrowsFor

\* The coroutine of c asks again: it ends, or goes on to the details.
LEMMA AskAgainGoes ==
  ASSUME TypeOK, NEW c \in Call, Each(c), pc[c] \in {"policy", "editor"}, AskAgain(c),
         UNCHANGED <<active, sandboxed, tool>>, pc[c] = "policy" => MayAsk(c)
  PROVE  /\ Each(c)'
         /\ \A d \in Call \ {c} : pc'[d] = pc[d] /\ status'[d] = status[d]
<1>1. Quits(c) \/ (Goto(c, "details") /\ UNCHANGED status)
  BY ThrowQuits DEF AskAgain
<1>2. CASE Quits(c)
  BY <1>2, QuitsKeeps DEF Quits
<1>3. CASE Goto(c, "details") /\ UNCHANGED status
  <2>1. c \notin sandboxed /\ MayAsk(c)'
    BY DEF Each, Undecided, AllowedBefore, MayAsk
  <2> QED
    BY <1>3, <2>1, GotoEffect, MovesOn DEF Each, Undecided
<1> QED
  BY <1>1, <1>2, <1>3

LEMMA PolicyAllows ==
  ASSUME TypeOK, ApprovalInv, NEW c \in Call, PolicyReturns(c)
  PROVE  ApprovalInv'
<1>1. /\ pc[c] = "policy" /\ Each(c)
      /\ UNCHANGED <<active, sandboxed, tool, args, tails, rules, approved, asked>>
  BY DEF PolicyReturns, ApprovalInv, Each
<1>2. \/ Throw(c) \/ Settle(c, "error") \/ (MayAsk(c) /\ AskAgain(c))
      \/ CheckedDecision(c) = "allow" /\ Settle(c, "scheduled")
  BY DEF PolicyReturns, MayAsk, ApprovalInv, CheckedDecision, Decision
<1>3. /\ Each(c)'
      /\ \A d \in Call \ {c} : pc'[d] = pc[d] /\ status'[d] = status[d]
  <2>1. CASE Throw(c) \/ Settle(c, "error")
    <3>1. Quits(c)
      BY <1>1, <2>1, SettleQuits, ThrowQuits DEF Terminal
    <3> QED
      BY <1>1, <3>1, QuitsKeeps DEF Quits
  <2>2. CASE MayAsk(c) /\ AskAgain(c)
    BY <1>1, <2>2, AskAgainGoes
  <2>3. CASE CheckedDecision(c) = "allow" /\ Settle(c, "scheduled")
    <3>1. Allowed(c)
      BY <2>3 DEF Allowed
    <3>2. Allowed(c)'
      BY <1>1, <3>1, AllowedStays DEF Grows
    <3>3. pc'[c] = "settled" /\ \A d \in Call \ {c} : pc'[d] = pc[d] /\ status'[d] = status[d]
      BY <2>3, GotoEffect, StatusEffect DEF Settle, OthersKept
    <3>4. c \notin sandboxed
      BY <1>1 DEF Each, Undecided
    <3> QED
      BY <1>1, <3>2, <3>3, <3>4 DEF Each, AllowedBefore, Undecided, InlineSeen
  <2> QED
    BY <1>2, <2>1, <2>2, <2>3
<1>4. \A d \in Call \ {c} : answer'[d] = answer[d]
  BY DEF PolicyReturns, TypeOK
<1>5. Beside(c)
  BY <1>1, <1>3, <1>4 DEF Beside, Grows
<1> QED
  BY <1>1, <1>3, <1>5, BesideStep

\* resolveConfirmation returns: a call that is not refused must be allowed by now.
LEMMA DecidedAllows ==
  ASSUME TypeOK, NEW c \in Call, Each(c), pc[c] \in {"details", "confirm", "inline"},
         NEW o, Decided(c, o), o = "cancel" \/ Allowed(c)', active' = active
  PROVE  /\ Each(c)' /\ rules \subseteq rules'
         /\ \A d \in Call \ {c} : /\ pc'[d] = pc[d] /\ status'[d] = status[d]
                                  /\ answer'[d] = answer[d]
                                  /\ d \in sandboxed' <=> d \in sandboxed
<1>1. answer'[c] = o /\ \A d \in Call \ {c} : answer'[d] = answer[d]
  BY DEF Decided, TypeOK
<1>2. rules \subseteq rules' /\ status[c] # "scheduled"
  BY DEF Decided, RulesAfter, Each, Undecided
<1>3. CASE c \notin sandboxed
  <2>1. Goto(c, "update") /\ UNCHANGED <<status, sandboxed>>
    BY <1>3 DEF Decided
  <2>2. pc'[c] = "update" /\ \A d \in Call \ {c} : pc'[d] = pc[d]
    BY <2>1, GotoEffect
  <2>3. Each(c)'
    BY <1>1, <1>2, <1>3, <2>1, <2>2 DEF Each, AllowedBefore, Undecided, InlineSeen
  <2> QED
    BY <1>1, <1>2, <2>1, <2>2, <2>3
<1>4. CASE c \in sandboxed
  <2>1. SandboxDecided(c, o) /\ sandboxed' = sandboxed \ {c}
    BY <1>4 DEF Decided, SandboxDecided
  <2>2. CASE Settle(c, "error") \/ Settle(c, "cancelled")
    <3>1. Quits(c)
      BY <2>2, SettleQuits DEF Terminal
    <3> QED
      BY <1>1, <1>2, <2>1, <3>1, QuitsKeeps DEF Quits
  <2>3. CASE o # "cancel" /\ status' = UpdateStatus(status, c, "executing") /\ Goto(c, "exec")
    <3>1. pc'[c] = "exec" /\ \A d \in Call \ {c} : pc'[d] = pc[d] /\ status'[d] = status[d]
      BY <2>3, GotoEffect, StatusEffect DEF OthersKept
    <3>2. status'[c] # "scheduled"
      BY <1>2, <2>3, StatusEffect
    <3>3. Each(c)'
      BY <2>1, <2>3, <3>1, <3>2 DEF Each, AllowedBefore, Undecided, InlineSeen
    <3> QED
      BY <1>1, <1>2, <2>1, <3>1, <3>3
  <2> QED
    BY <2>1, <2>2, <2>3 DEF SandboxDecided
<1> QED
  BY <1>3, <1>4

LEMMA DetailsAllows ==
  ASSUME NoWaivedDenial, TypeOK, ApprovalInv, NEW c \in Call, DetailsReturn(c)
  PROVE  ApprovalInv'
<1>1. /\ pc[c] = "details" /\ Each(c)
      /\ UNCHANGED <<active, tool, args, tails, approved, asked>>
  BY DEF DetailsReturn, ApprovalInv, Each
<1>2. \/ Throw(c) /\ UNCHANGED <<sandboxed, answer, rules>>
      \/ Goto(c, "notify") /\ UNCHANGED <<status, sandboxed, answer, rules>>
      \/ Allowed(c) /\ Decided(c, "once")
  <2>1. PICK decision \in Decisions(c) :
          \/ Throw(c) /\ UNCHANGED <<sandboxed, answer, rules>>
          \/ Goto(c, "notify") /\ UNCHANGED <<status, sandboxed, answer, rules>>
          \/ /\ \/ decision = "allow"
                \/ decision = "ask" /\ c \notin sandboxed /\ tool[c] \in Waived
             /\ Decided(c, "once")
    BY DEF DetailsReturn
  <2>2. decision = "allow" => Allowed(c)
    BY DEF Allowed, CheckedDecision, Decisions
  <2>3. ASSUME c \notin sandboxed, tool[c] \in Waived PROVE Allowed(c)
    <3>1. Policy[tool[c]] # "deny"
      BY <1>1, <2>3 DEF NoWaivedDenial, Each, AllowedBefore, MayAsk
    <3>2. Policy[tool[c]] \in {"allow", "ask", "deny"}
      BY ToolsAssumption DEF TypeOK
    <3>3. Policy[tool[c]] = "allow" => CheckedDecision(c) = "allow"
      BY DEF CheckedDecision, Decision
    <3> QED
      BY <2>3, <3>1, <3>2, <3>3 DEF Allowed
  <2> QED
    BY <2>1, <2>2, <2>3
<1>3. /\ Each(c)' /\ rules \subseteq rules'
      /\ \A d \in Call \ {c} : /\ pc'[d] = pc[d] /\ status'[d] = status[d]
                               /\ answer'[d] = answer[d]
                               /\ d \in sandboxed' <=> d \in sandboxed
  <2>1. CASE Throw(c) /\ UNCHANGED <<sandboxed, answer, rules>>
    BY <1>1, <2>1, ThrowQuits, QuitsKeeps DEF Quits
  <2>2. CASE Goto(c, "notify") /\ UNCHANGED <<status, sandboxed, answer, rules>>
    <3>1. c \in sandboxed => Allowed(c)
      BY <1>1 DEF Each, AllowedBefore
    <3>2. Allowed(c) => Allowed(c)'
      BY <1>1, <2>2, AllowedStays DEF Grows
    <3>3. pc'[c] = "notify" /\ \A d \in Call \ {c} : pc'[d] = pc[d]
      BY <2>2, GotoEffect
    <3>4. c \notin sandboxed => MayAsk(c)'
      BY <1>1 DEF Each, AllowedBefore, MayAsk
    <3>5. Each(c)'
      BY <1>1, <2>2, <3>1, <3>2, <3>3, <3>4, MovesOn DEF Each, Undecided
    <3> QED
      BY <2>2, <3>3, <3>5
  <2>3. CASE Allowed(c) /\ Decided(c, "once")
    <3>1. Grows
      BY <1>1, <2>3 DEF Decided, RulesAfter, Grows
    <3>2. Allowed(c)'
      BY <1>1, <2>3, <3>1, AllowedStays
    <3> QED
      BY <1>1, <2>3, <3>2, DecidedAllows
  <2> QED
    BY <1>2, <2>1, <2>2, <2>3
<1>4. Beside(c)
  BY <1>1, <1>3 DEF Beside, Grows
<1> QED
  BY <1>1, <1>3, <1>4, BesideStep

LEMMA NotifyAllows ==
  ASSUME TypeOK, ApprovalInv, NEW c \in Call, NotifyReturns(c)
  PROVE  ApprovalInv'
<1>1. /\ pc[c] = "notify" /\ Each(c)
      /\ UNCHANGED <<active, sandboxed, answer, tool, args, tails, rules, approved, asked>>
  BY DEF NotifyReturns, ApprovalInv, Each
<1>2. /\ Each(c)'
      /\ \A d \in Call \ {c} : pc'[d] = pc[d] /\ status'[d] = status[d]
  <2>1. CASE Throw(c)
    BY <1>1, <2>1, ThrowQuits, QuitsKeeps DEF Quits
  <2>2. CASE status' = UpdateStatus(status, c, "awaiting") /\ Goto(c, "answer")
    <3>1. pc'[c] = "answer" /\ \A d \in Call \ {c} : pc'[d] = pc[d] /\ status'[d] = status[d]
      BY <2>2, GotoEffect, StatusEffect DEF OthersKept
    <3>2. status'[c] # "scheduled" /\ (c \in active => status'[c] # "validating")
      BY <1>1, <2>2, StatusEffect DEF Each, Undecided
    <3>3. c \in sandboxed => Allowed(c)
      BY <1>1 DEF Each, AllowedBefore
    <3>4. Allowed(c) => Allowed(c)'
      BY <1>1, AllowedStays DEF Grows
    <3>5. c \notin sandboxed => MayAsk(c)'
      BY <1>1 DEF Each, AllowedBefore, MayAsk
    <3>6. Each(c)'
      BY <1>1, <3>1, <3>2, <3>3, <3>4, <3>5, MovesOn
    <3> QED
      BY <3>1, <3>6
  <2> QED
    BY <2>1, <2>2 DEF NotifyReturns
<1>3. Beside(c)
  BY <1>1, <1>2 DEF Beside, Grows
<1> QED
  BY <1>1, <1>2, <1>3, BesideStep

LEMMA AbortedAnswerAllows ==
  ASSUME TypeOK, ApprovalInv, NEW c \in Call, AnswerAborted(c)
  PROVE  ApprovalInv'
<1>1. pc[c] = "answer" /\ Each(c) /\ Throw(c) /\ UNCHANGED <<active, callVars>>
  BY DEF AnswerAborted, ApprovalInv, Each
<1>2. Quits(c)
  BY <1>1, ThrowQuits
<1>3. Each(c)'
  BY <1>1, <1>2, QuitsKeeps
<1>4. Beside(c)
  BY <1>1, <1>2 DEF Beside, Grows, Quits, callVars
<1> QED
  BY <1>1, <1>3, <1>4, BesideStep DEF callVars

\* An exception or an AbortError ends the coroutine.
LEMMA RaisesAllows ==
  ASSUME TypeOK, ApprovalInv, NEW c \in Call, Raises(c)
  PROVE  ApprovalInv'
<1>1. pc[c] \notin {"idle", "settled"} /\ Each(c) /\ UNCHANGED <<active, callVars>>
  BY DEF Raises, ApprovalInv, Each
<1>2. Quits(c)
  BY <1>1, ThrowQuits, SettleQuits DEF Raises, Terminal
<1>3. Each(c)'
  BY <1>1, <1>2, QuitsKeeps
<1>4. Beside(c)
  BY <1>1, <1>2 DEF Beside, Grows, Quits, callVars
<1> QED
  BY <1>1, <1>3, <1>4, BesideStep DEF callVars

\* The user answers: whatever may run afterwards has been shown as it is.
LEMMA AnswerAllows ==
  ASSUME TypeOK, ApprovalInv, NEW c \in Call, NEW o \in Answers, Answer(c, o)
  PROVE  ApprovalInv'
<1>1. /\ pc[c] = "answer" /\ Each(c) /\ Goto(c, "confirm")
      /\ UNCHANGED <<active, status, sandboxed, tool, args, tails, rules, asked>>
  BY DEF Answer, ApprovalInv, Each, stateVars
<1>2. /\ approved \subseteq approved'
      /\ o \in {"once", "always", "inline"} => <<c, tool[c], args[c]>> \in approved'
      /\ o \in {"modify", "inline"} => tool[c] \in EditTools
  BY DEF Answer
<1>3. answer'[c] = o /\ \A d \in Call \ {c} : answer'[d] = answer[d]
  BY DEF Answer, TypeOK
<1>4. pc'[c] = "confirm" /\ \A d \in Call \ {c} : pc'[d] = pc[d]
  BY <1>1, GotoEffect
<1>5. Beside(c)
  BY <1>1, <1>2, <1>3, <1>4 DEF Beside, Grows
<1>6. c \in sandboxed \/ o \in {"once", "always"} => Allowed(c)'
  <2>1. c \in sandboxed => Allowed(c)
    BY <1>1 DEF Each, AllowedBefore
  <2>2. Allowed(c) => Allowed(c)'
    BY <1>1, <1>5, AllowedStays DEF Beside
  <2>3. o \in {"once", "always"} => Allowed(c)'
    BY <1>1, <1>2 DEF Allowed
  <2> QED
    BY <2>1, <2>2, <2>3
<1>7. c \notin sandboxed => MayAsk(c)'
  BY <1>1 DEF Each, AllowedBefore, MayAsk
<1>8. Each(c)'
  BY <1>1, <1>2, <1>3, <1>4, <1>6, <1>7 DEF Each, AllowedBefore, Undecided, InlineSeen
<1> QED
  BY <1>1, <1>5, <1>8, BesideStep

\* onConfirm returns.
LEMMA ConfirmAllows ==
  ASSUME TypeOK, ApprovalInv, NEW c \in Call, ConfirmReturns(c)
  PROVE  ApprovalInv'
<1>1. /\ pc[c] = "confirm" /\ Each(c)
      /\ UNCHANGED <<active, tool, args, tails, asked, approved>>
  BY DEF ConfirmReturns, ApprovalInv, Each
<1>2. status[c] # "scheduled"
  BY <1>1 DEF Each, Undecided
<1>3. /\ Each(c)' /\ rules \subseteq rules'
      /\ \A d \in Call \ {c} : /\ pc'[d] = pc[d] /\ status'[d] = status[d]
                               /\ answer'[d] = answer[d]
                               /\ d \in sandboxed' <=> d \in sandboxed
  <2>1. CASE answer[c] \in {"once", "always", "cancel"} /\ Decided(c, answer[c])
    <3>1. Grows
      BY <1>1, <2>1 DEF Decided, RulesAfter, Grows
    <3>2. answer[c] = "cancel" \/ Allowed(c)
      BY <1>1, <2>1 DEF Each, AllowedBefore
    <3>3. answer[c] = "cancel" \/ Allowed(c)'
      BY <1>1, <3>1, <3>2, AllowedStays
    <3> QED
      BY <1>1, <2>1, <3>3, DecidedAllows
  <2>2. CASE /\ answer[c] = "modify" /\ c \notin sandboxed /\ Goto(c, "editor")
             /\ UNCHANGED <<status, sandboxed, answer, rules>>
    <3>1. pc'[c] = "editor" /\ \A d \in Call \ {c} : pc'[d] = pc[d]
      BY <2>2, GotoEffect
    <3>2. MayAsk(c)'
      BY <1>1, <2>2 DEF Each, AllowedBefore, MayAsk
    <3>3. Each(c)'
      BY <1>2, <2>2, <3>1, <3>2, MovesOn
    <3> QED
      BY <2>2, <3>1, <3>3
  <2>3. CASE /\ answer[c] = "inline" /\ c \notin sandboxed /\ Goto(c, "inline")
             /\ UNCHANGED <<status, sandboxed, answer, rules>>
    <3>1. pc'[c] = "inline" /\ \A d \in Call \ {c} : pc'[d] = pc[d]
      BY <2>3, GotoEffect
    <3>2. Each(c)'
      BY <1>1, <1>2, <2>3, <3>1 DEF Each, AllowedBefore, Undecided, InlineSeen
    <3> QED
      BY <2>3, <3>1, <3>2
  <2>4. CASE Throw(c) /\ UNCHANGED <<sandboxed, answer, rules>>
    BY <1>1, <2>4, ThrowQuits, QuitsKeeps DEF Quits
  <2> QED
    BY <2>1, <2>2, <2>3, <2>4 DEF ConfirmReturns
<1>4. Beside(c)
  BY <1>1, <1>3 DEF Beside, Grows
<1> QED
  BY <1>1, <1>3, <1>4, BesideStep

LEMMA EditorAllows ==
  ASSUME TypeOK, ApprovalInv, NEW c \in Call, EditorReturns(c)
  PROVE  ApprovalInv'
<1>1. /\ pc[c] = "editor" /\ Each(c)
      /\ UNCHANGED <<active, sandboxed, answer, tool, tails, rules, approved, asked>>
  BY DEF EditorReturns, ApprovalInv, Each
<1>2. AskAgain(c) \/ Throw(c)
  BY DEF EditorReturns
<1>3. /\ Each(c)'
      /\ \A d \in Call \ {c} : pc'[d] = pc[d] /\ status'[d] = status[d]
  <2>1. CASE AskAgain(c)
    BY <1>1, <2>1, AskAgainGoes
  <2>2. CASE Throw(c)
    BY <1>1, <2>2, ThrowQuits, QuitsKeeps DEF Quits
  <2> QED
    BY <1>2, <2>1, <2>2
<1>4. \A d \in Call \ {c} : args'[d] = args[d]
  BY DEF EditorReturns, TakeEditedArgs, TypeOK
<1>5. Beside(c)
  BY <1>1, <1>3, <1>4 DEF Beside, Grows
<1> QED
  BY <1>1, <1>3, <1>5, BesideStep

\* With one editor the first active call that edits is the call being confirmed.
LEMMA InlineAllows ==
  ASSUME OneEditor, TypeOK, ApprovalInv, NEW c \in Call, InlineReturns(c)
  PROVE  ApprovalInv'
<1>1. /\ pc[c] = "inline" /\ Each(c) /\ Decided(c, "once")
      /\ UNCHANGED <<active, tool, tails, approved, asked>>
  BY DEF InlineReturns, ApprovalInv, Each
<1>2. /\ "inline" \in Answers /\ tool[c] \in EditTools
      /\ <<c, tool[c], args[c]>> \in approved
  BY <1>1 DEF Each, InlineSeen
<1>3. \A f \in active : tool[f] \in EditTools => f = c
  <2>1. active \subseteq Call
    BY DEF TypeOK, StateTypeOK
  <2>2. \A f \in Call : tool[f] \in EditTools => ToolOf[f] \in EditTools
    BY <1>2 DEF OneEditor, ApprovalInv
  <2> QED
    BY <1>2, <2>1, <2>2 DEF OneEditor
<1>4. args' = args
  <2>1. PICK f \in active : TakeEditedArgs(c, f)
    BY DEF InlineReturns
  <2>2. [args EXCEPT ![c] = args[c]] = args
    BY DEF TypeOK
  <2> QED
    BY <1>3, <2>1, <2>2 DEF TakeEditedArgs
<1>5. Allowed(c)'
  BY <1>1, <1>2, <1>4 DEF Allowed
<1>6. /\ Each(c)' /\ rules \subseteq rules'
      /\ \A d \in Call \ {c} : /\ pc'[d] = pc[d] /\ status'[d] = status[d]
                               /\ answer'[d] = answer[d]
                               /\ d \in sandboxed' <=> d \in sandboxed
  BY <1>1, <1>5, DecidedAllows
<1>7. Beside(c)
  BY <1>1, <1>4, <1>6 DEF Beside, Grows
<1> QED
  BY <1>1, <1>6, <1>7, BesideStep

LEMMA UpdateAllows ==
  ASSUME TypeOK, ApprovalInv, NEW c \in Call, UpdateReturns(c)
  PROVE  ApprovalInv'
<1>1. pc[c] = "update" /\ Each(c) /\ UNCHANGED <<active, callVars>> /\ Goto(c, "settled")
  BY DEF UpdateReturns, ApprovalInv, Each
<1>2. pc'[c] = "settled" /\ \A d \in Call \ {c} : pc'[d] = pc[d]
  BY <1>1, GotoEffect
<1>3. c \notin sandboxed' /\ status[c] # "scheduled"
  BY <1>1 DEF Each, Undecided, callVars
<1>4. Allowed(c) => Allowed(c)'
  BY <1>1, AllowedStays DEF Grows, callVars
<1>5. CASE answer[c] = "cancel"
  <2> DEFINE st == UpdateStatus(status, c, "cancelled")
  <2>1. CancelAllQueued(st)
    BY <1>5 DEF UpdateReturns
  <2>2. \A d \in Call : st[d] \in {status[d], "cancelled"}
    BY DEF UpdateStatus, TypeOK, StateTypeOK
  <2> HIDE DEF st
  <2>3. \A d \in Call : status'[d] \in {status[d], "cancelled"}
    BY <2>1, <2>2, CancelledStatus
  <2>4. Each(c)'
    BY <1>2, <1>3, <2>3 DEF Each, AllowedBefore, Undecided, InlineSeen
  <2>5. Beside(c)
    BY <1>1, <1>2, <2>3 DEF Beside, Grows, callVars
  <2> QED
    BY <1>1, <2>4, <2>5, BesideStep DEF callVars
<1>6. CASE answer[c] # "cancel"
  <2>1. Allowed(c) /\ status' = UpdateStatus(status, c, "scheduled")
    BY <1>1, <1>6 DEF Each, AllowedBefore, UpdateReturns
  <2>2. Each(c)'
    BY <1>2, <1>3, <1>4, <2>1 DEF Each, AllowedBefore, Undecided, InlineSeen
  <2>3. Beside(c)
    BY <1>1, <1>2, <2>1, StatusEffect DEF Beside, Grows, callVars, OthersKept
  <2> QED
    BY <1>1, <2>2, <2>3, BesideStep DEF callVars
<1> QED
  BY <1>5, <1>6

LEMMA ToolAllows ==
  ASSUME TypeOK, ApprovalInv, NEW c \in Call, NEW v, ToolReturns(c, v)
  PROVE  ApprovalInv'
<1>1. /\ pc[c] = "exec" /\ Each(c) /\ Goto(c, "record")
      /\ UNCHANGED <<active, status, sandboxed, answer, tool, args, tails, rules, approved,
                     asked>>
  BY DEF ToolReturns, ApprovalInv, Each, stateVars
<1>2. pc'[c] = "record" /\ \A d \in Call \ {c} : pc'[d] = pc[d]
  BY <1>1, GotoEffect
<1>3. Allowed(c)'
  BY <1>1, AllowedStays DEF Each, AllowedBefore, Grows
<1>4. Each(c)'
  BY <1>1, <1>2, <1>3 DEF Each, AllowedBefore, Undecided, InlineSeen
<1>5. Beside(c)
  BY <1>1, <1>2 DEF Beside, Grows
<1> QED
  BY <1>1, <1>4, <1>5, BesideStep

LEMMA RecordStatusAllows ==
  ASSUME TypeOK, ApprovalInv, NEW c \in Call, RecordStatus(c)
  PROVE  ApprovalInv'
<1>1. Quits(c) /\ UNCHANGED <<active, callVars>>
  BY SettleQuits DEF RecordStatus, ApprovalInv, Each
<1>2. Each(c)'
  BY <1>1, QuitsKeeps
<1>3. Beside(c)
  BY <1>1 DEF Beside, Grows, Quits, callVars
<1> QED
  BY <1>1, <1>2, <1>3, BesideStep DEF callVars

\* A tail call starts over: it has to be allowed under its own name.
LEMMA TailCallAllows ==
  ASSUME TypeOK, ApprovalInv, NEW c \in Call, RecordTailCall(c)
  PROVE  ApprovalInv'
<1>1. PICK t \in TailTools, built \in BOOLEAN :
        /\ tool' = [tool EXCEPT ![c] = t]
        /\ status' = [status EXCEPT ![c] = Created(t, built)]
  BY DEF RecordTailCall
<1>2. /\ Goto(c, "tailed") /\ active' = active \ {c}
      /\ UNCHANGED <<sandboxed, answer, rules, asked>>
      /\ args' = [args EXCEPT ![c] = c]
  BY DEF RecordTailCall, Replace
<1>3. pc'[c] = "tailed" /\ \A d \in Call \ {c} : pc'[d] = pc[d]
  BY <1>2, GotoEffect
<1>4. /\ tool'[c] = t /\ status'[c] \in {"validating", "error"}
      /\ \A d \in Call \ {c} : /\ tool'[d] = tool[d] /\ status'[d] = status[d]
                               /\ args'[d] = args[d]
  BY <1>1, <1>2 DEF TypeOK, StateTypeOK, Created
<1>5. Each(c)'
  BY <1>2, <1>3, <1>4 DEF Each, AllowedBefore, Undecided, InlineSeen
<1>6. \A d \in Call \ {c} : SameCall(d) /\ GrowsFor(d)
  <2>1. \A d \in Call \ {c} : SameCall(d)
    BY <1>2, <1>3, <1>4 DEF SameCall
  <2>2. \A d \in Call \ {c} : tails'[d] = tails[d]
    BY DEF RecordTailCall, TypeOK
  <2>3. \A d \in Call \ {c} : \A t2, a2 :
          <<d, t2, a2>> \in approved => <<d, t2, a2>> \in approved'
    BY DEF RecordTailCall
  <2> QED
    BY <1>2, <2>1, <2>2, <2>3 DEF GrowsFor
<1>7. asked' # {} => "ask" \in HookDecisions
  BY <1>2 DEF ApprovalInv
<1> QED
  BY <1>4, <1>5, <1>6, <1>7, OwnStep

\* A sandbox report asks about a call that has run: it was allowed and stays so.
LEMMA SandboxAllows ==
  ASSUME TypeOK, ApprovalInv, NEW c \in Call, RecordSandboxError(c)
  PROVE  ApprovalInv'
<1>1. /\ pc[c] = "record" /\ Each(c)
      /\ UNCHANGED <<active, answer, tool, args, tails, rules, approved, asked>>
  BY DEF RecordSandboxError, ApprovalInv, Each
<1>2. sandboxed' \in {sandboxed, sandboxed \cup {c}}
  BY DEF RecordSandboxError
<1>3. /\ Each(c)'
      /\ \A d \in Call \ {c} : pc'[d] = pc[d] /\ status'[d] = status[d]
  <2>1. CASE Settle(c, "error")
    <3>1. Quits(c)
      BY <1>1, <2>1, SettleQuits DEF Terminal
    <3> QED
      BY <1>1, <3>1, QuitsKeeps DEF Quits
  <2>2. CASE /\ sandboxed' = sandboxed \cup {c}
             /\ status' = UpdateStatus(status, c, "awaiting") /\ Goto(c, "details")
    <3>1. pc'[c] = "details" /\ \A d \in Call \ {c} : pc'[d] = pc[d] /\ status'[d] = status[d]
      BY <2>2, GotoEffect, StatusEffect DEF OthersKept
    <3>2. status'[c] # "scheduled" /\ (c \in active => status'[c] # "validating")
      BY <1>1, <2>2, StatusEffect DEF Each, Undecided
    <3>3. Allowed(c)'
      BY <1>1, AllowedStays DEF Each, AllowedBefore, Grows
    <3>4. Each(c)'
      BY <1>1, <2>2, <3>1, <3>2, <3>3, MovesOn
    <3> QED
      BY <3>1, <3>4
  <2> QED
    BY <2>1, <2>2 DEF RecordSandboxError
<1>4. Beside(c)
  BY <1>1, <1>2, <1>3 DEF Beside, Grows
<1> QED
  BY <1>1, <1>3, <1>4, BesideStep

-----------------------------------------------------------------------------
(* The theorem.                                                            *)

LEMMA ApprovalInit == Init => ApprovalInv
<1> SUFFICES ASSUME Init PROVE ApprovalInv
  OBVIOUS
<1>1. \A c \in Call : pc[c] = "idle" /\ status[c] = "none" /\ tool[c] = ToolOf[c]
  BY DEF Init, StateInit
<1>2. asked = {}
  BY DEF Init
<1> QED
  BY <1>1, <1>2 DEF ApprovalInv, AllowedBefore, Undecided, InlineSeen

LEMMA ApprovalStep ==
  ASSUME NoWaivedDenial, OneEditor, TypeOK, ApprovalInv, [Next]_vars
  PROVE  ApprovalInv'
<1>1. ASSUME NEW b \in Batch, Schedule(b) PROVE ApprovalInv'
  BY <1>1, ScheduleAllows
<1>2. CASE LoopStep
  BY <1>2, TurnAllows, StartWaveAllows, RevisitAllows, ExecuteAllows, FinalizeAllows,
     FinishAllows DEF LoopStep
<1>3. ASSUME NEW c \in Call, CallStep(c) PROVE ApprovalInv'
  BY <1>3, HookAllows, PolicyAllows, DetailsAllows, NotifyAllows, AbortedAnswerAllows,
     ConfirmAllows, RaisesAllows, EditorAllows, InlineAllows, UpdateAllows, ToolAllows, RecordStatusAllows,
     TailCallAllows, SandboxAllows DEF CallStep
<1>4. ASSUME NEW c \in Call, UserStep(c) PROVE ApprovalInv'
  BY <1>4, AnswerAllows DEF UserStep
<1>5. ASSUME NEW c \in Call, Output(c) \/ OutputAfterResult(c) PROVE ApprovalInv'
  BY <1>5, OutputAllows
<1>6. CASE CancelStep
  BY <1>6, CancelAllows
<1>7. CASE UNCHANGED vars
  BY <1>7, QuietStep DEF vars, stateVars
<1> QED
  BY <1>1, <1>2, <1>3, <1>4, <1>5, <1>6, <1>7 DEF Next

\* A tool runs only if the policy allows it, it needs no confirmation, or the user
\* said yes to this very call.  Both hypotheses are needed: without either the code
\* runs a call that nobody allowed.
THEOREM OnlyAllowedRuns ==
  ASSUME NoWaivedDenial, OneEditor
  PROVE  Spec => []RunsOnlyIfAllowed
<1>1. Init => ApprovalInv
  BY ApprovalInit
<1>2. TypeOK /\ ApprovalInv /\ [Next]_vars => ApprovalInv'
  BY ApprovalStep
<1>3. ApprovalInv => RunsOnlyIfAllowed
  BY DEF ApprovalInv, AllowedBefore, Allowed, RunsOnlyIfAllowed
<1> QED
  BY <1>1, <1>2, <1>3, TypeCorrect, PTL DEF Spec

-----------------------------------------------------------------------------
(* Nobody is asked where nobody is there.                                  *)

\* Where a call is on its way to a question, or back from one.
Asking == {"details", "notify", "answer", "confirm", "editor", "inline"}

\* Without a user a call never gets as far as a question.
HeadlessInv ==
  ~Interactive =>
    /\ asked = {}
    /\ \A c \in Call : pc[c] \notin Asking /\ result[c] # "sandbox"

\* The step of a coroutine to a point that is not on the way to a question.
LEMMA GotoElsewhere ==
  ASSUME TypeOK, NEW c \in Call, NEW l, l \notin Asking, Goto(c, l),
         \A d \in Call : pc[d] \notin Asking
  PROVE  \A d \in Call : pc'[d] \notin Asking
  BY GotoEffect

LEMMA SettleElsewhere ==
  ASSUME TypeOK, NEW c \in Call, NEW s, Settle(c, s), \A d \in Call : pc[d] \notin Asking
  PROVE  \A d \in Call : pc'[d] \notin Asking
  BY GotoElsewhere DEF Settle, Asking

LEMMA HeadlessStep ==
  ASSUME "ask" \notin HookDecisions, SandboxTools = {}, TypeOK, HeadlessInv, [Next]_vars
  PROVE  HeadlessInv'
<1> SUFFICES ASSUME ~Interactive
             PROVE  /\ asked' = {}
                    /\ \A c \in Call : pc'[c] \notin Asking
                    /\ \A c \in Call : result'[c] # "sandbox"
  BY DEF HeadlessInv
<1>1. /\ asked = {}
      /\ \A c \in Call : pc[c] \notin Asking
      /\ \A c \in Call : result[c] # "sandbox"
  BY DEF HeadlessInv
<1>2. CASE UNCHANGED <<pc, callVars>>
  BY <1>1, <1>2 DEF callVars
<1>3. ASSUME NEW b \in Batch, Schedule(b) PROVE UNCHANGED <<pc, callVars>>
  BY <1>3 DEF Schedule
<1>4. ASSUME LoopStep
      PROVE  /\ asked' = {}
             /\ \A c \in Call : pc'[c] \notin Asking
             /\ \A c \in Call : result'[c] # "sandbox"
  <2>1. CASE QueueDrained \/ StopLoop \/ FinalizeErrored \/ FinishBatch
    BY <1>2, <2>1 DEF QueueDrained, StopLoop, FinalizeErrored, FinishBatch
  <2>2. CASE StartWave
    BY <1>1, <2>2 DEF StartWave, Validate, Asking
  <2>3. CASE Revisit
    BY <1>1, <2>3 DEF Revisit, callVars, Asking
  <2>4. CASE StartExecution
    BY <1>1, <2>4 DEF StartExecution, callVars, Asking
  <2>5. CASE NothingToExecute \/ ExecutionDone
    BY <1>1, <2>5 DEF NothingToExecute, ExecutionDone, FinalizeTerminal, callVars, Asking
  <2> QED
    BY <1>4, <2>1, <2>2, <2>3, <2>4, <2>5 DEF LoopStep
<1>5. ASSUME NEW c \in Call, CallStep(c)
      PROVE  /\ asked' = {}
             /\ \A d \in Call : pc'[d] \notin Asking
             /\ \A d \in Call : result'[d] # "sandbox"
  <2>1. CASE HookReturns(c)
    <3>1. asked' = {} /\ UNCHANGED result
      BY <1>1, <2>1 DEF HookReturns
    <3>2. Settle(c, "error") \/ Goto(c, "policy")
      BY <2>1 DEF HookReturns
    <3>3. \A d \in Call : pc'[d] \notin Asking
      BY <1>1, <3>2, SettleElsewhere, GotoElsewhere DEF Asking
    <3> QED
      BY <1>1, <3>1, <3>3
  <2>2. CASE PolicyReturns(c)
    <3>1. UNCHANGED <<asked, result>>
      BY <2>2 DEF PolicyReturns
    <3>2. \E s \in {"error", "cancelled", "scheduled"} : Settle(c, s)
      <4>1. Throw(c) \/ Settle(c, "error") \/ Settle(c, "scheduled")
        BY <1>1, <2>2 DEF PolicyReturns, RefusesToAsk
      <4> QED
        BY <4>1 DEF Throw
    <3> QED
      BY <1>1, <3>1, <3>2, SettleElsewhere
  <2>3. CASE UpdateReturns(c)
    <3>1. Goto(c, "settled") /\ UNCHANGED callVars
      BY <2>3 DEF UpdateReturns
    <3> QED
      BY <1>1, <3>1, GotoElsewhere DEF Asking, callVars
  <2>4. ASSUME NEW v \in Verdicts, ToolReturns(c, v)
        PROVE  /\ asked' = {}
               /\ \A d \in Call : pc'[d] \notin Asking
               /\ \A d \in Call : result'[d] # "sandbox"
    <3>1. v # "sandbox" /\ result' = [result EXCEPT ![c] = v] /\ asked' = asked
      BY <2>4 DEF ToolReturns
    <3>2. \A d \in Call : result'[d] # "sandbox"
      BY <1>1, <3>1 DEF TypeOK
    <3>3. Goto(c, "record")
      BY <2>4 DEF ToolReturns
    <3> QED
      BY <1>1, <3>1, <3>2, <3>3, GotoElsewhere DEF Asking
  <2>5. CASE RecordStatus(c)
    BY <1>1, <2>5, SettleElsewhere DEF RecordStatus, callVars
  <2>6. CASE RecordTailCall(c)
    <3>1. Goto(c, "tailed") /\ UNCHANGED <<asked, result>>
      BY <2>6 DEF RecordTailCall
    <3> QED
      BY <1>1, <3>1, GotoElsewhere DEF Asking
  <2>7. ~RecordSandboxError(c)
    BY <1>1 DEF RecordSandboxError
  <2>8. /\ ~DetailsReturn(c) /\ ~NotifyReturns(c) /\ ~AnswerAborted(c)
        /\ ~ConfirmReturns(c) /\ ~EditorReturns(c) /\ ~InlineReturns(c)
    BY <1>1 DEF DetailsReturn, NotifyReturns, AnswerAborted, ConfirmReturns, EditorReturns,
                InlineReturns, Asking
  <2>9. CASE Raises(c)
    <3>1. UNCHANGED callVars /\ \E s \in {"error", "cancelled"} : Settle(c, s)
      BY <2>9 DEF Raises, Throw
    <3> QED
      BY <1>1, <3>1, SettleElsewhere DEF callVars
  <2> QED
    BY <1>5, <2>1, <2>2, <2>3, <2>4, <2>5, <2>6, <2>7, <2>8, <2>9 DEF CallStep
<1>6. ASSUME NEW c \in Call PROVE ~UserStep(c)
  BY <1>1 DEF UserStep, Answer, Asking
<1>7. ASSUME NEW c \in Call, Output(c) \/ OutputAfterResult(c) PROVE UNCHANGED <<pc, callVars>>
  BY <1>7 DEF Output, OutputAfterResult
<1>8. CASE CancelStep
  BY <1>2, <1>8 DEF CancelStep, CancelAll, UserCancels, Abort
<1>9. CASE UNCHANGED vars
  BY <1>2, <1>9 DEF vars
<1> QED
  BY <1>2, <1>3, <1>4, <1>5, <1>6, <1>7, <1>8, <1>9 DEF Next

\* Without a user, hooks that insist on a question and tools that report a sandbox,
\* no call ever waits for an answer.
THEOREM NobodyIsAsked ==
  ASSUME "ask" \notin HookDecisions, SandboxTools = {}
  PROVE  Spec => []HeadlessNeverAsks
<1>1. Init => HeadlessInv
  BY DEF Init, HeadlessInv, Asking
<1>2. TypeOK /\ HeadlessInv /\ [Next]_vars => HeadlessInv'
  BY HeadlessStep
<1>3. HeadlessInv => HeadlessNeverAsks
  BY DEF HeadlessInv, HeadlessNeverAsks, Asking
<1> QED
  BY <1>1, <1>2, <1>3, TypeCorrect, PTL DEF Spec
=============================================================================

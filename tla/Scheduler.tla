----------------------------- MODULE Scheduler -----------------------------
(***************************************************************************)
(* Scheduler of packages/core/src/scheduler/scheduler.ts with the          *)
(* confirmation loop (confirmation.ts), the policy check and update        *)
(* (policy.ts), the argument modifier (tool-modifier.ts) and the verdict   *)
(* of the executor (tool-executor.ts).                                     *)
(*                                                                         *)
(* JavaScript runs a synchronous segment to completion: an action is the   *)
(* code between two awaits.  The main loop (_processQueue) is the process  *)
(* with program counter "loop"; every active call c has a coroutine        *)
(* (_processToolCall or _execute) with program counter pc[c].              *)
(***************************************************************************)
EXTENDS ToolCallState

CONSTANTS
  Batch,             \* the arguments of the calls of schedule()
  NoBatch,           \* no batch is being processed
  Tool,              \* tool names
  Requests,          \* the calls of each batch, as the model requested them
  ToolOf,            \* the tool each request names
  Registered,        \* the tools the registry knows
  TopicTools,        \* {UPDATE_TOPIC_TOOL_NAME}
  Malformed,         \* requests whose arguments tool.build rejects
  Waits,             \* requests with wait_for_previous = true
  TailWaits,         \* tools that a tail call names with wait_for_previous = true
  ClientInitiated,   \* requests of slash commands (isClientInitiated)
  Expanding,         \* requests whose arguments have additional_permissions
  Policy,            \* the decision of the configured rules for each tool
  Waived,            \* tools whose getConfirmationDetails returns false
  EditTools,         \* modifiable tools with confirmation details 'edit'
  SandboxTools,      \* tools that may fail with sandbox_expansion_required
  TailTools,         \* tools that a tail call may name
  Interactive,       \* config.isInteractive()
  HookDecisions,     \* what the BeforeTool hooks may decide
  Answers,           \* what the user may answer to a confirmation
  CancelModes,       \* who cancels: signal only, UI (signal + cancelAll), API
  BackgroundTools,   \* tools whose process may be moved to the background
  MaxRounds,         \* bound: editor rounds and sandbox expansions of a call
  MaxTails           \* bound: tail calls of a call

CallsOf(b) == {Requests[b][i] : i \in DOMAIN Requests[b]}

\* Call ids are unique, within a batch and between batches.
ASSUME RequestsAssumption ==
  /\ NoBatch \notin Batch
  /\ Requests \in [Batch -> Seq(Call)]
  /\ \A b \in Batch : \A i, j \in DOMAIN Requests[b] :
       Requests[b][i] = Requests[b][j] => i = j
  /\ \A a, b \in Batch : a # b => CallsOf(a) \cap CallsOf(b) = {}

ASSUME ToolsAssumption ==
  /\ ToolOf \in [Call -> Tool]
  /\ Policy \in [Tool -> {"allow", "ask", "deny"}]
  /\ TailTools \subseteq Tool

ASSUME ChoicesAssumption ==
  /\ HookDecisions \subseteq {"continue", "ask", "error"}
  /\ Answers \subseteq {"once", "always", "cancel", "modify", "inline"}
  /\ CancelModes \subseteq {"abort", "ui", "cancelAll"}
  /\ Interactive \in BOOLEAN
  /\ MaxRounds \in Nat
  /\ MaxTails \in Nat

\* A batch holds at most one update_topic request, so that the comparator of
\* _startBatch is a consistent order.
ASSUME TopicAssumption ==
  \A b \in Batch : \A i, j \in DOMAIN Requests[b] :
    (ToolOf[Requests[b][i]] \in TopicTools /\ ToolOf[Requests[b][j]] \in TopicTools)
      => i = j

VARIABLES
  current,       \* the batch being processed (isProcessing) or NoBatch
  isCancelling,  \* Scheduler.isCancelling
  requestQueue,  \* Scheduler.requestQueue
  promise,       \* the promise schedule() returned for each batch
  reply,         \* the status with which a resolved promise reports each call
  aborted,       \* the batches whose AbortSignal is aborted
  loop,          \* where _processQueue is
  seen,          \* initialStatuses of _processNextItem
  pc,            \* where the coroutine of each call is
  tool,          \* request.name of each call (a tail call changes it)
  args,          \* request.args: the call these arguments were written for
  asked,         \* calls a hook forces to ask (forcedDecision)
  sandboxed,     \* calls being confirmed for a sandbox expansion
  answer,        \* ResolutionResult.outcome
  result,        \* what the executor made of the tool's result
  rounds, tails, \* the bounded counters
  rules,         \* tools with a dynamic ALLOW rule (UPDATE_POLICY)
  background,    \* calls whose process went on after their result
  approved       \* history: what the user said yes to

batchVars == <<current, isCancelling, requestQueue, promise, reply, aborted>>
callVars == <<tool, args, asked, sandboxed, answer, result, rounds, tails, rules,
              background, approved>>
vars == <<stateVars, batchVars, loop, seen, pc, callVars>>

\* Where the loop and the coroutines stand.
LoopStates == {"idle", "start", "top", "validating", "executing", "spin", "done"}
CallStates == {"idle", "hook", "policy", "details", "notify", "answer", "confirm",
               "editor", "inline", "update", "exec", "record", "settled", "tailed"}
PromiseStates == {"new", "queued", "running", "resolved", "rejected"}
\* What ToolExecutor makes of a result or an exception.
Verdicts == {"success", "error", "cancelled", "tail", "sandbox"}

TypeOK ==
  /\ StateTypeOK
  /\ current \in Batch \cup {NoBatch}
  /\ isCancelling \in BOOLEAN
  /\ requestQueue \in Seq(Batch)
  /\ promise \in [Batch -> PromiseStates]
  /\ reply \in [Call -> Status \cup {"none"}]
  /\ aborted \in SUBSET Batch
  /\ loop \in LoopStates
  /\ seen \in [Call -> Status \cup {"none"}]
  /\ pc \in [Call -> CallStates]
  /\ tool \in [Call -> Tool]
  /\ args \in [Call -> Call]
  /\ asked \in SUBSET Call
  /\ sandboxed \in SUBSET Call
  /\ answer \in [Call -> Answers \cup {"none", "once"}]
  /\ result \in [Call -> Verdicts \cup {"none"}]
  /\ rounds \in [Call -> Nat]
  /\ tails \in [Call -> Nat]
  /\ rules \in SUBSET Tool
  /\ background \in SUBSET Call
  /\ approved \in SUBSET (Call \X Tool \X Call)

Init ==
  /\ StateInit
  /\ current = NoBatch
  /\ isCancelling = FALSE
  /\ requestQueue = <<>>
  /\ promise = [b \in Batch |-> "new"]
  /\ reply = [c \in Call |-> "none"]
  /\ aborted = {}
  /\ loop = "idle"
  /\ seen = [c \in Call |-> "none"]
  /\ pc = [c \in Call |-> "idle"]
  /\ tool = ToolOf
  /\ args = [c \in Call |-> c]
  /\ asked = {} /\ sandboxed = {}
  /\ answer = [c \in Call |-> "none"]
  /\ result = [c \in Call |-> "none"]
  /\ rounds = [c \in Call |-> 0]
  /\ tails = [c \in Call |-> 0]
  /\ rules = {}
  /\ background = {}
  /\ approved = {}

-----------------------------------------------------------------------------
(* Ingestion: schedule, _enqueueRequest, _startBatch, the end of a batch.  *)

\* Nothing runs between the synchronous start of a batch and the first turn of
\* its loop; at every other point the event loop may run other code.
Yielded == loop # "start"

\* The sort of _startBatch: an update_topic request moves to the front.
TopicFirst(s) ==
  IF \E i \in DOMAIN s : ToolOf[s[i]] \in TopicTools
  THEN LET t == CHOOSE i \in DOMAIN s : ToolOf[s[i]] \in TopicTools
       IN  <<s[t]>> \o SubSeq(s, 1, t - 1) \o SubSeq(s, t + 1, Len(s))
  ELSE s

\* A slip: a new call skips its validation.
CreatedScheduled(t, valid) == IF t \in Registered /\ valid THEN "scheduled" ELSE "error"

\* _validateAndCreateToolCall and _createToolNotFoundErroredToolCall.
Created(t, valid) == IF t \in Registered /\ valid THEN "validating" ELSE "error"

\* _startBatch up to the first turn of its loop.
StartBatch(b) ==
  /\ current' = b
  /\ isCancelling' = FALSE
  /\ queue' = queue \o TopicFirst(Requests[b])
  /\ status' = [c \in Call |->
                  IF c \in CallsOf(b) THEN Created(ToolOf[c], c \notin Malformed)
                  ELSE status[c]]
  /\ results' = [c \in Call |-> 0]
  /\ loop' = "start"

\* A slip: the newest request jumps the queue.
JoinFront(b) == <<b>> \o requestQueue

\* _enqueueRequest.
JoinQueue(b) == Append(requestQueue, b)

\* schedule: a running batch, or a call left active, makes the request wait.
Schedule(b) ==
  /\ Yielded
  /\ promise[b] = "new"
  /\ \/ /\ current = NoBatch /\ active = {}
        /\ StartBatch(b)
        /\ promise' = [promise EXCEPT ![b] = "running"]
        /\ UNCHANGED requestQueue
     \/ /\ current # NoBatch \/ active # {}
        /\ IF b \in aborted
           THEN /\ promise' = [promise EXCEPT ![b] = "rejected"]
                /\ UNCHANGED requestQueue
           ELSE /\ promise' = [promise EXCEPT ![b] = "queued"]
                /\ requestQueue' = JoinQueue(b)
        /\ UNCHANGED <<current, isCancelling, queue, status, results, loop>>
  /\ UNCHANGED <<wave, active, reply, aborted, seen, pc, callVars>>

\* A slip: an off-by-one in the test of _processNextInRequestQueue.
HasSecond == Len(requestQueue) > 1

HasNext == requestQueue # <<>>

\* The end of _startBatch: the promise takes completedBatch, the finally block
\* clears the state and _processNextInRequestQueue schedules the next request.
FinishBatch ==
  /\ loop = "done"
  /\ reply' = [c \in Call |->
                 IF c \in CallsOf(current) /\ results[c] > 0 THEN status[c] ELSE reply[c]]
  /\ \/ /\ ~HasNext
        /\ promise' = [promise EXCEPT ![current] = "resolved"]
        /\ current' = NoBatch
        /\ results' = [c \in Call |-> 0]
        /\ loop' = "idle"
        /\ UNCHANGED <<isCancelling, requestQueue, queue, status>>
     \/ /\ HasNext /\ active = {}
        /\ StartBatch(Head(requestQueue))
        /\ requestQueue' = Tail(requestQueue)
        /\ promise' = [promise EXCEPT ![current] = "resolved",
                                      ![Head(requestQueue)] = "running"]
     \/ /\ HasNext /\ active # {}
        /\ requestQueue' = Append(Tail(requestQueue), Head(requestQueue))
        /\ promise' = [promise EXCEPT ![current] = "resolved"]
        /\ current' = NoBatch
        /\ results' = [c \in Call |-> 0]
        /\ loop' = "idle"
        /\ UNCHANGED <<isCancelling, queue, status>>
  /\ UNCHANGED <<wave, active, aborted, seen, pc, callVars>>

-----------------------------------------------------------------------------
(* The main loop: _processQueue and _processNextItem.                      *)

\* A slip: the flag is ignored.
AlwaysParallelizable(c) == c \in Call

\* _isParallelizable: the arguments of the request, or of the tail call, say so.
Parallelizable(c) == IF tails[c] = 0 THEN c \notin Waits ELSE tool[c] \notin TailWaits

\* How many calls one turn dequeues: the first, and while calls are
\* parallelizable, every one that follows it without a gap.
IsWave(n) ==
  /\ n \in 1 .. Len(queue)
  /\ IF Parallelizable(queue[1])
     THEN /\ \A i \in 1 .. n : Parallelizable(queue[i])
          /\ n < Len(queue) => ~Parallelizable(queue[n + 1])
     ELSE n = 1

AtTurn == loop \in {"start", "top", "spin"}
MayProceed == current \notin aborted /\ ~isCancelling

\* The while condition of _processQueue fails.
QueueDrained ==
  /\ AtTurn
  /\ queue = <<>> /\ active = {}
  /\ loop' = "done"
  /\ UNCHANGED <<stateVars, batchVars, seen, pc, callVars>>

\* An aborted signal or cancelAll: drop what is queued and leave the loop.
StopLoop ==
  /\ AtTurn
  /\ queue # <<>> \/ active # {}
  /\ ~MayProceed
  /\ CancelAllQueued(status)
  /\ loop' = "done"
  /\ UNCHANGED <<wave, active, batchVars, seen, pc, callVars>>

\* The head of the queue is already in error: finalize it.
FinalizeErrored ==
  /\ AtTurn /\ MayProceed
  /\ active = {} /\ queue # <<>>
  /\ status[Head(queue)] = "error"
  /\ Dequeue(1)
  /\ results' = Complete({Head(queue)})
  /\ loop' = "top"
  /\ UNCHANGED <<active, status, batchVars, seen, pc, callVars>>

\* The coroutines of the validating calls start: each awaits its hooks.
Validate(S) ==
  /\ pc' = [c \in Call |-> IF c \in S /\ status[c] = "validating" THEN "hook" ELSE "idle"]
  /\ answer' = [c \in Call |-> IF c \in S THEN "none" ELSE answer[c]]
  /\ result' = [c \in Call |-> IF c \in S THEN "none" ELSE result[c]]
  /\ sandboxed' = sandboxed \ S
  /\ loop' = "validating"

StartWave ==
  /\ AtTurn /\ MayProceed
  /\ active = {} /\ queue # <<>>
  /\ status[Head(queue)] # "error"
  /\ \E n \in 1 .. Len(queue) :
       /\ IsWave(n)
       /\ Dequeue(n)
       /\ active' = {queue[i] : i \in 1 .. n}
       /\ Validate({queue[i] : i \in 1 .. n})
  /\ seen' = [c \in Call |-> "none"]
  /\ UNCHANGED <<status, results, batchVars, tool, args, asked, rounds, tails, rules,
                 background, approved>>

\* A turn that finds calls still active from an earlier one.
Revisit ==
  /\ AtTurn /\ MayProceed
  /\ active # {}
  /\ seen' = [c \in Call |-> IF c \in active THEN status[c] ELSE "none"]
  /\ pc' = [c \in Call |->
              IF c \in active /\ status[c] = "validating" THEN "hook" ELSE "idle"]
  /\ loop' = "validating"
  /\ UNCHANGED <<stateVars, batchVars, callVars>>

\* Promise.all over the coroutines of this turn has resolved.
AllSettled == \A c \in Call : pc[c] \in {"idle", "settled", "tailed"}

\* Phase 3 of _processNextItem: finalize what is terminal, then continue, wait
\* for an external event, or give up.
FinalizeTerminal ==
  LET finished == {c \in active : status[c] \in Terminal}
      progress == \/ finished # {}
                  \/ \E c \in Call : pc[c] = "tailed"
                  \/ \E c \in Call : /\ seen[c] # "none"
                                     /\ c \notin active \/ seen[c] # status[c]
      external == \E c \in active : status[c] \in {"awaiting", "executing"}
  IN  /\ active' = active \ finished
      /\ results' = Complete(finished)
      /\ loop' = IF progress THEN "top" ELSE IF external THEN "spin" ELSE "done"
      /\ pc' = [c \in Call |-> "idle"]
      /\ UNCHANGED <<queue, wave, status, batchVars, seen, callVars>>

\* A slip: cancelAll is consulted in place of the signal.
MayStartUnlessCancelling == ~isCancelling

\* The test of the signal at the start of _execute.
MayStart == current \notin aborted

ScheduledCalls == {c \in active : status[c] = "scheduled"}
AllReady == \A c \in active : status[c] \in Terminal \cup {"scheduled"}

\* _execute up to its first await, for every scheduled call.
StartExecution ==
  /\ loop = "validating" /\ AllSettled
  /\ AllReady /\ ScheduledCalls # {}
  /\ status' = [c \in Call |->
                  IF c \notin ScheduledCalls THEN status[c]
                  ELSE IF MayStart THEN "executing" ELSE "cancelled"]
  /\ pc' = [c \in Call |->
              IF c \notin ScheduledCalls THEN "idle"
              ELSE IF MayStart THEN "exec" ELSE "settled"]
  /\ loop' = "executing"
  /\ UNCHANGED <<queue, wave, active, results, batchVars, seen, callVars>>

NothingToExecute ==
  /\ loop = "validating" /\ AllSettled
  /\ ~(AllReady /\ ScheduledCalls # {})
  /\ FinalizeTerminal

ExecutionDone ==
  /\ loop = "executing" /\ AllSettled
  /\ FinalizeTerminal

LoopStep ==
  \/ QueueDrained \/ StopLoop \/ FinalizeErrored \/ StartWave \/ Revisit
  \/ StartExecution \/ NothingToExecute \/ ExecutionDone \/ FinishBatch

-----------------------------------------------------------------------------
(* The coroutine of one call: _processToolCall, resolveConfirmation,       *)
(* updatePolicy, _execute.  Every action is the segment up to the next     *)
(* await.                                                                  *)

Goto(c, l) == pc' = [pc EXCEPT ![c] = l]

\* The coroutine ends, leaving the call in status s.
Settle(c, s) ==
  /\ status' = UpdateStatus(status, c, s)
  /\ Goto(c, "settled")

\* A slip: the exception is swallowed.
ThrowSwallowed(c) == Goto(c, "settled") /\ UNCHANGED status

\* An exception: _processValidatingCall reports a cancellation when the signal
\* is aborted and an error otherwise; the sandbox branch of _execute falls back
\* to the tool's own error.
Throw(c) ==
  Settle(c, IF c \notin sandboxed /\ current \in aborted THEN "cancelled" ELSE "error")

\* The top of the loop of resolveConfirmation.
AskAgain(c) ==
  IF current \in aborted THEN Throw(c) ELSE Goto(c, "details") /\ UNCHANGED status

\* PolicyEngine.check for the call's tool: a dynamic ALLOW rule beats ASK.
Decision(c) ==
  IF Policy[tool[c]] = "ask" /\ tool[c] \in rules THEN "allow" ELSE Policy[tool[c]]

\* checkPolicy: a client-initiated request is its own confirmation, unless it asks for
\* more permissions; a tail call has arguments of its own.
CheckedDecision(c) ==
  IF Decision(c) = "ask" /\ c \in ClientInitiated /\ ~(c \in Expanding /\ tails[c] = 0)
  THEN "allow" ELSE Decision(c)

\* A slip: a headless session asks like an interactive one.
HeadlessAsks(c) == CheckedDecision(c) = "ask" /\ FALSE

\* checkPolicy throws when it would have to ask without a user.
RefusesToAsk(c) == CheckedDecision(c) = "ask" /\ ~Interactive

\* evaluateBeforeToolHook: stop, block or bad arguments end the call.
HookReturns(c) ==
  /\ pc[c] = "hook"
  /\ \E d \in HookDecisions :
       IF d = "error"
       THEN Settle(c, "error") /\ UNCHANGED asked
       ELSE /\ asked' = IF d = "ask" THEN asked \cup {c} ELSE asked \ {c}
            /\ Goto(c, "policy")
            /\ UNCHANGED status
  /\ UNCHANGED <<queue, wave, active, results, batchVars, loop, seen, tool, args,
                 sandboxed, answer, result, rounds, tails, rules, background, approved>>

\* checkPolicy returns.  A hook's 'ask' replaces any decision, a denial included.
PolicyReturns(c) ==
  /\ pc[c] = "policy"
  /\ LET decision == IF c \in asked THEN "ask" ELSE CheckedDecision(c)
     IN  \/ RefusesToAsk(c) /\ Throw(c)
         \/ /\ ~RefusesToAsk(c)
            /\ \/ decision = "deny"  /\ Settle(c, "error")
               \/ decision = "allow" /\ Settle(c, "scheduled")
               \/ decision = "ask"   /\ AskAgain(c)
  /\ answer' = [answer EXCEPT ![c] =
                  IF c \notin asked /\ CheckedDecision(c) = "allow" THEN "once" ELSE @]
  /\ UNCHANGED <<queue, wave, active, results, batchVars, loop, seen, tool, args,
                 asked, sandboxed, result, rounds, tails, rules, background, approved>>

\* updatePolicy publishes UPDATE_POLICY for an 'always'; the engine adds the rule
\* synchronously.
RulesAfter(c, o) == IF o = "always" THEN rules \cup {tool[c]} ELSE rules

\* The sandbox branch of _execute after its question: the tool runs again, or the
\* call fails.
SandboxDecided(c, o) ==
  /\ sandboxed' = sandboxed \ {c}
  /\ \/ o = "cancel" /\ Settle(c, "error")
     \/ o # "cancel" /\ ~MayStart /\ Settle(c, "cancelled")
     \/ /\ o # "cancel" /\ MayStart
        /\ status' = UpdateStatus(status, c, "executing")
        /\ Goto(c, "exec")

\* resolveConfirmation returns outcome o to its caller, which awaits updatePolicy
\* in _processToolCall.
Decided(c, o) ==
  /\ answer' = [answer EXCEPT ![c] = o]
  /\ \/ /\ c \notin sandboxed
        /\ Goto(c, "update")
        /\ rules' = RulesAfter(c, o)
        /\ UNCHANGED <<status, sandboxed, result>>
     \/ /\ c \in sandboxed
        /\ SandboxDecided(c, o)
        /\ UNCHANGED <<rules, result>>

\* shouldConfirmExecute checks the policy again over the message bus, unless a hook
\* forced the question; after 30 seconds without a response it asks.  A sandbox
\* expansion asks too, but is left to the policy in YOLO mode.
Decisions(c) ==
  IF c \in asked \ sandboxed THEN {"ask"}
  ELSE {"ask", IF current \in aborted THEN "deny" ELSE Decision(c)}

\* The details of the confirmation, or none: getConfirmationDetails of a waived tool.
DetailsReturn(c) ==
  /\ pc[c] = "details"
  /\ \E decision \in Decisions(c) :
       \/ /\ decision = "deny" /\ Throw(c)
          /\ UNCHANGED <<sandboxed, answer, result, rules>>
       \/ /\ \/ decision = "allow"
             \/ decision = "ask" /\ c \notin sandboxed /\ tool[c] \in Waived
          /\ Decided(c, "once")
       \/ /\ decision = "ask" /\ (c \in sandboxed \/ tool[c] \notin Waived)
          /\ Goto(c, "notify")
          /\ UNCHANGED <<status, sandboxed, answer, result, rules>>
  /\ UNCHANGED <<queue, wave, active, results, batchVars, loop, seen, tool, args,
                 asked, rounds, tails, background, approved>>

\* notifyHooks returns: show the question and listen for its answer.
NotifyReturns(c) ==
  /\ pc[c] = "notify"
  /\ IF current \in aborted
     THEN Throw(c)
     ELSE /\ status' = UpdateStatus(status, c, "awaiting")
          /\ Goto(c, "answer")
  /\ UNCHANGED <<queue, wave, active, results, batchVars, loop, seen, tool, args,
                 asked, sandboxed, answer, result, rounds, tails, rules, background, approved>>

\* A slip: the abort is not propagated to the listener for the answer.
AnswerDeaf(c) == pc[c] = "answer" /\ FALSE /\ UNCHANGED vars

\* The abort closes the iterator of awaitConfirmation.
AnswerAborted(c) ==
  /\ pc[c] = "answer"
  /\ current \in aborted
  /\ Throw(c)
  /\ UNCHANGED <<queue, wave, active, results, batchVars, loop, seen, callVars>>

\* The user answers, which calls onConfirm.
Answer(c, o) ==
  /\ pc[c] = "answer"
  /\ current \notin aborted
  /\ o \in {"modify", "inline"} =>
       tool[c] \in EditTools /\ c \notin sandboxed /\ rounds[c] < MaxRounds
  /\ approved' = IF o \in {"once", "always", "inline"}
                 THEN approved \cup {<<c, tool[c], args[c]>>} ELSE approved
  /\ rounds' = [rounds EXCEPT ![c] = IF o \in {"modify", "inline"} THEN @ + 1 ELSE @]
  /\ answer' = [answer EXCEPT ![c] = o]
  /\ Goto(c, "confirm")
  /\ UNCHANGED <<stateVars, batchVars, loop, seen, tool, args, asked, sandboxed, result,
                 tails, rules, background>>

\* onConfirm returns; that of an edit waits for the diff view of the IDE, and nobody looks
\* at the signal meanwhile.  Inline content goes through applyInlineModify, which reads
\* confirmationDetails.type of the first active call: undefined, and so an exception,
\* unless that call is awaiting approval.
ConfirmReturns(c) ==
  /\ pc[c] = "confirm"
  /\ \/ /\ answer[c] \in {"once", "always", "cancel"}
        /\ Decided(c, answer[c])
     \/ /\ answer[c] = "modify" /\ c \notin sandboxed
        /\ Goto(c, "editor")
        /\ UNCHANGED <<status, sandboxed, answer, result, rules>>
     \/ /\ answer[c] = "inline" /\ c \notin sandboxed
        /\ \E f \in active :
             /\ IsFirstActive(f)
             /\ IF status[f] = "awaiting"
                THEN Goto(c, "inline") /\ UNCHANGED status
                ELSE Throw(c)
        /\ UNCHANGED <<sandboxed, answer, result, rules>>
  /\ UNCHANGED <<queue, wave, active, results, batchVars, loop, seen, tool, args,
                 asked, rounds, tails, background, approved>>

\* handleModifyWithEditor and applyInlineModify edit the arguments of the FIRST
\* active call and store the outcome in the call being confirmed.
TakeEditedArgs(c, f) ==
  args' = IF tool[f] \in EditTools THEN [args EXCEPT ![c] = args[f]] ELSE args

\* handleExternalModification returns and the loop asks again: no editor was
\* found, the first active call is not modifiable, it awaits no approval (an
\* exception), or the edited arguments are stored.
EditorReturns(c) ==
  /\ pc[c] = "editor"
  /\ \/ AskAgain(c) /\ UNCHANGED args
     \/ \E f \in active :
          /\ IsFirstActive(f)
          /\ IF tool[f] \in EditTools /\ status[f] # "awaiting"
             THEN Throw(c) /\ UNCHANGED args
             ELSE TakeEditedArgs(c, f) /\ AskAgain(c)
  /\ UNCHANGED <<queue, wave, active, results, batchVars, loop, seen, tool, asked,
                 sandboxed, answer, result, rounds, tails, rules, background, approved>>

\* handleInlineModification returns: the answer counts as ProceedOnce.
InlineReturns(c) ==
  /\ pc[c] = "inline"
  /\ \E f \in active : IsFirstActive(f) /\ TakeEditedArgs(c, f)
  /\ Decided(c, "once")
  /\ UNCHANGED <<queue, wave, active, results, batchVars, loop, seen, tool, asked,
                 rounds, tails, background, approved>>

\* What is awaited throws: a hook, the tool's details, onConfirm, an editor, build or the
\* policy update.  An AbortError counts as a cancellation without an abort.
Raises(c) ==
  /\ pc[c] \in {"hook", "policy", "details", "notify", "confirm", "editor", "inline", "update"}
  /\ \/ Throw(c)
     \/ c \notin sandboxed /\ Settle(c, "cancelled")
  /\ UNCHANGED <<queue, wave, active, results, batchVars, loop, seen, callVars>>

\* A slip: the outcome is not looked at.
UpdateIgnoresDenial(c) ==
  /\ pc[c] = "update"
  /\ status' = UpdateStatus(status, c, "scheduled")
  /\ Goto(c, "settled")
  /\ UNCHANGED <<queue, results, wave, active, batchVars, loop, seen, callVars>>

\* A slip: what a denial drops from the queue is not reported.
UpdateForgetsQueued(c) ==
  /\ pc[c] = "update"
  /\ status' = UpdateStatus(status, c, IF answer[c] = "cancel" THEN "cancelled" ELSE "scheduled")
  /\ queue' = IF answer[c] = "cancel" THEN <<>> ELSE queue
  /\ Goto(c, "settled")
  /\ UNCHANGED <<results, wave, active, batchVars, loop, seen, callVars>>

\* updatePolicy returns: a denial also cancels everything still queued.
UpdateReturns(c) ==
  /\ pc[c] = "update"
  /\ IF answer[c] = "cancel"
     THEN CancelAllQueued(UpdateStatus(status, c, "cancelled"))
     ELSE /\ status' = UpdateStatus(status, c, "scheduled")
          /\ UNCHANGED <<queue, results>>
  /\ Goto(c, "settled")
  /\ UNCHANGED <<wave, active, batchVars, loop, seen, callVars>>

\* ToolExecutor.execute: the tool returned or threw v; an aborted signal turns
\* whatever it was into a cancellation.  The result of a command that the user
\* moves to the background is a success, and its process goes on.
ToolReturns(c, v) ==
  /\ pc[c] = "exec"
  /\ current \in aborted => v = "cancelled"
  /\ v = "tail" => tails[c] < MaxTails
  /\ v = "sandbox" => tool[c] \in SandboxTools /\ rounds[c] < MaxRounds
  /\ result' = [result EXCEPT ![c] = v]
  /\ \/ UNCHANGED background
     \/ /\ tool[c] \in BackgroundTools /\ v = "success"
        /\ background' = background \cup {c}
  /\ Goto(c, "record")
  /\ UNCHANGED <<stateVars, batchVars, loop, seen, tool, args, asked, sandboxed,
                 answer, rounds, tails, rules, approved>>

\* A slip: tail calls and sandbox reports are recorded like a final status.
RecordAnyStatus(c) ==
  /\ pc[c] = "record"
  /\ status' = [status EXCEPT ![c] = result[c]]
  /\ Goto(c, "settled")
  /\ UNCHANGED <<queue, wave, active, results, batchVars, loop, seen, callVars>>

\* _execute after the executor: the final status.
RecordStatus(c) ==
  /\ pc[c] = "record"
  /\ result[c] \in Terminal
  /\ Settle(c, result[c])
  /\ UNCHANGED <<queue, wave, active, results, batchVars, loop, seen, callVars>>

\* A tail call replaces the call under the tail tool's name, which may be unknown or
\* refuse its arguments; what the user said of the call before does not hold of it.
RecordTailCall(c) ==
  /\ pc[c] = "record"
  /\ result[c] = "tail"
  /\ \E t \in TailTools, built \in BOOLEAN :
       /\ tool' = [tool EXCEPT ![c] = t]
       /\ status' = [status EXCEPT ![c] = Created(t, built)]
  /\ Replace(c)
  /\ args' = [args EXCEPT ![c] = c]
  /\ approved' = {yes \in approved : yes[1] # c}
  /\ tails' = [tails EXCEPT ![c] = @ + 1]
  /\ Goto(c, "tailed")
  /\ UNCHANGED <<wave, results, batchVars, loop, seen, asked, sandboxed, answer,
                 result, rounds, rules, background>>

\* sandbox_expansion_required: back to awaiting approval and into
\* resolveConfirmation; a report that cannot be parsed or built is an error.
RecordSandboxError(c) ==
  /\ pc[c] = "record"
  /\ result[c] = "sandbox"
  /\ \/ /\ Settle(c, "error")
        /\ UNCHANGED <<sandboxed, rounds>>
     \/ /\ sandboxed' = sandboxed \cup {c}
        /\ rounds' = [rounds EXCEPT ![c] = @ + 1]
        /\ IF current \in aborted
           THEN Settle(c, "error")
           ELSE /\ status' = UpdateStatus(status, c, "awaiting")
                /\ Goto(c, "details")
  /\ UNCHANGED <<queue, wave, active, results, batchVars, loop, seen, tool, args,
                 asked, answer, result, tails, rules, background, approved>>

\* outputUpdateHandler and onUpdateToolCall force the status to executing, also
\* after cancelAll marked the running call cancelled.
Output(c) ==
  /\ pc[c] = "exec"
  /\ status[c] = "cancelled"
  /\ status' = UpdateStatus(status, c, "executing")
  /\ UNCHANGED <<queue, wave, active, results, batchVars, loop, seen, pc, callVars>>

\* The output of a process in the background still goes to outputUpdateHandler.
OutputAfterResult(c) ==
  /\ Yielded
  /\ c \in active \cap background
  /\ pc[c] # "exec" /\ status[c] # "error"
  /\ status' = UpdateStatus(status, c, "executing")
  /\ UNCHANGED <<queue, wave, active, results, batchVars, loop, seen, pc, callVars>>

\* The steps the code itself takes for call c, tools and hooks included.
CallStep(c) ==
  \/ HookReturns(c) \/ PolicyReturns(c) \/ DetailsReturn(c) \/ NotifyReturns(c)
  \/ AnswerAborted(c) \/ ConfirmReturns(c) \/ EditorReturns(c) \/ InlineReturns(c)
  \/ UpdateReturns(c) \/ Raises(c)
  \/ \E v \in Verdicts : ToolReturns(c, v)
  \/ RecordStatus(c) \/ RecordTailCall(c) \/ RecordSandboxError(c)

\* waitForConfirmation: an answer comes over the bus, or from the diff view of the IDE.
UserStep(c) == \E o \in Answers : Answer(c, o)

-----------------------------------------------------------------------------
(* Cancellation.                                                           *)

\* A slip: the request stays in line.
StillInLine(s, x) == s

Without(s, x) ==
  LET i == CHOOSE i \in DOMAIN s : s[i] = x
  IN  SubSeq(s, 1, i - 1) \o SubSeq(s, i + 1, Len(s))

\* The signal of a batch is aborted: a waiting request leaves the queue.
Abort(b) ==
  /\ Yielded
  /\ "abort" \in CancelModes
  /\ b \notin aborted /\ promise[b] \in {"new", "queued", "running"}
  /\ aborted' = aborted \cup {b}
  /\ IF b \in {requestQueue[i] : i \in DOMAIN requestQueue}
     THEN /\ requestQueue' = Without(requestQueue, b)
          /\ promise' = [promise EXCEPT ![b] = "rejected"]
     ELSE UNCHANGED <<requestQueue, promise>>
  /\ UNCHANGED <<stateVars, current, isCancelling, reply, loop, seen, pc, callVars>>

\* cancelAll: ignored while an earlier one is in effect.
CancelEverything ==
  IF isCancelling
  THEN UNCHANGED <<isCancelling, requestQueue, promise, status, queue, results>>
  ELSE /\ isCancelling' = TRUE
       /\ requestQueue' = <<>>
       /\ promise' = [b \in Batch |->
                        IF b \in {requestQueue[i] : i \in DOMAIN requestQueue}
                        THEN "rejected" ELSE promise[b]]
       /\ CancelAllQueued([c \in Call |->
            IF c \in active /\ status[c] \notin Terminal THEN "cancelled" ELSE status[c]])

CancelAll ==
  /\ Yielded
  /\ "cancelAll" \in CancelModes
  /\ CancelEverything
  /\ UNCHANGED <<wave, active, current, reply, aborted, loop, seen, pc, callVars>>

\* cancelOngoingRequest of the UI: abort the controller, then cancelAll.
UserCancels ==
  /\ Yielded
  /\ "ui" \in CancelModes
  /\ current # NoBatch /\ current \notin aborted
  /\ aborted' = aborted \cup {current}
  /\ CancelEverything
  /\ UNCHANGED <<wave, active, current, reply, loop, seen, pc, callVars>>

CancelStep == CancelAll \/ UserCancels \/ \E b \in Batch : Abort(b)

-----------------------------------------------------------------------------
Next ==
  \/ \E b \in Batch : Schedule(b)
  \/ LoopStep
  \/ \E c \in Call : CallStep(c) \/ UserStep(c) \/ Output(c) \/ OutputAfterResult(c)
  \/ CancelStep

\* The event loop runs every continuation whose promise has settled, and hooks,
\* policy checkers, editors and tools settle theirs.  Nothing makes the user
\* answer or cancel.
Fairness == WF_vars(LoopStep) /\ \A c \in Call : WF_vars(CallStep(c))

Spec == Init /\ [][Next]_vars /\ Fairness

\* No question stays open for ever: the user answers, or aborts the batch.
UserAnswers == \A c \in Call : []<>(pc[c] # "answer")

-----------------------------------------------------------------------------
(* Properties.                                                             *)

Settled(b) == promise[b] \in {"resolved", "rejected"}

\* A batch ends only when no call of it is left in the queue or in the active
\* map (_processQueue breaks out of its loop in three places): a call left
\* behind gets no response, and its isActive blocks every later request.
NothingLeftBehind ==
  /\ loop = "done" => active = {} /\ queue = <<>>
  /\ current = NoBatch => active = {} /\ queue = <<>>

\* No lost request: a request waits in requestQueue only while a batch whose
\* end will serve it is being processed (_enqueueRequest against the finally
\* block of _startBatch).
RequestsHaveAServer == requestQueue # <<>> => current # NoBatch

\* The promise of schedule() reports one terminal result for every call of the
\* batch, through cancellation, denial, tail calls and errors: no call is pushed
\* on completedBatch twice and none is forgotten.
EachCallReportedOnce ==
  /\ \A c \in Call : results[c] <= 1
  /\ \A b \in Batch : promise[b] = "resolved" =>
       \A c \in CallsOf(b) : reply[c] \in Terminal

\* wait_for_previous: while such a call is active nothing else is, and all that precedes
\* it in the batch, tail calls included, has its final result.  A tail call that waits
\* precedes whatever is queued, and is alone too.
WaitsForPrevious ==
  /\ \A c \in active \cap Waits : tails[c] = 0 =>
       /\ active = {c}
       /\ LET order == TopicFirst(Requests[current])
          IN  \A i, j \in DOMAIN order :
                order[j] = c /\ i < j => results[order[i]] = 1
  /\ \A c \in active : tails[c] > 0 /\ tool[c] \in TailWaits => active = {c}

\* A tool runs only if the policy allows the very tool, the tool needs no
\* confirmation, or the user said yes to this call with this tool and these
\* arguments (tail calls, hooks, modifications and rules of others included).
RunsOnlyIfAllowed ==
  \A c \in Call : pc[c] \in {"exec", "record"} =>
    \/ CheckedDecision(c) = "allow"
    \/ Policy[tool[c]] = "ask" /\ tool[c] \in Waived
    \/ <<c, tool[c], args[c]>> \in approved

\* The loop never falls into its microtask wait, which would keep timers, input
\* and processes from running: Promise.all leaves no call awaiting or executing.
NeverSpins == loop # "spin"

\* Without a user (and without hooks or a sandbox that insist) no call ever waits
\* for an answer: checkPolicy turns the question into an error.
HeadlessNeverAsks == ~Interactive => \A c \in Call : pc[c] # "answer"

\* After the abort of its signal a batch starts no tool, neither a scheduled
\* call nor a call confirmed for a sandbox expansion.
AbortStopsStarts ==
  [][\A c \in Call : pc'[c] = "exec" /\ pc[c] # "exec" => current \notin aborted]_vars

\* A batch whose signal is aborted ends, even if the user never answers.
AbortSettles == \A b \in Batch : b \in aborted ~> promise[b] \in {"new", "resolved", "rejected"}

\* If no question stays open, every request is resolved or rejected.
RequestsSettle ==
  UserAnswers => \A b \in Batch : promise[b] \in {"queued", "running"} ~> Settled(b)

\* The scheduler keeps the contract of schedule().
Contract == INSTANCE SchedulerContract
              WITH line <- requestQueue, serving <- current,
                   Members <- [b \in Batch |-> CallsOf(b)]
KeepsContract == Contract!Spec

-----------------------------------------------------------------------------
(* What a comment or the documentation says and the code does not do.      *)

\* confirmation.ts: the user modifies the arguments of the call being confirmed.
EditsOwnArguments == \A c \in Call : args[c] = c

\* docs/reference/policy-engine.md: a denied call is blocked and not executed,
\* whatever hooks and the user say.
DeniedNeverRuns == \A c \in Call : pc[c] \in {"exec", "record"} => Policy[tool[c]] # "deny"
=============================================================================

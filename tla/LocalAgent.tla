------------------------------ MODULE LocalAgent ------------------------------
(***************************************************************************)
(* One run of a local subagent: LocalAgentExecutor                         *)
(* (packages/core/src/agents/local-executor.ts) with its deadline, the     *)
(* wave of tool calls of each turn as its scheduler runs it                *)
(* (scheduler/scheduler.ts, confirmation.ts), the injections it listens to *)
(* and the recovery turn that a run out of time or turns is granted.       *)
(*                                                                         *)
(* The model of the agent answers with any short list of calls.  A call is *)
(* of a kind: "plain" runs, "asks" asks the user first, "complete" is      *)
(* complete_task, "refused" has arguments that cannot be parsed or names a *)
(* tool the agent has no right to and never reaches the scheduler.         *)
(***************************************************************************)
EXTENDS DeadlineTimer, Sequences

CONSTANTS
  MaxTurns,   \* runConfig.maxTurns
  Budget,     \* runConfig.maxTimeMinutes, in ticks of the clock
  MaxCalls,   \* a bound: calls in one answer of the model
  MaxHints    \* a bound: injections while the run listens

ASSUME AgentAssumption ==
  /\ MaxTurns \in Nat \ {0}
  /\ Budget \in Nat \ {0}
  /\ MaxCalls \in Nat
  /\ MaxHints \in Nat

Kinds == {"plain", "asks", "complete", "refused"}
Statuses == {"queued", "checking", "asked", "ready", "running",
             "success", "error", "rejected", "cancelled", "refused"}
Reasons == {"ERROR", "GOAL", "ABORTED", "TIMEOUT", "MAX_TURNS",
            "ERROR_NO_COMPLETE_TASK_CALL"}
Sources == {"background_completion", "user_steering"}
\* The reasons that grant a recovery turn.
Recoverable == Reasons \ {"ERROR", "ABORTED", "GOAL"}

VARIABLES
  phase,       \* where the run stands
  reason,      \* terminateReason
  threw,       \* the run ended with an exception
  turn,        \* turnCounter
  message,     \* what the next message to the model carries
  owed,        \* the history ends with calls of the model that are not answered
  calls,       \* the calls of the turn: their kind, wait_for_previous and status
  answered,    \* a question of the current wave has been answered
  recovering,  \* executeFinalWarningTurn
  timer,       \* the deadline
  grace,       \* the timer of the recovery turn
  cancelled,   \* the signal of the caller
  listening,   \* injectionListener is registered
  came,        \* the source of each injection the listener was called with
  pending,     \* per source: pendingBgCompletionsQueue and pendingHintsQueue
  noted,       \* injections in the message that comes next
  told         \* history: injections in the messages that were sent

runVars == <<phase, reason, threw, turn, message, recovering>>
toolVars == <<calls, answered>>
injections == <<came, pending, noted, told>>
hintVars == <<listening, injections>>
vars == <<runVars, owed, toolVars, timer, grace, cancelled, hintVars>>

TypeOK ==
  /\ phase \in {"setup", "preparing", "calling", "tools", "over"}
  /\ reason \in Reasons
  /\ threw \in BOOLEAN
  /\ turn \in 0..MaxTurns
  /\ message \in {"query", "answers", "warning"}
  /\ owed \in BOOLEAN
  /\ calls \in Seq([kind : Kinds, waits : BOOLEAN, status : Statuses])
  /\ Len(calls) <= MaxCalls
  /\ answered \in BOOLEAN
  /\ recovering \in BOOLEAN
  /\ timer \in Timer(Budget)
  /\ grace \in {"off", "armed", "aborted"}
  /\ cancelled \in BOOLEAN
  /\ listening \in BOOLEAN
  /\ came \in Seq(Sources) /\ Len(came) <= MaxHints
  /\ pending \in [Sources -> Seq(1..MaxHints)]
  /\ noted \in Seq(1..MaxHints) /\ told \in Seq(1..MaxHints)

Init ==
  /\ phase = "setup" /\ reason = "ERROR" /\ threw = FALSE
  /\ turn = 0 /\ message = "query" /\ owed = FALSE
  /\ calls = <<>> /\ answered = FALSE
  /\ recovering = FALSE
  /\ timer = Started(Budget)
  /\ grace = "off"
  /\ cancelled = FALSE
  /\ listening = FALSE /\ came = <<>> /\ pending = [s \in Sources |-> <<>>]
  /\ noted = <<>> /\ told = <<>>

\* AbortSignal.any of the caller's signal and of the timer that bounds the turn.
Combined == cancelled \/ IF recovering THEN grace = "aborted" ELSE timer.aborted

-----------------------------------------------------------------------------
(***************************************************************************)
(* The end of a turn and of the run                                        *)
(***************************************************************************)

\* runInternal returns or throws; its finally block stops the deadline.
Finish(r, exception) ==
  /\ phase' = "over"
  /\ reason' = r
  /\ threw' = exception
  /\ timer' = Abort(timer)
  /\ grace' = "off"
  /\ listening' = FALSE
  /\ UNCHANGED <<turn, message, recovering>>

\* The recovery turn has a timer of its own and a message of its own.
Recover(r) ==
  /\ recovering' = TRUE
  /\ phase' = "preparing"
  /\ reason' = r
  /\ message' = "warning"
  /\ grace' = "armed"
  /\ listening' = FALSE
  /\ UNCHANGED <<threw, turn, timer>>

\* A slip: what the recovery turn completed is not taken over.
StopUnrecovered(r) ==
  \/ recovering /\ Finish(reason, FALSE)
  \/ ~recovering /\ r \in Recoverable /\ Recover(r)
  \/ ~recovering /\ r \notin Recoverable /\ Finish(r, FALSE)

\* A turn returned "stop".
Stop(r) ==
  \/ recovering /\ Finish(IF r = "GOAL" THEN r ELSE reason, FALSE)
  \/ ~recovering /\ r \in Recoverable /\ Recover(r)
  \/ ~recovering /\ r \notin Recoverable /\ Finish(r, FALSE)

\* A slip: one turn more than maxTurns.
OutOfTurnsLate == turn > MaxTurns

\* checkTermination.
OutOfTurns == turn >= MaxTurns

\* Which signal caused the abort.
AbortReason == IF timer.aborted THEN "TIMEOUT" ELSE "ABORTED"

\* The head of the loop: stop, or begin the next turn with message m.
NextTurn(m) ==
  \/ OutOfTurns /\ Stop("MAX_TURNS")
  \/ ~OutOfTurns /\ Combined /\ Stop(AbortReason)
  \/ /\ ~OutOfTurns /\ ~Combined
     /\ phase' = "preparing"
     /\ turn' = turn + 1
     /\ message' = m
     /\ listening' = TRUE
     /\ UNCHANGED <<reason, threw, recovering, timer, grace>>

\* Version, tools and chat are prepared, then the listener is registered and the loop
\* entered.
SetUp ==
  /\ phase = "setup"
  /\ NextTurn("query")
  /\ UNCHANGED <<owed, toolVars, cancelled, injections>>

\* The chat cannot be created.
SetUpFails ==
  /\ phase = "setup"
  /\ Finish("ERROR", TRUE)
  /\ UNCHANGED <<owed, toolVars, cancelled, injections>>

-----------------------------------------------------------------------------
(***************************************************************************)
(* The call of the model                                                   *)
(***************************************************************************)

\* After compression and onBeforeTurn the message joins the history and goes out.  The
\* warning of the recovery turn is a message of its own, without the injections.
SendMessage ==
  /\ phase = "preparing"
  /\ phase' = "calling"
  /\ owed' = (owed /\ message # "answers")
  /\ IF message = "warning" THEN UNCHANGED <<told, noted>>
     ELSE told' = told \o noted /\ noted' = <<>>
  /\ UNCHANGED <<reason, threw, turn, message, recovering, toolVars, timer, grace,
                 cancelled, listening, came, pending>>

\* The calls the model may ask for, as the scheduler receives them.
Answers ==
  LET call == {c \in [kind : Kinds, waits : BOOLEAN, status : {"queued", "refused"}] :
                 /\ c.status = "refused" <=> c.kind = "refused"
                 /\ c.waits => c.kind # "refused"}
  IN  UNION {[1..n -> call] : n \in 0..MaxCalls}

\* The answer has come and the signal is not aborted.  Without calls the turn is an error.
ModelAnswers ==
  /\ phase = "calling"
  /\ ~Combined
  /\ \E answer \in Answers :
       /\ calls' = answer
       /\ owed' = (answer # <<>>)
       /\ \/ /\ answer = <<>>
             /\ Stop("ERROR_NO_COMPLETE_TASK_CALL")
          \/ /\ answer # <<>>
             /\ phase' = "tools"
             /\ UNCHANGED <<reason, threw, turn, message, recovering, timer, grace,
                            listening>>
  /\ UNCHANGED <<answered, cancelled, injections>>

\* The stream ends or is left because the signal is aborted; an answer that was complete
\* by then is in the history.
StreamAborted ==
  /\ phase = "calling"
  /\ Combined
  /\ Stop(AbortReason)
  /\ owed' \in {owed, TRUE}
  /\ UNCHANGED <<toolVars, cancelled, injections>>

\* The call of the model, or the compression before it, throws an AbortError.  A deadline
\* that passed grants the recovery turn, unless the caller cancelled too.
AbortErrorThrown ==
  /\ phase \in {"preparing", "calling"}
  /\ Combined
  /\ \/ recovering /\ Finish(reason, FALSE)
     \/ ~recovering /\ timer.aborted /\ ~cancelled /\ Recover("TIMEOUT")
     \/ ~recovering /\ (~timer.aborted \/ cancelled) /\ Finish("ERROR", TRUE)
  /\ UNCHANGED <<owed, toolVars, cancelled, injections>>

\* Any other exception ends the run; the recovery turn catches it.
ErrorThrown ==
  /\ phase \in {"preparing", "calling"}
  /\ \/ recovering /\ Finish(reason, FALSE)
     \/ ~recovering /\ Finish("ERROR", TRUE)
  /\ UNCHANGED <<owed, toolVars, cancelled, injections>>

-----------------------------------------------------------------------------
(***************************************************************************)
(* The calls of a turn: processFunctionCalls over a scheduler of its own   *)
(***************************************************************************)

CallsIn(statuses) == {c \in DOMAIN calls : calls[c].status \in statuses}
WithStatus(cs, status) ==
  [c \in DOMAIN calls |-> IF c \in cs THEN [calls[c] EXCEPT !.status = status] ELSE calls[c]]
Queued == CallsIn({"queued"})
Asked  == CallsIn({"asked"})
Active == CallsIn({"checking", "asked", "ready", "running"})

\* What a call at the head of the queue takes along: the calls behind it that need not wait.
WaveFrom(c) ==
  {c} \cup {d \in Queued : d > c /\ \A e \in Queued : c <= e /\ e <= d => ~calls[e].waits}

\* The scheduler takes the next wave, or drops the queue when the signal is aborted.
TakeWave ==
  /\ phase = "tools" /\ Active = {} /\ Queued # {}
  /\ \/ Combined /\ calls' = WithStatus(Queued, "cancelled") /\ UNCHANGED answered
     \/ /\ ~Combined
        /\ \E c \in Queued : /\ \A d \in Queued : c <= d
                           /\ calls' = WithStatus(WaveFrom(c), "checking")
        /\ answered' = FALSE
  /\ UNCHANGED <<runVars, owed, timer, grace, cancelled, hintVars>>

\* The policy lets the call run, denies it, or the check fails.
Check(c) ==
  /\ c \in CallsIn({"checking"})
  /\ \/ calls[c].kind # "asks" /\ calls' = WithStatus({c}, "ready")
     \/ calls' = WithStatus({c}, "error")
  /\ UNCHANGED <<runVars, owed, answered, timer, grace, cancelled, hintVars>>

\* onWaitingForConfirmation(true) pauses the deadline, in the recovery turn too.
Ask(c) ==
  /\ c \in CallsIn({"checking"})
  /\ calls[c].kind = "asks"
  /\ calls' = WithStatus({c}, "asked")
  /\ timer' = Pause(timer)
  /\ UNCHANGED <<runVars, owed, answered, grace, cancelled, hintVars>>

\* A slip: the time is not credited back.
CreditedNot == timer

\* onWaitingForConfirmation(false), whatever other questions are open.
Credited == Resume(timer)

\* The user agrees.
Approve(c) ==
  /\ c \in Asked
  /\ calls' = WithStatus({c}, "ready")
  /\ answered' = TRUE
  /\ timer' = Credited
  /\ UNCHANGED <<runVars, owed, grace, cancelled, hintVars>>

\* The user refuses: the scheduler cancels what is queued behind the wave.
Reject(c) ==
  /\ c \in Asked
  /\ calls' = [d \in DOMAIN calls |->
                 IF d = c THEN [calls[d] EXCEPT !.status = "rejected"]
                 ELSE WithStatus(Queued, "cancelled")[d]]
  /\ answered' = TRUE
  /\ timer' = Credited
  /\ UNCHANGED <<runVars, owed, grace, cancelled, hintVars>>

\* The wait for the answer throws when the signal is aborted; nobody resumes the deadline.
AbandonQuestion(c) ==
  /\ c \in Asked
  /\ Combined
  /\ calls' = WithStatus({c}, "cancelled")
  /\ UNCHANGED <<runVars, owed, answered, timer, grace, cancelled, hintVars>>

\* The calls of a wave start together, once each of them is decided; none does after an
\* abort.
RunWave ==
  /\ CallsIn({"checking", "asked"}) = {}
  /\ CallsIn({"ready"}) # {}
  /\ calls' = WithStatus(CallsIn({"ready"}), IF Combined THEN "cancelled" ELSE "running")
  /\ UNCHANGED <<runVars, owed, answered, timer, grace, cancelled, hintVars>>

\* A tool ends; after an abort whatever it returned counts as cancelled.
EndCall(c) ==
  /\ c \in CallsIn({"running"})
  /\ \E status \in IF Combined THEN {"error", "cancelled"} ELSE {"success", "error"} :
       calls' = WithStatus({c}, status)
  /\ UNCHANGED <<runVars, owed, answered, timer, grace, cancelled, hintVars>>

\* A slip: a rejection counts as an abort.
HardAbortAny == CallsIn({"cancelled", "rejected"}) # {}

\* A cancelled call without a Cancel as its outcome aborts the run.
HardAbort == CallsIn({"cancelled"}) # {}

\* complete_task reported the result.
Completed == \E c \in CallsIn({"success"}) : calls[c].kind = "complete"

\* A slip: the hints come first.
HintsFirst == pending["user_steering"] \o pending["background_completion"]

\* Both queues in the order of the message: hints are put in front of the answers, then
\* completions in front of the hints.
Collected == pending["background_completion"] \o pending["user_steering"]

\* The turn goes on: the answers, and what was injected meanwhile, are the next message,
\* which is dropped if the loop ends at its head.
Continue ==
  /\ noted' = Collected
  /\ pending' = [s \in Sources |-> <<>>]
  /\ calls' = <<>>
  /\ NextTurn("answers")

\* All calls have ended.
TurnEnds ==
  /\ phase = "tools" /\ Active = {} /\ Queued = {}
  /\ \/ HardAbort /\ Stop("ABORTED") /\ UNCHANGED <<calls, pending, noted>>
     \/ ~HardAbort /\ Completed /\ Stop("GOAL") /\ UNCHANGED <<calls, pending, noted>>
     \/ ~HardAbort /\ ~Completed /\ ~recovering /\ Continue
     \/ /\ ~HardAbort /\ ~Completed /\ recovering
        /\ Stop(reason)
        /\ UNCHANGED <<calls, pending, noted>>
  /\ answered' = FALSE
  /\ UNCHANGED <<owed, cancelled, came, told>>

-----------------------------------------------------------------------------
(***************************************************************************)
(* Time, the caller and the injections                                     *)
(***************************************************************************)

\* A tick of the clock.
Tick ==
  /\ timer.armed /\ timer.left > 0
  /\ timer' = Elapsed(timer)
  /\ UNCHANGED <<runVars, owed, toolVars, grace, cancelled, hintVars>>

\* The deadline fires.
DeadlineFires ==
  /\ Due(timer)
  /\ timer' = Fired(timer)
  /\ UNCHANGED <<runVars, owed, toolVars, grace, cancelled, hintVars>>

\* The recovery turn has lasted GRACE_PERIOD_MS, the user's time to answer included.
GraceFires ==
  /\ grace = "armed"
  /\ grace' = "aborted"
  /\ UNCHANGED <<runVars, owed, toolVars, timer, cancelled, hintVars>>

\* The caller aborts the signal it gave to run().
Cancel ==
  /\ phase # "over" /\ ~cancelled
  /\ cancelled' = TRUE
  /\ UNCHANGED <<runVars, owed, toolVars, timer, grace, hintVars>>

\* addInjection calls the listener, which has a queue for each source.
Inject(source) ==
  /\ listening /\ Len(came) < MaxHints
  /\ came' = Append(came, source)
  /\ pending' = [pending EXCEPT ![source] = Append(@, Len(came) + 1)]
  /\ UNCHANGED <<runVars, owed, toolVars, timer, grace, cancelled, listening, noted, told>>

CallStep(c) ==
  Check(c) \/ Ask(c) \/ Approve(c) \/ Reject(c) \/ AbandonQuestion(c) \/ EndCall(c)

Next ==
  \/ SetUp \/ SetUpFails \/ SendMessage
  \/ ModelAnswers \/ StreamAborted \/ AbortErrorThrown \/ ErrorThrown
  \/ TakeWave \/ RunWave \/ TurnEnds
  \/ \E c \in DOMAIN calls : CallStep(c)
  \/ Tick \/ DeadlineFires \/ GraceFires \/ Cancel
  \/ \E source \in Sources : Inject(source)

\* Time passes and timers fire, what the run does itself goes on, a tool, a compression and
\* the call of the model notice an abort, and the user answers what is asked.  Model and
\* tools need not answer otherwise.
Fairness ==
  /\ WF_vars(Tick) /\ WF_vars(DeadlineFires) /\ WF_vars(GraceFires)
  /\ WF_vars(SetUp \/ SetUpFails)
  /\ WF_vars((Combined /\ SendMessage) \/ StreamAborted \/ AbortErrorThrown)
  /\ WF_vars(TakeWave) /\ WF_vars(RunWave) /\ WF_vars(TurnEnds)
  /\ \A c \in 1..MaxCalls :
       /\ WF_vars(c \in DOMAIN calls /\ (Check(c) \/ Ask(c)))
       /\ WF_vars(c \in DOMAIN calls /\ (Approve(c) \/ Reject(c)))
       /\ WF_vars(c \in DOMAIN calls /\ AbandonQuestion(c))
       /\ WF_vars(c \in DOMAIN calls /\ Combined /\ EndCall(c))

Spec == Init /\ [][Next]_vars /\ Fairness

-----------------------------------------------------------------------------
(***************************************************************************)
(* Properties                                                              *)
(***************************************************************************)

\* The deadline counts the agent's own time: it stands still while the user thinks about
\* the first question of a wave, and it runs whenever no question is open.  It would stop
\* for ever if one resume were missed, and kill an agent whose user is slow if one pause
\* were.  (With two questions at once the first answer restarts it.)
DeadlineCountsWork ==
  phase \in {"preparing", "calling", "tools"} /\ ~cancelled /\ ~timer.aborted =>
    /\ Asked # {} /\ ~answered => timer.paused
    /\ Asked = {} /\ ~recovering => timer.armed

\* A run ends for the reason it reports: the goal after a complete_task, a timeout after the
\* deadline, an abort because the caller or the deadline interrupted calls or because a
\* refusal of the user took queued calls with it, and what can be recovered from only after
\* the recovery turn failed.
EndsForAReason ==
  phase = "over" =>
    /\ reason = "GOAL" => Completed
    /\ reason = "TIMEOUT" => timer.left = 0
    /\ reason = "MAX_TURNS" => turn = MaxTurns
    /\ reason = "ABORTED" => \/ cancelled \/ timer.left = 0
                             \/ CallsIn({"rejected"}) # {} /\ CallsIn({"cancelled"}) # {}
    /\ reason \in Recoverable => recovering
    /\ threw => reason = "ERROR"

\* A result handed to complete_task is the result of the run, in the recovery turn too and
\* whatever was aborted since, unless another call of that turn was cancelled.
CompletionNotLost ==
  phase = "over" /\ Completed => reason = "GOAL" \/ CallsIn({"cancelled"}) # {}

\* The injections in the order in which the model is told: those it was told, those in the
\* next message and, if the loop goes on, those that wait.
Told == told \o noted \o Collected

\* The model may be told x before y.
MayPrecede(x, y) ==
  x < y \/ (x # y /\ came[x] = "background_completion" /\ came[y] = "user_steering")

\* Every injection the listener was called with is told once; a hint of the user comes after
\* all completions that were there before it ("the model sees context before the user's
\* reaction"), and injections of one source keep their order.  Only a run that stops or
\* recovers leaves injections in a message that is not sent.
InjectionsArrive ==
  /\ {Told[i] : i \in DOMAIN Told} = DOMAIN came
  /\ \A i, j \in DOMAIN Told : i < j => MayPrecede(Told[i], Told[j])
  /\ noted # <<>> => phase \in {"preparing", "over"} \/ recovering

\* Every run ends, even if the model and the tools never answer: the deadline or the grace
\* period ends it, and a user who answers does not stop the clock for good.
RunEnds == <>(phase = "over")

\* The message after an answer with calls carries their responses: client.ts:673 says the
\* API requires it of the conversation history.  The warning of the recovery turn replaces
\* the responses of the last turn.
AnswersFollow == phase = "calling" => ~owed
=============================================================================

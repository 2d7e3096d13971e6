--------------------------- MODULE LocalAgentProofs ---------------------------
(***************************************************************************)
(* Theorems about LocalAgent, for every limit of turns, every deadline and *)
(* any number of calls and injections.                                     *)
(***************************************************************************)
EXTENDS LocalAgent, SequenceTheorems, TLAPS

-----------------------------------------------------------------------------
(* The inductive invariant.                                                *)

\* Calls exist only while a turn runs its tools, and nothing of them is left to do after
\* that; the run has a reason to report once it recovers or is over.
RunInv ==
  /\ phase \in {"setup", "preparing", "calling"} => calls = <<>>
  /\ phase # "tools" => Active = {} /\ Queued = {}
  /\ phase # "over" => reason \in (IF recovering THEN Recoverable ELSE {"ERROR"}) /\ ~threw
  /\ phase = "setup" => ~recovering
  /\ reason = "MAX_TURNS" => turn = MaxTurns
  /\ ~recovering => grace = "off"

\* A deadline that has not fired is armed or paused; only a question or an abort leaves it
\* paused; only the passing of time fires it.
TimerInv ==
  /\ timer.aborted => ~timer.armed
  /\ ~timer.aborted => (timer.armed <=> ~timer.paused)
  /\ phase = "setup" => ~timer.paused
  /\ timer.aborted /\ phase # "over" => timer.left = 0
  /\ reason = "TIMEOUT" => timer.left = 0

\* Outside the recovery turn a cancelled call has the caller, the deadline or a refusal of
\* the user behind it.
CallInv ==
  CallsIn({"cancelled"}) # {} /\ ~recovering =>
    cancelled \/ timer.left = 0 \/ CallsIn({"rejected"}) # {}

CallRecord == [kind : Kinds, waits : BOOLEAN, status : Statuses]

\* The part of the invariant that is not about injections.
StateTypeOK ==
  /\ phase \in {"setup", "preparing", "calling", "tools", "over"}
  /\ reason \in Reasons /\ threw \in BOOLEAN
  /\ turn \in 0..MaxTurns /\ message \in {"query", "answers", "warning"}
  /\ owed \in BOOLEAN /\ answered \in BOOLEAN /\ recovering \in BOOLEAN
  /\ timer \in Timer(Budget) /\ grace \in {"off", "armed", "aborted"}
  /\ cancelled \in BOOLEAN /\ listening \in BOOLEAN
CallsTypeOK == calls \in Seq(CallRecord) /\ Len(calls) <= MaxCalls
CompletesRun ==
  DeadlineCountsWork /\ EndsForAReason /\ CompletionNotLost
StateInv == StateTypeOK /\ CallsTypeOK /\ RunInv /\ TimerInv /\ CallInv /\ CompletesRun

\* The injections are numbered in the order in which the listener was called; what waits
\* in the queue of the hints are hints; a message that is not sent holds injections only
\* before it is sent and when the run ends or recovers.
HintInv ==
  /\ came \in Seq(Sources) /\ Len(came) <= MaxHints
  /\ pending \in [Sources -> Seq(1..MaxHints)]
  /\ noted \in Seq(1..MaxHints) /\ told \in Seq(1..MaxHints)
  /\ \A i \in DOMAIN pending["user_steering"] :
       came[pending["user_steering"][i]] = "user_steering"
  /\ message = "warning" => recovering
  /\ InjectionsArrive

IInv == StateInv /\ HintInv

-----------------------------------------------------------------------------
(* Lemmas about the timer and the calls.                                   *)

\* What pause and resume do to each part of the timer.
LEMMA TimerSteps ==
  ASSUME NEW t \in Timer(Budget)
  PROVE  /\ \A u \in {Pause(t), Resume(t), Abort(t), Fired(t), Elapsed(t)} : u \in Timer(Budget)
         /\ \A u \in {Pause(t), Resume(t), Abort(t), Fired(t)} : u.left = t.left
         /\ \A u \in {Pause(t), Resume(t), Elapsed(t)} : u.aborted = t.aborted
         /\ Abort(t).aborted /\ ~Abort(t).armed /\ Fired(t).aborted /\ ~Fired(t).armed
         /\ ~t.aborted => Pause(t).paused
         /\ ~t.aborted /\ (t.armed <=> ~t.paused) => ~Pause(t).armed
         /\ ~t.aborted /\ (t.armed <=> ~t.paused) => Resume(t).armed /\ ~Resume(t).paused
         /\ t.aborted => Pause(t) = t /\ Resume(t) = t
         /\ Elapsed(t).armed = t.armed /\ Elapsed(t).paused = t.paused
         /\ t.left = 0 => Elapsed(t).left = 0
<1> USE AgentAssumption DEF Timer
<1>1. /\ Pause(t) \in Timer(Budget) /\ Pause(t).left = t.left /\ Pause(t).aborted = t.aborted
      /\ ~t.aborted => Pause(t).paused
      /\ ~t.aborted /\ (t.armed <=> ~t.paused) => ~Pause(t).armed
      /\ t.aborted => Pause(t) = t
  BY DEF Pause
<1>2. /\ Resume(t) \in Timer(Budget) /\ Resume(t).left = t.left /\ Resume(t).aborted = t.aborted
      /\ ~t.aborted /\ (t.armed <=> ~t.paused) => Resume(t).armed /\ ~Resume(t).paused
      /\ t.aborted => Resume(t) = t
  BY DEF Resume
<1>3. /\ Abort(t) \in Timer(Budget) /\ Abort(t).left = t.left
      /\ Abort(t).aborted /\ ~Abort(t).armed
  BY DEF Abort
<1>4. /\ Fired(t) \in Timer(Budget) /\ Fired(t).left = t.left
      /\ Fired(t).aborted /\ ~Fired(t).armed
  BY DEF Fired
<1>5. /\ Elapsed(t) \in Timer(Budget) /\ Elapsed(t).aborted = t.aborted
      /\ Elapsed(t).armed = t.armed /\ Elapsed(t).paused = t.paused
      /\ t.left = 0 => Elapsed(t).left = 0
  BY DEF Elapsed
<1> QED
  BY <1>1, <1>2, <1>3, <1>4, <1>5

\* Setting the status of some calls changes nothing else about the calls.
LEMMA StatusSteps ==
  ASSUME CallsTypeOK, NEW cs, NEW status \in Statuses
  PROVE  /\ WithStatus(cs, status) \in Seq(CallRecord)
         /\ Len(WithStatus(cs, status)) = Len(calls)
         /\ DOMAIN WithStatus(cs, status) = DOMAIN calls
         /\ \A d \in DOMAIN calls :
              /\ WithStatus(cs, status)[d].kind = calls[d].kind
              /\ WithStatus(cs, status)[d].status = IF d \in cs THEN status ELSE calls[d].status
<1> DEFINE w == WithStatus(cs, status)
<1>1. Len(calls) \in Nat /\ DOMAIN calls = 1 .. Len(calls)
  BY LenProperties DEF CallsTypeOK
<1>2. \A d \in DOMAIN calls : calls[d] \in CallRecord
  BY <1>1, ElementOfSeq DEF CallsTypeOK
<1>3. \A d \in DOMAIN calls :
        w[d] = IF d \in cs THEN [calls[d] EXCEPT !.status = status] ELSE calls[d]
  BY DEF WithStatus
<1>4. DOMAIN w = 1 .. Len(calls)
  BY <1>1 DEF WithStatus
<1> HIDE DEF w
<1>5. \A d \in 1 .. Len(calls) : w[d] \in CallRecord
  BY <1>1, <1>2, <1>3 DEF CallRecord
<1>6. w = [d \in 1 .. Len(calls) |-> w[d]]
  BY <1>1 DEF w, WithStatus
<1>7. w \in Seq(CallRecord) /\ Len(w) = Len(calls)
  BY <1>1, <1>5, <1>6, IsASeq
<1>8. \A d \in DOMAIN calls :
        w[d].kind = calls[d].kind /\ w[d].status = IF d \in cs THEN status ELSE calls[d].status
  BY <1>2, <1>3 DEF CallRecord
<1> QED
  BY <1>1, <1>4, <1>7, <1>8 DEF w

\* Without calls nothing is asked, active, completed or cancelled.
LEMMA NoCalls ==
  /\ calls = <<>> => \A S : CallsIn(S) = {}
  /\ calls' = <<>> => /\ \A S : CallsIn(S)' = {}
                      /\ Active' = {} /\ Queued' = {} /\ Asked' = {} /\ ~Completed'
<1>1. DOMAIN <<>> = {}
  BY EmptySeq
<1> QED
  BY <1>1 DEF CallsIn, Active, Queued, Asked, Completed

\* The reasons that are final are the others.
LEMMA ReasonsOf ==
  /\ Recoverable = {"TIMEOUT", "MAX_TURNS", "ERROR_NO_COMPLETE_TASK_CALL"}
  /\ Recoverable \subseteq Reasons /\ {"ERROR", "GOAL", "ABORTED"} \subseteq Reasons
  BY DEF Recoverable, Reasons

\* What is open while a question is asked or a call runs.
LEMMA OpenCalls ==
  /\ Asked \subseteq Active
  /\ CallsIn({"checking"}) \subseteq Active /\ CallsIn({"ready"}) \subseteq Active
  /\ CallsIn({"running"}) \subseteq Active
  BY DEF Asked, Active, CallsIn

\* Why an abort is noticed: outside the recovery turn by the caller or by the deadline.
LEMMA WhyCombined ==
  ASSUME StateInv, phase # "over", ~recovering, Combined
  PROVE  /\ cancelled \/ timer.left = 0
         /\ AbortReason = "TIMEOUT" => timer.left = 0
         /\ AbortReason = "ABORTED" => cancelled
         /\ AbortReason \in {"TIMEOUT", "ABORTED"}
  BY DEF StateInv, TimerInv, Combined, AbortReason

-----------------------------------------------------------------------------
(* The end of a turn and of the run.                                       *)

\* The run may end for a reason that the present state and the next calls bear out.
LEMMA FinishKeeps ==
  ASSUME StateInv, phase # "over", NEW r \in Reasons, NEW exception \in BOOLEAN,
         Finish(r, exception), UNCHANGED cancelled, owed' \in BOOLEAN, answered' \in BOOLEAN,
         CallsTypeOK', Active' = {}, Queued' = {}, CallInv',
         r = "GOAL" => Completed',
         r = "TIMEOUT" => timer.left = 0,
         r = "MAX_TURNS" => turn = MaxTurns,
         r = "ABORTED" => \/ cancelled \/ timer.left = 0
                          \/ CallsIn({"rejected"})' # {} /\ CallsIn({"cancelled"})' # {},
         r \in Recoverable => recovering,
         exception => r = "ERROR",
         Completed' => r = "GOAL" \/ CallsIn({"cancelled"})' # {}
  PROVE  StateInv'
<1>1. /\ phase' = "over" /\ reason' = r /\ threw' = exception /\ timer' = Abort(timer)
      /\ grace' = "off" /\ listening' = FALSE /\ UNCHANGED <<turn, message, recovering>>
  BY DEF Finish
<1>2. timer' \in Timer(Budget) /\ timer'.left = timer.left /\ timer'.aborted /\ ~timer'.armed
  BY <1>1, TimerSteps DEF StateInv, StateTypeOK
<1>3. StateTypeOK'
  BY <1>1, <1>2 DEF StateInv, StateTypeOK
<1>4. RunInv'
  BY <1>1 DEF RunInv
<1>5. TimerInv'
  BY <1>1, <1>2 DEF TimerInv
<1>6. DeadlineCountsWork'
  BY <1>1 DEF DeadlineCountsWork
<1>7. EndsForAReason'
  BY <1>1, <1>2 DEF EndsForAReason
<1>8. CompletionNotLost'
  BY <1>1 DEF CompletionNotLost
<1> QED
  BY <1>3, <1>4, <1>5, <1>6, <1>7, <1>8 DEF StateInv, CompletesRun

\* The recovery turn begins without calls.
LEMMA RecoverKeeps ==
  ASSUME StateInv, phase # "over", ~recovering, NEW r \in Recoverable, Recover(r),
         UNCHANGED cancelled, owed' \in BOOLEAN, answered' \in BOOLEAN, calls' = <<>>,
         r = "TIMEOUT" => timer.left = 0,
         r = "MAX_TURNS" => turn = MaxTurns
  PROVE  StateInv'
<1>1. /\ phase' = "preparing" /\ reason' = r /\ recovering' = TRUE /\ message' = "warning"
      /\ grace' = "armed" /\ listening' = FALSE /\ UNCHANGED <<threw, turn, timer>>
  BY DEF Recover
<1>2. CallsTypeOK'
  BY EmptySeq, AgentAssumption DEF CallsTypeOK
<1>3. StateTypeOK'
  BY <1>1, ReasonsOf DEF StateInv, StateTypeOK
<1>4. RunInv'
  BY <1>1, NoCalls, ReasonsOf DEF StateInv, RunInv
<1>5. TimerInv' /\ CallInv'
  BY <1>1 DEF StateInv, TimerInv, CallInv
<1>6. CompletesRun'
  BY <1>1, NoCalls DEF CompletesRun, DeadlineCountsWork, EndsForAReason, CompletionNotLost
<1> QED
  BY <1>2, <1>3, <1>4, <1>5, <1>6 DEF StateInv

\* A turn that ends the loop without calls in hand: out of turns, out of time, cancelled, or
\* without an answer to act on.
LEMMA StopWithoutCalls ==
  ASSUME StateInv, phase # "over", NEW r \in Reasons, Stop(r),
         UNCHANGED cancelled, owed' \in BOOLEAN, answered' \in BOOLEAN, calls' = <<>>,
         r \notin {"GOAL", "ERROR"},
         r = "TIMEOUT" => timer.left = 0,
         r = "MAX_TURNS" => turn = MaxTurns,
         r = "ABORTED" => cancelled \/ recovering
  PROVE  StateInv'
<1>1. CallsTypeOK' /\ Active' = {} /\ Queued' = {} /\ CallInv' /\ ~Completed'
  BY EmptySeq, NoCalls, AgentAssumption DEF CallsTypeOK, CallInv
<1>2. CASE recovering
  <2>1. Finish(reason, FALSE) /\ reason \in Recoverable
    BY <1>2 DEF Stop, StateInv, RunInv
  <2>2. /\ reason = "TIMEOUT" => timer.left = 0
        /\ reason = "MAX_TURNS" => turn = MaxTurns
    BY DEF StateInv, RunInv, TimerInv
  <2> QED
    BY <1>1, <1>2, <2>1, <2>2, FinishKeeps, ReasonsOf
<1>3. CASE ~recovering /\ r \in Recoverable
  BY <1>3, RecoverKeeps DEF Stop
<1>4. CASE ~recovering /\ r \notin Recoverable
  <2>1. Finish(r, FALSE) /\ r = "ABORTED" /\ cancelled
    BY <1>4, ReasonsOf DEF Stop, Reasons
  <2> QED
    BY <1>1, <1>4, <2>1, FinishKeeps, ReasonsOf
<1> QED
  BY <1>2, <1>3, <1>4

\* The head of the loop.
LEMMA NextTurnKeeps ==
  ASSUME StateInv, phase \in {"setup", "tools"}, ~recovering,
         NEW m \in {"query", "answers"}, NextTurn(m),
         UNCHANGED cancelled, owed' \in BOOLEAN, answered' \in BOOLEAN, calls' = <<>>,
         phase = "tools" => Asked = {}
  PROVE  StateInv'
<1> USE AgentAssumption
<1>1. CASE OutOfTurns /\ Stop("MAX_TURNS")
  <2>1. turn = MaxTurns
    BY <1>1 DEF OutOfTurns, StateInv, StateTypeOK
  <2> QED
    BY <1>1, <2>1, StopWithoutCalls, ReasonsOf
<1>2. CASE Combined /\ Stop(AbortReason)
  BY <1>2, StopWithoutCalls, WhyCombined, ReasonsOf
<1>3. CASE /\ ~OutOfTurns /\ ~Combined
           /\ phase' = "preparing" /\ turn' = turn + 1 /\ message' = m /\ listening' = TRUE
           /\ UNCHANGED <<reason, threw, recovering, timer, grace>>
  <2>1. StateTypeOK'
    BY <1>3 DEF StateInv, StateTypeOK, OutOfTurns
  <2>2. CallsTypeOK'
    BY EmptySeq DEF CallsTypeOK
  <2>3. RunInv'
    BY <1>3, NoCalls DEF StateInv, RunInv, StateTypeOK, OutOfTurns
  <2>4. TimerInv' /\ CallInv'
    BY <1>3, NoCalls DEF StateInv, TimerInv, CallInv
  <2>5. DeadlineCountsWork'
    <3>1. ~timer.aborted => timer.armed
      <4>1. CASE phase = "setup"
        BY <1>3, <4>1 DEF StateInv, TimerInv
      <4> QED
        BY <1>3, <4>1 DEF StateInv, CompletesRun, DeadlineCountsWork, Combined
    <3> QED
      BY <1>3, <3>1, NoCalls DEF DeadlineCountsWork
  <2>6. EndsForAReason' /\ CompletionNotLost'
    BY <1>3 DEF EndsForAReason, CompletionNotLost
  <2> QED
    BY <2>1, <2>2, <2>3, <2>4, <2>5, <2>6 DEF StateInv, CompletesRun
<1> QED
  BY <1>1, <1>2, <1>3 DEF NextTurn

-----------------------------------------------------------------------------
(* The steps of the run.                                                   *)

\* A step of the run before its tools keeps the invariant, whatever the model does.
LEMMA SetUpKeeps ==
  ASSUME StateInv, SetUp \/ SetUpFails
  PROVE  StateInv'
<1>1. phase = "setup" /\ calls = <<>> /\ ~recovering
  BY DEF SetUp, SetUpFails, StateInv, RunInv
<1>2. UNCHANGED <<owed, calls, answered, cancelled>> /\ calls' = <<>>
  BY <1>1 DEF SetUp, SetUpFails, toolVars
<1>3. owed' \in BOOLEAN /\ answered' \in BOOLEAN
  BY <1>2 DEF StateInv, StateTypeOK
<1>4. CASE SetUp
  BY <1>1, <1>2, <1>3, <1>4, NextTurnKeeps DEF SetUp
<1>5. CASE SetUpFails
  <2>1. CallsTypeOK' /\ Active' = {} /\ Queued' = {} /\ CallInv' /\ ~Completed'
    BY <1>2, EmptySeq, NoCalls, AgentAssumption DEF CallsTypeOK, CallInv
  <2> QED
    BY <1>1, <1>2, <1>3, <1>5, <2>1, FinishKeeps, ReasonsOf DEF SetUpFails
<1> QED
  BY <1>4, <1>5

LEMMA SendKeeps ==
  ASSUME StateInv, SendMessage
  PROVE  StateInv'
<1>1. /\ phase = "preparing" /\ phase' = "calling" /\ owed' \in BOOLEAN
      /\ UNCHANGED <<reason, threw, turn, message, recovering, calls, answered, timer, grace,
                     cancelled, listening>>
  BY DEF SendMessage, toolVars
<1> USE DEF StateInv
<1>2. StateTypeOK' /\ CallsTypeOK'
  BY <1>1 DEF StateTypeOK, CallsTypeOK
<1>3. UNCHANGED <<Active, Queued, Asked>> /\ UNCHANGED CallsIn({"cancelled"})
      /\ UNCHANGED CallsIn({"rejected"})
  BY <1>1 DEF Active, Queued, Asked, CallsIn
<1>4. RunInv'
  BY <1>1, <1>3 DEF RunInv
<1>5. TimerInv' /\ CallInv'
  BY <1>1, <1>3 DEF TimerInv, CallInv
<1>6. CompletesRun'
  BY <1>1, <1>3 DEF CompletesRun, DeadlineCountsWork, EndsForAReason, CompletionNotLost
<1> QED
  BY <1>2, <1>4, <1>5, <1>6

\* What the model asks for is a list of calls that are queued or refused.
LEMMA AnswersAreCalls ==
  ASSUME NEW answer \in Answers
  PROVE  /\ answer \in Seq(CallRecord) /\ Len(answer) <= MaxCalls
         /\ \A d \in DOMAIN answer : answer[d].status \in {"queued", "refused"}
<1> USE AgentAssumption
<1> DEFINE call == {c \in [kind : Kinds, waits : BOOLEAN, status : {"queued", "refused"}] :
                      /\ c.status = "refused" <=> c.kind = "refused"
                      /\ c.waits => c.kind # "refused"}
<1>1. PICK n \in 0..MaxCalls : answer \in [1..n -> call]
  BY DEF Answers
<1>2. call \subseteq CallRecord /\ \A c \in call : c.status \in {"queued", "refused"}
  BY DEF CallRecord, Statuses
<1> HIDE DEF call
<1>3. answer \in Seq(call) /\ Len(answer) = n
  BY <1>1
<1> QED
  BY <1>1, <1>2, <1>3, SeqMonotonic

LEMMA ModelAnswersKeeps ==
  ASSUME StateInv, ModelAnswers
  PROVE  StateInv'
<1>1. phase = "calling" /\ ~Combined /\ calls = <<>> /\ UNCHANGED <<answered, cancelled>>
  BY DEF ModelAnswers, StateInv, RunInv
<1>2. PICK answer \in Answers :
        /\ calls' = answer /\ owed' = (answer # <<>>)
        /\ \/ /\ answer = <<>>
              /\ Stop("ERROR_NO_COMPLETE_TASK_CALL")
           \/ /\ answer # <<>>
              /\ phase' = "tools"
              /\ UNCHANGED <<reason, threw, turn, message, recovering, timer, grace, listening>>
  BY DEF ModelAnswers
<1>3. owed' \in BOOLEAN /\ answered' \in BOOLEAN
  BY <1>1, <1>2 DEF StateInv, StateTypeOK
<1>4. CASE answer = <<>>
  BY <1>1, <1>2, <1>3, <1>4, StopWithoutCalls, ReasonsOf
<1>5. CASE answer # <<>>
  <2> USE DEF StateInv
  <2>1. /\ phase' = "tools" /\ calls' = answer
        /\ UNCHANGED <<reason, threw, turn, message, recovering, timer, grace, listening>>
    BY <1>2, <1>5
  <2>2. StateTypeOK' /\ CallsTypeOK'
    BY <1>1, <1>3, <2>1, AnswersAreCalls DEF StateTypeOK, CallsTypeOK
  <2>3. \A d \in DOMAIN calls' : calls'[d].status \in {"queued", "refused"}
    BY <2>1, AnswersAreCalls
  <2>4. Asked' = {} /\ CallsIn({"cancelled"})' = {}
    BY <2>3 DEF Asked, CallsIn
  <2>5. RunInv' /\ TimerInv' /\ CallInv'
    BY <1>1, <2>1, <2>4 DEF RunInv, TimerInv, CallInv
  <2>6. Asked = {}
    BY <1>1, NoCalls DEF Asked
  <2>7. CompletesRun'
    BY <1>1, <2>1, <2>4, <2>6
       DEF CompletesRun, DeadlineCountsWork, EndsForAReason, CompletionNotLost
  <2> QED
    BY <2>2, <2>5, <2>7
<1> QED
  BY <1>4, <1>5

LEMMA LeftKeeps ==
  ASSUME StateInv, StreamAborted \/ AbortErrorThrown \/ ErrorThrown
  PROVE  StateInv'
<1>1. /\ phase \in {"preparing", "calling"} /\ calls = <<>> /\ UNCHANGED <<calls, answered, cancelled>>
      /\ owed' \in BOOLEAN /\ answered' \in BOOLEAN
  BY DEF StreamAborted, AbortErrorThrown, ErrorThrown, StateInv, StateTypeOK, RunInv, toolVars
<1>2. CallsTypeOK' /\ Active' = {} /\ Queued' = {} /\ CallInv' /\ ~Completed'
  BY <1>1, EmptySeq, NoCalls, AgentAssumption DEF CallsTypeOK, CallInv
<1>3. recovering => /\ reason \in Recoverable
                    /\ reason = "TIMEOUT" => timer.left = 0
                    /\ reason = "MAX_TURNS" => turn = MaxTurns
  BY <1>1 DEF StateInv, RunInv, TimerInv
<1>4. ASSUME recovering, Finish(reason, FALSE)
      PROVE  StateInv'
  BY <1>1, <1>2, <1>3, <1>4, FinishKeeps, ReasonsOf
<1>5. ASSUME Finish("ERROR", TRUE)
      PROVE  StateInv'
  BY <1>1, <1>2, <1>5, FinishKeeps, ReasonsOf
<1>6. CASE StreamAborted
  <2>1. Combined /\ Stop(AbortReason)
    BY <1>6 DEF StreamAborted
  <2>2. CASE recovering
    BY <1>4, <2>1, <2>2 DEF Stop, AbortReason
  <2>3. CASE ~recovering
    BY <1>1, <2>1, <2>3, WhyCombined, StopWithoutCalls, ReasonsOf
  <2> QED
    BY <2>2, <2>3
<1>7. CASE AbortErrorThrown
  <2>1. CASE ~recovering /\ timer.aborted /\ Recover("TIMEOUT")
    BY <1>1, <2>1, RecoverKeeps, ReasonsOf DEF StateInv, TimerInv
  <2> QED
    BY <1>4, <1>5, <1>7, <2>1 DEF AbortErrorThrown
<1>8. CASE ErrorThrown
  BY <1>4, <1>5, <1>8 DEF ErrorThrown
<1> QED
  BY <1>6, <1>7, <1>8

-----------------------------------------------------------------------------
(* The steps of the calls.                                                 *)

ToolStep ==
  /\ phase = "tools"
  /\ UNCHANGED <<runVars, owed, grace, cancelled, hintVars>>

\* While a turn runs its tools only the deadline and the cancelled calls are at stake.
LEMMA InTools ==
  ASSUME StateInv, ToolStep, CallsTypeOK', answered' \in BOOLEAN,
         timer' \in Timer(Budget), timer'.left = timer.left, timer'.aborted = timer.aborted,
         timer.aborted => timer' = timer,
         ~timer.aborted => (timer'.armed <=> ~timer'.paused),
         CallInv', DeadlineCountsWork'
  PROVE  StateInv'
<1>1. /\ phase' = "tools" /\ phase = "tools"
      /\ UNCHANGED <<reason, threw, turn, message, recovering, owed, grace, cancelled, listening>>
  BY DEF ToolStep, runVars, hintVars
<1>2. StateTypeOK'
  BY <1>1 DEF StateInv, StateTypeOK
<1>3. RunInv'
  BY <1>1 DEF StateInv, RunInv
<1>4. TimerInv'
  BY <1>1 DEF StateInv, TimerInv
<1>5. EndsForAReason' /\ CompletionNotLost'
  BY <1>1 DEF EndsForAReason, CompletionNotLost
<1> QED
  BY <1>2, <1>3, <1>4, <1>5 DEF StateInv, CompletesRun

\* Calls that are open are open in the tools phase.
LEMMA OpenInTools ==
  ASSUME StateInv, Active # {} \/ Queued # {}
  PROVE  phase = "tools"
  BY DEF StateInv, RunInv

\* The status of a call is set, and nothing is asked or answered, and the deadline left alone.
LEMMA SetStatusKeeps ==
  ASSUME StateInv, ToolStep, NEW cs \in SUBSET DOMAIN calls, NEW status \in Statuses,
         calls' = WithStatus(cs, status), UNCHANGED <<answered, timer>>,
         status \notin {"asked", "rejected"},
         cs \cap Asked = {} \/ Combined,
         cs \cap CallsIn({"rejected"}) = {},
         status = "cancelled" => Combined
  PROVE  StateInv'
<1>1. /\ CallsTypeOK' /\ DOMAIN calls' = DOMAIN calls
      /\ \A d \in DOMAIN calls :
           calls'[d].status = IF d \in cs THEN status ELSE calls[d].status
  BY StatusSteps DEF CallsTypeOK, StateInv
<1>2. /\ phase = "tools" /\ phase' = "tools" /\ UNCHANGED <<recovering, cancelled, grace>>
  BY DEF ToolStep, runVars
<1>3. Asked' = Asked \ cs /\ CallsIn({"rejected"})' = CallsIn({"rejected"})
  BY <1>1 DEF Asked, CallsIn
<1>4. Combined /\ ~recovering => cancelled \/ timer.left = 0
  BY <1>2, WhyCombined
<1>5. CallInv'
  <2>1. CASE status = "cancelled"
    BY <1>2, <1>4, <2>1 DEF CallInv
  <2>2. CASE status # "cancelled"
    <3>1. CallsIn({"cancelled"})' \subseteq CallsIn({"cancelled"})
      BY <1>1, <2>2 DEF CallsIn
    <3> QED
      BY <1>2, <1>3, <3>1 DEF CallInv, StateInv
  <2> QED
    BY <2>1, <2>2
<1>6. DeadlineCountsWork'
  <2>1. CASE cs \cap Asked = {}
    <3>1. Asked' = Asked
      BY <1>3, <2>1
    <3> QED
      BY <1>2, <3>1 DEF DeadlineCountsWork, StateInv, CompletesRun
  <2>2. CASE Combined
    BY <1>2, <1>3, <2>2 DEF DeadlineCountsWork, StateInv, CompletesRun, Combined
  <2> QED
    BY <2>1, <2>2
<1>7. timer \in Timer(Budget) /\ ~timer.aborted => (timer.armed <=> ~timer.paused)
  BY DEF StateInv, StateTypeOK, TimerInv
<1>8. timer \in Timer(Budget) /\ answered' \in BOOLEAN
  BY DEF StateInv, StateTypeOK
<1> QED
  BY <1>1, <1>5, <1>6, <1>7, <1>8, InTools

\* The steps of the scheduler: a wave is taken or dropped, a call is checked or ends, the
\* wave runs, a question is abandoned.
LEMMA TakeWaveKeeps ==
  ASSUME StateInv, TakeWave
  PROVE  StateInv'
<1>1. Active = {} /\ Asked = {} /\ ToolStep /\ UNCHANGED timer
  BY OpenCalls DEF TakeWave, ToolStep
<1>2. Queued \subseteq DOMAIN calls /\ Queued \cap CallsIn({"rejected"}) = {}
  BY DEF Queued, CallsIn
<1>3. CASE Combined /\ calls' = WithStatus(Queued, "cancelled") /\ UNCHANGED answered
  BY <1>1, <1>2, <1>3, SetStatusKeeps DEF Statuses
<1>4. ASSUME NEW c \in Queued, calls' = WithStatus(WaveFrom(c), "checking"), answered' = FALSE
      PROVE  StateInv'
  <2>1. WaveFrom(c) \subseteq Queued
    BY DEF WaveFrom
  <2>2. /\ CallsTypeOK' /\ DOMAIN calls' = DOMAIN calls
        /\ \A d \in DOMAIN calls :
             calls'[d].status = IF d \in WaveFrom(c) THEN "checking" ELSE calls[d].status
    BY <1>4, StatusSteps DEF CallsTypeOK, StateInv, Statuses
  <2>3. /\ Asked' = {} /\ CallsIn({"rejected"})' = CallsIn({"rejected"})
        /\ CallsIn({"cancelled"})' = CallsIn({"cancelled"})
    <3>1. \A d \in WaveFrom(c) : calls[d].status = "queued"
      BY <2>1 DEF Queued, CallsIn
    <3> QED
      BY <1>1, <2>2, <3>1 DEF Asked, CallsIn
  <2>4. /\ phase = "tools" /\ phase' = "tools" /\ UNCHANGED <<recovering, cancelled>>
    BY <1>1 DEF ToolStep, runVars
  <2>5. CallInv' /\ DeadlineCountsWork'
    BY <1>1, <1>4, <2>3, <2>4 DEF CallInv, DeadlineCountsWork, StateInv, CompletesRun
  <2>6. timer \in Timer(Budget) /\ (~timer.aborted => (timer.armed <=> ~timer.paused))
    BY DEF StateInv, StateTypeOK, TimerInv
  <2> QED
    BY <1>1, <1>4, <2>2, <2>5, <2>6, InTools
<1> QED
  BY <1>3, <1>4 DEF TakeWave

LEMMA CheckKeeps ==
  ASSUME StateInv, NEW c \in DOMAIN calls, Check(c)
  PROVE  StateInv'
<1>1. c \in CallsIn({"checking"}) /\ UNCHANGED <<answered, timer>>
  BY DEF Check
<1>2. ToolStep
  BY <1>1, OpenCalls, OpenInTools DEF Check, ToolStep
<1>3. {c} \cap Asked = {} /\ {c} \cap CallsIn({"rejected"}) = {}
  BY <1>1 DEF Asked, CallsIn
<1> QED
  BY <1>1, <1>2, <1>3, SetStatusKeeps DEF Check, Statuses

LEMMA RunWaveKeeps ==
  ASSUME StateInv, RunWave
  PROVE  StateInv'
<1>1. CallsIn({"ready"}) # {} /\ UNCHANGED <<answered, timer>>
  BY DEF RunWave
<1>2. ToolStep
  BY <1>1, OpenCalls, OpenInTools DEF RunWave, ToolStep
<1>3. /\ CallsIn({"ready"}) \cap Asked = {} /\ CallsIn({"ready"}) \cap CallsIn({"rejected"}) = {}
      /\ CallsIn({"ready"}) \subseteq DOMAIN calls
  BY DEF Asked, CallsIn
<1>4. PICK status \in {"running", "cancelled"} :
        calls' = WithStatus(CallsIn({"ready"}), status) /\ (status = "cancelled" => Combined)
  BY DEF RunWave
<1> QED
  BY <1>1, <1>2, <1>3, <1>4, SetStatusKeeps DEF Statuses

LEMMA EndCallKeeps ==
  ASSUME StateInv, NEW c \in DOMAIN calls, EndCall(c)
  PROVE  StateInv'
<1>1. c \in CallsIn({"running"}) /\ UNCHANGED <<answered, timer>>
  BY DEF EndCall
<1>2. ToolStep
  BY <1>1, OpenCalls, OpenInTools DEF EndCall, ToolStep
<1>3. {c} \cap Asked = {} /\ {c} \cap CallsIn({"rejected"}) = {}
  BY <1>1 DEF Asked, CallsIn
<1>4. PICK status \in {"success", "error", "cancelled"} :
        calls' = WithStatus({c}, status) /\ (status = "cancelled" => Combined)
  BY DEF EndCall
<1> QED
  BY <1>1, <1>2, <1>3, <1>4, SetStatusKeeps DEF Statuses

LEMMA AbandonKeeps ==
  ASSUME StateInv, NEW c \in DOMAIN calls, AbandonQuestion(c)
  PROVE  StateInv'
<1>1. c \in Asked /\ Combined /\ UNCHANGED <<answered, timer>>
  BY DEF AbandonQuestion
<1>2. ToolStep
  BY <1>1, OpenCalls, OpenInTools DEF AbandonQuestion, ToolStep
<1>3. {c} \cap CallsIn({"rejected"}) = {}
  BY <1>1 DEF Asked, CallsIn
<1> QED
  BY <1>1, <1>2, <1>3, SetStatusKeeps DEF AbandonQuestion, Statuses

\* A question pauses the deadline.
LEMMA AskKeeps ==
  ASSUME StateInv, NEW c \in DOMAIN calls, Ask(c)
  PROVE  StateInv'
<1>1. /\ c \in CallsIn({"checking"}) /\ calls' = WithStatus({c}, "asked")
      /\ timer' = Pause(timer) /\ UNCHANGED answered
  BY DEF Ask
<1>2. ToolStep
  BY <1>1, OpenCalls, OpenInTools DEF Ask, ToolStep
<1>3. /\ CallsTypeOK' /\ DOMAIN calls' = DOMAIN calls
      /\ \A d \in DOMAIN calls : calls'[d].status = IF d = c THEN "asked" ELSE calls[d].status
  BY <1>1, StatusSteps DEF CallsTypeOK, StateInv, Statuses
<1>4. /\ c \in Asked' /\ CallsIn({"rejected"})' = CallsIn({"rejected"})
      /\ CallsIn({"cancelled"})' = CallsIn({"cancelled"})
  BY <1>1, <1>3 DEF Asked, CallsIn
<1>5. /\ timer \in Timer(Budget) /\ (~timer.aborted => (timer.armed <=> ~timer.paused))
      /\ answered \in BOOLEAN
  BY DEF StateInv, StateTypeOK, TimerInv
<1>6. /\ timer' \in Timer(Budget) /\ timer'.left = timer.left /\ timer'.aborted = timer.aborted
      /\ timer.aborted => timer' = timer
      /\ ~timer.aborted => timer'.paused /\ ~timer'.armed
  BY <1>1, <1>5, TimerSteps
<1>7. UNCHANGED <<phase, recovering, cancelled>>
  BY <1>2 DEF ToolStep, runVars
<1>8. CallInv' /\ DeadlineCountsWork'
  BY <1>4, <1>6, <1>7 DEF CallInv, DeadlineCountsWork, StateInv
<1> QED
  BY <1>1, <1>2, <1>3, <1>5, <1>6, <1>8, InTools

\* An answer restarts the deadline, whatever other questions are open.
LEMMA AnswerKeeps ==
  ASSUME StateInv, NEW c \in DOMAIN calls, Approve(c) \/ Reject(c)
  PROVE  StateInv'
<1>1. c \in Asked /\ answered' = TRUE /\ timer' = Resume(timer)
  BY DEF Approve, Reject, Credited
<1>2. ToolStep
  BY <1>1, OpenCalls, OpenInTools DEF Approve, Reject, ToolStep
<1>3. /\ timer \in Timer(Budget) /\ (~timer.aborted => (timer.armed <=> ~timer.paused))
  BY DEF StateInv, StateTypeOK, TimerInv
<1>4. /\ timer' \in Timer(Budget) /\ timer'.left = timer.left /\ timer'.aborted = timer.aborted
      /\ timer.aborted => timer' = timer
      /\ ~timer.aborted => timer'.armed /\ ~timer'.paused
  BY <1>1, <1>3, TimerSteps
<1>5. CallsTypeOK' /\ CallInv'
  <2>1. CASE Approve(c)
    <3>1. /\ CallsTypeOK' /\ DOMAIN calls' = DOMAIN calls
          /\ \A d \in DOMAIN calls : calls'[d].status = IF d = c THEN "ready" ELSE calls[d].status
      BY <2>1, StatusSteps DEF Approve, CallsTypeOK, StateInv, Statuses
    <3>2. /\ CallsIn({"rejected"})' = CallsIn({"rejected"})
          /\ CallsIn({"cancelled"})' = CallsIn({"cancelled"})
      BY <1>1, <3>1 DEF Asked, CallsIn
    <3> QED
      BY <1>2, <1>4, <3>1, <3>2 DEF ToolStep, runVars, CallInv, StateInv
  <2>2. CASE Reject(c)
    <3> DEFINE w == WithStatus(Queued, "cancelled")
    <3>1. w \in Seq(CallRecord) /\ Len(w) = Len(calls) /\ DOMAIN w = DOMAIN calls
      BY StatusSteps DEF StateInv, Statuses
    <3>2. \A d \in DOMAIN calls : calls[d] \in CallRecord /\ w[d] \in CallRecord
      BY <3>1, LenProperties, ElementOfSeq DEF StateInv, CallsTypeOK
    <3>3. calls' = [d \in DOMAIN calls |->
                      IF d = c THEN [calls[d] EXCEPT !.status = "rejected"] ELSE w[d]]
      BY <2>2 DEF Reject
    <3> HIDE DEF w
    <3>4. \A d \in DOMAIN calls : calls'[d] \in CallRecord
      BY <3>2, <3>3 DEF CallRecord, Statuses
    <3>5. Len(calls) \in Nat /\ DOMAIN calls = 1 .. Len(calls)
      BY LenProperties DEF StateInv, CallsTypeOK
    <3>6. calls' = [d \in 1 .. Len(calls) |-> calls'[d]]
      BY <3>3, <3>5
    <3>7. calls' \in Seq(CallRecord) /\ Len(calls') = Len(calls)
      BY <3>4, <3>5, <3>6, IsASeq
    <3>8. c \in CallsIn({"rejected"})'
      BY <3>2, <3>3 DEF CallsIn, CallRecord
    <3> QED
      BY <3>7, <3>8 DEF CallInv, CallsTypeOK, StateInv
  <2> QED
    BY <2>1, <2>2
<1>6. DeadlineCountsWork'
  BY <1>1, <1>4 DEF DeadlineCountsWork
<1> QED
  BY <1>1, <1>2, <1>4, <1>5, <1>6, InTools

\* When the calls have ended, the run is over or the next turn begins.
LEMMA TurnEndsKeeps ==
  ASSUME StateInv, TurnEnds
  PROVE  StateInv'
<1>1. /\ phase = "tools" /\ Active = {} /\ Queued = {} /\ UNCHANGED <<owed, cancelled>>
      /\ answered' = FALSE
  BY DEF TurnEnds
<1>2. owed' \in BOOLEAN /\ answered' \in BOOLEAN
  BY <1>1 DEF StateInv, StateTypeOK
<1>3. recovering => /\ reason \in Recoverable
                    /\ reason = "TIMEOUT" => timer.left = 0
                    /\ reason = "MAX_TURNS" => turn = MaxTurns
  BY <1>1 DEF StateInv, RunInv, TimerInv
<1>4. ASSUME UNCHANGED calls
      PROVE  /\ CallsTypeOK' /\ Active' = {} /\ Queued' = {}
             /\ Completed' <=> Completed
             /\ CallsIn({"cancelled"})' = CallsIn({"cancelled"})
             /\ CallsIn({"rejected"})' = CallsIn({"rejected"})
  BY <1>1, <1>4 DEF StateInv, CallsTypeOK, Active, Queued, CallsIn, Completed
<1>5. ASSUME NEW r \in Reasons, Finish(r, FALSE), UNCHANGED calls
      PROVE  CallInv'
  <2>1. recovering' = recovering /\ timer' = Abort(timer)
    BY <1>5 DEF Finish
  <2>2. timer'.left = timer.left
    BY <2>1, TimerSteps DEF StateInv, StateTypeOK
  <2> QED
    BY <1>1, <1>4, <1>5, <2>1, <2>2 DEF CallInv, StateInv
<1>6. CASE HardAbort /\ Stop("ABORTED") /\ UNCHANGED calls
  <2>1. CallsIn({"cancelled"})' # {}
    BY <1>4, <1>6 DEF HardAbort
  <2>2. CASE recovering
    <3>1. Finish(reason, FALSE)
      BY <1>6, <2>2 DEF Stop
    <3> QED
      BY <1>1, <1>2, <1>3, <1>4, <1>5, <1>6, <2>1, <2>2, <3>1, FinishKeeps, ReasonsOf
  <2>3. CASE ~recovering
    <3>1. Finish("ABORTED", FALSE)
      BY <1>6, <2>3, ReasonsOf DEF Stop
    <3>2. cancelled \/ timer.left = 0 \/ CallsIn({"rejected"})' # {}
      BY <1>4, <1>6, <2>3 DEF HardAbort, StateInv, CallInv
    <3> QED
      BY <1>1, <1>2, <1>4, <1>5, <1>6, <2>1, <3>1, <3>2, FinishKeeps, ReasonsOf
  <2> QED
    BY <2>2, <2>3
<1>7. CASE ~HardAbort /\ Completed /\ Stop("GOAL") /\ UNCHANGED calls
  <2>1. Finish("GOAL", FALSE) /\ Completed'
    BY <1>4, <1>7, ReasonsOf DEF Stop
  <2> QED
    BY <1>1, <1>2, <1>4, <1>5, <1>7, <2>1, FinishKeeps, ReasonsOf
<1>8. CASE ~recovering /\ Continue
  <2>1. NextTurn("answers") /\ calls' = <<>> /\ Asked = {}
    BY <1>1, <1>8, OpenCalls DEF Continue
  <2> QED
    BY <1>1, <1>2, <1>8, <2>1, NextTurnKeeps
<1>9. CASE ~HardAbort /\ ~Completed /\ recovering /\ Stop(reason) /\ UNCHANGED calls
  <2>1. Finish(reason, FALSE)
    BY <1>9 DEF Stop
  <2> QED
    BY <1>1, <1>2, <1>3, <1>4, <1>5, <1>9, <2>1, FinishKeeps, ReasonsOf
<1> QED
  BY <1>6, <1>7, <1>8, <1>9 DEF TurnEnds

-----------------------------------------------------------------------------
(* Time, the caller and the injections.                                    *)

\* The clock, the timers, the caller and an injection leave the run and its calls alone.
LEMMA OutsideKeeps ==
  ASSUME StateInv,
         UNCHANGED <<runVars, owed, toolVars, listening>>,
         timer' \in Timer(Budget), grace' \in {"off", "armed", "aborted"},
         cancelled' \in BOOLEAN, cancelled => cancelled',
         ~recovering => grace' = "off",
         timer.left = 0 => timer'.left = 0,
         timer.aborted => timer'.aborted,
         timer'.aborted => ~timer'.armed /\ (timer.aborted \/ timer'.left = 0),
         ~timer'.aborted => timer'.armed = timer.armed,
         timer'.paused = timer.paused
  PROVE  StateInv'
<1> USE DEF StateInv, runVars, toolVars
<1>1. /\ UNCHANGED <<Asked, Active, Queued, Completed>> /\ UNCHANGED CallsIn({"cancelled"})
      /\ UNCHANGED CallsIn({"rejected"})
  BY DEF Asked, Active, Queued, CallsIn, Completed
<1>2. StateTypeOK' /\ CallsTypeOK'
  BY DEF StateTypeOK, CallsTypeOK
<1>3. RunInv'
  BY <1>1 DEF RunInv
<1>4. TimerInv'
  <2>1. timer'.aborted /\ phase' # "over" => timer'.left = 0
    BY DEF TimerInv
  <2>2. /\ timer'.aborted => ~timer'.armed
        /\ ~timer'.aborted => (timer'.armed <=> ~timer'.paused)
    BY DEF TimerInv
  <2> QED
    BY <2>1, <2>2 DEF TimerInv
<1>5. CallInv'
  BY <1>1 DEF CallInv
<1>6. DeadlineCountsWork'
  BY <1>1 DEF CompletesRun, DeadlineCountsWork, StateTypeOK
<1>7. EndsForAReason' /\ CompletionNotLost'
  BY <1>1 DEF CompletesRun, EndsForAReason, CompletionNotLost
<1> QED
  BY <1>2, <1>3, <1>4, <1>5, <1>6, <1>7 DEF CompletesRun

LEMMA TimeKeeps ==
  ASSUME StateInv, Tick \/ DeadlineFires \/ GraceFires \/ Cancel
                   \/ \E source \in Sources : Inject(source)
  PROVE  StateInv'
<1> USE DEF hintVars
<1>1. /\ timer \in Timer(Budget) /\ grace \in {"off", "armed", "aborted"}
      /\ cancelled \in BOOLEAN /\ (~recovering => grace = "off")
      /\ timer.aborted => ~timer.armed
      /\ timer.aborted \in BOOLEAN /\ timer.armed \in BOOLEAN
  BY DEF StateInv, StateTypeOK, RunInv, TimerInv, Timer
<1>2. CASE Tick
  <2>1. timer.armed /\ timer' = Elapsed(timer) /\ UNCHANGED <<grace, cancelled>>
        /\ UNCHANGED <<runVars, owed, toolVars, listening>>
    BY <1>2 DEF Tick
  <2>2. /\ timer' \in Timer(Budget) /\ (timer.left = 0 => timer'.left = 0)
        /\ timer'.aborted = timer.aborted /\ timer'.armed = timer.armed
        /\ timer'.paused = timer.paused
    BY <1>1, <2>1, TimerSteps
  <2> QED
    BY <1>1, <2>1, <2>2, OutsideKeeps
<1>3. CASE DeadlineFires
  <2>1. timer.left = 0 /\ timer' = Fired(timer) /\ UNCHANGED <<grace, cancelled>>
        /\ UNCHANGED <<runVars, owed, toolVars, listening>>
    BY <1>3 DEF DeadlineFires, Due
  <2>2. /\ timer' \in Timer(Budget) /\ timer'.left = timer.left
        /\ timer'.aborted /\ ~timer'.armed
    BY <1>1, <2>1, TimerSteps
  <2>3. timer'.paused = timer.paused
    BY <1>1, <2>1 DEF Fired, Timer
  <2> QED
    BY <1>1, <2>1, <2>2, <2>3, OutsideKeeps
<1>4. CASE GraceFires
  BY <1>1, <1>4, OutsideKeeps DEF GraceFires
<1>5. CASE Cancel
  BY <1>1, <1>5, OutsideKeeps DEF Cancel
<1>6. ASSUME NEW source \in Sources, Inject(source)
      PROVE  StateInv'
  BY <1>1, <1>6, OutsideKeeps DEF Inject
<1> QED
  BY <1>2, <1>3, <1>4, <1>5, <1>6

\* What Told becomes when x is inserted between two parts of it.
LEMMA Inserted ==
  ASSUME NEW S, NEW h \in Seq(S), NEW q \in Seq(S), NEW x \in S
  PROVE  /\ h \o q \in Seq(S) /\ Len(h \o q) = Len(h) + Len(q)
         /\ Append(h, x) \o q \in Seq(S) /\ Len(Append(h, x) \o q) = Len(h) + Len(q) + 1
         /\ \A i \in 1..Len(h) : (Append(h, x) \o q)[i] = (h \o q)[i]
         /\ (Append(h, x) \o q)[Len(h) + 1] = x
         /\ \A i \in 1..Len(q) : /\ (Append(h, x) \o q)[Len(h) + 1 + i] = q[i]
                                 /\ (h \o q)[Len(h) + i] = q[i]
<1> DEFINE a == Append(h, x)
<1>1. Len(h) \in Nat /\ Len(q) \in Nat
  BY LenProperties
<1>2. /\ a \in Seq(S) /\ Len(a) = Len(h) + 1 /\ a[Len(h) + 1] = x
      /\ \A i \in 1..Len(h) : a[i] = h[i]
  BY AppendProperties
<1> HIDE DEF a
<1>3. /\ h \o q \in Seq(S) /\ Len(h \o q) = Len(h) + Len(q)
      /\ \A i \in 1..Len(h) + Len(q) : (h \o q)[i] = IF i <= Len(h) THEN h[i] ELSE q[i - Len(h)]
  BY ConcatProperties
<1>4. /\ a \o q \in Seq(S) /\ Len(a \o q) = Len(a) + Len(q)
      /\ \A i \in 1..Len(a) + Len(q) : (a \o q)[i] = IF i <= Len(a) THEN a[i] ELSE q[i - Len(a)]
  BY <1>2, ConcatProperties
<1>5. ASSUME NEW i \in 1..Len(h)
      PROVE  (a \o q)[i] = (h \o q)[i]
  <2>1. i \in 1..Len(h) + Len(q) /\ i \in 1..Len(a) + Len(q) /\ i <= Len(a)
    BY <1>1, <1>2
  <2> QED
    BY <1>2, <1>3, <1>4, <2>1
<1>6. (a \o q)[Len(h) + 1] = x
  <2>1. Len(h) + 1 \in 1..Len(a) + Len(q) /\ Len(h) + 1 <= Len(a)
    BY <1>1, <1>2
  <2> QED
    BY <1>2, <1>4, <2>1
<1>7. ASSUME NEW i \in 1..Len(q)
      PROVE  (a \o q)[Len(h) + 1 + i] = q[i] /\ (h \o q)[Len(h) + i] = q[i]
  <2>1. /\ Len(h) + 1 + i \in 1..Len(a) + Len(q) /\ ~(Len(h) + 1 + i <= Len(a))
        /\ Len(h) + 1 + i - Len(a) = i
    BY <1>1, <1>2
  <2>2. /\ Len(h) + i \in 1..Len(h) + Len(q) /\ ~(Len(h) + i <= Len(h))
        /\ Len(h) + i - Len(h) = i
    BY <1>1
  <2>3. (a \o q)[Len(h) + 1 + i] = q[Len(h) + 1 + i - Len(a)]
    BY <1>4, <2>1
  <2>4. (h \o q)[Len(h) + i] = q[Len(h) + i - Len(h)]
    BY <1>3, <2>2
  <2> QED
    BY <2>1, <2>2, <2>3, <2>4
<1> QED
  BY <1>1, <1>2, <1>3, <1>4, <1>5, <1>6, <1>7 DEF a

\* The queues and the messages are sequences of numbers.
LEMMA TellingTypes ==
  ASSUME HintInv
  PROVE  /\ pending["user_steering"] \in Seq(1..MaxHints)
         /\ pending["background_completion"] \in Seq(1..MaxHints)
         /\ Collected \in Seq(1..MaxHints) /\ Told \in Seq(1..MaxHints)
         /\ told \o noted \in Seq(1..MaxHints)
         /\ Len(came) \in Nat /\ DOMAIN came = 1..Len(came)
<1> DEFINE S == 1..MaxHints
<1>1. /\ pending["user_steering"] \in Seq(S) /\ pending["background_completion"] \in Seq(S)
      /\ told \in Seq(S) /\ noted \in Seq(S)
  BY DEF HintInv, Sources
<1>2. Len(came) \in Nat /\ DOMAIN came = 1..Len(came)
  BY LenProperties DEF HintInv
<1> HIDE DEF S
<1>3. told \o noted \in Seq(S) /\ Collected \in Seq(S)
  BY <1>1, ConcatProperties DEF Collected
<1>4. Told \in Seq(S)
  BY <1>3, ConcatProperties DEF Told
<1> QED
  BY <1>1, <1>2, <1>3, <1>4 DEF S

\* A new injection comes last, but for the hints that wait if it is a completion.
LEMMA InjectTells ==
  ASSUME HintInv, NEW source \in Sources, Inject(source)
  PROVE  \E h, q \in Seq(1..MaxHints) :
           /\ Told = h \o q /\ Told' = Append(h, Len(came) + 1) \o q
           /\ \/ source = "background_completion" /\ q = pending["user_steering"]
              \/ q = <<>>
<1> DEFINE S == 1..MaxHints
           x == Len(came) + 1
           a == told \o noted
           p == pending["background_completion"]
           q == pending["user_steering"]
<1>1. a \in Seq(S) /\ p \in Seq(S) /\ q \in Seq(S) /\ Told \in Seq(S)
  BY TellingTypes
<1>2. x \in S
  BY TellingTypes, AgentAssumption DEF Inject
<1>3. /\ UNCHANGED <<told, noted>> /\ pending \in [Sources -> Seq(S)]
      /\ pending' = [pending EXCEPT ![source] = Append(@, x)]
  BY DEF Inject, HintInv
<1>4. Told = a \o (p \o q)
  BY DEF Told, Collected
<1>5. Told' = a \o (pending'["background_completion"] \o pending'["user_steering"])
  BY <1>3 DEF Told, Collected
<1>6. CASE source = "background_completion"
  <2>1. pending'["background_completion"] = Append(p, x) /\ pending'["user_steering"] = q
    BY <1>3, <1>6 DEF Sources
  <2> HIDE DEF S, x, a, p, q
  <2>2. Append(p, x) = p \o <<x>> /\ <<x>> \in Seq(S) /\ Append(p, x) \in Seq(S)
    BY <1>1, <1>2, AppendIsConcat, AppendProperties
  <2>3. a \o p \in Seq(S)
    BY <1>1, ConcatProperties
  <2>4. Told = (a \o p) \o q
    BY <1>1, <1>4, ConcatAssociative
  <2>5. Told' = (a \o Append(p, x)) \o q
    <3>1. Told' = a \o (Append(p, x) \o q)
      BY <1>5, <2>1
    <3>2. (a \o Append(p, x)) \o q = a \o (Append(p, x) \o q)
      <4> DEFINE b == Append(p, x)
      <4>1. a \in Seq(S) /\ b \in Seq(S) /\ q \in Seq(S)
        BY <1>1, <2>2
      <4> HIDE DEF b
      <4>2. (a \o b) \o q = a \o (b \o q)
        BY <4>1, ConcatAssociative
      <4> QED
        BY <4>2 DEF b
    <3> QED
      BY <3>1, <3>2
  <2>6. a \o Append(p, x) = (a \o p) \o <<x>>
    BY <1>1, <2>2, ConcatAssociative
  <2>7. (a \o p) \o <<x>> = Append(a \o p, x)
    BY <1>2, <2>3, AppendIsConcat
  <2>8. Told' = Append(a \o p, x) \o q
    BY <2>5, <2>6, <2>7
  <2> QED
    BY <1>1, <1>6, <2>3, <2>4, <2>8 DEF S, x, q
<1>7. CASE source = "user_steering"
  <2>1. pending'["background_completion"] = p /\ pending'["user_steering"] = Append(q, x)
    BY <1>3, <1>7 DEF Sources
  <2> HIDE DEF S, x, a, p, q
  <2>2. Append(q, x) = q \o <<x>> /\ <<x>> \in Seq(S)
    BY <1>1, <1>2, AppendIsConcat
  <2>3. p \o q \in Seq(S)
    BY <1>1, ConcatProperties
  <2>4. p \o Append(q, x) = (p \o q) \o <<x>>
    BY <1>1, <2>2, ConcatAssociative
  <2>5. Told' = a \o ((p \o q) \o <<x>>)
    BY <1>5, <2>1, <2>4
  <2>6. a \o ((p \o q) \o <<x>>) = Told \o <<x>>
    BY <1>1, <1>4, <2>2, <2>3, ConcatAssociative
  <2>7. Told' = Append(Told, x)
    BY <1>1, <1>2, <2>5, <2>6, AppendIsConcat
  <2>8. Append(Told, x) \in Seq(S)
    BY <1>1, <1>2, AppendProperties
  <2>9. Told = Told \o <<>> /\ Told' = Append(Told, x) \o <<>> /\ <<>> \in Seq(S)
    BY <1>1, <2>7, <2>8, ConcatEmptySeq, EmptySeq
  <2> QED
    BY <1>1, <2>9 DEF S, x
<1> QED
  BY <1>6, <1>7 DEF Sources

\* The listener is called once more.
LEMMA InjectKeeps ==
  ASSUME HintInv, NEW source \in Sources, Inject(source)
  PROVE  HintInv'
<1> DEFINE S == 1..MaxHints
           n == Len(came)
           x == Len(came) + 1
<1>1. /\ n \in Nat /\ DOMAIN came = 1..n /\ x \in S /\ n < MaxHints
  BY TellingTypes, AgentAssumption DEF Inject
<1>2. /\ came' = Append(came, source) /\ UNCHANGED <<told, noted, phase, recovering, message>>
      /\ pending' = [pending EXCEPT ![source] = Append(@, x)]
  BY DEF Inject, runVars
<1>3. /\ came' \in Seq(Sources) /\ Len(came') = x /\ DOMAIN came' = 1..x
      /\ came'[x] = source /\ \A i \in 1..n : came'[i] = came[i]
  <2>1. came \in Seq(Sources)
    BY DEF HintInv
  <2>2. /\ came' \in Seq(Sources) /\ Len(came') = x /\ came'[x] = source
        /\ \A i \in 1..n : came'[i] = came[i]
    BY <1>2, <2>1, AppendProperties
  <2> QED
    BY <2>2, LenProperties
<1>4. /\ pending' \in [Sources -> Seq(S)]
      /\ \A i \in DOMAIN pending'["user_steering"] :
           came'[pending'["user_steering"][i]] = "user_steering"
  <2> DEFINE q == pending["user_steering"]
  <2>1. pending \in [Sources -> Seq(S)] /\ Append(pending[source], x) \in Seq(S)
    BY <1>1, AppendProperties DEF HintInv
  <2>2. pending' \in [Sources -> Seq(S)]
    BY <1>2, <2>1
  <2>3. q \in Seq(S) /\ DOMAIN q = 1..Len(q) /\ Len(q) \in Nat
    BY <2>1, LenProperties DEF Sources
  <2>4. \A i \in 1..Len(q) : q[i] \in 1..n /\ came[q[i]] = "user_steering"
    <3>1. \A i \in DOMAIN q : came[q[i]] = "user_steering"
      BY DEF HintInv
    <3>2. \A i \in 1..Len(q) : q[i] \in DOMAIN came
      <4> DEFINE h == (told \o noted) \o pending["background_completion"]
      <4>1. /\ told \o noted \in Seq(S) /\ pending["background_completion"] \in Seq(S)
        BY TellingTypes
      <4>2. Told = h \o q /\ h \in Seq(S)
        <5> DEFINE a == told \o noted
                   p == pending["background_completion"]
        <5>1. Told = a \o (p \o q)
          BY DEF Told, Collected
        <5>2. a \in Seq(S) /\ p \in Seq(S)
          BY <4>1
        <5> HIDE DEF S, a, p, q
        <5>3. a \o p \in Seq(S) /\ Told = (a \o p) \o q
          BY <2>3, <5>1, <5>2, ConcatAssociative, ConcatProperties
        <5> QED
          BY <5>3 DEF a, p
      <4> HIDE DEF h, q, S
      <4>3. /\ Told \in Seq(S) /\ Len(Told) = Len(h) + Len(q)
            /\ \A i \in 1..Len(q) : Told[Len(h) + i] = q[i]
        BY <1>1, <2>3, <4>2, Inserted
      <4>4. Len(h) \in Nat /\ DOMAIN Told = 1..Len(h) + Len(q)
        BY <4>2, <4>3, LenProperties
      <4>5. \A i \in 1..Len(q) : Len(h) + i \in DOMAIN Told
        BY <2>3, <4>4
      <4>6. {Told[i] : i \in DOMAIN Told} = DOMAIN came
        BY DEF HintInv, InjectionsArrive
      <4> QED
        BY <4>3, <4>5, <4>6
    <3> QED
      BY <1>1, <2>3, <3>1, <3>2
  <2>5. CASE source = "user_steering"
    <3>1. pending'["user_steering"] = Append(q, x)
      BY <1>2, <2>1, <2>5 DEF Sources
    <3>2. /\ DOMAIN Append(q, x) = 1..Len(q) + 1 /\ Append(q, x)[Len(q) + 1] = x
          /\ \A i \in 1..Len(q) : Append(q, x)[i] = q[i]
      <4> HIDE DEF S, q, x
      <4> QED
        BY <1>1, <2>3, AppendProperties, LenProperties
    <3>3. ASSUME NEW i \in 1..Len(q) + 1
          PROVE  came'[Append(q, x)[i]] = "user_steering"
      <4>1. CASE i = Len(q) + 1
        BY <1>3, <2>5, <3>2, <4>1
      <4>2. CASE i \in 1..Len(q)
        BY <1>3, <2>4, <3>2, <4>2
      <4> QED
        BY <2>3, <4>1, <4>2
    <3> QED
      BY <2>2, <3>1, <3>2, <3>3
  <2>6. CASE source # "user_steering"
    <3>1. pending'["user_steering"] = q
      BY <1>2, <2>1, <2>6 DEF Sources
    <3> QED
      BY <1>3, <2>2, <2>3, <2>4, <3>1
  <2> QED
    BY <2>5, <2>6
<1>5. PICK h \in Seq(S), q \in Seq(S) :
           /\ Told = h \o q /\ Told' = Append(h, x) \o q
           /\ \/ source = "background_completion" /\ q = pending["user_steering"]
              \/ q = <<>>
  BY InjectTells
<1> DEFINE N == Len(h)
           K == Len(q)
<1>6. N \in Nat /\ K \in Nat /\ DOMAIN q = 1..K
  BY LenProperties
<1>7. /\ DOMAIN Told = 1..N + K /\ DOMAIN Told' = 1..N + K + 1
      /\ \A i \in 1..N : Told'[i] = Told[i]
      /\ Told'[N + 1] = x
      /\ \A i \in 1..K : Told'[N + 1 + i] = q[i] /\ Told[N + i] = q[i]
  <2> HIDE DEF S, x
  <2>1. x \in S
    BY <1>1
  <2> QED
    BY <1>5, <2>1, Inserted, LenProperties
<1> DEFINE T == Told
           U == Told'
<1>8. \A i \in 1..N + K : T[i] \in 1..n
  BY <1>1, <1>7 DEF HintInv, InjectionsArrive
<1>9. \A i, j \in 1..N + K : i < j => MayPrecede(T[i], T[j])
  BY <1>7 DEF HintInv, InjectionsArrive
<1>10. \A i \in 1..K : q[i] \in 1..n /\ source = "background_completion"
                       /\ came'[q[i]] = "user_steering"
  <2>1. ASSUME NEW i \in 1..K
        PROVE  q[i] \in 1..n
    <3>1. N + i \in 1..N + K
      BY <1>6
    <3> QED
      BY <1>7, <1>8, <3>1
  <2>2. ASSUME NEW i \in 1..K
        PROVE  /\ source = "background_completion" /\ q = pending["user_steering"]
    <3>1. q # <<>>
      BY <1>6
    <3> QED
      BY <1>5, <3>1
  <2>3. \A i \in 1..K : came[q[i]] = "user_steering"
    BY <1>6, <2>2 DEF HintInv
  <2> QED
    BY <1>3, <2>1, <2>2, <2>3
<1>11. {U[i] : i \in DOMAIN U} = DOMAIN came'
  <2>1. {T[i] : i \in 1..N + K} = 1..n
    BY <1>1, <1>7 DEF HintInv, InjectionsArrive
  <2> HIDE DEF N, K, T, U
  <2>2. \A i \in 1..N + K + 1 : U[i] \in 1..n \/ U[i] = x
    <3>1. ASSUME NEW i \in 1..N + K + 1
          PROVE  U[i] \in 1..n \/ U[i] = x
      <4>1. CASE i \in 1..N
        <5>1. i \in 1..N + K
          BY <1>6, <4>1
        <5> QED
          BY <1>7, <1>8, <4>1, <5>1 DEF T, U, N, K
      <4>2. CASE i = N + 1
        BY <1>7, <4>2 DEF U, N
      <4>3. CASE i \in N + 2..N + K + 1
        <5>1. i - N - 1 \in 1..K /\ N + 1 + (i - N - 1) = i
          BY <1>6, <4>3 DEF N, K
        <5> QED
          BY <1>7, <1>10, <5>1 DEF U, N, K
      <4> QED
        BY <1>6, <4>1, <4>2, <4>3 DEF N, K
    <3> QED
      BY <3>1
  <2>3. \A y \in 1..n : \E i \in 1..N + K + 1 : U[i] = y
    <3>1. ASSUME NEW y \in 1..n
          PROVE  \E i \in 1..N + K + 1 : U[i] = y
      <4>1. PICK j \in 1..N + K : T[j] = y
        BY <2>1
      <4>2. CASE j \in 1..N
        <5>1. U[j] = y /\ j \in 1..N + K + 1
          BY <1>6, <1>7, <4>1, <4>2 DEF T, U, N, K
        <5> QED
          BY <5>1
      <4>3. CASE j \in N + 1..N + K
        <5>1. j - N \in 1..K /\ N + (j - N) = j /\ N + 1 + (j - N) = j + 1
              /\ j + 1 \in 1..N + K + 1
          BY <1>6, <4>3 DEF N, K
        <5>2. U[N + 1 + (j - N)] = q[j - N] /\ T[N + (j - N)] = q[j - N]
          BY <1>7, <5>1 DEF T, U, N, K
        <5>3. U[j + 1] = y
          BY <4>1, <5>1, <5>2
        <5> QED
          BY <5>1, <5>3
      <4> QED
        BY <1>6, <4>1, <4>2, <4>3 DEF N, K
    <3> QED
      BY <3>1
  <2>4. N + 1 \in 1..N + K + 1 /\ U[N + 1] = x
    BY <1>6, <1>7 DEF U, N, K
  <2>5. DOMAIN U = 1..N + K + 1
    BY <1>7 DEF U, N, K
  <2>6. 1..x = (1..n) \cup {x}
    BY <1>1
  <2> HIDE DEF x, n
  <2>7. \A i \in DOMAIN U : U[i] \in 1..x
    BY <2>2, <2>5, <2>6
  <2>8. \A y \in 1..x : \E i \in DOMAIN U : U[i] = y
    BY <2>3, <2>4, <2>5, <2>6
  <2>9. DOMAIN came' = 1..x
    BY <1>3
  <2> QED
    BY <2>7, <2>8, <2>9
<1>12. (\A i, j \in DOMAIN Told : i < j => MayPrecede(Told[i], Told[j]))'
  <2> DEFINE After(y, z) == \/ y < z
                            \/ /\ y # z /\ came'[y] = "background_completion"
                               /\ came'[z] = "user_steering"
  <2>1. \A i, j \in 1..N + K : i < j => After(T[i], T[j])
    BY <1>3, <1>8, <1>9 DEF MayPrecede
  <2>2. \A i \in 1..N + K : After(T[i], x)
    BY <1>1, <1>8
  <2>3. \A i \in 1..K : After(x, q[i])
    BY <1>1, <1>3, <1>10
  <2> HIDE DEF After, N, K, T, U, x
  <2>4. ASSUME NEW i \in 1..N + K + 1, NEW j \in 1..N + K + 1, i < j
        PROVE  After(U[i], U[j])
    <3>1. CASE j \in 1..N
      <4>1. i \in 1..N /\ i \in 1..N + K /\ j \in 1..N + K
        BY <1>6, <2>4, <3>1 DEF N, K
      <4> QED
        BY <1>7, <2>1, <2>4, <3>1, <4>1 DEF T, U, N
    <3>2. CASE j = N + 1
      <4>1. i \in 1..N /\ i \in 1..N + K
        BY <1>6, <2>4, <3>2 DEF N, K
      <4>2. U[i] = T[i] /\ U[j] = x
        BY <1>7, <3>2, <4>1 DEF T, U, N
      <4> QED
        BY <2>2, <4>1, <4>2
    <3>3. CASE j \in N + 2..N + K + 1
      <4>1. /\ j - N - 1 \in 1..K /\ N + 1 + (j - N - 1) = j /\ N + (j - N - 1) = j - 1
            /\ j - 1 \in 1..N + K
        BY <1>6, <3>3 DEF N, K
      <4>2. U[j] = q[j - N - 1] /\ U[j] = T[j - 1]
        <5>1. /\ U[N + 1 + (j - N - 1)] = q[j - N - 1]
              /\ T[N + (j - N - 1)] = q[j - N - 1]
          BY <1>7, <4>1 DEF T, U, N, K
        <5> QED
          BY <4>1, <5>1
      <4>3. CASE i \in 1..N
        <5>1. i \in 1..N + K /\ i < j - 1 /\ U[i] = T[i]
          BY <1>6, <1>7, <3>3, <4>3 DEF T, U, N, K
        <5> QED
          BY <2>1, <4>1, <4>2, <5>1
      <4>4. CASE i = N + 1
        <5>1. U[i] = x
          BY <1>7, <4>4 DEF U, N
        <5> QED
          BY <2>3, <4>1, <4>2, <5>1
      <4>5. CASE i \in N + 2..N + K + 1
        <5>1. /\ i - N - 1 \in 1..K /\ N + 1 + (i - N - 1) = i /\ N + (i - N - 1) = i - 1
              /\ i - 1 \in 1..N + K /\ i - 1 < j - 1
          BY <1>6, <2>4, <4>5 DEF N, K
        <5>2. /\ U[N + 1 + (i - N - 1)] = q[i - N - 1]
              /\ T[N + (i - N - 1)] = q[i - N - 1]
          BY <1>7, <5>1 DEF T, U, N, K
        <5>3. U[i] = T[i - 1]
          BY <5>1, <5>2
        <5> QED
          BY <2>1, <4>1, <4>2, <5>1, <5>3
      <4> QED
        BY <1>6, <4>3, <4>4, <4>5 DEF N, K
    <3> QED
      BY <1>6, <3>1, <3>2, <3>3 DEF N, K
  <2>5. DOMAIN U = 1..N + K + 1
    BY <1>7 DEF U, N, K
  <2> QED
    BY <2>4, <2>5 DEF After, MayPrecede, U
<1>13. InjectionsArrive'
  <2>1. noted' # <<>> => phase' \in {"preparing", "over"} \/ recovering'
    BY <1>2 DEF HintInv, InjectionsArrive
  <2> QED
    BY <1>11, <1>12, <2>1 DEF InjectionsArrive
<1>14. /\ noted' \in Seq(S) /\ told' \in Seq(S) /\ Len(came') <= MaxHints
       /\ message' = "warning" => recovering'
  BY <1>1, <1>2, <1>3 DEF HintInv
<1> QED
  BY <1>3, <1>4, <1>13, <1>14 DEF HintInv

\* The loop collects both queues for the next message, the message goes out, or nothing
\* happens to the injections.
LEMMA TellingKeeps ==
  ASSUME HintInv, message' = "warning" => recovering',
         noted' # <<>> => phase' \in {"preparing", "over"} \/ recovering',
         \/ UNCHANGED injections
         \/ UNCHANGED <<came, pending>> /\ told' = told \o noted /\ noted' = <<>>
         \/ /\ noted = <<>> /\ noted' = Collected /\ pending' = [s \in Sources |-> <<>>]
            /\ UNCHANGED <<came, told>>
  PROVE  HintInv'
<1> DEFINE S == 1..MaxHints
<1>1. /\ told \in Seq(S) /\ noted \in Seq(S) /\ Collected \in Seq(S) /\ Told \in Seq(S)
      /\ told \o noted \in Seq(S) /\ pending \in [Sources -> Seq(S)] /\ <<>> \in Seq(S)
  BY TellingTypes, EmptySeq DEF HintInv
<1>2. /\ Told' = Told /\ UNCHANGED came
      /\ pending' \in [Sources -> Seq(S)] /\ noted' \in Seq(S) /\ told' \in Seq(S)
      /\ \A i \in DOMAIN pending'["user_steering"] :
           came[pending'["user_steering"][i]] = "user_steering"
  <2>1. CASE UNCHANGED injections
    BY <1>1, <2>1 DEF Told, Collected, injections, HintInv
  <2>2. CASE UNCHANGED <<came, pending>> /\ told' = told \o noted /\ noted' = <<>>
    <3>1. Told' = ((told \o noted) \o <<>>) \o Collected
      BY <2>2 DEF Told, Collected
    <3> HIDE DEF S
    <3>2. (told \o noted) \o <<>> = told \o noted
      BY <1>1, ConcatEmptySeq
    <3>3. Told' = Told
      BY <3>1, <3>2 DEF Told
    <3> QED
      BY <1>1, <2>2, <3>3 DEF HintInv
  <2>3. CASE /\ noted = <<>> /\ noted' = Collected /\ pending' = [s \in Sources |-> <<>>]
             /\ UNCHANGED <<came, told>>
    <3>1. pending'["background_completion"] = <<>> /\ pending'["user_steering"] = <<>>
      BY <2>3 DEF Sources
    <3>2. Told' = (told \o Collected) \o (<<>> \o <<>>)
      BY <2>3, <3>1 DEF Told, Collected
    <3>3. Told = (told \o <<>>) \o Collected
      BY <2>3 DEF Told
    <3> HIDE DEF S
    <3>4. <<>> \o <<>> = <<>> /\ told \o <<>> = told
      BY <1>1, ConcatEmptySeq
    <3>5. told \o Collected \in Seq(S)
      BY <1>1, ConcatProperties
    <3>6. Told' = Told
      BY <3>2, <3>3, <3>4, <3>5, ConcatEmptySeq
    <3>7. pending' \in [Sources -> Seq(S)]
      BY <1>1, <2>3
    <3>8. DOMAIN pending'["user_steering"] = {}
      BY <3>1
    <3> QED
      BY <1>1, <2>3, <3>6, <3>7, <3>8
  <2> QED
    BY <2>1, <2>2, <2>3
<1>3. InjectionsArrive'
  BY <1>2 DEF InjectionsArrive, MayPrecede, HintInv
<1> QED
  BY <1>2, <1>3 DEF HintInv

\* A stop ends the run or begins the recovery turn.
LEMMA StopEnds ==
  ASSUME NEW r, Stop(r), message = "warning" => recovering
  PROVE  (phase' = "over" \/ recovering') /\ (message' = "warning" => recovering')
  BY DEF Stop, Finish, Recover

-----------------------------------------------------------------------------
(* The theorems.                                                           *)

LEMMA InitInv == Init => IInv
<1> SUFFICES ASSUME Init PROVE IInv
  OBVIOUS
<1> USE AgentAssumption DEF Init
<1>1. timer \in Timer(Budget) /\ timer.armed /\ ~timer.paused /\ ~timer.aborted
  BY DEF Timer, Started
<1>2. StateTypeOK
  <2>1. turn \in 0..MaxTurns
    OBVIOUS
  <2> QED
    BY <1>1, <2>1, Zenon DEF StateTypeOK, Reasons
<1>3. CallsTypeOK
  BY EmptySeq DEF CallsTypeOK
<1>4. Active = {} /\ Queued = {} /\ Asked = {} /\ CallsIn({"cancelled"}) = {}
  BY NoCalls, OpenCalls DEF Active, Queued
<1>5. RunInv
  BY <1>4 DEF RunInv
<1>6. TimerInv /\ CallInv
  BY <1>1, <1>4 DEF TimerInv, CallInv
<1>7. CompletesRun
  BY DEF CompletesRun, DeadlineCountsWork, EndsForAReason, CompletionNotLost
<1>8. HintInv
  <2>1. /\ came \in Seq(Sources) /\ Len(came) <= MaxHints
        /\ pending \in [Sources -> Seq(1..MaxHints)]
        /\ noted \in Seq(1..MaxHints) /\ told \in Seq(1..MaxHints)
    BY EmptySeq
  <2>2. DOMAIN came = {} /\ DOMAIN pending["user_steering"] = {}
    BY DEF Sources
  <2>3. Told = <<>>
    BY ConcatEmptySeq, EmptySeq DEF Told, Collected, Sources
  <2>4. DOMAIN Told = {}
    BY <2>3
  <2>5. InjectionsArrive
    BY <2>2, <2>4 DEF InjectionsArrive
  <2> QED
    BY <2>1, <2>2, <2>5 DEF HintInv
<1> QED
  BY <1>2, <1>3, <1>5, <1>6, <1>7, <1>8 DEF IInv, StateInv

\* What each step does to the injections and to the message.
LEMMA InjectionsKeep ==
  ASSUME HintInv, [Next]_vars
  PROVE  HintInv'
<1>1. /\ message = "warning" => recovering
      /\ noted # <<>> => phase \in {"preparing", "over"} \/ recovering
  BY DEF HintInv, InjectionsArrive
<1>2. ASSUME NEW m \in {"query", "answers"}, NextTurn(m)
      PROVE  (phase' \in {"preparing", "over"} \/ recovering')
             /\ (message' = "warning" => recovering')
  BY <1>1, <1>2, StopEnds DEF NextTurn
<1>3. CASE SetUp \/ SetUpFails
  <2>1. UNCHANGED injections
    BY <1>3 DEF SetUp, SetUpFails
  <2>2. /\ message' = "warning" => recovering'
        /\ phase' \in {"preparing", "over"} \/ recovering'
    BY <1>1, <1>2, <1>3 DEF SetUp, SetUpFails, Finish
  <2> QED
    BY <2>1, <2>2, TellingKeeps
<1>4. CASE SendMessage
  <2>1. UNCHANGED <<message, recovering, came, pending>>
    BY <1>4 DEF SendMessage
  <2>2. CASE message = "warning"
    <3>1. UNCHANGED injections /\ recovering'
      BY <1>1, <1>4, <2>1, <2>2 DEF SendMessage, injections
    <3> QED
      BY <3>1, TellingKeeps
  <2>3. CASE message # "warning"
    <3>1. told' = told \o noted /\ noted' = <<>>
      BY <1>4, <2>3 DEF SendMessage
    <3> QED
      BY <1>1, <2>1, <3>1, TellingKeeps
  <2> QED
    BY <2>2, <2>3
<1>5. CASE ModelAnswers
  <2>1. UNCHANGED injections /\ phase = "calling"
    BY <1>5 DEF ModelAnswers
  <2>2. Stop("ERROR_NO_COMPLETE_TASK_CALL") \/ UNCHANGED <<message, recovering>>
    BY <1>5 DEF ModelAnswers
  <2> QED
    BY <1>1, <2>1, <2>2, StopEnds, TellingKeeps DEF injections
<1>6. CASE StreamAborted \/ AbortErrorThrown \/ ErrorThrown
  <2>1. UNCHANGED injections
    BY <1>6 DEF StreamAborted, AbortErrorThrown, ErrorThrown
  <2>2. /\ message' = "warning" => recovering'
        /\ phase' = "over" \/ recovering'
    BY <1>1, <1>6, StopEnds DEF StreamAborted, AbortErrorThrown, ErrorThrown, Finish, Recover
  <2> QED
    BY <2>1, <2>2, TellingKeeps
<1>7. CASE TurnEnds
  <2>1. phase = "tools" /\ UNCHANGED <<came, told>>
    BY <1>7 DEF TurnEnds
  <2>2. CASE ~recovering /\ Continue
    <3>1. /\ noted = <<>> /\ noted' = Collected /\ pending' = [s \in Sources |-> <<>>]
          /\ NextTurn("answers")
      BY <1>1, <2>1, <2>2 DEF Continue
    <3> QED
      BY <1>2, <2>1, <3>1, TellingKeeps
  <2>3. ASSUME NEW r, Stop(r), UNCHANGED <<pending, noted>>
        PROVE  HintInv'
    BY <1>1, <2>1, <2>3, StopEnds, TellingKeeps DEF injections
  <2> QED
    BY <1>7, <2>2, <2>3 DEF TurnEnds
<1>8. ASSUME UNCHANGED <<message, recovering, phase, injections>>
      PROVE  HintInv'
  BY <1>1, <1>8, TellingKeeps DEF injections
<1>9. CASE TakeWave \/ RunWave \/ Tick \/ DeadlineFires \/ GraceFires \/ Cancel
  BY <1>8, <1>9 DEF TakeWave, RunWave, Tick, DeadlineFires, GraceFires, Cancel, runVars, hintVars
<1>10. ASSUME NEW c \in DOMAIN calls, CallStep(c)
       PROVE  HintInv'
  BY <1>8, <1>10 DEF CallStep, Check, Ask, Approve, Reject, AbandonQuestion, EndCall, runVars,
                     hintVars
<1>11. CASE UNCHANGED vars
  BY <1>8, <1>11 DEF vars, runVars, hintVars
<1> QED
  BY <1>3, <1>4, <1>5, <1>6, <1>7, <1>9, <1>10, <1>11, InjectKeeps DEF Next

LEMMA NextInv == IInv /\ [Next]_vars => IInv'
<1> SUFFICES ASSUME StateInv, HintInv, [Next]_vars PROVE StateInv' /\ HintInv'
  BY DEF IInv
<1>1. HintInv'
  BY InjectionsKeep
<1>2. CASE SetUp \/ SetUpFails
  BY <1>1, <1>2, SetUpKeeps
<1>3. CASE SendMessage
  BY <1>1, <1>3, SendKeeps
<1>4. CASE ModelAnswers
  BY <1>1, <1>4, ModelAnswersKeeps
<1>5. CASE StreamAborted \/ AbortErrorThrown \/ ErrorThrown
  BY <1>1, <1>5, LeftKeeps
<1>6. CASE TakeWave
  BY <1>1, <1>6, TakeWaveKeeps
<1>7. CASE RunWave
  BY <1>1, <1>7, RunWaveKeeps
<1>8. CASE TurnEnds
  BY <1>1, <1>8, TurnEndsKeeps
<1>9. ASSUME NEW c \in DOMAIN calls, CallStep(c)
      PROVE  StateInv'
  BY <1>9, CheckKeeps, AskKeeps, AnswerKeeps, AbandonKeeps, EndCallKeeps DEF CallStep
<1>10. CASE Tick \/ DeadlineFires \/ GraceFires \/ Cancel \/ \E source \in Sources : Inject(source)
  BY <1>1, <1>10, TimeKeeps
<1>11. CASE UNCHANGED vars
  <2>1. UNCHANGED <<runVars, owed, toolVars, listening, timer, grace, cancelled>>
    BY <1>11 DEF vars, hintVars
  <2> QED
    BY <1>1, <2>1, OutsideKeeps DEF StateInv, StateTypeOK, RunInv, TimerInv
<1> QED
  BY <1>1, <1>2, <1>3, <1>4, <1>5, <1>6, <1>7, <1>8, <1>9, <1>10, <1>11 DEF Next

\* The inductive invariant holds in every state of a run of the agent (executeTurn and the
\* loop of runInternal), whatever the model answers and whenever the timers fire.
THEOREM Invariance == Spec => []IInv
  BY InitInv, NextInv, PTL DEF Spec

\* Every variable keeps its type: the turn counter stays within maxTurns and the calls of a
\* turn stay calls.
THEOREM TypeCorrect == Spec => []TypeOK
<1>1. IInv => TypeOK
  BY DEF IInv, StateInv, StateTypeOK, CallsTypeOK, CallRecord, HintInv, TypeOK
<1> QED
  BY <1>1, Invariance, PTL

\* The deadline of DeadlineTimer stands still while the first question of a wave is open and
\* runs whenever no question is: onWaitingForConfirmation pairs every pause with a resume,
\* but for an abort.
THEOREM DeadlineIsPaired == Spec => []DeadlineCountsWork
<1>1. IInv => DeadlineCountsWork
  BY DEF IInv, StateInv, CompletesRun
<1> QED
  BY <1>1, Invariance, PTL

\* The terminateReason that runInternal reports is borne out by what happened.
THEOREM ReasonsAreTrue == Spec => []EndsForAReason
<1>1. IInv => EndsForAReason
  BY DEF IInv, StateInv, CompletesRun
<1> QED
  BY <1>1, Invariance, PTL

\* A complete_task that succeeded makes GOAL the reason of the run, in executeFinalWarningTurn
\* too, unless processFunctionCalls saw a cancelled call beside it.
THEOREM CompletionCounts == Spec => []CompletionNotLost
<1>1. IInv => CompletionNotLost
  BY DEF IInv, StateInv, CompletesRun
<1> QED
  BY <1>1, Invariance, PTL

\* The injections that injectionListener took are in the messages or in the queues, each
\* once, those of one source in the order in which they came and no hint in front of a
\* completion that was there before it; a turn that asks for tools had them all.
THEOREM InjectionsAreTold == Spec => []InjectionsArrive
<1>1. IInv => InjectionsArrive
  BY DEF IInv, HintInv
<1> QED
  BY <1>1, Invariance, PTL
=============================================================================

------------------------------ MODULE ChatRequest ------------------------------
(***************************************************************************)
(* Requests to the model.  Several chats (GeminiChat: the main one and     *)
(* those of subagents, packages/core/src/core/geminiChat.ts) send messages *)
(* while they share the active model and the health of the models          *)
(* (config/config.ts, availability/).  A request goes through two loops:   *)
(* retryWithBackoff (utils/retry.ts) until a stream is open, with the      *)
(* fallback to another model (fallback/handler.ts) that may ask the user   *)
(* (useQuotaAndFallback.ts), and the loop of sendMessageStream that starts *)
(* over when the stream breaks.  Turn.run (core/turn.ts) collects the tool *)
(* calls the stream asks for.                                              *)
(***************************************************************************)
EXTENDS ModelAvailability

CONSTANTS
  Chat,                 \* the chats
  Main,                 \* the chat of the client, whose model key is a chat model
  AgentModel,           \* the model each other chat asks for
  NoModel, NoChat,
  Actions,              \* actions of the policies during the session: 'prompt', 'silent'
  Verbosity,            \* values ui.errorVerbosity takes during the session
  MaxAttempts,          \* getMaxAttempts()
  MidStreamAttempts,    \* MID_STREAM_RETRY_OPTIONS.maxAttempts
  MaxSends,             \* bound: messages of each chat
  MaxChoices            \* bound: uses of /model, cancellations, retries the user grants

ASSUME ChatAssumption ==
  /\ Main \in Chat /\ AgentModel \in [Chat -> Model]
  /\ NoModel \notin Model /\ NoChat \notin Chat
  /\ Actions \subseteq {"prompt", "silent"} /\ Verbosity \subseteq {"low", "full"}
  /\ MaxAttempts \in Nat \ {0} /\ MidStreamAttempts \in Nat \ {0}
  /\ MaxSends \in [Chat -> Nat] /\ MaxChoices \in Nat

VARIABLES
  health,     \* ModelAvailabilityService.health
  model,      \* the configured model
  active,     \* Config._activeModel
  sequence,   \* GeminiClient.currentSequenceModel
  req,        \* the request of each chat
  dialog,     \* the chat whose question the interface shows
  sends, choices   \* counters of the bounds

vars == <<health, model, active, sequence, req, dialog, sends, choices>>

\* st:      opening (history pushed), calling (an attempt, from its hooks on), waiting
\*          (before the next attempt of retryWithBackoff), asking, streaming, pausing
\*          (before the next stream)
\* outer:   attempt of sendMessageStream;  try, max: attempt of retryWithBackoff
\* last:    lastModelToUse;  init: initialActiveModel
\* aborted: its signal is aborted
\* ask:     the failure the user is asked about
NoAsk == [kind |-> "none", failed |-> NoModel, target |-> NoModel]
Idle ==
  [st |-> "idle", wanted |-> NoModel, outer |-> 0, try |-> 0, max |-> 0,
   last |-> NoModel, init |-> NoModel, aborted |-> FALSE, ask |-> NoAsk]

States == {"idle", "opening", "calling", "waiting", "asking", "streaming", "pausing"}

TypeOK ==
  /\ health \in [Model -> Health]
  /\ model \in Model /\ active \in Model /\ sequence \in Model \cup {NoModel}
  /\ \A c \in Chat :
       LET r == req[c] IN
       /\ r.st \in States
       /\ r.st # "idle" => r.wanted \in Model /\ r.outer \in 0..MaxAttempts
       /\ r.st \in {"calling", "waiting", "asking"} =>
            r.last \in Model /\ r.init \in Model /\ r.try <= r.max
       /\ r.st = "asking" => r.ask.kind \in Kinds /\ r.ask.target \in Model
  /\ dialog \in Chat \cup {NoChat}

Init ==
  /\ health = AllHealthy
  /\ model = Chain[1] /\ active = Chain[1] /\ sequence = NoModel
  /\ req = [c \in Chat |-> Idle]
  /\ dialog = NoChat
  /\ sends = [c \in Chat |-> 0] /\ choices = 0

-----------------------------------------------------------------------------
(***************************************************************************)
(* Config                                                                  *)
(***************************************************************************)

\* setModel: also forgets every mark; a change ends the client's model sequence.
SetModel(m) ==
  /\ model' = m /\ active' = m
  /\ sequence' = IF m = model /\ m = active THEN sequence ELSE NoModel
  /\ health' = AllHealthy

\* The /model command, which the interface takes while the main chat is idle.
UserPicks(m) ==
  /\ req[Main].st = "idle"
  /\ choices < MaxChoices /\ choices' = choices + 1
  /\ SetModel(m)
  /\ UNCHANGED <<req, dialog, sends>>

-----------------------------------------------------------------------------
(***************************************************************************)
(* A message is sent                                                       *)
(***************************************************************************)
Ends(c) == req' = [req EXCEPT ![c] = Idle]

CanSend(c) ==
  /\ req[c].st = "idle" /\ sends[c] < MaxSends[c]
  /\ sends' = [sends EXCEPT ![c] = @ + 1]
  /\ UNCHANGED <<model, dialog, choices>>

\* The client routes the request and selects its model without using up an attempt;
\* the sequence of a prompt keeps the model of its first request.
Route(h, pinned) ==
  LET wanted == IF pinned # NoModel THEN pinned ELSE model
      m == Selected(h, ChainFrom(wanted))
  IN  /\ CanSend(Main)
      /\ req' = [req EXCEPT ![Main] = [Idle EXCEPT !.st = "opening", !.wanted = wanted]]
      /\ health' = h /\ active' = m /\ sequence' = m

\* GeminiClient.sendMessageStream with a new prompt ...
SendPrompt == Route(ResetTurn(health), NoModel)

\* ... with tool responses or a request to continue; one that continues after an invalid
\* stream is not a new turn.
SendMore ==
  /\ sends[Main] > 0
  /\ Route(ResetTurn(health), sequence) \/ Route(health, sequence)

\* applyModelSelection, and retryWithBackoff up to its first attempt.
SelectModel(c, wanted, outer) ==
  LET m == Selected(health, ChainFrom(wanted)) IN
  /\ health' = Consume(health, m)
  /\ active' = IF c = Main THEN m ELSE active
  /\ IF req[c].aborted THEN Ends(c)
     ELSE req' = [req EXCEPT ![c] = [Idle EXCEPT
            !.st = "waiting", !.wanted = wanted, !.outer = outer,
            !.last = m, !.init = active',
            !.max = IF health[m] = "sticky" THEN 1 ELSE MaxAttempts]]

\* The chat of the client opens its first stream.
OpenStream ==
  /\ req[Main].st = "opening"
  /\ SelectModel(Main, req[Main].wanted, 1)
  /\ UNCHANGED <<model, sequence, dialog, sends, choices>>

\* LocalAgentExecutor.callModel.
SendOfAgent(c) ==
  /\ c # Main
  /\ CanSend(c)
  /\ SelectModel(c, AgentModel[c], 1)
  /\ UNCHANGED sequence

-----------------------------------------------------------------------------
(***************************************************************************)
(* retryWithBackoff                                                        *)
(***************************************************************************)

\* apiCall: the model of the last attempt, or the active one if that has changed since
\* the selection.
NextModel(now, r) == IF now # r.init THEN now ELSE r.last

\* A slip: the signal is looked at after an error only.
AttemptAnyway(c) ==
  /\ req[c].st = "waiting"
  /\ req' = [req EXCEPT ![c] = [@ EXCEPT
       !.st = "calling", !.try = req[c].try + 1,
       !.last = NextModel(active, req[c])]]
  /\ UNCHANGED <<health, model, active, sequence, dialog, sends, choices>>

\* The next attempt, after the delay if there is one.
Attempt(c) ==
  /\ req[c].st = "waiting"
  /\ IF req[c].aborted THEN Ends(c)
     ELSE req' = [req EXCEPT ![c] = [@ EXCEPT
            !.st = "calling", !.try = req[c].try + 1,
            !.last = NextModel(active, req[c])]]
  /\ UNCHANGED <<health, model, active, sequence, dialog, sends, choices>>

\* The stream is open, and retryWithBackoff has returned: the model is healthy again.
CallSucceeds(c) ==
  /\ req[c].st = "calling"
  /\ req' = [req EXCEPT ![c] = [@ EXCEPT !.st = "streaming", !.try = 0, !.max = 0,
                                         !.last = NoModel, !.init = NoModel]]
  /\ health' = [health EXCEPT ![req[c].last] = "healthy"]
  /\ UNCHANGED <<model, active, sequence, dialog, sends, choices>>

Again(c) == req' = [req EXCEPT ![c] = [@ EXCEPT !.st = "waiting", !.ask = NoAsk]]
AgainFromStart(c) ==
  req' = [req EXCEPT ![c] = [@ EXCEPT !.st = "waiting", !.try = 0, !.ask = NoAsk]]

\* A slip: one attempt too many.
MayTryMore(r) == r.try <= r.max

\* The loop has another attempt.
MayTry(r) == r.try < r.max

\* A failed call that is tried again after a delay, or that ends the request.
CallFails(c, retryable) ==
  /\ req[c].st = "calling"
  /\ IF req[c].aborted THEN Ends(c)
     ELSE IF retryable /\ MayTry(req[c]) THEN Again(c)
     ELSE Ends(c)
  /\ UNCHANGED <<health, model, active, sequence, dialog, sends, choices>>

\* The failures that may pass: too many requests, errors of the server.
Passing == {"transient", "unknown"}

\* The failures that ask for another model: at once, or when the attempts are used up.
Persistent(c, kind) ==
  /\ req[c].st = "calling" /\ ~req[c].aborted
  /\ kind \in Passing => ~MayTry(req[c])

\* What handleFallback computes: the failed policy, if the active chain has one, and
\* the model to fall back to.
FallbackFor(c, kind) ==
  LET chain == ChainFrom(active)
      failed == req[c].last
      rest == Candidates(chain, failed)
  IN  [kind |-> kind,
       failed |-> IF failed \in Range(chain) THEN failed ELSE NoModel,
       target |-> IF rest = <<>> THEN failed ELSE Selected(health, rest)]

Mark(h, ask) == IF ask.failed = NoModel THEN h ELSE Transit(h, ask.failed, ask.kind)

\* The action of the candidate's policy is silent.
FallSilently(c, kind) ==
  LET ask == FallbackFor(c, kind) IN
  /\ Persistent(c, kind) /\ "silent" \in Actions
  /\ ask.target # req[c].last
  /\ SetModel(ask.target)
  /\ AgainFromStart(c)
  /\ UNCHANGED <<dialog, sends, choices>>

\* The action is to prompt, or no model follows.
MustAsk(c, kind) ==
  /\ Persistent(c, kind)
  /\ "prompt" \in Actions \/ FallbackFor(c, kind).target = req[c].last

\* The handler of the interface answers retry_once without a question, as often as it is
\* asked.
KeepTrying(c, kind) ==
  /\ MustAsk(c, kind) /\ kind \in Passing /\ "low" \in Verbosity
  /\ health' = Mark(health, FallbackFor(c, kind))
  /\ AgainFromStart(c)
  /\ UNCHANGED <<model, active, sequence, dialog, sends, choices>>

\* A slip: the new question replaces the one that is shown.
ShowableAlways == TRUE

\* The interface can show the question: no other one is open.
Showable == dialog = NoChat

\* The handler shows the question; another one is open: the request is stopped.
AskUser(c, kind) ==
  /\ MustAsk(c, kind) /\ (kind \in Passing => "full" \in Verbosity)
  /\ IF Showable
       THEN /\ dialog' = c
            /\ req' = [req EXCEPT ![c] = [@ EXCEPT !.st = "asking",
                                                   !.ask = FallbackFor(c, kind)]]
       ELSE Ends(c) /\ UNCHANGED dialog
  /\ UNCHANGED <<health, model, active, sequence, sends, choices>>

\* The user switches to the other model (retry_always).
Switch(c) ==
  /\ dialog = c /\ req[c].st = "asking" /\ choices < MaxChoices
  /\ SetModel(req[c].ask.target)
  /\ AgainFromStart(c)
  /\ dialog' = NoChat /\ choices' = choices + 1
  /\ UNCHANGED <<sends>>

\* The user keeps the model for another round (retry_once).
TryOnce(c) ==
  /\ dialog = c /\ req[c].st = "asking" /\ choices < MaxChoices
  /\ health' = Mark(health, req[c].ask)
  /\ AgainFromStart(c)
  /\ dialog' = NoChat /\ choices' = choices + 1
  /\ UNCHANGED <<model, active, sequence, sends>>

\* The user pays for another round (retry_with_credits).
PayForMore(c) ==
  /\ dialog = c /\ req[c].st = "asking" /\ choices < MaxChoices
  /\ req[c].ask.kind = "terminal"
  /\ AgainFromStart(c)
  /\ dialog' = NoChat /\ choices' = choices + 1
  /\ UNCHANGED <<health, model, active, sequence, sends>>

\* The user gives up (stop, retry_later, upgrade).
Stop(c) ==
  /\ dialog = c /\ req[c].st = "asking"
  /\ Ends(c)
  /\ dialog' = NoChat
  /\ UNCHANGED <<health, model, active, sequence, sends, choices>>

-----------------------------------------------------------------------------
(***************************************************************************)
(* The stream                                                              *)
(***************************************************************************)

\* The stream ends with a tool call or with text: its content joins the history.
StreamEnds(c) ==
  /\ req[c].st = "streaming"
  /\ Ends(c)
  /\ UNCHANGED <<health, model, active, sequence, dialog, sends, choices>>

\* Turn.run sees the signal at the next event and leaves the stream.
StreamLeft(c) ==
  /\ req[c].st = "streaming" /\ req[c].aborted
  /\ Ends(c)
  /\ UNCHANGED <<health, model, active, sequence, dialog, sends, choices>>

\* The stream breaks: invalid (no tool call and no text or no reason to finish), by a
\* network error, or by another one.  The first two are followed by another stream.
StreamBreaks(c, how) ==
  /\ req[c].st = "streaming"
  /\ IF /\ how = "invalid" \/ (how = "network" /\ ~req[c].aborted)
        /\ req[c].outer < MaxAttempts /\ req[c].outer < MidStreamAttempts
       THEN req' = [req EXCEPT ![c].st = "pausing"]
       ELSE Ends(c)
  /\ UNCHANGED <<health, model, active, sequence, dialog, sends, choices>>

\* The delay is over, which no signal shortens; the caller gets the event RETRY, keeps
\* what it has collected, and leaves if its signal is aborted.
PauseOver(c) ==
  /\ req[c].st = "pausing"
  /\ IF req[c].aborted THEN Ends(c) /\ UNCHANGED <<health, active>>
     ELSE SelectModel(c, req[c].wanted, req[c].outer + 1)
  /\ UNCHANGED <<model, sequence, dialog, sends, choices>>

\* The user cancels.
Abort(c) ==
  /\ req[c].st # "idle" /\ ~req[c].aborted
  /\ choices < MaxChoices /\ choices' = choices + 1
  /\ req' = [req EXCEPT ![c].aborted = TRUE]
  /\ UNCHANGED <<health, model, active, sequence, dialog, sends>>

Progress(c) ==
  \/ Attempt(c) \/ CallSucceeds(c)
  \/ \E retryable \in BOOLEAN : CallFails(c, retryable)
  \/ \E kind \in Kinds : FallSilently(c, kind) \/ KeepTrying(c, kind) \/ AskUser(c, kind)
  \/ Switch(c) \/ TryOnce(c) \/ PayForMore(c) \/ Stop(c)
  \/ StreamEnds(c) \/ StreamLeft(c) \/ PauseOver(c)
  \/ \E how \in {"invalid", "network", "other"} : StreamBreaks(c, how)

Next ==
  \/ SendPrompt \/ SendMore \/ OpenStream
  \/ \E c \in Chat : SendOfAgent(c) \/ Abort(c) \/ Progress(c)
  \/ \E m \in Model : UserPicks(m)

\* Timers fire, the service answers or the connection breaks, the stream comes to an
\* end, and the user answers the question that is shown, for the main chat at least.
Fairness == WF_vars(OpenStream) /\ WF_vars(Progress(Main))

Spec == Init /\ [][Next]_vars /\ Fairness

-----------------------------------------------------------------------------
(***************************************************************************)
(* Properties                                                              *)
(***************************************************************************)

\* A request that waits for an answer is the one the interface shows: two requests that
\* fail at the same time do not overwrite each other's question (isDialogPending).
AskedIsShown == \A c \in Chat : req[c].st = "asking" <=> dialog = c

\* A model that was given up stays so until it has answered, a new turn of the client
\* gives it its one attempt back, or the model is switched; not because another chat
\* failed on it again (markRetryOncePerTurn, resetTurn, setModel).
GivenUpStaysGivenUp == [][\A m \in Model :
  ~Available(health, m) /\ Available(health', m) =>
    \/ \E c \in Chat :
         req[c].st = "calling" /\ req'[c].st = "streaming" /\ req[c].last = m
    \/ health[m] = "consumed" /\ sends'[Main] # sends[Main]
    \/ health' = AllHealthy]_vars

\* A cancelled request makes no further call, wherever it was cancelled: in a delay,
\* at a question, between two streams (retryWithBackoff, Turn.run).
CancelledCallsNoMore == [][\A c \in Chat :
  req[c].aborted /\ req[c].st # "calling" => req'[c].st # "calling"]_vars

\* A request of the main chat ends, whatever fails and whatever the other chats do:
\* silent fallbacks come to the end of the chain, attempts are used up, questions are
\* answered (retryWithBackoff counts from 0 again after each fallback).  The one way to go
\* on for ever is the interface's: it answers retry_once for the user, again and again.
MainRequestEnds ==
  <>[][~\E kind \in Kinds : KeepTrying(Main, kind)]_vars =>
    (req[Main].st # "idle" ~> req[Main].st = "idle")

\* After a fallback nobody was asked about, the next call goes to another model than the
\* one that failed ("Reset attempts and retry with the new model", retry.ts).
RetriesWithNewModel == [][\A c \in Chat :
  req[c].st = "calling" /\ req'[c].st = "waiting" /\ req'[c].try = 0 =>
    NextModel(active', req'[c]) # req[c].last]_vars
=============================================================================

# A verification project for bare-ai-cli

TLA+ modules, TLC configurations and TLAPS proofs for the core of bare-ai-cli (a
fork of Gemini CLI). Paths below are relative to the repository; `core/` stands
for `packages/core/src/`.

## 1. The system and its parts

The program is a command-line agent. A turn sends the history to a language
model, reads a stream of text and tool call requests, runs the requested tools
and sends their responses back, until the model asks for no more tools. One
JavaScript thread runs everything; the concurrency is that of promises, timers,
child processes and the user.

| part | state it keeps | operations | interacts with | hard behaviour | what makes it correct |
|---|---|---|---|---|---|
| Tool scheduler `core/scheduler/scheduler.ts`, `state-manager.ts` | request queue, queue of calls, map of active calls, completed batch, `isProcessing`, `isCancelling` | `schedule`, `cancelAll`, `dispose`; the loop `_processQueue`; per call `_processToolCall`, `_execute` | policy, hooks, confirmation, executor, message bus | parallel calls interleave at every await; cancellation at any moment; tail calls; requests that wait for a batch | no call or request lost, each reported once; nothing runs that was not allowed; order and abort respected |
| Confirmation loop `scheduler/confirmation.ts`, `tool-modifier.ts` | none of its own (a correlation id per question) | `resolveConfirmation`, editor and inline modification | message bus, state manager, editor | answer against abort; modification and asking again | the answer counts for the call, tool and arguments on screen |
| Policy glue, hook glue `scheduler/policy.ts`, `hook-utils.ts` | none | `checkPolicy`, `updatePolicy`, `evaluateBeforeToolHook` | policy engine, hook system | decision read before an await and used after it | a question without a user is refused |
| Tool executor `scheduler/tool-executor.ts` | none | `execute` | tools, shell | abort of a running tool; processes moved to the background | one verdict per run |
| Message bus `core/confirmation-bus/message-bus.ts` | listeners | `publish`, `subscribe`, `request`, `derive` | policy engine, UI, scheduler | a timeout against a late answer | a request settles once |
| Policy engine `core/policy/policy-engine.ts`, `config.ts`, `toml-loader.ts` | rules by priority, approval mode, safety checkers; policy files | `check`, `addRule`, `removeRulesForTool`; persistence queue | scheduler, message bus, UI | rules change while calls are checked; writes are queued | first matching rule by priority; no update lost |
| Hooks `core/hooks/` | registry | plan, run, aggregate | scheduler, client | parallel hooks, timeouts | a block wins |
| Availability, fallback, retry `core/availability/`, `core/fallback/`, `core/utils/retry.ts` | health per model | mark, select, consume, reset per turn | chat, UI dialog | retries and dialogs between attempts | terminal beats transient; one retry per turn |
| Chat, turn, client `core/core/geminiChat.ts`, `turn.ts`, `client.ts`, `bareAiClient.ts` | history, send promise, hook state per prompt | `sendMessageStream`, compression, continuation | scheduler, availability, hooks, loop detection | stream errors and retries; abort in mid-stream | history alternates and keeps call and response together |
| Legacy scheduler `core/core/coreToolScheduler.ts` | as the scheduler | as the scheduler | as the scheduler | as the scheduler | as the scheduler |
| Local agents `core/agents/local-executor.ts`, `core/utils/deadlineTimer.ts` | turn counter, timer budget | run, pause, resume, extend, grace turn | scheduler, chat | one timer for parallel questions | time with the user is free, all other time is counted |
| Agent sessions `core/agent/` | event log, subscribers | send, stream, abort | client, scheduler | late subscribers | every event once, in order |
| Executions `core/services/executionLifecycleService.ts`, `shellExecutionService.ts` | active and exited executions, resolvers | create, append, complete, kill, background | shell tool, UI, injection | completion against backgrounding and kill | each result promise settles once |
| Chat recording `core/services/chatRecordingService.ts` | a session file | record, rewind, resume | chat | a crash between two writes | a reload gives a prefix of what was recorded |
| Loop detection `core/services/loopDetectionService.ts` | a window of recent content | check per event | client | streaming chunks | pure function of the history |
| Context pipeline, compression `core/context/` | history graph, inbox | process, distil, compress | client | background processors | no turn loses its tool response |
| Memory service `core/services/memoryService.ts` | lock and state files | extract | sessions | several processes, stale locks | one extractor at a time |
| Task tracker `core/services/trackerService.ts` | a file per task | create, update, dependencies | tools | partial writes | no dependency cycle |
| Credentials, sandbox manager, configuration, telemetry | files, keychain | read, write, build commands | many | I/O failures | outside this project |
| MCP clients `core/tools/mcp-client-manager.ts` | clients, discovery promises, refresh flags | start, stop, discover, refresh | registry, context | overlapping discovery and refresh | a refresh requested during a refresh happens |
| Tools and registry `core/tools/` | registered tools | build, shouldConfirmExecute, execute | executor | processes | data of the models |
| User interface `packages/cli/src/ui/` | displayed calls, stream state | cancel, confirm | scheduler, message bus | cancellation while asking | the question shown is the question answered |
| ACP server, A2A server, SDK, VS Code companion, developer tools, session cleanup | sessions and tasks | protocol handlers | client, scheduler | as the client loop | later, or outside |

`PROJECT.json` lists the same parts with their sources and status, and the hazards
of the code at their lines.

## 2. What is modelled

| modules | parts | composed with |
|---|---|---|
| `ToolCallState`, `Scheduler`, `SchedulerContract` | scheduler, confirmation loop, policy and hook glue, executor, the user who cancels and answers | the contract is refined by `Scheduler` |
| `PolicyPersistence`, `MessageBus` | rules allowed always and their file; decisions over the bus | `MessageBus` extends `PolicyPersistence`: answers update the rules that later checks read |
| `ExecutionContract`, `ExecutionLifecycle`, `ShellExecution` | executions, the shell service and tool, the list of background processes | the lifecycle refines its contract under `ShellExecution` |
| `ModelAvailability`, `ChatRequest` | health and fallback chains; requests of the main chat and of an agent, retries, the fallback dialog | the chats share health, active model and dialog |
| `DeadlineTimer`, `LocalAgent` | the deadline; a run of a subagent with its turns, calls, injections and recovery turn | the calls of a turn follow the waves of the scheduler |

The other parts have their theorems in `MessageBusProofs`, `ShellExecutionProofs`,
`ChatRequestProofs` and `LocalAgentProofs`, their instances in the `MC` modules.

### 2.1 The tool scheduler

`ToolCallState.tla` is `SchedulerStateManager`: the queue, the active map with its
insertion order, the status of each call and the completed batch, with the
operations as functions of the present state. `Scheduler.tla` extends it with the
request queue, the main loop, the coroutine of every call, the confirmation loop,
the policy check and update, modification, the verdict of the executor and
cancellation. `SchedulerContract.tla` is what a caller of `schedule()` may rely on.
`MCScheduler.tla` holds the instances; the theorems are in `SchedulerProofs.tla` (nothing
is lost), `SchedulerContractProofs.tla` (order and contract) and
`SchedulerApprovalProofs.tla` (what may run, who is asked).

#### State

| variable | code |
|---|---|
| `queue`, `wave`, `active` | `queue`; the calls dequeued together, in Map order; the keys of `activeCalls` |
| `status`, `results` | the status of the call object; how often `_completedBatch` holds the call |
| `current`, `isCancelling` | `isProcessing` with the batch at hand; the flag of `cancelAll` |
| `requestQueue`, `promise`, `reply` | `requestQueue`; the promise of `schedule()`; the statuses it resolved with |
| `aborted` | the batches whose `AbortSignal` is aborted |
| `loop`, `seen` | where `_processQueue` stands; `initialStatuses` |
| `pc` | where `_processToolCall`, `resolveConfirmation` or `_execute` of a call stands |
| `tool`, `args` | `request.name` and whose arguments the call carries |
| `asked`, `sandboxed` | forced by a hook; in the sandbox branch of `_execute` |
| `answer`, `result` | `ResolutionResult.outcome`; the executor's verdict |
| `rules` | the ALLOW rules added by "always" |
| `background` | calls whose process went on after their result |
| `approved` | history variable: which call, tool and arguments the user said yes to |

#### Steps

A synchronous stretch of JavaScript runs to completion, so an action is the code
from one await to the next, with every call it makes. Between a batch's start and
the first turn of its loop nothing is awaited: `loop = "start"` (guard `Yielded`)
keeps other code out. The loop's steps are `QueueDrained`, `StopLoop`,
`FinalizeErrored`, `StartWave`, `Revisit`, `StartExecution`, `NothingToExecute`,
`ExecutionDone`, `FinishBatch`; a call's are `HookReturns`, `PolicyReturns`,
`DetailsReturn`, `NotifyReturns`, `Answer`, `AnswerAborted`, `ConfirmReturns` (the
tool's `onConfirm`, which is awaited), `EditorReturns`, `InlineReturns`,
`UpdateReturns`, `Raises` (an exception of any awaited step, caught at
`scheduler.ts:550-581`, where an `AbortError` gives cancelled with or without a signal),
`ToolReturns`, `RecordStatus`, `RecordTailCall`, `RecordSandboxError`, `Output`,
`OutputAfterResult`; the outside world's are
`Schedule`, `Abort`, `CancelAll`, `UserCancels`.

#### What is abstracted

- A call is its id (ids are unique, `RequestsAssumption`), a tool a model value, the
  arguments of a call "those written for call c". Responses are not modelled, only
  their status.
- Hooks and tools are the set of things they may return. A hook that rewrites
  arguments before the check is abstracted: the check that follows sees the result.
- The policy is a decision per tool; a rule added by "always" beats ASK. How
  rules are stored and reach the engine is in `PolicyPersistence`. `shouldConfirmExecute` checks
  the same policy again over the bus, as the code does; the check may time out, which asks the
  user (`tools.ts:348-351`), and a tool that needs no confirmation is `Waived`. A call with
  `additional_permissions` (`Expanding`) asks although a rule allows its tool (`policy.ts:79-83`).
- "always" for edit tools (AUTO_EDIT) is a rule for the tool.
- A tail call has arguments of its own: it waits for the previous calls if they say so
  (`TailWaits`), and what the user approved for the call before it no longer counts.
- The `onConfirm` of an edit shown in the IDE, which replaces the content, is left out.
- Answers with a stale correlation id are ignored by the code and left out.
- Hooks after the tool, progress and pid updates, telemetry and `dispose` are left out.
- The microtask wait of the loop is the state `"spin"`, whose next turn may come at
  any time. In the real event loop it comes before any timer or input; the model is
  the kinder one.
- One `update_topic` request per batch at most (`TopicAssumption`): the comparator of
  `_startBatch` orders two of them inconsistently.

### 2.2 Message bus and policy updates

`PolicyPersistence.tla` is `createPolicyUpdater`. A session (a process) has the rules
of its engine (`memory`), the promise chain (`queue`) and the write under way
(`jobs`: what was read, and whether the new content is in its temporary file); all
sessions share `file`. `UpdatePolicy` refuses or adds a rule and queues the write;
`ReadFile`, `ReadFails`, `WriteTmp`, `Rename` and `WriteFails` are the steps of a
write from await to await; `CrashSession` loses everything but the file, and
`RestartSession` loads it. A rule is a tool with its narrowing, a model value; the
file is a set of rules, the flags of a rule are left out. `author` and `wanted` are
history variables.

`MessageBus.tla` extends it with `getMessageBusDecision`: `Request` subscribes the
handler and lets the engine find the rule, `Respond` emits the response when the
checkers are done, `CheckFails` emits none, `TimeOut` and `AbortAsk` decide without
it. An answer "always" to a question becomes an update of the same session. A session
that dies takes its asks along. A request that needs the user is answered at once,
by a scheduler that listens or by the bus itself; both are `Respond`. `request()` has
no caller and derived buses only add the name of the subagent; both are left out, as is
`forcedDecision` (`message-bus.ts:98`), another way to choose what `Respond` chooses
already. The narrowing by a command prefix is modelled although nothing sets it at this
commit (`config.ts:702`), and one file stands for the file of the user and that of the
workspace (`config.ts:766-769`), which the same code writes.

### 2.3 Executions and shell commands

`ExecutionLifecycle.tla` is `ExecutionLifecycleService`: the maps of executions,
resolvers, exit listeners and remembered exits, with `Settle`, `Background` and
`OnExit` as steps of its callers. `ExecutionContract.tla` is what it promises: one
result for each execution, at most one announcement of its end.
`ShellExecution.tla` adds the processes, the shell tool that waits, the list and the
logs of background processes, and the interface that moves, watches, dismisses and
finally kills commands. The kinds of process differ where the code does: a terminal's
output is drained after the exit, a child's exit is handled at once. A command that
cannot be started (`SpawnFails`) has no pid and no execution; a terminal that cannot be
opened falls back to a child process, so which commands have one (`Pty`) is arbitrary.

There are two ways to the background. The timer of a call with `is_background` goes through
`ShellExecutionService.background`, which records the process and opens its log; the user
who moves a call of the model goes through `ExecutionLifecycleService` alone
(`useExecutionLifecycle.ts:212`). The interface registers for the exit when it notices the move
and again when the call reports it: each registration has its callback (`Callback`). That
hook is modelled as it is written; no component uses it at this commit
(`useGeminiStream.ts` takes a stub, `shellCommandProcessor.ts`). Commands the user types, which
the hook would run itself, are left out for that reason, and so is the reuse of a pid by
another process.

### 2.4 Requests to the model

`ModelAvailability.tla` has the health of the models and the choice along the chain
as operators. `ChatRequest.tla` has a record per chat (`req`: both retry counters, the
model tried last, the signal, the question to the user) and what all chats share:
`health`, the configured and the `active` model, the `dialog`. The steps follow
`sendMessageStream`, `retryWithBackoff` and `handleFallback` from await to await.
Failures are nondeterministic, of every kind in `Kinds`; a transient or unknown one asks for
another model when the attempts are used up. Delays have no length. Hooks and the
announcement of the model are awaited between the check of the signal and the call: `"calling"`
begins with them; a BeforeModel hook that stops, blocks or changes the model is left out. A
continuation after an invalid stream is not a new turn (the second disjunct of
`SendMore`). `KeepTrying` is the answer `retry_once` that the interface gives by itself with
`errorVerbosity` low, its default: nothing in the code bounds it and nothing in the model
does. The content of messages and of the history is left out, as are routing (its result is any
model of the chain through `UserPicks` and `Route`) and authentication.

### 2.5 Local agents

`DeadlineTimer.tla` is the timer, in ticks. `LocalAgent.tla` is one run of
`LocalAgentExecutor`: `phase` says where `runInternal` and `executeTurn` stand, `calls`
has the calls of the turn with the statuses their scheduler gives them, `timer`,
`grace` and `cancelled` are the three signals, `pending` the queue of injections of each source. The next message
takes completions of the background before hints (`Collected`); `noted` has what is in a
message not yet sent, `told` what was sent, and a message that the head of the loop drops
takes what is noted with it.
A wave of calls is validated as a whole before any of them runs, a refusal cancels
what is queued behind it, as in `Scheduler`. The answer of the model is any short list
of calls of the four kinds. `message` and `owed` record whether the next message
carries the responses to the calls that end the history. Compression and routing are
part of `SendMessage`, and so is compression that ends only with the abort; an abort at the start
of an execution is seen when the call ends. The registries, prompts and activity events are left out.

## 3. Runs

| run | instance | question | states |
|---|---|---|---|
| `scheduler_core` | two batches; in the first a call that asks, one that is allowed and one that waits for both; exceptions anywhere; abort, UI cancellation and `cancelAll` at any moment | is anything lost or reported twice, does every request have a server, does the loop ever spin, is the contract kept; does an aborted batch end without an answer, does every request settle if questions do | 197,000 |
| `scheduler_waves` | three batches without a user, two of them of one malformed call; in the first the second call waits for the previous ones, the third is an `update_topic`; hooks that fail; each call may make one tail call, to a tool that asks (refused without a user, allowed to a client-initiated call; it waits for the previous calls) or to a denied one | order within a batch and between batches, one report per call, no question, nothing runs that is not allowed | 1,239,000 |
| `scheduler_confirm` | two batches, an edit and a shell command in the first: all answers, editor and inline modification, hooks that ask, a tool without confirmation details, sandbox reports, processes in the background, aborts | what runs is what was allowed or approved; nothing starts after an abort | 4,809,000 |
| `message_bus` | two sessions with one policy file; two asks in the first, in the second one that the policy denies; rules that are too wide; three updates, one fault | does each ask get its own decision; does a session lose its own rules; does a failed write stop the chain | 325,000 |
| `shell_execution` | a command in a terminal and one with `is_background` as a child process; a history of one entry | is each end reported, once; is each callback called once; is anything held after the end; does an aborted call return | 36,000 |
| `chat_request` | the main chat with two messages and an agent with one, which asks for the second of two models; two attempts each; a chain whose models keep one attempt per turn after a transient failure and are given up after any other; one use of /model, cancellation or granted retry | are questions kept apart; does a model given up stay so; does a cancelled request stop; do requests end | 288,000 |
| `local_agent` | two turns and the recovery turn, up to two calls in each, two ticks, two injections | what does the deadline count; why does a run end; is a result lost or an injection told late or twice; does it end | 1,248,000 |
| `find_edits` | two edit calls in one wave | expected violation, below | |
| `find_denied` | two calls to a denied tool, hooks that ask | expected violation, below | |
| `find_frozen` | two calls in one wave whose processes may go to the background | expected violation, below | |
| `find_fallback` | as `chat_request` | expected violation, below | |
| `find_recovery` | one turn of one call | expected violation, below | |

`MaxRounds` bounds the modifications and sandbox expansions of a call, `MaxTails` its
tail calls; both are 1 or 0, which is enough to come back once to every point of the
confirmation loop and of the queue. Two calls in a wave are the least for which the
first active call may be another one; three calls the least with something before
and after a call that waits, and with a call behind a wave in which one is denied; three
batches the least with two in line. Cancellation is split over the runs by what it meets: all
three ways in `scheduler_core`, where a queue and a line are there to be cancelled, the
signal in the others. Two sessions are the least that
can lose an update to each other, three updates the least with two in one of them;
`MaxFaults` is shared by failed reads, failed writes and crashes, each of which meets
every step of a write. Two commands are one of each kind of process and one of each way to the
background; they share nothing but the history. Two models with two attempts reach every branch of the retry loop and the
end of the chain; `MaxChoices` is shared by everything the user may do. Every policy of the
catalogue marks a model terminal whatever the failure (`policyCatalog.ts:51-56`); the mark
that keeps one attempt takes a chain of the user's settings (`modelChains`), and a run with both
marks covers both. Two turns are the least with a message between them, two calls the least with two
questions at once or with a call queued behind a refused one, and the smallest budget
of ticks in which the deadline may be paused before and after time has passed is two.
The runs set `CHECK_DEADLOCK FALSE`: the program stops when no request is left and
while a question is open. No symmetry is used: the calls of a batch are ordered and
sessions, commands, models and chats have roles.

`KeepsContract` (with cancellation in `scheduler_core`, with two in line in
`scheduler_waves`) shows that `Scheduler` implements `SchedulerContract`: requests are
served one at a time in the order of arrival, a promise is settled once and, when
resolved, with a result for every call, and only cancellation rejects. The refinement
mapping is the identity on `promise` and `reply`, `requestQueue` for the line and
`current` for the batch being served.

`KeepsExecutionContract` is the second refinement: the phase of an execution, its
result and its announcement are functions of the maps of `ExecutionLifecycle`.

**Fairness.** Everywhere weak fairness of what the event loop runs by itself: the
continuations of settled promises and the timers.

- Scheduler: the loop and the steps of each call; hooks, editors and tools are assumed
  to return (their own timeouts are outside the model). Answers, cancellation, aborts,
  new requests and output are not fair. `RequestsSettle` therefore has `UserAnswers` as
  hypothesis: no question stays open for ever. `AbortSettles` has no such hypothesis:
  the abort closes the question.
- Bus and policy: file operations return, checks end or fail, timeouts fire. Crashes,
  restarts and answers of the user are not fair. `UpdatesSettle` is about sessions that
  keep running.
- Shell: the tool's continuations and timers; a process that was sent a signal exits,
  since SIGKILL follows SIGTERM; its exit is handled once the call is cancelled. A
  process may otherwise run, and its output occupy the terminal, for ever.
- Requests: for the main chat timers fire, the service answers or fails, streams come to an
  end, the user answers the question that is shown; of the agent's chat nothing is assumed. `MainRequestEnds` has a hypothesis: from some
  point on the interface no longer answers `retry_once` by itself for the main chat. With
  `errorVerbosity` low it does so whenever the attempts on an overloaded model are used up
  (`useQuotaAndFallback.ts:162-168`), and `retry.ts:358` counts them from 0 again: such a
  request ends with the overload or with the user's cancellation only. Given the hypothesis
  the request ends because it follows the chain of the active model to its end. What the user
  grants is bounded by `MaxChoices`.
- Agent: time passes, timers fire, the user answers, a tool and the call of the model
  end after an abort. Neither the model nor a tool need ever answer: `RunEnds` says that
  the deadline or the grace period ends the run.

**Disagreements.**

- `find_edits`: `handleExternalModification` and `handleInlineModification` take
  `state.firstActiveCall`, so in a wave with two questions the second call is rebuilt
  from the arguments of the first.
- `find_denied`: a hook that asks replaces the decision of `checkPolicy`, a denial
  included, and the forced question skips the policy check of `shouldConfirmExecute`;
  the policy documentation says that a denied call is not executed.
- `find_frozen`: output of a process in the background arrives after the call has its
  final status but before its wave is finalized and marks it executing again. Once the
  other calls are done the loop waits for a call that no coroutine will finish, and
  the promise of `schedule()` never settles.
- `find_fallback`: a subagent whose own model fails falls back, without a question, to
  the active model, and its request is then retried at once with the model that
  failed, with the attempts counted from 0: `apiCall` takes the active model only when
  it has changed. This can go on without end.
- `find_recovery`: when the loop of an agent ends at the limit of turns, or at a
  deadline noticed between two turns, the last turn's responses are in
  `currentMessage`, but the recovery turn sends its warning instead. The history then
  has calls of the model without responses, which `client.ts` says the API refuses.

Seen while modelling and not turned into runs:

- a call with `is_background` whose command could not be started is reported as moved to
  the background, and its error is dropped (`shell.ts:702`);
- with the default `errorVerbosity` a request may go on for ever on an overloaded model,
  whatever `general.maxAttempts` says (above);
- without a user a question forced by a hook or a sandbox report waits until the
  abort; an "always" does not spare a parallel call of the same tool the question; a
  denial by the user cancels the queue but not the calls of the same wave; `cancelAll`
  without an abort lets a call that is being validated become scheduled and run; a second
  `cancelAll` within one batch is ignored;
- a refusal that an agent is meant to recover from aborts its run when a call with
  `wait_for_previous` was queued behind the refused one, and so does a deadline that
  passes while tools run (`EndsForAReason` states both): the run reports ABORTED and has
  no recovery turn;
- with two questions of an agent open, the answer to the first restarts the deadline;
- the timer of a shell call with `is_background` calls `background` also for a command
  that has ended: it is listed as running for ever;
- a policy file that cannot be read, for whatever reason, is overwritten with the one
  new rule, and two sessions that save at the same time lose one of the rules
  (`LostOnlyUnseen` states both exceptions);
- a decision that times out is `ask_user` even where the policy would deny, and the
  denial that comes later is not heard.

## 4. Proofs

Every safety invariant, every action property and both refinements that the passing
runs check are theorems of the specification. They hold for every value of the
constants that the named assumptions of the modules allow: any number of batches,
calls and tools, sessions, rules and asks, commands, chats, chains of models, turns
and injections, any policy, and any of the bounds (`MaxRounds`, `MaxFaults`, ...).
The assumptions on constants say what the parameters are (a policy is a function of
the tools, a limit is a natural number). Three exclude something:
`RequestsAssumption` repeated call ids, `TopicAssumption` (2.1) two `update_topic` requests in a batch,
`ChainAssumption` a chain of the policy catalogue that is empty or lists a model twice.

| module | theorem | states | assumes besides |
|---|---|---|---|
| `SchedulerProofs` | `TypeCorrect` | `TypeOK` | |
| | `NothingStartsAfterAbort` | `AbortStopsStarts` | |
| | `Invariance` | `IInv` | `BackgroundTools = {}` |
| | `NoCallLeftBehind` | `NothingLeftBehind` | `BackgroundTools = {}` |
| | `NoRequestLost` | `RequestsHaveAServer` | `BackgroundTools = {}` |
| | `NoSpin` | `NeverSpins` | `BackgroundTools = {}` |
| | `ReportedOnce` | `EachCallReportedOnce` | `BackgroundTools = {}` |
| `SchedulerContractProofs` | `WaitingIsKept` | `WaitsForPrevious` | `BackgroundTools = {}` |
| | `ContractIsKept` | `KeepsContract` (refinement) | `BackgroundTools = {}` |
| `SchedulerApprovalProofs` | `OnlyAllowedRuns` | `RunsOnlyIfAllowed` | `NoWaivedDenial`, `OneEditor` |
| | `NobodyIsAsked` | `HeadlessNeverAsks` | no hook asks, `SandboxTools = {}` |
| `MessageBusProofs` | `Invariance`, `TypeCorrect` | `IInv`, `TypeOK` | |
| | `DecisionsAreOwn` | `DecisionIsOwn` | |
| | `OnlyWishesAreSaved` | `SavesWhatWasAsked` | |
| | `OnlyUnseenIsLost` | `LostOnlyUnseen` | |
| `ShellExecutionProofs` | `Invariance`, `TypeCorrect` | `IInv`, `TypeOK` | |
| | `EndsAreReported` | `EndIsReported` | |
| | `ExitsAreHeardOnce` | `ExitHeardOnce` | |
| | `NothingIsHeld` | `NothingHeld` | |
| | `ContractIsKept` | `KeepsExecutionContract` (refinement) | |
| `ChatRequestProofs` | `Invariance`, `TypeCorrect` | `IInv`, `TypeOK` | |
| | `QuestionsAreShown` | `AskedIsShown` | |
| | `CancelledIsFinal` | `CancelledCallsNoMore` | |
| | `MarksAreKept` | `GivenUpStaysGivenUp` | |
| `LocalAgentProofs` | `Invariance`, `TypeCorrect` | `IInv`, `TypeOK` | |
| | `DeadlineIsPaired` | `DeadlineCountsWork` | |
| | `ReasonsAreTrue` | `EndsForAReason` | |
| | `CompletionCounts` | `CompletionNotLost` | |
| | `InjectionsAreTold` | `InjectionsArrive` | |

**The hypotheses**, each a constant-level condition that the instance of a run meets:

- `BackgroundTools = {}`: no tool whose process may go to the background. With one the
  loop does spin, which is what `find_frozen` exhibits. It excludes only the shell
  command that the user moves to the background.
- `NoWaivedDenial`: a hook that forces a question meets no denied tool that reports
  no confirmation details. Without it TLC finds a denied call that runs although nobody
  was asked; the cause is that of `find_denied`, the hook's decision in the place of
  the denial.
- `OneEditor`: where the user may answer with inline content, one call at most edits and no
  tail call does. With two TLC finds a call that runs with the arguments of the other; the cause is
  that of `find_edits`, `state.firstActiveCall`.
- `NobodyIsAsked` leaves out hooks that ask and sandbox reports, since both ask
  without looking at `Interactive`; what happens then is under the hazards.

Each module is laid out alike: the inductive invariant as a conjunction of named
parts, lemmas about the operators, one lemma per action or group of actions, `Init`
and `Next` combined, the theorems.

### 4.1 Scheduler

None of the safety properties is inductive: that nothing is active when a batch
ends depends on every call having its final status when `Promise.all` resolves, and
that on what each coroutine may do in each phase of a turn. `IInv` is the conjunction of

- `TypeOK`;
- `LoopInv`: where the main loop is says what the containers hold: nothing is
  active at the top of a turn, during a turn something is or a tail call has just
  left, and a request waits in line only behind a batch;
- `QueueInv`: the queue holds each call once, none that is active, and only calls that
  are to be validated or were refused;
- `CoroutineInv`: the program counters that are possible in the validating and in the
  executing phase, that a running coroutine owns an active call, that only a call in the
  sandbox branch asks during execution, and that an active call whose coroutine is over
  is terminal or, while validating, scheduled;
- `LedgerInv`: every call of the batch is queued, active or reported, a reported call
  is in no other place and terminal, and what a resolved promise reported is terminal;
- `NoBackground`.

The proof has one lemma per action. `MoveKeeps` carries most of them: a step that takes
one coroutine to a new point, changes no other call's status and leaves the containers
alone keeps the invariant, provided the point is possible in the phase and a
coroutine that ends leaves a final status. The steps that move calls between containers
rest on lemmas about the sequence operations: `TopicFirstKeeps` (the sort of
`_startBatch` is a permutation), `HeadEffect` (a tail call), `DequeueEffect` (a wave
leaves the queue) and `CancelEffect`. `NoRevisit` shows that the branch of
`_processNextItem` for calls left over from an earlier turn is not taken.
`AbortStopsStarts` needs only `TypeOK`: of all steps only the start of execution and
the end of a sandbox question lead to `"exec"`, and both test the signal.

**Order.** `WaitsForPrevious` speaks of a call once it is active, so `WaitInv` adds
what must hold before: `QueueOrder`, whatever precedes a queued call in its batch is
ahead of it in the queue, active, or has its result, and `ActiveOrder`, the property
in terms of `Precedes`. `TailAlone` says the same of a tail call that is to wait: it is the
only active call. A wave that starts with a call that waits is that call alone
and starts with nothing active, so what precedes it has its result. A tail call goes to
the head of the queue and is exempt from the property (`tails`); the calls behind it
still have it ahead of them.

**Refinement.** With `IInv`, `Schedule` is `Serve` or `GetInLine` of the contract,
`FinishBatch` is `Resolve` together with the next request that is served, and
`Abort` of a request in line rejects that one, `CancelAll` and `UserCancels` reject the
whole line, or stutter; every other step stutters. `LedgerInv` gives the contract's final result for every call.

**Approval.** `ApprovalInv` needs only `TypeOK`, and so holds with processes in the
background. `AllowedBefore` carries the permission from where it is granted to where
it is used: a call that is scheduled, runs, records its result, or is asked again for
its sandbox is allowed by the policy, waived or approved with this tool and these
arguments; `MayAsk` is what is known until then, that a question has a policy or a hook
behind it. `Undecided` says that a call whose coroutine still works on it is not
scheduled, so that a new tool or new arguments meet no old permission. `InlineSeen`
says that inline content replaces what the user approved. Rules and approvals only grow
(`AllowedStays`); `SameKeeps` disposes of the calls a step is not about.

### 4.2 Message bus and policy updates

`IInv` adds to `TypeOK`: `ChainInv`, a queue no longer than the updates there were and
one write at most in each session; `WishedInv`, what is queued, read, written or in
the file was asked for and is not too wide; `AuthorInv`, a write that could read the
file has seen every rule of the file that its session wrote alone; `BusInv`, who
listens was published and a verdict "allow" is for no denied rule. `LostOnlyUnseen` rests
on `AuthorInv`: when a rename drops a rule, the write did not see it, so it could not read
the file or the rule has another author. `AuthorInv` in turn rests on one write at
a time, the promise chain `persistenceQueue`: with two, the second could have
read before the first was renamed. The lemmas about updates and those about
asks are separate (`FileInv`, `BusInv`), as the modules are.

### 4.3 Executions and shell commands

`IInv` is `TypeOK` and five facts about each execution: `Given`, the result promise fixes
which maps hold it; `Announced`, a loud execution that had moved is announced unless it
was cancelled; `Reported`, what the tool returned is what the promise was given;
`Remembered`, for each callback, how often it was called, and that an exit is remembered until
those who may ask for it have asked; `Held`, an entry outlives its process only while its log
is being closed. `AttachAt`, `SettleAt`,
`BackgroundAt`, `OnExitAt` and `ForgetAt` say once what each operation of the lifecycle does
to the execution at hand; `SameKeeps` gives the others. `ExitHeardOnce` needs `Remembered`:
the exit may come before the listener, and it is the remembered exit that calls it back.

For the refinement `OneExecution` turns a step at one execution into a step of the contract:
`AttachStarts`, `BackgroundMoves`, `SettleEnds`; the rest is `StutterOf`.

### 4.4 Requests to the model

`IInv` types what the chats share and each request (`RequestOK`: what each state
needs of its models, its question and both retry counters) and has `AskedIsShown`, which is
inductive with the types. `Becomes` is the shape of a step of one request with what it
does to the dialog; `BecomesKeeps` shows once that it keeps all that and
`CancelledStays`, so each action needs only that it has that shape. The action properties
rest on the lemmas about the choice of a model: `First` (a set of positions has a least
one, from the well-foundedness of <), `SelectedIsOfChain`, `ChainFromIsChain`,
`CandidatesAreModels`, and on `MarksStay` and `ResetGivesBack` for what marking and the
new turn do to the health.

### 4.5 Local agents

`IInv` adds to the types and the four properties: `RunInv`, outside a turn nothing
is left of its calls, and the run has a reason once it recovers or is over; `TimerInv`, a
deadline that has not fired is armed or paused and only time fires it; `CallInv`, outside
the recovery turn a cancelled call has the caller, the deadline or a refusal behind it.
`EndsForAReason` needs all three: an ABORTED with no signal and no time over must come from a
refusal, and that is known only from the calls. `InjectionsArrive` is proved apart (`HintInv`). `Told` is what was sent, what is noted in the
next message and what waits, in the order in which the model will read it; each injection is in it
exactly once, and one comes before an earlier one only as a completion before a hint. An arrival
is inserted in `Told` (`InjectTells`: behind everything, or in front of the hints that wait;
`Inserted` is the lemma about sequences); every other step moves injections from one part to
the next and keeps their order. What is noted in a message that is never sent stays noted, which
only a run that is over or recovers may leave so.

### 4.6 What stays with TLC

Checked on the instances of section 3 and not proved: the liveness properties
`AbortSettles`, `RequestsSettle`, `UpdatesSettle`, `AbortEndsCall`, `MainRequestEnds` and
`RunEnds`. They depend on weak fairness and so on `ENABLED`, which is out of this prover's
reach. The properties of the `find_*` runs are false.

## 5. What is not modelled, and the plan

Left for modelling, in this order:

1. `McpClientManager`: discovery, restart and the refresh of the context, with the
   overlaps listed under the hazards of `PROJECT.json`.
2. The loop of the Bare AI client in `core/client.ts`: iterations, tools run one after
   the other without a scheduler, the history that is saved only on success.
3. The lock of the memory extraction, as a protocol of processes over a file: it is created
   empty and written later, and a session that reads it in between takes it for stale.
4. Chat recording, the legacy scheduler against `SchedulerContract`, the A2A task, as
   far as the bounds allow.

Each new module gets its theorems like those of section 4. Of the present ones no safety
theorem is left; a weaker hypothesis is wanted in place of `BackgroundTools = {}`, one that
speaks of output after the result only, for the parts of `IInv` that do not need it.

Of the components that are modelled in part, these operations are left out: hooks
after the tool, progress updates and `dispose` (scheduler); how a rule matches, shell
commands are split and approval modes apply (policy engine); rendering and encoding of
terminal output, remote agents as executions; compression, routing, loop detection and
hooks of the client; registries and prompts of agents.

Parts that stay out: credentials, sandbox command lines, configuration, telemetry,
rendering, the SDK and the editor companion (I/O and data without a protocol), and
the contents of prompts and of model answers.

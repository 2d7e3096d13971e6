---------------------------- MODULE ShellExecution ----------------------------
(***************************************************************************)
(* Shell commands over the execution lifecycle: ShellExecutionService      *)
(* (packages/core/src/services/shellExecutionService.ts), the shell tool   *)
(* that waits for it (tools/shell.ts) and the user interface that moves a  *)
(* command to the background, watches it and kills it                      *)
(* (useExecutionLifecycle.ts, AppContainer.tsx).                           *)
(*                                                                         *)
(* A command runs in a pseudo-terminal, whose output is drained by a chain *)
(* of promises after the process has exited, or as a child process, whose  *)
(* exit is handled at once.                                                *)
(***************************************************************************)
EXTENDS ExecutionLifecycle, FiniteSets, Sequences

CONSTANTS
  Pty,          \* commands that run in a pseudo-terminal
  Detached,     \* calls with is_background = true
  MaxHistory    \* MAX_BACKGROUND_PROCESS_HISTORY_SIZE

ASSUME ShellAssumption ==
  /\ Pty \subseteq Execution
  /\ Detached \subseteq Execution
  /\ MaxHistory \in Nat \ {0}

VARIABLES
  tool,      \* where the shell tool stands with each command
  outcome,   \* what it reported to the model
  proc,      \* the process: exited (its output may be pending), gone (handled)
  aborted,   \* calls whose combined signal (cancellation, inactivity) is aborted
  dying,     \* processes that were sent a signal to kill them
  entry,     \* keys of activePtys and activeChildProcesses
  history,   \* keys of backgroundProcessHistory in the order of insertion
  status,    \* the status recorded there
  log,       \* the log stream of a command in the background
  watched,   \* the callbacks the user interface registered for each command's exit
  quitting,  \* ShellExecutionService.kill, which waits for the log stream
  killed     \* history: executions that were settled by a kill

shellVars == <<tool, outcome, proc, aborted, dying, entry, history, status, log,
               watched, quitting, killed>>
vars == <<lifecycleVars, shellVars>>

ToolStates == {"idle", "delay", "waiting", "returned"}

TypeOK ==
  /\ LifecycleTypeOK
  /\ tool \in [Execution -> ToolStates]
  /\ outcome \in [Execution -> {"none", "done", "cancelled", "background"}]
  /\ proc \in [Execution -> {"none", "running", "exited", "gone"}]
  /\ aborted \in SUBSET Execution
  /\ dying \in SUBSET Execution
  /\ entry \in SUBSET Execution
  /\ history \in Seq(Execution) /\ Len(history) <= MaxHistory
  /\ status \in [Execution -> {"none", "running", "exited"}]
  /\ log \in [Execution -> {"none", "open", "closing", "closed"}]
  /\ watched \in [Execution -> SUBSET Callback]
  /\ quitting \in [Execution -> {"no", "closing", "done"}]
  /\ killed \in SUBSET Execution

Init ==
  /\ LifecycleInit
  /\ tool = [e \in Execution |-> "idle"]
  /\ outcome = [e \in Execution |-> "none"]
  /\ proc = [e \in Execution |-> "none"]
  /\ aborted = {} /\ dying = {} /\ entry = {}
  /\ history = <<>>
  /\ status = [e \in Execution |-> "none"]
  /\ log = [e \in Execution |-> "none"]
  /\ watched = [e \in Execution |-> {}]
  /\ quitting = [e \in Execution |-> "no"]
  /\ killed = {}

-----------------------------------------------------------------------------
(***************************************************************************)
(* The shell tool                                                          *)
(***************************************************************************)

\* The shell tool spawns the command; it will wait for the result or, if the command is
\* to run in the background, for delay_ms.
StartCall(e) ==
  /\ tool[e] = "idle"
  /\ tool' = [tool EXCEPT ![e] = IF e \in Detached THEN "delay" ELSE "waiting"]
  /\ UNCHANGED <<outcome, aborted, dying, history, status, log, watched,
                 quitting, killed>>

\* executeWithPty.
SpawnInTerminal(e) ==
  /\ e \in Pty
  /\ StartCall(e)
  /\ Attach(e)
  /\ proc' = [proc EXCEPT ![e] = "running"]
  /\ entry' = entry \cup {e}

\* childProcessFallback, without a terminal or when it could not be opened (a failed
\* posix_spawnp).
SpawnChild(e) ==
  /\ e \notin Pty
  /\ StartCall(e)
  /\ Attach(e)
  /\ proc' = [proc EXCEPT ![e] = "running"]
  /\ entry' = entry \cup {e}

\* The command could not be started: there is no pid and nothing to follow.  The error
\* is the result, which a call with is_background reports as a move all the same.
SpawnFails(e) ==
  /\ tool[e] = "idle"
  /\ tool' = [tool EXCEPT ![e] = "returned"]
  /\ outcome' = [outcome EXCEPT ![e] = IF e \in Detached THEN "background" ELSE "done"]
  /\ UNCHANGED <<lifecycleVars, proc, aborted, dying, entry, history, status, log,
                 watched, quitting, killed>>

\* The user cancels the call or it was silent for too long: the process is killed,
\* gently first; one that has exited no longer listens.
Abort(e) ==
  /\ tool[e] \in {"delay", "waiting"}
  /\ e \notin aborted
  /\ aborted' = aborted \cup {e}
  /\ dying' = IF proc[e] = "running" THEN dying \cup {e} ELSE dying
  /\ UNCHANGED <<lifecycleVars, tool, outcome, proc, entry, history, status, log,
                 watched, quitting, killed>>

\* The oldest entry of a full history makes room, running or not.
Recorded(e) ==
  LET kept == IF Len(history) >= MaxHistory THEN Tail(history) ELSE history
  IN  IF \E i \in DOMAIN kept : kept[i] = e THEN kept ELSE Append(kept, e)

\* ShellExecutionService.background: record the process, open its log with what it
\* printed so far, give the result early.  While an earlier log is closing, what waits
\* for that forgets the new one too (cleanupLogStream).
MoveAway(e, registers) ==
  /\ history' = Recorded(e)
  /\ status' = [status EXCEPT ![e] = "running"]
  /\ log' = IF log[e] = "closing" THEN log ELSE [log EXCEPT ![e] = "open"]
  /\ Background(e, registers)

\* The user moves the call the interface shows as executing (backgroundCurrentExecution),
\* by ExecutionLifecycleService alone; the interface does not register it at once.
MoveByUser(e) ==
  /\ tool[e] \in {"delay", "waiting"}
  /\ Background(e, {})
  /\ UNCHANGED shellVars

\* The delay of a call with is_background is over: its timer moves the command,
\* whether or not it has ended in the meantime, and the interface registers one that
\* moves.  Either way the promise the tool goes on to await is settled.
DelayElapsed(e) ==
  /\ tool[e] = "delay"
  /\ tool' = [tool EXCEPT ![e] = "waiting"]
  /\ MoveAway(e, {"noticed"})
  /\ watched' = IF Movable(e) THEN [watched EXCEPT ![e] = @ \cup {"noticed"}] ELSE watched
  /\ UNCHANGED <<outcome, proc, aborted, dying, entry, quitting, killed>>

\* A slip: the tool passes on what the lifecycle calls the result.
ToolReturnsAsIs(e) ==
  /\ tool[e] = "waiting"
  /\ promise[e] \in {"completed", "aborted", "background"}
  /\ tool' = [tool EXCEPT ![e] = "returned"]
  /\ outcome' = [outcome EXCEPT ![e] = promise[e]]
  /\ UNCHANGED <<lifecycleVars, proc, aborted, dying, entry, history, status, log,
                 watched, quitting, killed>>

\* The tool has the result and reports it; a call with is_background that was not
\* cancelled is always reported as moved.
ToolReturns(e) ==
  /\ tool[e] = "waiting"
  /\ promise[e] \in {"completed", "aborted", "background"}
  /\ tool' = [tool EXCEPT ![e] = "returned"]
  /\ outcome' = [outcome EXCEPT ![e] =
       IF promise[e] = "aborted" THEN "cancelled"
       ELSE IF e \in Detached \/ promise[e] = "background" THEN "background"
       ELSE "done"]
  /\ UNCHANGED <<lifecycleVars, proc, aborted, dying, entry, history, status, log,
                 watched, quitting, killed>>

-----------------------------------------------------------------------------
(***************************************************************************)
(* The process                                                             *)
(***************************************************************************)

\* handleExit and finalize: record the exit, close the log (the entry goes once it is
\* closed), settle the execution.
Finish(e) ==
  /\ proc' = [proc EXCEPT ![e] = "gone"]
  /\ status' = IF \E i \in DOMAIN history : history[i] = e
                 THEN [status EXCEPT ![e] = "exited"] ELSE status
  /\ log' = IF log[e] = "open" THEN [log EXCEPT ![e] = "closing"] ELSE log
  /\ entry' = IF log[e] \in {"open", "closing"} THEN entry ELSE entry \ {e}
  /\ Settle(e, e \in aborted)

\* The exit of a child process, killed or not, is handled at once.
ChildExits(e) ==
  /\ e \notin Pty /\ proc[e] = "running"
  /\ Finish(e)
  /\ UNCHANGED <<tool, outcome, aborted, dying, history, watched, quitting, killed>>

\* After the exit of a process in a terminal its output is drained first, unless the
\* call is already cancelled.
TerminalExits(e) ==
  /\ e \in Pty /\ proc[e] = "running"
  /\ IF e \in aborted THEN Finish(e) ELSE
       /\ proc' = [proc EXCEPT ![e] = "exited"]
       /\ UNCHANGED <<lifecycleVars, entry, status, log>>
  /\ UNCHANGED <<tool, outcome, aborted, dying, history, watched, quitting, killed>>

\* A slip: only the drained output ends the wait.
DrainedOnly(e) ==
  /\ proc[e] = "exited" /\ e \notin aborted
  /\ Finish(e)
  /\ UNCHANGED <<tool, outcome, aborted, dying, history, watched, quitting, killed>>

\* The output is drained, or the call is cancelled meanwhile (Promise.race).
Drained(e) ==
  /\ proc[e] = "exited"
  /\ Finish(e)
  /\ UNCHANGED <<tool, outcome, aborted, dying, history, watched, quitting, killed>>

\* A slip: nothing is done once the stream has ended.
LogClosedOnly(e) ==
  /\ log[e] = "closing"
  /\ log' = [log EXCEPT ![e] = "closed"]
  /\ UNCHANGED <<lifecycleVars, tool, outcome, proc, aborted, dying, entry, history,
                 status, watched, quitting, killed>>

\* cleanupLogStream: the stream has ended.
LogClosed(e) ==
  /\ log[e] = "closing"
  /\ log' = [log EXCEPT ![e] = "closed"]
  /\ entry' = IF proc[e] = "gone" THEN entry \ {e} ELSE entry
  /\ UNCHANGED <<lifecycleVars, tool, outcome, proc, aborted, dying, history, status,
                 watched, quitting, killed>>

-----------------------------------------------------------------------------
(***************************************************************************)
(* The user interface                                                      *)
(***************************************************************************)

\* A command reported as moved, with its pid, is registered, again if it was noticed.
Watch(e) ==
  /\ outcome[e] = "background" /\ proc[e] # "none"
  /\ "reported" \notin watched[e]
  /\ watched' = [watched EXCEPT ![e] = @ \cup {"reported"}]
  /\ OnExit(e, "reported")
  /\ UNCHANGED <<tool, outcome, proc, aborted, dying, entry, history, status, log,
                 quitting, killed>>

\* The exit is forgotten five minutes later; the registration follows the call's
\* report within moments.
Forget(e) ==
  /\ tool[e] = "returned"
  /\ outcome[e] = "background" => "reported" \in watched[e]
  /\ ForgetExit(e)
  /\ UNCHANGED shellVars

\* ExecutionLifecycleService.kill: signal the process, settle as cancelled.  The entry
\* of a child process goes with it.
Kill(e) ==
  /\ dying' = IF e \in active /\ proc[e] = "running" THEN dying \cup {e} ELSE dying
  /\ killed' = IF e \in active THEN killed \cup {e} ELSE killed
  /\ Settle(e, TRUE)

\* The user dismisses a command that is shown as running (dismissBackgroundTask).
Dismiss(e) ==
  /\ listening[e] # {}
  /\ Kill(e)
  /\ entry' = IF e \in Pty THEN entry ELSE entry \ {e}
  /\ UNCHANGED <<tool, outcome, proc, aborted, history, status, log, watched, quitting>>

\* ShellExecutionService.kill of every registered command at the end of the session:
\* first its log is closed ...
Quit(e) ==
  /\ watched[e] # {} /\ quitting[e] = "no"
  /\ quitting' = [quitting EXCEPT ![e] = "closing"]
  /\ log' = IF log[e] = "open" THEN [log EXCEPT ![e] = "closing"] ELSE log
  /\ UNCHANGED <<lifecycleVars, tool, outcome, proc, aborted, dying, entry, history,
                 status, watched, killed>>

\* ... then it is killed and its terminal destroyed.
QuitKill(e) ==
  /\ quitting[e] = "closing" /\ log[e] \notin {"open", "closing"}
  /\ quitting' = [quitting EXCEPT ![e] = "done"]
  /\ Kill(e)
  /\ entry' = entry \ {e}
  /\ UNCHANGED <<tool, outcome, proc, aborted, history, status, log, watched>>

Next == \E e \in Execution :
  \/ SpawnInTerminal(e) \/ SpawnChild(e) \/ SpawnFails(e) \/ Abort(e) \/ MoveByUser(e)
  \/ DelayElapsed(e) \/ ToolReturns(e)
  \/ ChildExits(e) \/ TerminalExits(e) \/ Drained(e) \/ LogClosed(e)
  \/ Watch(e) \/ Forget(e) \/ Dismiss(e) \/ Quit(e) \/ QuitKill(e)

\* The tool's continuations and timers run; a process that was sent a signal exits
\* (SIGTERM is followed by SIGKILL); its exit is handled once the call is cancelled.
\* A process may run, and its output may keep the terminal busy, for ever.
Fairness == \A e \in Execution :
  /\ WF_vars(DelayElapsed(e)) /\ WF_vars(ToolReturns(e)) /\ WF_vars(LogClosed(e))
  /\ WF_vars(e \in dying /\ (ChildExits(e) \/ TerminalExits(e)))
  /\ WF_vars(e \in aborted /\ Drained(e))

Spec == Init /\ [][Next]_vars /\ Fairness

-----------------------------------------------------------------------------
(***************************************************************************)
(* Properties                                                              *)
(***************************************************************************)

\* The model hears of the end of a command either with the result of its call or, if
\* the call was reported as moved and its process then ended by itself, by an
\* injection; never both, never neither (settleExecution; the report in shell.ts).
EndIsReported == \A e \in Loud \ Detached :
  tool[e] = "returned" /\ e \notin active =>
    /\ injected[e] > 0 => outcome[e] = "background" /\ e \notin killed
    /\ outcome[e] = "background" /\ e \notin aborted \cup killed => injected[e] > 0

\* Every callback that the interface registers for the exit of a command is called
\* once, whether the exit came before the registration, after it, or by its own kill,
\* and also when it registers a second time (onExit, registerBackgroundTask).
ExitHeardOnce == \A e \in Execution, k \in Callback :
  heard[e][k] = IF k \in watched[e] \ listening[e] THEN 1 ELSE 0

\* When a process has gone and no log of it is being closed, the services have dropped
\* everything they held for it (handleExit, finalize, kill).
NothingHeld == \A e \in Execution :
  proc[e] = "gone" /\ log[e] # "closing" =>
    e \notin active \cup resolvers \cup entry /\ listening[e] = {}

\* The call whose signal is aborted returns, although the process ignores SIGTERM and
\* its output never drains (abortHandler, Promise.race in executeWithPty).
AbortEndsCall == \A e \in Execution : e \in aborted ~> tool[e] = "returned"
=============================================================================

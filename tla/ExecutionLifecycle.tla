-------------------------- MODULE ExecutionLifecycle --------------------------
(***************************************************************************)
(* ExecutionLifecycleService (packages/core/src/services/                  *)
(* executionLifecycleService.ts): the owner of every execution that may    *)
(* move to the background.  Its methods are synchronous, so each is one    *)
(* operator over the service's maps; the module that composes it with the  *)
(* processes says when they are called.                                    *)
(***************************************************************************)
EXTENDS Naturals

CONSTANTS
  Execution,   \* execution ids: the pid of a shell command
  Behavior     \* backgroundCompletionBehavior of each execution

ASSUME BehaviorAssumption ==
  Behavior \in [Execution -> {"inject", "notify", "silent"}]

\* Executions whose end, once in the background, becomes an injection.
Loud == {e \in Execution : Behavior[e] # "silent"}

\* The interface may register with onExit twice: when it notices a move
\* (onBackground) and when the report of the call names the process.
Callback == {"noticed", "reported"}

VARIABLES
  active,        \* keys of activeExecutions
  resolvers,     \* keys of activeResolvers: results not given yet
  backgrounded,  \* active executions with backgrounded = true
  promise,       \* how the result promise of each execution stands
  injected,      \* how often the end was added to the conversation
  listening,     \* the callbacks of onExit that wait for the exit of an execution
  heard,         \* how often each was called
  exitInfo       \* keys of exitedExecutionInfo

lifecycleVars == <<active, resolvers, backgrounded, promise, injected, listening,
                   heard, exitInfo>>

LifecycleTypeOK ==
  /\ active \in SUBSET Execution
  /\ resolvers \in SUBSET active
  /\ backgrounded \in SUBSET (active \ resolvers)
  /\ promise \in [Execution -> {"none", "pending", "background", "completed", "aborted"}]
  /\ injected \in [Execution -> Nat]
  /\ listening \in [Execution -> SUBSET Callback]
  /\ heard \in [Execution -> [Callback -> Nat]]
  /\ exitInfo \in SUBSET (Execution \ active)

LifecycleInit ==
  /\ active = {} /\ resolvers = {} /\ backgrounded = {}
  /\ promise = [e \in Execution |-> "none"]
  /\ injected = [e \in Execution |-> 0]
  /\ listening = [e \in Execution |-> {}]
  /\ heard = [e \in Execution |-> [k \in Callback |-> 0]]
  /\ exitInfo = {}

-----------------------------------------------------------------------------
\* attachExecution: an id that is in use is refused.
Attach(e) ==
  /\ e \notin active \cup resolvers
  /\ active' = active \cup {e}
  /\ resolvers' = resolvers \cup {e}
  /\ promise' = [promise EXCEPT ![e] = "pending"]
  /\ exitInfo' = exitInfo \ {e}
  /\ UNCHANGED <<backgrounded, injected, listening, heard>>

\* A slip: the end is announced whether or not the execution had moved.
AnnounceAlways(e, cancelled) ==
  injected' = IF e \in Loud /\ ~cancelled
                THEN [injected EXCEPT ![e] = @ + 1] ELSE injected

\* The end of an execution that moved to the background and was not cancelled is
\* added to the conversation, if its behaviour asks for it.
Announce(e, cancelled) ==
  injected' = IF e \in backgrounded \cap Loud /\ ~cancelled
                THEN [injected EXCEPT ![e] = @ + 1] ELSE injected

\* resolvePending: a result that was given is not given again.
ResolvePending(e, how) ==
  /\ promise' = IF e \in resolvers THEN [promise EXCEPT ![e] = how] ELSE promise
  /\ resolvers' = resolvers \ {e}

\* emitEvent of the exit event, and the listeners it makes superfluous.
EmitExit(e) ==
  /\ heard' = [heard EXCEPT ![e] =
       [k \in Callback |-> IF k \in listening[e] THEN @[k] + 1 ELSE @[k]]]
  /\ listening' = [listening EXCEPT ![e] = {}]

\* A slip: the entry of an execution that ended stays in the map.
KeepEntry(e) ==
  /\ exitInfo' = exitInfo \cup {e}
  /\ UNCHANGED <<active, backgrounded>>

\* The entry goes and the exit is remembered for a while (storeExitInfo).
DropEntry(e) ==
  /\ active' = active \ {e}
  /\ backgrounded' = backgrounded \ {e}
  /\ exitInfo' = exitInfo \cup {e}

\* settleExecution, behind completeWithResult, completeExecution and kill.
Settle(e, cancelled) ==
  IF e \notin active THEN UNCHANGED lifecycleVars ELSE
    /\ Announce(e, cancelled)
    /\ ResolvePending(e, IF cancelled THEN "aborted" ELSE "completed")
    /\ EmitExit(e)
    /\ DropEntry(e)

\* background finds something to move.
Movable(e) == e \in resolvers \cap active

\* background: give the result early and tell the listeners of onBackground, who may
\* register for the exit; an execution that ended or moved before is left alone.
Background(e, registers) ==
  IF ~Movable(e) THEN UNCHANGED lifecycleVars ELSE
    /\ ResolvePending(e, "background")
    /\ backgrounded' = backgrounded \cup {e}
    /\ listening' = [listening EXCEPT ![e] = @ \cup registers]
    /\ UNCHANGED <<active, injected, heard, exitInfo>>

\* A slip: an execution that is over is not looked up in the stored exits.
OnExitOfLivingOnly(e, k) ==
  /\ listening' = IF e \in active THEN [listening EXCEPT ![e] = @ \cup {k}] ELSE listening
  /\ UNCHANGED <<active, resolvers, backgrounded, promise, injected, heard, exitInfo>>

\* onExit: wait for the exit, or hear of it at once if it is still remembered.
OnExit(e, k) ==
  /\ IF e \in active
       THEN listening' = [listening EXCEPT ![e] = @ \cup {k}] /\ UNCHANGED heard
       ELSE /\ heard' = IF e \in exitInfo THEN [heard EXCEPT ![e][k] = @ + 1] ELSE heard
            /\ UNCHANGED listening
  /\ UNCHANGED <<active, resolvers, backgrounded, promise, injected, exitInfo>>

\* The timer of storeExitInfo.
ForgetExit(e) ==
  /\ e \in exitInfo
  /\ exitInfo' = exitInfo \ {e}
  /\ UNCHANGED <<active, resolvers, backgrounded, promise, injected, listening, heard>>

-----------------------------------------------------------------------------
\* Where an execution stands for ExecutionContract.
Phase(e) ==
  CASE e \in backgrounded          -> "moved"
    [] e \in active \ backgrounded -> "running"
    [] OTHER -> IF promise[e] = "none" THEN "none" ELSE "over"

Contract == INSTANCE ExecutionContract
  WITH phase <- [e \in Execution |-> Phase(e)], result <- promise, news <- injected

\* ExecutionLifecycleService gives each result once and announces each end at most
\* once, whatever the order of completion, backgrounding, kill and abort
\* (settleExecution, background and kill of executionLifecycleService.ts).
KeepsExecutionContract == Contract!Spec
=============================================================================

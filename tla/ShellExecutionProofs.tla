------------------------- MODULE ShellExecutionProofs -------------------------
(***************************************************************************)
(* Theorems about ShellExecution and the execution lifecycle under it, for *)
(* any set of commands in terminals or child processes, whatever their     *)
(* behaviour at the end and however long the history.                      *)
(***************************************************************************)
EXTENDS ShellExecution, SequenceTheorems, TLAPS

-----------------------------------------------------------------------------
(* The inductive invariant: what holds of each execution.                  *)

\* The result promise of an execution says where the execution stands.
Given(e) ==
  /\ tool[e] = "idle" => promise[e] = "none"
  /\ promise[e] = "none" => tool[e] \in {"idle", "returned"}
  /\ proc[e] = "none" <=> promise[e] = "none"
  /\ e \in resolvers <=> promise[e] = "pending"
  /\ e \in backgrounded <=> e \in active /\ promise[e] = "background"
  /\ e \in active => promise[e] \in {"pending", "background"}
  /\ proc[e] = "gone" => e \notin active

\* The end is announced when a loud execution that had moved was not cancelled.
Announced(e) ==
  /\ injected[e] \in {0, 1}
  /\ e \in active \/ promise[e] = "none" => injected[e] = 0 /\ e \notin killed
  /\ injected[e] = 1 => promise[e] = "background" /\ e \notin killed
  /\ promise[e] = "background" /\ e \notin active /\ e \in Loud =>
       injected[e] = 1 \/ e \in killed \cup aborted

\* The tool reports the result that was given.
Reported(e) ==
  /\ outcome[e] # "none" <=> tool[e] = "returned"
  /\ outcome[e] # "none" /\ proc[e] # "none" => promise[e] \in {"completed", "aborted", "background"}
  /\ outcome[e] = "background" /\ e \notin Detached => promise[e] = "background"
  /\ outcome[e] \in {"done", "cancelled"} => promise[e] # "background"

\* An exit is remembered until those who may ask for it have asked.
Remembered(e) ==
  /\ \A k \in Callback : heard[e][k] = IF k \in watched[e] \ listening[e] THEN 1 ELSE 0
  /\ listening[e] \subseteq watched[e]
  /\ listening[e] # {} => e \in active
  /\ "noticed" \in watched[e] => promise[e] = "background"
  /\ "reported" \in watched[e] => outcome[e] = "background"
  /\ proc[e] # "none" /\ e \notin active =>
       \/ e \in exitInfo
       \/ tool[e] = "returned" /\ (outcome[e] = "background" => "reported" \in watched[e])

\* The entry of a process that has gone waits for its log.
Held(e) == proc[e] = "gone" /\ e \in entry => log[e] = "closing"

Each(e) == Given(e) /\ Announced(e) /\ Reported(e) /\ Remembered(e) /\ Held(e)

IInv == TypeOK /\ \A e \in Execution : Each(e)

-----------------------------------------------------------------------------
(* What a step leaves alone.                                               *)

\* Nothing changes for execution d in the lifecycle service ...
SameLife(d) ==
  /\ d \in active' <=> d \in active
  /\ d \in resolvers' <=> d \in resolvers
  /\ d \in backgrounded' <=> d \in backgrounded
  /\ promise'[d] = promise[d] /\ injected'[d] = injected[d]
  /\ listening'[d] = listening[d]
  /\ heard'[d] = heard[d]
  /\ d \in exitInfo' <=> d \in exitInfo

\* ... or in the tool, the shell service and the interface.
SameShell(d) ==
  /\ tool'[d] = tool[d] /\ outcome'[d] = outcome[d] /\ proc'[d] = proc[d]
  /\ d \in aborted' <=> d \in aborted
  /\ d \in entry' <=> d \in entry
  /\ log'[d] = log[d]
  /\ watched'[d] = watched[d]
  /\ d \in killed' <=> d \in killed

LEMMA SameKeeps ==
  ASSUME NEW d, Each(d), SameLife(d), SameShell(d)
  PROVE  Each(d)'
<1> USE DEF SameLife, SameShell
<1>1. Given(d)' /\ Reported(d)' /\ Held(d)'
  BY DEF Each, Given, Reported, Held
<1>2. Announced(d)'
  BY DEF Each, Announced
<1>3. Remembered(d)'
  BY DEF Each, Remembered
<1> QED
  BY <1>1, <1>2, <1>3 DEF Each

-----------------------------------------------------------------------------
(* The methods of the lifecycle service, each seen from one execution.     *)

LEMMA AttachAt ==
  ASSUME LifecycleTypeOK, NEW e \in Execution, Attach(e)
  PROVE  /\ LifecycleTypeOK'
         /\ \A d \in Execution \ {e} : SameLife(d)
         /\ e \notin active /\ e \in active' /\ e \in resolvers' /\ e \notin backgrounded'
         /\ promise'[e] = "pending" /\ e \notin exitInfo'
         /\ injected'[e] = injected[e] /\ heard'[e] = heard[e]
         /\ listening'[e] = listening[e]
<1> USE DEF Attach, LifecycleTypeOK
<1>1. LifecycleTypeOK'
  OBVIOUS
<1>2. \A d \in Execution \ {e} : SameLife(d)
  BY DEF SameLife
<1> QED
  BY <1>1, <1>2

LEMMA SettleAt ==
  ASSUME LifecycleTypeOK, NEW e \in Execution, NEW cancelled \in BOOLEAN, Settle(e, cancelled)
  PROVE  /\ LifecycleTypeOK'
         /\ \A d \in Execution \ {e} : SameLife(d)
         /\ e \notin active => UNCHANGED lifecycleVars /\ SameLife(e)
         /\ e \in active =>
              /\ e \notin active' /\ e \notin resolvers' /\ e \notin backgrounded'
              /\ listening'[e] = {} /\ e \in exitInfo'
              /\ e \in resolvers => promise'[e] = IF cancelled THEN "aborted" ELSE "completed"
              /\ e \notin resolvers => promise'[e] = promise[e]
              /\ \A k \in Callback :
                   heard'[e][k] = IF k \in listening[e] THEN heard[e][k] + 1 ELSE heard[e][k]
              /\ injected'[e] = IF e \in backgrounded /\ e \in Loud /\ ~cancelled
                                  THEN injected[e] + 1 ELSE injected[e]
<1>1. CASE e \notin active
  <2>1. UNCHANGED lifecycleVars
    BY <1>1 DEF Settle
  <2>2. LifecycleTypeOK' /\ \A d \in Execution : SameLife(d)
    BY <2>1 DEF lifecycleVars, LifecycleTypeOK, SameLife
  <2> QED
    BY <1>1, <2>1, <2>2
<1>2. CASE e \in active
  <2> DEFINE how == IF cancelled THEN "aborted" ELSE "completed"
             called == [k \in Callback |->
                          IF k \in listening[e] THEN heard[e][k] + 1 ELSE heard[e][k]]
  <2>1. /\ injected' = IF e \in backgrounded \cap Loud /\ ~cancelled
                         THEN [injected EXCEPT ![e] = @ + 1] ELSE injected
        /\ promise' = IF e \in resolvers THEN [promise EXCEPT ![e] = how] ELSE promise
        /\ resolvers' = resolvers \ {e}
        /\ heard' = [heard EXCEPT ![e] = called]
        /\ listening' = [listening EXCEPT ![e] = {}]
        /\ active' = active \ {e} /\ backgrounded' = backgrounded \ {e}
        /\ exitInfo' = exitInfo \cup {e}
    BY <1>2 DEF Settle, Announce, ResolvePending, EmitExit, DropEntry
  <2>2. how \in {"aborted", "completed"} /\ called \in [Callback -> Nat]
    BY DEF LifecycleTypeOK
  <2>0. \A k \in Callback :
          called[k] = IF k \in listening[e] THEN heard[e][k] + 1 ELSE heard[e][k]
    OBVIOUS
  <2> HIDE DEF how, called
  <2> USE DEF LifecycleTypeOK
  <2>3. /\ active' \in SUBSET Execution /\ resolvers' \in SUBSET active'
        /\ backgrounded' \in SUBSET (active' \ resolvers')
        /\ listening' \in [Execution -> SUBSET Callback]
        /\ exitInfo' \in SUBSET (Execution \ active')
    BY <2>1
  <2>4. promise' \in [Execution -> {"none", "pending", "background", "completed", "aborted"}]
    BY <2>1, <2>2
  <2>5. injected' \in [Execution -> Nat] /\ heard' \in [Execution -> [Callback -> Nat]]
    BY <2>1, <2>2
  <2>6. LifecycleTypeOK'
    BY <2>3, <2>4, <2>5
  <2>7. \A d \in Execution \ {e} : SameLife(d)
    BY <2>1 DEF SameLife
  <2>8. /\ e \in resolvers => promise'[e] = how
        /\ e \notin resolvers => promise'[e] = promise[e]
        /\ heard'[e] = called /\ listening'[e] = {}
        /\ injected'[e] = IF e \in backgrounded /\ e \in Loud /\ ~cancelled
                            THEN injected[e] + 1 ELSE injected[e]
    BY <2>1
  <2> QED
    BY <1>2, <2>0, <2>1, <2>6, <2>7, <2>8 DEF how
<1> QED
  BY <1>1, <1>2

LEMMA BackgroundAt ==
  ASSUME LifecycleTypeOK, NEW e \in Execution, NEW registers \in SUBSET Callback,
         Background(e, registers)
  PROVE  /\ LifecycleTypeOK'
         /\ \A d \in Execution \ {e} : SameLife(d)
         /\ e \notin resolvers => UNCHANGED lifecycleVars /\ SameLife(e)
         /\ e \in resolvers =>
              /\ e \in active /\ e \in active' /\ e \notin resolvers' /\ e \in backgrounded'
              /\ promise'[e] = "background"
              /\ injected'[e] = injected[e] /\ heard'[e] = heard[e]
              /\ listening'[e] = listening[e] \cup registers
              /\ e \in exitInfo' <=> e \in exitInfo
<1>1. CASE e \notin resolvers
  <2>1. UNCHANGED lifecycleVars
    BY <1>1 DEF Background, Movable
  <2>2. LifecycleTypeOK' /\ \A d \in Execution : SameLife(d)
    BY <2>1 DEF lifecycleVars, LifecycleTypeOK, SameLife
  <2> QED
    BY <1>1, <2>1, <2>2
<1>2. CASE e \in resolvers
  <2>1. /\ e \in active
        /\ promise' = [promise EXCEPT ![e] = "background"]
        /\ resolvers' = resolvers \ {e} /\ backgrounded' = backgrounded \cup {e}
        /\ listening' = [listening EXCEPT ![e] = @ \cup registers]
        /\ UNCHANGED <<active, injected, heard, exitInfo>>
    BY <1>2 DEF LifecycleTypeOK, Background, Movable, ResolvePending
  <2>2. LifecycleTypeOK'
    BY <2>1 DEF LifecycleTypeOK
  <2>3. \A d \in Execution \ {e} : SameLife(d)
    BY <2>1 DEF SameLife, LifecycleTypeOK
  <2> QED
    BY <1>2, <2>1, <2>2, <2>3 DEF LifecycleTypeOK
<1> QED
  BY <1>1, <1>2

LEMMA OnExitAt ==
  ASSUME LifecycleTypeOK, NEW e \in Execution, NEW k \in Callback, OnExit(e, k)
  PROVE  /\ LifecycleTypeOK'
         /\ UNCHANGED <<active, resolvers, backgrounded, promise, injected, exitInfo>>
         /\ \A d \in Execution \ {e} : SameLife(d)
         /\ e \in active => listening'[e] = listening[e] \cup {k} /\ heard'[e] = heard[e]
         /\ e \notin active =>
              /\ listening'[e] = listening[e]
              /\ \A j \in Callback :
                   heard'[e][j] = IF j = k /\ e \in exitInfo THEN heard[e][j] + 1 ELSE heard[e][j]
<1>1. UNCHANGED <<active, resolvers, backgrounded, promise, injected, exitInfo>>
  BY DEF OnExit
<1>2. CASE e \in active
  <2>1. listening' = [listening EXCEPT ![e] = @ \cup {k}] /\ heard' = heard
    BY <1>2 DEF OnExit
  <2> QED
    BY <1>1, <1>2, <2>1 DEF LifecycleTypeOK, SameLife
<1>3. CASE e \notin active
  <2>1. /\ heard' = IF e \in exitInfo THEN [heard EXCEPT ![e][k] = @ + 1] ELSE heard
        /\ listening' = listening
    BY <1>3 DEF OnExit
  <2>2. /\ heard' \in [Execution -> [Callback -> Nat]]
        /\ \A j \in Callback :
             heard'[e][j] = IF j = k /\ e \in exitInfo THEN heard[e][j] + 1 ELSE heard[e][j]
        /\ \A d \in Execution \ {e} : heard'[d] = heard[d]
    BY <2>1 DEF LifecycleTypeOK
  <2> QED
    BY <1>1, <1>3, <2>1, <2>2 DEF LifecycleTypeOK, SameLife
<1> QED
  BY <1>2, <1>3

LEMMA ForgetAt ==
  ASSUME LifecycleTypeOK, NEW e \in Execution, ForgetExit(e)
  PROVE  /\ LifecycleTypeOK'
         /\ UNCHANGED <<active, resolvers, backgrounded, promise, injected, listening, heard>>
         /\ \A d \in Execution \ {e} : SameLife(d)
  BY DEF ForgetExit, LifecycleTypeOK, SameLife

-----------------------------------------------------------------------------
(* The steps of the shell tool, of the process and of the interface.       *)

\* What a step of execution e does to the invariant.
Kept(e) == TypeOK' /\ Each(e)' /\ \A d \in Execution \ {e} : SameLife(d) /\ SameShell(d)

ShellTypeOK ==
  /\ tool \in [Execution -> ToolStates]
  /\ outcome \in [Execution -> {"none", "done", "cancelled", "background"}]
  /\ proc \in [Execution -> {"none", "running", "exited", "gone"}]
  /\ aborted \in SUBSET Execution /\ dying \in SUBSET Execution /\ entry \in SUBSET Execution
  /\ status \in [Execution -> {"none", "running", "exited"}]
  /\ log \in [Execution -> {"none", "open", "closing", "closed"}]
  /\ watched \in [Execution -> SUBSET Callback]
  /\ quitting \in [Execution -> {"no", "closing", "done"}]
  /\ killed \in SUBSET Execution
HistoryTypeOK == history \in Seq(Execution) /\ Len(history) <= MaxHistory

LEMMA TypeParts ==
  /\ TypeOK <=> LifecycleTypeOK /\ ShellTypeOK /\ HistoryTypeOK
  /\ TypeOK' <=> LifecycleTypeOK' /\ ShellTypeOK' /\ HistoryTypeOK'
  BY DEF TypeOK, ShellTypeOK, HistoryTypeOK

LEMMA LifeUntouched ==
  ASSUME LifecycleTypeOK, UNCHANGED lifecycleVars
  PROVE  LifecycleTypeOK' /\ \A d : SameLife(d)
  BY DEF lifecycleVars, LifecycleTypeOK, SameLife

LEMMA SpawnKeeps ==
  ASSUME TypeOK, NEW e \in Execution, Each(e), SpawnInTerminal(e) \/ SpawnChild(e)
  PROVE  Kept(e)
<1>1. /\ tool[e] = "idle"
      /\ tool' = [tool EXCEPT ![e] = IF e \in Detached THEN "delay" ELSE "waiting"]
      /\ proc' = [proc EXCEPT ![e] = "running"] /\ entry' = entry \cup {e}
      /\ UNCHANGED <<outcome, aborted, dying, history, status, log, watched, quitting, killed>>
      /\ Attach(e)
  BY DEF SpawnInTerminal, SpawnChild, StartCall
<1>2. LifecycleTypeOK /\ ShellTypeOK /\ HistoryTypeOK
  BY TypeParts
<1>3. ShellTypeOK' /\ HistoryTypeOK'
  BY <1>1, <1>2 DEF ShellTypeOK, HistoryTypeOK, ToolStates
<1>4. TypeOK'
  BY <1>1, <1>2, <1>3, AttachAt, TypeParts
<1>5. \A d \in Execution \ {e} : SameLife(d) /\ SameShell(d)
  BY <1>1, <1>2, AttachAt DEF SameShell, ShellTypeOK
<1>6. /\ tool'[e] \in {"delay", "waiting"} /\ proc'[e] = "running"
      /\ outcome'[e] = outcome[e] /\ watched' = watched /\ killed' = killed
  BY <1>1, <1>2 DEF ShellTypeOK
<1>7. Each(e)'
  BY <1>1, <1>2, <1>6, AttachAt
     DEF Each, Given, Announced, Reported, Remembered, Held
<1> QED
  BY <1>4, <1>5, <1>7 DEF Kept

LEMMA FailKeeps ==
  ASSUME TypeOK, NEW e \in Execution, Each(e), SpawnFails(e)
  PROVE  Kept(e)
<1> DEFINE report == IF e \in Detached THEN "background" ELSE "done"
<1>1. /\ tool[e] = "idle"
      /\ tool' = [tool EXCEPT ![e] = "returned"]
      /\ outcome' = [outcome EXCEPT ![e] = report]
      /\ UNCHANGED lifecycleVars
      /\ UNCHANGED <<proc, aborted, dying, entry, history, status, log, watched, quitting, killed>>
  BY DEF SpawnFails
<1>2. LifecycleTypeOK /\ ShellTypeOK /\ HistoryTypeOK
  BY TypeParts
<1>3. TypeOK'
  <2>1. ShellTypeOK' /\ HistoryTypeOK'
    BY <1>1, <1>2 DEF ShellTypeOK, HistoryTypeOK, ToolStates
  <2> QED
    BY <1>1, <1>2, <2>1, TypeParts, LifeUntouched
<1>4. \A d \in Execution \ {e} : SameLife(d) /\ SameShell(d)
  BY <1>1, <1>2, LifeUntouched DEF SameShell, ShellTypeOK
<1>5. tool'[e] = "returned" /\ outcome'[e] = report
  BY <1>1, <1>2 DEF ShellTypeOK
<1>6. Each(e)'
  BY <1>1, <1>5 DEF lifecycleVars, Each, Given, Announced, Reported, Remembered, Held
<1> QED
  BY <1>3, <1>4, <1>6 DEF Kept

LEMMA AbortKeeps ==
  ASSUME TypeOK, NEW e \in Execution, Each(e), Abort(e)
  PROVE  Kept(e)
<1>1. /\ aborted' = aborted \cup {e}
      /\ dying' = IF proc[e] = "running" THEN dying \cup {e} ELSE dying
      /\ UNCHANGED lifecycleVars
      /\ UNCHANGED <<tool, outcome, proc, entry, history, status, log, watched, quitting, killed>>
  BY DEF Abort
<1>2. LifecycleTypeOK /\ ShellTypeOK /\ HistoryTypeOK
  BY TypeParts
<1>3. TypeOK'
  BY <1>1, <1>2, TypeParts, LifeUntouched DEF ShellTypeOK, HistoryTypeOK
<1>4. \A d \in Execution \ {e} : SameLife(d) /\ SameShell(d)
  BY <1>1, <1>2, LifeUntouched DEF SameShell
<1>5. Each(e)'
  BY <1>1 DEF lifecycleVars, Each, Given, Announced, Reported, Remembered, Held
<1> QED
  BY <1>3, <1>4, <1>5 DEF Kept

\* The history takes the execution in and stays within its size.
LEMMA RecordedIsHistory ==
  ASSUME HistoryTypeOK, NEW e \in Execution
  PROVE  Recorded(e) \in Seq(Execution) /\ Len(Recorded(e)) <= MaxHistory
<1> DEFINE kept == IF Len(history) >= MaxHistory THEN Tail(history) ELSE history
<1>1. MaxHistory \in Nat \ {0} /\ Len(history) \in Nat /\ history \in Seq(Execution)
  BY ShellAssumption, LenProperties DEF HistoryTypeOK
<1>2. kept \in Seq(Execution) /\ Len(kept) < MaxHistory
  <2>1. CASE Len(history) >= MaxHistory
    <3>1. history # <<>> /\ Len(history) = MaxHistory
      BY <1>1, <2>1, EmptySeq DEF HistoryTypeOK
    <3> QED
      BY <1>1, <2>1, <3>1, HeadTailProperties
  <2>2. CASE ~(Len(history) >= MaxHistory)
    BY <1>1, <2>2
  <2> QED
    BY <2>1, <2>2
<1> HIDE DEF kept
<1>3. Append(kept, e) \in Seq(Execution) /\ Len(Append(kept, e)) = Len(kept) + 1
  BY <1>2, AppendProperties
<1>4. Len(kept) \in Nat
  BY <1>2, LenProperties
<1>5. Recorded(e) \in {kept, Append(kept, e)}
  BY DEF Recorded, kept
<1> QED
  BY <1>1, <1>2, <1>3, <1>4, <1>5

\* The command moves, if its result was not given yet.
LEMMA MoveKeeps ==
  ASSUME TypeOK, NEW e \in Execution, Each(e), MoveByUser(e) \/ DelayElapsed(e)
  PROVE  Kept(e)
<1>1. /\ tool[e] \in {"delay", "waiting"}
      /\ tool' = tool \/ tool' = [tool EXCEPT ![e] = "waiting"]
      /\ history' \in {history, Recorded(e)}
      /\ status' \in {status, [status EXCEPT ![e] = "running"]}
      /\ log' = log \/ (log[e] # "closing" /\ log' = [log EXCEPT ![e] = "open"])
      /\ UNCHANGED <<outcome, proc, aborted, dying, entry, quitting, killed>>
  BY DEF MoveByUser, DelayElapsed, MoveAway, shellVars
<1>2. PICK registers \in {{}, {"noticed"}} :
        /\ Background(e, registers)
        /\ watched' = IF Movable(e) THEN [watched EXCEPT ![e] = @ \cup registers] ELSE watched
  <2>1. CASE MoveByUser(e)
    <3>1. Background(e, {}) /\ watched' = watched
      BY <2>1 DEF MoveByUser, shellVars
    <3>2. watched' = IF Movable(e) THEN [watched EXCEPT ![e] = @ \cup {}] ELSE watched
      BY <3>1 DEF TypeOK
    <3> QED
      BY <3>1, <3>2
  <2>2. CASE DelayElapsed(e)
    BY <2>2 DEF DelayElapsed, MoveAway
  <2> QED
    BY <1>1, <2>1, <2>2
<1>3. LifecycleTypeOK /\ ShellTypeOK /\ HistoryTypeOK /\ registers \in SUBSET Callback
  BY TypeParts DEF Callback
<1>4. ShellTypeOK'
  BY <1>1, <1>2, <1>3 DEF ShellTypeOK, ToolStates
<1>5. HistoryTypeOK'
  BY <1>1, <1>3, RecordedIsHistory DEF HistoryTypeOK
<1>6. TypeOK'
  BY <1>2, <1>3, <1>4, <1>5, BackgroundAt, TypeParts
<1>7. \A d \in Execution \ {e} : SameLife(d) /\ SameShell(d)
  BY <1>1, <1>2, <1>3, BackgroundAt DEF SameShell, ShellTypeOK
<1>8. /\ tool'[e] \in {"delay", "waiting"}
      /\ log[e] = "closing" => log'[e] = "closing"
  BY <1>1, <1>3 DEF ShellTypeOK
<1>9. CASE e \notin resolvers
  <2>1. SameLife(e) /\ watched' = watched
    BY <1>2, <1>3, <1>9, BackgroundAt DEF Movable
  <2> QED
    BY <1>1, <1>6, <1>7, <1>8, <2>1
       DEF Kept, SameLife, Each, Given, Announced, Reported, Remembered, Held
<1>10. CASE e \in resolvers
  <2>1. /\ e \in active /\ e \in active' /\ e \notin resolvers' /\ e \in backgrounded'
        /\ promise'[e] = "background"
        /\ injected'[e] = injected[e] /\ heard'[e] = heard[e]
        /\ listening'[e] = listening[e] \cup registers
    BY <1>2, <1>3, <1>10, BackgroundAt
  <2>2. watched'[e] = watched[e] \cup registers
    BY <1>2, <1>3, <1>10, <2>1 DEF Movable, ShellTypeOK
  <2>3. Given(e)' /\ Announced(e)' /\ Reported(e)' /\ Held(e)'
    BY <1>1, <1>8, <1>10, <2>1 DEF Each, Given, Announced, Reported, Held
  <2>4. Remembered(e)'
    <3>1. "noticed" \notin watched[e] /\ heard[e]["noticed"] = 0
      BY <1>10 DEF Each, Given, Remembered, Callback
    <3>2. \A k \in Callback :
            heard'[e][k] = IF k \in watched'[e] \ listening'[e] THEN 1 ELSE 0
      BY <2>1, <2>2, <3>1 DEF Each, Remembered
    <3>3. "reported" \in watched'[e] => outcome'[e] = "background"
      BY <1>1, <2>2 DEF Each, Remembered
    <3> QED
      BY <2>1, <2>2, <3>2, <3>3 DEF Each, Remembered
  <2> QED
    BY <1>6, <1>7, <2>3, <2>4 DEF Kept, Each
<1> QED
  BY <1>9, <1>10

LEMMA ReturnKeeps ==
  ASSUME TypeOK, NEW e \in Execution, Each(e), ToolReturns(e)
  PROVE  Kept(e)
<1> DEFINE report == IF promise[e] = "aborted" THEN "cancelled"
                     ELSE IF e \in Detached \/ promise[e] = "background" THEN "background"
                     ELSE "done"
<1>1. /\ tool[e] = "waiting" /\ promise[e] \in {"completed", "aborted", "background"}
      /\ tool' = [tool EXCEPT ![e] = "returned"]
      /\ outcome' = [outcome EXCEPT ![e] = report]
      /\ UNCHANGED lifecycleVars
      /\ UNCHANGED <<proc, aborted, dying, entry, history, status, log, watched, quitting, killed>>
  BY DEF ToolReturns
<1>2. LifecycleTypeOK /\ ShellTypeOK /\ HistoryTypeOK
  BY TypeParts
<1>3. TypeOK'
  <2>1. ShellTypeOK' /\ HistoryTypeOK'
    BY <1>1, <1>2 DEF ShellTypeOK, HistoryTypeOK, ToolStates
  <2> QED
    BY <1>1, <1>2, <2>1, TypeParts, LifeUntouched
<1>4. \A d \in Execution \ {e} : SameLife(d) /\ SameShell(d)
  BY <1>1, <1>2, LifeUntouched DEF SameShell, ShellTypeOK
<1>5. tool'[e] = "returned" /\ outcome'[e] = report
  BY <1>1, <1>2 DEF ShellTypeOK
<1>6. Each(e)'
  BY <1>1, <1>5 DEF lifecycleVars, Each, Given, Announced, Reported, Remembered, Held
<1> QED
  BY <1>3, <1>4, <1>6 DEF Kept

\* The exit of a process is handled: unless it was killed before, the execution is settled.
LEMMA FinishKeeps ==
  ASSUME TypeOK, NEW e \in Execution, Each(e), proc[e] \in {"running", "exited"}, Finish(e),
         UNCHANGED <<tool, outcome, aborted, dying, history, watched, quitting, killed>>
  PROVE  Kept(e)
<1> DEFINE how == e \in aborted
<1>1. /\ proc' = [proc EXCEPT ![e] = "gone"]
      /\ status' = [status EXCEPT ![e] = "exited"] \/ status' = status
      /\ log' = IF log[e] = "open" THEN [log EXCEPT ![e] = "closing"] ELSE log
      /\ entry' = IF log[e] \in {"open", "closing"} THEN entry ELSE entry \ {e}
      /\ Settle(e, how)
  BY DEF Finish
<1>2. LifecycleTypeOK /\ ShellTypeOK /\ HistoryTypeOK /\ how \in BOOLEAN
  BY TypeParts
<1>3. e \in aborted <=> how
  OBVIOUS
<1> HIDE DEF how
<1>4. ShellTypeOK' /\ HistoryTypeOK'
  BY <1>1, <1>2 DEF ShellTypeOK, HistoryTypeOK
<1>5. TypeOK'
  BY <1>1, <1>2, <1>4, SettleAt, TypeParts
<1>6. \A d \in Execution \ {e} : SameLife(d) /\ SameShell(d)
  BY <1>1, <1>2, SettleAt DEF SameShell, ShellTypeOK
<1>7. /\ proc'[e] = "gone"
      /\ log'[e] = IF log[e] = "open" THEN "closing" ELSE log[e]
      /\ e \in entry' => log'[e] = "closing"
  BY <1>1, <1>2 DEF ShellTypeOK
<1>8. CASE e \notin active
  <2>1. SameLife(e)
    BY <1>1, <1>2, <1>8, SettleAt
  <2> QED
    BY <1>5, <1>6, <1>7, <1>8, <2>1
       DEF Kept, SameLife, Each, Given, Announced, Reported, Remembered, Held
<1>9. CASE e \in active
  <2>1. /\ e \notin active' /\ e \notin resolvers' /\ e \notin backgrounded'
        /\ listening'[e] = {} /\ e \in exitInfo'
        /\ e \in resolvers => promise'[e] = IF how THEN "aborted" ELSE "completed"
        /\ e \notin resolvers => promise'[e] = promise[e]
        /\ \A k \in Callback :
             heard'[e][k] = IF k \in listening[e] THEN heard[e][k] + 1 ELSE heard[e][k]
        /\ injected'[e] = IF e \in backgrounded /\ e \in Loud /\ ~how
                            THEN injected[e] + 1 ELSE injected[e]
    BY <1>1, <1>2, <1>9, SettleAt
  <2>2. Given(e)' /\ Reported(e)' /\ Held(e)'
    BY <1>7, <1>9, <2>1 DEF Each, Given, Reported, Held
  <2>3. Announced(e)'
    BY <1>3, <1>9, <2>1 DEF Each, Given, Announced
  <2>4. Remembered(e)'
    BY <1>9, <2>1 DEF Each, Given, Remembered
  <2> QED
    BY <1>5, <1>6, <2>2, <2>3, <2>4 DEF Kept, Each
<1> QED
  BY <1>8, <1>9

LEMMA ExitKeeps ==
  ASSUME TypeOK, NEW e \in Execution, Each(e), ChildExits(e) \/ TerminalExits(e) \/ Drained(e)
  PROVE  Kept(e)
<1>1. /\ proc[e] \in {"running", "exited"}
      /\ UNCHANGED <<tool, outcome, aborted, dying, history, watched, quitting, killed>>
  BY DEF ChildExits, TerminalExits, Drained
<1>2. CASE Finish(e)
  BY <1>1, <1>2, FinishKeeps
<1>3. CASE proc' = [proc EXCEPT ![e] = "exited"] /\ UNCHANGED <<lifecycleVars, entry, status, log>>
  <2>1. LifecycleTypeOK /\ ShellTypeOK /\ HistoryTypeOK
    BY TypeParts
  <2>2. TypeOK'
    <3>1. ShellTypeOK' /\ HistoryTypeOK'
      BY <1>1, <1>3, <2>1 DEF ShellTypeOK, HistoryTypeOK
    <3> QED
      BY <1>3, <2>1, <3>1, TypeParts, LifeUntouched
  <2>3. \A d \in Execution \ {e} : SameLife(d) /\ SameShell(d)
    BY <1>1, <1>3, <2>1, LifeUntouched DEF SameShell, ShellTypeOK
  <2>4. proc'[e] = "exited"
    BY <1>3, <2>1 DEF ShellTypeOK
  <2>5. Each(e)'
    BY <1>1, <1>3, <2>4
       DEF lifecycleVars, Each, Given, Announced, Reported, Remembered, Held
  <2> QED
    BY <2>2, <2>3, <2>5 DEF Kept
<1> QED
  BY <1>2, <1>3 DEF ChildExits, TerminalExits, Drained

LEMMA LogKeeps ==
  ASSUME TypeOK, NEW e \in Execution, Each(e), LogClosed(e) \/ Quit(e)
  PROVE  Kept(e)
<1>1. /\ UNCHANGED lifecycleVars
      /\ UNCHANGED <<tool, outcome, proc, aborted, dying, history, status, watched, killed>>
  BY DEF LogClosed, Quit
<1>2. \/ /\ log' = [log EXCEPT ![e] = "closed"] /\ UNCHANGED quitting
         /\ entry' = IF proc[e] = "gone" THEN entry \ {e} ELSE entry
      \/ /\ log' = IF log[e] = "open" THEN [log EXCEPT ![e] = "closing"] ELSE log
         /\ quitting' = [quitting EXCEPT ![e] = "closing"] /\ UNCHANGED entry
  BY DEF LogClosed, Quit
<1>3. LifecycleTypeOK /\ ShellTypeOK /\ HistoryTypeOK
  BY TypeParts
<1>4. TypeOK'
  <2>1. ShellTypeOK' /\ HistoryTypeOK'
    BY <1>1, <1>2, <1>3 DEF ShellTypeOK, HistoryTypeOK
  <2> QED
    BY <1>1, <1>3, <2>1, TypeParts, LifeUntouched
<1>5. \A d \in Execution \ {e} : SameLife(d) /\ SameShell(d)
  BY <1>1, <1>2, <1>3, LifeUntouched DEF SameShell, ShellTypeOK
<1>6. Held(e)'
  BY <1>1, <1>2, <1>3 DEF Each, Held, ShellTypeOK
<1>7. Given(e)' /\ Announced(e)' /\ Reported(e)' /\ Remembered(e)'
  BY <1>1 DEF lifecycleVars, Each, Given, Announced, Reported, Remembered
<1> QED
  BY <1>4, <1>5, <1>6, <1>7 DEF Kept, Each

LEMMA WatchKeeps ==
  ASSUME TypeOK, NEW e \in Execution, Each(e), Watch(e) \/ Forget(e)
  PROVE  Kept(e)
<1>1. LifecycleTypeOK /\ ShellTypeOK /\ HistoryTypeOK
  BY TypeParts
<1>2. CASE Watch(e)
  <2>1. /\ outcome[e] = "background" /\ proc[e] # "none"
        /\ "reported" \notin watched[e] /\ "reported" \in Callback
        /\ watched' = [watched EXCEPT ![e] = @ \cup {"reported"}]
        /\ OnExit(e, "reported")
        /\ UNCHANGED <<tool, outcome, proc, aborted, dying, entry, history, status, log,
                       quitting, killed>>
    BY <1>2 DEF Watch, Callback
  <2>2. ShellTypeOK' /\ HistoryTypeOK'
    BY <1>1, <2>1 DEF ShellTypeOK, HistoryTypeOK
  <2>3. TypeOK'
    BY <1>1, <2>1, <2>2, OnExitAt, TypeParts
  <2>4. \A d \in Execution \ {e} : SameLife(d) /\ SameShell(d)
    BY <1>1, <2>1, OnExitAt DEF SameShell, ShellTypeOK
  <2>5. UNCHANGED <<active, resolvers, backgrounded, promise, injected, exitInfo>>
    BY <1>1, <2>1, OnExitAt
  <2>6. Given(e)' /\ Announced(e)' /\ Reported(e)' /\ Held(e)'
    BY <2>1, <2>5 DEF Each, Given, Announced, Reported, Held
  <2>7. Remembered(e)'
    <3>1. /\ "reported" \notin listening[e] /\ heard[e]["reported"] = 0
          /\ e \notin active => e \in exitInfo
      BY <2>1 DEF Each, Remembered
    <3>2. watched'[e] = watched[e] \cup {"reported"}
      BY <1>1, <2>1 DEF ShellTypeOK
    <3>3. CASE e \in active
      <4>1. listening'[e] = listening[e] \cup {"reported"} /\ heard'[e] = heard[e]
        BY <1>1, <2>1, <3>3, OnExitAt
      <4> QED
        BY <2>1, <2>5, <3>1, <3>2, <3>3, <4>1 DEF Each, Remembered
    <3>4. CASE e \notin active
      <4>1. /\ listening'[e] = listening[e]
            /\ \A j \in Callback :
                 heard'[e][j] = IF j = "reported" THEN heard[e][j] + 1 ELSE heard[e][j]
        BY <1>1, <2>1, <3>1, <3>4, OnExitAt
      <4>2. \A k \in Callback :
              heard'[e][k] = IF k \in watched'[e] \ listening'[e] THEN 1 ELSE 0
        BY <3>1, <3>2, <4>1 DEF Each, Remembered
      <4> QED
        BY <2>1, <2>5, <3>1, <3>2, <3>4, <4>1, <4>2 DEF Each, Remembered
    <3> QED
      BY <3>3, <3>4
  <2> QED
    BY <2>3, <2>4, <2>6, <2>7 DEF Kept, Each
<1>3. CASE Forget(e)
  <2>1. /\ tool[e] = "returned" /\ (outcome[e] = "background" => "reported" \in watched[e])
        /\ ForgetExit(e) /\ UNCHANGED shellVars
    BY <1>3 DEF Forget
  <2>2. UNCHANGED <<tool, outcome, proc, aborted, dying, entry, history, status, log, watched,
                    quitting, killed>>
    BY <2>1 DEF shellVars
  <2>3. ShellTypeOK' /\ HistoryTypeOK'
    BY <1>1, <2>2 DEF ShellTypeOK, HistoryTypeOK
  <2>4. TypeOK'
    BY <1>1, <2>1, <2>3, ForgetAt, TypeParts
  <2>5. \A d \in Execution \ {e} : SameLife(d) /\ SameShell(d)
    BY <1>1, <2>1, <2>2, ForgetAt DEF SameShell
  <2>6. UNCHANGED <<active, resolvers, backgrounded, promise, injected, listening, heard>>
    BY <1>1, <2>1, ForgetAt
  <2>7. Each(e)'
    BY <2>1, <2>2, <2>6 DEF Each, Given, Announced, Reported, Remembered, Held
  <2> QED
    BY <2>4, <2>5, <2>7 DEF Kept
<1> QED
  BY <1>2, <1>3

\* A kill settles as cancelled, and leaves nothing to announce.
LEMMA KillKeeps ==
  ASSUME TypeOK, NEW e \in Execution, Each(e), Dismiss(e) \/ QuitKill(e)
  PROVE  Kept(e)
<1>1. /\ Settle(e, TRUE)
      /\ killed' = IF e \in active THEN killed \cup {e} ELSE killed
      /\ dying' \in {dying, dying \cup {e}}
      /\ entry' \in {entry, entry \ {e}}
      /\ quitting' = quitting \/ quitting' = [quitting EXCEPT ![e] = "done"]
      /\ UNCHANGED <<tool, outcome, proc, aborted, history, status, log, watched>>
  BY DEF Dismiss, QuitKill, Kill
<1>2. LifecycleTypeOK /\ ShellTypeOK /\ HistoryTypeOK
  BY TypeParts
<1>3. ShellTypeOK' /\ HistoryTypeOK'
  BY <1>1, <1>2 DEF ShellTypeOK, HistoryTypeOK
<1>4. TypeOK'
  BY <1>1, <1>2, <1>3, SettleAt, TypeParts
<1>5. \A d \in Execution \ {e} : SameLife(d) /\ SameShell(d)
  BY <1>1, <1>2, SettleAt DEF SameShell
<1>6. CASE e \notin active
  <2>1. SameLife(e)
    BY <1>1, <1>2, <1>6, SettleAt
  <2> QED
    BY <1>1, <1>4, <1>5, <1>6, <2>1
       DEF Kept, SameLife, Each, Given, Announced, Reported, Remembered, Held
<1>7. CASE e \in active
  <2>1. /\ e \notin active' /\ e \notin resolvers' /\ e \notin backgrounded'
        /\ listening'[e] = {} /\ e \in exitInfo'
        /\ e \in resolvers => promise'[e] = "aborted"
        /\ e \notin resolvers => promise'[e] = promise[e]
        /\ \A k \in Callback :
             heard'[e][k] = IF k \in listening[e] THEN heard[e][k] + 1 ELSE heard[e][k]
        /\ injected'[e] = injected[e]
    BY <1>1, <1>2, <1>7, SettleAt
  <2>2. Given(e)' /\ Reported(e)' /\ Held(e)'
    BY <1>1, <1>7, <2>1 DEF Each, Given, Reported, Held
  <2>3. Announced(e)'
    BY <1>1, <1>7, <2>1 DEF Each, Given, Announced
  <2>4. Remembered(e)'
    BY <1>1, <1>7, <2>1 DEF Each, Given, Remembered
  <2> QED
    BY <1>4, <1>5, <2>2, <2>3, <2>4 DEF Kept, Each
<1> QED
  BY <1>6, <1>7

-----------------------------------------------------------------------------
(* Safety.                                                                 *)

LEMMA InitInv == Init => IInv
<1> SUFFICES ASSUME Init PROVE IInv
  OBVIOUS
<1>1. LifecycleTypeOK /\ ShellTypeOK
  <2>1. LifecycleTypeOK
    BY DEF Init, LifecycleInit, LifecycleTypeOK
  <2>2. ShellTypeOK
    BY DEF Init, ShellTypeOK, ToolStates
  <2> QED
    BY <2>1, <2>2
<1>2. HistoryTypeOK
  BY ShellAssumption, EmptySeq DEF Init, HistoryTypeOK
<1>3. ASSUME NEW e \in Execution
      PROVE  Each(e)
  <2>1. Given(e) /\ Reported(e) /\ Held(e)
    BY DEF Init, LifecycleInit, Given, Reported, Held
  <2>2. Announced(e)
    BY DEF Init, LifecycleInit, Announced
  <2>3. Remembered(e)
    BY DEF Init, LifecycleInit, Remembered
  <2> QED
    BY <2>1, <2>2, <2>3 DEF Each
<1> QED
  BY <1>1, <1>2, <1>3, TypeParts DEF IInv

LEMMA NextInv == IInv /\ [Next]_vars => IInv'
<1> SUFFICES ASSUME TypeOK, \A e \in Execution : Each(e), [Next]_vars PROVE IInv'
  BY DEF IInv
<1>1. ASSUME NEW e \in Execution, Kept(e)
      PROVE  IInv'
  <2>1. \A d \in Execution \ {e} : Each(d)'
    BY <1>1, SameKeeps DEF Kept
  <2> QED
    BY <1>1, <2>1 DEF Kept, IInv
<1>2. CASE Next
  <2>1. PICK e \in Execution :
          \/ SpawnInTerminal(e) \/ SpawnChild(e) \/ SpawnFails(e) \/ Abort(e) \/ MoveByUser(e)
          \/ DelayElapsed(e) \/ ToolReturns(e)
          \/ ChildExits(e) \/ TerminalExits(e) \/ Drained(e) \/ LogClosed(e)
          \/ Watch(e) \/ Forget(e) \/ Dismiss(e) \/ Quit(e) \/ QuitKill(e)
    BY <1>2, Zenon DEF Next
  <2>2. Kept(e)
    BY <2>1, SpawnKeeps, FailKeeps, AbortKeeps, MoveKeeps, ReturnKeeps, ExitKeeps, LogKeeps, WatchKeeps,
       KillKeeps
  <2> QED
    BY <1>1, <2>2
<1>3. CASE UNCHANGED vars
  <2>1. TypeOK'
    BY <1>3, TypeParts, LifeUntouched
       DEF vars, shellVars, ShellTypeOK, HistoryTypeOK
  <2>2. \A d \in Execution : SameLife(d) /\ SameShell(d)
    BY <1>3 DEF vars, lifecycleVars, shellVars, SameLife, SameShell
  <2> QED
    BY <2>1, <2>2, SameKeeps DEF IInv
<1> QED
  BY <1>2, <1>3

\* The inductive invariant holds whatever the processes, the user and the timers do.
THEOREM Invariance == Spec => []IInv
  BY InitInv, NextInv, PTL DEF Spec

\* Every variable keeps its type: a result that was not given belongs to an active execution,
\* one that moved has given its own, and backgroundProcessHistory never outgrows its limit.
THEOREM TypeCorrect == Spec => []TypeOK
<1>1. IInv => TypeOK
  BY DEF IInv
<1> QED
  BY <1>1, Invariance, PTL

\* The end of a command reaches the model once: with the call's result, or, when the call was
\* reported as moved, by the injection that settleExecution makes.
THEOREM EndsAreReported == Spec => []EndIsReported
<1>1. IInv => EndIsReported
  <2> SUFFICES ASSUME IInv, NEW e \in Loud \ Detached, tool[e] = "returned", e \notin active
               PROVE  /\ injected[e] > 0 => outcome[e] = "background" /\ e \notin killed
                      /\ outcome[e] = "background" /\ e \notin aborted \cup killed =>
                           injected[e] > 0
    BY DEF EndIsReported
  <2>1. e \in Execution /\ Announced(e) /\ Reported(e) /\ TypeOK
    BY DEF Loud, IInv, Each
  <2>2. outcome[e] \in {"done", "cancelled", "background"}
    BY <2>1 DEF Reported, TypeOK
  <2> QED
    BY <2>1, <2>2 DEF Announced, Reported
<1> QED
  BY <1>1, Invariance, PTL

\* onExit calls back once for every registration the interface makes, even if the exit was
\* handled first.
THEOREM ExitsAreHeardOnce == Spec => []ExitHeardOnce
<1>1. IInv => ExitHeardOnce
  BY DEF IInv, Each, Remembered, ExitHeardOnce
<1> QED
  BY <1>1, Invariance, PTL

\* Once handleExit or finalize has run and no log is being closed, no map of the services
\* holds the command.
THEOREM NothingIsHeld == Spec => []NothingHeld
<1>1. IInv => NothingHeld
  BY DEF IInv, Each, Given, Remembered, Held, NothingHeld, TypeOK, LifecycleTypeOK
<1> QED
  BY <1>1, Invariance, PTL

-----------------------------------------------------------------------------
(* The lifecycle service keeps its contract.                               *)

\* Where an execution stands, without the order of the cases.
LEMMA PhaseIs ==
  /\ \A e : Phase(e) = IF e \in backgrounded THEN "moved"
                       ELSE IF e \in active THEN "running"
                       ELSE IF promise[e] = "none" THEN "none" ELSE "over"
  /\ \A e : Phase(e)' = IF e \in backgrounded' THEN "moved"
                        ELSE IF e \in active' THEN "running"
                        ELSE IF promise'[e] = "none" THEN "none" ELSE "over"
  BY DEF Phase

Phases == [e \in Execution |-> Phase(e)]

\* A step of one execution changes the contract's variables at that execution only.
LEMMA OneExecution ==
  ASSUME LifecycleTypeOK, LifecycleTypeOK', NEW e \in Execution,
         \A d \in Execution \ {e} : SameLife(d)
  PROVE  /\ Phases' = [Phases EXCEPT ![e] = Phase(e)']
         /\ promise' = [promise EXCEPT ![e] = promise'[e]]
         /\ injected' = [injected EXCEPT ![e] = injected'[e]]
         /\ Phases[e] = Phase(e)
<1>1. \A d \in Execution \ {e} : Phase(d)' = Phase(d)
  BY PhaseIs DEF SameLife
<1>2. Phases' = [d \in Execution |-> Phase(d)']
  BY DEF Phases
<1>3. Phases' = [Phases EXCEPT ![e] = Phase(e)']
  BY <1>1, <1>2 DEF Phases
<1>4. /\ promise' = [promise EXCEPT ![e] = promise'[e]]
      /\ injected' = [injected EXCEPT ![e] = injected'[e]]
  BY DEF LifecycleTypeOK, SameLife
<1> QED
  BY <1>3, <1>4 DEF Phases

LEMMA StutterOf ==
  ASSUME UNCHANGED <<active, backgrounded, promise, injected>>
  PROVE  UNCHANGED Contract!vars
<1>1. \A d : Phase(d)' = Phase(d)
  BY PhaseIs
<1>2. Phases' = Phases
  BY <1>1 DEF Phases
<1> QED
  BY <1>2 DEF Phases, Contract!vars

\* attachExecution starts.
LEMMA AttachStarts ==
  ASSUME LifecycleTypeOK, NEW e \in Execution, Attach(e), promise[e] = "none",
         e \notin backgrounded
  PROVE  Contract!Start(e)
<1>1. /\ LifecycleTypeOK' /\ \A d \in Execution \ {e} : SameLife(d)
      /\ e \notin active /\ e \in active' /\ e \notin backgrounded'
      /\ promise'[e] = "pending"
  BY AttachAt
<1>2. Phase(e) = "none" /\ Phase(e)' = "running"
  BY <1>1, PhaseIs
<1>3. injected' = injected
  BY DEF Attach
<1>4. /\ Phases' = [Phases EXCEPT ![e] = "running"]
      /\ promise' = [promise EXCEPT ![e] = "pending"]
      /\ Phases[e] = "none"
  BY <1>1, <1>2, OneExecution
<1> QED
  BY <1>3, <1>4 DEF Contract!Start, Phases

\* background moves, or leaves alone what was settled.
LEMMA BackgroundMoves ==
  ASSUME LifecycleTypeOK, NEW e \in Execution, NEW registers \in SUBSET Callback,
         Background(e, registers)
  PROVE  Contract!Move(e) \/ UNCHANGED Contract!vars
<1>1. CASE e \notin resolvers
  BY <1>1, BackgroundAt, StutterOf DEF lifecycleVars
<1>2. CASE e \in resolvers
  <2>1. /\ LifecycleTypeOK' /\ \A d \in Execution \ {e} : SameLife(d)
        /\ e \in active /\ e \in backgrounded' /\ promise'[e] = "background"
    BY <1>2, BackgroundAt
  <2>2. e \notin backgrounded /\ injected' = injected
    BY <1>2, <2>1 DEF Background, Movable, LifecycleTypeOK
  <2>3. Phase(e) = "running" /\ Phase(e)' = "moved"
    BY <2>1, <2>2, PhaseIs
  <2>4. /\ Phases' = [Phases EXCEPT ![e] = "moved"]
        /\ promise' = [promise EXCEPT ![e] = "background"]
        /\ Phases[e] = "running"
    BY <2>1, <2>3, OneExecution
  <2> QED
    BY <2>2, <2>4 DEF Contract!Move, Phases
<1> QED
  BY <1>1, <1>2

\* settleExecution ends, in the foreground or after the move.
LEMMA SettleEnds ==
  ASSUME TypeOK, NEW e \in Execution, Each(e), NEW how \in BOOLEAN, Settle(e, how)
  PROVE  Contract!End(e) \/ Contract!EndMoved(e) \/ UNCHANGED Contract!vars
<1>1. LifecycleTypeOK
  BY TypeParts
<1>2. CASE e \notin active
  BY <1>1, <1>2, SettleAt, StutterOf DEF lifecycleVars
<1>3. CASE e \in active
  <2>1. /\ LifecycleTypeOK' /\ \A d \in Execution \ {e} : SameLife(d)
        /\ e \notin active' /\ e \notin backgrounded'
        /\ e \in resolvers => promise'[e] \in {"aborted", "completed"}
        /\ e \notin resolvers => promise'[e] = promise[e]
        /\ injected'[e] = IF e \in backgrounded /\ e \in Loud /\ ~how
                            THEN injected[e] + 1 ELSE injected[e]
    BY <1>1, <1>3, SettleAt
  <2>2. /\ injected[e] = 0
        /\ e \in resolvers <=> e \notin backgrounded
        /\ e \notin resolvers => promise[e] = "background"
    BY <1>3 DEF Each, Given, Announced
  <2>3. /\ Phase(e) = IF e \in backgrounded THEN "moved" ELSE "running"
        /\ Phase(e)' = "over"
    BY <1>3, <2>1, <2>2, PhaseIs
  <2>4. /\ Phases' = [Phases EXCEPT ![e] = "over"]
        /\ promise' = [promise EXCEPT ![e] = promise'[e]]
        /\ injected' = [injected EXCEPT ![e] = injected'[e]]
        /\ Phases[e] = Phase(e)
    BY <1>1, <2>1, <2>3, OneExecution
  <2>5. injected'[e] = injected[e] => injected' = injected
    BY <1>1, <2>4 DEF LifecycleTypeOK
  <2>6. CASE e \in resolvers
    <3>1. injected' = injected /\ promise'[e] \in {"completed", "aborted"}
      BY <2>1, <2>2, <2>5, <2>6
    <3>2. Phases[e] = "running"
      BY <2>2, <2>3, <2>4, <2>6
    <3> QED
      BY <2>4, <3>1, <3>2, Zenon DEF Contract!End, Phases
  <2>7. CASE e \notin resolvers
    <3>1. promise' = promise
      BY <1>1, <2>1, <2>4, <2>7 DEF LifecycleTypeOK
    <3>2. \/ injected' = injected
          \/ e \in Loud /\ injected' = [injected EXCEPT ![e] = 1]
      BY <2>1, <2>2, <2>4, <2>5
    <3> QED
      BY <2>2, <2>3, <2>4, <2>7, <3>1, <3>2 DEF Contract!EndMoved, Phases
  <2> QED
    BY <2>6, <2>7
<1> QED
  BY <1>2, <1>3

LEMMA ContractInit == Init => Contract!Init
<1> SUFFICES ASSUME Init PROVE Contract!Init
  OBVIOUS
<1>1. \A e \in Execution : Phase(e) = "none"
  BY PhaseIs DEF Init, LifecycleInit
<1> QED
  BY <1>1 DEF Init, LifecycleInit, Contract!Init

LEMMA ContractStep == IInv /\ [Next]_vars => [Contract!Next]_(Contract!vars)
<1> SUFFICES ASSUME TypeOK, \A e \in Execution : Each(e), [Next]_vars
             PROVE  [Contract!Next]_(Contract!vars)
  BY DEF IInv
<1>1. LifecycleTypeOK
  BY TypeParts
<1>2. ASSUME NEW e \in Execution,
             \/ Contract!Start(e) \/ Contract!Move(e) \/ Contract!End(e) \/ Contract!EndMoved(e)
             \/ UNCHANGED Contract!vars
      PROVE  [Contract!Next]_(Contract!vars)
  BY <1>2 DEF Contract!Next
<1>3. ASSUME NEW e \in Execution, SpawnInTerminal(e) \/ SpawnChild(e)
      PROVE  [Contract!Next]_(Contract!vars)
  <2>1. Attach(e) /\ tool[e] = "idle"
    BY <1>3 DEF SpawnInTerminal, SpawnChild, StartCall
  <2>2. promise[e] = "none" /\ e \notin backgrounded
    BY <2>1 DEF Each, Given
  <2> QED
    BY <1>1, <1>2, <2>1, <2>2, AttachStarts
<1>4. ASSUME NEW e \in Execution, MoveByUser(e) \/ DelayElapsed(e)
      PROVE  [Contract!Next]_(Contract!vars)
  <2>1. Background(e, {}) \/ Background(e, {"noticed"})
    BY <1>4 DEF MoveByUser, DelayElapsed, MoveAway, shellVars
  <2>2. {} \in SUBSET Callback /\ {"noticed"} \in SUBSET Callback
    BY DEF Callback
  <2> QED
    BY <1>1, <1>2, <2>1, <2>2, BackgroundMoves
<1>5. ASSUME NEW e \in Execution, NEW how \in BOOLEAN, Settle(e, how)
      PROVE  [Contract!Next]_(Contract!vars)
  BY <1>2, <1>5, SettleEnds
<1>6. ASSUME UNCHANGED <<active, backgrounded, promise, injected>>
      PROVE  [Contract!Next]_(Contract!vars)
  BY <1>6, StutterOf
<1>7. ASSUME NEW e \in Execution, ChildExits(e) \/ TerminalExits(e) \/ Drained(e)
      PROVE  [Contract!Next]_(Contract!vars)
  <2>1. \/ Settle(e, e \in aborted)
        \/ UNCHANGED <<active, backgrounded, promise, injected>>
    BY <1>7 DEF ChildExits, TerminalExits, Drained, Finish, lifecycleVars
  <2>2. (e \in aborted) \in BOOLEAN
    OBVIOUS
  <2> QED
    BY <1>5, <1>6, <2>1, <2>2
<1>8. ASSUME NEW e \in Execution, Dismiss(e) \/ QuitKill(e)
      PROVE  [Contract!Next]_(Contract!vars)
  BY <1>5, <1>8 DEF Dismiss, QuitKill, Kill
<1>9. ASSUME NEW e \in Execution,
             SpawnFails(e) \/ Abort(e) \/ ToolReturns(e) \/ LogClosed(e) \/ Watch(e) \/ Forget(e) \/ Quit(e)
      PROVE  [Contract!Next]_(Contract!vars)
  <2>1. UNCHANGED <<active, backgrounded, promise, injected>>
    BY <1>9
       DEF SpawnFails, Abort, ToolReturns, LogClosed, Watch, OnExit, Forget, ForgetExit, Quit,
           lifecycleVars
  <2> QED
    BY <1>6, <2>1
<1>10. CASE UNCHANGED vars
  BY <1>6, <1>10 DEF vars, lifecycleVars
<1> QED
  BY <1>3, <1>4, <1>7, <1>8, <1>9, <1>10 DEF Next

\* ShellExecution implements the contract of ExecutionLifecycleService: each result is given
\* once and each end announced at most once, however completion, backgrounding, kill and abort
\* are ordered.
THEOREM ContractIsKept == Spec => KeepsExecutionContract
  BY ContractInit, ContractStep, Invariance, PTL DEF Spec, KeepsExecutionContract, Contract!Spec
=============================================================================

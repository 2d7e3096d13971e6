--------------------------- MODULE PolicyPersistence ---------------------------
(***************************************************************************)
(* "Always allow": createPolicyUpdater (packages/core/src/policy/          *)
(* config.ts) adds the rule to the policy engine of the session at once    *)
(* and, if it is to be saved, rewrites the file of auto-saved policies.    *)
(* The writes of one session are chained by a promise; several sessions    *)
(* share the file and know nothing of each other.  A session may crash at  *)
(* any point of a write and is started again with what the file has.       *)
(*                                                                         *)
(* A rule is a tool with its narrowing: a model value.  Updates with the   *)
(* scope of the user and of the workspace go to two files; the model has   *)
(* one of them, with all its writers, and the chain they share.            *)
(***************************************************************************)
EXTENDS Naturals, Sequences, FiniteSets

CONSTANTS
  Session,     \* processes that share the home directory or the workspace
  Rule,        \* what the user may allow always
  Refused,     \* rules too wide for a sensitive tool, or with an unsafe pattern
  MaxUpdates,  \* a bound: updates, of all sessions
  MaxFaults    \* a bound: reads and writes that fail and sessions that crash

ASSUME PersistenceAssumption ==
  /\ Refused \subseteq Rule
  /\ MaxUpdates \in Nat /\ MaxFaults \in Nat

VARIABLES
  up,        \* sessions that run
  memory,    \* the rules of each session's policy engine
  updates,   \* how many updates there were
  queue,     \* persistenceQueue: rules to be saved
  jobs,      \* writes under way: the rule, the step and what was read
  file,      \* the rules of the auto-saved policy file; an absent file has none
  author,    \* history: the session that wrote each rule of the file
  wanted,    \* history: rules some user asked to save
  faults     \* how many reads and writes failed and sessions crashed

persistenceVars ==
  <<up, memory, updates, queue, jobs, file, author, wanted, faults>>

Job == [rule : Rule, at : {"read", "written"}, data : SUBSET Rule, blind : BOOLEAN]

PersistenceTypeOK ==
  /\ up \in SUBSET Session
  /\ memory \in [Session -> SUBSET Rule]
  /\ updates \in 0..MaxUpdates
  /\ \A s \in Session : queue[s] \in Seq(Rule) /\ Len(queue[s]) <= MaxUpdates
  /\ \A s \in Session : jobs[s] \subseteq Job /\ Cardinality(jobs[s]) <= 1
  /\ file \in SUBSET Rule
  /\ author \in [Rule -> SUBSET Session]
  /\ wanted \in SUBSET Rule
  /\ faults \in 0..MaxFaults

PersistenceInit ==
  /\ up = Session
  /\ memory = [s \in Session |-> {}]
  /\ updates = 0
  /\ queue = [s \in Session |-> <<>>]
  /\ jobs = [s \in Session |-> {}]
  /\ file = {}
  /\ author = [r \in Rule |-> {}]
  /\ wanted = {}
  /\ faults = 0

-----------------------------------------------------------------------------
(***************************************************************************)
(* An update                                                               *)
(***************************************************************************)

\* The engine takes the rule at once.
Remembered(s, r) ==
  memory' = [memory EXCEPT ![s] = @ \cup {r}]

\* A slip: the checks of the rule do not end the update.
AcceptedAll(r) == TRUE

\* TOOLS_REQUIRING_NARROWING and isSafeRegExp.  Both end an update with an argsPattern or
\* with no narrowing at all; one with a commandPrefix is narrow, and safe by its escapes.
Accepted(r) == r \notin Refused

\* The listener of UPDATE_POLICY.  A rule that is refused is neither added nor saved.
UpdatePolicy(s, r, persist) ==
  /\ s \in up
  /\ updates < MaxUpdates
  /\ updates' = updates + 1
  /\ wanted' = IF persist THEN wanted \cup {r} ELSE wanted
  /\ \/ ~Accepted(r) /\ UNCHANGED <<memory, queue>>
     \/ /\ Accepted(r)
        /\ Remembered(s, r)
        /\ queue' = IF persist THEN [queue EXCEPT ![s] = Append(@, r)] ELSE queue
  /\ UNCHANGED <<up, jobs, file, author, faults>>

-----------------------------------------------------------------------------
(***************************************************************************)
(* The chain of writes                                                     *)
(***************************************************************************)

\* A slip: the writes are not chained.
ReadyAlways(s) == queue[s] # <<>>

\* The write before has settled.
Ready(s) == queue[s] # <<>> /\ jobs[s] = {}

\* The file is read; without a file there are no rules yet.
ReadFile(s) ==
  /\ s \in up
  /\ Ready(s)
  /\ queue' = [queue EXCEPT ![s] = Tail(@)]
  /\ jobs' = [jobs EXCEPT ![s] = @ \cup
       {[rule |-> Head(queue[s]), at |-> "read", data |-> file, blind |-> FALSE]}]
  /\ UNCHANGED <<up, memory, updates, file, author, wanted, faults>>

\* A file that cannot be read or parsed is overwritten.
ReadFails(s) ==
  /\ s \in up
  /\ Ready(s)
  /\ faults < MaxFaults
  /\ faults' = faults + 1
  /\ queue' = [queue EXCEPT ![s] = Tail(@)]
  /\ jobs' = [jobs EXCEPT ![s] = @ \cup
       {[rule |-> Head(queue[s]), at |-> "read", data |-> {}, blind |-> TRUE]}]
  /\ UNCHANGED <<up, memory, updates, file, author, wanted>>

\* A slip: the file itself is opened for writing, which empties it.
WriteInPlace(s) ==
  \E j \in jobs[s] :
    /\ j.at = "read"
    /\ jobs' = [jobs EXCEPT ![s] = (@ \ {j}) \cup {[j EXCEPT !.at = "written"]}]
    /\ file' = {}
    /\ UNCHANGED <<up, memory, updates, queue, author, wanted, faults>>

\* The new content goes to a temporary file of its own.
WriteTmp(s) ==
  \E j \in jobs[s] :
    /\ j.at = "read"
    /\ jobs' = [jobs EXCEPT ![s] = (@ \ {j}) \cup {[j EXCEPT !.at = "written"]}]
    /\ UNCHANGED <<up, memory, updates, queue, file, author, wanted, faults>>

\* The temporary file becomes the policy file.
Rename(s) ==
  \E j \in jobs[s] :
    /\ j.at = "written"
    /\ file' = j.data \cup {j.rule}
    /\ author' = [r \in Rule |->
         IF r = j.rule THEN {s} ELSE IF r \in file' THEN author[r] ELSE {}]
    /\ jobs' = [jobs EXCEPT ![s] = @ \ {j}]
    /\ UNCHANGED <<up, memory, updates, queue, wanted, faults>>

\* A slip: a failure breaks the chain; nothing after it is written.
JobsAfterFailureKept(s, j) ==
  [jobs EXCEPT ![s] = (@ \ {j}) \cup {[j EXCEPT !.at = "broken"]}]

\* The exception is reported and the chain goes on.
JobsAfterFailure(s, j) == [jobs EXCEPT ![s] = @ \ {j}]

\* mkdir, open, write or rename fails.
WriteFails(s) ==
  \E j \in jobs[s] :
    /\ faults < MaxFaults
    /\ faults' = faults + 1
    /\ jobs' = JobsAfterFailure(s, j)
    /\ UNCHANGED <<up, memory, updates, queue, file, author, wanted>>

-----------------------------------------------------------------------------
(***************************************************************************)
(* Crash and restart                                                       *)
(***************************************************************************)

\* The process dies: its rules, its queue and the write under way are gone; a temporary
\* file may stay behind.
CrashSession(s) ==
  /\ s \in up
  /\ faults < MaxFaults
  /\ faults' = faults + 1
  /\ up' = up \ {s}
  /\ memory' = [memory EXCEPT ![s] = {}]
  /\ queue' = [queue EXCEPT ![s] = <<>>]
  /\ jobs' = [jobs EXCEPT ![s] = {}]
  /\ UNCHANGED <<updates, file, author, wanted>>

\* A new session loads the file.
RestartSession(s) ==
  /\ s \notin up
  /\ up' = up \cup {s}
  /\ memory' = [memory EXCEPT ![s] = file]
  /\ UNCHANGED <<updates, queue, jobs, file, author, wanted, faults>>
=============================================================================

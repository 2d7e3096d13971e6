------------------------------ MODULE MessageBus ------------------------------
(***************************************************************************)
(* The message bus (packages/core/src/confirmation-bus/message-bus.ts)     *)
(* between the tools that ask for a decision (getMessageBusDecision in     *)
(* tools/tools.ts, a request with a time limit), the policy engine that    *)
(* the bus consults, the schedulers that answer for the user, and the      *)
(* updates of the policy that the user's answers cause.                    *)
(***************************************************************************)
EXTENDS PolicyPersistence

CONSTANTS
  Ask,        \* calls of getMessageBusDecision, one correlation id each
  SessionOf,  \* the session whose bus an ask uses
  Needs,      \* the rule that would allow the call
  Denied      \* rules that the policy denies with a higher priority

ASSUME BusAssumption ==
  /\ SessionOf \in [Ask -> Session]
  /\ Needs \in [Ask -> Rule]
  /\ Denied \subseteq Rule

VARIABLES
  verdict,    \* publish: the engine's decision while its checkers run
  listening,  \* asks whose responseHandler is subscribed
  result,     \* what the promise of an ask resolved to
  aborted,    \* asks whose signal is aborted
  slow        \* history: asks decided by their timeout

busVars == <<verdict, listening, result, aborted, slow>>
vars == <<persistenceVars, busVars>>

Verdicts == {"allow", "deny", "ask_user"}

TypeOK ==
  /\ PersistenceTypeOK
  /\ verdict \in [Ask -> Verdicts \cup {"none", "sent"}]
  /\ listening \in SUBSET Ask
  /\ result \in [Ask -> Verdicts \cup {"none", "lost"}]
  /\ aborted \in SUBSET Ask
  /\ slow \in SUBSET Ask

Init ==
  /\ PersistenceInit
  /\ verdict = [a \in Ask |-> "none"]
  /\ listening = {}
  /\ result = [a \in Ask |-> "none"]
  /\ aborted = {}
  /\ slow = {}

-----------------------------------------------------------------------------
(***************************************************************************)
(* The request                                                             *)
(***************************************************************************)

\* The first rule that matches: a denial, then what the user always allows.
Checked(s, r) ==
  IF r \in Denied THEN "deny" ELSE IF r \in memory[s] THEN "allow" ELSE "ask_user"

\* The handler is subscribed, then the request published: the engine finds the rule and
\* its checkers run.
Request(a) ==
  /\ SessionOf[a] \in up
  /\ result[a] = "none" /\ verdict[a] = "none" /\ a \notin aborted
  /\ listening' = listening \cup {a}
  /\ verdict' = [verdict EXCEPT ![a] = Checked(SessionOf[a], Needs[a])]
  /\ UNCHANGED <<persistenceVars, result, aborted, slow>>

\* The signal was aborted before.
RequestAborted(a) ==
  /\ SessionOf[a] \in up
  /\ result[a] = "none" /\ verdict[a] = "none" /\ a \in aborted
  /\ result' = [result EXCEPT ![a] = "deny"]
  /\ UNCHANGED <<persistenceVars, verdict, listening, aborted, slow>>

\* A slip: the handler does not compare correlation ids.
HeardByAll(a) == {b \in listening : SessionOf[b] = SessionOf[a]}

\* Of the handlers on the bus only the one with the correlation id takes the response.
HeardBy(a) == listening \cap {a}

\* cleanup().
Unsubscribed(heard) == listening \ heard

\* The checkers agree or deny; a response is emitted.  For a question the bus, or a
\* scheduler that listens to requests, responds that the user has to confirm.
Respond(a) ==
  /\ verdict[a] \in Verdicts
  /\ \E v \in {verdict[a], IF verdict[a] = "allow" THEN "deny" ELSE verdict[a]} :
       result' = [b \in Ask |-> IF b \in HeardBy(a) THEN v ELSE result[b]]
  /\ verdict' = [verdict EXCEPT ![a] = "sent"]
  /\ listening' = Unsubscribed(HeardBy(a))
  /\ UNCHANGED <<persistenceVars, aborted, slow>>

\* The check throws: no response is emitted.
CheckFails(a) ==
  /\ verdict[a] \in Verdicts
  /\ verdict' = [verdict EXCEPT ![a] = "sent"]
  /\ UNCHANGED <<persistenceVars, listening, result, aborted, slow>>

\* No response in 30 seconds.
TimeOut(a) ==
  /\ a \in listening
  /\ result' = [result EXCEPT ![a] = "ask_user"]
  /\ listening' = Unsubscribed({a})
  /\ slow' = slow \cup {a}
  /\ UNCHANGED <<persistenceVars, verdict, aborted>>

\* The call is aborted.
AbortAsk(a) ==
  /\ a \notin aborted
  /\ SessionOf[a] \in up
  /\ result[a] = "none"
  /\ aborted' = aborted \cup {a}
  /\ result' = IF a \in listening THEN [result EXCEPT ![a] = "deny"] ELSE result
  /\ listening' = Unsubscribed({a})
  /\ UNCHANGED <<persistenceVars, verdict, slow>>

-----------------------------------------------------------------------------
(***************************************************************************)
(* The user's answers and the sessions                                     *)
(***************************************************************************)

\* The user allows what was asked always, and may save it: updatePolicy publishes
\* UPDATE_POLICY, with a narrowing if the tool has one to offer.
AllowAlways(a, persist) ==
  /\ result[a] = "ask_user"
  /\ \E r \in {Needs[a]} \cup Refused : UpdatePolicy(SessionOf[a], r, persist)
  /\ UNCHANGED busVars

\* The asks of a session that dies die with it.
Crash(s) ==
  /\ CrashSession(s)
  /\ result' = [a \in Ask |->
       IF SessionOf[a] = s /\ result[a] = "none" /\ verdict[a] # "none" THEN "lost" ELSE result[a]]
  /\ verdict' = [a \in Ask |-> IF SessionOf[a] = s /\ verdict[a] # "none" THEN "sent" ELSE verdict[a]]
  /\ listening' = {a \in listening : SessionOf[a] # s}
  /\ UNCHANGED <<aborted, slow>>

Restart(s) == RestartSession(s) /\ UNCHANGED busVars
Read(s) == (ReadFile(s) \/ ReadFails(s)) /\ UNCHANGED busVars
Write(s) == (WriteTmp(s) \/ Rename(s)) /\ UNCHANGED busVars
Fail(s) == WriteFails(s) /\ UNCHANGED busVars

AskStep(a) ==
  \/ Request(a) \/ RequestAborted(a) \/ Respond(a) \/ CheckFails(a)
  \/ TimeOut(a) \/ AbortAsk(a)
  \/ \E persist \in BOOLEAN : AllowAlways(a, persist)

Next ==
  \/ \E a \in Ask : AskStep(a)
  \/ \E s \in Session : Read(s) \/ Write(s) \/ Fail(s) \/ Crash(s) \/ Restart(s)

\* File operations return, timers fire and checks end.
Fairness ==
  /\ \A s \in Session : WF_vars(Read(s)) /\ WF_vars(Write(s) \/ Fail(s))
  /\ \A a \in Ask : WF_vars(TimeOut(a)) /\ WF_vars(Respond(a) \/ CheckFails(a))

Spec == Init /\ [][Next]_vars /\ Fairness

-----------------------------------------------------------------------------
(***************************************************************************)
(* Properties                                                              *)
(***************************************************************************)

\* A decision comes from the ask's own check: it is never the response to another ask on
\* the bus, nor made before the check unless the call was aborted or too slow; and no
\* handler of a decided ask is left on the bus.
DecisionIsOwn ==
  \A a \in Ask :
    /\ result[a] = "allow" => verdict[a] = "sent" /\ Needs[a] \notin Denied
    /\ result[a] \in {"deny", "ask_user"} => verdict[a] = "sent" \/ a \in aborted \/ a \in slow
    /\ result[a] # "none" => a \notin listening

\* The file holds only what a user asked to save, and nothing too wide.
SavesWhatWasAsked == file \subseteq wanted \ Refused

\* A saved rule leaves the file only when a session replaces the file that has not seen it:
\* one that read before the other session wrote, or whose read failed.  A session never
\* loses its own updates, and a crash in the middle of a write loses nothing.
LostOnlyUnseen ==
  [][\A r \in file \ file' : \E s \in Session : \E j \in jobs[s] \ jobs'[s] :
       r \notin j.data /\ (j.blind \/ author[r] # {s})]_vars

\* Every update of a session that keeps running is written or reported, also after one
\* that failed.
UpdatesSettle == \A s \in Session : s \in up ~> s \notin up \/ (queue[s] = <<>> /\ jobs[s] = {})
=============================================================================

-------------------------- MODULE SchedulerProofs --------------------------
(***************************************************************************)
(* Theorems about Scheduler, for every set of batches, calls, tools,       *)
(* policies and answers.                                                   *)
(***************************************************************************)
EXTENDS Scheduler, SequenceTheorems, TLAPS

-----------------------------------------------------------------------------
(* The inductive invariant.                                                *)

\* Where the main loop is says what the two containers hold.
LoopInv ==
  /\ current = NoBatch <=> loop = "idle"
  /\ loop \in {"idle", "start", "top", "done"} => active = {}
  /\ loop \in {"idle", "done"} => queue = <<>>
  /\ loop # "spin"
  /\ loop \in {"validating", "executing"} => active # {} \/ \E c \in Call : pc[c] = "tailed"
  /\ requestQueue # <<>> => current # NoBatch

\* The queue holds each call once, none that is active, and only calls that
\* still have to be validated or that were refused.
QueueInv ==
  /\ \A i, j \in DOMAIN queue : queue[i] = queue[j] => i = j
  /\ \A c \in Queued : c \notin active /\ status[c] \in {"validating", "error"}

Validating == {"idle", "hook", "policy", "details", "notify", "answer", "confirm", "editor",
               "inline", "update", "settled"}
Executing == {"idle", "exec", "record", "details", "notify", "answer", "confirm", "settled",
              "tailed"}
\* Where a call that is executing is only for a sandbox expansion.
Expansion == {"details", "notify", "answer", "confirm"}

\* What a coroutine may be doing in each phase of a turn, and the status in
\* which it leaves its call.
CoroutineInv ==
  \A c \in Call :
    /\ loop \notin {"validating", "executing"} => pc[c] = "idle"
    /\ loop = "validating" => /\ pc[c] \in Validating
                              /\ pc[c] # "idle" => c \in active /\ c \notin sandboxed
    /\ loop = "executing" => /\ pc[c] \in Executing
                             /\ pc[c] \notin {"idle", "tailed"} => c \in active
                             /\ pc[c] = "tailed" => c \notin active
                             /\ pc[c] \in Expansion => c \in sandboxed
    /\ c \in active /\ pc[c] \in {"idle", "settled"} =>
         status[c] \in Terminal \/ (loop = "validating" /\ status[c] = "scheduled")

\* Every call of the batch is in exactly one place, and has its final status
\* when it is reported.
LedgerInv ==
  /\ \A c \in Call : /\ results[c] \in {0, 1}
                     /\ results[c] = 1 => status[c] \in Terminal
                     /\ c \in active \/ c \in Queued => results[c] = 0
  /\ current # NoBatch =>
       \A c \in CallsOf(current) : c \in active \/ c \in Queued \/ results[c] = 1
  /\ \A b \in Batch : promise[b] = "resolved" =>
       \A c \in CallsOf(b) : reply[c] \in Terminal

NoBackground == background = {}

IInv == TypeOK /\ NoBackground /\ LoopInv /\ QueueInv /\ CoroutineInv /\ LedgerInv

-----------------------------------------------------------------------------
(* Lemmas about the operators of the model.                                *)

\* The sort of _startBatch keeps the calls of the batch, each once.
LEMMA TopicFirstKeeps ==
  ASSUME NEW b \in Batch
  PROVE  /\ TopicFirst(Requests[b]) \in Seq(Call)
         /\ {TopicFirst(Requests[b])[i] : i \in DOMAIN TopicFirst(Requests[b])} = CallsOf(b)
         /\ \A i, j \in DOMAIN TopicFirst(Requests[b]) :
              TopicFirst(Requests[b])[i] = TopicFirst(Requests[b])[j] => i = j
<1> DEFINE s == Requests[b]
<1>1. s \in Seq(Call) /\ (\A i, j \in DOMAIN s : s[i] = s[j] => i = j)
  BY RequestsAssumption
<1>2. CASE ~ \E i \in DOMAIN s : ToolOf[s[i]] \in TopicTools
  BY <1>1, <1>2 DEF TopicFirst, CallsOf
<1>3. CASE \E i \in DOMAIN s : ToolOf[s[i]] \in TopicTools
  <2> DEFINE t == CHOOSE i \in DOMAIN s : ToolOf[s[i]] \in TopicTools
             front == SubSeq(s, 1, t - 1)
             back == SubSeq(s, t + 1, Len(s))
             r == <<s[t]>> \o front \o back
  <2>1. t \in 1 .. Len(s) /\ Len(s) \in Nat /\ DOMAIN s = 1 .. Len(s)
    BY <1>1, <1>3, LenProperties
  <2> HIDE DEF t
  <2>2. \A i \in 1 .. Len(s) : s[i] \in Call
    BY <1>1, ElementOfSeq
  <2>3. /\ front \in Seq(Call) /\ Len(front) = t - 1
        /\ \A i \in 1 .. t - 1 : front[i] = s[i]
    <3>1. \A i \in 1 .. t - 1 : s[i] \in Call
      BY <2>1, <2>2
    <3>2. t - 1 \in Int /\ t - 1 >= 0
      BY <2>1
    <3> QED
      BY <2>1, <3>1, <3>2, SubSeqProperties
  <2>4. /\ back \in Seq(Call) /\ Len(back) = Len(s) - t
        /\ \A i \in 1 .. Len(s) - t : back[i] = s[t + i]
    <3>1. \A i \in t + 1 .. Len(s) : s[i] \in Call
      BY <2>1, <2>2
    <3>2. /\ back \in Seq(Call)
          /\ Len(back) = IF t + 1 <= Len(s) THEN Len(s) - (t + 1) + 1 ELSE 0
          /\ \A i \in 1 .. Len(s) - (t + 1) + 1 : back[i] = s[(t + 1) + i - 1]
      BY <2>1, <3>1, SubSeqProperties
    <3> QED
      BY <2>1, <3>2
  <2> HIDE DEF front, back
  <2>5. /\ <<s[t]>> \o front \in Seq(Call)
        /\ Len(<<s[t]>> \o front) = t
        /\ \A i \in 1 .. t : (<<s[t]>> \o front)[i] = IF i = 1 THEN s[t] ELSE s[i - 1]
    BY <2>1, <2>2, <2>3, ConcatProperties
  <2>6. /\ r \in Seq(Call)
        /\ Len(r) = Len(s)
        /\ \A i \in 1 .. Len(s) :
             r[i] = IF i = 1 THEN s[t] ELSE IF i <= t THEN s[i - 1] ELSE s[i]
    <3> DEFINE head == <<s[t]>> \o front
    <3> HIDE DEF head
    <3>1. /\ head \o back \in Seq(Call)
          /\ Len(head \o back) = Len(head) + Len(back)
          /\ \A i \in 1 .. Len(head) + Len(back) :
               (head \o back)[i] = IF i <= Len(head) THEN head[i] ELSE back[i - Len(head)]
      <4>1. head \in Seq(Call)
        BY <2>5 DEF head
      <4> QED
        BY <2>4, <4>1, ConcatProperties
    <3>2. r = head \o back
      BY DEF head
    <3>3. /\ Len(head) = t
          /\ \A i \in 1 .. t : head[i] = IF i = 1 THEN s[t] ELSE s[i - 1]
      BY <2>5 DEF head
    <3> HIDE DEF r
    <3>4. r \in Seq(Call) /\ Len(r) = Len(s)
      BY <2>1, <2>4, <3>1, <3>2, <3>3
    <3>5. ASSUME NEW i \in 1 .. Len(s)
          PROVE  r[i] = IF i = 1 THEN s[t] ELSE IF i <= t THEN s[i - 1] ELSE s[i]
      <4>1. r[i] = IF i <= t THEN head[i] ELSE back[i - t]
        BY <2>1, <2>4, <3>1, <3>2, <3>3
      <4>2. CASE i <= t
        BY <2>1, <3>3, <4>1, <4>2
      <4>3. CASE i > t
        BY <2>1, <2>4, <4>1, <4>3, i - t \in 1 .. Len(s) - t, t + (i - t) = i
      <4> QED
        BY <2>1, <4>2, <4>3
    <3> QED
      BY <3>4, <3>5
  <2> HIDE DEF r
  <2>7. TopicFirst(Requests[b]) = r
    BY <1>3 DEF TopicFirst, r, front, back, t
  <2>8. {r[i] : i \in 1 .. Len(s)} = {s[i] : i \in 1 .. Len(s)}
    <3>1. ASSUME NEW i \in 1 .. Len(s)
          PROVE  \E j \in 1 .. Len(s) : r[j] = s[i]
      <4>1. CASE i = t
        BY <2>1, <2>6, <4>1
      <4>2. CASE i < t
        BY <2>1, <2>6, <4>2, i + 1 \in 1 .. Len(s), i + 1 <= t, i + 1 # 1, (i + 1) - 1 = i
      <4>3. CASE i > t
        BY <2>1, <2>6, <4>3
      <4> QED
        BY <2>1, <4>1, <4>2, <4>3
    <3>2. ASSUME NEW i \in 1 .. Len(s)
          PROVE  \E j \in 1 .. Len(s) : s[j] = r[i]
      BY <2>1, <2>6
    <3>3. {s[i] : i \in 1 .. Len(s)} \subseteq {r[i] : i \in 1 .. Len(s)}
      BY <3>1
    <3>4. {r[i] : i \in 1 .. Len(s)} \subseteq {s[i] : i \in 1 .. Len(s)}
      BY <3>2
    <3> HIDE DEF s
    <3> QED
      BY <3>3, <3>4
  <2>9. \A i, j \in 1 .. Len(s) : r[i] = r[j] => i = j
    <3> DEFINE pos(i) == IF i = 1 THEN t ELSE IF i <= t THEN i - 1 ELSE i
    <3>1. \A i, j \in 1 .. Len(s) : s[i] = s[j] => i = j
      BY <1>1, <2>1
    <3>2. \A i \in 1 .. Len(s) : pos(i) \in 1 .. Len(s) /\ r[i] = s[pos(i)]
      BY <2>1, <2>6
    <3>3. \A i, j \in 1 .. Len(s) : pos(i) = pos(j) => i = j
      BY <2>1
    <3> HIDE DEF pos
    <3> QED
      BY <3>1, <3>2, <3>3, Zenon
  <2>10. DOMAIN r = 1 .. Len(r)
    BY <2>6, LenProperties
  <2>11. CallsOf(b) = {s[i] : i \in 1 .. Len(s)}
    BY <2>1 DEF CallsOf
  <2> HIDE DEF s
  <2>12. DOMAIN r = 1 .. Len(s) /\ r \in Seq(Call)
    BY <2>6, <2>10
  <2>13. {r[i] : i \in DOMAIN r} = CallsOf(b)
    BY <2>6, <2>8, <2>11, <2>12
  <2>14. \A i, j \in DOMAIN r : r[i] = r[j] => i = j
    BY <2>9, <2>12
  <2> QED
    BY <2>7, <2>12, <2>13, <2>14
<1> QED
  BY <1>2, <1>3

LEMMA StatusOf ==
  /\ Terminal = {"success", "error", "cancelled"}
  /\ Terminal \subseteq Status
  /\ {"validating", "scheduled", "awaiting", "executing"} \subseteq Status
  /\ \A t, valid : Created(t, valid) \in {"validating", "error"}
  BY DEF Terminal, Status, Created

AnyStatus == Status \cup {"none"}

LEMMA UpdateStatusType ==
  ASSUME NEW c \in Call, NEW s \in Status, NEW st \in [Call -> AnyStatus]
  PROVE  UpdateStatus(st, c, s) \in [Call -> AnyStatus]
  BY DEF UpdateStatus, AnyStatus

LEMMA CancelQueuedType ==
  ASSUME NEW st \in [Call -> AnyStatus]
  PROVE  CancelQueued(st) \in [Call -> AnyStatus]
  BY StatusOf DEF CancelQueued, AnyStatus

\* What a coroutine may leave in the two variables every step of it writes.
CallTypeOK == status' \in [Call -> AnyStatus] /\ pc' \in [Call -> CallStates]

LEMMA GotoType ==
  ASSUME TypeOK, NEW c \in Call, NEW l \in CallStates, Goto(c, l)
  PROVE  pc' \in [Call -> CallStates]
  BY DEF TypeOK, Goto

LEMMA SettleType ==
  ASSUME TypeOK, NEW c \in Call, NEW s \in Status, Settle(c, s)
  PROVE  CallTypeOK
<1>1. pc' \in [Call -> CallStates]
  BY GotoType DEF Settle, CallStates
<1>2. status' \in [Call -> AnyStatus]
  BY UpdateStatusType DEF Settle, TypeOK, StateTypeOK, AnyStatus
<1> QED
  BY <1>1, <1>2 DEF CallTypeOK

LEMMA ThrowType ==
  ASSUME TypeOK, NEW c \in Call, Throw(c)
  PROVE  CallTypeOK
  BY SettleType, StatusOf DEF Throw

LEMMA AskAgainType ==
  ASSUME TypeOK, NEW c \in Call, AskAgain(c)
  PROVE  CallTypeOK
<1>1. CASE current \in aborted
  BY <1>1, ThrowType DEF AskAgain
<1>2. CASE current \notin aborted
  <2>1. Goto(c, "details") /\ UNCHANGED status
    BY <1>2 DEF AskAgain
  <2> QED
    BY <2>1, GotoType DEF CallTypeOK, CallStates, TypeOK, StateTypeOK, AnyStatus
<1> QED
  BY <1>1, <1>2

LEMMA DecidedType ==
  ASSUME TypeOK, NEW c \in Call, NEW o \in Answers \cup {"once"}, Decided(c, o)
  PROVE  /\ CallTypeOK
         /\ answer' \in [Call -> Answers \cup {"none", "once"}]
         /\ rules' \in SUBSET Tool
         /\ sandboxed' \in SUBSET Call
         /\ result' = result
<1>1. answer' \in [Call -> Answers \cup {"none", "once"}]
  BY DEF Decided, SandboxDecided, RulesAfter, TypeOK
<1>2. CASE c \notin sandboxed
  <2>1. /\ Goto(c, "update")
        /\ rules' = IF o = "always" THEN rules \cup {tool[c]} ELSE rules
        /\ UNCHANGED <<status, sandboxed, result>>
    BY <1>2 DEF Decided, SandboxDecided, RulesAfter
  <2>2. CallTypeOK
    BY <2>1, GotoType DEF CallTypeOK, CallStates, TypeOK, StateTypeOK, AnyStatus
  <2> QED
    BY <1>1, <2>1, <2>2 DEF TypeOK
<1>3. CASE c \in sandboxed
  <2>1. /\ sandboxed' = sandboxed \ {c}
        /\ \/ Settle(c, "error")
           \/ Settle(c, "cancelled")
           \/ status' = UpdateStatus(status, c, "executing") /\ Goto(c, "exec")
        /\ UNCHANGED <<rules, result>>
    BY <1>3 DEF Decided, SandboxDecided, RulesAfter
  <2>2. CallTypeOK
    <3>1. CASE Settle(c, "error")
      BY <3>1, SettleType, StatusOf
    <3>2. CASE Settle(c, "cancelled")
      BY <3>2, SettleType, StatusOf
    <3>3. CASE status' = UpdateStatus(status, c, "executing") /\ Goto(c, "exec")
      BY <3>3, GotoType, UpdateStatusType, StatusOf
      DEF CallTypeOK, CallStates, TypeOK, StateTypeOK, AnyStatus
    <3> QED
      BY <2>1, <3>1, <3>2, <3>3
  <2> QED
    BY <1>1, <2>1, <2>2 DEF TypeOK
<1> QED
  BY <1>2, <1>3

-----------------------------------------------------------------------------
(* Type correctness.                                                       *)

LEMMA TypeInit == Init => TypeOK
<1> SUFFICES ASSUME Init PROVE TypeOK
  OBVIOUS
<1>1. StateTypeOK
  BY EmptySeq DEF Init, StateInit, StateTypeOK
<1>2. requestQueue \in Seq(Batch)
  BY EmptySeq DEF Init
<1>3. /\ current \in Batch \cup {NoBatch} /\ isCancelling \in BOOLEAN
      /\ promise \in [Batch -> PromiseStates]
      /\ aborted \in SUBSET Batch
      /\ loop \in LoopStates
      /\ reply \in [Call -> Status \cup {"none"}]
      /\ seen \in [Call -> Status \cup {"none"}]
  BY DEF Init, LoopStates, PromiseStates
<1>4. /\ pc \in [Call -> CallStates]
      /\ tool \in [Call -> Tool]
      /\ args \in [Call -> Call]
      /\ asked \in SUBSET Call /\ sandboxed \in SUBSET Call
      /\ answer \in [Call -> Answers \cup {"none", "once"}]
      /\ result \in [Call -> Verdicts \cup {"none"}]
  BY ToolsAssumption DEF Init, CallStates
<1>5. /\ rounds \in [Call -> Nat]
      /\ tails \in [Call -> Nat]
      /\ rules \in SUBSET Tool /\ background \in SUBSET Call
      /\ approved \in SUBSET (Call \X Tool \X Call)
  BY ChoicesAssumption DEF Init
<1> QED
  BY <1>1, <1>2, <1>3, <1>4, <1>5 DEF TypeOK

LEMMA CompleteType ==
  ASSUME TypeOK, NEW S
  PROVE  Complete(S) \in [Call -> Nat]
  BY DEF Complete, TypeOK, StateTypeOK

LEMMA WithoutType ==
  ASSUME NEW s \in Seq(Batch), NEW x, x \in {s[i] : i \in DOMAIN s}
  PROVE  Without(s, x) \in Seq(Batch)
<1> DEFINE i == CHOOSE i \in DOMAIN s : s[i] = x
<1>1. i \in 1 .. Len(s) /\ Len(s) \in Nat
  BY LenProperties
<1> HIDE DEF i
<1>2. \A k \in 1 .. Len(s) : s[k] \in Batch
  BY ElementOfSeq
<1>3. SubSeq(s, 1, i - 1) \in Seq(Batch)
  <2>1. \A k \in 1 .. i - 1 : s[k] \in Batch
    BY <1>1, <1>2
  <2> QED
    BY <1>1, <2>1, SubSeqProperties
<1>4. SubSeq(s, i + 1, Len(s)) \in Seq(Batch)
  <2>1. \A k \in i + 1 .. Len(s) : s[k] \in Batch
    BY <1>1, <1>2
  <2> QED
    BY <1>1, <2>1, SubSeqProperties
<1>5. SubSeq(s, 1, i - 1) \o SubSeq(s, i + 1, Len(s)) \in Seq(Batch)
  BY <1>3, <1>4, ConcatProperties
<1> QED
  BY <1>5 DEF Without, i

LEMMA TypeStep == TypeOK /\ [Next]_vars => TypeOK'
<1> SUFFICES ASSUME TypeOK, [Next]_vars PROVE TypeOK'
  OBVIOUS
<1> USE DEF StateTypeOK, AnyStatus, stateVars, batchVars, callVars
<1>1. ASSUME NEW b \in Batch, StartBatch(b)
      PROVE  /\ current' \in Batch /\ isCancelling' \in BOOLEAN
             /\ queue' \in Seq(Call) /\ loop' \in LoopStates
             /\ status' \in [Call -> AnyStatus] /\ results' \in [Call -> Nat]
  <2>1. queue' \in Seq(Call)
    BY <1>1, TopicFirstKeeps, ConcatProperties DEF StartBatch, TypeOK
  <2>2. status' \in [Call -> AnyStatus]
    BY <1>1, StatusOf DEF StartBatch, TypeOK
  <2> QED
    BY <1>1, <2>1, <2>2 DEF StartBatch, LoopStates
<1>2. ASSUME NEW b \in Batch, Schedule(b)
      PROVE  TypeOK'
  <2>1. promise' \in [Batch -> PromiseStates]
    <3>1. \E p \in PromiseStates : promise' = [promise EXCEPT ![b] = p]
      BY <1>2 DEF Schedule, PromiseStates
    <3> QED
      BY <3>1 DEF TypeOK
  <2>4. requestQueue' \in Seq(Batch)
    <3>1. JoinQueue(b) \in Seq(Batch)
      BY AppendProperties DEF JoinQueue, TypeOK
    <3> QED
      BY <1>2, <3>1 DEF Schedule, TypeOK
  <2>2. \/ StartBatch(b)
        \/ UNCHANGED <<current, isCancelling, queue, status, results, loop>>
    BY <1>2 DEF Schedule
  <2>3. UNCHANGED <<wave, active, reply, aborted, seen, pc, callVars>>
    BY <1>2 DEF Schedule
  <2> QED
    BY <1>1, <2>1, <2>2, <2>3, <2>4 DEF TypeOK
<1>3. ASSUME FinishBatch
      PROVE  TypeOK'
  <2>1. reply' \in [Call -> AnyStatus]
    BY <1>3 DEF FinishBatch, TypeOK
  <2>2. requestQueue # <<>> => Head(requestQueue) \in Batch /\ Tail(requestQueue) \in Seq(Batch)
    BY HeadTailProperties DEF TypeOK
  <2>3. promise' \in [Batch -> PromiseStates]
    BY <1>3 DEF FinishBatch, TypeOK, PromiseStates
  <2>6. requestQueue' \in Seq(Batch)
    <3>1. requestQueue # <<>> => Append(Tail(requestQueue), Head(requestQueue)) \in Seq(Batch)
      BY <2>2, AppendProperties
    <3> QED
      BY <1>3, <2>2, <3>1 DEF FinishBatch, HasNext, TypeOK
  <2>4. \/ \E b \in Batch : StartBatch(b)
        \/ /\ current' = NoBatch /\ loop' = "idle" /\ results' = [c \in Call |-> 0]
           /\ UNCHANGED <<isCancelling, queue, status>>
    BY <1>3, <2>2 DEF FinishBatch, HasNext
  <2>5. UNCHANGED <<wave, active, aborted, seen, pc, callVars>>
    BY <1>3 DEF FinishBatch
  <2> QED
    <3>1. CASE \E b \in Batch : StartBatch(b)
      BY <1>1, <2>1, <2>3, <2>5, <2>6, <3>1 DEF TypeOK
    <3>2. CASE /\ current' = NoBatch /\ loop' = "idle" /\ results' = [c \in Call |-> 0]
               /\ UNCHANGED <<isCancelling, queue, status>>
      BY <2>1, <2>3, <2>5, <2>6, <3>2 DEF TypeOK, LoopStates
    <3> QED
      BY <2>4, <3>1, <3>2
<1>4. ASSUME NEW st \in [Call -> AnyStatus], CancelAllQueued(st)
      PROVE  /\ status' \in [Call -> AnyStatus]
             /\ results' \in [Call -> Nat]
             /\ queue' \in Seq(Call)
  BY <1>4, CancelQueuedType, CompleteType, EmptySeq DEF CancelAllQueued
<1>5. CASE QueueDrained
  BY <1>5 DEF QueueDrained, TypeOK, LoopStates
<1>6. CASE StopLoop
  BY <1>4, <1>6 DEF StopLoop, TypeOK, LoopStates
<1>7. ASSUME NEW n \in 1 .. Len(queue), Dequeue(n)
      PROVE  wave' \in Seq(Call) /\ queue' \in Seq(Call)
  <2>1. Len(queue) \in Nat /\ \A i \in 1 .. Len(queue) : queue[i] \in Call
    BY LenProperties, ElementOfSeq DEF TypeOK
  <2>2. wave' \in Seq(Call)
    BY <1>7, <2>1, SubSeqProperties DEF Dequeue
  <2>3. \A i \in n + 1 .. Len(queue) : queue[i] \in Call
    BY <2>1
  <2>4. queue' \in Seq(Call)
    BY <1>7, <2>1, <2>3, SubSeqProperties DEF Dequeue
  <2> QED
    BY <2>2, <2>4
<1>8. CASE FinalizeErrored
  <2>1. 1 \in 1 .. Len(queue)
    BY <1>8, EmptySeq, LenProperties DEF FinalizeErrored, TypeOK
  <2>2. wave' \in Seq(Call) /\ queue' \in Seq(Call)
    BY <1>7, <1>8, <2>1 DEF FinalizeErrored
  <2> QED
    BY <1>8, <2>2, CompleteType DEF FinalizeErrored, TypeOK, LoopStates
<1>9. CASE StartWave
  <2>1. PICK n \in 1 .. Len(queue) :
          /\ Dequeue(n)
          /\ active' = {queue[i] : i \in 1 .. n}
          /\ Validate({queue[i] : i \in 1 .. n})
    BY <1>9 DEF StartWave
  <2>2. wave' \in Seq(Call) /\ queue' \in Seq(Call)
    BY <1>7, <2>1
  <2>3. active' \in SUBSET Call
    BY <2>1, ElementOfSeq, LenProperties DEF TypeOK
  <2>4. /\ pc' \in [Call -> CallStates]
        /\ answer' \in [Call -> Answers \cup {"none", "once"}]
        /\ result' \in [Call -> Verdicts \cup {"none"}]
        /\ sandboxed' \in SUBSET Call
        /\ loop' \in LoopStates
    BY <2>1 DEF Validate, TypeOK, CallStates, LoopStates
  <2> QED
    BY <1>9, <2>2, <2>3, <2>4 DEF StartWave, TypeOK
<1>10. CASE Revisit
  BY <1>10 DEF Revisit, TypeOK, LoopStates, CallStates
<1>11. CASE StartExecution
  BY <1>11, StatusOf DEF StartExecution, TypeOK, LoopStates, CallStates
<1>12. ASSUME FinalizeTerminal
       PROVE  TypeOK'
  <2>1. results' \in [Call -> Nat] /\ active' \in SUBSET Call
    BY <1>12, CompleteType DEF FinalizeTerminal, TypeOK
  <2>2. loop' \in LoopStates /\ pc' \in [Call -> CallStates]
    BY <1>12 DEF FinalizeTerminal, LoopStates, CallStates
  <2> QED
    BY <1>12, <2>1, <2>2 DEF FinalizeTerminal, TypeOK
<1>13. CASE NothingToExecute
  BY <1>12, <1>13 DEF NothingToExecute
<1>14. CASE ExecutionDone
  BY <1>12, <1>14 DEF ExecutionDone
<1>15. ASSUME NEW c \in Call, HookReturns(c)
      PROVE  TypeOK'
  <2>1. CallTypeOK
    BY <1>15, SettleType, GotoType, StatusOf DEF HookReturns, CallTypeOK, CallStates, TypeOK
  <2> QED
    <3>1. asked' \in SUBSET Call
      BY <1>15 DEF HookReturns, TypeOK
    <3>2. UNCHANGED <<queue, wave, active, results, batchVars, loop, seen, tool, args,
                      sandboxed, answer, result, rounds, tails, rules, background, approved>>
      BY <1>15 DEF HookReturns
    <3> QED
      BY <2>1, <3>1, <3>2 DEF CallTypeOK, TypeOK
<1>16. ASSUME NEW c \in Call, PolicyReturns(c)
      PROVE  TypeOK'
  <2>1. CallTypeOK
    BY <1>16, SettleType, ThrowType, AskAgainType, StatusOf DEF PolicyReturns
  <2> QED
    BY <1>16, <2>1 DEF PolicyReturns, CallTypeOK, TypeOK
<1>17. ASSUME NEW c \in Call, DetailsReturn(c)
      PROVE  TypeOK'
  <2>1. /\ CallTypeOK
        /\ answer' \in [Call -> Answers \cup {"none", "once"}]
        /\ rules' \in SUBSET Tool
        /\ sandboxed' \in SUBSET Call
        /\ result' = result
    <3>1. CASE Decided(c, "once")
      BY <3>1, DecidedType
    <3>2. CASE Throw(c) /\ UNCHANGED <<sandboxed, answer, result, rules>>
      BY <3>2, ThrowType DEF TypeOK
    <3>3. CASE Goto(c, "notify") /\ UNCHANGED <<status, sandboxed, answer, result, rules>>
      BY <3>3, GotoType DEF TypeOK, CallTypeOK, CallStates
    <3> QED
      BY <1>17, <3>1, <3>2, <3>3 DEF DetailsReturn
  <2> QED
    BY <1>17, <2>1 DEF DetailsReturn, CallTypeOK, TypeOK
<1>18. ASSUME NEW c \in Call, NotifyReturns(c)
      PROVE  TypeOK'
  <2>1. CallTypeOK
    <3>1. CASE current \in aborted
      BY <1>18, <3>1, ThrowType DEF NotifyReturns
    <3>2. CASE current \notin aborted
      <4>1. status' \in [Call -> AnyStatus]
        <5>1. status' = UpdateStatus(status, c, "awaiting")
          BY <1>18, <3>2 DEF NotifyReturns
        <5> QED
          BY <5>1, UpdateStatusType, StatusOf DEF TypeOK
      <4>2. pc' \in [Call -> CallStates]
        BY <1>18, <3>2, GotoType DEF NotifyReturns, CallStates
      <4> QED
        BY <4>1, <4>2 DEF CallTypeOK
    <3> QED
      BY <3>1, <3>2
  <2> QED
    BY <1>18, <2>1 DEF NotifyReturns, CallTypeOK, TypeOK
<1>19. ASSUME NEW c \in Call, AnswerAborted(c)
      PROVE  TypeOK'
  <2>1. CallTypeOK
    BY <1>19, ThrowType DEF AnswerAborted
  <2> QED
    BY <1>19, <2>1 DEF AnswerAborted, CallTypeOK, TypeOK
<1>20. ASSUME NEW c \in Call, NEW o \in Answers, Answer(c, o)
      PROVE  TypeOK'
  <2>1. pc' \in [Call -> CallStates]
    BY <1>20, GotoType DEF Answer, CallStates
  <2>2. answer' \in [Call -> Answers \cup {"none", "once"}]
    BY <1>20 DEF Answer, TypeOK
  <2>3. approved' \in SUBSET (Call \X Tool \X Call)
    BY <1>20 DEF Answer, TypeOK
  <2>4. rounds' \in [Call -> Nat]
    BY <1>20, ChoicesAssumption DEF Answer, TypeOK
  <2>5. UNCHANGED <<stateVars, batchVars, loop, seen, tool, args, asked, sandboxed, result,
                    tails, rules, background>>
    BY <1>20 DEF Answer
  <2> QED
    BY <2>1, <2>2, <2>3, <2>4, <2>5 DEF TypeOK
<1>35. ASSUME NEW c \in Call, ConfirmReturns(c)
      PROVE  TypeOK'
  <2>1. /\ CallTypeOK
        /\ answer' \in [Call -> Answers \cup {"none", "once"}]
        /\ rules' \in SUBSET Tool
        /\ sandboxed' \in SUBSET Call
        /\ result' = result
    <3>1. CASE answer[c] \in {"once", "always", "cancel"} /\ Decided(c, answer[c])
      <4>1. answer[c] \in Answers \cup {"once"}
        BY <3>1 DEF TypeOK
      <4> QED
        BY <3>1, <4>1, DecidedType
    <3>2. CASE Goto(c, "editor") /\ UNCHANGED <<status, sandboxed, answer, result, rules>>
      BY <3>2, GotoType DEF TypeOK, CallTypeOK, CallStates
    <3>3. CASE Goto(c, "inline") /\ UNCHANGED <<status, sandboxed, answer, result, rules>>
      BY <3>3, GotoType DEF TypeOK, CallTypeOK, CallStates
    <3>4. CASE Throw(c) /\ UNCHANGED <<sandboxed, answer, result, rules>>
      BY <3>4, ThrowType DEF TypeOK
    <3> QED
      BY <1>35, <3>1, <3>2, <3>3, <3>4 DEF ConfirmReturns
  <2>2. UNCHANGED <<queue, wave, active, results, batchVars, loop, seen, tool, args,
                    asked, rounds, tails, background, approved>>
    BY <1>35 DEF ConfirmReturns
  <2> QED
    BY <2>1, <2>2 DEF CallTypeOK, TypeOK
<1>36. ASSUME NEW c \in Call, Raises(c)
      PROVE  TypeOK'
  <2>1. CallTypeOK
    BY <1>36, ThrowType, SettleType, StatusOf DEF Raises
  <2> QED
    BY <1>36, <2>1 DEF Raises, CallTypeOK, TypeOK
<1>21. ASSUME NEW c \in Call, EditorReturns(c)
      PROVE  TypeOK'
  <2>1. CallTypeOK
    BY <1>21, ThrowType, AskAgainType DEF EditorReturns
  <2>2. args' \in [Call -> Call]
    <3>1. ASSUME NEW f \in active, TakeEditedArgs(c, f)
          PROVE  args' \in [Call -> Call]
      BY <3>1 DEF TakeEditedArgs, TypeOK
    <3> QED
      BY <1>21, <3>1 DEF EditorReturns, TypeOK
  <2> QED
    BY <1>21, <2>1, <2>2 DEF EditorReturns, CallTypeOK, TypeOK
<1>22. ASSUME NEW c \in Call, InlineReturns(c)
      PROVE  TypeOK'
  <2>1. /\ CallTypeOK
        /\ answer' \in [Call -> Answers \cup {"none", "once"}]
        /\ rules' \in SUBSET Tool
        /\ sandboxed' \in SUBSET Call
        /\ result' = result
    BY <1>22, DecidedType DEF InlineReturns
  <2>2. args' \in [Call -> Call]
    BY <1>22 DEF InlineReturns, TakeEditedArgs, TypeOK
  <2> QED
    BY <1>22, <2>1, <2>2 DEF InlineReturns, CallTypeOK, TypeOK
<1>23. ASSUME NEW c \in Call, UpdateReturns(c)
      PROVE  TypeOK'
  <2>1. pc' \in [Call -> CallStates]
    BY <1>23, GotoType DEF UpdateReturns, CallStates
  <2>2. /\ UpdateStatus(status, c, "cancelled") \in [Call -> AnyStatus]
        /\ UpdateStatus(status, c, "scheduled") \in [Call -> AnyStatus]
    BY UpdateStatusType, StatusOf DEF TypeOK
  <2>3. /\ status' \in [Call -> AnyStatus]
        /\ results' \in [Call -> Nat]
        /\ queue' \in Seq(Call)
    BY <1>4, <1>23, <2>2 DEF UpdateReturns, TypeOK
  <2> QED
    BY <1>23, <2>1, <2>3 DEF UpdateReturns, TypeOK
<1>24. ASSUME NEW c \in Call, NEW v \in Verdicts, ToolReturns(c, v)
      PROVE  TypeOK'
  <2>1. pc' \in [Call -> CallStates]
    BY <1>24, GotoType DEF ToolReturns, CallStates
  <2>2. result' \in [Call -> Verdicts \cup {"none"}] /\ background' \in SUBSET Call
    BY <1>24 DEF ToolReturns, TypeOK
  <2> QED
    BY <1>24, <2>1, <2>2 DEF ToolReturns, TypeOK
<1>25. ASSUME NEW c \in Call, RecordStatus(c)
      PROVE  TypeOK'
  <2>1. CallTypeOK
    BY <1>25, SettleType, StatusOf DEF RecordStatus
  <2> QED
    BY <1>25, <2>1 DEF RecordStatus, CallTypeOK, TypeOK
<1>26. ASSUME NEW c \in Call, RecordTailCall(c)
      PROVE  TypeOK'
  <2>1. pc' \in [Call -> CallStates]
    BY <1>26, GotoType DEF RecordTailCall, CallStates
  <2>2. /\ tool' \in [Call -> Tool]
        /\ status' \in [Call -> AnyStatus]
    <3>1. PICK t \in TailTools, built \in BOOLEAN :
            /\ tool' = [tool EXCEPT ![c] = t]
            /\ status' = [status EXCEPT ![c] = Created(t, built)]
      BY <1>26 DEF RecordTailCall
    <3>2. t \in Tool /\ Created(t, built) \in AnyStatus
      BY StatusOf, ToolsAssumption
    <3> QED
      BY <3>1, <3>2 DEF TypeOK
  <2>3. queue' \in Seq(Call) /\ active' \in SUBSET Call
    BY <1>26, ConcatProperties DEF RecordTailCall, Replace, TypeOK
  <2>4. args' \in [Call -> Call]
    BY <1>26 DEF RecordTailCall, TypeOK
  <2>5. tails' \in [Call -> Nat]
    BY <1>26 DEF RecordTailCall, TypeOK
  <2>6. approved' \in SUBSET (Call \X Tool \X Call)
    BY <1>26 DEF RecordTailCall, TypeOK
  <2> QED
    BY <1>26, <2>1, <2>2, <2>3, <2>4, <2>5, <2>6 DEF RecordTailCall, TypeOK
<1>27. ASSUME NEW c \in Call, RecordSandboxError(c)
      PROVE  TypeOK'
  <2>1. CallTypeOK
    <3>1. CASE Settle(c, "error")
      BY <3>1, SettleType, StatusOf
    <3>2. CASE status' = UpdateStatus(status, c, "awaiting") /\ Goto(c, "details")
      BY <3>2, GotoType, UpdateStatusType, StatusOf DEF CallTypeOK, CallStates, TypeOK
    <3> QED
      BY <1>27, <3>1, <3>2 DEF RecordSandboxError
  <2>2. sandboxed' \in SUBSET Call /\ rounds' \in [Call -> Nat]
    <3>1. \/ UNCHANGED <<sandboxed, rounds>>
          \/ /\ sandboxed' = sandboxed \cup {c}
             /\ rounds' = [rounds EXCEPT ![c] = rounds[c] + 1]
      BY <1>27 DEF RecordSandboxError
    <3> QED
      <4>1. rounds[c] + 1 \in Nat
        BY DEF TypeOK
      <4> QED
        BY <3>1, <4>1 DEF TypeOK
  <2> QED
    BY <1>27, <2>1, <2>2 DEF RecordSandboxError, CallTypeOK, TypeOK
<1>28. ASSUME NEW c \in Call, Output(c)
      PROVE  TypeOK'
  <2>1. status' \in [Call -> AnyStatus]
    BY <1>28, UpdateStatusType, StatusOf DEF Output, TypeOK
  <2> QED
    BY <1>28, <2>1 DEF Output, TypeOK
<1>29. ASSUME NEW c \in Call, OutputAfterResult(c)
      PROVE  TypeOK'
  <2>1. status' \in [Call -> AnyStatus]
    BY <1>29, UpdateStatusType, StatusOf DEF OutputAfterResult, TypeOK
  <2> QED
    BY <1>29, <2>1 DEF OutputAfterResult, TypeOK
<1>30. ASSUME NEW b \in Batch, Abort(b)
      PROVE  TypeOK'
  <2>1. promise' \in [Batch -> PromiseStates] /\ aborted' \in SUBSET Batch
    BY <1>30 DEF Abort, TypeOK, PromiseStates
  <2>2. requestQueue' \in Seq(Batch)
    BY <1>30, WithoutType DEF Abort, TypeOK
  <2> QED
    BY <1>30, <2>1, <2>2 DEF Abort, TypeOK
<1>31. ASSUME CancelEverything
      PROVE  /\ isCancelling' \in BOOLEAN /\ requestQueue' \in Seq(Batch)
             /\ promise' \in [Batch -> PromiseStates]
             /\ status' \in [Call -> AnyStatus]
             /\ results' \in [Call -> Nat] /\ queue' \in Seq(Call)
  <2>1. CASE isCancelling
    BY <1>31, <2>1 DEF CancelEverything, TypeOK
  <2>2. CASE ~isCancelling
    <3>1. [c \in Call |-> IF c \in active /\ status[c] \notin Terminal
                         THEN "cancelled" ELSE status[c]] \in [Call -> AnyStatus]
      BY StatusOf DEF TypeOK
    <3>2. /\ status' \in [Call -> AnyStatus]
          /\ results' \in [Call -> Nat] /\ queue' \in Seq(Call)
      BY <1>4, <1>31, <2>2, <3>1 DEF CancelEverything
    <3>3. promise' \in [Batch -> PromiseStates]
      <4>1. \A b \in Batch : promise[b] \in PromiseStates
        BY DEF TypeOK
      <4> QED
        BY <1>31, <2>2, <4>1 DEF CancelEverything, PromiseStates
    <3>4. isCancelling' \in BOOLEAN /\ requestQueue' \in Seq(Batch)
      BY <1>31, <2>2, EmptySeq DEF CancelEverything
    <3> QED
      BY <3>2, <3>3, <3>4
  <2> QED
    BY <2>1, <2>2
<1>32. CASE CancelAll
  BY <1>31, <1>32 DEF CancelAll, TypeOK
<1>33. CASE UserCancels
  BY <1>31, <1>33 DEF UserCancels, TypeOK
<1>34. CASE UNCHANGED vars
  BY <1>34 DEF TypeOK, vars
<1> QED
  BY <1>2, <1>3, <1>4, <1>5, <1>6, <1>7, <1>8, <1>9, <1>10, <1>11, <1>12, <1>13, <1>14, <1>15, <1>16, <1>17, <1>18, <1>19, <1>20, <1>21, <1>22, <1>23, <1>24, <1>25, <1>26, <1>27, <1>28, <1>29, <1>30, <1>31, <1>32, <1>33, <1>34, <1>35, <1>36
  DEF Next, LoopStep, CallStep, UserStep, CancelStep

\* Every state has the types declared in Scheduler.
THEOREM TypeCorrect == Spec => []TypeOK
<1>1. Init => TypeOK
  BY TypeInit
<1>2. TypeOK /\ [Next]_vars => TypeOK'
  BY TypeStep
<1> QED
  BY <1>1, <1>2, PTL DEF Spec

-----------------------------------------------------------------------------
(* What the pieces of a coroutine do to the state.                         *)

OthersKept(c) == \A d \in Call \ {c} : status'[d] = status[d]
Reaches(c, l) == pc' = [pc EXCEPT ![c] = l]

LEMMA UpdateStatusEffect ==
  ASSUME NEW c \in Call, NEW s \in AnyStatus, NEW st \in [Call -> AnyStatus]
  PROVE  /\ \A d \in Call \ {c} : UpdateStatus(st, c, s)[d] = st[d]
         /\ c \in active => UpdateStatus(st, c, s)[c] \in {s, "error"}
  BY DEF UpdateStatus, Transitions

LEMMA SettleEffect ==
  ASSUME TypeOK, NEW c \in active, NEW s \in Status, Settle(c, s)
  PROVE  Reaches(c, "settled") /\ OthersKept(c) /\ status'[c] \in {s, "error"}
<1>1. c \in Call /\ status \in [Call -> AnyStatus] /\ s \in AnyStatus
  BY DEF TypeOK, StateTypeOK, AnyStatus
<1>2. status' = UpdateStatus(status, c, s) /\ Reaches(c, "settled")
  BY DEF Settle, Goto, Reaches
<1> QED
  BY <1>1, <1>2, UpdateStatusEffect DEF OthersKept

LEMMA ThrowEffect ==
  ASSUME TypeOK, NEW c \in active, Throw(c)
  PROVE  Reaches(c, "settled") /\ OthersKept(c) /\ status'[c] \in Terminal
<1>1. PICK s \in {"error", "cancelled"} : Settle(c, s)
  BY DEF Throw
<1> QED
  BY <1>1, SettleEffect, StatusOf

LEMMA AskAgainEffect ==
  ASSUME TypeOK, NEW c \in active, AskAgain(c)
  PROVE  \/ Reaches(c, "settled") /\ OthersKept(c) /\ status'[c] \in Terminal
         \/ Reaches(c, "details") /\ status' = status
<1>1. CASE current \in aborted
  BY <1>1, ThrowEffect DEF AskAgain
<1>2. CASE current \notin aborted
  BY <1>2 DEF AskAgain, Goto, Reaches
<1> QED
  BY <1>1, <1>2

LEMMA DecidedEffect ==
  ASSUME TypeOK, NEW c \in active, NEW o, Decided(c, o)
  PROVE  /\ OthersKept(c)
         /\ c \notin sandboxed => Reaches(c, "update") /\ sandboxed' = sandboxed
         /\ c \in sandboxed =>
              /\ sandboxed' = sandboxed \ {c}
              /\ \/ Reaches(c, "settled") /\ status'[c] \in Terminal
                 \/ Reaches(c, "exec") /\ MayStart
<1>1. CASE c \notin sandboxed
  BY <1>1 DEF Decided, SandboxDecided, RulesAfter, Goto, Reaches, OthersKept
<1>2. CASE c \in sandboxed
  <2>1. /\ sandboxed' = sandboxed \ {c}
        /\ \/ Settle(c, "error")
           \/ Settle(c, "cancelled")
           \/ status' = UpdateStatus(status, c, "executing") /\ Goto(c, "exec") /\ MayStart
    BY <1>2 DEF Decided, SandboxDecided, RulesAfter
  <2>2. CASE \E s \in {"error", "cancelled"} : Settle(c, s)
    <3>1. PICK s \in {"error", "cancelled"} : Settle(c, s)
      BY <2>2
    <3> QED
      BY <1>2, <2>1, <3>1, SettleEffect, StatusOf
  <2>3. CASE status' = UpdateStatus(status, c, "executing") /\ Goto(c, "exec") /\ MayStart
    <3>1. c \in Call /\ status \in [Call -> AnyStatus] /\ "executing" \in AnyStatus
      BY StatusOf DEF TypeOK, StateTypeOK, AnyStatus
    <3> QED
      BY <1>2, <2>1, <2>3, <3>1, UpdateStatusEffect DEF OthersKept, Goto, Reaches
  <2> QED
    BY <2>1, <2>2, <2>3
<1> QED
  BY <1>1, <1>2

-----------------------------------------------------------------------------
(* No step of a coroutine loses a call.                                    *)

LEMMA QueuedCalls == TypeOK => Queued \subseteq Call
  BY ElementOfSeq DEF TypeOK, StateTypeOK, Queued

\* A coroutine of this turn owns its call, which is in no other place.
LEMMA OwnsCall ==
  ASSUME IInv, NEW c \in Call, pc[c] \notin {"idle", "tailed"}
  PROVE  /\ c \in active /\ c \notin Queued /\ results[c] = 0
         /\ loop \in {"validating", "executing"}
         /\ loop = "validating" => pc[c] \in Validating /\ c \notin sandboxed
         /\ loop = "executing" =>
              /\ pc[c] \in Executing
              /\ pc[c] \in Expansion => c \in sandboxed
<1>1. c \in active /\ loop \in {"validating", "executing"}
  BY DEF IInv, CoroutineInv, Validating
<1> QED
  BY <1>1 DEF IInv, CoroutineInv, QueueInv, LedgerInv

\* A step in which the coroutine of c goes to l and which changes the status of
\* no other call.
Moves(c, l) ==
  /\ Reaches(c, l) /\ OthersKept(c)
  /\ \A d \in Call \ {c} : d \in sandboxed' => d \in sandboxed
  /\ \A d \in Call \ {c} : d \in sandboxed => d \in sandboxed'
  /\ UNCHANGED <<queue, active, results, current, requestQueue, promise, reply, loop,
                 background>>

LEMMA MoveKeeps ==
  ASSUME IInv, TypeOK', NEW c \in Call, NEW l \in CallStates \ {"idle", "tailed"}, Moves(c, l),
         pc[c] \notin {"idle", "tailed"},
         loop = "validating" => l \in Validating /\ c \notin sandboxed',
         loop = "executing" => l \in Executing,
         loop = "executing" /\ l \in Expansion => c \in sandboxed',
         l = "settled" => \/ status'[c] \in Terminal
                          \/ loop = "validating" /\ status'[c] = "scheduled"
  PROVE  IInv'
<1> USE DEF Moves
<1>1. c \in active /\ c \notin Queued /\ results[c] = 0
  BY OwnsCall
<1>2. Queued' = Queued
  BY DEF Queued
<1>3. pc'[c] = l /\ \A d \in Call \ {c} : pc'[d] = pc[d]
  BY DEF Reaches, IInv, TypeOK
<1>4. LoopInv'
  <2>1. active # {}
    BY <1>1
  <2> QED
    BY <2>1 DEF IInv, LoopInv
<1>5. QueueInv'
  <2>1. \A d \in Queued : d \in Call \ {c}
    BY <1>1, QueuedCalls DEF IInv
  <2>2. \A d \in Queued : status'[d] = status[d]
    BY <2>1 DEF OthersKept
  <2> QED
    BY <1>2, <2>2 DEF IInv, QueueInv
<1>6. CoroutineInv'
  <2> SUFFICES ASSUME NEW d \in Call
               PROVE  CoroutineInv!(d)'
    BY DEF CoroutineInv
  <2>1. CASE d = c
    BY <1>1, <1>3, <2>1, OwnsCall
  <2>2. CASE d # c
    BY <1>3, <2>2 DEF IInv, CoroutineInv, OthersKept
  <2> QED
    BY <2>1, <2>2
<1>7. LedgerInv'
  <2>1. \A d \in Call : results[d] = 1 => status'[d] \in Terminal
    BY <1>1 DEF IInv, LedgerInv, OthersKept
  <2> QED
    BY <1>2, <2>1 DEF IInv, LedgerInv
<1>8. NoBackground'
  BY DEF IInv, NoBackground
<1> QED
  BY <1>4, <1>5, <1>6, <1>7, <1>8 DEF IInv
-----------------------------------------------------------------------------
(* The steps of one coroutine.                                             *)

\* What a step of a coroutine leaves alone.
Framed == UNCHANGED <<queue, active, results, current, requestQueue, promise, reply, loop,
                      background>>

LEMMA SettleKeeps ==
  ASSUME IInv, TypeOK', NEW c \in Call, NEW s \in Status, Settle(c, s), Framed,
         UNCHANGED sandboxed, pc[c] \notin {"idle", "tailed"},
         s \in Terminal \/ (loop = "validating" /\ s = "scheduled")
  PROVE  IInv'
<1>1. c \in active /\ TypeOK
  BY OwnsCall DEF IInv
<1>2. Reaches(c, "settled") /\ OthersKept(c) /\ status'[c] \in {s, "error"}
  BY <1>1, SettleEffect
<1>3. Moves(c, "settled")
  BY <1>2 DEF Moves, Framed
<1>4. "settled" \in CallStates \ {"idle", "tailed"} /\ "settled" \in Validating \cap Executing
  BY DEF CallStates, Validating, Executing
<1>5. loop = "validating" => c \notin sandboxed'
  BY OwnsCall
<1>6. status'[c] \in Terminal \/ (loop = "validating" /\ status'[c] = "scheduled")
  BY <1>2, StatusOf
<1> QED
  BY <1>3, <1>4, <1>5, <1>6, MoveKeeps DEF Expansion

LEMMA ThrowKeeps ==
  ASSUME IInv, TypeOK', NEW c \in Call, Throw(c), Framed, UNCHANGED sandboxed,
         pc[c] \notin {"idle", "tailed"}
  PROVE  IInv'
<1>1. PICK s \in {"error", "cancelled"} : Settle(c, s)
  BY DEF Throw
<1>2. s \in Status /\ s \in Terminal
  BY DEF Status, Terminal
<1> QED
  BY <1>1, <1>2, SettleKeeps

\* A step to a point that is not the end of the coroutine.
LEMMA GotoKeeps ==
  ASSUME IInv, TypeOK', NEW c \in Call, NEW l \in CallStates \ {"idle", "tailed", "settled"},
         Reaches(c, l), OthersKept(c), Framed, UNCHANGED sandboxed,
         pc[c] \notin {"idle", "tailed"},
         loop = "validating" => l \in Validating,
         loop = "executing" => l \in Executing,
         loop = "executing" /\ l \in Expansion => c \in sandboxed
  PROVE  IInv'
<1>1. Moves(c, l)
  BY DEF Moves, Framed
<1>2. loop = "validating" => c \notin sandboxed'
  BY OwnsCall
<1> QED
  BY <1>1, <1>2, MoveKeeps

LEMMA AskAgainKeeps ==
  ASSUME IInv, TypeOK', NEW c \in Call, AskAgain(c), Framed, UNCHANGED sandboxed,
         loop = "validating", pc[c] \notin {"idle", "tailed"}
  PROVE  IInv'
<1>1. CASE current \in aborted
  BY <1>1, ThrowKeeps DEF AskAgain
<1>2. CASE current \notin aborted
  <2>1. Reaches(c, "details") /\ OthersKept(c)
    BY <1>2 DEF AskAgain, Goto, Reaches, OthersKept
  <2>2. "details" \in CallStates \ {"idle", "tailed", "settled"} /\ "details" \in Validating
    BY DEF CallStates, Validating
  <2> QED
    BY <2>1, <2>2, GotoKeeps
<1> QED
  BY <1>1, <1>2

LEMMA DecidedKeeps ==
  ASSUME IInv, TypeOK', NEW c \in Call, NEW o, Decided(c, o), Framed,
         pc[c] \in {"details", "confirm", "inline"}
  PROVE  IInv'
<1>1. /\ c \in active /\ TypeOK /\ loop \in {"validating", "executing"}
      /\ loop = "validating" <=> c \notin sandboxed
  BY OwnsCall DEF IInv, Executing, Expansion
<1>2. /\ OthersKept(c)
      /\ c \notin sandboxed => Reaches(c, "update") /\ sandboxed' = sandboxed
      /\ c \in sandboxed =>
           /\ sandboxed' = sandboxed \ {c}
           /\ \/ Reaches(c, "settled") /\ status'[c] \in Terminal
              \/ Reaches(c, "exec") /\ MayStart
  BY <1>1, DecidedEffect
<1>3. CASE c \notin sandboxed
  <2>1. "update" \in CallStates \ {"idle", "tailed", "settled"} /\ "update" \in Validating
    BY DEF CallStates, Validating
  <2> QED
    BY <1>1, <1>2, <1>3, <2>1, GotoKeeps
<1>4. CASE c \in sandboxed
  <2>1. {"settled", "exec"} \subseteq CallStates \ {"idle", "tailed"}
    BY DEF CallStates
  <2>2. {"settled", "exec"} \subseteq Executing
    BY DEF Executing
  <2>3. PICK l \in {"settled", "exec"} :
          Reaches(c, l) /\ (l = "settled" => status'[c] \in Terminal)
    BY <1>2, <1>4
  <2>4. Moves(c, l)
    BY <1>2, <1>4, <2>3 DEF Moves, Framed
  <2>5. loop = "executing" /\ l \notin Expansion
    BY <1>1, <1>4 DEF Expansion
  <2> QED
    BY <2>1, <2>2, <2>3, <2>4, <2>5, MoveKeeps
<1> QED
  BY <1>3, <1>4

LEMMA HookKeeps ==
  ASSUME IInv, TypeOK', NEW c \in Call, HookReturns(c)
  PROVE  IInv'
<1>1. Framed /\ UNCHANGED sandboxed /\ pc[c] = "hook"
  BY DEF HookReturns, Framed, batchVars
<1>2. loop = "validating"
  BY <1>1, OwnsCall DEF Executing
<1>3. CASE Settle(c, "error")
  BY <1>1, <1>3, SettleKeeps DEF Status, Terminal
<1>4. CASE Goto(c, "policy") /\ UNCHANGED status
  <2>1. "policy" \in CallStates \ {"idle", "tailed", "settled"} /\ "policy" \in Validating
    BY DEF CallStates, Validating
  <2>2. Reaches(c, "policy") /\ OthersKept(c)
    BY <1>4 DEF Goto, Reaches, OthersKept
  <2> QED
    BY <1>1, <1>2, <2>1, <2>2, GotoKeeps
<1> QED
  BY <1>3, <1>4 DEF HookReturns

LEMMA PolicyKeeps ==
  ASSUME IInv, TypeOK', NEW c \in Call, PolicyReturns(c)
  PROVE  IInv'
<1>1. Framed /\ UNCHANGED sandboxed /\ pc[c] = "policy"
  BY DEF PolicyReturns, Framed, batchVars
<1>2. loop = "validating"
  BY <1>1, OwnsCall DEF Executing
<1>3. \/ Throw(c) \/ Settle(c, "error") \/ Settle(c, "scheduled") \/ AskAgain(c)
  BY DEF PolicyReturns
<1>4. {"error", "scheduled"} \subseteq Status /\ "error" \in Terminal
  BY DEF Status, Terminal
<1>5. CASE Throw(c)
  BY <1>1, <1>5, ThrowKeeps
<1>6. CASE Settle(c, "error")
  BY <1>1, <1>4, <1>6, SettleKeeps
<1>7. CASE Settle(c, "scheduled")
  BY <1>1, <1>2, <1>4, <1>7, SettleKeeps
<1>8. CASE AskAgain(c)
  BY <1>1, <1>2, <1>8, AskAgainKeeps
<1> QED
  BY <1>3, <1>5, <1>6, <1>7, <1>8

LEMMA DetailsKeeps ==
  ASSUME IInv, TypeOK', NEW c \in Call, DetailsReturn(c)
  PROVE  IInv'
<1>1. Framed /\ pc[c] = "details"
  BY DEF DetailsReturn, Framed, batchVars
<1>2. \/ Throw(c) /\ UNCHANGED sandboxed
      \/ Decided(c, "once")
      \/ Goto(c, "notify") /\ UNCHANGED <<status, sandboxed>>
  BY DEF DetailsReturn
<1>3. CASE Throw(c) /\ UNCHANGED sandboxed
  BY <1>1, <1>3, ThrowKeeps
<1>4. CASE Decided(c, "once")
  BY <1>1, <1>4, DecidedKeeps
<1>5. CASE Goto(c, "notify") /\ UNCHANGED <<status, sandboxed>>
  <2>1. /\ "notify" \in CallStates \ {"idle", "tailed", "settled"}
        /\ "notify" \in Validating \cap Executing
    BY DEF CallStates, Validating, Executing
  <2>2. Reaches(c, "notify") /\ OthersKept(c)
    BY <1>5 DEF Goto, Reaches, OthersKept
  <2>3. loop = "executing" => c \in sandboxed
    BY <1>1, OwnsCall DEF Expansion
  <2> QED
    BY <1>1, <1>5, <2>1, <2>2, <2>3, GotoKeeps
<1> QED
  BY <1>2, <1>3, <1>4, <1>5

LEMMA NotifyKeeps ==
  ASSUME IInv, TypeOK', NEW c \in Call, NotifyReturns(c)
  PROVE  IInv'
<1>1. Framed /\ UNCHANGED sandboxed /\ pc[c] = "notify"
  BY DEF NotifyReturns, Framed, batchVars
<1>2. CASE Throw(c)
  BY <1>1, <1>2, ThrowKeeps
<1>3. CASE status' = UpdateStatus(status, c, "awaiting") /\ Goto(c, "answer")
  <2>1. /\ "answer" \in CallStates \ {"idle", "tailed", "settled"}
        /\ "answer" \in Validating \cap Executing
    BY DEF CallStates, Validating, Executing
  <2>2. c \in Call /\ status \in [Call -> AnyStatus] /\ "awaiting" \in AnyStatus
    BY StatusOf DEF IInv, TypeOK, StateTypeOK, AnyStatus
  <2>3. Reaches(c, "answer") /\ OthersKept(c)
    BY <1>3, <2>2, UpdateStatusEffect DEF Goto, Reaches, OthersKept
  <2>4. loop = "executing" => c \in sandboxed
    BY <1>1, OwnsCall DEF Expansion
  <2> QED
    BY <1>1, <2>1, <2>3, <2>4, GotoKeeps
<1> QED
  BY <1>2, <1>3 DEF NotifyReturns

LEMMA AbortedAnswerKeeps ==
  ASSUME IInv, TypeOK', NEW c \in Call, AnswerAborted(c)
  PROVE  IInv'
  BY ThrowKeeps DEF AnswerAborted, Framed, batchVars, callVars

LEMMA AnswerKeeps ==
  ASSUME IInv, TypeOK', NEW c \in Call, NEW o, Answer(c, o)
  PROVE  IInv'
<1>1. Framed /\ UNCHANGED <<status, sandboxed>> /\ pc[c] = "answer" /\ Goto(c, "confirm")
  BY DEF Answer, Framed, batchVars, stateVars
<1>2. /\ "confirm" \in CallStates \ {"idle", "tailed", "settled"}
      /\ "confirm" \in Validating \cap Executing
  BY DEF CallStates, Validating, Executing
<1>3. Reaches(c, "confirm") /\ OthersKept(c)
  BY <1>1 DEF Goto, Reaches, OthersKept
<1>4. loop = "executing" => c \in sandboxed
  BY <1>1, OwnsCall DEF Expansion
<1> QED
  BY <1>1, <1>2, <1>3, <1>4, GotoKeeps

LEMMA ConfirmKeeps ==
  ASSUME IInv, TypeOK', NEW c \in Call, ConfirmReturns(c)
  PROVE  IInv'
<1>1. Framed /\ pc[c] = "confirm"
  BY DEF ConfirmReturns, Framed, batchVars
<1>2. \/ \E o \in {"once", "always", "cancel"} : Decided(c, o)
      \/ \E l \in {"editor", "inline"} :
           c \notin sandboxed /\ Goto(c, l) /\ UNCHANGED <<status, sandboxed>>
      \/ Throw(c) /\ UNCHANGED sandboxed
  BY DEF ConfirmReturns
<1>3. ASSUME NEW o \in {"once", "always", "cancel"}, Decided(c, o)
      PROVE  IInv'
  BY <1>1, <1>3, DecidedKeeps
<1>4. CASE Throw(c) /\ UNCHANGED sandboxed
  BY <1>1, <1>4, ThrowKeeps
<1>5. ASSUME NEW l \in {"editor", "inline"}, c \notin sandboxed,
             Goto(c, l), UNCHANGED <<status, sandboxed>>
      PROVE  IInv'
  <2>1. loop = "validating"
    BY <1>1, <1>5, OwnsCall DEF Expansion
  <2>2. l \in CallStates \ {"idle", "tailed", "settled"} /\ l \in Validating
    BY <1>5 DEF CallStates, Validating
  <2>3. Reaches(c, l) /\ OthersKept(c)
    BY <1>5 DEF Goto, Reaches, OthersKept
  <2> QED
    BY <1>1, <1>5, <2>1, <2>2, <2>3, GotoKeeps
<1> QED
  BY <1>2, <1>3, <1>4, <1>5

LEMMA RaisesKeeps ==
  ASSUME IInv, TypeOK', NEW c \in Call, Raises(c)
  PROVE  IInv'
<1>1. Framed /\ UNCHANGED sandboxed /\ pc[c] \notin {"idle", "tailed"}
  BY DEF Raises, Framed, batchVars, callVars
<1>2. CASE Throw(c)
  BY <1>1, <1>2, ThrowKeeps
<1>3. CASE Settle(c, "cancelled")
  BY <1>1, <1>3, SettleKeeps DEF Status, Terminal
<1> QED
  BY <1>2, <1>3 DEF Raises

LEMMA EditorKeeps ==
  ASSUME IInv, TypeOK', NEW c \in Call, EditorReturns(c)
  PROVE  IInv'
<1>1. Framed /\ UNCHANGED sandboxed /\ pc[c] = "editor"
  BY DEF EditorReturns, Framed, batchVars
<1>2. loop = "validating"
  BY <1>1, OwnsCall DEF Executing
<1>3. AskAgain(c) \/ Throw(c)
  BY DEF EditorReturns
<1> QED
  BY <1>1, <1>2, <1>3, AskAgainKeeps, ThrowKeeps

LEMMA InlineKeeps ==
  ASSUME IInv, TypeOK', NEW c \in Call, InlineReturns(c)
  PROVE  IInv'
  BY DecidedKeeps DEF InlineReturns, Framed, batchVars

LEMMA ToolKeeps ==
  ASSUME BackgroundTools = {}, IInv, TypeOK', NEW c \in Call, NEW v, ToolReturns(c, v)
  PROVE  IInv'
<1>1. Framed /\ UNCHANGED <<sandboxed, status>> /\ pc[c] = "exec" /\ Goto(c, "record")
  BY DEF ToolReturns, Framed, batchVars, stateVars
<1>2. loop = "executing"
  BY <1>1, OwnsCall DEF Validating
<1>3. "record" \in CallStates \ {"idle", "tailed", "settled"} /\ "record" \in Executing
  BY DEF CallStates, Executing
<1>4. Reaches(c, "record") /\ OthersKept(c)
  BY <1>1 DEF Goto, Reaches, OthersKept
<1> QED
  BY <1>1, <1>2, <1>3, <1>4, GotoKeeps DEF Expansion

LEMMA RecordStatusKeeps ==
  ASSUME IInv, TypeOK', NEW c \in Call, RecordStatus(c)
  PROVE  IInv'
  BY SettleKeeps DEF RecordStatus, Framed, batchVars, callVars, Status

LEMMA SandboxErrorKeeps ==
  ASSUME IInv, TypeOK', NEW c \in Call, RecordSandboxError(c)
  PROVE  IInv'
<1>1. Framed /\ pc[c] = "record"
  BY DEF RecordSandboxError, Framed, batchVars
<1>2. loop = "executing" /\ c \in active /\ TypeOK
  BY <1>1, OwnsCall DEF Validating, IInv
<1>3. "error" \in Status /\ "error" \in Terminal
  BY DEF Status, Terminal
<1>4. CASE Settle(c, "error") /\ UNCHANGED sandboxed
  BY <1>1, <1>3, <1>4, SettleKeeps
<1>5. CASE sandboxed' = sandboxed \cup {c} /\ Settle(c, "error")
  <2>1. Reaches(c, "settled") /\ OthersKept(c) /\ status'[c] = "error"
    BY <1>2, <1>3, <1>5, SettleEffect
  <2>2. Moves(c, "settled")
    BY <1>1, <1>5, <2>1 DEF Moves, Framed
  <2>3. "settled" \in CallStates \ {"idle", "tailed"} /\ "settled" \in Executing
    BY DEF CallStates, Executing
  <2> QED
    BY <1>1, <1>2, <1>3, <2>1, <2>2, <2>3, MoveKeeps DEF Expansion
<1>6. CASE /\ sandboxed' = sandboxed \cup {c}
           /\ status' = UpdateStatus(status, c, "awaiting") /\ Goto(c, "details")
  <2>1. status \in [Call -> AnyStatus] /\ "awaiting" \in AnyStatus
    BY <1>2, StatusOf DEF TypeOK, StateTypeOK, AnyStatus
  <2>2. Reaches(c, "details") /\ OthersKept(c)
    BY <1>6, <2>1, UpdateStatusEffect DEF Goto, Reaches, OthersKept
  <2>3. Moves(c, "details")
    BY <1>1, <1>6, <2>2 DEF Moves, Framed
  <2>4. "details" \in CallStates \ {"idle", "tailed"} /\ "details" \in Executing
    BY DEF CallStates, Executing
  <2> QED
    BY <1>1, <1>2, <1>6, <2>3, <2>4, MoveKeeps
<1> QED
  BY <1>4, <1>5, <1>6 DEF RecordSandboxError

LEMMA OutputKeeps ==
  ASSUME IInv, TypeOK', NEW c \in Call, Output(c)
  PROVE  IInv'
<1>1. Framed /\ UNCHANGED <<sandboxed, pc>> /\ pc[c] = "exec"
  BY DEF Output, Framed, batchVars, callVars
<1>2. loop = "executing" /\ TypeOK
  BY <1>1, OwnsCall DEF Validating, IInv
<1>3. status \in [Call -> AnyStatus] /\ "executing" \in AnyStatus
  BY <1>2, StatusOf DEF TypeOK, StateTypeOK, AnyStatus
<1>4. OthersKept(c)
  BY <1>3, UpdateStatusEffect DEF Output, OthersKept
<1>5. Reaches(c, "exec")
  BY <1>1, <1>2 DEF Reaches, TypeOK
<1>6. "exec" \in CallStates \ {"idle", "tailed", "settled"} /\ "exec" \in Executing
  BY DEF CallStates, Executing
<1> QED
  BY <1>1, <1>2, <1>4, <1>5, <1>6, GotoKeeps DEF Expansion

\* Without background processes there is no late output.
LEMMA NoLateOutput ==
  ASSUME IInv, NEW c \in Call
  PROVE  ~OutputAfterResult(c)
  BY DEF IInv, NoBackground, OutputAfterResult

LEMMA CallsOfType == \A b \in Batch : CallsOf(b) \subseteq Call
  BY RequestsAssumption, ElementOfSeq DEF CallsOf

-----------------------------------------------------------------------------
(* Steps that move calls between the containers.                           *)

LEMMA CancelEffect ==
  ASSUME TypeOK, NEW st \in [Call -> AnyStatus], CancelAllQueued(st)
  PROVE  /\ queue' = <<>> /\ Queued' = {}
         /\ \A d \in Queued : status'[d] \in Terminal /\ results'[d] = results[d] + 1
         /\ \A d \in Call \ Queued : status'[d] = st[d] /\ results'[d] = results[d]
<1>1. queue' = <<>> /\ Queued' = {}
  BY DEF CancelAllQueued, Queued
<1>2. Queued \subseteq Call
  BY QueuedCalls
<1>3. \A d \in Call : status'[d] = IF d \in Queued /\ st[d] # "error" THEN "cancelled" ELSE st[d]
  BY DEF CancelAllQueued, CancelQueued
<1>4. \A d \in Call : results'[d] = IF d \in Queued THEN results[d] + 1 ELSE results[d]
  BY DEF CancelAllQueued, Complete
<1>5. {"cancelled", "error"} \subseteq Terminal
  BY DEF Terminal
<1> QED
  BY <1>1, <1>2, <1>3, <1>4, <1>5

\* Dropping the queue keeps the ledger: each call it held is reported.
LEMMA CancelLedger ==
  ASSUME IInv, NEW st \in [Call -> AnyStatus], CancelAllQueued(st),
         \A d \in Call : results[d] = 1 => st[d] \in Terminal,
         UNCHANGED <<active, current, reply>>,
         \A b \in Batch : promise'[b] = "resolved" => promise[b] = "resolved"
  PROVE  QueueInv' /\ LedgerInv'
<1>1. TypeOK /\ Queued \subseteq Call
  BY QueuedCalls DEF IInv
<1>2. /\ queue' = <<>> /\ Queued' = {}
      /\ \A d \in Queued : status'[d] \in Terminal /\ results'[d] = results[d] + 1
      /\ \A d \in Call \ Queued : status'[d] = st[d] /\ results'[d] = results[d]
  BY <1>1, CancelEffect
<1>3. QueueInv'
  BY <1>2 DEF QueueInv
<1>4. \A c \in Call : c \in Queued => results[c] = 0 /\ results'[c] = 1
  BY <1>1, <1>2 DEF IInv, LedgerInv
<1>5. \A c \in Call : /\ results'[c] \in {0, 1}
                      /\ results'[c] = 1 => status'[c] \in Terminal
                      /\ c \in active' \/ c \in Queued' => results'[c] = 0
  <2> TAKE c \in Call
  <2>1. CASE c \in Queued
    BY <1>2, <1>4, <2>1 DEF IInv, QueueInv
  <2>2. CASE c \notin Queued
    BY <1>2, <2>2 DEF IInv, LedgerInv
  <2> QED
    BY <2>1, <2>2
<1>6. current' # NoBatch =>
        \A c \in CallsOf(current') : c \in active' \/ c \in Queued' \/ results'[c] = 1
  <2> SUFFICES ASSUME current # NoBatch, NEW c \in CallsOf(current)
               PROVE  c \in active \/ results'[c] = 1
    OBVIOUS
  <2>1. c \in Call
    BY <1>1, CallsOfType DEF TypeOK
  <2>2. c \in active \/ c \in Queued \/ results[c] = 1
    BY DEF IInv, LedgerInv
  <2> QED
    BY <1>2, <1>4, <2>1, <2>2
<1>7. \A b \in Batch : promise'[b] = "resolved" => \A c \in CallsOf(b) : reply'[c] \in Terminal
  BY DEF IInv, LedgerInv
<1> QED
  BY <1>3, <1>5, <1>6, <1>7 DEF LedgerInv

LEMMA UpdateKeeps ==
  ASSUME IInv, TypeOK', NEW c \in Call, UpdateReturns(c)
  PROVE  IInv'
<1>1. /\ pc[c] = "update" /\ c \in active /\ c \notin Queued /\ results[c] = 0
      /\ TypeOK /\ loop = "validating" /\ c \notin sandboxed
  BY OwnsCall DEF UpdateReturns, IInv, Executing
<1>2. /\ UNCHANGED <<active, current, requestQueue, promise, reply, loop, background, sandboxed>>
      /\ Goto(c, "settled")
  BY DEF UpdateReturns, batchVars, callVars
<1>3. CASE answer[c] # "cancel"
  <2>1. Framed /\ UNCHANGED sandboxed /\ Settle(c, "scheduled")
    BY <1>2, <1>3 DEF UpdateReturns, Framed, Settle
  <2>2. "scheduled" \in Status
    BY DEF Status
  <2> QED
    BY <1>1, <2>1, <2>2, SettleKeeps
<1>4. CASE answer[c] = "cancel"
  <2> DEFINE st == UpdateStatus(status, c, "cancelled")
  <2>1. CancelAllQueued(st)
    BY <1>4 DEF UpdateReturns
  <2>2. status \in [Call -> AnyStatus] /\ "cancelled" \in AnyStatus
    BY <1>1, StatusOf DEF TypeOK, StateTypeOK, AnyStatus
  <2>3. st \in [Call -> AnyStatus]
    <3>1. "cancelled" \in Status
      BY DEF Status, Terminal
    <3> QED
      BY <2>2, <3>1, UpdateStatusType
  <2>4. st[c] \in {"cancelled", "error"} /\ \A d \in Call \ {c} : st[d] = status[d]
    BY <1>1, <2>2, UpdateStatusEffect
  <2> HIDE DEF st
  <2>5. QueueInv' /\ LedgerInv'
    <3>1. \A d \in Call : results[d] = 1 => st[d] \in Terminal
      BY <1>1, <2>4 DEF IInv, LedgerInv
    <3> QED
      BY <1>2, <2>1, <2>3, <3>1, CancelLedger
  <2>6. /\ queue' = <<>>
        /\ \A d \in Call \ Queued : status'[d] = st[d]
    BY <1>1, <2>1, <2>3, CancelEffect
  <2>7. LoopInv' /\ NoBackground'
    BY <1>1, <1>2, <2>6 DEF IInv, LoopInv, NoBackground
  <2>8. CoroutineInv'
    <3>1. \A d \in Call : pc'[d] = IF d = c THEN "settled" ELSE pc[d]
      BY <1>1, <1>2 DEF Goto, TypeOK
    <3>2. \A d \in active \ {c} : status'[d] = status[d]
      BY <1>1, <2>4, <2>6 DEF IInv, QueueInv, TypeOK, StateTypeOK
    <3>3. status'[c] \in Terminal
      BY <1>1, <2>4, <2>6 DEF Terminal
    <3> SUFFICES ASSUME NEW d \in Call
                 PROVE  CoroutineInv!(d)'
      BY DEF CoroutineInv
    <3>4. CASE d = c
      BY <1>1, <1>2, <3>1, <3>3, <3>4 DEF Validating
    <3>5. CASE d # c
      BY <1>1, <1>2, <3>1, <3>2, <3>5 DEF IInv, CoroutineInv
    <3> QED
      BY <3>4, <3>5
  <2> QED
    BY <2>5, <2>7, <2>8 DEF IInv
<1> QED
  BY <1>3, <1>4

\* A call put back at the head of the queue.
LEMMA HeadEffect ==
  ASSUME TypeOK, NEW c \in Call, c \notin Queued, queue' = <<c>> \o queue,
         \A i, j \in DOMAIN queue : queue[i] = queue[j] => i = j
  PROVE  /\ Queued' = Queued \cup {c}
         /\ \A i, j \in DOMAIN queue' : queue'[i] = queue'[j] => i = j
<1>1. queue \in Seq(Call) /\ <<c>> \in Seq(Call) /\ Len(<<c>>) = 1
  BY DEF TypeOK, StateTypeOK
<1>2. /\ queue' \in Seq(Call) /\ Len(queue') = Len(queue) + 1 /\ Len(queue) \in Nat
      /\ \A i \in 1 .. Len(queue) + 1 : queue'[i] = IF i = 1 THEN c ELSE queue[i - 1]
  BY <1>1, ConcatProperties, LenProperties
<1>3. DOMAIN queue = 1 .. Len(queue) /\ DOMAIN queue' = 1 .. Len(queue) + 1
  BY <1>1, <1>2, LenProperties
<1>4. \A i \in 1 .. Len(queue) : queue[i] # c
  BY <1>3 DEF Queued
<1>5. Queued' = Queued \cup {c}
  <2>1. Queued' = {queue'[i] : i \in 1 .. Len(queue) + 1}
    BY <1>3 DEF Queued
  <2>2. \A x \in Queued' : x \in Queued \cup {c}
    <3> SUFFICES ASSUME NEW i \in 1 .. Len(queue) + 1 PROVE queue'[i] \in Queued \cup {c}
      BY <2>1
    <3>1. CASE i = 1
      BY <1>2, <3>1
    <3>2. CASE i # 1
      <4>1. i - 1 \in 1 .. Len(queue) /\ queue'[i] = queue[i - 1]
        BY <1>2, <3>2
      <4> QED
        BY <1>3, <4>1 DEF Queued
    <3> QED
      BY <3>1, <3>2
  <2>3. \A i \in 1 .. Len(queue) : queue[i] \in Queued'
    <3> TAKE i \in 1 .. Len(queue)
    <3>1. i + 1 \in 1 .. Len(queue) + 1 /\ queue'[i + 1] = queue[i]
      BY <1>2
    <3> QED
      BY <2>1, <3>1
  <2>4. c \in Queued'
    <3>1. 1 \in 1 .. Len(queue) + 1 /\ queue'[1] = c
      BY <1>2
    <3> QED
      BY <2>1, <3>1
  <2> QED
    BY <1>3, <2>2, <2>3, <2>4 DEF Queued
<1>6. \A i, j \in 1 .. Len(queue) + 1 : queue'[i] = queue'[j] => i = j
  <2> TAKE i, j \in 1 .. Len(queue) + 1
  <2>1. i # 1 => i - 1 \in 1 .. Len(queue)
    BY <1>2
  <2>2. j # 1 => j - 1 \in 1 .. Len(queue)
    BY <1>2
  <2> HAVE queue'[i] = queue'[j]
  <2>3. /\ queue'[i] = IF i = 1 THEN c ELSE queue[i - 1]
        /\ queue'[j] = IF j = 1 THEN c ELSE queue[j - 1]
    BY <1>2
  <2>4. CASE i # 1 /\ j # 1
    <3>1. queue[i - 1] = queue[j - 1]
      BY <2>3, <2>4
    <3>2. i - 1 = j - 1
      BY <1>3, <2>1, <2>2, <2>4, <3>1
    <3> QED
      BY <3>2
  <2>5. CASE i = 1 \/ j = 1
    BY <1>4, <2>1, <2>2, <2>3, <2>5
  <2> QED
    BY <2>4, <2>5
<1> QED
  BY <1>3, <1>5, <1>6

LEMMA TailCallKeeps ==
  ASSUME IInv, TypeOK', NEW c \in Call, RecordTailCall(c)
  PROVE  IInv'
<1>1. /\ pc[c] = "record" /\ c \in active /\ c \notin Queued /\ results[c] = 0
      /\ TypeOK /\ loop = "executing"
  BY OwnsCall DEF RecordTailCall, IInv, Validating
<1>2. /\ UNCHANGED <<results, current, requestQueue, promise, reply, loop, background, sandboxed>>
      /\ Goto(c, "tailed")
      /\ active' = active \ {c} /\ queue' = <<c>> \o queue
  BY DEF RecordTailCall, batchVars, Replace
<1>3. /\ status'[c] \in {"validating", "error"}
      /\ \A d \in Call \ {c} : status'[d] = status[d]
  <2>1. PICK t \in TailTools, built \in BOOLEAN :
          status' = [status EXCEPT ![c] = Created(t, built)]
    BY DEF RecordTailCall
  <2> QED
    BY <1>1, <2>1, StatusOf DEF TypeOK, StateTypeOK
<1>4. \A d \in Call : pc'[d] = IF d = c THEN "tailed" ELSE pc[d]
  BY <1>1, <1>2 DEF Goto, TypeOK
<1>5. /\ Queued' = Queued \cup {c}
      /\ \A i, j \in DOMAIN queue' : queue'[i] = queue'[j] => i = j
  <2>1. \A i, j \in DOMAIN queue : queue[i] = queue[j] => i = j
    BY DEF IInv, QueueInv
  <2> QED
    BY <1>1, <1>2, <2>1, HeadEffect
<1>6. QueueInv'
  <2>1. \A d \in Queued : d \in Call \ {c} /\ d \notin active /\ status[d] \in {"validating", "error"}
    BY <1>1, QueuedCalls DEF IInv, QueueInv
  <2>2. \A d \in Queued' : d \notin active' /\ status'[d] \in {"validating", "error"}
    BY <1>2, <1>3, <1>5, <2>1
  <2> QED
    BY <1>5, <2>2 DEF QueueInv
<1>7. LoopInv'
  BY <1>1, <1>2, <1>4 DEF IInv, LoopInv
<1>8. CoroutineInv'
  <2> SUFFICES ASSUME NEW d \in Call
               PROVE  CoroutineInv!(d)'
    BY DEF CoroutineInv
  <2>1. CASE d = c
    BY <1>1, <1>2, <1>4, <2>1 DEF Executing, Expansion
  <2>2. CASE d # c
    BY <1>1, <1>2, <1>3, <1>4, <2>2 DEF IInv, CoroutineInv
  <2> QED
    BY <2>1, <2>2
<1>9. LedgerInv'
  <2>1. \A d \in Call : /\ results'[d] \in {0, 1}
                        /\ results'[d] = 1 => status'[d] \in Terminal
                        /\ d \in active' \/ d \in Queued' => results'[d] = 0
    BY <1>1, <1>2, <1>3, <1>5 DEF IInv, LedgerInv
  <2>2. current' # NoBatch =>
          \A d \in CallsOf(current') : d \in active' \/ d \in Queued' \/ results'[d] = 1
    BY <1>2, <1>5 DEF IInv, LedgerInv
  <2>3. \A b \in Batch : promise'[b] = "resolved" => \A d \in CallsOf(b) : reply'[d] \in Terminal
    BY <1>2 DEF IInv, LedgerInv
  <2> QED
    BY <2>1, <2>2, <2>3 DEF LedgerInv
<1> QED
  BY <1>2, <1>6, <1>7, <1>8, <1>9 DEF IInv, NoBackground

\* The first n calls leave the queue.
LEMMA DequeueEffect ==
  ASSUME TypeOK, NEW n \in 1 .. Len(queue), Dequeue(n),
         \A i, j \in DOMAIN queue : queue[i] = queue[j] => i = j
  PROVE  /\ Queued = Queued' \cup {queue[i] : i \in 1 .. n}
         /\ \A i \in 1 .. n : queue[i] \in Call /\ queue[i] \in Queued /\ queue[i] \notin Queued'
         /\ \A i, j \in DOMAIN queue' : queue'[i] = queue'[j] => i = j
<1>1. queue \in Seq(Call) /\ DOMAIN queue = 1 .. Len(queue) /\ Len(queue) \in Nat
  BY LenProperties DEF TypeOK, StateTypeOK
<1>2. \A i \in 1 .. Len(queue) : queue[i] \in Call
  BY <1>1, ElementOfSeq
<1>3. /\ queue' \in Seq(Call) /\ Len(queue') = Len(queue) - n
      /\ \A i \in 1 .. Len(queue) - n : queue'[i] = queue[n + i]
  <2>1. \A i \in n + 1 .. Len(queue) : queue[i] \in Call
    BY <1>1, <1>2
  <2>2. queue' = SubSeq(queue, n + 1, Len(queue)) /\ n + 1 \in Int /\ Len(queue) \in Int
    BY <1>1 DEF Dequeue
  <2>3. /\ queue' \in Seq(Call)
        /\ Len(queue') = IF n + 1 <= Len(queue) THEN Len(queue) - (n + 1) + 1 ELSE 0
        /\ \A i \in 1 .. Len(queue) - (n + 1) + 1 : queue'[i] = queue[(n + 1) + i - 1]
    BY <1>1, <2>1, <2>2, SubSeqProperties
  <2> DEFINE m == Len(queue)
  <2>4. m \in Nat /\ n \in Nat /\ n <= m
    BY <1>1
  <2> HIDE DEF m
  <2>5. /\ m - (n + 1) + 1 = m - n
        /\ ~(n + 1 <= m) => m - n = 0
        /\ \A i \in 1 .. m - n : (n + 1) + i - 1 = n + i
    BY <2>4
  <2>6. Len(queue') = Len(queue) - n
    BY <2>3, <2>5 DEF m
  <2>7. \A i \in 1 .. Len(queue) - n : queue'[i] = queue[(n + 1) + i - 1]
    BY <2>3, <2>5 DEF m
  <2> QED
    BY <2>3, <2>5, <2>6, <2>7 DEF m
<1>4. DOMAIN queue' = 1 .. Len(queue) - n
  BY <1>3, LenProperties
<1>5. \A i \in 1 .. Len(queue) - n : n + i \in 1 .. Len(queue)
  BY <1>1
<1>6. \A x \in Queued : x \in Queued' \cup {queue[i] : i \in 1 .. n}
  <2> SUFFICES ASSUME NEW k \in 1 .. Len(queue)
               PROVE  queue[k] \in Queued' \cup {queue[i] : i \in 1 .. n}
    BY <1>1 DEF Queued
  <2>1. CASE k \in 1 .. n
    BY <2>1
  <2>2. CASE k \notin 1 .. n
    <3>1. k - n \in 1 .. Len(queue) - n /\ n + (k - n) = k
      BY <1>1, <2>2
    <3>2. queue'[k - n] = queue[k]
      BY <1>3, <3>1
    <3> QED
      BY <1>4, <3>1, <3>2 DEF Queued
  <2> QED
    BY <2>1, <2>2
<1>7. \A x \in Queued' : x \in Queued
  <2> SUFFICES ASSUME NEW k \in 1 .. Len(queue) - n PROVE queue'[k] \in Queued
    BY <1>4 DEF Queued
  <2>1. queue'[k] = queue[n + k] /\ n + k \in 1 .. Len(queue)
    BY <1>3, <1>5
  <2> QED
    BY <1>1, <2>1 DEF Queued
<1>8. \A i \in 1 .. n : queue[i] \in Queued
  BY <1>1 DEF Queued
<1>9. \A i \in 1 .. n : queue[i] \notin Queued'
  <2> SUFFICES ASSUME NEW i \in 1 .. n, NEW j \in 1 .. Len(queue) - n, queue[i] = queue'[j]
               PROVE  FALSE
    BY <1>4 DEF Queued
  <2>1. queue[i] = queue[n + j] /\ n + j \in 1 .. Len(queue) /\ i \in 1 .. Len(queue)
    BY <1>1, <1>3, <1>5
  <2>2. i = n + j
    BY <1>1, <2>1
  <2> QED
    BY <1>1, <2>2
<1>10. \A i, j \in DOMAIN queue' : queue'[i] = queue'[j] => i = j
  <2> SUFFICES ASSUME NEW i \in 1 .. Len(queue) - n, NEW j \in 1 .. Len(queue) - n,
                      queue'[i] = queue'[j]
               PROVE  i = j
    BY <1>4
  <2>1. n + i = n + j
    BY <1>1, <1>3, <1>5
  <2> QED
    BY <1>1, <2>1
<1> QED
  BY <1>1, <1>2, <1>6, <1>7, <1>8, <1>9, <1>10

-----------------------------------------------------------------------------
(* The steps of the main loop.                                             *)

\* At the top of a turn nothing is active and no coroutine runs.
LEMMA AtTurnState ==
  ASSUME IInv, AtTurn
  PROVE  /\ loop \in {"start", "top"} /\ active = {} /\ current # NoBatch
         /\ \A c \in Call : pc[c] = "idle"
<1>1. loop \in {"start", "top"}
  BY DEF AtTurn, IInv, LoopInv
<1> QED
  BY <1>1 DEF IInv, LoopInv, CoroutineInv

LEMMA DrainedKeeps ==
  ASSUME IInv, QueueDrained
  PROVE  IInv'
<1>1. /\ active = {} /\ current # NoBatch /\ queue = <<>> /\ loop' = "done"
      /\ \A c \in Call : pc[c] = "idle"
      /\ UNCHANGED <<queue, active, status, results, current, isCancelling, requestQueue,
                     promise, reply, aborted, pc, sandboxed, background>>
  BY AtTurnState DEF QueueDrained, stateVars, batchVars, callVars
<1>2. Queued' = Queued
  BY <1>1 DEF Queued
<1>3. TypeOK'
  <2>1. [Next]_vars
    BY DEF Next, LoopStep
  <2> QED
    BY <2>1, TypeStep DEF IInv
<1>4. LoopInv' /\ NoBackground'
  BY <1>1 DEF IInv, LoopInv, NoBackground
<1>5. QueueInv'
  BY <1>1, <1>2 DEF IInv, QueueInv
<1>6. CoroutineInv'
  BY <1>1 DEF CoroutineInv
<1>7. LedgerInv'
  BY <1>1, <1>2 DEF IInv, LedgerInv
<1> QED
  BY <1>3, <1>4, <1>5, <1>6, <1>7 DEF IInv

LEMMA StopKeeps ==
  ASSUME IInv, TypeOK', StopLoop
  PROVE  IInv'
<1>1. /\ active = {} /\ current # NoBatch /\ loop' = "done"
      /\ \A c \in Call : pc[c] = "idle"
  BY AtTurnState DEF StopLoop
<1>2. /\ UNCHANGED <<active, current, requestQueue, promise, reply, pc, sandboxed, background>>
      /\ CancelAllQueued(status)
  BY DEF StopLoop, batchVars, callVars
<1>3. TypeOK /\ status \in [Call -> AnyStatus]
  BY DEF IInv, TypeOK, StateTypeOK, AnyStatus
<1>4. QueueInv' /\ LedgerInv'
  <2>1. \A d \in Call : results[d] = 1 => status[d] \in Terminal
    BY DEF IInv, LedgerInv
  <2> QED
    BY <1>2, <1>3, <2>1, CancelLedger
<1>5. queue' = <<>>
  BY <1>2 DEF CancelAllQueued
<1>6. LoopInv' /\ NoBackground' /\ CoroutineInv'
  BY <1>1, <1>2, <1>5 DEF IInv, LoopInv, NoBackground, CoroutineInv
<1> QED
  BY <1>4, <1>6 DEF IInv

LEMMA ErroredKeeps ==
  ASSUME IInv, TypeOK', FinalizeErrored
  PROVE  IInv'
<1> DEFINE c == queue[1]
<1>1. /\ active = {} /\ current # NoBatch /\ \A d \in Call : pc[d] = "idle"
      /\ queue # <<>> /\ status[c] = "error" /\ Dequeue(1) /\ loop' = "top"
      /\ results' = Complete({c})
      /\ UNCHANGED <<active, status, current, requestQueue, promise, reply, pc, sandboxed,
                     background>>
  BY AtTurnState DEF FinalizeErrored, batchVars, callVars
<1>2. 1 \in 1 .. Len(queue)
  BY <1>1, EmptySeq, LenProperties DEF IInv, TypeOK, StateTypeOK
<1> HIDE DEF c
<1>3. /\ c \in Call /\ c \in Queued /\ c \notin Queued'
      /\ Queued = Queued' \cup {c}
      /\ \A i, j \in DOMAIN queue' : queue'[i] = queue'[j] => i = j
  <2>1. /\ Queued = Queued' \cup {queue[i] : i \in 1 .. 1}
        /\ \A i \in 1 .. 1 : queue[i] \in Call /\ queue[i] \in Queued /\ queue[i] \notin Queued'
        /\ \A i, j \in DOMAIN queue' : queue'[i] = queue'[j] => i = j
    BY <1>1, <1>2, DequeueEffect DEF IInv, QueueInv
  <2>2. 1 .. 1 = {1}
    OBVIOUS
  <2> QED
    BY <2>1, <2>2 DEF c
<1>4. QueueInv'
  BY <1>1, <1>3 DEF IInv, QueueInv
<1>5. \A d \in Call : results'[d] = IF d = c THEN results[d] + 1 ELSE results[d]
  BY <1>1 DEF Complete
<1>6. results[c] = 0 /\ status[c] \in Terminal
  BY <1>1, <1>3 DEF IInv, LedgerInv, Terminal
<1>7. LedgerInv'
  <2>1. \A d \in Call : /\ results'[d] \in {0, 1}
                        /\ results'[d] = 1 => status'[d] \in Terminal
                        /\ d \in active' \/ d \in Queued' => results'[d] = 0
    <3> TAKE d \in Call
    <3>1. CASE d = c
      <4>1. results'[c] = 1
        BY <1>3, <1>5, <1>6
      <4>2. status' = status /\ active' = {}
        BY <1>1
      <4> QED
        BY <1>3, <1>6, <3>1, <4>1, <4>2
    <3>2. CASE d # c
      BY <1>1, <1>3, <1>5, <3>2 DEF IInv, LedgerInv
    <3> QED
      BY <3>1, <3>2
  <2>2. \A d \in CallsOf(current') : d \in active' \/ d \in Queued' \/ results'[d] = 1
    <3> TAKE d \in CallsOf(current')
    <3>1. d \in Call /\ (d \in active \/ d \in Queued \/ results[d] = 1)
      BY <1>1, CallsOfType DEF IInv, LedgerInv, TypeOK
    <3>2. CASE d = c
      BY <1>5, <1>6, <3>1, <3>2
    <3>3. CASE d # c
      BY <1>1, <1>3, <1>5, <3>1, <3>3
    <3> QED
      BY <3>2, <3>3
  <2>3. \A b \in Batch : promise'[b] = "resolved" => \A d \in CallsOf(b) : reply'[d] \in Terminal
    BY <1>1 DEF IInv, LedgerInv
  <2> QED
    BY <2>1, <2>2, <2>3 DEF LedgerInv
<1>8. LoopInv' /\ NoBackground' /\ CoroutineInv'
  BY <1>1 DEF IInv, LoopInv, NoBackground, CoroutineInv
<1> QED
  BY <1>4, <1>7, <1>8 DEF IInv

LEMMA WaveKeeps ==
  ASSUME IInv, TypeOK', StartWave
  PROVE  IInv'
<1>1. PICK n \in 1 .. Len(queue) :
        /\ Dequeue(n) /\ active' = {queue[i] : i \in 1 .. n}
        /\ Validate({queue[i] : i \in 1 .. n})
  BY DEF StartWave
<1> DEFINE S == {queue[i] : i \in 1 .. n}
<1>2. /\ active = {} /\ current # NoBatch
      /\ UNCHANGED <<status, results, current, requestQueue, promise, reply, background>>
  BY AtTurnState DEF StartWave, batchVars
<1>3. /\ loop' = "validating" /\ sandboxed' = sandboxed \ S /\ active' = S
      /\ \A d \in Call : pc'[d] = IF d \in S /\ status[d] = "validating" THEN "hook" ELSE "idle"
  BY <1>1 DEF Validate
<1>4. /\ Queued = Queued' \cup S
      /\ \A i \in 1 .. n : queue[i] \in Call /\ queue[i] \in Queued /\ queue[i] \notin Queued'
      /\ \A i, j \in DOMAIN queue' : queue'[i] = queue'[j] => i = j
  BY <1>1, DequeueEffect DEF IInv, QueueInv
<1>5. /\ \A d \in S : d \in Call /\ d \in Queued /\ d \notin Queued'
      /\ S # {}
  <2>1. n \in Nat /\ 1 <= n
    BY LenProperties DEF IInv, TypeOK, StateTypeOK
  <2>2. 1 \in 1 .. n
    BY <2>1
  <2> QED
    BY <1>4, <2>2
<1> HIDE DEF S
<1>6. QueueInv'
  BY <1>2, <1>3, <1>4, <1>5 DEF IInv, QueueInv
<1>7. LoopInv' /\ NoBackground'
  BY <1>2, <1>3, <1>5 DEF IInv, LoopInv, NoBackground
<1>8. CoroutineInv'
  <2>1. "hook" \in Validating /\ "idle" \in Validating /\ "error" \in Terminal
    BY DEF Validating, Terminal
  <2>2. \A d \in S : status'[d] \in {"validating", "error"}
    BY <1>2, <1>5 DEF IInv, QueueInv
  <2> SUFFICES ASSUME NEW d \in Call
               PROVE  CoroutineInv!(d)'
    BY DEF CoroutineInv
  <2>3. CASE d \in S
    BY <1>2, <1>3, <2>1, <2>2, <2>3
  <2>4. CASE d \notin S
    BY <1>2, <1>3, <2>1, <2>4
  <2> QED
    BY <2>3, <2>4
<1>9. LedgerInv'
  <2>1. \A d \in Call : /\ results'[d] \in {0, 1}
                        /\ results'[d] = 1 => status'[d] \in Terminal
                        /\ d \in active' \/ d \in Queued' => results'[d] = 0
    BY <1>2, <1>3, <1>4, <1>5 DEF IInv, LedgerInv
  <2>2. \A d \in CallsOf(current') : d \in active' \/ d \in Queued' \/ results'[d] = 1
    BY <1>2, <1>3, <1>4 DEF IInv, LedgerInv
  <2>3. \A b \in Batch : promise'[b] = "resolved" => \A d \in CallsOf(b) : reply'[d] \in Terminal
    BY <1>2 DEF IInv, LedgerInv
  <2> QED
    BY <2>1, <2>2, <2>3 DEF LedgerInv
<1> QED
  BY <1>6, <1>7, <1>8, <1>9 DEF IInv

\* No turn finds a call left over from an earlier one.
LEMMA NoRevisit ==
  ASSUME IInv
  PROVE  ~Revisit
  BY AtTurnState DEF Revisit

LEMMA ExecuteKeeps ==
  ASSUME IInv, TypeOK', StartExecution
  PROVE  IInv'
<1>1. /\ loop = "validating" /\ loop' = "executing" /\ AllReady /\ ScheduledCalls # {}
      /\ UNCHANGED <<queue, active, results, current, requestQueue, promise, reply, sandboxed,
                     background>>
  BY DEF StartExecution, batchVars, callVars
<1>2. \A d \in Call : status'[d] = IF d \notin ScheduledCalls THEN status[d]
                                  ELSE IF MayStart THEN "executing" ELSE "cancelled"
  BY DEF StartExecution
<1>3. \A d \in Call : pc'[d] = IF d \notin ScheduledCalls THEN "idle"
                              ELSE IF MayStart THEN "exec" ELSE "settled"
  BY DEF StartExecution
<1>4. ScheduledCalls \subseteq active /\ active \subseteq Call /\ Queued \subseteq Call
      /\ Queued' = Queued
  <2>1. TypeOK
    BY DEF IInv
  <2>2. ScheduledCalls \subseteq active /\ active \subseteq Call
    BY <2>1 DEF ScheduledCalls, TypeOK, StateTypeOK
  <2>3. Queued' = Queued
    BY <1>1 DEF Queued
  <2> QED
    BY <2>1, <2>2, <2>3, QueuedCalls
<1>5. QueueInv'
  <2>1. \A d \in Queued : d \in Call /\ d \notin active /\ status'[d] = status[d]
    BY <1>2, <1>4 DEF IInv, QueueInv
  <2> QED
    BY <1>1, <1>4, <2>1 DEF IInv, QueueInv
<1>6. LoopInv' /\ NoBackground'
  BY <1>1, <1>4 DEF IInv, LoopInv, NoBackground
<1>7. CoroutineInv'
  <2>1. "cancelled" \in Terminal /\ {"exec", "settled", "idle"} \subseteq Executing
    BY DEF Terminal, Executing
  <2>2. \A d \in active \ ScheduledCalls : status[d] \in Terminal
    BY <1>1 DEF AllReady, ScheduledCalls
  <2> SUFFICES ASSUME NEW d \in Call
               PROVE  CoroutineInv!(d)'
    BY DEF CoroutineInv
  <2>3. CASE d \in ScheduledCalls
    BY <1>1, <1>2, <1>3, <1>4, <2>1, <2>3 DEF Expansion
  <2>4. CASE d \notin ScheduledCalls
    BY <1>1, <1>2, <1>3, <2>1, <2>2, <2>4 DEF Expansion
  <2> QED
    BY <2>3, <2>4
<1>8. LedgerInv'
  <2>1. \A d \in Call : results[d] = 1 => status'[d] \in Terminal
    BY <1>2, <1>4 DEF IInv, LedgerInv
  <2> QED
    BY <1>1, <1>4, <2>1 DEF IInv, LedgerInv
<1> QED
  BY <1>5, <1>6, <1>7, <1>8 DEF IInv

\* A turn whose active calls are all terminal finalizes all of them.
LEMMA FinalizeKeeps ==
  ASSUME IInv, TypeOK', FinalizeTerminal, loop \in {"validating", "executing"},
         \A c \in active : status[c] \in Terminal
  PROVE  IInv'
<1>1. {c \in active : status[c] \in Terminal} = active
  OBVIOUS
<1>2. active # {} \/ \E c \in Call : pc[c] = "tailed"
  BY DEF IInv, LoopInv
<1>3. /\ active' = {} /\ results' = Complete(active) /\ loop' = "top"
      /\ pc' = [c \in Call |-> "idle"]
      /\ UNCHANGED <<queue, status, current, requestQueue, promise, reply, sandboxed, background>>
  BY <1>1, <1>2 DEF FinalizeTerminal, batchVars, callVars
<1>4. current # NoBatch /\ active \subseteq Call /\ Queued' = Queued
  BY <1>3 DEF IInv, LoopInv, TypeOK, StateTypeOK, Queued
<1>5. QueueInv'
  BY <1>3, <1>4 DEF IInv, QueueInv
<1>6. LoopInv' /\ NoBackground' /\ CoroutineInv'
  BY <1>3, <1>4 DEF IInv, LoopInv, NoBackground, CoroutineInv
<1>7. \A c \in Call : results'[c] = IF c \in active THEN results[c] + 1 ELSE results[c]
  BY <1>3 DEF Complete
<1>8. LedgerInv'
  <2>1. \A d \in Call : /\ results'[d] \in {0, 1}
                        /\ results'[d] = 1 => status'[d] \in Terminal
                        /\ d \in active' \/ d \in Queued' => results'[d] = 0
    <3> TAKE d \in Call
    <3>1. CASE d \in active
      BY <1>3, <1>4, <1>7, <3>1 DEF IInv, LedgerInv, QueueInv
    <3>2. CASE d \notin active
      BY <1>3, <1>4, <1>7, <3>2 DEF IInv, LedgerInv
    <3> QED
      BY <3>1, <3>2
  <2>2. \A d \in CallsOf(current') : d \in active' \/ d \in Queued' \/ results'[d] = 1
    <3> TAKE d \in CallsOf(current')
    <3>1. d \in Call /\ (d \in active \/ d \in Queued \/ results[d] = 1)
      BY <1>3, <1>4, CallsOfType DEF IInv, LedgerInv, TypeOK
    <3>2. d \in active => results[d] = 0
      BY <3>1 DEF IInv, LedgerInv
    <3> QED
      BY <1>4, <1>7, <3>1, <3>2
  <2>3. \A b \in Batch : promise'[b] = "resolved" => \A d \in CallsOf(b) : reply'[d] \in Terminal
    BY <1>3 DEF IInv, LedgerInv
  <2> QED
    BY <2>1, <2>2, <2>3 DEF LedgerInv
<1> QED
  BY <1>5, <1>6, <1>8 DEF IInv

LEMMA NothingToExecuteKeeps ==
  ASSUME IInv, TypeOK', NothingToExecute
  PROVE  IInv'
<1>1. \A c \in active : status[c] \in Terminal \cup {"scheduled"}
  BY DEF NothingToExecute, AllSettled, IInv, CoroutineInv, Validating, TypeOK, StateTypeOK
<1>2. ScheduledCalls = {}
  BY <1>1 DEF NothingToExecute, AllReady
<1>3. \A c \in active : status[c] \in Terminal
  BY <1>1, <1>2 DEF ScheduledCalls
<1> QED
  BY <1>3, FinalizeKeeps DEF NothingToExecute

LEMMA ExecutionDoneKeeps ==
  ASSUME IInv, TypeOK', ExecutionDone
  PROVE  IInv'
<1>1. \A c \in active : status[c] \in Terminal
  BY DEF ExecutionDone, AllSettled, IInv, CoroutineInv, TypeOK, StateTypeOK
<1> QED
  BY <1>1, FinalizeKeeps DEF ExecutionDone

-----------------------------------------------------------------------------
(* Batches begin and end.                                                  *)

LEMMA StartKeeps ==
  ASSUME IInv, TypeOK', NEW b \in Batch, StartBatch(b), queue = <<>>, active = {},
         \A c \in Call : pc[c] = "idle",
         UNCHANGED <<active, pc, background>>,
         \A e \in Batch : promise'[e] = "resolved" => \A c \in CallsOf(e) : reply'[c] \in Terminal
  PROVE  IInv'
<1> DEFINE s == TopicFirst(Requests[b])
<1>1. /\ current' = b /\ loop' = "start"
      /\ queue' = queue \o s /\ results' = [c \in Call |-> 0]
      /\ status' = [c \in Call |-> IF c \in CallsOf(b) THEN Created(ToolOf[c], c \notin Malformed)
                                   ELSE status[c]]
  BY DEF StartBatch
<1>2. /\ s \in Seq(Call) /\ {s[i] : i \in DOMAIN s} = CallsOf(b)
      /\ \A i, j \in DOMAIN s : s[i] = s[j] => i = j
  BY TopicFirstKeeps
<1> HIDE DEF s
<1>3. queue' = s
  BY <1>1, <1>2, EmptySeq, ConcatEmptySeq
<1>4. Queued' = CallsOf(b)
  BY <1>2, <1>3 DEF Queued
<1>5. b # NoBatch /\ CallsOf(b) \subseteq Call
  BY RequestsAssumption, CallsOfType
<1>6. \A c \in CallsOf(b) : status'[c] \in {"validating", "error"}
  BY <1>1, <1>5, StatusOf
<1>7. QueueInv'
  BY <1>2, <1>3, <1>4, <1>6 DEF QueueInv
<1>8. LoopInv' /\ NoBackground' /\ CoroutineInv'
  BY <1>1, <1>5 DEF IInv, LoopInv, NoBackground, CoroutineInv
<1>9. LedgerInv'
  BY <1>1, <1>4 DEF LedgerInv
<1> QED
  BY <1>7, <1>8, <1>9 DEF IInv

LEMMA ScheduleKeeps ==
  ASSUME IInv, TypeOK', NEW b \in Batch, Schedule(b)
  PROVE  IInv'
<1>1. UNCHANGED <<active, reply, pc, background, sandboxed>>
  BY DEF Schedule, callVars
<1>2. CASE /\ current = NoBatch /\ active = {} /\ StartBatch(b)
           /\ promise' = [promise EXCEPT ![b] = "running"]
  <2>1. queue = <<>> /\ \A c \in Call : pc[c] = "idle"
    BY <1>2 DEF IInv, LoopInv, CoroutineInv
  <2>2. \A e \in Batch : promise'[e] = "resolved" => promise[e] = "resolved"
    BY <1>2 DEF IInv, TypeOK
  <2>3. \A e \in Batch : promise'[e] = "resolved" => \A c \in CallsOf(e) : reply'[c] \in Terminal
    BY <1>1, <2>2 DEF IInv, LedgerInv
  <2> QED
    BY <1>1, <1>2, <2>1, <2>3, StartKeeps
<1>3. CASE /\ current # NoBatch \/ active # {}
           /\ \E s \in {"rejected", "queued"} : promise' = [promise EXCEPT ![b] = s]
           /\ UNCHANGED <<current, isCancelling, queue, status, results, loop>>
  <2>1. current # NoBatch
    BY <1>3 DEF IInv, LoopInv
  <2>2. \A e \in Batch : promise'[e] = "resolved" => promise[e] = "resolved"
    BY <1>3 DEF IInv, TypeOK
  <2>3. Queued' = Queued
    BY <1>3 DEF Queued
  <2>4. LoopInv' /\ NoBackground'
    BY <1>1, <1>3, <2>1 DEF IInv, LoopInv, NoBackground
  <2>5. QueueInv' /\ CoroutineInv'
    BY <1>1, <1>3, <2>3 DEF IInv, QueueInv, CoroutineInv
  <2>6. LedgerInv'
    BY <1>1, <1>3, <2>2, <2>3 DEF IInv, LedgerInv
  <2> QED
    BY <2>4, <2>5, <2>6 DEF IInv
<1> QED
  BY <1>2, <1>3 DEF Schedule

LEMMA FinishKeeps ==
  ASSUME IInv, TypeOK', FinishBatch
  PROVE  IInv'
<1>1. /\ UNCHANGED <<active, pc, background, sandboxed>>
      /\ loop = "done" /\ active = {} /\ queue = <<>> /\ current # NoBatch /\ current \in Batch
      /\ \A c \in Call : pc[c] = "idle"
      /\ promise \in [Batch -> PromiseStates]
  BY DEF FinishBatch, callVars, IInv, LoopInv, CoroutineInv, TypeOK
<1>2. reply' = [c \in Call |->
                 IF c \in CallsOf(current) /\ results[c] > 0 THEN status[c] ELSE reply[c]]
  BY DEF FinishBatch
<1>3. \A c \in CallsOf(current) : reply'[c] \in Terminal
  <2> TAKE c \in CallsOf(current)
  <2>1. c \in Call /\ c \notin active /\ c \notin Queued
    BY <1>1, CallsOfType DEF Queued
  <2>2. results[c] = 1 /\ status[c] \in Terminal
    BY <1>1, <2>1 DEF IInv, LedgerInv
  <2> QED
    BY <1>2, <2>1, <2>2
<1>4. \A b \in Batch \ {current} : promise[b] = "resolved" =>
        \A c \in CallsOf(b) : reply'[c] \in Terminal
  <2> TAKE b \in Batch \ {current}
  <2>1. \A c \in CallsOf(b) : c \in Call /\ c \notin CallsOf(current)
    BY <1>1, CallsOfType, RequestsAssumption
  <2> QED
    BY <1>2, <2>1 DEF IInv, LedgerInv
<1>5. CASE /\ HasNext /\ active = {} /\ StartBatch(Head(requestQueue))
           /\ promise' = [promise EXCEPT ![current] = "resolved",
                                         ![Head(requestQueue)] = "running"]
  <2>1. Head(requestQueue) \in Batch
    BY <1>5, HeadTailProperties DEF HasNext, IInv, TypeOK
  <2>2. \A b \in Batch : promise'[b] = "resolved" => b = current \/ promise[b] = "resolved"
    BY <1>1, <1>5, <2>1
  <2>3. \A e \in Batch : promise'[e] = "resolved" => \A c \in CallsOf(e) : reply'[c] \in Terminal
    BY <1>3, <1>4, <2>2
  <2> QED
    BY <1>1, <1>5, <2>1, <2>3, StartKeeps
<1>6. CASE /\ ~HasNext
           /\ promise' = [promise EXCEPT ![current] = "resolved"]
           /\ current' = NoBatch
           /\ results' = [c \in Call |-> 0]
           /\ loop' = "idle"
           /\ UNCHANGED <<isCancelling, requestQueue, queue, status>>
  <2>1. \A b \in Batch : promise'[b] = "resolved" => b = current \/ promise[b] = "resolved"
    BY <1>1, <1>6
  <2>2. \A e \in Batch : promise'[e] = "resolved" => \A c \in CallsOf(e) : reply'[c] \in Terminal
    BY <1>3, <1>4, <2>1
  <2>3. Queued' = {} /\ queue' = <<>>
    BY <1>1, <1>6 DEF Queued
  <2>4. LoopInv' /\ NoBackground'
    BY <1>1, <1>6 DEF IInv, LoopInv, NoBackground, HasNext
  <2>5. QueueInv' /\ CoroutineInv'
    BY <1>1, <1>6, <2>3 DEF QueueInv, CoroutineInv
  <2>6. LedgerInv'
    BY <1>6, <2>2 DEF LedgerInv
  <2> QED
    BY <2>4, <2>5, <2>6 DEF IInv
<1> QED
  BY <1>1, <1>5, <1>6 DEF FinishBatch

-----------------------------------------------------------------------------
(* Cancellation.                                                           *)

LEMMA AbortKeeps ==
  ASSUME IInv, TypeOK', NEW b \in Batch, Abort(b)
  PROVE  IInv'
<1>1. UNCHANGED <<queue, active, status, results, current, reply, loop, pc, sandboxed, background>>
  BY DEF Abort, stateVars, callVars
<1>2. Queued' = Queued
  BY <1>1 DEF Queued
<1>3. \A e \in Batch : promise'[e] = "resolved" => promise[e] = "resolved"
  BY DEF Abort, IInv, TypeOK
<1>4. requestQueue' # <<>> => requestQueue # <<>>
  BY DEF Abort
<1>5. LoopInv' /\ NoBackground'
  BY <1>1, <1>4 DEF IInv, LoopInv, NoBackground
<1>6. QueueInv' /\ CoroutineInv'
  BY <1>1, <1>2 DEF IInv, QueueInv, CoroutineInv
<1>7. LedgerInv'
  BY <1>1, <1>2, <1>3 DEF IInv, LedgerInv
<1> QED
  BY <1>5, <1>6, <1>7 DEF IInv

LEMMA CancelKeeps ==
  ASSUME IInv, TypeOK', CancelEverything,
         UNCHANGED <<active, current, reply, loop, pc, sandboxed, background>>
  PROVE  IInv'
<1>1. CASE isCancelling
  <2>1. UNCHANGED <<requestQueue, promise, status, queue, results>>
    BY <1>1 DEF CancelEverything
  <2>2. Queued' = Queued
    BY <2>1 DEF Queued
  <2>3. LoopInv' /\ NoBackground'
    BY <2>1 DEF IInv, LoopInv, NoBackground
  <2>4. QueueInv' /\ CoroutineInv'
    BY <2>1, <2>2 DEF IInv, QueueInv, CoroutineInv
  <2>5. LedgerInv'
    BY <2>1, <2>2 DEF IInv, LedgerInv
  <2> QED
    BY <2>3, <2>4, <2>5 DEF IInv
<1>2. CASE ~isCancelling
  <2> DEFINE st == [c \in Call |-> IF c \in active /\ status[c] \notin Terminal
                                   THEN "cancelled" ELSE status[c]]
  <2>1. /\ requestQueue' = <<>> /\ CancelAllQueued(st)
        /\ promise' = [b \in Batch |->
                         IF b \in {requestQueue[i] : i \in DOMAIN requestQueue}
                         THEN "rejected" ELSE promise[b]]
    BY <1>2 DEF CancelEverything
  <2>2. st \in [Call -> AnyStatus] /\ TypeOK
    BY StatusOf DEF IInv, TypeOK, StateTypeOK, AnyStatus
  <2>3. \A c \in Call : /\ c \notin active => st[c] = status[c]
                        /\ c \in active => st[c] \in Terminal
                        /\ status[c] \in Terminal => st[c] = status[c]
    BY StatusOf
  <2> HIDE DEF st
  <2>4. QueueInv' /\ LedgerInv'
    <3>1. \A d \in Call : results[d] = 1 => st[d] \in Terminal
      BY <2>3 DEF IInv, LedgerInv
    <3>2. \A b \in Batch : promise'[b] = "resolved" => promise[b] = "resolved"
      BY <2>1
    <3> QED
      BY <2>1, <2>2, <3>1, <3>2, CancelLedger
  <2>5. queue' = <<>> /\ \A d \in Call \ Queued : status'[d] = st[d]
    BY <2>1, <2>2, CancelEffect
  <2>6. LoopInv' /\ NoBackground'
    BY <2>1, <2>5 DEF IInv, LoopInv, NoBackground
  <2>7. \A d \in active : status'[d] \in Terminal
    BY <2>2, <2>3, <2>5 DEF IInv, QueueInv, TypeOK, StateTypeOK
  <2>8. CoroutineInv'
    BY <2>7 DEF IInv, CoroutineInv
  <2> QED
    BY <2>4, <2>6, <2>8 DEF IInv
<1> QED
  BY <1>1, <1>2

-----------------------------------------------------------------------------
(* Every step keeps the invariant.                                         *)

LEMMA StutterKeeps ==
  ASSUME IInv, UNCHANGED vars
  PROVE  IInv'
<1>1. TypeOK'
  BY TypeStep DEF IInv
<1>2. /\ UNCHANGED <<queue, active, status, results>>
      /\ UNCHANGED <<current, requestQueue, promise, reply, loop, pc, sandboxed, background>>
  BY DEF vars, stateVars, batchVars, callVars
<1>3. Queued' = Queued
  BY <1>2 DEF Queued
<1>4. LoopInv' /\ NoBackground' /\ CoroutineInv'
  BY <1>2 DEF IInv, LoopInv, NoBackground, CoroutineInv
<1>5. QueueInv' /\ LedgerInv'
  BY <1>2, <1>3 DEF IInv, QueueInv, LedgerInv
<1> QED
  BY <1>1, <1>4, <1>5 DEF IInv

LEMMA InitInv == Init => IInv
<1> SUFFICES ASSUME Init PROVE IInv
  OBVIOUS
<1>1. TypeOK
  BY TypeInit
<1>2. /\ queue = <<>> /\ active = {} /\ results = [c \in Call |-> 0]
      /\ current = NoBatch /\ requestQueue = <<>> /\ loop = "idle" /\ background = {}
      /\ pc = [c \in Call |-> "idle"] /\ promise = [b \in Batch |-> "new"]
  BY DEF Init, StateInit
<1>3. Queued = {}
  BY <1>2 DEF Queued
<1>4. LoopInv /\ NoBackground /\ CoroutineInv
  BY <1>2 DEF LoopInv, NoBackground, CoroutineInv
<1>5. QueueInv /\ LedgerInv
  BY <1>2, <1>3 DEF QueueInv, LedgerInv
<1> QED
  BY <1>1, <1>4, <1>5 DEF IInv

LEMMA InvStep ==
  ASSUME BackgroundTools = {}, IInv, [Next]_vars
  PROVE  IInv'
<1>1. TypeOK'
  BY TypeStep DEF IInv
<1>2. ASSUME NEW b \in Batch, Schedule(b) PROVE IInv'
  BY <1>1, <1>2, ScheduleKeeps
<1>3. CASE LoopStep
  BY <1>1, <1>3, DrainedKeeps, StopKeeps, ErroredKeeps, WaveKeeps, NoRevisit, ExecuteKeeps,
     NothingToExecuteKeeps, ExecutionDoneKeeps, FinishKeeps DEF LoopStep
<1>4. ASSUME NEW c \in Call, CallStep(c) PROVE IInv'
  BY <1>1, <1>4, HookKeeps, PolicyKeeps, DetailsKeeps, NotifyKeeps, AbortedAnswerKeeps, ConfirmKeeps,
     RaisesKeeps,
     EditorKeeps, InlineKeeps, UpdateKeeps, ToolKeeps, RecordStatusKeeps, TailCallKeeps,
     SandboxErrorKeeps DEF CallStep
<1>5. ASSUME NEW c \in Call, UserStep(c) PROVE IInv'
  BY <1>1, <1>5, AnswerKeeps DEF UserStep
<1>6. ASSUME NEW c \in Call, Output(c) \/ OutputAfterResult(c) PROVE IInv'
  BY <1>1, <1>6, OutputKeeps, NoLateOutput
<1>7. CASE CancelStep
  <2>1. CASE CancelAll
    BY <1>1, <2>1, CancelKeeps DEF CancelAll, callVars
  <2>2. CASE UserCancels
    BY <1>1, <2>2, CancelKeeps DEF UserCancels, callVars
  <2>3. ASSUME NEW b \in Batch, Abort(b) PROVE IInv'
    BY <1>1, <2>3, AbortKeeps
  <2> QED
    BY <1>7, <2>1, <2>2, <2>3 DEF CancelStep
<1>8. CASE UNCHANGED vars
  BY <1>8, StutterKeeps
<1> QED
  BY <1>2, <1>3, <1>4, <1>5, <1>6, <1>7, <1>8 DEF Next

\* The inductive invariant holds in every reachable state when no process goes to
\* the background (output after the result breaks it, and the properties below).
THEOREM Invariance ==
  ASSUME BackgroundTools = {}
  PROVE  Spec => []IInv
<1>1. Init => IInv
  BY InitInv
<1>2. IInv /\ [Next]_vars => IInv'
  BY InvStep
<1> QED
  BY <1>1, <1>2, PTL DEF Spec

\* A batch ends only when no call of it is queued or active.
THEOREM NoCallLeftBehind ==
  ASSUME BackgroundTools = {}
  PROVE  Spec => []NothingLeftBehind
<1>1. IInv => NothingLeftBehind
  BY DEF IInv, LoopInv, NothingLeftBehind
<1> QED
  BY <1>1, Invariance, PTL

\* No request waits while no batch is being processed.
THEOREM NoRequestLost ==
  ASSUME BackgroundTools = {}
  PROVE  Spec => []RequestsHaveAServer
<1>1. IInv => RequestsHaveAServer
  BY DEF IInv, LoopInv, RequestsHaveAServer
<1> QED
  BY <1>1, Invariance, PTL

\* The loop never falls into its microtask wait.
THEOREM NoSpin ==
  ASSUME BackgroundTools = {}
  PROVE  Spec => []NeverSpins
<1>1. IInv => NeverSpins
  BY DEF IInv, LoopInv, NeverSpins
<1> QED
  BY <1>1, Invariance, PTL

\* Every call is reported at most once, and a resolved promise reports a final
\* status for every call of its batch.
THEOREM ReportedOnce ==
  ASSUME BackgroundTools = {}
  PROVE  Spec => []EachCallReportedOnce
<1>1. IInv => EachCallReportedOnce
  BY DEF IInv, LedgerInv, EachCallReportedOnce
<1> QED
  BY <1>1, Invariance, PTL

-----------------------------------------------------------------------------
(* Nothing starts after an abort.                                          *)

NoStart == \A c \in Call : pc'[c] = "exec" => pc[c] = "exec"
StartsUnaborted == \A c \in Call : pc'[c] = "exec" /\ pc[c] # "exec" => current \notin aborted

LEMMA GotoStarts ==
  ASSUME TypeOK, NEW c \in Call, NEW l, l # "exec", Goto(c, l)
  PROVE  NoStart
  BY DEF Goto, NoStart, TypeOK

LEMMA SettleStarts ==
  ASSUME TypeOK, NEW c \in Call, NEW s, Settle(c, s)
  PROVE  NoStart
  BY GotoStarts DEF Settle

LEMMA ThrowStarts ==
  ASSUME TypeOK, NEW c \in Call, Throw(c)
  PROVE  NoStart
  BY SettleStarts DEF Throw

LEMMA AskAgainStarts ==
  ASSUME TypeOK, NEW c \in Call, AskAgain(c)
  PROVE  NoStart
  BY ThrowStarts, GotoStarts DEF AskAgain

LEMMA DecidedStarts ==
  ASSUME TypeOK, NEW c \in Call, NEW o, Decided(c, o)
  PROVE  StartsUnaborted
<1>1. CASE c \notin sandboxed
  BY <1>1, GotoStarts DEF Decided, SandboxDecided, RulesAfter, NoStart, StartsUnaborted
<1>2. CASE c \in sandboxed
  <2>1. \/ Settle(c, "error") \/ Settle(c, "cancelled")
        \/ MayStart
    BY <1>2 DEF Decided, SandboxDecided, RulesAfter
  <2> QED
    BY <2>1, SettleStarts DEF NoStart, StartsUnaborted, MayStart
<1> QED
  BY <1>1, <1>2

LEMMA StepStarts ==
  ASSUME TypeOK, [Next]_vars
  PROVE  StartsUnaborted
<1>1. NoStart => StartsUnaborted
  BY DEF NoStart, StartsUnaborted
<1>2. pc' = pc => NoStart
  BY DEF NoStart
<1>3. ASSUME NEW b \in Batch, Schedule(b) PROVE pc' = pc
  BY <1>3 DEF Schedule
<1>4. CASE LoopStep
  <2>1. CASE QueueDrained \/ StopLoop \/ FinalizeErrored \/ FinishBatch
    BY <1>1, <1>2, <2>1 DEF QueueDrained, StopLoop, FinalizeErrored, FinishBatch
  <2>2. CASE StartWave
    <3>1. PICK S : Validate(S)
      BY <2>2 DEF StartWave
    <3> QED
      BY <1>1, <3>1 DEF Validate, NoStart
  <2>3. CASE Revisit
    BY <1>1, <2>3 DEF Revisit, NoStart
  <2>4. CASE StartExecution
    BY <2>4 DEF StartExecution, MayStart, StartsUnaborted
  <2>5. CASE NothingToExecute \/ ExecutionDone
    <3>1. pc' = [c \in Call |-> "idle"]
      BY <2>5 DEF NothingToExecute, ExecutionDone, FinalizeTerminal
    <3> QED
      BY <1>1, <3>1 DEF NoStart
  <2> QED
    BY <1>4, <2>1, <2>2, <2>3, <2>4, <2>5 DEF LoopStep
<1>5. ASSUME NEW c \in Call, CallStep(c) PROVE StartsUnaborted
  <2>1. CASE HookReturns(c)
    BY <1>1, <2>1, SettleStarts, GotoStarts DEF HookReturns
  <2>2. CASE PolicyReturns(c)
    BY <1>1, <2>2, ThrowStarts, SettleStarts, AskAgainStarts DEF PolicyReturns
  <2>3. CASE DetailsReturn(c)
    BY <1>1, <2>3, ThrowStarts, GotoStarts, DecidedStarts DEF DetailsReturn
  <2>4. CASE NotifyReturns(c)
    BY <1>1, <2>4, ThrowStarts, GotoStarts DEF NotifyReturns
  <2>5. CASE AnswerAborted(c)
    BY <1>1, <2>5, ThrowStarts DEF AnswerAborted
  <2>6. CASE EditorReturns(c)
    BY <1>1, <2>6, ThrowStarts, AskAgainStarts DEF EditorReturns
  <2>7. CASE InlineReturns(c)
    BY <2>7, DecidedStarts DEF InlineReturns
  <2>8. CASE UpdateReturns(c)
    BY <1>1, <2>8, GotoStarts DEF UpdateReturns
  <2>9. ASSUME NEW v, ToolReturns(c, v) PROVE StartsUnaborted
    BY <1>1, <2>9, GotoStarts DEF ToolReturns
  <2>10. CASE RecordStatus(c)
    BY <1>1, <2>10, SettleStarts DEF RecordStatus
  <2>11. CASE RecordTailCall(c)
    BY <1>1, <2>11, GotoStarts DEF RecordTailCall
  <2>12. CASE RecordSandboxError(c)
    BY <1>1, <2>12, SettleStarts, GotoStarts DEF RecordSandboxError
  <2>13. CASE ConfirmReturns(c)
    <3>1. \/ \E o \in {"once", "always", "cancel"} : Decided(c, o)
          \/ Goto(c, "editor") \/ Goto(c, "inline") \/ Throw(c)
      BY <2>13 DEF ConfirmReturns
    <3> QED
      BY <1>1, <3>1, DecidedStarts, GotoStarts, ThrowStarts
  <2>14. CASE Raises(c)
    BY <1>1, <2>14, ThrowStarts, SettleStarts DEF Raises
  <2> QED
    BY <1>5, <2>1, <2>2, <2>3, <2>4, <2>5, <2>6, <2>7, <2>8, <2>9, <2>10, <2>11, <2>12, <2>13,
       <2>14
    DEF CallStep
<1>6. ASSUME NEW c \in Call, UserStep(c) PROVE StartsUnaborted
  <2>1. PICK o \in Answers : Answer(c, o)
    BY <1>6 DEF UserStep
  <2>2. Goto(c, "confirm")
    BY <2>1 DEF Answer
  <2> QED
    BY <1>1, <2>2, GotoStarts
<1>7. ASSUME NEW c \in Call, Output(c) \/ OutputAfterResult(c) PROVE pc' = pc
  BY <1>7 DEF Output, OutputAfterResult
<1>8. CASE CancelStep
  BY <1>1, <1>2, <1>8 DEF CancelStep, CancelAll, UserCancels, Abort
<1>9. CASE UNCHANGED vars
  BY <1>1, <1>2, <1>9 DEF vars
<1> QED
  BY <1>1, <1>2, <1>3, <1>4, <1>5, <1>6, <1>7, <1>8, <1>9 DEF Next

\* After the abort of its signal a batch starts no tool, for all batches, tools,
\* policies and answers, background processes included.
THEOREM NothingStartsAfterAbort == Spec => AbortStopsStarts
<1>1. TypeOK /\ [Next]_vars =>
        [\A c \in Call : pc'[c] = "exec" /\ pc[c] # "exec" => current \notin aborted]_vars
  BY StepStarts DEF StartsUnaborted
<1> QED
  BY <1>1, TypeCorrect, PTL DEF Spec, AbortStopsStarts
=============================================================================

---------------------- MODULE SchedulerContractProofs ----------------------
(***************************************************************************)
(* Theorems about the order in which Scheduler works: the calls of a batch *)
(* wait for each other where they ask to, and the batches are served as    *)
(* SchedulerContract promises.                                             *)
(***************************************************************************)
EXTENDS SchedulerProofs

-----------------------------------------------------------------------------
(* The order of a batch: the inductive invariant.                          *)

\* Call x comes before call y in the batch that runs.
Precedes(x, y) ==
  LET order == TopicFirst(Requests[current])
  IN  \E i, j \in DOMAIN order : order[i] = x /\ order[j] = y /\ i < j

\* Call x comes before place k of the queue.
Ahead(x, k) == \E m \in DOMAIN queue : m < k /\ queue[m] = x

\* Whatever precedes a queued call in its batch is ahead of it in the queue,
\* active, or done; only a tail call may stand before calls that precede it.
QueueOrder ==
  \A k \in DOMAIN queue : tails[queue[k]] = 0 =>
    \A x \in Call : Precedes(x, queue[k]) =>
      Ahead(x, k) \/ x \in active \/ results[x] = 1

\* WaitsForPrevious in terms of Precedes.
ActiveOrder ==
  \A c \in active \cap Waits : tails[c] = 0 =>
    /\ active = {c}
    /\ \A x \in Call : Precedes(x, c) => results[x] = 1

\* A tail call that waits is active alone.
TailAlone == \A c \in active : tails[c] > 0 /\ tool[c] \in TailWaits => active = {c}

WaitInv == QueueOrder /\ ActiveOrder /\ TailAlone

LEMMA WaitInvSuffices ==
  ASSUME IInv, WaitInv
  PROVE  WaitsForPrevious
<1> DEFINE order == TopicFirst(Requests[current])
<1> SUFFICES ASSUME NEW c \in active \cap Waits, tails[c] = 0,
                    NEW i \in DOMAIN order, NEW j \in DOMAIN order, order[j] = c, i < j
             PROVE  results[order[i]] = 1
  BY DEF WaitsForPrevious, WaitInv, ActiveOrder, TailAlone
<1>1. current \in Batch
  BY DEF IInv, LoopInv, TypeOK
<1>2. order[i] \in Call
  BY <1>1, TopicFirstKeeps, CallsOfType
<1>3. Precedes(order[i], c)
  BY DEF Precedes
<1> QED
  BY <1>2, <1>3 DEF WaitInv, ActiveOrder

-----------------------------------------------------------------------------
(* Steps that leave the queue as it is, or empty it.                       *)

\* A call may leave the active map only with its result.
LEMMA CalmStep ==
  ASSUME WaitInv, UNCHANGED <<queue, current, tails, tool>>, active' \subseteq active,
         active \subseteq Call,
         \A x \in Call : results[x] = 1 => results'[x] = 1,
         \A x \in active \ active' : results'[x] = 1
  PROVE  WaitInv'
<1>1. \A x, y : Precedes(x, y)' <=> Precedes(x, y)
  BY DEF Precedes
<1>2. \A x, k : Ahead(x, k)' <=> Ahead(x, k)
  BY DEF Ahead
<1>3. QueueOrder'
  BY <1>1, <1>2 DEF WaitInv, QueueOrder
<1>4. ActiveOrder'
  BY <1>1 DEF WaitInv, ActiveOrder
<1>5. TailAlone'
  BY DEF WaitInv, TailAlone
<1> QED
  BY <1>3, <1>4, <1>5 DEF WaitInv

LEMMA EmptiedStep ==
  ASSUME WaitInv, queue' = <<>>, active' = active, UNCHANGED <<tails, tool>>,
         active = {} \/ UNCHANGED current,
         active = {} \/ \A x \in Call : results[x] = 1 => results'[x] = 1
  PROVE  WaitInv'
<1>1. QueueOrder'
  BY DEF QueueOrder
<1>2. UNCHANGED current => \A x, y : Precedes(x, y)' <=> Precedes(x, y)
  BY DEF Precedes
<1>3. ActiveOrder'
  BY <1>2 DEF WaitInv, ActiveOrder
<1>4. TailAlone'
  BY DEF WaitInv, TailAlone
<1> QED
  BY <1>1, <1>3, <1>4 DEF WaitInv

LEMMA CancelWaits ==
  ASSUME IInv, WaitInv, NEW st, CancelAllQueued(st), UNCHANGED <<active, current, tails, tool>>
  PROVE  WaitInv'
<1>1. queue' = <<>> /\ results' = Complete(Queued)
  BY DEF CancelAllQueued
<1>2. \A x \in Call : results[x] = 1 => results'[x] = 1
  BY <1>1 DEF Complete, IInv, LedgerInv
<1> QED
  BY <1>1, <1>2, EmptiedStep

\* A batch that starts is queued in its order.
LEMMA StartWaits ==
  ASSUME NEW b \in Batch, StartBatch(b), queue = <<>>, active = {}, active' = active
  PROVE  WaitInv'
<1> DEFINE s == TopicFirst(Requests[b])
<1>1. /\ s \in Seq(Call)
      /\ \A i, j \in DOMAIN s : s[i] = s[j] => i = j
  BY TopicFirstKeeps
<1>2. current' = b /\ queue' = s
  BY <1>1, EmptySeq, ConcatEmptySeq DEF StartBatch
<1>3. \A x, y : Precedes(x, y)' <=> \E i, j \in DOMAIN s : s[i] = x /\ s[j] = y /\ i < j
  BY <1>2 DEF Precedes
<1> HIDE DEF s
<1>4. QueueOrder'
  BY <1>1, <1>2, <1>3 DEF QueueOrder, Ahead
<1>5. ActiveOrder' /\ TailAlone'
  BY DEF ActiveOrder, TailAlone
<1> QED
  BY <1>4, <1>5 DEF WaitInv

-----------------------------------------------------------------------------
(* Steps that take calls from the queue, or put one back.                  *)

\* Where dequeue leaves the rest of the queue.
LEMMA DequeuePlaces ==
  ASSUME TypeOK, NEW n \in 1 .. Len(queue), Dequeue(n)
  PROVE  /\ DOMAIN queue = 1 .. Len(queue) /\ Len(queue) \in Nat
         /\ DOMAIN queue' = 1 .. Len(queue) - n
         /\ \A k \in DOMAIN queue' : n + k \in DOMAIN queue /\ queue'[k] = queue[n + k]
<1>1. queue \in Seq(Call) /\ DOMAIN queue = 1 .. Len(queue) /\ Len(queue) \in Nat
  BY LenProperties DEF TypeOK, StateTypeOK
<1> DEFINE m == Len(queue)
<1>2. \A i \in n + 1 .. m : queue[i] \in Call
  BY <1>1, ElementOfSeq
<1>3. queue' = SubSeq(queue, n + 1, m)
  BY DEF Dequeue
<1>4. m \in Nat /\ n \in Nat /\ n <= m
  BY <1>1
<1> HIDE DEF m
<1>5. /\ queue' \in Seq(Call)
      /\ Len(queue') = IF n + 1 <= m THEN m - (n + 1) + 1 ELSE 0
      /\ \A i \in 1 .. m - (n + 1) + 1 : queue'[i] = queue[(n + 1) + i - 1]
  BY <1>2, <1>3, <1>4, SubSeqProperties
<1>6. Len(queue') = m - n
  BY <1>4, <1>5
<1>7. DOMAIN queue' = 1 .. m - n
  BY <1>5, <1>6, LenProperties
<1>8. \A k \in 1 .. m - n : /\ n + k \in 1 .. m /\ (n + 1) + k - 1 = n + k
                            /\ k \in 1 .. m - (n + 1) + 1
  BY <1>4
<1> QED
  BY <1>1, <1>5, <1>7, <1>8 DEF m

\* Calls leave the front of the queue for the active map, or with their result.
LEMMA FrontStep ==
  ASSUME TypeOK, QueueOrder, NEW n \in 1 .. Len(queue), Dequeue(n), UNCHANGED <<current, tails>>,
         active = {},
         \A x \in Call : results[x] = 1 => results'[x] = 1,
         \A i \in 1 .. n : queue[i] \in active' \/ results'[queue[i]] = 1
  PROVE  QueueOrder'
<1>1. /\ DOMAIN queue = 1 .. Len(queue) /\ Len(queue) \in Nat
      /\ DOMAIN queue' = 1 .. Len(queue) - n
      /\ \A i \in DOMAIN queue' : n + i \in DOMAIN queue /\ queue'[i] = queue[n + i]
  BY DequeuePlaces
<1>2. \A x, y : Precedes(x, y)' <=> Precedes(x, y)
  BY DEF Precedes
<1> SUFFICES ASSUME NEW k \in DOMAIN queue', tails[queue'[k]] = 0,
                    NEW x \in Call, Precedes(x, queue'[k])
             PROVE  Ahead(x, k)' \/ x \in active' \/ results'[x] = 1
  BY <1>2 DEF QueueOrder
<1>3. Ahead(x, n + k) \/ results[x] = 1
  BY <1>1 DEF QueueOrder
<1>4. CASE Ahead(x, n + k)
  <2>1. PICK m \in 1 .. Len(queue) : m < n + k /\ queue[m] = x
    BY <1>1, <1>4 DEF Ahead
  <2>2. CASE m <= n
    BY <2>1, <2>2
  <2>3. CASE m > n
    <3>1. m - n \in 1 .. Len(queue) - n /\ m - n < k /\ n + (m - n) = m
      BY <1>1, <2>1, <2>3
    <3>2. queue'[m - n] = x
      BY <1>1, <2>1, <3>1
    <3> QED
      BY <1>1, <3>1, <3>2 DEF Ahead
  <2> QED
    BY <1>1, <2>1, <2>2, <2>3
<1> QED
  BY <1>3, <1>4

LEMMA ErroredWaits ==
  ASSUME IInv, WaitInv, FinalizeErrored
  PROVE  WaitInv'
<1>1. /\ queue # <<>> /\ active = {} /\ Dequeue(1) /\ results' = Complete({Head(queue)})
      /\ UNCHANGED <<active, current, tails>> /\ TypeOK /\ QueueOrder
  BY DEF FinalizeErrored, batchVars, callVars, IInv, WaitInv
<1>2. queue \in Seq(Call) /\ Head(queue) = queue[1] /\ 1 \in 1 .. Len(queue) /\ queue[1] \in Call
  BY <1>1, EmptySeq, ElementOfSeq DEF TypeOK, StateTypeOK
<1>3. queue[1] \in Queued
  BY <1>2, LenProperties DEF Queued
<1>4. results'[queue[1]] = 1 /\ \A x \in Call : results[x] = 1 => results'[x] = 1
  BY <1>1, <1>2, <1>3 DEF Complete, IInv, LedgerInv
<1>5. \A i \in 1 .. 1 : queue[i] \in active' \/ results'[queue[i]] = 1
  BY <1>4
<1>6. QueueOrder'
  BY <1>1, <1>2, <1>4, <1>5, FrontStep
<1>7. ActiveOrder' /\ TailAlone'
  BY <1>1 DEF ActiveOrder, TailAlone
<1> QED
  BY <1>6, <1>7 DEF WaitInv

\* A call that waits starts a wave of its own, when all that precedes it is done.
LEMMA WaveWaits ==
  ASSUME IInv, WaitInv, StartWave
  PROVE  WaitInv'
<1>1. PICK n \in 1 .. Len(queue) : /\ IsWave(n) /\ Dequeue(n)
                                   /\ active' = {queue[i] : i \in 1 .. n}
  BY DEF StartWave
<1>2. active = {} /\ UNCHANGED <<current, tails, tool, results>> /\ TypeOK /\ QueueOrder
  BY DEF StartWave, batchVars, IInv, WaitInv
<1>3. QueueOrder'
  BY <1>1, <1>2, FrontStep
<1>4. ActiveOrder'
  <2> SUFFICES ASSUME NEW c \in active' \cap Waits, tails[c] = 0
               PROVE  /\ active' = {c}
                      /\ \A x \in Call : Precedes(x, c)' => results[x] = 1
    BY <1>2 DEF ActiveOrder
  <2>1. PICK k \in 1 .. n : queue[k] = c
    BY <1>1
  <2>2. ~Parallelizable(queue[k])
    BY <2>1 DEF Parallelizable
  <2>3. n = 1 /\ k = 1
    BY <1>1, <2>1, <2>2 DEF IsWave
  <2>4. active' = {c}
    BY <1>1, <2>1, <2>3
  <2>5. \A x : ~Ahead(x, 1)
    BY <1>2, LenProperties DEF Ahead, TypeOK, StateTypeOK
  <2>6. 1 \in DOMAIN queue
    BY <1>1, <1>2, <2>3, LenProperties DEF TypeOK, StateTypeOK
  <2>7. \A x \in Call : Precedes(x, c) => results[x] = 1
    BY <1>2, <2>1, <2>3, <2>5, <2>6 DEF QueueOrder
  <2>8. \A x : Precedes(x, c)' => Precedes(x, c)
    BY <1>2 DEF Precedes
  <2> QED
    BY <2>4, <2>7, <2>8
<1>5. TailAlone'
  <2> SUFFICES ASSUME NEW c \in active', tails[c] > 0, tool[c] \in TailWaits
               PROVE  active' = {c}
    BY <1>2 DEF TailAlone
  <2>1. PICK k \in 1 .. n : queue[k] = c
    BY <1>1
  <2>2. ~Parallelizable(queue[k])
    BY <2>1 DEF Parallelizable
  <2>3. n = 1 /\ k = 1
    BY <1>1, <2>1, <2>2 DEF IsWave
  <2> QED
    BY <1>1, <2>1, <2>3
<1> QED
  BY <1>3, <1>4, <1>5 DEF WaitInv

\* A tail call goes back to the front: the rest of the queue still follows it.
LEMMA TailCallWaits ==
  ASSUME IInv, WaitInv, NEW c \in Call, RecordTailCall(c)
  PROVE  WaitInv'
<1>1. /\ active' = active \ {c} /\ queue' = <<c>> \o queue
      /\ tails' = [tails EXCEPT ![c] = @ + 1]
      /\ UNCHANGED <<current, results>> /\ pc[c] = "record"
  BY DEF RecordTailCall, Replace, batchVars
<1>2. c \in active /\ c \notin Queued /\ TypeOK
  BY <1>1, OwnsCall DEF IInv
<1>3. tails'[c] # 0 /\ \A d \in Call \ {c} : tails'[d] = tails[d]
  BY <1>1, <1>2 DEF TypeOK
<1>4. queue \in Seq(Call) /\ <<c>> \in Seq(Call) /\ Len(<<c>>) = 1
  BY <1>2 DEF TypeOK, StateTypeOK
<1>5. /\ queue' \in Seq(Call) /\ Len(queue') = Len(queue) + 1 /\ Len(queue) \in Nat
      /\ \A i \in 1 .. Len(queue) + 1 : queue'[i] = IF i = 1 THEN c ELSE queue[i - 1]
  BY <1>1, <1>4, ConcatProperties, LenProperties
<1>6. DOMAIN queue = 1 .. Len(queue) /\ DOMAIN queue' = 1 .. Len(queue) + 1
  BY <1>4, <1>5, LenProperties
<1>7. \A x, y : Precedes(x, y)' <=> Precedes(x, y)
  BY <1>1 DEF Precedes
<1>8. QueueOrder'
  <2> SUFFICES ASSUME NEW k \in 1 .. Len(queue) + 1, tails'[queue'[k]] = 0,
                      NEW x \in Call, Precedes(x, queue'[k])
               PROVE  Ahead(x, k)' \/ x \in active' \/ results[x] = 1
    BY <1>1, <1>6, <1>7 DEF QueueOrder
  <2>1. k # 1
    BY <1>3, <1>5
  <2>2. k - 1 \in 1 .. Len(queue) /\ queue'[k] = queue[k - 1]
    BY <1>5, <2>1
  <2>3. queue[k - 1] \in Call \ {c}
    BY <1>2, <1>4, <1>6, <2>2, ElementOfSeq DEF Queued
  <2>4. tails[queue[k - 1]] = 0
    BY <1>3, <2>2, <2>3
  <2>5. Ahead(x, k - 1) \/ x \in active \/ results[x] = 1
    BY <1>6, <2>2, <2>4 DEF WaitInv, QueueOrder
  <2>6. CASE Ahead(x, k - 1)
    <3>1. PICK m \in 1 .. Len(queue) : m < k - 1 /\ queue[m] = x
      BY <1>6, <2>6 DEF Ahead
    <3>2. m + 1 \in 1 .. Len(queue) + 1 /\ m + 1 < k /\ m + 1 # 1 /\ (m + 1) - 1 = m
      BY <1>5, <3>1
    <3>3. queue'[m + 1] = x
      BY <1>5, <3>1, <3>2
    <3> QED
      BY <1>6, <3>2, <3>3 DEF Ahead
  <2>7. CASE x = c
    <3>1. 1 \in 1 .. Len(queue) + 1 /\ 1 < k /\ queue'[1] = c
      BY <1>5, <2>1
    <3> QED
      BY <1>6, <2>7, <3>1 DEF Ahead
  <2> QED
    BY <1>1, <2>5, <2>6, <2>7
<1>9. ActiveOrder'
  <2> SUFFICES ASSUME NEW d \in active \ {c}, d \in Waits, tails'[d] = 0
               PROVE  FALSE
    BY <1>1 DEF ActiveOrder
  <2>1. tails[d] = 0
    BY <1>2, <1>3 DEF TypeOK, StateTypeOK
  <2> QED
    BY <1>2, <2>1 DEF WaitInv, ActiveOrder
<1>10. TailAlone'
  <2> SUFFICES ASSUME NEW d \in active \ {c}, tails'[d] > 0, tool'[d] \in TailWaits
               PROVE  FALSE
    BY <1>1 DEF TailAlone
  <2>1. d \in Call
    BY <1>2 DEF TypeOK, StateTypeOK
  <2>2. tails'[d] = tails[d] /\ tool'[d] = tool[d]
    BY <1>2, <1>3, <2>1 DEF RecordTailCall, TypeOK
  <2> QED
    BY <1>2, <2>2 DEF WaitInv, TailAlone
<1> QED
  BY <1>8, <1>9, <1>10 DEF WaitInv
-----------------------------------------------------------------------------
(* The order of a batch: the theorem.                                      *)

\* Most steps move no call.
LEMMA StillStep ==
  ASSUME IInv, WaitInv, UNCHANGED <<queue, active, results, current, tails, tool>>
  PROVE  WaitInv'
  BY CalmStep DEF IInv, TypeOK, StateTypeOK

LEMMA ScheduleWaits ==
  ASSUME IInv, WaitInv, NEW b \in Batch, Schedule(b)
  PROVE  WaitInv'
<1>1. UNCHANGED <<active, tails, tool>>
  BY DEF Schedule, callVars
<1>2. CASE current = NoBatch /\ active = {} /\ StartBatch(b)
  BY <1>1, <1>2, StartWaits DEF IInv, LoopInv
<1>3. CASE UNCHANGED <<current, queue, results>>
  BY <1>1, <1>3, StillStep
<1> QED
  BY <1>2, <1>3 DEF Schedule

LEMMA FinishWaits ==
  ASSUME IInv, WaitInv, FinishBatch
  PROVE  WaitInv'
<1>1. UNCHANGED <<active, tails, tool>> /\ active = {} /\ queue = <<>>
  BY DEF FinishBatch, callVars, IInv, LoopInv
<1>2. CASE HasNext /\ StartBatch(Head(requestQueue))
  <2>1. Head(requestQueue) \in Batch
    BY <1>2, HeadTailProperties DEF HasNext, IInv, TypeOK
  <2> QED
    BY <1>1, <1>2, <2>1, StartWaits
<1>3. CASE UNCHANGED queue
  BY <1>1, <1>3, EmptiedStep
<1> QED
  BY <1>1, <1>2, <1>3 DEF FinishBatch

LEMMA FinalizeWaits ==
  ASSUME IInv, WaitInv, NothingToExecute \/ ExecutionDone
  PROVE  WaitInv'
<1> DEFINE finished == {c \in active : status[c] \in Terminal}
<1>1. /\ active' = active \ finished /\ results' = Complete(finished)
      /\ UNCHANGED <<queue, current, tails, tool>>
  BY DEF NothingToExecute, ExecutionDone, FinalizeTerminal, batchVars, callVars
<1>2. active \subseteq Call /\ \A x \in active : results[x] = 0
  BY DEF IInv, TypeOK, StateTypeOK, LedgerInv
<1>3. \A x \in Call : results[x] = 1 => results'[x] = 1
  BY <1>1, <1>2 DEF Complete
<1>4. \A x \in active \ active' : results'[x] = 1
  BY <1>1, <1>2 DEF Complete
<1> QED
  BY <1>1, <1>2, <1>3, <1>4, CalmStep

LEMMA LoopWaits ==
  ASSUME IInv, WaitInv, LoopStep
  PROVE  WaitInv'
<1>1. CASE QueueDrained \/ Revisit \/ StartExecution
  BY <1>1, StillStep DEF QueueDrained, Revisit, StartExecution, stateVars, batchVars, callVars
<1>2. CASE StopLoop
  BY <1>2, CancelWaits DEF StopLoop, batchVars, callVars
<1> QED
  BY <1>1, <1>2, ErroredWaits, WaveWaits, FinalizeWaits, FinishWaits DEF LoopStep

LEMMA CallWaits ==
  ASSUME IInv, WaitInv, NEW c \in Call, CallStep(c)
  PROVE  WaitInv'
<1>1. CASE HookReturns(c) \/ PolicyReturns(c) \/ DetailsReturn(c) \/ NotifyReturns(c)
  BY <1>1, StillStep DEF HookReturns, PolicyReturns, DetailsReturn, NotifyReturns, batchVars
<1>2. CASE AnswerAborted(c) \/ ConfirmReturns(c) \/ EditorReturns(c) \/ InlineReturns(c)
           \/ Raises(c)
  BY <1>2, StillStep DEF AnswerAborted, ConfirmReturns, EditorReturns, InlineReturns, Raises,
                         batchVars, callVars
<1>3. CASE UpdateReturns(c)
  <2>1. CASE CancelAllQueued(UpdateStatus(status, c, "cancelled"))
    BY <1>3, <2>1, CancelWaits DEF UpdateReturns, batchVars, callVars
  <2>2. CASE UNCHANGED <<queue, results>>
    BY <1>3, <2>2, StillStep DEF UpdateReturns, batchVars, callVars
  <2> QED
    BY <1>3, <2>1, <2>2 DEF UpdateReturns
<1>4. ASSUME NEW v, ToolReturns(c, v) PROVE WaitInv'
  BY <1>4, StillStep DEF ToolReturns, stateVars, batchVars
<1>5. CASE RecordStatus(c) \/ RecordSandboxError(c)
  BY <1>5, StillStep DEF RecordStatus, RecordSandboxError, batchVars, callVars
<1>6. CASE RecordTailCall(c)
  BY <1>6, TailCallWaits
<1> QED
  BY <1>1, <1>2, <1>3, <1>4, <1>5, <1>6 DEF CallStep

LEMMA CancelStepWaits ==
  ASSUME IInv, WaitInv, CancelStep
  PROVE  WaitInv'
<1>1. UNCHANGED <<active, current, tails, tool>>
  BY DEF CancelStep, CancelAll, UserCancels, Abort, stateVars, callVars
<1>2. CASE CancelEverything
  <2>1. CASE isCancelling
    BY <1>1, <1>2, <2>1, StillStep DEF CancelEverything
  <2>2. CASE ~isCancelling
    BY <1>1, <1>2, <2>2, CancelWaits DEF CancelEverything
  <2> QED
    BY <2>1, <2>2
<1>3. CASE UNCHANGED stateVars
  BY <1>1, <1>3, StillStep DEF stateVars
<1> QED
  BY <1>2, <1>3 DEF CancelStep, CancelAll, UserCancels, Abort

LEMMA WaitStep ==
  ASSUME IInv, WaitInv, [Next]_vars
  PROVE  WaitInv'
<1>1. ASSUME NEW b \in Batch, Schedule(b) PROVE WaitInv'
  BY <1>1, ScheduleWaits
<1>2. ASSUME NEW c \in Call, UserStep(c) PROVE WaitInv'
  BY <1>2, StillStep DEF UserStep, Answer, batchVars, stateVars
<1>3. ASSUME NEW c \in Call, Output(c) \/ OutputAfterResult(c) PROVE WaitInv'
  BY <1>3, StillStep DEF Output, OutputAfterResult, batchVars, callVars
<1>4. CASE UNCHANGED vars
  BY <1>4, StillStep DEF vars, stateVars, batchVars, callVars
<1> QED
  BY <1>1, <1>2, <1>3, <1>4, LoopWaits, CallWaits, CancelStepWaits DEF Next

\* wait_for_previous: such a call, or tail call, is active alone, and all that precedes
\* the call in its batch has its final result.
THEOREM WaitingIsKept ==
  ASSUME BackgroundTools = {}
  PROVE  Spec => []WaitsForPrevious
<1>1. Init => WaitInv
  BY DEF Init, StateInit, WaitInv, QueueOrder, ActiveOrder, TailAlone
<1>2. IInv /\ WaitInv /\ [Next]_vars => WaitInv'
  BY WaitStep
<1>3. IInv /\ WaitInv => WaitsForPrevious
  BY WaitInvSuffices
<1> QED
  BY <1>1, <1>2, <1>3, Invariance, PTL DEF Spec
-----------------------------------------------------------------------------
(* The scheduler implements its contract.                                  *)

contractVars == <<promise, requestQueue, current, reply>>
Kept == [Contract!Next]_contractVars

\* A free scheduler serves, a busy one puts the request in line or refuses it.
LEMMA ScheduleKept ==
  ASSUME IInv, NEW b \in Batch, Schedule(b)
  PROVE  Kept
<1>1. UNCHANGED reply /\ promise[b] = "new"
  BY DEF Schedule
<1>2. CASE /\ current = NoBatch /\ StartBatch(b)
           /\ promise' = [promise EXCEPT ![b] = "running"] /\ UNCHANGED requestQueue
  <2>1. Contract!Serve(b)
    BY <1>1, <1>2 DEF Contract!Serve, StartBatch
  <2> QED
    BY <2>1 DEF Kept, Contract!Next
<1>3. CASE /\ current # NoBatch \/ active # {}
           /\ \/ /\ promise' = [promise EXCEPT ![b] = "rejected"]
                 /\ UNCHANGED requestQueue
              \/ /\ promise' = [promise EXCEPT ![b] = "queued"]
                 /\ requestQueue' = JoinQueue(b)
           /\ UNCHANGED current
  <2>1. current # NoBatch
    BY <1>3 DEF IInv, LoopInv
  <2>2. Contract!GetInLine(b)
    BY <1>1, <1>3, <2>1 DEF Contract!GetInLine, JoinQueue
  <2> QED
    BY <2>2 DEF Kept, Contract!Next
<1> QED
  BY <1>2, <1>3 DEF Schedule

\* The end of a batch answers every call of it with its final status.
LEMMA FinishKept ==
  ASSUME IInv, FinishBatch
  PROVE  Kept
<1>1. loop = "done" /\ active = {} /\ queue = <<>> /\ current # NoBatch /\ current \in Batch
  BY DEF FinishBatch, IInv, LoopInv, TypeOK
<1>2. \A c \in CallsOf(current) : c \in Call /\ results[c] > 0 /\ status[c] \in Contract!Final
  <2> TAKE c \in CallsOf(current)
  <2>1. c \in Call
    BY <1>1, CallsOfType
  <2>2. results[c] = 1 /\ status[c] \in Terminal
    BY <1>1, <2>1 DEF IInv, LedgerInv, Queued
  <2> QED
    BY <2>1, <2>2 DEF Terminal, Contract!Final
<1> DEFINE members == [b \in Batch |-> CallsOf(b)]
           r == [c \in CallsOf(current) |-> status[c]]
<1>3. members[current] = CallsOf(current)
  BY <1>1
<1>4. r \in [members[current] -> Contract!Final]
  BY <1>2, <1>3
<1>5. reply' = [c \in Call |-> IF c \in members[current] THEN r[c] ELSE reply[c]]
  BY <1>2, <1>3 DEF FinishBatch
<1>6. \/ /\ requestQueue = <<>>
         /\ promise' = [promise EXCEPT ![current] = "resolved"]
         /\ current' = NoBatch
         /\ UNCHANGED requestQueue
      \/ /\ requestQueue # <<>>
         /\ promise' = [promise EXCEPT ![current] = "resolved",
                                       ![Head(requestQueue)] = "running"]
         /\ current' = Head(requestQueue)
         /\ requestQueue' = Tail(requestQueue)
  BY <1>1 DEF FinishBatch, HasNext, StartBatch
<1> HIDE DEF r, members
<1>7. \E x \in [members[current] -> Contract!Final] :
        reply' = [c \in Call |-> IF c \in members[current] THEN x[c] ELSE reply[c]]
  BY <1>4, <1>5
<1>8. Contract!Resolve
  BY <1>1, <1>6, <1>7 DEF Contract!Resolve, members
<1> QED
  BY <1>8 DEF Kept, Contract!Next

\* The abort of a waiting batch takes it out of the line.
LEMMA AbortKept ==
  ASSUME IInv, NEW b \in Batch, Abort(b)
  PROVE  Kept
<1>1. UNCHANGED <<current, reply>>
  BY DEF Abort
<1>2. CASE b \notin {requestQueue[i] : i \in DOMAIN requestQueue}
  BY <1>1, <1>2 DEF Abort, Kept, contractVars
<1>3. CASE b \in {requestQueue[i] : i \in DOMAIN requestQueue}
  <2> DEFINE n == CHOOSE i \in DOMAIN requestQueue : requestQueue[i] = b
  <2>1. n \in DOMAIN requestQueue /\ requestQueue[n] = b
    BY <1>3
  <2>2. requestQueue' = SubSeq(requestQueue, 1, n - 1)
                          \o SubSeq(requestQueue, n + 1, Len(requestQueue))
    BY <1>3 DEF Abort, Without
  <2>3. promise' = [e \in Batch |-> IF e \in {b} THEN "rejected" ELSE promise[e]]
    BY <1>3 DEF Abort, IInv, TypeOK
  <2> HIDE DEF n
  <2>4. {b} = {requestQueue[n]} /\ {b} # {} /\ {b} \subseteq Contract!InLine
    BY <1>3, <2>1 DEF Contract!InLine
  <2>5. Contract!Reject({b})
    BY <1>1, <2>1, <2>2, <2>3, <2>4 DEF Contract!Reject
  <2> QED
    BY <2>5 DEF Kept, Contract!Next
<1> QED
  BY <1>2, <1>3

\* cancelAll rejects the whole line, or finds none.
LEMMA CancelKept ==
  ASSUME IInv, CancelEverything, UNCHANGED <<current, reply>>
  PROVE  Kept
<1>1. CASE isCancelling
  BY <1>1 DEF CancelEverything, Kept, contractVars
<1>2. CASE ~isCancelling
  <2>1. /\ requestQueue' = <<>>
        /\ promise' = [b \in Batch |-> IF b \in Contract!InLine THEN "rejected" ELSE promise[b]]
    BY <1>2 DEF CancelEverything, Contract!InLine
  <2>2. Contract!InLine \subseteq Batch
    BY LenProperties, ElementOfSeq DEF IInv, TypeOK, Contract!InLine
  <2>3. CASE Contract!InLine # {}
    <3>1. Contract!Reject(Contract!InLine)
      BY <2>1, <2>3 DEF Contract!Reject
    <3> QED
      BY <2>2, <3>1 DEF Kept, Contract!Next
  <2>4. CASE Contract!InLine = {}
    <3>1. promise' = promise
      BY <2>1, <2>4 DEF IInv, TypeOK
    <3>2. requestQueue = <<>>
      <4>1. requestQueue \in Seq(Batch) /\ DOMAIN requestQueue = 1 .. Len(requestQueue)
        BY LenProperties DEF IInv, TypeOK
      <4>2. DOMAIN requestQueue = {}
        BY <2>4 DEF Contract!InLine
      <4>3. 1 \notin 1 .. Len(requestQueue)
        BY <4>1, <4>2
      <4> QED
        BY <4>1, <4>3, EmptySeq
    <3> QED
      BY <2>1, <3>1, <3>2 DEF Kept, contractVars
  <2> QED
    BY <2>3, <2>4
<1> QED
  BY <1>1, <1>2

\* Every step is a step of the contract, or one that its callers do not see.
LEMMA ContractStep ==
  ASSUME IInv, [Next]_vars
  PROVE  Kept
<1>1. UNCHANGED batchVars => Kept
  BY DEF batchVars, Kept, contractVars
<1>2. ASSUME NEW b \in Batch, Schedule(b) PROVE Kept
  BY <1>2, ScheduleKept
<1>3. CASE LoopStep
  <2>1. CASE QueueDrained \/ StopLoop \/ FinalizeErrored \/ StartWave \/ Revisit
    BY <1>1, <2>1 DEF QueueDrained, StopLoop, FinalizeErrored, StartWave, Revisit
  <2>2. CASE StartExecution \/ NothingToExecute \/ ExecutionDone
    BY <1>1, <2>2 DEF StartExecution, NothingToExecute, ExecutionDone, FinalizeTerminal
  <2> QED
    BY <1>3, <2>1, <2>2, FinishKept DEF LoopStep
<1>4. ASSUME NEW c \in Call, CallStep(c) PROVE Kept
  <2>1. CASE HookReturns(c) \/ PolicyReturns(c) \/ DetailsReturn(c) \/ NotifyReturns(c)
    BY <1>1, <2>1 DEF HookReturns, PolicyReturns, DetailsReturn, NotifyReturns
  <2>2. CASE AnswerAborted(c) \/ EditorReturns(c) \/ InlineReturns(c) \/ UpdateReturns(c)
    BY <1>1, <2>2 DEF AnswerAborted, EditorReturns, InlineReturns, UpdateReturns
  <2>3. ASSUME NEW v, ToolReturns(c, v) PROVE Kept
    BY <1>1, <2>3 DEF ToolReturns
  <2>4. CASE RecordStatus(c) \/ RecordTailCall(c) \/ RecordSandboxError(c)
    BY <1>1, <2>4 DEF RecordStatus, RecordTailCall, RecordSandboxError
  <2>5. CASE ConfirmReturns(c) \/ Raises(c)
    BY <1>1, <2>5 DEF ConfirmReturns, Raises
  <2> QED
    BY <1>4, <2>1, <2>2, <2>3, <2>4, <2>5 DEF CallStep
<1>5. ASSUME NEW c \in Call, UserStep(c) PROVE Kept
  BY <1>1, <1>5 DEF UserStep, Answer
<1>6. ASSUME NEW c \in Call, Output(c) \/ OutputAfterResult(c) PROVE Kept
  BY <1>1, <1>6 DEF Output, OutputAfterResult
<1>7. CASE CancelStep
  BY <1>7, AbortKept, CancelKept DEF CancelStep, CancelAll, UserCancels
<1>8. CASE UNCHANGED vars
  BY <1>1, <1>8 DEF vars
<1> QED
  BY <1>2, <1>3, <1>4, <1>5, <1>6, <1>7, <1>8 DEF Next

\* The scheduler implements SchedulerContract: one batch at a time, in the order of
\* arrival, each resolved with a final result for every call or rejected unserved.
THEOREM ContractIsKept ==
  ASSUME BackgroundTools = {}
  PROVE  Spec => KeepsContract
<1>1. Init => Contract!Init
  BY DEF Init, Contract!Init
<1>2. IInv /\ [Next]_vars => [Contract!Next]_<<promise, requestQueue, current, reply>>
  BY ContractStep DEF Kept, contractVars
<1> QED
  BY <1>1, <1>2, Invariance, PTL DEF Spec, KeepsContract, Contract!Spec
=============================================================================

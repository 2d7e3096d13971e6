--------------------------- MODULE MessageBusProofs ---------------------------
(***************************************************************************)
(* Theorems about MessageBus and the policy updates below it, for any      *)
(* number of sessions, rules and asks and for every placement of failures, *)
(* crashes and restarts.                                                   *)
(***************************************************************************)
EXTENDS MessageBus, FiniteSetTheorems, SequenceTheorems, TLAPS

-----------------------------------------------------------------------------
(* The inductive invariant.                                                *)

\* Each session has a queue no longer than the updates there were, and at most one write
\* under way.
ChainInv ==
  /\ queue \in [Session -> Seq(Rule)]
  /\ \A s \in Session : Len(queue[s]) <= updates
  /\ jobs \in [Session -> SUBSET Job]
  /\ \A s \in Session : \A i, j \in jobs[s] : i = j

\* What is queued, read or written was asked for and is not too wide.
WishedInv ==
  /\ file \subseteq wanted \ Refused
  /\ \A s \in Session :
       /\ \A i \in DOMAIN queue[s] : queue[s][i] \in wanted \ Refused
       /\ \A j \in jobs[s] : j.data \cup {j.rule} \subseteq wanted \ Refused

\* Only rules of the file have an author, and a write that could read the file has seen
\* every rule of the file that its own session wrote.
AuthorInv ==
  /\ \A r \in Rule : author[r] # {} => r \in file
  /\ \A s \in Session : \A j \in jobs[s] : \A r \in Rule :
       author[r] = {s} /\ ~j.blind => r \in j.data

\* The checks know what is denied; only asks that were published listen, and who is decided
\* has stopped.
BusInv ==
  /\ DecisionIsOwn
  /\ \A a \in listening : verdict[a] # "none"
  /\ \A a \in Ask : verdict[a] = "allow" => Needs[a] \notin Denied

IInv == TypeOK /\ ChainInv /\ WishedInv /\ AuthorInv /\ BusInv

\* The part of it that is about the rules and their file.
FileInv == PersistenceTypeOK /\ ChainInv /\ WishedInv /\ AuthorInv

-----------------------------------------------------------------------------
(* Lemmas about the data.                                                  *)

\* Writes that are all the same are at most one.
LEMMA AtMostOne ==
  ASSUME NEW J, \A i, j \in J : i = j
  PROVE  Cardinality(J) <= 1
<1>1. CASE J = {}
  BY <1>1, FS_EmptySet
<1>2. CASE J # {}
  <2>1. PICK j \in J : TRUE
    BY <1>2
  <2>2. J = {j}
    BY <2>1
  <2>3. Cardinality(J) = 1
    BY <2>2, FS_Singleton
  <2> QED
    BY <2>3
<1> QED
  BY <1>1, <1>2

\* A queue that loses its head, or gains a rule, holds no other rules than before.
LEMMA QueueSteps ==
  ASSUME NEW q \in Seq(Rule), NEW r \in Rule
  PROVE  /\ Append(q, r) \in Seq(Rule) /\ Len(Append(q, r)) = Len(q) + 1
         /\ \A i \in DOMAIN Append(q, r) :
              Append(q, r)[i] = r \/ \E k \in DOMAIN q : Append(q, r)[i] = q[k]
         /\ q # <<>> =>
              /\ Head(q) \in Rule /\ 1 \in DOMAIN q /\ Head(q) = q[1]
              /\ Tail(q) \in Seq(Rule) /\ Len(Tail(q)) <= Len(q)
              /\ \A i \in DOMAIN Tail(q) : \E k \in DOMAIN q : Tail(q)[i] = q[k]
<1>1. /\ Append(q, r) \in Seq(Rule) /\ Len(Append(q, r)) = Len(q) + 1
      /\ \A i \in DOMAIN Append(q, r) :
           Append(q, r)[i] = r \/ \E k \in DOMAIN q : Append(q, r)[i] = q[k]
  BY AppendProperties, LenProperties
<1>2. ASSUME q # <<>>
      PROVE  /\ Head(q) \in Rule /\ 1 \in DOMAIN q /\ Head(q) = q[1]
             /\ Tail(q) \in Seq(Rule) /\ Len(Tail(q)) <= Len(q)
             /\ \A i \in DOMAIN Tail(q) : \E k \in DOMAIN q : Tail(q)[i] = q[k]
  <2>1. /\ Tail(q) \in Seq(Rule) /\ Len(Tail(q)) = Len(q) - 1 /\ Head(q) \in Rule
        /\ \A i \in 1 .. Len(q) - 1 : Tail(q)[i] = q[i + 1]
    BY <1>2, HeadTailProperties
  <2>2. Len(q) \in Nat \ {0} /\ DOMAIN q = 1 .. Len(q) /\ DOMAIN Tail(q) = 1 .. Len(q) - 1
    BY <1>2, <2>1, EmptySeq, LenProperties
  <2>3. Head(q) = q[1]
    BY <1>2
  <2> QED
    BY <2>1, <2>2, <2>3
<1> QED
  BY <1>1, <1>2

\* The variables of simple types.
PlainTypeOK ==
  /\ up \in SUBSET Session /\ memory \in [Session -> SUBSET Rule]
  /\ updates \in 0..MaxUpdates
  /\ file \in SUBSET Rule /\ author \in [Rule -> SUBSET Session]
  /\ wanted \in SUBSET Rule /\ faults \in 0..MaxFaults

\* What ChainInv says of the queues and writes gives the bounds that the type states.
LEMMA TypeFollows ==
  /\ PlainTypeOK /\ ChainInv => PersistenceTypeOK
  /\ PlainTypeOK' /\ ChainInv' => PersistenceTypeOK'
<1>1. ASSUME NEW n \in 0..MaxUpdates, NEW q \in Seq(Rule), Len(q) <= n
      PROVE  Len(q) <= MaxUpdates
  BY <1>1, LenProperties, PersistenceAssumption
<1>2. PlainTypeOK /\ ChainInv => PersistenceTypeOK
  BY <1>1, AtMostOne DEF PlainTypeOK, ChainInv, PersistenceTypeOK
<1>3. PlainTypeOK' /\ ChainInv' => PersistenceTypeOK'
  BY <1>1, AtMostOne DEF PlainTypeOK, ChainInv, PersistenceTypeOK
<1> QED
  BY <1>2, <1>3

-----------------------------------------------------------------------------
(* The steps of the policy updates.                                        *)

LEMMA UpdateKeeps ==
  ASSUME FileInv, NEW s \in Session, NEW r \in Rule, NEW persist \in BOOLEAN,
         UpdatePolicy(s, r, persist)
  PROVE  FileInv'
<1> USE DEF FileInv
<1>1. PlainTypeOK' /\ updates' = updates + 1 /\ wanted \subseteq wanted'
  <2>1. updates' \in 0..MaxUpdates /\ updates' = updates + 1
    BY PersistenceAssumption DEF PersistenceTypeOK, UpdatePolicy
  <2>2. memory' \in [Session -> SUBSET Rule]
    BY DEF PersistenceTypeOK, UpdatePolicy, Remembered
  <2>3. wanted' \in SUBSET Rule /\ wanted \subseteq wanted'
    BY DEF PersistenceTypeOK, UpdatePolicy
  <2> QED
    BY <2>1, <2>2, <2>3 DEF PersistenceTypeOK, PlainTypeOK, UpdatePolicy
<1>2. /\ queue' \in [Session -> Seq(Rule)]
      /\ \A t \in Session :
           \/ queue'[t] = queue[t]
           \/ queue'[t] = Append(queue[t], r) /\ r \in wanted' \ Refused
  <2>1. queue[s] \in Seq(Rule) /\ Append(queue[s], r) \in Seq(Rule)
    BY QueueSteps DEF ChainInv
  <2>2. \/ queue' = queue
        \/ /\ queue' = [queue EXCEPT ![s] = Append(queue[s], r)]
           /\ r \in wanted' \ Refused
    BY DEF UpdatePolicy, Accepted
  <2> QED
    BY <2>1, <2>2 DEF ChainInv
<1>3. ChainInv'
  <2>1. ASSUME NEW t \in Session
        PROVE  Len(queue'[t]) <= updates'
    <3>1. queue[t] \in Seq(Rule) /\ Len(queue[t]) \in Nat /\ updates \in Nat
      BY LenProperties DEF ChainInv, PersistenceTypeOK
    <3>2. Len(queue'[t]) = Len(queue[t]) \/ Len(queue'[t]) = Len(queue[t]) + 1
      BY <1>2, <3>1, QueueSteps
    <3>3. Len(queue[t]) <= updates
      BY DEF ChainInv
    <3> QED
      BY <1>1, <3>1, <3>2, <3>3
  <2>2. jobs' = jobs
    BY DEF UpdatePolicy
  <2> QED
    BY <1>2, <2>1, <2>2 DEF ChainInv
<1>4. WishedInv'
  <2>1. ASSUME NEW t \in Session, NEW i \in DOMAIN queue'[t]
        PROVE  queue'[t][i] \in wanted' \ Refused
    <3>1. \A k \in DOMAIN queue[t] : queue[t][k] \in wanted' \ Refused
      BY <1>1 DEF WishedInv
    <3>2. CASE queue'[t] = queue[t]
      BY <3>1, <3>2
    <3>3. CASE queue'[t] = Append(queue[t], r) /\ r \in wanted' \ Refused
      <4>1. queue'[t][i] = r \/ \E k \in DOMAIN queue[t] : queue'[t][i] = queue[t][k]
        BY <3>3, QueueSteps DEF ChainInv
      <4> QED
        BY <3>1, <3>3, <4>1
    <3> QED
      BY <1>2, <3>2, <3>3
  <2>2. jobs' = jobs /\ file' = file
    BY DEF UpdatePolicy
  <2> QED
    BY <1>1, <2>1, <2>2 DEF WishedInv
<1>5. AuthorInv'
  BY DEF AuthorInv, UpdatePolicy
<1> QED
  BY <1>1, <1>3, <1>4, <1>5, TypeFollows

\* The rule at the head of the queue becomes a write, with the rules of the file or blind.
LEMMA ReadKeeps ==
  ASSUME FileInv, NEW s \in Session, ReadFile(s) \/ ReadFails(s)
  PROVE  FileInv'
<1> USE DEF FileInv
<1> DEFINE q == queue[s]
<1>1. /\ q \in Seq(Rule) /\ q # <<>> /\ jobs[s] = {}
      /\ queue' = [queue EXCEPT ![s] = Tail(q)]
  BY DEF ChainInv, ReadFile, ReadFails, Ready
<1>2. PICK j \in Job :
        /\ jobs' = [jobs EXCEPT ![s] = {j}]
        /\ j.rule = Head(q) /\ j.data = (IF j.blind THEN {} ELSE file)
  <2>1. Head(q) \in Rule /\ file \in SUBSET Rule
    BY <1>1, QueueSteps DEF PersistenceTypeOK
  <2>2. CASE ReadFile(s)
    <3> DEFINE j == [rule |-> Head(q), at |-> "read", data |-> file, blind |-> FALSE]
    <3>1. j \in Job
      BY <2>1 DEF Job
    <3>2. jobs' = [jobs EXCEPT ![s] = {j}]
      BY <1>1, <2>2 DEF ReadFile, ChainInv
    <3> QED
      BY <3>1, <3>2
  <2>3. CASE ReadFails(s)
    <3> DEFINE j == [rule |-> Head(q), at |-> "read", data |-> {}, blind |-> TRUE]
    <3>1. j \in Job
      BY <2>1 DEF Job
    <3>2. jobs' = [jobs EXCEPT ![s] = {j}]
      BY <1>1, <2>3 DEF ReadFails, ChainInv
    <3> QED
      BY <3>1, <3>2
  <2> QED
    BY <2>2, <2>3
<1>3. UNCHANGED <<up, memory, updates, file, author, wanted>> /\ PlainTypeOK'
  BY PersistenceAssumption DEF PersistenceTypeOK, PlainTypeOK, ReadFile, ReadFails
<1>4. \A t \in Session : jobs'[t] = IF t = s THEN {j} ELSE jobs[t]
  BY <1>2 DEF ChainInv
<1>5. \A t \in Session : queue'[t] = IF t = s THEN Tail(q) ELSE queue[t]
  BY <1>1 DEF ChainInv
<1>6. /\ Tail(q) \in Seq(Rule) /\ Len(Tail(q)) <= updates
      /\ \A i \in DOMAIN Tail(q) : \E k \in DOMAIN q : Tail(q)[i] = q[k]
      /\ \E k \in DOMAIN q : Head(q) = q[k]
  <2>1. Len(q) <= updates /\ Len(q) \in Nat /\ Len(Tail(q)) \in Nat /\ updates \in Nat
    BY <1>1, QueueSteps, LenProperties DEF ChainInv, PersistenceTypeOK
  <2> QED
    BY <1>1, <2>1, QueueSteps
<1> HIDE DEF q
<1>7. ChainInv'
  <2>1. queue' \in [Session -> Seq(Rule)] /\ jobs' \in [Session -> SUBSET Job]
    BY <1>1, <1>2, <1>6 DEF ChainInv
  <2>2. \A t \in Session : Len(queue'[t]) <= updates'
    BY <1>3, <1>5, <1>6 DEF ChainInv
  <2>3. \A t \in Session : \A i, k \in jobs'[t] : i = k
    BY <1>4 DEF ChainInv
  <2> QED
    BY <2>1, <2>2, <2>3 DEF ChainInv
<1>8. WishedInv'
  <2>1. \A k \in DOMAIN q : q[k] \in wanted \ Refused
    BY DEF WishedInv, q
  <2>2. ASSUME NEW t \in Session, NEW i \in DOMAIN queue'[t]
        PROVE  queue'[t][i] \in wanted \ Refused
    BY <1>5, <1>6, <2>1, <2>2 DEF WishedInv
  <2>3. j.data \cup {j.rule} \subseteq wanted \ Refused
    BY <1>2, <1>6, <2>1 DEF WishedInv
  <2>4. \A t \in Session : \A i \in jobs'[t] : i.data \cup {i.rule} \subseteq wanted \ Refused
    BY <1>4, <2>3 DEF WishedInv
  <2> QED
    BY <1>3, <2>2, <2>4 DEF WishedInv
<1>9. AuthorInv'
  <2>1. ~j.blind => \A r \in Rule : author[r] # {} => r \in j.data
    BY <1>2 DEF AuthorInv
  <2> QED
    BY <1>3, <1>4, <2>1 DEF AuthorInv
<1> QED
  BY <1>3, <1>7, <1>8, <1>9, TypeFollows

\* The new content is in its temporary file.
LEMMA WriteTmpKeeps ==
  ASSUME FileInv, NEW s \in Session, WriteTmp(s)
  PROVE  FileInv'
<1> USE DEF FileInv
<1>1. PICK j \in jobs[s] : jobs' = [jobs EXCEPT ![s] = (@ \ {j}) \cup {[j EXCEPT !.at = "written"]}]
  BY DEF WriteTmp
<1> DEFINE k == [j EXCEPT !.at = "written"]
<1>2. jobs[s] = {j} /\ j \in Job
  BY DEF ChainInv
<1>3. k \in Job /\ k.rule = j.rule /\ k.data = j.data /\ k.blind = j.blind
  BY <1>2 DEF Job
<1>4. \A t \in Session : jobs'[t] = IF t = s THEN {k} ELSE jobs[t]
  BY <1>1, <1>2 DEF ChainInv
<1>5. jobs' \in [Session -> SUBSET Job]
  BY <1>1, <1>2, <1>3 DEF ChainInv
<1> HIDE DEF k
<1>6. UNCHANGED <<up, memory, updates, queue, file, author, wanted, faults>>
  BY DEF WriteTmp
<1>7. ChainInv'
  BY <1>4, <1>5, <1>6 DEF ChainInv
<1>8. WishedInv'
  BY <1>2, <1>3, <1>4, <1>6 DEF WishedInv
<1>9. AuthorInv'
  BY <1>2, <1>3, <1>4, <1>6 DEF AuthorInv
<1>10. PlainTypeOK'
  BY <1>6 DEF PersistenceTypeOK, PlainTypeOK
<1> QED
  BY <1>7, <1>8, <1>9, <1>10, TypeFollows

\* The rename makes the rules of the write the file: what it did not see has no author
\* any more, and its session has no other write that could have missed its rule.
LEMMA RenameKeeps ==
  ASSUME FileInv, NEW s \in Session, Rename(s)
  PROVE  FileInv'
<1> USE DEF FileInv
<1>1. PICK j \in jobs[s] :
        /\ file' = j.data \cup {j.rule}
        /\ author' = [r \in Rule |->
             IF r = j.rule THEN {s} ELSE IF r \in file' THEN author[r] ELSE {}]
        /\ jobs' = [jobs EXCEPT ![s] = @ \ {j}]
  BY DEF Rename
<1>2. jobs[s] = {j} /\ j \in Job /\ j.rule \in Rule /\ j.data \in SUBSET Rule
  BY DEF ChainInv, Job
<1>3. \A t \in Session : jobs'[t] = IF t = s THEN {} ELSE jobs[t]
  BY <1>1, <1>2 DEF ChainInv
<1>4. UNCHANGED <<up, memory, updates, queue, wanted, faults>>
  BY DEF Rename
<1>5. PlainTypeOK'
  <2>1. file' \in SUBSET Rule
    BY <1>1, <1>2
  <2>2. author' \in [Rule -> SUBSET Session]
    BY <1>1 DEF PersistenceTypeOK
  <2> QED
    BY <1>4, <2>1, <2>2 DEF PersistenceTypeOK, PlainTypeOK
<1>6. ChainInv'
  BY <1>1, <1>3, <1>4 DEF ChainInv
<1>7. WishedInv'
  BY <1>1, <1>3, <1>4 DEF WishedInv
<1>8. AuthorInv'
  <2>1. \A r \in Rule : author'[r] # {} => r \in file'
    BY <1>1
  <2>2. ASSUME NEW t \in Session, NEW i \in jobs'[t], NEW r \in Rule,
               author'[r] = {t}, ~i.blind
        PROVE  r \in i.data
    <3>1. t # s /\ i \in jobs[t]
      BY <1>3
    <3>2. author[r] = {t}
      BY <1>1, <2>2, <3>1
    <3> QED
      BY <2>2, <3>1, <3>2 DEF AuthorInv
  <2> QED
    BY <2>1, <2>2 DEF AuthorInv
<1> QED
  BY <1>5, <1>6, <1>7, <1>8, TypeFollows

\* A write that failed is over.
LEMMA FailKeeps ==
  ASSUME FileInv, NEW s \in Session, WriteFails(s)
  PROVE  FileInv'
<1> USE DEF FileInv
<1>1. PICK j \in jobs[s] : jobs' = [jobs EXCEPT ![s] = @ \ {j}]
  BY DEF WriteFails, JobsAfterFailure
<1>2. UNCHANGED <<up, memory, updates, queue, file, author, wanted>>
  BY DEF WriteFails
<1>3. \A t \in Session : jobs'[t] \subseteq jobs[t]
  BY <1>1 DEF ChainInv
<1>4. PlainTypeOK'
  BY PersistenceAssumption DEF PersistenceTypeOK, PlainTypeOK, WriteFails
<1>5. ChainInv'
  BY <1>1, <1>2, <1>3 DEF ChainInv
<1>6. WishedInv'
  BY <1>2, <1>3 DEF WishedInv
<1>7. AuthorInv'
  BY <1>2, <1>3 DEF AuthorInv
<1> QED
  BY <1>4, <1>5, <1>6, <1>7, TypeFollows

\* A crash leaves nothing of the session, a restart adds the file to its memory.
LEMMA CrashKeeps ==
  ASSUME FileInv, NEW s \in Session, CrashSession(s) \/ RestartSession(s)
  PROVE  FileInv'
<1> USE DEF FileInv
<1>1. CASE CrashSession(s)
  <2>1. \A t \in Session : /\ jobs'[t] = IF t = s THEN {} ELSE jobs[t]
                           /\ queue'[t] = IF t = s THEN <<>> ELSE queue[t]
    BY <1>1 DEF CrashSession, ChainInv
  <2>2. /\ UNCHANGED <<updates, file, author, wanted>>
        /\ queue' \in [Session -> Seq(Rule)] /\ jobs' \in [Session -> SUBSET Job]
    <3>1. <<>> \in Seq(Rule)
      BY EmptySeq
    <3> QED
      BY <1>1, <3>1 DEF CrashSession, ChainInv
  <2>3. PlainTypeOK'
    BY <1>1, PersistenceAssumption DEF PersistenceTypeOK, PlainTypeOK, CrashSession
  <2>4. ChainInv'
    <3>1. Len(<<>>) = 0 /\ updates \in Nat
      BY EmptySeq DEF PersistenceTypeOK
    <3>2. \A t \in Session : Len(queue'[t]) <= updates'
      BY <2>1, <2>2, <3>1 DEF ChainInv
    <3> QED
      BY <2>1, <2>2, <3>2 DEF ChainInv
  <2>5. WishedInv'
    BY <2>1, <2>2, EmptySeq DEF WishedInv
  <2>6. AuthorInv'
    BY <2>1, <2>2 DEF AuthorInv
  <2> QED
    BY <2>3, <2>4, <2>5, <2>6, TypeFollows
<1>2. CASE RestartSession(s)
  <2>1. PlainTypeOK'
    BY <1>2 DEF PersistenceTypeOK, PlainTypeOK, RestartSession
  <2>2. ChainInv' /\ WishedInv' /\ AuthorInv'
    BY <1>2 DEF ChainInv, WishedInv, AuthorInv, RestartSession
  <2> QED
    BY <2>1, <2>2, TypeFollows
<1> QED
  BY <1>1, <1>2

-----------------------------------------------------------------------------
(* The steps of the bus.                                                   *)

BusTypeOK ==
  /\ verdict \in [Ask -> Verdicts \cup {"none", "sent"}]
  /\ listening \in SUBSET Ask
  /\ result \in [Ask -> Verdicts \cup {"none", "lost"}]
  /\ aborted \in SUBSET Ask
  /\ slow \in SUBSET Ask

LEMMA FileUnchanged == FileInv /\ UNCHANGED persistenceVars => FileInv'
<1> SUFFICES ASSUME FileInv, UNCHANGED persistenceVars
             PROVE  FileInv'
  OBVIOUS
<1>1. ChainInv' /\ WishedInv' /\ AuthorInv'
  BY DEF FileInv, ChainInv, WishedInv, AuthorInv, persistenceVars
<1>2. PlainTypeOK'
  BY DEF FileInv, PersistenceTypeOK, PlainTypeOK, persistenceVars
<1> QED
  BY <1>1, <1>2, TypeFollows DEF FileInv

\* Only the handler of the ask itself takes a response, and it unsubscribes.
LEMMA AskKeepsBus ==
  ASSUME BusTypeOK, BusInv, NEW a \in Ask,
         \/ Request(a) \/ RequestAborted(a) \/ Respond(a) \/ CheckFails(a)
         \/ TimeOut(a) \/ AbortAsk(a)
  PROVE  BusTypeOK' /\ BusInv'
<1> USE DEF BusTypeOK, BusInv, DecisionIsOwn, Verdicts
<1>1. CASE Request(a)
  <2>1. PICK v \in Verdicts : /\ verdict' = [verdict EXCEPT ![a] = v]
                              /\ v = "allow" => Needs[a] \notin Denied
    BY <1>1 DEF Request, Checked
  <2>2. /\ result[a] = "none" /\ UNCHANGED <<result, aborted, slow>>
        /\ listening' = listening \cup {a}
    BY <1>1 DEF Request
  <2>3. verdict[a] = "none" /\ \A b \in Ask : verdict'[b] = IF b = a THEN v ELSE verdict[b]
    BY <1>1, <2>1 DEF Request
  <2> QED
    BY <2>1, <2>2, <2>3
<1>2. CASE RequestAborted(a)
  <2>1. a \in aborted /\ verdict[a] = "none" /\ result' = [result EXCEPT ![a] = "deny"]
    BY <1>2 DEF RequestAborted
  <2>2. UNCHANGED <<verdict, listening, aborted, slow>>
    BY <1>2 DEF RequestAborted
  <2> QED
    BY <2>1, <2>2
<1>3. CASE Respond(a)
  <2>1. PICK v \in {verdict[a], IF verdict[a] = "allow" THEN "deny" ELSE verdict[a]} :
          result' = [b \in Ask |-> IF b \in HeardBy(a) THEN v ELSE result[b]]
    BY <1>3 DEF Respond
  <2>2. verdict[a] \in Verdicts /\ v \in Verdicts /\ (v = "allow" => verdict[a] = "allow")
    BY <1>3, <2>1 DEF Respond
  <2>3. \A b \in Ask : result'[b] = IF b = a /\ a \in listening THEN v ELSE result[b]
    BY <2>1 DEF HeardBy
  <2>4. /\ verdict' = [verdict EXCEPT ![a] = "sent"]
        /\ listening' = listening \ {a} /\ UNCHANGED <<aborted, slow>>
    BY <1>3 DEF Respond, Unsubscribed, HeardBy
  <2>5. result' \in [Ask -> Verdicts \cup {"none", "lost"}]
    BY <2>1, <2>2
  <2> QED
    BY <2>2, <2>3, <2>4, <2>5
<1>4. CASE CheckFails(a)
  BY <1>4 DEF CheckFails
<1>5. CASE TimeOut(a)
  BY <1>5 DEF TimeOut, Unsubscribed
<1>6. CASE AbortAsk(a)
  BY <1>6 DEF AbortAsk, Unsubscribed
<1> QED
  BY <1>1, <1>2, <1>3, <1>4, <1>5, <1>6

\* The asks of a session that dies are lost and no longer listen.
LEMMA CrashKeepsBus ==
  ASSUME BusTypeOK, BusInv, NEW s \in Session, Crash(s)
  PROVE  BusTypeOK' /\ BusInv'
<1> DEFINE Dies(a) == SessionOf[a] = s /\ verdict[a] # "none"
<1> USE DEF BusTypeOK, BusInv, DecisionIsOwn, Verdicts
<1>1. /\ \A a \in Ask : result'[a] = IF Dies(a) /\ result[a] = "none" THEN "lost" ELSE result[a]
      /\ \A a \in Ask : verdict'[a] = IF Dies(a) THEN "sent" ELSE verdict[a]
      /\ listening' \subseteq listening /\ UNCHANGED <<aborted, slow>>
  BY DEF Crash
<1>2. \A a \in Ask : Dies(a) => a \notin listening'
  BY DEF Crash
<1>3. /\ verdict' \in [Ask -> Verdicts \cup {"none", "sent"}]
      /\ result' \in [Ask -> Verdicts \cup {"none", "lost"}]
  BY DEF Crash
<1> HIDE DEF Dies
<1>4. BusTypeOK'
  BY <1>1, <1>3
<1>5. DecisionIsOwn'
  BY <1>1, <1>2
<1>6. /\ \A a \in Ask : verdict'[a] = "allow" => Needs[a] \notin Denied
      /\ \A a \in listening' : verdict'[a] # "none"
  BY <1>1
<1> QED
  BY <1>4, <1>5, <1>6

LEMMA BusUnchanged == BusTypeOK /\ BusInv /\ UNCHANGED busVars => BusTypeOK' /\ BusInv'
  BY DEF BusTypeOK, BusInv, DecisionIsOwn, busVars

-----------------------------------------------------------------------------
(* Invariance.                                                             *)

LEMMA Parts == IInv <=> FileInv /\ BusTypeOK /\ BusInv
  BY DEF IInv, TypeOK, FileInv, BusTypeOK

LEMMA Initially == Init => IInv
<1> SUFFICES ASSUME Init PROVE IInv
  OBVIOUS
<1> USE DEF Init, PersistenceInit
<1>1. PlainTypeOK
  BY PersistenceAssumption DEF PlainTypeOK
<1>2. ChainInv
  <2>1. <<>> \in Seq(Rule) /\ Len(<<>>) = 0
    BY EmptySeq
  <2> QED
    BY <2>1 DEF ChainInv
<1>3. WishedInv /\ AuthorInv
  BY EmptySeq DEF WishedInv, AuthorInv
<1>4. BusTypeOK /\ BusInv
  BY DEF BusTypeOK, BusInv, DecisionIsOwn, Verdicts
<1> QED
  BY <1>1, <1>2, <1>3, <1>4, TypeFollows, Parts DEF FileInv

LEMMA AskStepKeeps ==
  ASSUME FileInv, BusTypeOK, BusInv, NEW a \in Ask, AskStep(a)
  PROVE  FileInv' /\ BusTypeOK' /\ BusInv'
<1>1. CASE \/ Request(a) \/ RequestAborted(a) \/ Respond(a) \/ CheckFails(a)
           \/ TimeOut(a) \/ AbortAsk(a)
  <2>1. UNCHANGED persistenceVars
    BY <1>1 DEF Request, RequestAborted, Respond, CheckFails, TimeOut, AbortAsk
  <2> QED
    BY <1>1, <2>1, FileUnchanged, AskKeepsBus
<1>2. ASSUME NEW persist \in BOOLEAN, AllowAlways(a, persist)
      PROVE  FileInv' /\ BusTypeOK' /\ BusInv'
  <2>1. PICK r \in {Needs[a]} \cup Refused : UpdatePolicy(SessionOf[a], r, persist)
    BY <1>2 DEF AllowAlways
  <2>2. r \in Rule /\ SessionOf[a] \in Session
    BY BusAssumption, PersistenceAssumption
  <2>3. UNCHANGED busVars
    BY <1>2 DEF AllowAlways
  <2> QED
    BY <2>1, <2>2, <2>3, UpdateKeeps, BusUnchanged
<1> QED
  BY <1>1, <1>2 DEF AskStep

LEMMA SessionStepKeeps ==
  ASSUME FileInv, BusTypeOK, BusInv, NEW s \in Session,
         Read(s) \/ Write(s) \/ Fail(s) \/ Crash(s) \/ Restart(s)
  PROVE  FileInv' /\ BusTypeOK' /\ BusInv'
<1>1. CASE Read(s)
  BY <1>1, ReadKeeps, BusUnchanged DEF Read
<1>2. CASE Write(s)
  BY <1>2, WriteTmpKeeps, RenameKeeps, BusUnchanged DEF Write
<1>3. CASE Fail(s)
  BY <1>3, FailKeeps, BusUnchanged DEF Fail
<1>4. CASE Crash(s)
  <2>1. FileInv'
    BY <1>4, CrashKeeps DEF Crash
  <2> QED
    BY <1>4, <2>1, CrashKeepsBus
<1>5. CASE Restart(s)
  BY <1>5, CrashKeeps, BusUnchanged DEF Restart
<1> QED
  BY <1>1, <1>2, <1>3, <1>4, <1>5

\* The inductive invariant holds in every state: of the queues, the writes, the file with
\* its authors, and the decisions (createPolicyUpdater; getMessageBusDecision).
THEOREM Invariance == Spec => []IInv
<1>1. IInv /\ [Next]_vars => IInv'
  <2> SUFFICES ASSUME IInv, [Next]_vars
               PROVE  FileInv' /\ BusTypeOK' /\ BusInv'
    BY DEF IInv, TypeOK, FileInv, BusTypeOK
  <2>1. FileInv /\ BusTypeOK /\ BusInv
    BY Parts
  <2>2. CASE UNCHANGED vars
    BY <2>1, <2>2, FileUnchanged, BusUnchanged DEF vars
  <2> QED
    BY <2>1, <2>2, AskStepKeeps, SessionStepKeeps DEF Next
<1> QED
  BY Initially, <1>1, PTL DEF Spec

\* Every variable keeps its type, and a session has at most one write under way
\* (persistenceQueue of policy/config.ts).
THEOREM TypeCorrect == Spec => []TypeOK
<1>1. IInv => TypeOK
  BY DEF IInv
<1> QED
  BY <1>1, Invariance, PTL

\* A decision is the answer to the ask's own check, for any number of asks on the buses:
\* getMessageBusDecision compares correlation ids and unsubscribes.
THEOREM DecisionsAreOwn == Spec => []DecisionIsOwn
<1>1. IInv => DecisionIsOwn
  BY DEF IInv, BusInv
<1> QED
  BY <1>1, Invariance, PTL

\* Whatever fails and whoever crashes, the file of auto-saved policies has only rules that
\* a user asked to save and that are narrow enough (createPolicyUpdater).
THEOREM OnlyWishesAreSaved == Spec => []SavesWhatWasAsked
<1>1. IInv => SavesWhatWasAsked
  BY DEF IInv, WishedInv, SavesWhatWasAsked
<1> QED
  BY <1>1, Invariance, PTL

\* Only a rename takes rules out of the file, and only rules its session did not see: the
\* lost update is the only way to lose a saved rule, also with failed writes and crashes
\* (readFile, write to a temporary file and rename in createPolicyUpdater).
THEOREM OnlyUnseenIsLost == Spec => LostOnlyUnseen
<1> DEFINE Lost == \A r \in file \ file' : \E s \in Session : \E j \in jobs[s] \ jobs'[s] :
                     r \notin j.data /\ (j.blind \/ author[r] # {s})
<1>1. IInv /\ [Next]_vars => [Lost]_vars
  <2> SUFFICES ASSUME IInv, Next, NEW r \in file \ file'
               PROVE  \E s \in Session : \E j \in jobs[s] \ jobs'[s] :
                        r \notin j.data /\ (j.blind \/ author[r] # {s})
    OBVIOUS
  <2>1. PICK s \in Session : Rename(s)
    <3>1. ASSUME NEW a \in Ask, AskStep(a)
          PROVE  file' = file
      BY <3>1 DEF AskStep, Request, RequestAborted, Respond, CheckFails, TimeOut, AbortAsk,
                  AllowAlways, UpdatePolicy, persistenceVars
    <3>2. ASSUME NEW s \in Session, Read(s) \/ Write(s) \/ Fail(s) \/ Crash(s) \/ Restart(s),
                 ~Rename(s)
          PROVE  file' = file
      BY <3>2 DEF Read, ReadFile, ReadFails, Write, WriteTmp, Fail, WriteFails,
                  Crash, CrashSession, Restart, RestartSession
    <3> QED
      BY <3>1, <3>2 DEF Next
  <2>2. PICK j \in jobs[s] : /\ file' = j.data \cup {j.rule}
                             /\ jobs' = [jobs EXCEPT ![s] = @ \ {j}]
    BY <2>1 DEF Rename
  <2>3. j \in jobs[s] \ jobs'[s]
    BY <2>2 DEF IInv, ChainInv
  <2>4. r \in Rule /\ r \notin j.data
    BY <2>2 DEF IInv, TypeOK, PersistenceTypeOK
  <2>5. j.blind \/ author[r] # {s}
    BY <2>4 DEF IInv, AuthorInv
  <2> QED
    BY <2>3, <2>4, <2>5
<1> QED
  BY <1>1, Invariance, PTL DEF Spec, LostOnlyUnseen
=============================================================================

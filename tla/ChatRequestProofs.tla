-------------------------- MODULE ChatRequestProofs --------------------------
(***************************************************************************)
(* Theorems about ModelAvailability and ChatRequest, for every policy      *)
(* chain, any chats that share it and any limits of the retries.           *)
(***************************************************************************)
EXTENDS ChatRequest, SequenceTheorems, WellFoundedInduction, TLAPS

-----------------------------------------------------------------------------
(* The choice of a model.                                                  *)

\* A set of positions has a first one.
LEMMA First ==
  ASSUME NEW T \in SUBSET Nat, T # {}
  PROVE  \E x \in T : \A y \in T : x <= y
<1>1. PICK x \in T : \A y \in T : <<y, x>> \notin OpToRel(<, Nat)
  BY WFMin, NatLessThanWellFounded, Zenon
<1>2. \A y \in T : ~ (y < x)
  BY <1>1, Zenon DEF OpToRel
<1> QED
  BY <1>2

\* What is selected from a chain is one of its models, and an available one if there is any.
LEMMA SelectedIsOfChain ==
  ASSUME NEW h, NEW chain \in Seq(Model), chain # <<>>
  PROVE  /\ Selected(h, chain) \in Model
         /\ \E i \in DOMAIN chain : Selected(h, chain) = chain[i]
         /\ (\E i \in DOMAIN chain : Available(h, chain[i])) => Available(h, Selected(h, chain))
<1> DEFINE free == {i \in DOMAIN chain : Available(h, chain[i])}
<1>1. /\ Len(chain) \in Nat /\ DOMAIN chain = 1..Len(chain) /\ Len(chain) > 0
      /\ \A i \in DOMAIN chain : chain[i] \in Model
  BY LenProperties, EmptySeq, ElementOfSeq
<1>2. CASE free = {}
  <2>1. Selected(h, chain) = chain[Len(chain)]
    BY <1>2 DEF Selected
  <2> QED
    BY <1>1, <1>2, <2>1
<1>3. CASE free # {}
  <2> DEFINE i == CHOOSE i \in free : \A j \in free : i <= j
  <2>1. free \in SUBSET Nat
    BY <1>1
  <2>2. \E k \in free : \A j \in free : k <= j
    BY <1>3, <2>1, First
  <2>3. i \in free
    BY <2>2
  <2>4. Selected(h, chain) = chain[i]
    BY <1>3 DEF Selected
  <2> QED
    BY <1>1, <2>3, <2>4
<1> QED
  BY <1>2, <1>3

\* The chain from a model on has models in it, the model itself first.
LEMMA ChainFromIsChain ==
  ASSUME NEW m \in Model
  PROVE  ChainFrom(m) \in Seq(Model) /\ ChainFrom(m) # <<>> /\ ChainFrom(m)[1] = m
<1> USE ChainAssumption
<1>1. CASE m \notin Range(Chain)
  BY <1>1 DEF ChainFrom
<1>2. CASE m \in Range(Chain)
  <2> DEFINE i == CHOOSE j \in DOMAIN Chain : Chain[j] = m
  <2>1. Len(Chain) \in Nat /\ DOMAIN Chain = 1..Len(Chain)
        /\ \A j \in DOMAIN Chain : Chain[j] \in Model
    BY LenProperties, ElementOfSeq
  <2>2. \E j \in DOMAIN Chain : Chain[j] = m
    BY <1>2 DEF Range
  <2>3. i \in DOMAIN Chain /\ Chain[i] = m
    BY <2>2
  <2>4. ChainFrom(m) = SubSeq(Chain, i, Len(Chain))
    BY <1>2 DEF ChainFrom
  <2> HIDE DEF i
  <2>5. /\ SubSeq(Chain, i, Len(Chain)) \in Seq(Model)
        /\ Len(SubSeq(Chain, i, Len(Chain))) = Len(Chain) - i + 1
        /\ SubSeq(Chain, i, Len(Chain))[1] = Chain[i]
    BY <2>1, <2>3, SubSeqProperties
  <2> QED
    BY <2>1, <2>3, <2>4, <2>5, EmptySeq
<1> QED
  BY <1>1, <1>2

\* What is left to fall back to are models.
LEMMA CandidatesAreModels ==
  ASSUME NEW chain \in Seq(Model), NEW failed
  PROVE  Candidates(chain, failed) \in Seq(Model)
<1>1. CASE failed \notin Range(chain)
  BY <1>1 DEF Candidates
<1>2. CASE failed \in Range(chain)
  <2> DEFINE i == CHOOSE j \in DOMAIN chain : chain[j] = failed
  <2>1. Len(chain) \in Nat /\ DOMAIN chain = 1..Len(chain)
        /\ \A j \in DOMAIN chain : chain[j] \in Model
    BY LenProperties, ElementOfSeq
  <2>2. \E j \in DOMAIN chain : chain[j] = failed
    BY <1>2 DEF Range
  <2>3. i \in DOMAIN chain
    BY <2>2
  <2>4. Candidates(chain, failed) = SubSeq(chain, i + 1, Len(chain))
    BY <1>2 DEF Candidates
  <2> HIDE DEF i
  <2> QED
    BY <2>1, <2>3, <2>4, SubSeqProperties
<1> QED
  BY <1>1, <1>2

-----------------------------------------------------------------------------
(* The marks.                                                              *)

Marks == [Model -> Health]

\* Consuming an attempt and marking a failure never make a model available.
LEMMA MarksStay ==
  ASSUME NEW h \in Marks
  PROVE  /\ \A m \in Model : /\ Consume(h, m) \in Marks
                             /\ \A n \in Model : ~Available(h, n) => ~Available(Consume(h, m), n)
         /\ \A m \in Model, kind \in Kinds :
              /\ Transit(h, m, kind) \in Marks
              /\ \A n \in Model : ~Available(h, n) => ~Available(Transit(h, m, kind), n)
         /\ AllHealthy \in Marks
<1> USE DEF Marks, Health, Available
<1>1. ASSUME NEW m \in Model
      PROVE  /\ Consume(h, m) \in Marks
             /\ \A n \in Model : ~Available(h, n) => ~Available(Consume(h, m), n)
  BY DEF Consume
<1>2. ASSUME NEW m \in Model, NEW kind \in Kinds
      PROVE  /\ Transit(h, m, kind) \in Marks
             /\ \A n \in Model : ~Available(h, n) => ~Available(Transit(h, m, kind), n)
  BY DEF Transit, MarkRetryOncePerTurn
<1>3. AllHealthy \in Marks
  BY DEF AllHealthy
<1> QED
  BY <1>1, <1>2, <1>3

\* A new turn gives the attempt back that was used up, and nothing else.
LEMMA ResetGivesBack ==
  ASSUME NEW h \in Marks
  PROVE  /\ ResetTurn(h) \in Marks
         /\ \A m \in Model : ~Available(h, m) /\ Available(ResetTurn(h), m) => h[m] = "consumed"
  BY DEF Marks, Health, Available, ResetTurn

-----------------------------------------------------------------------------
(* The inductive invariant.                                                *)

Request ==
  [st : States, wanted : Model \cup {NoModel}, outer : Nat, try : Nat, max : Nat,
   last : Model \cup {NoModel}, init : Model \cup {NoModel}, aborted : BOOLEAN,
   ask : [kind : Kinds \cup {"none"}, failed : Model \cup {NoModel},
          target : Model \cup {NoModel}]]

\* A request that is under way has a model and attempts; one that waits has an attempt left,
\* one that pauses a stream.
RequestOK(r) ==
  /\ r \in Request
  /\ r.st # "idle" => r.wanted \in Model /\ r.outer <= MaxAttempts
  /\ r.st \in {"calling", "waiting", "asking"} =>
       r.last \in Model /\ r.init \in Model /\ r.try <= r.max /\ 1 <= r.max
  /\ r.st = "waiting" => r.try < r.max
  /\ r.st = "pausing" => r.outer < MaxAttempts
  /\ r.st = "asking" => r.ask.kind \in Kinds /\ r.ask.target \in Model

SharedOK ==
  /\ health \in Marks
  /\ model \in Model /\ active \in Model /\ sequence \in Model \cup {NoModel}
  /\ sends \in [Chat -> Nat]

RequestsOK == req \in [Chat -> Request] /\ \A c \in Chat : RequestOK(req[c])

IInv == SharedOK /\ RequestsOK /\ dialog \in Chat \cup {NoChat} /\ AskedIsShown

\* The steps of the action properties.
CancelledStays == \A c \in Chat :
  req[c].aborted /\ req[c].st # "calling" => req'[c].st # "calling"
GivenUpStays == \A m \in Model :
  ~Available(health, m) /\ Available(health', m) =>
    \/ \E c \in Chat :
         req[c].st = "calling" /\ req'[c].st = "streaming" /\ req[c].last = m
    \/ health[m] = "consumed" /\ sends'[Main] # sends[Main]
    \/ health' = AllHealthy

Fine == IInv' /\ CancelledStays /\ GivenUpStays

\* A step of one request: what it becomes, and whose question is shown.
Becomes(c, r) ==
  /\ req' = [req EXCEPT ![c] = r]
  /\ RequestOK(r)
  /\ r.st = "calling" => ~req[c].aborted \/ req[c].st = "calling"
  /\ \/ dialog' = dialog /\ (r.st = "asking" <=> req[c].st = "asking")
     \/ dialog = c /\ dialog' = NoChat /\ r.st # "asking"
     \/ dialog = NoChat /\ dialog' = c /\ r.st = "asking"

LEMMA BecomesKeeps ==
  ASSUME IInv, NEW c \in Chat, NEW r, Becomes(c, r)
  PROVE  RequestsOK' /\ (dialog \in Chat \cup {NoChat} /\ AskedIsShown)' /\ CancelledStays
         /\ req'[c] = r
<1> USE ChatAssumption
<1>1. /\ req'[c] = r /\ \A d \in Chat \ {c} : req'[d] = req[d]
      /\ req' \in [Chat -> Request]
  BY DEF Becomes, IInv, RequestsOK, RequestOK
<1>2. RequestsOK'
  BY <1>1 DEF Becomes, IInv, RequestsOK
<1>3. (dialog \in Chat \cup {NoChat})' /\ AskedIsShown'
  BY <1>1 DEF Becomes, IInv, AskedIsShown
<1>4. CancelledStays
  BY <1>1 DEF Becomes, CancelledStays
<1> QED
  BY <1>1, <1>2, <1>3, <1>4

LEMMA IdleOK == RequestOK(Idle)
  BY ChatAssumption DEF RequestOK, Request, Idle, NoAsk, States

\* A request that ends, with the shared state left alone.
LEMMA EndsKeeps ==
  ASSUME IInv, NEW c \in Chat, Ends(c), UNCHANGED <<health, model, active, sequence, sends>>,
         \/ dialog' = dialog /\ req[c].st # "asking"
         \/ dialog = c /\ dialog' = NoChat
  PROVE  Fine
<1>1. Becomes(c, Idle)
  BY IdleOK DEF Ends, Becomes, Idle
<1>2. SharedOK' /\ GivenUpStays
  BY DEF IInv, SharedOK, GivenUpStays, Available
<1> QED
  BY <1>1, <1>2, BecomesKeeps DEF Fine, IInv

\* A request that changes, with the shared state left alone.
LEMMA ChangesKeeps ==
  ASSUME IInv, NEW c \in Chat, NEW r, Becomes(c, r),
         UNCHANGED <<health, model, active, sequence, sends>>
  PROVE  Fine
<1>1. SharedOK' /\ GivenUpStays
  BY DEF IInv, SharedOK, GivenUpStays, Available
<1> QED
  BY <1>1, BecomesKeeps DEF Fine, IInv

-----------------------------------------------------------------------------
(* The steps.                                                              *)

\* What each step needs to know of the request.
LEMMA RequestIs ==
  ASSUME IInv, NEW c \in Chat
  PROVE  req[c] \in Request /\ RequestOK(req[c]) /\ (req[c].st = "asking" <=> dialog = c)
  BY DEF IInv, RequestsOK, AskedIsShown

LEMMA SetModelKeeps ==
  ASSUME IInv, NEW m \in Model, SetModel(m), UNCHANGED sends
  PROVE  SharedOK' /\ GivenUpStays
<1>1. AllHealthy \in Marks
  BY MarksStay DEF IInv, SharedOK
<1>2. model' = m /\ active' = m /\ sequence' \in {sequence, NoModel} /\ health' = AllHealthy
  BY DEF SetModel
<1> QED
  BY <1>1, <1>2 DEF IInv, SharedOK, GivenUpStays

LEMMA PickKeeps ==
  ASSUME IInv, NEW m \in Model, UserPicks(m)
  PROVE  Fine
<1>1. SetModel(m) /\ UNCHANGED <<req, dialog, sends>>
  BY DEF UserPicks
<1>2. RequestsOK' /\ (dialog \in Chat \cup {NoChat} /\ AskedIsShown)' /\ CancelledStays
  BY <1>1 DEF IInv, RequestsOK, AskedIsShown, CancelledStays
<1> QED
  BY <1>1, <1>2, SetModelKeeps DEF Fine, IInv

\* The first step of a prompt.
LEMMA RouteKeeps ==
  ASSUME IInv, SendPrompt \/ SendMore
  PROVE  Fine
<1> USE ChatAssumption
<1>1. PICK h \in {ResetTurn(health), health}, pinned \in Model \cup {NoModel} : Route(h, pinned)
  BY DEF SendPrompt, SendMore, IInv, SharedOK
<1> DEFINE wanted == IF pinned # NoModel THEN pinned ELSE model
           m == Selected(h, ChainFrom(wanted))
           r == [Idle EXCEPT !.st = "opening", !.wanted = wanted]
<1>2. wanted \in Model
  BY DEF IInv, SharedOK
<1>3. m \in Model
  BY <1>2, ChainFromIsChain, SelectedIsOfChain
<1>4. /\ CanSend(Main) /\ req' = [req EXCEPT ![Main] = r]
      /\ health' = h /\ active' = m /\ sequence' = m
  BY <1>1 DEF Route
<1>5. /\ req[Main].st = "idle" /\ sends' = [sends EXCEPT ![Main] = @ + 1]
      /\ UNCHANGED <<model, dialog>>
  BY <1>4 DEF CanSend
<1>6. RequestOK(r) /\ r.st = "opening"
  <2> HIDE DEF wanted
  <2>1. Idle \in Request /\ Idle.outer = 0
    BY IdleOK DEF RequestOK, Idle
  <2>2. r \in Request /\ r.st = "opening" /\ r.wanted = wanted /\ r.outer = 0
    BY <1>2, <2>1 DEF Request, States
  <2> QED
    BY <1>2, <2>2 DEF RequestOK
<1>7. /\ h \in Marks
      /\ \A n \in Model : ~Available(health, n) /\ Available(h, n) => health[n] = "consumed"
  BY <1>1, ResetGivesBack DEF IInv, SharedOK
<1> HIDE DEF m, r
<1>8. Becomes(Main, r)
  BY <1>4, <1>5, <1>6 DEF Becomes
<1>9. SharedOK' /\ sends'[Main] # sends[Main]
  BY <1>3, <1>4, <1>5, <1>7 DEF IInv, SharedOK
<1>10. GivenUpStays
  BY <1>4, <1>7, <1>9 DEF GivenUpStays
<1> QED
  BY <1>8, <1>9, <1>10, BecomesKeeps DEF Fine, IInv

\* A model is selected for a stream.
LEMMA SelectKeeps ==
  ASSUME IInv, NEW c \in Chat, NEW wanted \in Model, NEW outer \in 0..MaxAttempts,
         SelectModel(c, wanted, outer), req[c].st # "asking",
         UNCHANGED <<model, sequence, dialog>>, sends' \in [Chat -> Nat]
  PROVE  Fine
<1> USE ChatAssumption
<1> DEFINE m == Selected(health, ChainFrom(wanted))
           r == [Idle EXCEPT !.st = "waiting", !.wanted = wanted, !.outer = outer,
                             !.last = m, !.init = active',
                             !.max = IF health[m] = "sticky" THEN 1 ELSE MaxAttempts]
<1>1. m \in Model
  BY ChainFromIsChain, SelectedIsOfChain
<1>2. /\ health' = Consume(health, m)
      /\ active' = IF c = Main THEN m ELSE active
      /\ IF req[c].aborted THEN Ends(c) ELSE req' = [req EXCEPT ![c] = r]
  BY DEF SelectModel
<1> HIDE DEF m
<1>3. active' \in Model
  BY <1>1, <1>2 DEF IInv, SharedOK
<1>4. /\ health' \in Marks /\ \A n \in Model : ~Available(health, n) => ~Available(health', n)
  BY <1>1, <1>2, MarksStay DEF IInv, SharedOK
<1>5. SharedOK' /\ GivenUpStays
  BY <1>3, <1>4 DEF IInv, SharedOK, GivenUpStays
<1>6. RequestOK(r) /\ r.st = "waiting"
  <2>1. /\ outer \in Nat /\ outer <= MaxAttempts
        /\ (IF health[m] = "sticky" THEN 1 ELSE MaxAttempts) \in Nat \ {0}
    OBVIOUS
  <2>2. Idle \in Request /\ Idle.try = 0
    BY IdleOK DEF RequestOK, Idle
  <2>3. /\ r \in Request /\ r.st = "waiting" /\ r.wanted = wanted /\ r.outer = outer
        /\ r.try = 0 /\ r.max \in Nat \ {0} /\ r.last = m /\ r.init = active'
    BY <1>1, <1>3, <2>1, <2>2 DEF Request, States
  <2> QED
    BY <1>1, <1>3, <2>1, <2>3 DEF RequestOK
<1> HIDE DEF r
<1>7. Becomes(c, r) \/ Becomes(c, Idle)
  BY <1>2, <1>6, IdleOK DEF Becomes, Ends, Idle
<1> QED
  BY <1>5, <1>7, BecomesKeeps DEF Fine, IInv

LEMMA SendKeeps ==
  ASSUME IInv, OpenStream \/ \E c \in Chat : SendOfAgent(c)
  PROVE  Fine
<1> USE ChatAssumption
<1>1. 1 \in 0..MaxAttempts /\ sends \in [Chat -> Nat]
  BY DEF IInv, SharedOK
<1>2. CASE OpenStream
  <2>1. /\ req[Main].st = "opening" /\ SelectModel(Main, req[Main].wanted, 1)
        /\ UNCHANGED <<model, sequence, dialog, sends>>
    BY <1>2 DEF OpenStream
  <2>2. req[Main].wanted \in Model
    BY <2>1, RequestIs DEF RequestOK
  <2> QED
    BY <1>1, <2>1, <2>2, SelectKeeps
<1>3. ASSUME NEW c \in Chat, SendOfAgent(c)
      PROVE  Fine
  <2>1. /\ req[c].st = "idle" /\ SelectModel(c, AgentModel[c], 1)
        /\ sends' = [sends EXCEPT ![c] = @ + 1] /\ UNCHANGED <<model, sequence, dialog>>
    BY <1>3 DEF SendOfAgent, CanSend
  <2>2. AgentModel[c] \in Model /\ sends' \in [Chat -> Nat]
    BY <1>1, <2>1
  <2> QED
    BY <1>1, <2>1, <2>2, SelectKeeps
<1> QED
  BY <1>2, <1>3

\* An attempt, which a cancelled request does not make.
LEMMA AttemptKeeps ==
  ASSUME IInv, NEW c \in Chat, Attempt(c)
  PROVE  Fine
<1>1. /\ req[c].st = "waiting" /\ UNCHANGED <<health, model, active, sequence, dialog, sends>>
  BY DEF Attempt
<1>2. CASE req[c].aborted
  BY <1>1, <1>2, EndsKeeps DEF Attempt
<1>3. CASE ~req[c].aborted
  <2> DEFINE r == [req[c] EXCEPT !.st = "calling", !.try = req[c].try + 1,
                                 !.last = NextModel(active, req[c])]
  <2>1. req' = [req EXCEPT ![c] = r]
    BY <1>3 DEF Attempt
  <2>2. req[c] \in Request /\ RequestOK(req[c]) /\ active \in Model
    BY RequestIs DEF IInv, SharedOK
  <2>3. NextModel(active, req[c]) \in Model
    BY <1>1, <2>2 DEF NextModel, RequestOK
  <2>4. /\ r \in Request /\ r.st = "calling" /\ r.try = req[c].try + 1
        /\ r.last = NextModel(active, req[c]) /\ r.wanted = req[c].wanted
        /\ r.outer = req[c].outer /\ r.max = req[c].max /\ r.init = req[c].init
    <3>1. req[c].try + 1 \in Nat /\ "calling" \in States
      BY <2>2 DEF Request, States
    <3> HIDE DEF States
    <3> QED
      BY <2>2, <2>3, <3>1 DEF Request
  <2> HIDE DEF r
  <2>5. RequestOK(r)
    BY <1>1, <2>2, <2>3, <2>4 DEF RequestOK, Request
  <2> QED
    BY <1>1, <1>3, <2>1, <2>4, <2>5, ChangesKeeps DEF Becomes
<1> QED
  BY <1>2, <1>3

\* Another attempt with the model at hand, or a new count of attempts after a fallback.
LEMMA AgainBecomes ==
  ASSUME IInv, NEW c \in Chat,
         \/ Again(c) /\ req[c].st = "calling" /\ MayTry(req[c]) /\ dialog' = dialog
         \/ AgainFromStart(c) /\ req[c].st = "calling" /\ dialog' = dialog
         \/ AgainFromStart(c) /\ req[c].st = "asking" /\ dialog = c /\ dialog' = NoChat
  PROVE  \E r : Becomes(c, r)
<1>1. req[c] \in Request /\ RequestOK(req[c])
  BY RequestIs
<1>2. NoAsk \in [kind : Kinds \cup {"none"}, failed : Model \cup {NoModel},
                 target : Model \cup {NoModel}]
  BY DEF NoAsk
<1>3. CASE Again(c) /\ req[c].st = "calling" /\ MayTry(req[c]) /\ dialog' = dialog
  <2> DEFINE r == [req[c] EXCEPT !.st = "waiting", !.ask = NoAsk]
  <2>1. /\ r \in Request /\ r.st = "waiting" /\ r.try = req[c].try /\ r.last = req[c].last
        /\ r.wanted = req[c].wanted /\ r.outer = req[c].outer /\ r.max = req[c].max
        /\ r.init = req[c].init
    BY <1>1, <1>2 DEF Request, States
  <2>2. req' = [req EXCEPT ![c] = r]
    BY <1>3 DEF Again
  <2> HIDE DEF r
  <2>3. RequestOK(r)
    BY <1>1, <1>3, <2>1 DEF RequestOK, MayTry
  <2> QED
    BY <1>3, <2>1, <2>2, <2>3 DEF Becomes
<1>4. CASE AgainFromStart(c) /\ req[c].st \in {"calling", "asking"}
  <2> DEFINE r == [req[c] EXCEPT !.st = "waiting", !.try = 0, !.ask = NoAsk]
  <2>1. /\ r \in Request /\ r.st = "waiting" /\ r.try = 0 /\ r.last = req[c].last
        /\ r.wanted = req[c].wanted /\ r.outer = req[c].outer /\ r.max = req[c].max
        /\ r.init = req[c].init
    BY <1>1, <1>2 DEF Request, States
  <2>2. req' = [req EXCEPT ![c] = r]
    BY <1>4 DEF AgainFromStart
  <2> HIDE DEF r
  <2>3. RequestOK(r)
    BY <1>1, <1>4, <2>1 DEF RequestOK, Request
  <2> QED
    BY <1>4, <2>1, <2>2, <2>3 DEF Becomes
<1> QED
  BY <1>3, <1>4

\* A call that fails is tried again or ends the request.
LEMMA FailKeeps ==
  ASSUME IInv, NEW c \in Chat, NEW retryable \in BOOLEAN, CallFails(c, retryable)
  PROVE  Fine
<1>1. /\ req[c].st = "calling" /\ UNCHANGED <<health, model, active, sequence, dialog, sends>>
      /\ \/ Ends(c)
         \/ Again(c) /\ MayTry(req[c])
  BY DEF CallFails
<1> QED
  BY <1>1, EndsKeeps, AgainBecomes, ChangesKeeps

\* The stream opens, and the model that opened it is healthy.
LEMMA SucceedKeeps ==
  ASSUME IInv, NEW c \in Chat, CallSucceeds(c)
  PROVE  Fine
<1> USE ChatAssumption
<1> DEFINE r == [req[c] EXCEPT !.st = "streaming", !.try = 0, !.max = 0,
                              !.last = NoModel, !.init = NoModel]
<1>1. /\ req[c].st = "calling" /\ req' = [req EXCEPT ![c] = r]
      /\ health' = [health EXCEPT ![req[c].last] = "healthy"]
      /\ UNCHANGED <<model, active, sequence, dialog, sends>>
  BY DEF CallSucceeds
<1>2. req[c] \in Request /\ RequestOK(req[c]) /\ req[c].last \in Model
  BY <1>1, RequestIs DEF RequestOK
<1>3. /\ r \in Request /\ r.st = "streaming"
      /\ r.wanted = req[c].wanted /\ r.outer = req[c].outer
  BY <1>2 DEF Request, States
<1> HIDE DEF r
<1>4. RequestOK(r)
  BY <1>1, <1>2, <1>3 DEF RequestOK
<1>5. Becomes(c, r)
  BY <1>1, <1>3, <1>4 DEF Becomes
<1>6. SharedOK'
  BY <1>1, <1>2 DEF IInv, SharedOK, Marks, Health
<1>7. req'[c].st = "streaming"
  BY <1>3, <1>5, BecomesKeeps
<1>8. GivenUpStays
  <2>1. \A m \in Model \ {req[c].last} : health'[m] = health[m]
    BY <1>1, <1>2 DEF IInv, SharedOK, Marks
  <2> QED
    BY <1>1, <1>7, <2>1 DEF GivenUpStays, Available
<1> QED
  BY <1>5, <1>6, <1>8, BecomesKeeps DEF Fine, IInv

\* A fallback goes to a model, and marks one that belongs to the chain.
LEMMA FallbackIsModel ==
  ASSUME IInv, NEW c \in Chat, NEW kind \in Kinds, Persistent(c, kind)
  PROVE  /\ FallbackFor(c, kind).target \in Model
         /\ FallbackFor(c, kind).failed \in Model \cup {NoModel}
         /\ FallbackFor(c, kind).kind = kind
         /\ FallbackFor(c, kind) \in [kind : Kinds \cup {"none"}, failed : Model \cup {NoModel},
                                      target : Model \cup {NoModel}]
<1> DEFINE chain == ChainFrom(active)
           failed == req[c].last
           rest == Candidates(chain, failed)
           target == IF rest = <<>> THEN failed ELSE Selected(health, rest)
           marked == IF failed \in Range(chain) THEN failed ELSE NoModel
<1>1. failed \in Model
  BY RequestIs DEF Persistent, RequestOK
<1>2. rest \in Seq(Model)
  BY ChainFromIsChain, CandidatesAreModels DEF IInv, SharedOK
<1>3. target \in Model
  BY <1>1, <1>2, SelectedIsOfChain
<1>4. marked \in Model \cup {NoModel}
  BY <1>1
<1>5. FallbackFor(c, kind) = [kind |-> kind, failed |-> marked, target |-> target]
  BY DEF FallbackFor
<1> HIDE DEF marked, target
<1> QED
  BY <1>3, <1>4, <1>5

\* Marking a failed model gives no model back.
LEMMA MarkKeeps ==
  ASSUME IInv, NEW ask, ask.failed \in Model \cup {NoModel}, ask.kind \in Kinds,
         health' = Mark(health, ask), UNCHANGED <<model, active, sequence, sends>>
  PROVE  SharedOK' /\ GivenUpStays
<1>1. CASE ask.failed = NoModel
  <2>1. health' = health
    BY <1>1 DEF Mark
  <2> QED
    BY <2>1 DEF IInv, SharedOK, GivenUpStays, Available
<1>2. CASE ask.failed \in Model /\ ask.failed # NoModel
  <2>1. health' = Transit(health, ask.failed, ask.kind)
    BY <1>2 DEF Mark
  <2>2. /\ health' \in Marks
        /\ \A n \in Model : ~Available(health, n) => ~Available(health', n)
    BY <1>2, <2>1, MarksStay DEF IInv, SharedOK
  <2> QED
    BY <2>2 DEF IInv, SharedOK, GivenUpStays
<1> QED
  BY <1>1, <1>2

\* A failure that persists: another model, the same one again, or a question.
LEMMA FallbackKeeps ==
  ASSUME IInv, NEW c \in Chat, NEW kind \in Kinds,
         FallSilently(c, kind) \/ KeepTrying(c, kind)
  PROVE  Fine
<1>1. /\ Persistent(c, kind) /\ AgainFromStart(c) /\ UNCHANGED <<dialog, sends>>
      /\ req[c].st = "calling"
  BY DEF FallSilently, KeepTrying, MustAsk, Persistent
<1>2. \E r : Becomes(c, r)
  BY <1>1, AgainBecomes
<1>3. SharedOK' /\ GivenUpStays
  <2>1. CASE FallSilently(c, kind)
    BY <1>1, <2>1, FallbackIsModel, SetModelKeeps DEF FallSilently
  <2>2. CASE KeepTrying(c, kind)
    BY <1>1, <2>2, FallbackIsModel, MarkKeeps DEF KeepTrying
  <2> QED
    BY <2>1, <2>2
<1> QED
  BY <1>2, <1>3, BecomesKeeps DEF Fine, IInv

\* The question is shown if none is open, and ends the request otherwise.
LEMMA AskKeeps ==
  ASSUME IInv, NEW c \in Chat, NEW kind \in Kinds, AskUser(c, kind)
  PROVE  Fine
<1>1. /\ Persistent(c, kind) /\ req[c].st = "calling"
      /\ UNCHANGED <<health, model, active, sequence, sends>>
  BY DEF AskUser, MustAsk, Persistent
<1>2. CASE dialog # NoChat
  BY <1>1, <1>2, EndsKeeps DEF AskUser, Showable
<1>3. CASE dialog = NoChat
  <2> DEFINE r == [req[c] EXCEPT !.st = "asking", !.ask = FallbackFor(c, kind)]
  <2>1. req' = [req EXCEPT ![c] = r] /\ dialog' = c
    BY <1>3 DEF AskUser, Showable
  <2>2. req[c] \in Request /\ RequestOK(req[c])
    BY RequestIs
  <2>3. /\ r \in Request /\ r.st = "asking" /\ r.try = req[c].try /\ r.last = req[c].last
        /\ r.wanted = req[c].wanted /\ r.outer = req[c].outer /\ r.max = req[c].max
        /\ r.init = req[c].init /\ r.ask = FallbackFor(c, kind)
    BY <1>1, <2>2, FallbackIsModel DEF Request, States
  <2> HIDE DEF r
  <2>4. RequestOK(r)
    BY <1>1, <2>2, <2>3, FallbackIsModel DEF RequestOK
  <2> QED
    BY <1>1, <1>3, <2>1, <2>3, <2>4, ChangesKeeps DEF Becomes
<1> QED
  BY <1>2, <1>3

\* The answers of the user.
LEMMA AnswerKeeps ==
  ASSUME IInv, NEW c \in Chat, Switch(c) \/ TryOnce(c) \/ PayForMore(c) \/ Stop(c)
  PROVE  Fine
<1>1. dialog = c /\ req[c].st = "asking" /\ dialog' = NoChat /\ UNCHANGED sends
  BY DEF Switch, TryOnce, PayForMore, Stop
<1>2. /\ req[c].ask.kind \in Kinds /\ req[c].ask.target \in Model
      /\ req[c].ask.failed \in Model \cup {NoModel}
  BY <1>1, RequestIs DEF RequestOK, Request
<1>3. CASE Stop(c)
  BY <1>1, <1>3, EndsKeeps DEF Stop
<1>4. CASE Switch(c) \/ TryOnce(c) \/ PayForMore(c)
  <2>1. \E r : Becomes(c, r)
    BY <1>1, <1>4, AgainBecomes DEF Switch, TryOnce, PayForMore
  <2>2. SharedOK' /\ GivenUpStays
    <3>1. CASE Switch(c) \/ TryOnce(c)
      BY <1>1, <1>2, <3>1, SetModelKeeps, MarkKeeps DEF Switch, TryOnce
    <3>2. CASE PayForMore(c)
      BY <1>1, <3>2 DEF PayForMore, IInv, SharedOK, GivenUpStays
    <3> QED
      BY <1>4, <3>1, <3>2
  <2> QED
    BY <2>1, <2>2, BecomesKeeps DEF Fine, IInv
<1> QED
  BY <1>3, <1>4

\* The stream ends, is left, breaks, and starts over.
LEMMA StreamKeeps ==
  ASSUME IInv, NEW c \in Chat,
         \/ StreamEnds(c) \/ StreamLeft(c) \/ PauseOver(c)
         \/ \E how \in {"invalid", "network", "other"} : StreamBreaks(c, how)
  PROVE  Fine
<1> USE ChatAssumption
<1>1. req[c] \in Request /\ RequestOK(req[c])
  BY RequestIs
<1>2. CASE StreamEnds(c) \/ StreamLeft(c)
  BY <1>2, EndsKeeps DEF StreamEnds, StreamLeft
<1>3. CASE PauseOver(c)
  <2>1. req[c].st = "pausing" /\ UNCHANGED <<model, sequence, dialog, sends>>
    BY <1>3 DEF PauseOver
  <2>2. CASE req[c].aborted
    BY <1>3, <2>1, <2>2, EndsKeeps DEF PauseOver
  <2>3. CASE ~req[c].aborted
    <3>1. /\ SelectModel(c, req[c].wanted, req[c].outer + 1)
          /\ req[c].wanted \in Model /\ req[c].outer + 1 \in 0..MaxAttempts
      BY <1>1, <1>3, <2>1, <2>3 DEF PauseOver, RequestOK, Request
    <3> QED
      BY <2>1, <3>1, SelectKeeps DEF IInv, SharedOK
  <2> QED
    BY <2>2, <2>3
<1>4. ASSUME NEW how \in {"invalid", "network", "other"}, StreamBreaks(c, how)
      PROVE  Fine
  <2> DEFINE r == [req[c] EXCEPT !.st = "pausing"]
  <2>1. /\ req[c].st = "streaming" /\ UNCHANGED <<health, model, active, sequence, dialog, sends>>
        /\ \/ Ends(c)
           \/ req' = [req EXCEPT ![c] = r] /\ req[c].outer < MaxAttempts
    BY <1>4 DEF StreamBreaks
  <2>2. /\ r \in Request /\ r.st = "pausing" /\ r.try = req[c].try /\ r.last = req[c].last
        /\ r.wanted = req[c].wanted /\ r.outer = req[c].outer /\ r.max = req[c].max
        /\ r.init = req[c].init
    BY <1>1 DEF Request, States
  <2> HIDE DEF r
  <2>3. CASE Ends(c)
    BY <2>1, <2>3, EndsKeeps
  <2>4. CASE req' = [req EXCEPT ![c] = r] /\ req[c].outer < MaxAttempts
    <3>1. RequestOK(r)
      BY <1>1, <2>1, <2>2, <2>4 DEF RequestOK
    <3> QED
      BY <2>1, <2>2, <2>4, <3>1, ChangesKeeps DEF Becomes
  <2> QED
    BY <2>1, <2>3, <2>4
<1> QED
  BY <1>2, <1>3, <1>4

\* The user cancels.
LEMMA AbortKeeps ==
  ASSUME IInv, NEW c \in Chat, Abort(c)
  PROVE  Fine
<1> DEFINE r == [req[c] EXCEPT !.aborted = TRUE]
<1>1. /\ req' = [req EXCEPT ![c] = r] /\ ~req[c].aborted
      /\ UNCHANGED <<health, model, active, sequence, dialog, sends>>
  BY DEF Abort
<1>2. req[c] \in Request /\ RequestOK(req[c])
  BY RequestIs
<1>3. /\ r \in Request /\ r.st = req[c].st /\ r.try = req[c].try /\ r.last = req[c].last
      /\ r.wanted = req[c].wanted /\ r.outer = req[c].outer /\ r.max = req[c].max
      /\ r.init = req[c].init /\ r.ask = req[c].ask
  BY <1>2 DEF Request
<1> HIDE DEF r
<1>4. RequestOK(r)
  BY <1>2, <1>3 DEF RequestOK
<1> QED
  BY <1>1, <1>3, <1>4, ChangesKeeps DEF Becomes

-----------------------------------------------------------------------------
(* The theorems.                                                           *)

LEMMA InitInv == Init => IInv
<1> SUFFICES ASSUME Init PROVE IInv
  OBVIOUS
<1> USE ChainAssumption, ChatAssumption
<1>1. Chain[1] \in Model
  BY LenProperties, EmptySeq, ElementOfSeq
<1>2. SharedOK
  BY <1>1 DEF Init, SharedOK, Marks, AllHealthy, Health
<1>3. \A c \in Chat : req[c] = Idle
  BY DEF Init
<1>4. RequestsOK
  BY <1>3, IdleOK DEF Init, RequestsOK, RequestOK
<1>5. AskedIsShown /\ dialog \in Chat \cup {NoChat}
  BY <1>3 DEF Init, AskedIsShown, Idle
<1> QED
  BY <1>2, <1>4, <1>5 DEF IInv

LEMMA NextFine == IInv /\ [Next]_vars => Fine
<1> SUFFICES ASSUME IInv, [Next]_vars PROVE Fine
  OBVIOUS
<1>1. CASE SendPrompt \/ SendMore
  BY <1>1, RouteKeeps
<1>2. CASE OpenStream \/ \E c \in Chat : SendOfAgent(c)
  BY <1>2, SendKeeps
<1>3. ASSUME NEW c \in Chat, Abort(c) \/ Progress(c)
      PROVE  Fine
  BY <1>3, AbortKeeps, AttemptKeeps, SucceedKeeps, FailKeeps, FallbackKeeps, AskKeeps,
     AnswerKeeps, StreamKeeps DEF Progress
<1>4. ASSUME NEW m \in Model, UserPicks(m)
      PROVE  Fine
  BY <1>4, PickKeeps
<1>5. CASE UNCHANGED vars
  BY <1>5 DEF vars, Fine, IInv, SharedOK, RequestsOK, AskedIsShown, CancelledStays,
     GivenUpStays, Available
<1> QED
  BY <1>1, <1>2, <1>3, <1>4, <1>5 DEF Next

\* The inductive invariant of the requests and of what they share.
THEOREM Invariance == Spec => []IInv
<1>1. IInv /\ [Next]_vars => IInv'
  BY NextFine DEF Fine
<1> QED
  BY <1>1, InitInv, PTL DEF Spec

\* Every variable keeps its type: a request under way has a model of the chain's choosing, its
\* stream is one of at most getMaxAttempts() and its attempt within the limit that
\* applyModelSelection set.
THEOREM TypeCorrect == Spec => []TypeOK
<1>1. IInv => TypeOK
  <2> SUFFICES ASSUME IInv PROVE TypeOK
    OBVIOUS
  <2>1. \A c \in Chat : req[c] \in Request /\ RequestOK(req[c])
    BY RequestIs
  <2>2. \A c \in Chat : req[c].st \in States /\ req[c].outer \in Nat
    BY <2>1 DEF Request
  <2> QED
    BY <2>1, <2>2, ChatAssumption DEF TypeOK, IInv, SharedOK, Marks, RequestOK
<1> QED
  BY <1>1, Invariance, PTL

\* The interface shows the question of the one request that waits for an answer:
\* isDialogPending keeps a second failure from replacing it.
THEOREM QuestionsAreShown == Spec => []AskedIsShown
<1>1. IInv => AskedIsShown
  BY DEF IInv
<1> QED
  BY <1>1, Invariance, PTL

\* A request that was cancelled makes no further call: retryWithBackoff and Turn.run look at
\* the signal wherever the request can have been waiting.
THEOREM CancelledIsFinal == Spec => CancelledCallsNoMore
<1>1. IInv /\ [Next]_vars => [CancelledStays]_vars
  BY NextFine DEF Fine
<1> QED
  BY <1>1, Invariance, PTL DEF Spec, CancelledCallsNoMore, CancelledStays

\* A model that was given up comes back by its own success, by the new turn that grants it
\* one more attempt, or by setModel, whichever chats fail on it meanwhile.
THEOREM MarksAreKept == Spec => GivenUpStaysGivenUp
<1>1. IInv /\ [Next]_vars => [GivenUpStays]_vars
  BY NextFine DEF Fine
<1> QED
  BY <1>1, Invariance, PTL DEF Spec, GivenUpStaysGivenUp, GivenUpStays
=============================================================================

--------------------------- MODULE ModelAvailability ---------------------------
(***************************************************************************)
(* The health of the models and the choice among them:                     *)
(* ModelAvailabilityService and policyHelpers.ts                           *)
(* (packages/core/src/availability/), as operators over a health map.      *)
(***************************************************************************)
EXTENDS Naturals, Sequences, SequencesExt

CONSTANTS
  Model,        \* the models
  Chain,        \* the policy chain: preferred model first, last resort last
  Transition    \* stateTransitions of the policies: failure kind -> mark

\* What classifyFailureKind makes of an error: an error of the server is unknown.
Kinds == {"terminal", "not_found", "transient", "unknown"}
Health == {"healthy", "terminal", "sticky", "consumed"}

ASSUME ChainAssumption ==
  /\ Chain \in Seq(Model) /\ Chain # <<>> /\ IsInjective(Chain)
  /\ Transition \in [Kinds -> {"terminal", "sticky"}]

AllHealthy == [m \in Model |-> "healthy"]

\* A slip: the mark of a new failure starts afresh.
MarkRetryAgain(h, m) ==
  IF h[m] = "terminal" THEN h ELSE [h EXCEPT ![m] = "sticky"]

\* markRetryOncePerTurn: a transient failure does not hide a terminal one, and a model
\* that has had its attempt of this turn does not get another.
MarkRetryOncePerTurn(h, m) ==
  IF h[m] \in {"terminal", "consumed"} THEN h ELSE [h EXCEPT ![m] = "sticky"]

\* consumeStickyAttempt.
Consume(h, m) == IF h[m] = "sticky" THEN [h EXCEPT ![m] = "consumed"] ELSE h

\* resetTurn.
ResetTurn(h) == [m \in Model |-> IF h[m] = "consumed" THEN "sticky" ELSE h[m]]

\* snapshot.
Available(h, m) == h[m] \in {"healthy", "sticky"}

\* applyAvailabilityTransition.
Transit(h, m, kind) ==
  IF Transition[kind] = "terminal" THEN [h EXCEPT ![m] = "terminal"]
                                   ELSE MarkRetryOncePerTurn(h, m)

-----------------------------------------------------------------------------
\* A slip: the chain wraps around to the models before m.
ChainAround(m) ==
  IF m \notin Range(Chain) THEN <<m>>
  ELSE LET i == CHOOSE j \in DOMAIN Chain : Chain[j] = m
       IN  SubSeq(Chain, i, Len(Chain)) \o SubSeq(Chain, 1, i - 1)

\* resolvePolicyChain: the chain from m on; a model outside it stands alone.
ChainFrom(m) ==
  IF m \notin Range(Chain) THEN <<m>>
  ELSE LET i == CHOOSE j \in DOMAIN Chain : Chain[j] = m
       IN  SubSeq(Chain, i, Len(Chain))

\* buildFallbackPolicyContext: what follows the failed model; the whole chain if the
\* model is not part of it.
Candidates(chain, failed) ==
  IF failed \notin Range(chain) THEN chain
  ELSE LET i == CHOOSE j \in DOMAIN chain : chain[j] = failed
       IN  SubSeq(chain, i + 1, Len(chain))

\* selectModelForAvailability: the first available model, else the last resort.
Selected(h, chain) ==
  LET free == {i \in DOMAIN chain : Available(h, chain[i])}
  IN  IF free = {} THEN chain[Len(chain)]
      ELSE chain[CHOOSE i \in free : \A j \in free : i <= j]
=============================================================================

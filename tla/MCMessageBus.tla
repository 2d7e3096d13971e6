----------------------------- MODULE MCMessageBus -----------------------------
(***************************************************************************)
(* Two sessions that share a policy file; in the first one two calls ask   *)
(* for decisions at the same time.                                         *)
(***************************************************************************)
EXTENDS MessageBus, TLC

CONSTANTS s1, s2, a1, a2, a3, r1, r2, r3, wide

TwoInOne == a1 :> s1 @@ a2 :> s1 @@ a3 :> s2
OneRuleEach == a1 :> r1 @@ a2 :> r2 @@ a3 :> r3
=============================================================================

----------------------------- MODULE MCLocalAgent -----------------------------
(***************************************************************************)
(* A short run of an agent: few turns, few calls in a turn.                *)
(***************************************************************************)
EXTENDS LocalAgent, TLC
=============================================================================

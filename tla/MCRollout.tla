----------------------------- MODULE MCRollout -----------------------------
(* The rollout, with the releases of an instance taken as they come.       *)
EXTENDS Rollout
=============================================================================

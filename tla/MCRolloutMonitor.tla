-------------------------- MODULE MCRolloutMonitor --------------------------
(* Model-checking instances of RolloutMonitor. *)
EXTENDS RolloutMonitor
=============================================================================

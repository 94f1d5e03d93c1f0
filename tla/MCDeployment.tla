---------------------------- MODULE MCDeployment ----------------------------
(* Model-checking instance of Deployment. *)
EXTENDS Deployment
=============================================================================

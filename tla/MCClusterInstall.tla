-------------------------- MODULE MCClusterInstall --------------------------
(* Model-checking instances of ClusterInstall. *)
EXTENDS ClusterInstall
=============================================================================

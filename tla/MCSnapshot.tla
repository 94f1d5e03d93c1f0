----------------------------- MODULE MCSnapshot -----------------------------
(* Model-checking instances of Snapshot. *)
EXTENDS Snapshot, TLC

Symmetry ==
  Permutations(Requests) \union Permutations(Required) \union Permutations(Optional)
=============================================================================

----------------------- MODULE MCBenchmarkLifecycle -----------------------
(* Model-checking instances of BenchmarkLifecycle. *)
EXTENDS BenchmarkLifecycle, TLC

\* Slots, roles and trials are interchangeable: no action tells them apart.
Symmetry ==
  Permutations(Requests) \union Permutations(Roles) \union Permutations(Trials)
=============================================================================

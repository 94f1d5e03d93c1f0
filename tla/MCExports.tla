----------------------------- MODULE MCExports -----------------------------
(* Model-checking instance of Exports. *)
EXTENDS Exports
=============================================================================

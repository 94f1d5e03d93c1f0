--------------------------- MODULE SnapshotBundle ---------------------------
(***************************************************************************)
(* What /snapshot promises about the bundle of files of a phase ("pre" or  *)
(* "post") in S3.  Attempts at a snapshot do not overlap.  An attempt      *)
(* stores the required files one by one and only then seals the bundle     *)
(* with SHA256SUMS, and it may be given up at any point.                   *)
(***************************************************************************)
CONSTANTS Phases, NoPhase, Required

VARIABLES
  busy,     \* the phase whose snapshot is in progress, or NoPhase
  stored,   \* by phase, the required files its last attempt has stored
  sealed    \* by phase, whether its last attempt has stored SHA256SUMS

vars == <<busy, stored, sealed>>

Init ==
  /\ busy = NoPhase
  /\ stored = [p \in Phases |-> {}]
  /\ sealed = [p \in Phases |-> FALSE]

Begin(p) ==
  /\ busy = NoPhase
  /\ busy' = p
  /\ stored' = [stored EXCEPT ![p] = {}]
  /\ sealed' = [sealed EXCEPT ![p] = FALSE]

\* The last thing an attempt that failed stored may be found in S3 all the same,
\* so storing and sealing may end the attempt, too.
Store(f) ==
  /\ busy # NoPhase
  /\ stored' = [stored EXCEPT ![busy] = @ \union {f}]
  /\ busy' \in {busy, NoPhase}
  /\ UNCHANGED sealed

Seal ==
  /\ busy # NoPhase
  /\ stored[busy] = Required
  /\ sealed' = [sealed EXCEPT ![busy] = TRUE]
  /\ busy' = NoPhase
  /\ UNCHANGED stored

GiveUp ==
  /\ busy # NoPhase
  /\ busy' = NoPhase
  /\ UNCHANGED <<stored, sealed>>

Next ==
  \/ \E p \in Phases : Begin(p)
  \/ \E f \in Required : Store(f)
  \/ Seal
  \/ GiveUp

Spec == Init /\ [][Next]_vars
=============================================================================

---------------------------- MODULE TrialWindow ----------------------------
(***************************************************************************)
(* What the export endpoints see of the lifecycle of the trial: the phase  *)
(* it is in and the two times BenchmarkState records.  BenchmarkLifecycle  *)
(* implements this (KeepsWindow), and Exports runs beside it.              *)
(***************************************************************************)
CONSTANTS Times, NoTime

ASSUME WindowAssumption == NoTime \notin Times

VARIABLES phase, startTime, endTime

windowVars == <<phase, startTime, endTime>>

\* "ended": success, failed or aborted.
Phases == {"not-initialized", "not-started", "running", "ended"}

WindowInit ==
  /\ phase = "not-initialized"
  /\ startTime = NoTime
  /\ endTime = NoTime

\* Whatever the phase: a late /initialize may complete after another one.
InitializeCompletes ==
  /\ phase' = "not-started"
  /\ UNCHANGED <<startTime, endTime>>

\* The end time of an earlier run stays.
StartConfirmed ==
  /\ phase # "not-initialized"
  /\ phase' = "running"
  /\ startTime' \in Times
  /\ UNCHANGED endTime

\* From /status, which may have no end time to record, or /abort; before a
\* start was confirmed as well, when the load generators were started by one
\* that was not.
VerdictReached ==
  /\ phase # "not-initialized"
  /\ phase' = "ended"
  /\ endTime' \in Times \union {endTime}
  /\ UNCHANGED startTime

RunnerRestarts ==
  /\ phase' = "not-initialized"
  /\ startTime' = NoTime
  /\ endTime' = NoTime

WindowNext ==
  InitializeCompletes \/ StartConfirmed \/ VerdictReached \/ RunnerRestarts

WindowSpec == WindowInit /\ [][WindowNext]_windowVars
=============================================================================

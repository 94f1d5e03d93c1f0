------------------------------- MODULE Runner -------------------------------
(***************************************************************************)
(* The Runner as its clients have it: the handlers of the lifecycle and    *)
(* the exports in one process (app.py includes their routers), on one      *)
(* BenchmarkState.  The lifecycle is BenchmarkLifecycle and the exports    *)
(* are Exports, which has only TrialWindow in its place; here they read    *)
(* the status, start_time and end_time that the handlers write.  They      *)
(* share the process, so a restart takes the requests of both.             *)
(***************************************************************************)
EXTENDS BenchmarkLifecycle

CONSTANTS
  ExportRequests,   \* export requests
  NumItems          \* metrics, containers, roles, or files of a TSDB snapshot

VARIABLES
  (* those of Exports, pc being exportPc here *)
  s3, tempdir, copying,
  kind, overwrite, exportPc, expected, todo, got, present, stored, failed, window, answer,
  earlier, disturbed

Exp == INSTANCE Exports WITH Requests <- ExportRequests, pc <- exportPc, phase <- Phase

exportVars ==
  <<s3, tempdir, copying, kind, overwrite, exportPc, expected, todo, got, present,
    stored, failed, window, answer, earlier, disturbed>>
runnerVars == <<vars, exportVars>>

---------------------------------------------------------------------------
RunnerInit == Init /\ Exp!Init

\* A step of the lifecycle.  The exports do nothing, but a request in its
\* overwrite check is disturbed by a change that does not end the trial.
LifecycleMoves ==
  /\ Next
  /\ restarts' = restarts
  /\ disturbed' = IF Phase' = "ended" \/ UNCHANGED Exp!windowVars THEN disturbed
                  ELSE disturbed \union {r \in ExportRequests : Exp!At(r, {"check"})}
  /\ UNCHANGED <<s3, tempdir, copying, kind, overwrite, exportPc, expected, todo, got,
                 present, stored, failed, window, answer, earlier>>

\* A step of an export reads the BenchmarkState and leaves it alone.
ExportMoves ==
  /\ UNCHANGED vars
  /\ \E r \in ExportRequests : Exp!RequestNext(r)

RunnerDies == Restart /\ Exp!Restart

RunnerNext == LifecycleMoves \/ ExportMoves \/ RunnerDies

RunnerSpec == RunnerInit /\ [][RunnerNext]_runnerVars

---------------------------------------------------------------------------
\* What /metrics/export queries Prometheus with has both bounds, opens no later
\* than the load of any load generator, and, until a second /start is let
\* through, is not reversed and, of a successful trial, does not close before
\* any load has ended: the metrics in S3 are of the whole load, although the
\* bounds are those of a start and a verdict that other handlers recorded, and
\* are read again after an await.
MetricsCoverLoad ==
  [][\A r \in ExportRequests : window'[r] # window[r] =>
       /\ window'[r] \in Exp!Window
       /\ \A role \in Roles : window'[r].start <= lg[role].started
       /\ starts <= 1 =>
            /\ window'[r].start <= window'[r].end
            /\ status = "success" =>
                 \A role \in Roles : lg[role].end <= window'[r].end]_runnerVars
=============================================================================

---------------------------- MODULE RunnerProofs ----------------------------
(***************************************************************************)
(* The lifecycle and the exports keep what is proved of each of them when  *)
(* they run in one process: the composition implements the specification   *)
(* of either, so that the invariants of both hold of it.  Together they    *)
(* give what neither states, that the window the metrics are queried with  *)
(* covers the load.                                                        *)
(***************************************************************************)
EXTENDS Runner, OneStartProofs

---------------------------------------------------------------------------
(* The lifecycle in the composition *)

\* The exports take nothing from the lifecycle: whatever is proved of it alone
\* holds beside them.
THEOREM RunsLifecycle == RunnerSpec => Spec
<1>1. RunnerInit => Init
  BY DEF RunnerInit
<1>2. [RunnerNext]_runnerVars => [Next]_vars
  BY DEF RunnerNext, LifecycleMoves, ExportMoves, RunnerDies, Next, runnerVars
<1>. QED
  BY <1>1, <1>2, PTL DEF RunnerSpec, Spec

---------------------------------------------------------------------------
(* The exports in the composition *)

\* The steps of the lifecycle that the exports see are those TrialWindow has.
LEMMA LifecycleIsTrialMove ==
  ASSUME TypeOK, InstallInv, WindowInv, ConfigMeansInitialized, LifecycleMoves
  PROVE  Exp!TrialMoves \/ UNCHANGED Exp!vars
<1>1. ~Restart
  BY DEF Restart, LifecycleMoves, TypeOK, WorldTypeOK
<1>2. \/ Exp!InitializeCompletes \/ Exp!StartConfirmed \/ Exp!VerdictReached
      \/ UNCHANGED Exp!windowVars
  BY <1>1, StepKeepsWindow
  DEF LifecycleMoves, WindowMoves, Window!InitializeCompletes, Window!StartConfirmed,
      Window!VerdictReached, Window!windowVars, Exp!InitializeCompletes,
      Exp!StartConfirmed, Exp!VerdictReached, Exp!windowVars
<1>3. CASE UNCHANGED Exp!windowVars
  BY <1>3
  DEF LifecycleMoves, Exp!vars, Exp!worldVars, Exp!askedVars, Exp!loopVars
<1>4. CASE ~UNCHANGED Exp!windowVars
  <2>1. disturbed' = IF Phase' = "ended" THEN disturbed
                     ELSE disturbed \union {r \in ExportRequests : Exp!At(r, {"check"})}
    BY <1>4 DEF LifecycleMoves
  <2>. QED
    BY <1>2, <1>4, <2>1
    DEF LifecycleMoves, Exp!TrialMoves, Exp!worldVars, Exp!askedVars, Exp!loopVars
<1>. QED
  BY <1>3, <1>4

\* The handlers that write status, start_time and end_time are no other
\* environment to the exports than TrialWindow, beside which they are proved.
THEOREM RunsExports == RunnerSpec => Exp!Spec
<1>1. RunnerInit => Exp!Init
  BY DEF RunnerInit
<1>2. TypeOK /\ InstallInv /\ WindowInv /\ ConfigMeansInitialized /\ [RunnerNext]_runnerVars
        => [Exp!Next]_(Exp!vars)
  <2>1. UNCHANGED runnerVars => UNCHANGED Exp!vars
    BY DEF runnerVars, exportVars, vars, stateVars, Phase, Exp!vars, Exp!windowVars,
           Exp!worldVars, Exp!askedVars, Exp!loopVars
  <2>. QED
    BY <2>1, LifecycleIsTrialMove DEF RunnerNext, ExportMoves, RunnerDies, Exp!Next
<1>. QED
  BY <1>1, <1>2, RunsLifecycle, TypeCorrect, InstallInvariant, WindowInvariant,
     ConfigInitialized, PTL
  DEF RunnerSpec, Exp!Spec

---------------------------------------------------------------------------
(* What is read of the window *)

\* A /metrics/export that checks its keys found both bounds, and nothing but a
\* restart takes one away.
BoundsKept ==
  /\ exportPc \in [ExportRequests -> Exp!Stages]
  /\ window \in [ExportRequests -> Exp!Window \union {Exp!NoWindow}]
  /\ \A r \in ExportRequests : exportPc[r] = "check" => startTime # NoTime /\ endTime # NoTime

\* Only two steps read it, and both find both bounds.
ReadsWindow(r) ==
  /\ startTime # NoTime /\ endTime # NoTime
  /\ window' = [window EXCEPT ![r] = [start |-> startTime, end |-> endTime]]

LEMMA ExportReads ==
  ASSUME TypeOK, BoundsKept, NEW r \in ExportRequests, Exp!RequestNext(r), UNCHANGED vars
  PROVE  /\ UNCHANGED window \/ ReadsWindow(r)
         /\ BoundsKept'
<1>. USE DEF Exp!At, Exp!Goto, Exp!Reply, Exp!BreakOff, Exp!Stages
<1>1. UNCHANGED <<startTime, endTime>>
  BY DEF vars, stateVars
<1>2. (UNCHANGED window \/ ReadsWindow(r)) =>
        window' \in [ExportRequests -> Exp!Window \union {Exp!NoWindow}]
  BY DEF BoundsKept, ReadsWindow, Exp!Window, TypeOK, StateTypeOK
<1>3. ASSUME NEW force \in BOOLEAN, Exp!ArriveMetrics(r, force)
      PROVE  /\ UNCHANGED window \/ ReadsWindow(r)
             /\ exportPc' \in [ExportRequests -> Exp!Stages]
             /\ \A q \in ExportRequests : exportPc'[q] = "check" =>
                  startTime # NoTime /\ endTime # NoTime
  BY <1>3 DEF Exp!ArriveMetrics, Exp!Enter, Exp!ReadWindow, ReadsWindow, BoundsKept
<1>4. ASSUME Exp!CheckKey(r)
      PROVE  /\ UNCHANGED window \/ ReadsWindow(r)
             /\ \E s \in Exp!Stages \ {"check"} :
                  exportPc' = [exportPc EXCEPT ![r] = s] \/ UNCHANGED exportPc
  BY <1>4 DEF Exp!CheckKey, Exp!ReadWindow, ReadsWindow, BoundsKept
<1>5. ASSUME Exp!RequestNext(r), ~Exp!CheckKey(r),
             ~\E force \in BOOLEAN : Exp!ArriveMetrics(r, force)
      PROVE  /\ UNCHANGED window
             /\ \E s \in Exp!Stages \ {"check"} :
                  exportPc' = [exportPc EXCEPT ![r] = s] \/ UNCHANGED exportPc
  BY <1>5
  DEF Exp!RequestNext, Exp!LoopStep, Exp!ArriveLogs, Exp!ArriveTsdb, Exp!ArriveRoles,
      Exp!ArriveSingle, Exp!Enter, Exp!CheckFails, Exp!Discover, Exp!DiscoverFails,
      Exp!TriggerSnapshot, Exp!TriggerFails, Exp!CopySucceeds, Exp!CopyFails,
      Exp!CopyTimesOut, Exp!OrphanCopies, Exp!Fetch, Exp!FetchFails, Exp!ReadFails,
      Exp!FetchBreaks, Exp!Put, Exp!PutFails, Exp!UploadFails, Exp!Proceed
<1>6. ASSUME \E s \in Exp!Stages \ {"check"} :
               exportPc' = [exportPc EXCEPT ![r] = s] \/ UNCHANGED exportPc
      PROVE  /\ exportPc' \in [ExportRequests -> Exp!Stages]
             /\ \A q \in ExportRequests : exportPc'[q] = "check" =>
                  startTime # NoTime /\ endTime # NoTime
  BY <1>6 DEF BoundsKept
<1>. QED
  BY <1>1, <1>2, <1>3, <1>4, <1>5, <1>6 DEF BoundsKept

LEMMA BoundsStay ==
  ASSUME TypeOK, InstallInv, WindowInv, ConfigMeansInitialized, BoundsKept,
         [RunnerNext]_runnerVars
  PROVE  BoundsKept'
<1>1. CASE LifecycleMoves
  <2>1. UNCHANGED <<exportPc, window>>
    BY <1>1 DEF LifecycleMoves
  <2>2. \/ startTime' \in Times /\ UNCHANGED endTime
        \/ endTime' \in Times \union {endTime} /\ UNCHANGED startTime
        \/ UNCHANGED <<startTime, endTime>>
    BY <1>1, LifecycleIsTrialMove
    DEF Exp!TrialMoves, Exp!InitializeCompletes, Exp!StartConfirmed, Exp!VerdictReached,
        Exp!vars, Exp!windowVars
  <2>3. NoTime \notin Times
    BY DEF NoTime, Times
  <2>. QED
    BY <2>1, <2>2, <2>3 DEF BoundsKept
<1>2. CASE ExportMoves
  BY <1>2, ExportReads DEF ExportMoves
<1>3. CASE RunnerDies
  BY <1>3 DEF RunnerDies, Exp!Restart, Exp!At, Exp!Stages, BoundsKept
<1>4. CASE UNCHANGED runnerVars
  BY <1>4 DEF runnerVars, exportVars, vars, stateVars, BoundsKept
<1>. QED
  BY <1>1, <1>2, <1>3, <1>4 DEF RunnerNext

\* What /metrics/export queries Prometheus with covers the load of the trial.
THEOREM LoadCovered == RunnerSpec => MetricsCoverLoad
<1>1. RunnerInit => BoundsKept
  BY DEF RunnerInit, Exp!Init, Exp!Stages, BoundsKept
<1>2. TypeOK /\ BoundsKept /\ WindowOpensBeforeLoad /\ WindowIsOrdered /\ VerdictMatchesLoad
        /\ [RunnerNext]_runnerVars
        => [\A r \in ExportRequests : window'[r] # window[r] =>
              /\ window'[r] \in Exp!Window
              /\ \A role \in Roles : window'[r].start <= lg[role].started
              /\ starts <= 1 =>
                   /\ window'[r].start <= window'[r].end
                   /\ status = "success" =>
                        \A role \in Roles : lg[role].end <= window'[r].end]_runnerVars
  <2>. SUFFICES ASSUME TypeOK, BoundsKept, WindowOpensBeforeLoad, WindowIsOrdered,
                       VerdictMatchesLoad, [RunnerNext]_runnerVars,
                       NEW r \in ExportRequests, window'[r] # window[r]
                PROVE  /\ window'[r] \in Exp!Window
                       /\ \A role \in Roles : window'[r].start <= lg[role].started
                       /\ starts <= 1 =>
                            /\ window'[r].start <= window'[r].end
                            /\ status = "success" =>
                                 \A role \in Roles : lg[role].end <= window'[r].end
    OBVIOUS
  <2>1. PICK q \in ExportRequests : Exp!RequestNext(q) /\ UNCHANGED vars
    BY DEF RunnerNext, LifecycleMoves, ExportMoves, RunnerDies, Exp!Restart, runnerVars,
           exportVars
  <2>2. ReadsWindow(q) /\ q = r
    BY <2>1, ExportReads DEF ReadsWindow, BoundsKept
  <2>3. /\ startTime # NoTime /\ endTime # NoTime
        /\ window'[r] = [start |-> startTime, end |-> endTime]
    BY <2>2 DEF ReadsWindow, BoundsKept
  <2>. QED
    BY <2>3
    DEF Exp!Window, TypeOK, StateTypeOK, WindowOpensBeforeLoad, WindowIsOrdered,
        VerdictMatchesLoad
<1>. QED
  BY <1>1, <1>2, BoundsStay, RunsLifecycle, TypeCorrect, InstallInvariant, WindowInvariant,
     ConfigInitialized, WindowSafe, WindowOrdered, VerdictSound, PTL
  DEF RunnerSpec, MetricsCoverLoad
=============================================================================

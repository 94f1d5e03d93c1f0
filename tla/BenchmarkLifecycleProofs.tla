--------------------- MODULE BenchmarkLifecycleProofs ---------------------
(***************************************************************************)
(* Type correctness and the safety invariants of BenchmarkLifecycle, for   *)
(* every number of requests, load generators and trials and every value of *)
(* the bounds.                                                             *)
(***************************************************************************)
EXTENDS BenchmarkLifecycle, TLAPS

\* A handler that returns leaves its slot in a typed state.
LEMMA FinishType ==
  ASSUME RequestTypeOK, NEW r \in Requests, Finish(r)
  PROVE  RequestTypeOK'
<1>1. /\ NoBody \in Body
      /\ Silence \in [Roles -> Report]
      /\ "idle" \in Stages
      /\ NoTime \in Times \union {NoTime}
  BY DEF NoBody, Body, Silence, Report, Stages
<1>2. /\ pc' \in [Requests -> Stages]
      /\ body' \in [Requests -> Body]
      /\ stamp' \in [Requests -> Times \union {NoTime}]
      /\ pending' \in [Requests -> SUBSET Roles]
      /\ heard' \in [Requests -> [Roles -> Report]]
  BY <1>1 DEF RequestTypeOK, Finish, Goto
<1>3. \A q \in Requests : At(q, InitStages)' => body'[q].trial \in Trials
  BY DEF RequestTypeOK, Finish, Goto, At, InitStages
<1>. QED
  BY <1>2, <1>3 DEF RequestTypeOK

\* So does a handler that goes on to its next await and keeps its request.
LEMMA GotoType ==
  ASSUME RequestTypeOK, NEW r \in Requests, NEW stage \in Stages, Goto(r, stage),
         At(r, InitStages) \/ stage \notin InitStages,
         UNCHANGED body
  PROVE  /\ pc' \in [Requests -> Stages]
         /\ \A q \in Requests : At(q, InitStages)' => body'[q].trial \in Trials
BY DEF RequestTypeOK, Goto, At

LEMMA SettleType ==
  ASSUME RequestTypeOK, NEW r \in Requests, NEW role \in Roles, Settle(r, role)
  PROVE  pending' \in [Requests -> SUBSET Roles]
BY DEF RequestTypeOK, Settle

LEMMA AwaitAllType ==
  ASSUME RequestTypeOK, NEW r \in Requests, AwaitAll(r)
  PROVE  pending' \in [Requests -> SUBSET Roles]
BY DEF RequestTypeOK, AwaitAll

LEMMA HearType ==
  ASSUME RequestTypeOK, NEW r \in Requests, NEW role \in Roles,
         NEW report \in Report, Hear(r, role, report)
  PROVE  heard' \in [Requests -> [Roles -> Report]]
BY DEF RequestTypeOK, Hear

\* Proceeding past an installation step keeps the types.
LEMMA ProceedType ==
  ASSUME StateTypeOK, RequestTypeOK, NEW r \in Requests, At(r, InitStages),
         NEW done \in SUBSET InstallSteps, NEW ahead \in SUBSET InstallSteps,
         Proceed(r, done, ahead)
  PROVE  StateTypeOK' /\ RequestTypeOK'
<1>1. installed' \in SUBSET InstallSteps
  BY DEF Proceed, StateTypeOK
<1>2. PICK stage \in {"init_kubernetes", "init_globeco", "init_containers"} : Goto(r, stage)
  BY DEF Proceed
<1>3. /\ pc' \in [Requests -> Stages]
      /\ \A q \in Requests : At(q, InitStages)' => body'[q].trial \in Trials
  BY <1>2, GotoType DEF Proceed, Stages, InitStages
<1>4. pending' \in [Requests -> SUBSET Roles]
  BY AwaitAllType DEF Proceed, RequestTypeOK
<1>. QED
  BY <1>1, <1>3, <1>4 DEF Proceed, StateTypeOK, RequestTypeOK

---------------------------------------------------------------------------
(* Type correctness, one lemma per handler *)

LEMMA InitType == Init => TypeOK
<1>. SUFFICES ASSUME Init PROVE TypeOK
  OBVIOUS
<1>1. 0 \in Times
  BY ConstantsAssumption DEF Times
<1>2. StateTypeOK
  BY DEF Init, StateTypeOK, BenchmarkStatus, InstallSteps
<1>3. RequestTypeOK
  BY DEF Init, RequestTypeOK, Stages, NoBody, Body, Silence, Report, At, InitStages
<1>4. WorldTypeOK
  BY <1>1, ConstantsAssumption
  DEF Init, WorldTypeOK, LoadGenerator, LoadGeneratorStatus
<1>. QED
  BY <1>2, <1>3, <1>4 DEF TypeOK

LEMMA InitializeType ==
  ASSUME TypeOK, NEW r \in Requests, InitializeNext(r)
  PROVE  TypeOK'
<1>. USE DEF TypeOK
<1>1. ASSUME NEW t \in Trials, NEW skip \in SUBSET {"kubernetes", "globeco"},
             Initialize(r, t, skip)
      PROVE  TypeOK'
  <2>1. pc' \in [Requests -> Stages]
    BY <1>1 DEF Initialize, Goto, RequestTypeOK, Stages, InitStages
  <2>2. body' \in [Requests -> Body]
    BY <1>1 DEF Initialize, RequestTypeOK, Body
  <2>3. \A q \in Requests : At(q, InitStages)' => body'[q].trial \in Trials
    BY <1>1 DEF Initialize, RequestTypeOK, Goto, At
  <2>. QED
    BY <1>1, <2>1, <2>2, <2>3
    DEF Initialize, StateTypeOK, RequestTypeOK, WorldTypeOK, stateVars, countVars
<1>2. CASE ReserveTrial(r)
  <2>1. At(r, InitStages) /\ body[r].trial \in Trials
    BY <1>2 DEF ReserveTrial, RequestTypeOK, At, InitStages
  <2>2. StateTypeOK' /\ RequestTypeOK'
    BY <1>2, <2>1, ProceedType DEF ReserveTrial, InstallSteps
  <2>. QED
    BY <1>2, <2>1, <2>2 DEF ReserveTrial, WorldTypeOK, countVars
<1>3. CASE ReserveAnswerLost(r)
  <2>1. body[r].trial \in Trials
    BY <1>3 DEF ReserveAnswerLost, RequestTypeOK, At, InitStages
  <2>. QED
    BY <1>3, <2>1, FinishType
    DEF ReserveAnswerLost, StateTypeOK, WorldTypeOK, stateVars, countVars
<1>4. CASE InstallKubernetes(r)
  <2>1. At(r, InitStages)
    BY <1>4 DEF InstallKubernetes, At, InitStages
  <2>2. StateTypeOK' /\ RequestTypeOK'
    BY <1>4, <2>1, ProceedType DEF InstallKubernetes, InstallSteps
  <2>. QED
    BY <1>4, <2>2 DEF InstallKubernetes, WorldTypeOK, countVars
<1>5. CASE InstallGlobeco(r)
  <2>1. At(r, InitStages)
    BY <1>5 DEF InstallGlobeco, At, InitStages
  <2>2. StateTypeOK' /\ RequestTypeOK'
    BY <1>5, <2>1, ProceedType DEF InstallGlobeco, InstallSteps
  <2>. QED
    BY <1>5, <2>2 DEF InstallGlobeco, WorldTypeOK, countVars
<1>6. ASSUME NEW role \in Roles, RunContainer(r, role)
      PROVE  TypeOK'
  <2>1. At(r, InitStages)
    BY <1>6 DEF RunContainer, At, InitStages
  <2>2. RequestTypeOK'
    <3>1. CASE pending[r] = {role}
      BY <1>6, <2>1, <3>1, GotoType, AwaitAllType
      DEF RunContainer, RequestTypeOK, Stages, InitStages
    <3>2. CASE pending[r] # {role}
      BY <1>6, <3>2, SettleType DEF RunContainer, RequestTypeOK, At
    <3>. QED
      BY <3>1, <3>2
  <2>3. lg' \in [Roles -> LoadGenerator]
    BY <1>6 DEF RunContainer, WorldTypeOK, LoadGenerator, LoadGeneratorStatus
  <2>. QED
    BY <1>6, <2>2, <2>3 DEF RunContainer, StateTypeOK, WorldTypeOK, stateVars, countVars
<1>7. ASSUME NEW role \in Roles, VerifyContainer(r, role)
      PROVE  TypeOK'
  BY <1>7, SettleType
  DEF VerifyContainer, StateTypeOK, RequestTypeOK, WorldTypeOK, At, stateVars, countVars
<1>8. CASE LoadGeneratorsDeployed(r)
  <2>1. At(r, InitStages) /\ Goto(r, "init_images")
    BY <1>8 DEF LoadGeneratorsDeployed, At, InitStages
  <2>2. RequestTypeOK'
    BY <1>8, <2>1, GotoType DEF LoadGeneratorsDeployed, RequestTypeOK, Stages, InitStages
  <2>. QED
    BY <1>8, <2>2
    DEF LoadGeneratorsDeployed, StateTypeOK, WorldTypeOK, InstallSteps, countVars
<1>9. CASE CompleteInitialize(r)
  <2>1. body[r].trial \in Trials
    BY <1>9 DEF CompleteInitialize, RequestTypeOK, At, InitStages
  <2>. QED
    BY <1>9, <2>1, FinishType
    DEF CompleteInitialize, StateTypeOK, WorldTypeOK, BenchmarkStatus, countVars
<1>10. CASE FailInitialize(r)
  BY <1>10, FinishType
  DEF FailInitialize, StateTypeOK, WorldTypeOK, stateVars, countVars
<1>. QED
  BY <1>1, <1>2, <1>3, <1>4, <1>5, <1>6, <1>7, <1>8, <1>9, <1>10 DEF InitializeNext

\* The ways a POST /start of one load generator ends.
LEMMA StartAnswerType ==
  ASSUME RequestTypeOK, NEW r \in Requests, NEW role \in Roles,
         StartAnswered(r, role) \/ StartRefused(r, role)
  PROVE  RequestTypeOK'
<1>1. CASE Settle(r, role) /\ UNCHANGED <<pc, body, stamp, heard>>
  BY <1>1, SettleType DEF RequestTypeOK, At
<1>2. CASE AwaitAll(r) /\ Goto(r, "start_check") /\ UNCHANGED <<body, stamp, heard>>
  BY <1>2, AwaitAllType, GotoType DEF RequestTypeOK, Stages, StartStages, InitStages
<1>3. CASE Settle(r, role) /\ Goto(r, "start_orphans") /\ UNCHANGED <<body, stamp, heard>>
  BY <1>3, SettleType, GotoType DEF RequestTypeOK, Stages, InitStages
<1>4. CASE Finish(r)
  BY <1>4, FinishType
<1>. QED
  BY <1>1, <1>2, <1>3, <1>4 DEF StartAnswered, StartRefused

LEMMA LaunchLoadType ==
  ASSUME WorldTypeOK, NEW role \in Roles, LaunchLoad(role)
  PROVE  lg' \in [Roles -> LoadGenerator]
BY DEF WorldTypeOK, LaunchLoad, LoadGenerator, LoadGeneratorStatus

LEMMA StopLoadType ==
  ASSUME WorldTypeOK, NEW role \in Roles, StopLoad(role)
  PROVE  lg' \in [Roles -> LoadGenerator]
BY DEF WorldTypeOK, StopLoad, LoadGenerator, LoadGeneratorStatus

LEMMA StartType ==
  ASSUME TypeOK, NEW r \in Requests, StartNext(r)
  PROVE  TypeOK'
<1>. USE DEF TypeOK
<1>1. CASE Start(r)
  <2>1. RequestTypeOK'
    <3>1. CASE config = NoTrial
      BY <1>1, <3>1, GotoType DEF Start, RequestTypeOK, Stages, InitStages
    <3>2. CASE config # NoTrial
      <4>1. stamp' \in [Requests -> Times \union {NoTime}]
        BY <1>1, <3>2 DEF Start, RequestTypeOK, WorldTypeOK
      <4>. QED
        BY <1>1, <3>2, <4>1, GotoType, AwaitAllType
        DEF Start, RequestTypeOK, Stages, StartStages, InitStages
    <3>. QED
      BY <3>1, <3>2
  <2>2. starts' \in 0..MaxStarts
    BY <1>1, ConstantsAssumption DEF Start, WorldTypeOK
  <2>. QED
    BY <1>1, <2>1, <2>2 DEF Start, StateTypeOK, WorldTypeOK, stateVars
<1>2. CASE DropUnhandled(r)
  BY <1>2, FinishType
  DEF DropUnhandled, StateTypeOK, WorldTypeOK, stateVars, countVars
<1>3. ASSUME NEW role \in Roles, PostStart(r, role)
      PROVE  TypeOK'
  <2>1. RequestTypeOK'
    BY <1>3, StartAnswerType DEF PostStart
  <2>2. lg' \in [Roles -> LoadGenerator]
    BY <1>3, LaunchLoadType DEF PostStart, WorldTypeOK
  <2>. QED
    BY <1>3, <2>1, <2>2 DEF PostStart, StateTypeOK, WorldTypeOK, stateVars, countVars
<1>4. ASSUME NEW role \in Roles, CheckRunning(r, role)
      PROVE  TypeOK'
  BY <1>4, SettleType
  DEF CheckRunning, StateTypeOK, RequestTypeOK, WorldTypeOK, At, stateVars, countVars
<1>5. CASE CheckRunningFails(r)
  BY <1>5, FinishType
  DEF CheckRunningFails, StateTypeOK, WorldTypeOK, stateVars, countVars
<1>6. CASE ConfirmStart(r)
  <2>1. stamp[r] \in Times \union {NoTime}
    BY DEF RequestTypeOK
  <2>. QED
    BY <1>6, <2>1, FinishType
    DEF ConfirmStart, StateTypeOK, WorldTypeOK, BenchmarkStatus, countVars
<1>. QED
  BY <1>1, <1>2, <1>3, <1>4, <1>5, <1>6 DEF StartNext

LEMMA AbortType ==
  ASSUME TypeOK, NEW r \in Requests, AbortNext(r)
  PROVE  TypeOK'
<1>. USE DEF TypeOK
<1>1. CASE Abort(r)
  BY <1>1, GotoType, AwaitAllType
  DEF Abort, StateTypeOK, RequestTypeOK, WorldTypeOK, Stages, InitStages,
      stateVars, countVars
<1>2. ASSUME NEW role \in Roles, PostAbort(r, role)
      PROVE  TypeOK'
  <2>1. PICK report \in Report : Hear(r, role, report)
    BY <1>2 DEF PostAbort, WorldTypeOK, Report, Unreachable, LoadGeneratorStatus
  <2>2. lg' \in [Roles -> LoadGenerator]
    BY <1>2, StopLoadType DEF PostAbort, WorldTypeOK
  <2>. QED
    BY <1>2, <2>1, <2>2, HearType, SettleType
    DEF PostAbort, StateTypeOK, RequestTypeOK, WorldTypeOK, At, stateVars, countVars
<1>3. CASE ConcludeAbort(r)
  BY <1>3, FinishType
  DEF ConcludeAbort, StateTypeOK, WorldTypeOK, BenchmarkStatus, countVars
<1>. QED
  BY <1>1, <1>2, <1>3 DEF AbortNext

LEMMA StatusType ==
  ASSUME TypeOK, NEW r \in Requests, StatusNext(r)
  PROVE  TypeOK'
<1>. USE DEF TypeOK
<1>1. CASE PollStatus(r)
  BY <1>1, GotoType, AwaitAllType
  DEF PollStatus, StateTypeOK, RequestTypeOK, WorldTypeOK, Stages, InitStages,
      stateVars, countVars
<1>2. ASSUME NEW role \in Roles, QueryHealth(r, role)
      PROVE  TypeOK'
  <2>1. PICK report \in Report : Hear(r, role, report)
    BY <1>2 DEF QueryHealth, WorldTypeOK, LoadGenerator, Report, Unreachable
  <2>. QED
    BY <1>2, <2>1, HearType, SettleType
    DEF QueryHealth, StateTypeOK, RequestTypeOK, WorldTypeOK, At, stateVars, countVars
<1>3. CASE ConcludeStatus(r)
  <2>1. \A verdict : EndTimes(r, verdict) \subseteq Times
    BY DEF EndTimes, RequestTypeOK, Report
  <2>2. endTime' \in Times \union {NoTime}
    BY <1>3, <2>1
    DEF ConcludeStatus, RecordEnd, LatestOf, EarliestOf, StateTypeOK
  <2>3. status' \in BenchmarkStatus
    BY <1>3 DEF ConcludeStatus, StateTypeOK, BenchmarkStatus
  <2>. QED
    BY <1>3, <2>2, <2>3, FinishType
    DEF ConcludeStatus, StateTypeOK, WorldTypeOK, countVars
<1>. QED
  BY <1>1, <1>2, <1>3 DEF StatusNext

LEMMA ShutdownType ==
  ASSUME TypeOK, NEW r \in Requests, ShutdownNext(r)
  PROVE  TypeOK'
<1>1. CASE Finish(r)
  BY <1>1, FinishType
  DEF TypeOK, ShutdownNext, Shutdown, ShutdownStep, StateTypeOK, WorldTypeOK,
      stateVars, countVars
<1>2. ASSUME NEW stage \in ShutdownStages, Goto(r, stage),
             UNCHANGED <<body, stamp, pending, heard>>
      PROVE  TypeOK'
  <2>1. RequestTypeOK'
    BY <1>2, GotoType DEF TypeOK, RequestTypeOK, Stages, ShutdownStages, InitStages
  <2>. QED
    BY <2>1
    DEF TypeOK, ShutdownNext, Shutdown, ShutdownStep, StateTypeOK, WorldTypeOK,
        stateVars, countVars
<1>. QED
  BY <1>1, <1>2 DEF ShutdownNext, Shutdown, ShutdownStep, ShutdownStages

LEMMA OutsideType ==
  ASSUME TypeOK,
         \/ \E role \in Roles, verdict \in {"success", "failed"} : LoadEnds(role, verdict)
         \/ Tick
         \/ Restart
  PROVE  TypeOK'
<1>. USE DEF TypeOK
<1>1. ASSUME NEW role \in Roles, NEW verdict \in {"success", "failed"},
             LoadEnds(role, verdict)
      PROVE  TypeOK'
  <2>1. lg' \in [Roles -> LoadGenerator]
    BY <1>1 DEF LoadEnds, WorldTypeOK, LoadGenerator, LoadGeneratorStatus
  <2>. QED
    BY <1>1, <2>1
    DEF LoadEnds, StateTypeOK, RequestTypeOK, WorldTypeOK, At,
        stateVars, requestVars, countVars
<1>2. CASE Tick
  <2>1. clock' \in Times
    BY <1>2, ConstantsAssumption DEF Tick, WorldTypeOK, Times
  <2>. QED
    BY <1>2, <2>1
    DEF Tick, StateTypeOK, RequestTypeOK, WorldTypeOK, At,
        stateVars, requestVars, countVars
<1>3. CASE Restart
  <2>1. RequestTypeOK'
    BY <1>3 DEF Restart, RequestTypeOK, Stages, NoBody, Body, Silence, Report, At, InitStages
  <2>2. restarts' \in 0..MaxRestarts
    BY <1>3, ConstantsAssumption DEF Restart, WorldTypeOK
  <2>. QED
    BY <1>3, <2>1, <2>2
    DEF Restart, StateTypeOK, WorldTypeOK, BenchmarkStatus, InstallSteps
<1>. QED
  BY <1>1, <1>2, <1>3

\* Every variable of the lifecycle always holds a value of its kind, and an
\* /initialize in progress always names one of the trials.
THEOREM TypeCorrect == Spec => []TypeOK
<1>1. TypeOK /\ [Next]_vars => TypeOK'
  <2>. SUFFICES ASSUME TypeOK, [Next]_vars PROVE TypeOK'
    OBVIOUS
  <2>1. CASE UNCHANGED vars
    BY <2>1
    DEF TypeOK, StateTypeOK, RequestTypeOK, WorldTypeOK, At,
        vars, stateVars, requestVars, countVars
  <2>2. CASE Next
    BY <2>2, InitializeType, StartType, AbortType, StatusType, ShutdownType,
       OutsideType DEF Next
  <2>. QED
    BY <2>1, <2>2
<1>. QED
  BY <1>1, InitType, PTL DEF Spec
---------------------------------------------------------------------------
(* The safety invariants are not inductive: each needs what the suspended   *)
(* handlers still know.                                                    *)

\* The flags an /initialize has set on its way to its present await.
StageFlags ==
  \A r \in Requests :
    /\ At(r, {"init_globeco", "init_containers", "init_verify", "init_images"})
         => "kubernetes" \in installed
    /\ At(r, {"init_containers", "init_verify", "init_images"})
         => "globeco" \in installed
    /\ At(r, {"init_images"}) => "load_generators" \in installed

\* The status handlers passed a guard that only holds once there is a
\* configuration, and only a restart, which ends them, takes it away.
HandlersHaveConfig ==
  \A r \in Requests :
    At(r, {"start_post", "start_check", "abort_post", "status_poll"})
      => config # NoTrial

InstallInv ==
  /\ status # "not-initialized" => config # NoTrial
  /\ config # NoTrial => InitializationComplete
  /\ StageFlags
  /\ HandlersHaveConfig

\* The time stamp a /start took before its POSTs is not later than any load
\* the POSTs answered so far have launched.
StampBeforeLoad ==
  \A r \in Requests : At(r, {"start_post", "start_check"}) =>
    /\ stamp[r] \in Times
    /\ stamp[r] <= clock
    /\ \A role \in Roles :
         At(r, {"start_check"}) \/ role \notin pending[r] => stamp[r] <= lg[role].started

WindowInv ==
  /\ startTime <= clock
  /\ WindowOpensBeforeLoad
  /\ StampBeforeLoad

---------------------------------------------------------------------------
(* Configuration and installation *)

\* Most steps touch neither the state nor the stage of another request: what
\* is left to show is that the request itself went somewhere harmless.
LEMMA MoveKeepsInstallInv ==
  ASSUME TypeOK, InstallInv, NEW r \in Requests, NEW stage, Goto(r, stage),
         stage \in {"idle", "init_reserve", "init_kubernetes", "start_check",
                    "start_orphans", "unhandled"} \union ShutdownStages,
         stage = "start_check" => At(r, {"start_post"}),
         UNCHANGED <<config, installed>>,
         status' # "not-initialized" => config # NoTrial
  PROVE  InstallInv'
BY DEF InstallInv, InitializationComplete, StageFlags, HandlersHaveConfig, At, Goto,
       ShutdownStages, TypeOK, RequestTypeOK

LEMMA RestKeepsInstallInv ==
  ASSUME InstallInv, UNCHANGED <<stateVars, pc>>
  PROVE  InstallInv'
BY DEF InstallInv, InitializationComplete, StageFlags, HandlersHaveConfig, At, stateVars

LEMMA ProceedKeepsInstallInv ==
  ASSUME TypeOK, InstallInv, NEW r \in Requests,
         \/ At(r, {"init_reserve"}) /\ Proceed(r, {}, {"kubernetes", "globeco"})
         \/ At(r, {"init_kubernetes"}) /\ Proceed(r, {"kubernetes"}, {"globeco"})
         \/ At(r, {"init_globeco"}) /\ Proceed(r, {"globeco"}, {})
  PROVE  InstallInv'
<1>1. /\ installed \subseteq installed'
      /\ installed' \subseteq InstallSteps
  BY DEF Proceed, TypeOK, StateTypeOK, InstallSteps
<1>2. UNCHANGED <<status, config>>
  BY DEF Proceed
<1>3. PICK stage \in {"init_kubernetes", "init_globeco", "init_containers"} :
        /\ Goto(r, stage)
        /\ stage # "init_kubernetes" => "kubernetes" \in installed'
        /\ stage = "init_containers" => "globeco" \in installed'
  BY DEF Proceed, InstallInv, StageFlags, At
<1>4. InitializationComplete => InitializationComplete'
  BY <1>1 DEF InitializationComplete
<1>5. StageFlags'
  BY <1>1, <1>3 DEF InstallInv, StageFlags, At, Goto, TypeOK, RequestTypeOK
<1>6. HandlersHaveConfig'
  BY <1>2, <1>3 DEF InstallInv, HandlersHaveConfig, At, Goto, TypeOK, RequestTypeOK
<1>. QED
  BY <1>2, <1>4, <1>5, <1>6 DEF InstallInv

LEMMA InitializeKeepsInstallInv ==
  ASSUME TypeOK, InstallInv, NEW r \in Requests, InitializeNext(r)
  PROVE  InstallInv'
<1>1. ASSUME NEW t \in Trials, NEW skip \in SUBSET {"kubernetes", "globeco"},
             Initialize(r, t, skip)
      PROVE  InstallInv'
  BY <1>1, MoveKeepsInstallInv DEF Initialize, InstallInv, stateVars
<1>2. CASE ReserveTrial(r) \/ InstallKubernetes(r) \/ InstallGlobeco(r)
  BY <1>2, ProceedKeepsInstallInv DEF ReserveTrial, InstallKubernetes, InstallGlobeco
<1>3. CASE ReserveAnswerLost(r) \/ FailInitialize(r)
  BY <1>3, MoveKeepsInstallInv
  DEF ReserveAnswerLost, FailInitialize, Finish, InstallInv, stateVars
<1>4. ASSUME NEW role \in Roles, RunContainer(r, role)
      PROVE  InstallInv'
  <2>1. CASE Goto(r, "init_verify")
    BY <1>4, <2>1
    DEF RunContainer, InstallInv, InitializationComplete, StageFlags,
        HandlersHaveConfig, At, Goto, TypeOK, RequestTypeOK, stateVars
  <2>2. CASE UNCHANGED pc
    BY <1>4, <2>2, RestKeepsInstallInv DEF RunContainer
  <2>. QED
    BY <1>4, <2>1, <2>2 DEF RunContainer
<1>5. ASSUME NEW role \in Roles, VerifyContainer(r, role)
      PROVE  InstallInv'
  BY <1>5, RestKeepsInstallInv DEF VerifyContainer
<1>6. CASE LoadGeneratorsDeployed(r)
  <2>1. InitializationComplete => InitializationComplete'
    BY <1>6 DEF LoadGeneratorsDeployed, InitializationComplete, InstallSteps
  <2>2. StageFlags' /\ HandlersHaveConfig'
    BY <1>6
    DEF LoadGeneratorsDeployed, InstallInv, StageFlags, HandlersHaveConfig,
        At, Goto, TypeOK, RequestTypeOK
  <2>. QED
    BY <1>6, <2>1, <2>2 DEF LoadGeneratorsDeployed, InstallInv
<1>7. CASE CompleteInitialize(r)
  <2>1. body[r].trial \in Trials
    BY <1>7 DEF CompleteInitialize, TypeOK, RequestTypeOK, At, InitStages
  <2>2. config' # NoTrial
    BY <1>7, <2>1, ConstantsAssumption DEF CompleteInitialize
  <2>3. InitializationComplete'
    BY <1>7
    DEF CompleteInitialize, InstallInv, StageFlags, At, InitializationComplete,
        InstallSteps, TypeOK, StateTypeOK
  <2>4. StageFlags'
    BY <1>7
    DEF CompleteInitialize, InstallInv, StageFlags, At, Finish, Goto, TypeOK, RequestTypeOK
  <2>. QED
    BY <2>2, <2>3, <2>4 DEF InstallInv, HandlersHaveConfig
<1>. QED
  BY <1>1, <1>2, <1>3, <1>4, <1>5, <1>6, <1>7 DEF InitializeNext

LEMMA StartKeepsInstallInv ==
  ASSUME TypeOK, InstallInv, NEW r \in Requests, StartNext(r)
  PROVE  InstallInv'
<1>1. CASE Start(r)
  <2>1. CASE config = NoTrial
    BY <1>1, <2>1, MoveKeepsInstallInv DEF Start, InstallInv, stateVars
  <2>2. CASE config # NoTrial
    BY <1>1, <2>2
    DEF Start, InstallInv, InitializationComplete, StageFlags, HandlersHaveConfig,
        At, Goto, TypeOK, RequestTypeOK, stateVars
  <2>. QED
    BY <2>1, <2>2
<1>2. CASE DropUnhandled(r) \/ CheckRunningFails(r)
  BY <1>2, MoveKeepsInstallInv
  DEF DropUnhandled, CheckRunningFails, Finish, InstallInv, stateVars
<1>3. ASSUME NEW role \in Roles, PostStart(r, role)
      PROVE  InstallInv'
  <2>1. UNCHANGED stateVars
    BY <1>3 DEF PostStart
  <2>2. \/ UNCHANGED pc
        \/ Goto(r, "idle")
        \/ Goto(r, "start_orphans")
        \/ Goto(r, "start_check") /\ At(r, {"start_post"})
    BY <1>3 DEF PostStart, StartAnswered, StartRefused, Finish
  <2>. QED
    BY <2>1, <2>2, RestKeepsInstallInv, MoveKeepsInstallInv DEF InstallInv, stateVars
<1>4. ASSUME NEW role \in Roles, CheckRunning(r, role)
      PROVE  InstallInv'
  BY <1>4, RestKeepsInstallInv DEF CheckRunning
<1>5. CASE ConfirmStart(r)
  <2>1. config # NoTrial
    BY <1>5 DEF ConfirmStart, InstallInv, HandlersHaveConfig, At
  <2>. QED
    BY <1>5, <2>1, MoveKeepsInstallInv DEF ConfirmStart, Finish
<1>. QED
  BY <1>1, <1>2, <1>3, <1>4, <1>5 DEF StartNext

\* /abort, /status and /shutdown pass guards that imply a configuration.
LEMMA OthersKeepInstallInv ==
  ASSUME TypeOK, InstallInv, NEW r \in Requests,
         AbortNext(r) \/ StatusNext(r) \/ ShutdownNext(r)
  PROVE  InstallInv'
<1>1. CASE Abort(r) \/ PollStatus(r)
  BY <1>1
  DEF Abort, PollStatus, InstallInv, InitializationComplete, StageFlags,
      HandlersHaveConfig, At, Goto, TypeOK, RequestTypeOK, stateVars
<1>2. ASSUME NEW role \in Roles, PostAbort(r, role) \/ QueryHealth(r, role)
      PROVE  InstallInv'
  BY <1>2, RestKeepsInstallInv DEF PostAbort, QueryHealth
<1>3. CASE ConcludeAbort(r) \/ ConcludeStatus(r)
  <2>1. config # NoTrial
    BY <1>3 DEF ConcludeAbort, ConcludeStatus, InstallInv, HandlersHaveConfig, At
  <2>2. UNCHANGED <<config, installed>> /\ Goto(r, "idle")
    BY <1>3 DEF ConcludeAbort, ConcludeStatus, Finish
  <2>. QED
    BY <2>1, <2>2, MoveKeepsInstallInv
<1>4. CASE ShutdownNext(r)
  <2>1. PICK stage \in ShutdownStages \union {"idle"} : Goto(r, stage)
    BY <1>4 DEF ShutdownNext, Shutdown, ShutdownStep, ShutdownStages, Finish
  <2>2. UNCHANGED stateVars
    BY <1>4 DEF ShutdownNext, Shutdown, ShutdownStep
  <2>. QED
    BY <2>1, <2>2, MoveKeepsInstallInv DEF InstallInv, ShutdownStages, stateVars
<1>. QED
  BY <1>1, <1>2, <1>3, <1>4 DEF AbortNext, StatusNext

\* The strengthening holds in every state.
THEOREM InstallInvariant == Spec => []InstallInv
<1>1. Init => InstallInv
  BY DEF Init, InstallInv, StageFlags, HandlersHaveConfig, At
<1>2. TypeOK /\ InstallInv /\ [Next]_vars => InstallInv'
  <2>. SUFFICES ASSUME TypeOK, InstallInv, [Next]_vars PROVE InstallInv'
    OBVIOUS
  <2>1. CASE UNCHANGED vars
    BY <2>1, RestKeepsInstallInv DEF vars, requestVars
  <2>2. ASSUME NEW r \in Requests,
               InitializeNext(r) \/ StartNext(r) \/ AbortNext(r)
                 \/ StatusNext(r) \/ ShutdownNext(r)
        PROVE  InstallInv'
    BY <2>2, InitializeKeepsInstallInv, StartKeepsInstallInv, OthersKeepInstallInv
  <2>3. ASSUME \/ \E role \in Roles, verdict \in {"success", "failed"} :
                     LoadEnds(role, verdict)
               \/ Tick
        PROVE  InstallInv'
    BY <2>3, RestKeepsInstallInv DEF LoadEnds, Tick, requestVars
  <2>4. CASE Restart
    BY <2>4
    DEF Restart, InstallInv, StageFlags, HandlersHaveConfig, At
  <2>. QED
    BY <2>1, <2>2, <2>3, <2>4 DEF Next
<1>. QED
  BY <1>1, <1>2, TypeCorrect, PTL DEF Spec

\* Whatever /initialize, /start, /abort, /status and /shutdown do to each other
\* and wherever they fail, a status other than not-initialized comes with a
\* complete installation and a configuration.
THEOREM InstallSafe == Spec => []InitializedMeansInstalled
<1>1. InstallInv => InitializedMeansInstalled
  BY DEF InstallInv, InitializedMeansInstalled
<1>. QED
  BY <1>1, InstallInvariant, PTL

---------------------------------------------------------------------------
(* The metrics window *)

\* A step of request r leaves the variables of the other requests alone.
OthersRest(r) ==
  \A q \in Requests \ {r} :
    /\ pc'[q] = pc[q] /\ body'[q] = body[q]
    /\ stamp'[q] = stamp[q] /\ pending'[q] = pending[q]

LEMMA FinishIsLocal ==
  ASSUME TypeOK, NEW r \in Requests, Finish(r)
  PROVE  OthersRest(r) /\ pc'[r] = "idle"
BY DEF Finish, Goto, OthersRest, TypeOK, RequestTypeOK

LEMMA HandlerIsLocal ==
  ASSUME TypeOK, NEW r \in Requests,
         InitializeNext(r) \/ StartNext(r) \/ AbortNext(r)
           \/ StatusNext(r) \/ ShutdownNext(r)
  PROVE  OthersRest(r)
<1>. USE DEF OthersRest, Goto, Settle, AwaitAll, TypeOK, RequestTypeOK
<1>1. CASE InitializeNext(r)
  BY <1>1, FinishIsLocal
  DEF InitializeNext, Initialize, ReserveTrial, ReserveAnswerLost, InstallKubernetes,
      InstallGlobeco, Proceed, RunContainer, VerifyContainer, LoadGeneratorsDeployed,
      CompleteInitialize, FailInitialize
<1>2. CASE StartNext(r)
  BY <1>2, FinishIsLocal
  DEF StartNext, Start, DropUnhandled, PostStart, StartAnswered, StartRefused,
      CheckRunning, CheckRunningFails, ConfirmStart
<1>3. CASE AbortNext(r)
  BY <1>3, FinishIsLocal DEF AbortNext, Abort, PostAbort, ConcludeAbort
<1>4. CASE StatusNext(r)
  BY <1>4, FinishIsLocal DEF StatusNext, PollStatus, QueryHealth, ConcludeStatus
<1>5. CASE ShutdownNext(r)
  BY <1>5, FinishIsLocal DEF ShutdownNext, Shutdown, ShutdownStep
<1>. QED
  BY <1>1, <1>2, <1>3, <1>4, <1>5

\* A step that launches nothing and leaves its request outside /start.
LEMMA MoveKeepsWindowInv ==
  ASSUME WindowInv, NEW r \in Requests, OthersRest(r),
         pc'[r] \notin {"start_post", "start_check"},
         \A role \in Roles : lg'[role].started = lg[role].started,
         UNCHANGED <<startTime, clock>>
  PROVE  WindowInv'
<1>1. StampBeforeLoad'
  BY DEF WindowInv, StampBeforeLoad, OthersRest, At
<1>. QED
  BY <1>1 DEF WindowInv, WindowOpensBeforeLoad

\* Launching a load moves its start to the present, which is later than every
\* time stamp taken so far.
LEMMA LaunchKeepsWindow ==
  ASSUME TypeOK, WindowInv, NEW role \in Roles, LaunchLoad(role), UNCHANGED startTime
  PROVE  /\ WindowOpensBeforeLoad'
         /\ lg'[role].started = clock
         /\ \A x \in Roles \ {role} : lg'[x] = lg[x]
<1>1. /\ lg'[role].started = clock
      /\ \A x \in Roles \ {role} : lg'[x] = lg[x]
  BY DEF LaunchLoad, TypeOK, WorldTypeOK
<1>. QED
  BY <1>1 DEF WindowInv, WindowOpensBeforeLoad

LEMMA StartKeepsWindowInv ==
  ASSUME TypeOK, WindowInv, NEW r \in Requests, StartNext(r), OthersRest(r)
  PROVE  WindowInv'
<1>1. CASE Start(r)
  <2>1. CASE config = NoTrial
    <3>1. pc'[r] = "unhandled"
      BY <1>1, <2>1 DEF Start, Goto, TypeOK, RequestTypeOK
    <3>. QED
      BY <1>1, <3>1, MoveKeepsWindowInv DEF Start, stateVars
  <2>2. CASE config # NoTrial
    <3>1. pc'[r] = "start_post" /\ stamp'[r] = clock /\ pending'[r] = Roles
      BY <1>1, <2>2 DEF Start, Goto, AwaitAll, TypeOK, RequestTypeOK
    <3>2. clock \in Times /\ clock <= clock
      BY ConstantsAssumption DEF TypeOK, WorldTypeOK, Times
    <3>3. StampBeforeLoad'
      BY <1>1, <3>1, <3>2 DEF Start, WindowInv, StampBeforeLoad, OthersRest, At
    <3>. QED
      BY <1>1, <3>3 DEF Start, WindowInv, WindowOpensBeforeLoad, stateVars
  <2>. QED
    BY <2>1, <2>2
<1>2. CASE DropUnhandled(r) \/ CheckRunningFails(r)
  <2>1. pc'[r] = "idle"
    BY <1>2, FinishIsLocal DEF DropUnhandled, CheckRunningFails
  <2>. QED
    BY <1>2, <2>1, MoveKeepsWindowInv DEF DropUnhandled, CheckRunningFails, stateVars
<1>3. ASSUME NEW role \in Roles, PostStart(r, role)
      PROVE  WindowInv'
  <2>1. UNCHANGED <<startTime, clock>>
    BY <1>3 DEF PostStart, stateVars
  <2>2. CASE UNCHANGED lg /\ StartRefused(r, role)
    <3>1. pc'[r] \in {"idle", "start_orphans"}
      BY <2>2, FinishIsLocal DEF StartRefused, Goto, TypeOK, RequestTypeOK
    <3>. QED
      BY <2>1, <2>2, <3>1, MoveKeepsWindowInv
  <2>3. CASE LaunchLoad(role) /\ (StartAnswered(r, role) \/ StartRefused(r, role))
    <3>1. /\ WindowOpensBeforeLoad'
          /\ lg'[role].started = clock
          /\ \A x \in Roles \ {role} : lg'[x] = lg[x]
      BY <2>1, <2>3, LaunchKeepsWindow
    <3>2. ASSUME NEW q \in Requests, At(q, {"start_post", "start_check"}),
                 NEW x \in Roles,
                 x = role \/ At(q, {"start_check"}) \/ x \notin pending[q]
          PROVE  /\ stamp[q] \in Times
                 /\ stamp[q] <= clock
                 /\ stamp[q] <= lg'[x].started
      BY <3>1, <3>2 DEF WindowInv, StampBeforeLoad
    <3>3. /\ At(r, {"start_post", "start_check"})' =>
               /\ At(r, {"start_post"})
               /\ stamp'[r] = stamp[r]
          /\ At(r, {"start_post"})' => pending'[r] = pending[r] \ {role}
          /\ At(r, {"start_check"})' => pending[r] = {role}
      BY <1>3, <2>3, FinishIsLocal
      DEF PostStart, StartAnswered, StartRefused, Settle, Goto, At, TypeOK, RequestTypeOK
    <3>4. StampBeforeLoad'
      <4>1. ASSUME NEW q \in Requests, At(q, {"start_post", "start_check"})'
            PROVE  stamp'[q] \in Times /\ stamp'[q] <= clock'
        BY <2>1, <3>3, <4>1 DEF WindowInv, StampBeforeLoad, OthersRest, At
      <4>2. ASSUME NEW q \in Requests, At(q, {"start_post", "start_check"})',
                   NEW x \in Roles, At(q, {"start_check"})' \/ x \notin pending'[q]
            PROVE  stamp'[q] <= lg'[x].started
        <5>1. CASE q = r
          BY <3>2, <3>3, <4>2, <5>1 DEF At
        <5>2. CASE q # r
          BY <3>2, <4>2, <5>2 DEF OthersRest, At
        <5>. QED
          BY <5>1, <5>2
      <4>. QED
        BY <4>1, <4>2 DEF StampBeforeLoad
    <3>. QED
      BY <2>1, <3>1, <3>4 DEF WindowInv
  <2>. QED
    BY <1>3, <2>2, <2>3 DEF PostStart
<1>4. ASSUME NEW role \in Roles, CheckRunning(r, role)
      PROVE  WindowInv'
  <2>1. StampBeforeLoad'
    BY <1>4 DEF CheckRunning, WindowInv, StampBeforeLoad, OthersRest, At
  <2>. QED
    BY <1>4, <2>1 DEF CheckRunning, WindowInv, WindowOpensBeforeLoad, stateVars
<1>5. CASE ConfirmStart(r)
  <2>1. /\ stamp[r] <= clock
        /\ \A role \in Roles : stamp[r] <= lg[role].started
    BY <1>5 DEF ConfirmStart, WindowInv, StampBeforeLoad, At
  <2>2. pc'[r] = "idle"
    BY <1>5, FinishIsLocal DEF ConfirmStart
  <2>3. StampBeforeLoad'
    BY <1>5, <2>2 DEF ConfirmStart, WindowInv, StampBeforeLoad, OthersRest, At
  <2>. QED
    BY <1>5, <2>1, <2>3 DEF ConfirmStart, WindowInv, WindowOpensBeforeLoad
<1>. QED
  BY <1>1, <1>2, <1>3, <1>4, <1>5 DEF StartNext

\* The other handlers launch nothing and never suspend inside /start.
LEMMA OthersKeepWindowInv ==
  ASSUME TypeOK, WindowInv, NEW r \in Requests, OthersRest(r),
         InitializeNext(r) \/ AbortNext(r) \/ StatusNext(r) \/ ShutdownNext(r)
  PROVE  WindowInv'
<1>. USE DEF Goto, At, TypeOK, RequestTypeOK
<1>1. pc'[r] \notin {"start_post", "start_check"}
  <2>1. CASE InitializeNext(r)
    BY <2>1, FinishIsLocal
    DEF InitializeNext, Initialize, ReserveTrial, ReserveAnswerLost, InstallKubernetes,
        InstallGlobeco, Proceed, RunContainer, VerifyContainer, LoadGeneratorsDeployed,
        CompleteInitialize, FailInitialize
  <2>2. CASE AbortNext(r)
    BY <2>2, FinishIsLocal DEF AbortNext, Abort, PostAbort, ConcludeAbort
  <2>3. CASE StatusNext(r)
    BY <2>3, FinishIsLocal DEF StatusNext, PollStatus, QueryHealth, ConcludeStatus
  <2>4. CASE ShutdownNext(r)
    BY <2>4, FinishIsLocal DEF ShutdownNext, Shutdown, ShutdownStep
  <2>. QED
    BY <2>1, <2>2, <2>3, <2>4
<1>2. UNCHANGED <<startTime, clock>>
  BY DEF InitializeNext, Initialize, ReserveTrial, ReserveAnswerLost, InstallKubernetes,
      InstallGlobeco, Proceed, RunContainer, VerifyContainer, LoadGeneratorsDeployed,
      CompleteInitialize, FailInitialize, AbortNext, Abort, PostAbort, ConcludeAbort,
      StatusNext, PollStatus, QueryHealth, ConcludeStatus, ShutdownNext, Shutdown,
      ShutdownStep, stateVars
<1>3. \A role \in Roles : lg'[role].started = lg[role].started
  <2>1. ASSUME NEW x \in Roles, RunContainer(r, x) \/ PostAbort(r, x)
        PROVE  \A role \in Roles : lg'[role].started = lg[role].started
    <3>1. /\ lg \in [Roles -> LoadGenerator]
          /\ \A role \in Roles : DOMAIN lg[role] = {"status", "started", "end"}
      BY DEF WorldTypeOK, LoadGenerator
    <3>2. \/ UNCHANGED lg
          \/ lg' = [lg EXCEPT ![x].status = "not-started"]
          \/ lg' = [lg EXCEPT ![x].status = "aborted", ![x].end = clock]
      BY <2>1 DEF RunContainer, PostAbort, StopLoad
    <3>. QED
      BY <3>1, <3>2 DEF LoadGenerator
  <2>2. CASE UNCHANGED lg
    BY <2>2
  <2>3. CASE InitializeNext(r)
    BY <2>1, <2>2, <2>3
    DEF InitializeNext, Initialize, ReserveTrial, ReserveAnswerLost, InstallKubernetes,
        InstallGlobeco, VerifyContainer, LoadGeneratorsDeployed,
        CompleteInitialize, FailInitialize
  <2>4. CASE AbortNext(r) \/ StatusNext(r) \/ ShutdownNext(r)
    BY <2>1, <2>2, <2>4
    DEF AbortNext, Abort, ConcludeAbort, StatusNext, PollStatus, QueryHealth,
        ConcludeStatus, ShutdownNext, Shutdown, ShutdownStep
  <2>. QED
    BY <2>3, <2>4
<1>. QED
  BY <1>1, <1>2, <1>3, MoveKeepsWindowInv

\* The strengthening holds in every state.
THEOREM WindowInvariant == Spec => []WindowInv
<1>1. Init => WindowInv
  BY DEF Init, WindowInv, WindowOpensBeforeLoad, StampBeforeLoad, At, NoTime
<1>2. TypeOK /\ WindowInv /\ [Next]_vars => WindowInv'
  <2>. SUFFICES ASSUME TypeOK, WindowInv, [Next]_vars PROVE WindowInv'
    OBVIOUS
  <2>. USE DEF WindowInv, WindowOpensBeforeLoad, StampBeforeLoad, At
  <2>1. CASE UNCHANGED vars
    BY <2>1 DEF vars, stateVars, requestVars
  <2>2. ASSUME NEW r \in Requests,
               InitializeNext(r) \/ StartNext(r) \/ AbortNext(r)
                 \/ StatusNext(r) \/ ShutdownNext(r)
        PROVE  WindowInv'
    <3>. HIDE DEF WindowInv
    <3>. QED
      BY <2>2, HandlerIsLocal, StartKeepsWindowInv, OthersKeepWindowInv
  <2>3. ASSUME NEW role \in Roles, NEW verdict \in {"success", "failed"},
               LoadEnds(role, verdict)
        PROVE  WindowInv'
    <3>1. \A x \in Roles : lg'[x].started = lg[x].started
      BY <2>3 DEF LoadEnds, TypeOK, WorldTypeOK, LoadGenerator
    <3>. QED
      BY <2>3, <3>1 DEF LoadEnds, stateVars, requestVars
  <2>4. CASE Tick
    <3>1. clock \in Int /\ startTime \in Int
      BY ConstantsAssumption DEF TypeOK, StateTypeOK, WorldTypeOK, Times, NoTime
    <3>2. \A q \in Requests : stamp[q] \in Times => stamp[q] \in Int
      BY DEF Times
    <3>. QED
      BY <2>4, <3>1, <3>2 DEF Tick, stateVars, requestVars
  <2>5. CASE Restart
    <3>1. clock \in Int /\ NoTime <= clock
      BY ConstantsAssumption DEF TypeOK, WorldTypeOK, Times, NoTime
    <3>. QED
      BY <2>5, <3>1 DEF Restart
  <2>. QED
    BY <2>1, <2>2, <2>3, <2>4, <2>5 DEF Next
<1>. QED
  BY <1>1, <1>2, TypeCorrect, PTL DEF Spec

\* No load the metrics window is meant to cover starts before the window does,
\* however many /start requests race, fail half-way or leave POSTs behind.
THEOREM WindowSafe == Spec => []WindowOpensBeforeLoad
<1>1. WindowInv => WindowOpensBeforeLoad
  BY DEF WindowInv
<1>. QED
  BY <1>1, WindowInvariant, PTL

---------------------------------------------------------------------------
(* The reservation of a trial *)

\* A step that reserves nothing and in which the request gains no trial.
LEMMA MoveKeepsTrials ==
  ASSUME TrialHeldOnce, NEW r \in Requests, OthersRest(r),
         UNCHANGED <<config, reserved>>,
         HoldsTrial(r)' => HoldsTrial(r) /\ body'[r] = body[r]
  PROVE  TrialHeldOnce'
<1>1. \A q \in Requests : HoldsTrial(q)' => HoldsTrial(q) /\ body'[q] = body[q]
  BY DEF OthersRest, HoldsTrial, At
<1>. QED
  BY <1>1 DEF TrialHeldOnce

LEMMA InitializeKeepsTrials ==
  ASSUME TypeOK, TrialHeldOnce, NEW r \in Requests, InitializeNext(r), OthersRest(r)
  PROVE  TrialHeldOnce'
<1>1. ASSUME NEW t \in Trials, NEW skip \in SUBSET {"kubernetes", "globeco"},
             Initialize(r, t, skip)
      PROVE  TrialHeldOnce'
  <2>1. ~HoldsTrial(r)'
    BY <1>1 DEF Initialize, HoldsTrial, At, Goto, TypeOK, RequestTypeOK
  <2>. QED
    BY <1>1, <2>1, MoveKeepsTrials DEF Initialize, stateVars
<1>2. CASE ReserveTrial(r)
  <2>1. body[r].trial \in Trials
    BY <1>2 DEF ReserveTrial, TypeOK, RequestTypeOK, At, InitStages
  <2>2. /\ UNCHANGED <<config, body>>
        /\ reserved' = reserved \union {body[r].trial}
        /\ body[r].trial \notin reserved
    BY <1>2 DEF ReserveTrial, Proceed
  <2>3. config # body[r].trial
    BY <2>1, <2>2, ConstantsAssumption DEF TrialHeldOnce
  <2>4. \A q \in Requests \ {r} :
          HoldsTrial(q)' => HoldsTrial(q) /\ body[q].trial # body[r].trial
    BY <2>2 DEF TrialHeldOnce, OthersRest, HoldsTrial, At
  <2>. QED
    BY <2>2, <2>3, <2>4 DEF TrialHeldOnce
<1>3. CASE ReserveAnswerLost(r)
  <2>1. ~HoldsTrial(r)'
    BY <1>3, FinishIsLocal DEF ReserveAnswerLost, HoldsTrial, At, InitStages
  <2>2. reserved \subseteq reserved' /\ UNCHANGED config
    BY <1>3 DEF ReserveAnswerLost, stateVars
  <2>3. \A q \in Requests : HoldsTrial(q)' => HoldsTrial(q) /\ body'[q] = body[q]
    BY <2>1 DEF OthersRest, HoldsTrial, At
  <2>. QED
    BY <2>2, <2>3 DEF TrialHeldOnce
<1>4. CASE InstallKubernetes(r) \/ InstallGlobeco(r)
  <2>1. HoldsTrial(r)
    BY <1>4 DEF InstallKubernetes, InstallGlobeco, HoldsTrial, At, InitStages
  <2>. QED
    BY <1>4, <2>1, MoveKeepsTrials DEF InstallKubernetes, InstallGlobeco, Proceed
<1>5. ASSUME NEW role \in Roles, RunContainer(r, role) \/ VerifyContainer(r, role)
      PROVE  TrialHeldOnce'
  <2>1. HoldsTrial(r)
    BY <1>5 DEF RunContainer, VerifyContainer, HoldsTrial, At, InitStages
  <2>. QED
    BY <1>5, <2>1, MoveKeepsTrials DEF RunContainer, VerifyContainer, stateVars
<1>6. CASE LoadGeneratorsDeployed(r)
  <2>1. HoldsTrial(r)
    BY <1>6 DEF LoadGeneratorsDeployed, HoldsTrial, At, InitStages
  <2>. QED
    BY <1>6, <2>1, MoveKeepsTrials DEF LoadGeneratorsDeployed
<1>7. CASE CompleteInitialize(r)
  <2>1. HoldsTrial(r) /\ ~HoldsTrial(r)'
    BY <1>7, FinishIsLocal DEF CompleteInitialize, HoldsTrial, At, InitStages
  <2>2. config' = body[r].trial /\ UNCHANGED reserved
    BY <1>7 DEF CompleteInitialize
  <2>3. \A q \in Requests : HoldsTrial(q)' => q # r /\ HoldsTrial(q) /\ body'[q] = body[q]
    BY <2>1 DEF OthersRest, HoldsTrial, At
  <2>. QED
    BY <2>1, <2>2, <2>3 DEF TrialHeldOnce
<1>8. CASE FailInitialize(r)
  <2>1. ~HoldsTrial(r)'
    BY <1>8, FinishIsLocal DEF FailInitialize, HoldsTrial, At, InitStages
  <2>. QED
    BY <1>8, <2>1, MoveKeepsTrials DEF FailInitialize, stateVars
<1>. QED
  BY <1>1, <1>2, <1>3, <1>4, <1>5, <1>6, <1>7, <1>8 DEF InitializeNext

\* The other handlers reserve nothing and configure nothing.
LEMMA OtherGainsNothing ==
  ASSUME TypeOK, NEW r \in Requests,
         StartNext(r) \/ AbortNext(r) \/ StatusNext(r) \/ ShutdownNext(r)
  PROVE  /\ UNCHANGED <<config, reserved>>
         /\ HoldsTrial(r)' => HoldsTrial(r) /\ body'[r] = body[r]
<1>. USE DEF Goto, TypeOK, RequestTypeOK
<1>1. (pc'[r] = pc[r] /\ body'[r] = body[r]) \/ pc'[r] \notin InitStages
  <2>1. CASE StartNext(r)
    BY <2>1, FinishIsLocal
    DEF StartNext, Start, DropUnhandled, PostStart, StartAnswered, StartRefused,
        CheckRunning, CheckRunningFails, ConfirmStart, InitStages
  <2>2. CASE AbortNext(r)
    BY <2>2, FinishIsLocal DEF AbortNext, Abort, PostAbort, ConcludeAbort, InitStages
  <2>3. CASE StatusNext(r)
    BY <2>3, FinishIsLocal
    DEF StatusNext, PollStatus, QueryHealth, ConcludeStatus, InitStages
  <2>4. CASE ShutdownNext(r)
    BY <2>4, FinishIsLocal DEF ShutdownNext, Shutdown, ShutdownStep, InitStages
  <2>. QED
    BY <2>1, <2>2, <2>3, <2>4
<1>2. UNCHANGED <<config, reserved>>
  BY DEF StartNext, Start, DropUnhandled, PostStart, CheckRunning, CheckRunningFails,
         ConfirmStart, AbortNext, Abort, PostAbort, ConcludeAbort, StatusNext, PollStatus,
         QueryHealth, ConcludeStatus, ShutdownNext, Shutdown, ShutdownStep, stateVars
<1>. QED
  BY <1>1, <1>2 DEF HoldsTrial, At

LEMMA OthersKeepTrials ==
  ASSUME TypeOK, TrialHeldOnce, NEW r \in Requests, OthersRest(r),
         StartNext(r) \/ AbortNext(r) \/ StatusNext(r) \/ ShutdownNext(r)
  PROVE  TrialHeldOnce'
  BY OtherGainsNothing, MoveKeepsTrials

\* However many /initialize requests race for it, whatever answers of S3 are
\* lost and however often the process restarts, a trial's S3 prefix belongs to
\* at most one of them, and to none but the configured one once it completed.
THEOREM TrialSafe == Spec => []TrialHeldOnce
<1>1. Init => TrialHeldOnce
  BY DEF Init, TrialHeldOnce, HoldsTrial, At, InitStages
<1>2. TypeOK /\ TrialHeldOnce /\ [Next]_vars => TrialHeldOnce'
  <2>. SUFFICES ASSUME TypeOK, TrialHeldOnce, [Next]_vars PROVE TrialHeldOnce'
    OBVIOUS
  <2>1. ASSUME UNCHANGED <<config, reserved, pc, body>>
        PROVE  TrialHeldOnce'
    BY <2>1 DEF TrialHeldOnce, HoldsTrial, At
  <2>2. ASSUME NEW r \in Requests,
               InitializeNext(r) \/ StartNext(r) \/ AbortNext(r)
                 \/ StatusNext(r) \/ ShutdownNext(r)
        PROVE  TrialHeldOnce'
    BY <2>2, HandlerIsLocal, InitializeKeepsTrials, OthersKeepTrials
  <2>3. CASE Restart
    BY <2>3 DEF Restart, TrialHeldOnce, HoldsTrial, At, InitStages
  <2>. QED
    BY <2>1, <2>2, <2>3 DEF Next, LoadEnds, Tick, vars, stateVars, requestVars
<1>. QED
  BY <1>1, <1>2, TypeCorrect, PTL DEF Spec

\* The trial is reserved, and no /initialize under way will configure it.
SpentTrial(t) ==
  /\ t \in reserved
  /\ \A r \in Requests : HoldsTrial(r) => body[r].trial # t

\* A trial that is spent stays so, and is not configured again.
LEMMA SpentTrialStep ==
  ASSUME TypeOK, NEW t \in Trials, SpentTrial(t), [Next]_vars
  PROVE  /\ SpentTrial(t)'
         /\ config # t => config' # t
<1>. USE DEF SpentTrial, HoldsTrial, TypeOK, RequestTypeOK
<1>1. CASE UNCHANGED <<config, reserved, pc, body>>
  BY <1>1 DEF At
<1>2. ASSUME NEW r \in Requests, UNCHANGED <<config, reserved>>, OthersRest(r),
             HoldsTrial(r)' => HoldsTrial(r) /\ body'[r] = body[r]
      PROVE  SpentTrial(t)'
  BY <1>2 DEF OthersRest, At
<1>3. ASSUME NEW r \in Requests, InitializeNext(r)
      PROVE  /\ SpentTrial(t)'
             /\ config # t => config' # t
  <2>1. OthersRest(r)
    BY <1>3, HandlerIsLocal
  <2>2. ASSUME NEW u \in Trials, NEW skip \in SUBSET {"kubernetes", "globeco"},
               Initialize(r, u, skip)
        PROVE  SpentTrial(t)' /\ UNCHANGED config
    BY <1>2, <2>1, <2>2 DEF Initialize, At, Goto, stateVars
  <2>3. CASE ReserveTrial(r)
    <3>1. body[r].trial # t /\ UNCHANGED <<config, body>> /\ reserved \subseteq reserved'
      BY <2>3 DEF ReserveTrial, Proceed
    <3>. QED
      BY <2>1, <3>1 DEF OthersRest, At
  <2>4. CASE ReserveAnswerLost(r)
    <3>1. ~HoldsTrial(r)' /\ UNCHANGED config /\ reserved \subseteq reserved'
      BY <2>4, FinishIsLocal DEF ReserveAnswerLost, At, InitStages, stateVars
    <3>. QED
      BY <2>1, <3>1 DEF OthersRest, At
  <2>5. ASSUME \/ InstallKubernetes(r) \/ InstallGlobeco(r) \/ LoadGeneratorsDeployed(r)
               \/ \E role \in Roles : RunContainer(r, role) \/ VerifyContainer(r, role)
        PROVE  SpentTrial(t)' /\ UNCHANGED config
    <3>1. HoldsTrial(r)
      BY <2>5
      DEF InstallKubernetes, InstallGlobeco, LoadGeneratorsDeployed, RunContainer,
          VerifyContainer, At, InitStages
    <3>2. UNCHANGED <<config, reserved, body>>
      BY <2>5
      DEF InstallKubernetes, InstallGlobeco, LoadGeneratorsDeployed, RunContainer,
          VerifyContainer, Proceed, stateVars
    <3>. QED
      BY <1>2, <2>1, <3>1, <3>2
  <2>6. CASE CompleteInitialize(r)
    <3>1. HoldsTrial(r) /\ ~HoldsTrial(r)'
      BY <2>6, FinishIsLocal DEF CompleteInitialize, At, InitStages
    <3>2. config' = body[r].trial /\ UNCHANGED reserved
      BY <2>6 DEF CompleteInitialize
    <3>. QED
      BY <2>1, <3>1, <3>2 DEF OthersRest, At
  <2>7. CASE FailInitialize(r)
    <3>1. ~HoldsTrial(r)'
      BY <2>7, FinishIsLocal DEF FailInitialize, At, InitStages
    <3>. QED
      BY <1>2, <2>1, <2>7, <3>1 DEF FailInitialize, stateVars
  <2>. QED
    BY <1>3, <2>2, <2>3, <2>4, <2>5, <2>6, <2>7 DEF InitializeNext
<1>4. ASSUME NEW r \in Requests,
             StartNext(r) \/ AbortNext(r) \/ StatusNext(r) \/ ShutdownNext(r)
      PROVE  SpentTrial(t)' /\ UNCHANGED config
  BY <1>2, <1>4, HandlerIsLocal, OtherGainsNothing
<1>5. CASE Restart
  BY <1>5, ConstantsAssumption DEF Restart, At, InitStages
<1>. QED
  BY <1>1, <1>3, <1>4, <1>5 DEF Next, LoadEnds, Tick, vars, stateVars, requestVars

Configured(t) == config = t

\* A trial is configured at most once, over all the lives of the process: once
\* its configuration is gone, replaced by another /initialize or forgotten in a
\* restart, no /initialize brings it back.  So everything that is written below
\* the trial's S3 prefix is of one installation, which Snapshot relies on.
THEOREM ConfiguredOnce ==
  ASSUME NEW t \in Trials
  PROVE  Spec => [](Configured(t) => [](~Configured(t) => []~Configured(t)))
<1>1. TrialHeldOnce /\ Configured(t) => SpentTrial(t)
  BY ConstantsAssumption DEF TrialHeldOnce, SpentTrial, Configured
<1>2. /\ TypeOK /\ SpentTrial(t) /\ [Next]_vars => SpentTrial(t)'
      /\ TypeOK /\ SpentTrial(t) /\ [Next]_vars /\ ~Configured(t) => ~Configured(t)'
  BY SpentTrialStep DEF Configured
<1>. QED
  BY <1>1, <1>2, TypeCorrect, TrialSafe, PTL DEF Spec

---------------------------------------------------------------------------
(* The contract of TrialWindow *)

\* A configuration and a status go together (with InstallInv, both ways).
ConfigMeansInitialized == config # NoTrial => status # "not-initialized"

\* What becomes of the window in the life of a process.
WindowMoves ==
  \/ Window!InitializeCompletes
  \/ Window!StartConfirmed
  \/ Window!VerdictReached

\* What a step of a handler may do to the window, given that a handler which
\* writes it has found the Runner initialized.
LEMMA HandlerKeepsWindow ==
  ASSUME TypeOK, InstallInv, WindowInv, ConfigMeansInitialized, NEW r \in Requests,
         InitializeNext(r) \/ StartNext(r) \/ AbortNext(r)
           \/ StatusNext(r) \/ ShutdownNext(r)
  PROVE  /\ WindowMoves \/ UNCHANGED Window!windowVars
         /\ ConfigMeansInitialized'
<1>. USE DEF ConfigMeansInitialized
<1>1. CASE InitializeNext(r)
  <2>1. CASE CompleteInitialize(r)
    <3>1. Window!InitializeCompletes
      BY <2>1 DEF CompleteInitialize, Window!InitializeCompletes, Phase
    <3>. QED
      BY <2>1, <3>1 DEF CompleteInitialize, WindowMoves
  <2>2. CASE ~CompleteInitialize(r)
    <3>1. UNCHANGED <<status, config, startTime, endTime>>
      BY <1>1, <2>2
      DEF InitializeNext, Initialize, ReserveTrial, ReserveAnswerLost, InstallKubernetes,
          InstallGlobeco, RunContainer, VerifyContainer, LoadGeneratorsDeployed,
          FailInitialize, Proceed, stateVars
    <3>. QED
      BY <3>1 DEF Window!windowVars, Phase
  <2>. QED
    BY <2>1, <2>2
<1>2. CASE StartNext(r)
  <2>1. CASE ConfirmStart(r)
    <3>1. status # "not-initialized"
      BY <2>1 DEF ConfirmStart, InstallInv, HandlersHaveConfig, At
    <3>2. Phase # "not-initialized"
      BY <3>1 DEF Phase
    <3>3. Phase' = "running" /\ UNCHANGED <<config, endTime>> /\ status' = "running"
      BY <2>1 DEF ConfirmStart, Phase
    <3>4. startTime' \in Times
      BY <2>1 DEF ConfirmStart, WindowInv, StampBeforeLoad, At
    <3>. QED
      BY <3>2, <3>3, <3>4 DEF Window!StartConfirmed, WindowMoves
  <2>2. CASE ~ConfirmStart(r)
    <3>1. UNCHANGED stateVars
      BY <1>2, <2>2
      DEF StartNext, Start, DropUnhandled, PostStart, CheckRunning, CheckRunningFails
    <3>. QED
      BY <3>1 DEF Window!windowVars, Phase, stateVars
  <2>. QED
    BY <2>1, <2>2
<1>3. CASE AbortNext(r) \/ StatusNext(r)
  <2>1. CASE ConcludeAbort(r) \/ ConcludeStatus(r)
    <3>1. config # NoTrial /\ status # "not-initialized"
      BY <2>1 DEF ConcludeAbort, ConcludeStatus, InstallInv, HandlersHaveConfig, At
    <3>2. Phase # "not-initialized"
      BY <3>1 DEF Phase
    <3>3. UNCHANGED <<config, startTime>>
      BY <2>1 DEF ConcludeAbort, ConcludeStatus
    <3>4. \A verdict : EndTimes(r, verdict) \subseteq Times
      BY DEF EndTimes, TypeOK, RequestTypeOK, Report
    <3>5. \/ UNCHANGED <<status, endTime>>
          \/ /\ status' \in {"success", "failed", "aborted"}
             /\ endTime' \in Times \union {endTime}
      BY <2>1, <3>4
      DEF ConcludeAbort, ConcludeStatus, RecordEnd, LatestOf, EarliestOf, TypeOK, WorldTypeOK
    <3>6. CASE UNCHANGED <<status, endTime>>
      BY <3>1, <3>3, <3>6 DEF Window!windowVars, Phase
    <3>7. CASE status' \in {"success", "failed", "aborted"}
               /\ endTime' \in Times \union {endTime}
      <4>1. Phase' = "ended"
        BY <3>7 DEF Phase
      <4>. QED
        BY <3>2, <3>3, <3>7, <4>1 DEF Window!VerdictReached, WindowMoves
    <3>. QED
      BY <3>5, <3>6, <3>7
  <2>2. CASE ~(ConcludeAbort(r) \/ ConcludeStatus(r))
    <3>1. UNCHANGED stateVars
      BY <1>3, <2>2
      DEF AbortNext, Abort, PostAbort, StatusNext, PollStatus, QueryHealth
    <3>. QED
      BY <3>1 DEF Window!windowVars, Phase, stateVars
  <2>. QED
    BY <2>1, <2>2
<1>4. CASE ShutdownNext(r)
  <2>1. UNCHANGED stateVars
    BY <1>4 DEF ShutdownNext, Shutdown, ShutdownStep
  <2>. QED
    BY <2>1 DEF Window!windowVars, Phase, stateVars
<1>. QED
  BY <1>1, <1>2, <1>3, <1>4

\* Of all the steps of the lifecycle only a restart does anything else to it.
LEMMA StepKeepsWindow ==
  ASSUME TypeOK, InstallInv, WindowInv, ConfigMeansInitialized, Next
  PROVE  /\ WindowMoves \/ UNCHANGED Window!windowVars \/ (Restart /\ Window!RunnerRestarts)
         /\ ConfigMeansInitialized'
<1>1. ASSUME NEW r \in Requests,
             InitializeNext(r) \/ StartNext(r) \/ AbortNext(r)
               \/ StatusNext(r) \/ ShutdownNext(r)
      PROVE  /\ WindowMoves \/ UNCHANGED Window!windowVars
             /\ ConfigMeansInitialized'
  BY <1>1, HandlerKeepsWindow
<1>2. ASSUME \/ \E role \in Roles, verdict \in {"success", "failed"} :
                   LoadEnds(role, verdict)
             \/ Tick
      PROVE  UNCHANGED Window!windowVars /\ ConfigMeansInitialized'
  BY <1>2 DEF LoadEnds, Tick, stateVars, Window!windowVars, Phase, ConfigMeansInitialized
<1>3. ASSUME Restart
      PROVE  Window!RunnerRestarts /\ ConfigMeansInitialized'
  BY <1>3 DEF Restart, Window!RunnerRestarts, Phase, ConfigMeansInitialized
<1>. QED
  BY <1>1, <1>2, <1>3 DEF Next

LEMMA ConfigInitialized == Spec => []ConfigMeansInitialized
<1>1. Init => ConfigMeansInitialized
  BY DEF Init, ConfigMeansInitialized
<1>2. TypeOK /\ InstallInv /\ WindowInv /\ ConfigMeansInitialized /\ [Next]_vars
        => ConfigMeansInitialized'
  BY StepKeepsWindow DEF vars, stateVars, ConfigMeansInitialized
<1>. QED
  BY <1>1, <1>2, TypeCorrect, InstallInvariant, WindowInvariant, PTL DEF Spec

\* The lifecycle, however its handlers overlap and fail, keeps the contract
\* that the export endpoints run beside.
THEOREM WindowKept == Spec => KeepsWindow
<1>1. Init => Window!WindowInit
  BY DEF Init, Window!WindowInit, Phase
<1>2. TypeOK /\ InstallInv /\ WindowInv /\ ConfigMeansInitialized /\ [Next]_vars
        => [Window!WindowNext]_(Window!windowVars)
  BY StepKeepsWindow
  DEF WindowMoves, Window!WindowNext, vars, stateVars, Window!windowVars, Phase
<1>. QED
  BY <1>1, <1>2, TypeCorrect, InstallInvariant, WindowInvariant, ConfigInitialized, PTL
  DEF Spec, KeepsWindow, Window!WindowSpec

---------------------------------------------------------------------------
(* No handler goes round in circles *)

RequestNext(r) ==
  InitializeNext(r) \/ StartNext(r) \/ AbortNext(r) \/ StatusNext(r) \/ ShutdownNext(r)

\* How many stages a handler may still go through, the present one included.
Ahead ==
  [idle |-> 0,
   init_images |-> 1, init_verify |-> 2, init_containers |-> 3, init_globeco |-> 4,
   init_kubernetes |-> 5, init_reserve |-> 6,
   start_check |-> 1, start_post |-> 2, start_orphans |-> 1, unhandled |-> 1,
   abort_post |-> 1, status_poll |-> 1,
   shutdown_pvc |-> 1, shutdown_prometheus |-> 2, shutdown_globeco |-> 3]

\* The handler comes to a later stage, or has one answer less to wait for.
Advances(r) ==
  \/ Ahead[pc'[r]] < Ahead[pc[r]]
  \/ /\ pc'[r] = pc[r]
     /\ pending'[r] \subseteq pending[r]
     /\ pending'[r] # pending[r]

LEMMA FinishAdvances ==
  ASSUME TypeOK, NEW r \in Requests, ~At(r, {"idle"}), Finish(r)
  PROVE  Advances(r)
<1>1. pc[r] \in Stages \ {"idle"} /\ pc'[r] = "idle"
  BY FinishIsLocal DEF At, TypeOK, RequestTypeOK
<1>2. Ahead[pc[r]] \in 1..6
  BY <1>1 DEF Ahead, Stages, InitStages, StartStages, ShutdownStages
<1>. QED
  BY <1>1, <1>2 DEF Advances, Ahead

LEMMA SettleAdvances ==
  ASSUME TypeOK, NEW r \in Requests, NEW role \in pending[r],
         Settle(r, role), pc'[r] = pc[r]
  PROVE  Advances(r)
BY DEF Settle, Advances, TypeOK, RequestTypeOK

LEMMA GotoAdvances ==
  ASSUME TypeOK, NEW r \in Requests, NEW stage, Goto(r, stage), Ahead[stage] < Ahead[pc[r]]
  PROVE  Advances(r)
BY DEF Goto, Advances, TypeOK, RequestTypeOK

LEMMA RequestAdvances ==
  ASSUME TypeOK, NEW r \in Requests, ~At(r, {"idle"}), RequestNext(r)
  PROVE  Advances(r)
<1>. USE FinishAdvances, SettleAdvances DEF At
<1>1. CASE InitializeNext(r)
  <2>1. ASSUME NEW t \in Trials, NEW skip \in SUBSET {"kubernetes", "globeco"},
               Initialize(r, t, skip)
        PROVE  FALSE
    BY <2>1 DEF Initialize
  <2>2. CASE ReserveTrial(r) \/ InstallKubernetes(r) \/ InstallGlobeco(r)
    BY <2>2, GotoAdvances
    DEF ReserveTrial, InstallKubernetes, InstallGlobeco, Proceed, Ahead
  <2>3. ASSUME NEW role \in Roles, RunContainer(r, role)
        PROVE  Advances(r)
    BY <2>3, GotoAdvances DEF RunContainer, Ahead
  <2>4. ASSUME NEW role \in Roles, VerifyContainer(r, role)
        PROVE  Advances(r)
    BY <2>4 DEF VerifyContainer
  <2>5. CASE LoadGeneratorsDeployed(r)
    BY <2>5, GotoAdvances DEF LoadGeneratorsDeployed, Ahead
  <2>6. CASE ReserveAnswerLost(r) \/ CompleteInitialize(r) \/ FailInitialize(r)
    BY <2>6 DEF ReserveAnswerLost, CompleteInitialize, FailInitialize
  <2>. QED
    BY <1>1, <2>1, <2>2, <2>3, <2>4, <2>5, <2>6 DEF InitializeNext
<1>2. CASE StartNext(r)
  <2>1. ASSUME NEW role \in Roles, PostStart(r, role)
        PROVE  Advances(r)
    <3>1. CASE StartAnswered(r, role)
      BY <2>1, <3>1, GotoAdvances DEF PostStart, StartAnswered, Ahead
    <3>2. CASE StartRefused(r, role)
      <4>1. CASE pc[r] = "start_orphans"
        BY <2>1, <3>2, <4>1 DEF PostStart, StartRefused, Goto, TypeOK, RequestTypeOK
      <4>2. CASE pc[r] = "start_post"
        BY <2>1, <3>2, <4>2, GotoAdvances DEF PostStart, StartRefused, Ahead
      <4>. QED
        BY <2>1, <4>1, <4>2 DEF PostStart
    <3>. QED
      BY <2>1, <3>1, <3>2 DEF PostStart
  <2>2. ASSUME NEW role \in Roles, CheckRunning(r, role)
        PROVE  Advances(r)
    BY <2>2 DEF CheckRunning
  <2>. QED
    BY <1>2, <2>1, <2>2 DEF StartNext, Start, DropUnhandled, CheckRunningFails, ConfirmStart
<1>3. CASE AbortNext(r)
  BY <1>3 DEF AbortNext, Abort, PostAbort, ConcludeAbort
<1>4. CASE StatusNext(r)
  BY <1>4 DEF StatusNext, PollStatus, QueryHealth, ConcludeStatus
<1>5. CASE ShutdownNext(r)
  BY <1>5, GotoAdvances DEF ShutdownNext, Shutdown, ShutdownStep, Ahead
<1>. QED
  BY <1>1, <1>2, <1>3, <1>4, <1>5 DEF RequestNext

\* Every step of a request that was accepted takes it further, and no step of
\* anybody else takes it back.
RequestsAdvance ==
  \A r \in Requests : ~At(r, {"idle"}) =>
    /\ RequestNext(r) => Advances(r)
    /\ Advances(r) \/ UNCHANGED <<pc[r], pending[r]>>

\* Whatever the other requests, the load generators and S3 do, a handler goes
\* through six stages at most, and in each takes at most one answer of each
\* load generator.  So a request whose awaits end is answered after finitely
\* many of them, and what EveryRequestEnds adds to this is the fairness alone.
THEOREM NoEndlessRequest == Spec => [][RequestsAdvance]_vars
<1>1. ASSUME TypeOK, Next, NEW r \in Requests, ~At(r, {"idle"})
      PROVE  /\ RequestNext(r) => Advances(r)
             /\ Advances(r) \/ UNCHANGED <<pc[r], pending[r]>>
  <2>1. CASE RequestNext(r)
    BY <1>1, <2>1, RequestAdvances
  <2>2. ASSUME NEW q \in Requests \ {r}, RequestNext(q)
        PROVE  UNCHANGED <<pc[r], pending[r]>>
    BY <1>1, <2>2, HandlerIsLocal DEF RequestNext, OthersRest
  <2>3. CASE Restart
    <3>1. pc[r] \in Stages \ {"idle"} /\ pc'[r] = "idle"
      BY <1>1, <2>3 DEF Restart, At, TypeOK, RequestTypeOK
    <3>2. Ahead[pc[r]] \in 1..6
      BY <3>1 DEF Ahead, Stages, InitStages, StartStages, ShutdownStages
    <3>. QED
      BY <3>1, <3>2 DEF Advances, Ahead
  <2>. QED
    BY <1>1, <2>1, <2>2, <2>3 DEF Next, RequestNext, LoadEnds, Tick, requestVars
<1>2. TypeOK /\ [Next]_vars => [RequestsAdvance]_vars
  BY <1>1 DEF RequestsAdvance
<1>. QED
  BY <1>2, TypeCorrect, PTL DEF Spec
=============================================================================

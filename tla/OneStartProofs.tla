--------------------------- MODULE OneStartProofs ---------------------------
(***************************************************************************)
(* What holds of the verdict and of the metrics window until the clients   *)
(* let a second /start through, whatever else they do, whatever fails and  *)
(* however often the process restarts.  (After it neither holds: the       *)
(* end_time of the first stays, and a late verdict meets new loads.  Only  *)
(* an abort puts the window in order again.)                               *)
(***************************************************************************)
EXTENDS BenchmarkLifecycleProofs, WellFoundedInduction

---------------------------------------------------------------------------
(* The earliest and the latest of some times *)

\* A set of natural numbers that is not empty has a least element.
LEMMA LeastNatural ==
  ASSUME NEW S \in SUBSET Nat, S # {}
  PROVE  \E x \in S : \A y \in S : x <= y
<1>1. PICK x \in S : \A y \in S : <<y, x>> \notin OpToRel(<, Nat)
  BY WFMin, NatLessThanWellFounded, Zenon
<1>2. \A y \in S : ~(y < x)
  BY <1>1 DEF OpToRel
<1>. QED
  BY <1>2

\* So the earliest of some times exists,
LEMMA EarliestExists ==
  ASSUME NEW S \in SUBSET Times, S # {}
  PROVE  EarliestOf(S) # {}
<1>1. S \in SUBSET Nat
  BY ConstantsAssumption DEF Times
<1>2. PICK x \in S : \A y \in S : x <= y
  BY <1>1, LeastNatural
<1>. QED
  BY <1>2 DEF EarliestOf

\* and the latest, because the clock is bounded.
LEMMA LatestExists ==
  ASSUME NEW S \in SUBSET Times, S # {}
  PROVE  LatestOf(S) # {}
<1>. DEFINE D == {n \in Nat : \E x \in S : n = MaxClock - x}
<1>1. \A x \in S : MaxClock - x \in Nat
  BY ConstantsAssumption DEF Times
<1>2. D \in SUBSET Nat /\ D # {}
  BY <1>1
<1>3. PICK d \in D : \A y \in D : d <= y
  <2>. HIDE DEF D
  <2>. QED
    BY <1>2, LeastNatural
<1>4. PICK x \in S : \A y \in S : MaxClock - x <= MaxClock - y
  BY <1>1, <1>3
<1>5. \A y \in S : y <= x
  BY <1>4, ConstantsAssumption DEF Times
<1>. QED
  BY <1>5 DEF LatestOf

---------------------------------------------------------------------------
(* What one step does to each piece of the state *)

Ended == {"success", "failed", "aborted"}

\* A POST /start of request r may still launch the loads it is waiting for.
Launching(r) == At(r, {"start_post", "start_orphans"})

\* A load generator gets a container, a load, or the end of its load.
LoadStep(role) ==
  \/ lg'[role] = lg[role]
  \/ /\ lg[role].status = "absent"
     /\ lg'[role].status = "not-started"
     /\ lg'[role].end = lg[role].end
  \/ /\ \E r \in Requests :
          /\ Launching(r) /\ role \in pending[r]
          /\ ~(Launching(r)' /\ role \in pending'[r])
     /\ lg'[role].status = "running"
     /\ lg'[role].end = NoTime
  \/ /\ lg[role].status = "running"
     /\ lg'[role].status \in Ended
     /\ lg'[role].end = clock

LEMMA HandlerLoadStep ==
  ASSUME TypeOK, NEW r \in Requests,
         InitializeNext(r) \/ StartNext(r) \/ AbortNext(r)
           \/ StatusNext(r) \/ ShutdownNext(r)
  PROVE  \A role \in Roles : LoadStep(role)
<1>1. ASSUME NEW x \in Roles, RunContainer(r, x)
      PROVE  \A role \in Roles : LoadStep(role)
  BY <1>1 DEF RunContainer, LoadStep, TypeOK, WorldTypeOK, LoadGenerator
<1>2. ASSUME NEW x \in Roles, PostAbort(r, x)
      PROVE  \A role \in Roles : LoadStep(role)
  BY <1>2 DEF PostAbort, StopLoad, LoadStep, Ended, TypeOK, WorldTypeOK, LoadGenerator
<1>3. ASSUME NEW x \in Roles, PostStart(r, x)
      PROVE  \A role \in Roles : LoadStep(role)
  <2>1. CASE UNCHANGED lg
    BY <2>1 DEF LoadStep
  <2>2. CASE LaunchLoad(x) /\ (StartAnswered(r, x) \/ StartRefused(r, x))
    <3>1. ~(Launching(r)' /\ x \in pending'[r])
      BY <1>3, <2>2, FinishIsLocal
      DEF PostStart, StartAnswered, StartRefused, Settle, Goto, Launching, At,
          TypeOK, RequestTypeOK
    <3>2. Launching(r) /\ x \in pending[r]
      BY <1>3 DEF PostStart, Launching
    <3>. QED
      BY <2>2, <3>1, <3>2 DEF LaunchLoad, LoadStep, TypeOK, WorldTypeOK
  <2>. QED
    BY <1>3, <2>1, <2>2 DEF PostStart
<1>4. CASE UNCHANGED lg
  BY <1>4 DEF LoadStep
<1>5. CASE InitializeNext(r)
  BY <1>1, <1>4, <1>5
  DEF InitializeNext, Initialize, ReserveTrial, ReserveAnswerLost, InstallKubernetes,
      InstallGlobeco, VerifyContainer, LoadGeneratorsDeployed, CompleteInitialize,
      FailInitialize
<1>6. CASE StartNext(r)
  BY <1>3, <1>4, <1>6
  DEF StartNext, Start, DropUnhandled, CheckRunning, CheckRunningFails, ConfirmStart
<1>7. CASE AbortNext(r) \/ StatusNext(r) \/ ShutdownNext(r)
  BY <1>2, <1>4, <1>7
  DEF AbortNext, Abort, ConcludeAbort, StatusNext, PollStatus, QueryHealth,
      ConcludeStatus, ShutdownNext, Shutdown, ShutdownStep
<1>. QED
  BY <1>5, <1>6, <1>7

LEMMA EveryLoadStep ==
  ASSUME TypeOK, [Next]_vars
  PROVE  \A role \in Roles : LoadStep(role)
<1>1. CASE UNCHANGED lg
  BY <1>1 DEF LoadStep
<1>2. ASSUME NEW x \in Roles, NEW verdict \in {"success", "failed"}, LoadEnds(x, verdict)
      PROVE  \A role \in Roles : LoadStep(role)
  BY <1>2 DEF LoadEnds, LoadStep, Ended, TypeOK, WorldTypeOK, LoadGenerator
<1>. QED
  BY <1>1, <1>2, HandlerLoadStep DEF Next, Tick, Restart, vars

\* What a request has heard is forgotten, or is a report of how the load
\* generator is after the step.
HeardStep(q, role) ==
  \/ heard'[q][role] = heard[q][role]
  \/ heard'[q][role].status \notin Ended /\ heard'[q][role].end \in {NoTime, lg[role].end}
  \/ /\ heard'[q][role].status = lg'[role].status
     /\ heard'[q][role].end = lg'[role].end

LEMMA EveryHeardStep ==
  ASSUME TypeOK, [Next]_vars
  PROVE  \A q \in Requests, role \in Roles : HeardStep(q, role)
<1>. USE DEF TypeOK, RequestTypeOK
<1>1. CASE UNCHANGED heard
  BY <1>1 DEF HeardStep
<1>2. ASSUME NEW r \in Requests, Finish(r)
      PROVE  \A q \in Requests, role \in Roles : HeardStep(q, role)
  BY <1>2 DEF Finish, Silence, HeardStep, Ended
<1>3. ASSUME NEW r \in Requests, NEW x \in Roles, PostAbort(r, x)
      PROVE  \A q \in Requests, role \in Roles : HeardStep(q, role)
  <2>1. CASE Hear(r, x, Unreachable)
    BY <2>1 DEF Hear, Unreachable, HeardStep, Ended
  <2>2. CASE StopLoad(x) /\ Hear(r, x, [status |-> "aborted", end |-> clock])
    <3>1. lg'[x].status = "aborted" /\ lg'[x].end = clock
      BY <2>2 DEF StopLoad, WorldTypeOK, LoadGenerator
    <3>. QED
      BY <2>2, <3>1 DEF Hear, HeardStep
  <2>. QED
    BY <1>3, <2>1, <2>2 DEF PostAbort
<1>4. ASSUME NEW r \in Requests, NEW x \in Roles, QueryHealth(r, x)
      PROVE  \A q \in Requests, role \in Roles : HeardStep(q, role)
  BY <1>4 DEF QueryHealth, Hear, Unreachable, HeardStep, Ended
<1>5. CASE Restart
  BY <1>5 DEF Restart, Silence, HeardStep, Ended
<1>6. ASSUME NEW r \in Requests,
             InitializeNext(r) \/ StartNext(r) \/ ShutdownNext(r)
      PROVE  UNCHANGED heard \/ Finish(r)
  <2>1. CASE InitializeNext(r)
    BY <2>1
    DEF InitializeNext, Initialize, ReserveTrial, ReserveAnswerLost, InstallKubernetes,
        InstallGlobeco, Proceed, RunContainer, VerifyContainer, LoadGeneratorsDeployed,
        CompleteInitialize, FailInitialize
  <2>2. CASE StartNext(r)
    BY <2>2
    DEF StartNext, Start, DropUnhandled, PostStart, StartAnswered, StartRefused,
        CheckRunning, CheckRunningFails, ConfirmStart
  <2>3. CASE ShutdownNext(r)
    BY <2>3 DEF ShutdownNext, Shutdown, ShutdownStep
  <2>. QED
    BY <1>6, <2>1, <2>2, <2>3
<1>7. ASSUME NEW r \in Requests, AbortNext(r) \/ StatusNext(r)
      PROVE  \A q \in Requests, role \in Roles : HeardStep(q, role)
  BY <1>1, <1>2, <1>3, <1>4, <1>7
  DEF AbortNext, Abort, ConcludeAbort, StatusNext, PollStatus, ConcludeStatus
<1>. QED
  BY <1>1, <1>2, <1>5, <1>6, <1>7 DEF Next, LoadEnds, Tick, vars, requestVars

\* A request is past the guard of /start, or of /abort, only if it passes it
\* now or was past it before; until its POST is answered it keeps its stamp.
StageStep(q) ==
  /\ At(q, StartStages)' => At(q, StartStages) /\ stamp'[q] = stamp[q]
  /\ Launching(q)' => Launching(q) /\ pending'[q] \subseteq pending[q]
  /\ At(q, {"abort_post"})' => At(q, {"abort_post"}) \/ status = "running"

LEMMA EveryStageStep ==
  ASSUME TypeOK, [Next]_vars, \A r \in Requests : ~Start(r)
  PROVE  /\ UNCHANGED starts
         /\ \A q \in Requests : StageStep(q)
<1>. USE DEF TypeOK, RequestTypeOK, StageStep, Launching, At, Goto, StartStages
<1>1. ASSUME UNCHANGED <<pc, stamp, pending>>
      PROVE  \A q \in Requests : StageStep(q)
  BY <1>1
<1>2. ASSUME NEW r \in Requests, OthersRest(r),
             pc'[r] \notin StartStages \union {"start_orphans", "abort_post"}
      PROVE  \A q \in Requests : StageStep(q)
  BY <1>2 DEF OthersRest
<1>3. ASSUME NEW r \in Requests, InitializeNext(r)
      PROVE  UNCHANGED starts /\ \A q \in Requests : StageStep(q)
  <2>1. OthersRest(r)
    BY <1>3, HandlerIsLocal
  <2>2. pc'[r] \notin StartStages \union {"start_orphans", "abort_post"}
    BY <1>3, FinishIsLocal
    DEF InitializeNext, Initialize, ReserveTrial, ReserveAnswerLost, InstallKubernetes,
        InstallGlobeco, Proceed, RunContainer, VerifyContainer, LoadGeneratorsDeployed,
        CompleteInitialize, FailInitialize
  <2>3. UNCHANGED starts
    BY <1>3
    DEF InitializeNext, Initialize, ReserveTrial, ReserveAnswerLost, InstallKubernetes,
        InstallGlobeco, RunContainer, VerifyContainer, LoadGeneratorsDeployed,
        CompleteInitialize, FailInitialize, countVars
  <2>. QED
    BY <1>2, <2>1, <2>2, <2>3
<1>4. ASSUME NEW r \in Requests, StartNext(r)
      PROVE  UNCHANGED starts /\ \A q \in Requests : StageStep(q)
  <2>1. OthersRest(r)
    BY <1>4, HandlerIsLocal
  <2>2. CASE DropUnhandled(r) \/ CheckRunningFails(r) \/ ConfirmStart(r)
    BY <1>2, <2>1, <2>2, FinishIsLocal
    DEF DropUnhandled, CheckRunningFails, ConfirmStart, countVars
  <2>3. ASSUME NEW role \in Roles, CheckRunning(r, role)
        PROVE  UNCHANGED starts /\ StageStep(r)
    BY <2>3 DEF CheckRunning, Settle, countVars
  <2>4. ASSUME NEW role \in Roles, PostStart(r, role)
        PROVE  UNCHANGED starts /\ StageStep(r)
    BY <2>4, FinishIsLocal
    DEF PostStart, StartAnswered, StartRefused, Settle, countVars
  <2>5. \A q \in Requests \ {r} : StageStep(q)
    BY <2>1 DEF OthersRest
  <2>. QED
    BY <1>4, <2>2, <2>3, <2>4, <2>5 DEF StartNext
<1>5. ASSUME NEW r \in Requests, AbortNext(r)
      PROVE  UNCHANGED starts /\ \A q \in Requests : StageStep(q)
  <2>1. OthersRest(r)
    BY <1>5, HandlerIsLocal
  <2>2. UNCHANGED starts /\ StageStep(r)
    BY <1>5, FinishIsLocal DEF AbortNext, Abort, PostAbort, ConcludeAbort, countVars
  <2>3. \A q \in Requests \ {r} : StageStep(q)
    BY <2>1 DEF OthersRest
  <2>. QED
    BY <2>2, <2>3
<1>6. ASSUME NEW r \in Requests, StatusNext(r) \/ ShutdownNext(r)
      PROVE  UNCHANGED starts /\ \A q \in Requests : StageStep(q)
  <2>1. OthersRest(r)
    BY <1>6, HandlerIsLocal
  <2>2. /\ pc'[r] \notin StartStages \union {"start_orphans", "abort_post"}
        /\ UNCHANGED starts
    BY <1>6, FinishIsLocal
    DEF StatusNext, PollStatus, QueryHealth, ConcludeStatus, ShutdownNext, Shutdown,
        ShutdownStep, ShutdownStages, countVars
  <2>. QED
    BY <1>2, <2>1, <2>2
<1>7. CASE Restart
  BY <1>7 DEF Restart
<1>. QED
  BY <1>1, <1>3, <1>4, <1>5, <1>6, <1>7
  DEF Next, LoadEnds, Tick, vars, requestVars, countVars

\* What the step does to the status, with the bounds of the window.
VerdictStep ==
  \/ UNCHANGED <<status, startTime, endTime>>
  \/ /\ status' \in {"not-initialized", "not-started"}
     /\ startTime' \in {startTime, NoTime} /\ endTime' \in {endTime, NoTime}
  \/ \E r \in Requests : ConfirmStart(r) \/ ConcludeAbort(r) \/ ConcludeStatus(r)

LEMMA EveryVerdictStep ==
  ASSUME [Next]_vars
  PROVE  VerdictStep
<1>1. CASE UNCHANGED <<status, startTime, endTime>>
  BY <1>1 DEF VerdictStep
<1>2. CASE \E r \in Requests : ConfirmStart(r) \/ ConcludeAbort(r) \/ ConcludeStatus(r)
  BY <1>2 DEF VerdictStep
<1>3. ASSUME NEW r \in Requests, InitializeNext(r)
      PROVE  VerdictStep
  <2>1. CASE CompleteInitialize(r)
    BY <2>1 DEF CompleteInitialize, VerdictStep
  <2>2. CASE ~CompleteInitialize(r)
    BY <1>1, <1>3, <2>2
    DEF InitializeNext, Initialize, ReserveTrial, ReserveAnswerLost, InstallKubernetes,
        InstallGlobeco, RunContainer, VerifyContainer, LoadGeneratorsDeployed,
        FailInitialize, Proceed, stateVars
  <2>. QED
    BY <2>1, <2>2
<1>4. ASSUME NEW r \in Requests,
             StartNext(r) \/ AbortNext(r) \/ StatusNext(r) \/ ShutdownNext(r)
      PROVE  VerdictStep
  BY <1>1, <1>2, <1>4
  DEF StartNext, Start, DropUnhandled, PostStart, CheckRunning, CheckRunningFails,
      AbortNext, Abort, PostAbort, StatusNext, PollStatus, QueryHealth,
      ShutdownNext, Shutdown, ShutdownStep, stateVars
<1>5. CASE Restart
  BY <1>5 DEF Restart, VerdictStep
<1>. QED
  BY <1>1, <1>3, <1>4, <1>5 DEF Next, LoadEnds, Tick, vars, stateVars

---------------------------------------------------------------------------
(* The window is in order *)

\* Every end of a load, or of the benchmark, that is written down somewhere.
EndsKnown ==
  {endTime} \union {lg[role].end : role \in Roles}
    \union {heard[q][role].end : q \in Requests, role \in Roles}

NotBefore(begin) == \A e \in EndsKnown : e = NoTime \/ begin <= e

\* Until a /start passes its guard nothing has run, and nothing has ended.
Untouched ==
  /\ startTime = NoTime
  /\ EndsKnown \subseteq {NoTime}
  /\ status # "running"
  /\ \A role \in Roles : lg[role].status \in {"absent", "not-started"}
  /\ \A q \in Requests : ~At(q, StartStages \union {"start_orphans", "abort_post"})

\* No end is before the start it may have to go with,
OrderInv ==
  /\ starts = 0 => Untouched
  /\ starts <= 1 =>
       /\ startTime # NoTime => NotBefore(startTime)
       /\ \A q \in Requests : At(q, StartStages) => NotBefore(stamp[q])

\* and an abort ends whatever was started.
AbortedInv == status = "aborted" => startTime <= endTime

\* No step takes a /start back.
LEMMA StartsGrow ==
  ASSUME TypeOK, [Next]_vars
  PROVE  starts' <= 1 => starts <= 1
<1>1. starts \in Nat
  BY ConstantsAssumption DEF TypeOK, WorldTypeOK
<1>. QED
  BY <1>1, EveryStageStep DEF Start

\* New ends are of the present, and there are none without a load or an abort.
LEMMA EndsGrow ==
  ASSUME TypeOK, [Next]_vars
  PROVE  \A e \in EndsKnown' :
           \/ e \in EndsKnown \union {NoTime}
           \/ /\ e = clock
              /\ \/ \E role \in Roles : lg[role].status = "running"
                 \/ \E q \in Requests : At(q, {"abort_post"})
<1>. DEFINE Known(e) ==
       \/ e \in EndsKnown \union {NoTime}
       \/ /\ e = clock
          /\ \/ \E role \in Roles : lg[role].status = "running"
             \/ \E q \in Requests : At(q, {"abort_post"})
<1>1. \A role \in Roles : Known(lg'[role].end)
  <2>. SUFFICES ASSUME NEW role \in Roles PROVE Known(lg'[role].end)
    OBVIOUS
  <2>. QED
    BY EveryLoadStep DEF LoadStep, EndsKnown
<1>2. \A q \in Requests, role \in Roles : Known(heard'[q][role].end)
  <2>. SUFFICES ASSUME NEW q \in Requests, NEW role \in Roles
                PROVE  Known(heard'[q][role].end)
    OBVIOUS
  <2>1. HeardStep(q, role)
    BY EveryHeardStep
  <2>2. heard[q][role].end \in EndsKnown /\ lg[role].end \in EndsKnown
    BY DEF EndsKnown
  <2>. QED
    BY <1>1, <2>1, <2>2 DEF HeardStep
<1>3. Known(endTime')
  <2>1. endTime \in EndsKnown
    BY DEF EndsKnown
  <2>2. ASSUME NEW r \in Requests, ConcludeStatus(r) PROVE Known(endTime')
    <3>1. \A verdict : EndTimes(r, verdict) \subseteq EndsKnown
      BY DEF EndTimes, EndsKnown
    <3>. QED
      BY <2>1, <2>2, <3>1 DEF ConcludeStatus, RecordEnd, LatestOf, EarliestOf
  <2>3. ASSUME NEW r \in Requests, ConfirmStart(r) \/ ConcludeAbort(r)
        PROVE  Known(endTime')
    BY <2>1, <2>3 DEF ConfirmStart, ConcludeAbort
  <2>. QED
    BY <2>1, <2>2, <2>3, EveryVerdictStep DEF VerdictStep
<1>. QED
  BY <1>1, <1>2, <1>3 DEF EndsKnown

\* Without a /start nothing changes that.
LEMMA UntouchedStays ==
  ASSUME TypeOK, Untouched, [Next]_vars, \A r \in Requests : ~Start(r)
  PROVE  Untouched'
<1>1. /\ \A role \in Roles : lg[role].status # "running"
      /\ \A q \in Requests :
           ~At(q, StartStages) /\ ~At(q, {"start_check"}) /\ ~At(q, {"abort_post"})
             /\ ~Launching(q)
  BY DEF Untouched, Launching, At, StartStages
<1>2. \A e \in EndsKnown' : e = NoTime
  BY <1>1, EndsGrow DEF Untouched
<1>3. \A role \in Roles : lg'[role].status \in {"absent", "not-started"}
  <2>. SUFFICES ASSUME NEW role \in Roles
                PROVE  lg'[role].status \in {"absent", "not-started"}
    OBVIOUS
  <2>. QED
    BY <1>1, EveryLoadStep DEF LoadStep, Untouched
<1>4. \A q \in Requests : ~At(q, StartStages \union {"start_orphans", "abort_post"})'
  <2>. SUFFICES ASSUME NEW q \in Requests
                PROVE  ~At(q, StartStages \union {"start_orphans", "abort_post"})'
    OBVIOUS
  <2>. QED
    <3>1. ~At(q, StartStages)' /\ ~Launching(q)' /\ ~At(q, {"abort_post"})'
      BY <1>1, EveryStageStep DEF StageStep, Untouched
    <3>. QED
      BY <3>1 DEF Launching, At, StartStages
<1>5. startTime' = NoTime /\ status' # "running"
  BY <1>1, EveryVerdictStep
  DEF VerdictStep, Untouched, ConfirmStart, ConcludeAbort, ConcludeStatus
<1>. QED
  BY <1>2, <1>3, <1>4, <1>5 DEF Untouched

LEMMA OrderStep ==
  ASSUME TypeOK, WindowInv, OrderInv, [Next]_vars
  PROVE  OrderInv'
<1>. USE DEF OrderInv
<1>1. clock \in Int /\ starts \in Nat
  BY ConstantsAssumption DEF TypeOK, WorldTypeOK, Times
<1>2. CASE starts' > 1
  BY <1>1, <1>2, ConstantsAssumption, EveryStageStep DEF Start
<1>3. ASSUME NEW r \in Requests, Start(r), starts' <= 1
      PROVE  OrderInv'
  <2>1. starts = 0 /\ starts' = 1 /\ Untouched
    BY <1>1, <1>3 DEF Start
  <2>2. UNCHANGED <<startTime, endTime, lg, heard>>
    BY <1>3 DEF Start, stateVars
  <2>3. EndsKnown' = EndsKnown
    BY <2>2 DEF EndsKnown
  <2>4. \A e \in EndsKnown' : e = NoTime
    BY <2>1, <2>3 DEF Untouched
  <2>. QED
    BY <2>1, <2>2, <2>4 DEF Untouched, NotBefore
<1>4. CASE (\A r \in Requests : ~Start(r)) /\ starts' <= 1
  <2>1. /\ UNCHANGED starts
        /\ \A q \in Requests : StageStep(q)
    BY <1>4, EveryStageStep
  <2>2. starts' = 0 => Untouched'
    BY <1>4, <2>1, UntouchedStays
  <2>3. ASSUME NEW begin \in Times \union {NoTime}, begin <= clock, NotBefore(begin)
        PROVE  \A e \in EndsKnown' : e = NoTime \/ begin <= e
    BY <2>3, EndsGrow DEF NotBefore
  <2>4. \A q \in Requests : At(q, StartStages) =>
          stamp[q] \in Times \union {NoTime} /\ stamp[q] <= clock
    BY DEF WindowInv, StampBeforeLoad, StartStages, TypeOK, RequestTypeOK
  <2>5. \A q \in Requests : At(q, StartStages)' => NotBefore(stamp[q])'
    BY <1>4, <2>1, <2>3, <2>4 DEF StageStep, NotBefore
  <2>6. startTime' # NoTime => NotBefore(startTime)'
    <3>1. CASE startTime' \in {startTime, NoTime}
      BY <1>4, <2>1, <2>3, <3>1 DEF WindowInv, TypeOK, StateTypeOK, NotBefore
    <3>2. ASSUME NEW r \in Requests, ConfirmStart(r)
          PROVE  NotBefore(startTime)'
      BY <1>4, <2>1, <2>3, <2>4, <3>2 DEF ConfirmStart, At, StartStages, NotBefore
    <3>. QED
      BY <3>1, <3>2, EveryVerdictStep DEF VerdictStep, ConcludeAbort, ConcludeStatus
  <2>. QED
    BY <2>2, <2>5, <2>6
<1>5. starts' \in Nat
  BY <1>1, EveryStageStep DEF Start
<1>. QED
  BY <1>2, <1>3, <1>4, <1>5

\* The strengthening holds in every state.
THEOREM OrderInvariant == Spec => []OrderInv
<1>1. Init => OrderInv
  BY DEF Init, OrderInv, Untouched, EndsKnown, Silence, At, StartStages, NotBefore
<1>2. TypeOK /\ WindowInv /\ OrderInv /\ [Next]_vars => OrderInv'
  BY OrderStep
<1>. QED
  BY <1>1, <1>2, TypeCorrect, WindowInvariant, PTL DEF Spec

LEMMA AbortedStep ==
  ASSUME TypeOK, WindowInv, AbortedInv, [Next]_vars
  PROVE  AbortedInv'
<1>1. ASSUME NEW r \in Requests, ConcludeAbort(r)
      PROVE  AbortedInv'
  BY <1>1 DEF ConcludeAbort, AbortedInv, WindowInv
<1>2. ASSUME NEW r \in Requests, ConcludeStatus(r)
      PROVE  AbortedInv'
  BY <1>2 DEF ConcludeStatus, AbortedInv
<1>3. ASSUME NEW r \in Requests, ConfirmStart(r)
      PROVE  AbortedInv'
  BY <1>3 DEF ConfirmStart, AbortedInv
<1>. QED
  BY <1>1, <1>2, <1>3, EveryVerdictStep DEF VerdictStep, AbortedInv

THEOREM AbortedInvariant == Spec => []AbortedInv
<1>1. Init => AbortedInv
  BY DEF Init, AbortedInv
<1>. QED
  BY <1>1, AbortedStep, TypeCorrect, WindowInvariant, PTL DEF Spec

\* Until a second /start is let through, start_time and end_time are in order
\* whenever both are set, although /start writes start_time after /status or
\* /abort may have written end_time, and a restart forgets both; an aborted
\* trial has them in order however often it was started.
THEOREM WindowOrdered == Spec => []WindowIsOrdered
<1>1. OrderInv /\ AbortedInv => WindowIsOrdered
  BY DEF OrderInv, AbortedInv, WindowIsOrdered, NotBefore, EndsKnown
<1>. QED
  BY <1>1, OrderInvariant, AbortedInvariant, PTL

---------------------------------------------------------------------------
(* The verdict is about the load *)

\* One /start has launched no load twice.
LaunchOnce ==
  /\ \A r, q \in Requests : Launching(r) /\ Launching(q) => r = q
  /\ \A r \in Requests : \A role \in pending[r] :
       Launching(r) => lg[role].status \in {"absent", "not-started"}

\* So what was heard of the end of a load is how the load ended.
HeardTrue ==
  /\ \A role \in Roles : lg[role].status \in Ended => lg[role].end \in Times
  /\ \A q \in Requests, role \in Roles : heard[q][role].status \in Ended =>
       heard[q][role].status = lg[role].status /\ heard[q][role].end = lg[role].end

VerdictInv == (starts <= 1 => LaunchOnce /\ HeardTrue) /\ VerdictMatchesLoad

\* An ended load stays as it is.
LEMMA EndedStays ==
  ASSUME TypeOK, LaunchOnce, [Next]_vars
  PROVE  \A role \in Roles : lg[role].status \in Ended => lg'[role] = lg[role]
<1>. SUFFICES ASSUME NEW role \in Roles, lg[role].status \in Ended
              PROVE  lg'[role] = lg[role]
  OBVIOUS
<1>1. LoadStep(role)
  BY EveryLoadStep
<1>2. \A r \in Requests : ~(Launching(r) /\ role \in pending[r])
  BY DEF LaunchOnce, Ended
<1>. QED
  BY <1>1, <1>2 DEF LoadStep, Ended

LEMMA LaunchOnceStep ==
  ASSUME TypeOK, OrderInv, LaunchOnce, [Next]_vars, starts' <= 1
  PROVE  LaunchOnce'
<1>1. ASSUME NEW r \in Requests, Start(r)
      PROVE  LaunchOnce'
  <2>1. starts = 0 /\ Untouched /\ UNCHANGED lg
    BY <1>1, ConstantsAssumption DEF Start, OrderInv, TypeOK, WorldTypeOK
  <2>2. \A q \in Requests : ~Launching(q)
    BY <2>1 DEF Untouched, Launching, At, StartStages
  <2>3. OthersRest(r)
    BY <1>1, HandlerIsLocal DEF StartNext
  <2>4. \A q \in Requests : Launching(q)' => q = r
    BY <2>2, <2>3 DEF OthersRest, Launching, At
  <2>5. pending'[r] \in SUBSET Roles
    BY <1>1, StartType DEF StartNext, TypeOK, RequestTypeOK
  <2>6. \A role \in Roles : lg'[role].status \in {"absent", "not-started"}
    BY <2>1 DEF Untouched
  <2>. QED
    BY <2>4, <2>5, <2>6 DEF LaunchOnce
<1>2. CASE \A r \in Requests : ~Start(r)
  <2>1. \A q \in Requests : Launching(q)' => Launching(q) /\ pending'[q] \subseteq pending[q]
    BY <1>2, EveryStageStep DEF StageStep
  <2>2. ASSUME NEW q \in Requests, NEW role \in pending'[q], Launching(q)'
        PROVE  lg'[role].status \in {"absent", "not-started"}
    <3>1. Launching(q) /\ role \in pending[q] /\ role \in Roles
      BY <2>1, <2>2 DEF TypeOK, RequestTypeOK
    <3>2. lg[role].status \in {"absent", "not-started"}
      BY <3>1 DEF LaunchOnce
    <3>3. \A r \in Requests : Launching(r) => r = q
      BY <3>1 DEF LaunchOnce
    <3>4. LoadStep(role)
      BY <3>1, EveryLoadStep
    <3>. QED
      BY <2>2, <3>2, <3>3, <3>4 DEF LoadStep
  <2>. QED
    BY <2>1, <2>2 DEF LaunchOnce
<1>. QED
  BY <1>1, <1>2

LEMMA HeardTrueStep ==
  ASSUME TypeOK, LaunchOnce, HeardTrue, [Next]_vars
  PROVE  HeardTrue'
<1>1. ASSUME NEW role \in Roles, lg'[role].status \in Ended
      PROVE  lg'[role].end \in Times
  <2>1. LoadStep(role) /\ clock \in Times
    BY EveryLoadStep DEF TypeOK, WorldTypeOK
  <2>2. lg[role].status \in Ended => lg[role].end \in Times
    BY DEF HeardTrue
  <2>. QED
    BY <1>1, <2>1, <2>2 DEF LoadStep, Ended
<1>2. ASSUME NEW q \in Requests, NEW role \in Roles, heard'[q][role].status \in Ended
      PROVE  /\ heard'[q][role].status = lg'[role].status
             /\ heard'[q][role].end = lg'[role].end
  <2>1. HeardStep(q, role)
    BY EveryHeardStep
  <2>2. lg[role].status \in Ended => lg'[role] = lg[role]
    BY EndedStays
  <2>. QED
    BY <1>2, <2>1, <2>2 DEF HeardStep, HeardTrue
<1>. QED
  BY <1>1, <1>2 DEF HeardTrue

\* A verdict that /status writes is the verdict of the reports it has, and of
\* the loads they are about.
LEMMA ConcludeStatusSound ==
  ASSUME TypeOK, starts <= 1, HeardTrue, VerdictMatchesLoad,
         NEW r \in Requests, ConcludeStatus(r)
  PROVE  VerdictMatchesLoad'
<1>1. \A v : EndTimes(r, v) \in SUBSET Times
  BY DEF EndTimes, TypeOK, RequestTypeOK, Report
<1>2. NoTime \notin Times
  BY ConstantsAssumption DEF NoTime, Times
<1>3. ASSUME NEW v \in Ended, NEW role \in Roles, heard[r][role].status = v
      PROVE  /\ lg[role].status = v
             /\ lg[role].end \in EndTimes(r, v)
  <2>1. lg[role].status = v /\ heard[r][role].end = lg[role].end
    BY <1>3 DEF HeardTrue
  <2>2. lg[role].end # NoTime
    BY <1>2, <2>1 DEF HeardTrue
  <2>. QED
    BY <1>3, <2>1, <2>2 DEF EndTimes
<1>4. ASSUME NEW v \in Ended, NEW e \in EndTimes(r, v)
      PROVE  \E role \in Roles : lg[role].status = v /\ lg[role].end = e
  <2>1. PICK role \in Roles : heard[r][role].status = v /\ heard[r][role].end = e
    BY DEF EndTimes
  <2>. QED
    BY <2>1 DEF HeardTrue
<1>5. CASE UNCHANGED <<status, endTime>>
  BY <1>5 DEF ConcludeStatus, VerdictMatchesLoad, countVars
<1>6. CASE AllSuccess(r) /\ status' = "success" /\ RecordEnd(LatestOf(EndTimes(r, "success")))
  <2>1. \A role \in Roles : lg[role].status = "success" /\ lg[role].end \in EndTimes(r, "success")
    BY <1>3, <1>6 DEF AllSuccess, Ended
  <2>2. EndTimes(r, "success") # {}
    BY <2>1, ConstantsAssumption
  <2>3. LatestOf(EndTimes(r, "success")) # {}
    BY <1>1, <2>2, LatestExists
  <2>4. endTime' \in LatestOf(EndTimes(r, "success"))
    BY <1>6, <2>3 DEF RecordEnd
  <2>5. /\ endTime' \in EndTimes(r, "success")
        /\ \A e \in EndTimes(r, "success") : e <= endTime'
    BY <2>4 DEF LatestOf
  <2>6. \E role \in Roles : lg[role].end = endTime'
    BY <1>4, <2>5 DEF Ended
  <2>7. \A role \in Roles : lg[role].end <= endTime'
    BY <2>1, <2>5
  <2>8. UNCHANGED lg
    BY DEF ConcludeStatus
  <2>. QED
    BY <1>6, <2>1, <2>6, <2>7, <2>8 DEF VerdictMatchesLoad
<1>7. CASE AnyFailed(r) /\ status' = "failed" /\ RecordEnd(EarliestOf(EndTimes(r, "failed")))
  <2>1. EndTimes(r, "failed") # {}
    BY <1>3, <1>7 DEF AnyFailed, Ended
  <2>2. EarliestOf(EndTimes(r, "failed")) # {}
    BY <1>1, <2>1, EarliestExists
  <2>3. endTime' \in EndTimes(r, "failed")
    BY <1>7, <2>2 DEF RecordEnd, EarliestOf
  <2>4. \E role \in Roles : lg[role].status = "failed" /\ lg[role].end = endTime'
    BY <1>4, <2>3 DEF Ended
  <2>5. UNCHANGED lg
    BY DEF ConcludeStatus
  <2>. QED
    BY <1>7, <2>4, <2>5 DEF VerdictMatchesLoad
<1>. QED
  BY <1>5, <1>6, <1>7 DEF ConcludeStatus

LEMMA VerdictMatchesLoadStep ==
  ASSUME TypeOK, VerdictInv, [Next]_vars
  PROVE  VerdictMatchesLoad'
<1>. SUFFICES ASSUME starts' <= 1
              PROVE  VerdictMatchesLoad'
  BY DEF VerdictMatchesLoad
<1>0. starts <= 1 /\ LaunchOnce /\ HeardTrue /\ VerdictMatchesLoad
  BY StartsGrow DEF VerdictInv
<1>1. CASE UNCHANGED <<status, startTime, endTime>>
  <2>1. \A role \in Roles : lg[role].status \in Ended => lg'[role] = lg[role]
    BY <1>0, EndedStays
  <2>. QED
    BY <1>0, <1>1, <2>1 DEF VerdictMatchesLoad, Ended
<1>2. CASE status' \in {"not-initialized", "not-started", "running", "aborted"}
  BY <1>2 DEF VerdictMatchesLoad
<1>3. ASSUME NEW r \in Requests, ConfirmStart(r) \/ ConcludeAbort(r)
      PROVE  VerdictMatchesLoad'
  BY <1>2, <1>3 DEF ConfirmStart, ConcludeAbort
<1>. QED
  BY <1>0, <1>1, <1>2, <1>3, ConcludeStatusSound, EveryVerdictStep DEF VerdictStep

\* The strengthening holds in every state.
THEOREM VerdictInvariant == Spec => []VerdictInv
<1>1. Init => VerdictInv
  BY DEF Init, VerdictInv, LaunchOnce, Launching, At, HeardTrue, VerdictMatchesLoad,
         Silence, Ended
<1>2. ASSUME TypeOK, OrderInv, VerdictInv, [Next]_vars
      PROVE  VerdictInv'
  <2>1. starts' <= 1 => LaunchOnce' /\ HeardTrue'
    BY <1>2, StartsGrow, LaunchOnceStep, HeardTrueStep DEF VerdictInv
  <2>. QED
    BY <1>2, <2>1, VerdictMatchesLoadStep DEF VerdictInv
<1>. QED
  BY <1>1, <1>2, TypeCorrect, OrderInvariant, PTL DEF Spec

\* Until a second /start is let through, a verdict of /status is about the load
\* that ran, with the end time of that load, however late the reports are,
\* whoever aborts meanwhile, and through restarts.
THEOREM VerdictSound == Spec => []VerdictMatchesLoad
<1>1. VerdictInv => VerdictMatchesLoad
  BY DEF VerdictInv
<1>. QED
  BY <1>1, VerdictInvariant, PTL
=============================================================================

------------------------ MODULE BenchmarkLifecycle ------------------------
(***************************************************************************)
(* The lifecycle of a benchmark trial in the KASBench Runner: the          *)
(* in-memory BenchmarkState singleton and the five handlers that read and  *)
(* write it (/initialize, /start, /abort, /status, /shutdown).             *)
(*                                                                         *)
(* The Runner is one asyncio event loop.  A handler runs without           *)
(* interruption between two awaits, and any number of handlers can be      *)
(* suspended at an await at once.  So an action below is the code a        *)
(* handler runs from one await to the next, pc[r] is the await at which    *)
(* request r is suspended, and the guard a handler evaluated before an     *)
(* await says nothing about the state it finds after it.                   *)
(*                                                                         *)
(* A request that a guard rejects (409) changes nothing: it is a           *)
(* stuttering step and has no action.                                      *)
(***************************************************************************)
EXTENDS Integers

CONSTANTS
  Requests,     \* slots for HTTP requests in progress at the same time
  Roles,        \* the load generators (config.VALID_ROLES has five)
  Trials,       \* run/trial identifier pairs an /initialize may name
  NoTrial,      \* the value of BenchmarkState.config before it is set
  Ops,          \* which requests the clients issue
  MaxClock,     \* bound: the clock stops ticking there
  MaxStarts,    \* bound: /start requests that pass the guard
  MaxRestarts   \* bound: restarts of the Runner process

AllOps == {"initialize", "start", "abort", "status", "shutdown"}

ASSUME ConstantsAssumption ==
  /\ Roles # {}
  /\ NoTrial \notin Trials
  /\ Ops \subseteq AllOps
  /\ MaxClock \in Nat
  /\ MaxStarts \in Nat
  /\ MaxRestarts \in Nat

VARIABLES
  (* BenchmarkState *)
  status, config, startTime, endTime, installed,
  (* outside the process: the S3 reservations and the load generators *)
  reserved, lg,
  (* the requests in progress *)
  pc, body, stamp, pending, heard,
  (* time, and the counters the bounds cap *)
  clock, starts, restarts

stateVars   == <<status, config, startTime, endTime, installed>>
requestVars == <<pc, body, stamp, pending, heard>>
countVars   == <<starts, restarts>>
vars == <<stateVars, reserved, lg, requestVars, clock, countVars>>

---------------------------------------------------------------------------
(* Values *)

NoTime == -1
Times  == 0..MaxClock

BenchmarkStatus ==
  {"not-initialized", "not-started", "running", "success", "failed", "aborted"}

\* The three flags whose conjunction is initialization_complete.
InstallSteps == {"kubernetes", "globeco", "load_generators"}

InitializationComplete == installed = InstallSteps

\* What a load generator's /health reports; "absent": no container yet.
LoadGeneratorStatus ==
  {"absent", "not-started", "running", "success", "failed", "aborted"}

InitStages ==
  {"init_reserve", "init_kubernetes", "init_globeco", "init_containers",
   "init_verify", "init_images"}
StartStages == {"start_post", "start_check"}
ShutdownStages == {"shutdown_globeco", "shutdown_prometheus", "shutdown_pvc"}

\* "start_orphans": /start already answered 500, some of its POSTs are still
\* under way.  "unhandled": an exception escaped the handler.
Stages ==
  InitStages \union StartStages \union ShutdownStages \union
  {"idle", "start_orphans", "unhandled", "abort_post", "status_poll"}

\* What a handler has heard from a load generator so far.
Report == [status : LoadGeneratorStatus \union {"silent", "unreachable"},
           end    : Times \union {NoTime}]
Silence == [role \in Roles |-> [status |-> "silent", end |-> NoTime]]
Unreachable == [status |-> "unreachable", end |-> NoTime]

Body == [trial : Trials \union {NoTrial}, skip : SUBSET {"kubernetes", "globeco"}]
NoBody == [trial |-> NoTrial, skip |-> {}]

---------------------------------------------------------------------------
Init ==
  /\ status = "not-initialized"
  /\ config = NoTrial
  /\ startTime = NoTime
  /\ endTime = NoTime
  /\ installed = {}
  /\ reserved = {}
  /\ lg = [role \in Roles |->
             [status |-> "absent", started |-> NoTime, end |-> NoTime]]
  /\ pc = [r \in Requests |-> "idle"]
  /\ body = [r \in Requests |-> NoBody]
  /\ stamp = [r \in Requests |-> NoTime]
  /\ pending = [r \in Requests |-> {}]
  /\ heard = [r \in Requests |-> Silence]
  /\ clock = 0
  /\ starts = 0
  /\ restarts = 0

\* The handler of r is suspended at one of the given awaits.
At(r, stages) == pc[r] \in stages

Goto(r, stage) == pc' = [pc EXCEPT ![r] = stage]

\* The handler of r returns (or raises): its locals are gone.
Finish(r) ==
  /\ Goto(r, "idle")
  /\ body' = [body EXCEPT ![r] = NoBody]
  /\ stamp' = [stamp EXCEPT ![r] = NoTime]
  /\ pending' = [pending EXCEPT ![r] = {}]
  /\ heard' = [heard EXCEPT ![r] = Silence]

\* Request r no longer waits for the given role.
Settle(r, role) == pending' = [pending EXCEPT ![r] = @ \ {role}]

AwaitAll(r) == pending' = [pending EXCEPT ![r] = Roles]

---------------------------------------------------------------------------
(* POST /initialize *)

Initialize(r, t, skip) ==
  /\ "initialize" \in Ops
  /\ At(r, {"idle"})
  /\ status = "not-initialized"
  /\ Goto(r, "init_reserve")
  /\ body' = [body EXCEPT ![r] = [trial |-> t, skip |-> skip]]
  /\ UNCHANGED <<stateVars, reserved, lg, stamp, pending, heard, clock, countVars>>

\* Mutant: a skipped installation does not set its flag.
ProceedUnmarked(r, done, ahead) ==
  LET todo == ahead \ body[r].skip
      next == IF "kubernetes" \in todo THEN "init_kubernetes"
              ELSE IF "globeco" \in todo THEN "init_globeco" ELSE "init_containers"
  IN  /\ Goto(r, next)
      /\ installed' = installed \union done
      /\ IF next = "init_containers" THEN AwaitAll(r) ELSE UNCHANGED pending
      /\ UNCHANGED <<status, config, startTime, endTime, body, stamp, heard>>

\* Past a step of the installation: "done" is what it installed, "ahead" the
\* installations that follow.  A skipped one only has its flag set, without an
\* await, so the handler goes straight to the first one that is not.
Proceed(r, done, ahead) ==
  LET todo == ahead \ body[r].skip
  IN  /\ \/ /\ "kubernetes" \in todo
            /\ Goto(r, "init_kubernetes")
            /\ installed' = installed \union done
            /\ UNCHANGED pending
         \/ /\ todo = {"globeco"}
            /\ Goto(r, "init_globeco")
            /\ installed' = installed \union done \union (ahead \ todo)
            /\ UNCHANGED pending
         \/ /\ todo = {}
            /\ Goto(r, "init_containers")
            /\ installed' = installed \union done \union ahead
            /\ AwaitAll(r)
      /\ UNCHANGED <<status, config, startTime, endTime, body, stamp, heard>>

\* Mutant: a put without If-None-Match.
ReserveTrialAnyway(r) ==
  /\ At(r, {"init_reserve"})
  /\ reserved' = reserved \union {body[r].trial}
  /\ Proceed(r, {}, {"kubernetes", "globeco"})
  /\ UNCHANGED <<lg, clock, countVars>>

\* The conditional put of {run}/{trial}/reserved succeeds only when the key
\* does not exist.
ReserveTrial(r) ==
  /\ At(r, {"init_reserve"})
  /\ body[r].trial \notin reserved
  /\ reserved' = reserved \union {body[r].trial}
  /\ Proceed(r, {}, {"kubernetes", "globeco"})
  /\ UNCHANGED <<lg, clock, countVars>>

\* The put took effect and its answer was lost: the handler returns 500 (or
\* 409 when botocore's retry meets the object it wrote itself).
ReserveAnswerLost(r) ==
  /\ At(r, {"init_reserve"})
  /\ body[r].trial \notin reserved
  /\ reserved' = reserved \union {body[r].trial}
  /\ Finish(r)
  /\ UNCHANGED <<stateVars, lg, clock, countVars>>

InstallKubernetes(r) ==
  /\ At(r, {"init_kubernetes"})
  /\ Proceed(r, {"kubernetes"}, {"globeco"})
  /\ UNCHANGED <<reserved, lg, clock, countVars>>

InstallGlobeco(r) ==
  /\ At(r, {"init_globeco"})
  /\ Proceed(r, {"globeco"}, {})
  /\ UNCHANGED <<reserved, lg, clock, countVars>>

\* docker run of one load generator; a container that already exists is
\* left as it is and counts as a success.
RunContainer(r, role) ==
  /\ At(r, {"init_containers"})
  /\ role \in pending[r]
  /\ lg' = IF lg[role].status = "absent"
             THEN [lg EXCEPT ![role].status = "not-started"]
             ELSE lg
  /\ IF pending[r] = {role}
       THEN AwaitAll(r) /\ Goto(r, "init_verify")
       ELSE Settle(r, role) /\ UNCHANGED pc
  /\ UNCHANGED <<stateVars, reserved, body, stamp, heard, clock, countVars>>

\* check_health of one load generator, expecting Status "not-started".
VerifyContainer(r, role) ==
  /\ At(r, {"init_verify"})
  /\ role \in pending[r]
  /\ lg[role].status = "not-started"
  /\ Settle(r, role)
  /\ UNCHANGED <<stateVars, reserved, lg, pc, body, stamp, heard, clock, countVars>>

LoadGeneratorsDeployed(r) ==
  /\ At(r, {"init_verify"})
  /\ pending[r] = {}
  /\ installed' = installed \union {"load_generators"}
  /\ Goto(r, "init_images")
  /\ UNCHANGED <<status, config, startTime, endTime, reserved, lg, body, stamp,
                 pending, heard, clock, countVars>>

\* pre-images.json is in S3: only now are config and status set.
CompleteInitialize(r) ==
  /\ At(r, {"init_images"})
  /\ config' = body[r].trial
  /\ status' = "not-started"
  /\ Finish(r)
  /\ UNCHANGED <<startTime, endTime, installed, reserved, lg, clock, countVars>>

\* Any step of /initialize can fail; the reservation and the flags stay.
FailInitialize(r) ==
  /\ At(r, InitStages)
  /\ Finish(r)
  /\ UNCHANGED <<stateVars, reserved, lg, clock, countVars>>

---------------------------------------------------------------------------
(* POST /start *)

\* The guard looks at the three flags and at "running", and the next lines
\* read state.config, which raises AttributeError when it is still None.
Start(r) ==
  /\ "start" \in Ops
  /\ At(r, {"idle"})
  /\ InitializationComplete
  /\ status # "running"
  /\ starts < MaxStarts
  /\ starts' = starts + 1
  /\ IF config = NoTrial
       THEN /\ Goto(r, "unhandled")
            /\ UNCHANGED <<stamp, pending>>
       ELSE /\ Goto(r, "start_post")
            /\ stamp' = [stamp EXCEPT ![r] = clock]
            /\ AwaitAll(r)
  /\ UNCHANGED <<stateVars, reserved, lg, body, heard, clock, restarts>>

DropUnhandled(r) ==
  /\ At(r, {"unhandled"})
  /\ Finish(r)
  /\ UNCHANGED <<stateVars, reserved, lg, clock, countVars>>

\* asyncio.gather has an answer 200 for the role's POST /start.
StartAnswered(r, role) ==
  \/ /\ pending[r] # {role}
     /\ Settle(r, role)
     /\ UNCHANGED <<pc, body, stamp, heard>>
  \/ /\ At(r, {"start_post"}) /\ pending[r] = {role}
     /\ AwaitAll(r)
     /\ Goto(r, "start_check")
     /\ UNCHANGED <<body, stamp, heard>>
  \/ /\ At(r, {"start_orphans"}) /\ pending[r] = {role}
     /\ Finish(r)

\* The first failure makes gather raise and the handler answer 500; gather
\* does not cancel the other POSTs.
StartRefused(r, role) ==
  IF pending[r] = {role}
    THEN Finish(r)
    ELSE /\ Settle(r, role)
         /\ Goto(r, "start_orphans")
         /\ UNCHANGED <<body, stamp, heard>>

LaunchLoad(role) ==
  /\ lg[role].status \notin {"absent", "running"}
  /\ lg' = [lg EXCEPT ![role] =
              [status |-> "running", started |-> clock, end |-> NoTime]]

PostStart(r, role) ==
  /\ At(r, {"start_post", "start_orphans"})
  /\ role \in pending[r]
  /\ \/ LaunchLoad(role) /\ StartAnswered(r, role)
     \/ LaunchLoad(role) /\ StartRefused(r, role)  \* the answer was lost
     \/ UNCHANGED lg /\ StartRefused(r, role)      \* 409, 5xx, no connection
  /\ UNCHANGED <<stateVars, reserved, clock, countVars>>

\* check_health of one load generator, expecting Status "running".
CheckRunning(r, role) ==
  /\ At(r, {"start_check"})
  /\ role \in pending[r]
  /\ lg[role].status = "running"
  /\ Settle(r, role)
  /\ UNCHANGED <<stateVars, reserved, lg, pc, body, stamp, heard, clock, countVars>>

CheckRunningFails(r) ==
  /\ At(r, {"start_check"})
  /\ pending[r] # {}
  /\ Finish(r)
  /\ UNCHANGED <<stateVars, reserved, lg, clock, countVars>>

\* Mutant: start_time is taken when the start is confirmed.
ConfirmStartLate(r) ==
  /\ At(r, {"start_check"})
  /\ pending[r] = {}
  /\ status' = "running"
  /\ startTime' = clock
  /\ Finish(r)
  /\ UNCHANGED <<config, endTime, installed, reserved, lg, clock, countVars>>

ConfirmStart(r) ==
  /\ At(r, {"start_check"})
  /\ pending[r] = {}
  /\ status' = "running"
  /\ startTime' = stamp[r]
  /\ Finish(r)
  /\ UNCHANGED <<config, endTime, installed, reserved, lg, clock, countVars>>

---------------------------------------------------------------------------
(* POST /abort *)

Abort(r) ==
  /\ "abort" \in Ops
  /\ At(r, {"idle"})
  /\ status = "running"
  /\ Goto(r, "abort_post")
  /\ AwaitAll(r)
  /\ UNCHANGED <<stateVars, reserved, lg, body, stamp, heard, clock, countVars>>

StopLoad(role) ==
  /\ lg[role].status = "running"
  /\ lg' = [lg EXCEPT ![role].status = "aborted", ![role].end = clock]

Hear(r, role, report) == heard' = [heard EXCEPT ![r][role] = report]

\* Best effort: every failure is caught and recorded as that role's result.
PostAbort(r, role) ==
  /\ At(r, {"abort_post"})
  /\ role \in pending[r]
  /\ \/ StopLoad(role) /\ Hear(r, role, [status |-> "aborted", end |-> clock])
     \/ StopLoad(role) /\ Hear(r, role, Unreachable)  \* the answer was lost
     \/ UNCHANGED lg /\ Hear(r, role, Unreachable)    \* 409, 5xx, no connection
  /\ Settle(r, role)
  /\ UNCHANGED <<stateVars, reserved, pc, body, stamp, clock, countVars>>

\* Mutant: /abort waits for a load generator that confirms.
ConcludeAbortConfirmed(r) ==
  /\ At(r, {"abort_post"})
  /\ pending[r] = {}
  /\ \E role \in Roles : heard[r][role].status = "aborted"
  /\ status' = "aborted"
  /\ endTime' = clock
  /\ Finish(r)
  /\ UNCHANGED <<config, startTime, installed, reserved, lg, clock, countVars>>

\* Whatever the answers, and whatever the status is by now.
ConcludeAbort(r) ==
  /\ At(r, {"abort_post"})
  /\ pending[r] = {}
  /\ status' = "aborted"
  /\ endTime' = clock
  /\ Finish(r)
  /\ UNCHANGED <<config, startTime, installed, reserved, lg, clock, countVars>>

---------------------------------------------------------------------------
(* GET /status *)

\* Mutant: /status has no not-initialized guard.
PollStatusUnguarded(r) ==
  /\ "status" \in Ops
  /\ At(r, {"idle"})
  /\ Goto(r, "status_poll")
  /\ AwaitAll(r)
  /\ UNCHANGED <<stateVars, reserved, lg, body, stamp, heard, clock, countVars>>

PollStatus(r) ==
  /\ "status" \in Ops
  /\ At(r, {"idle"})
  /\ status # "not-initialized"
  /\ Goto(r, "status_poll")
  /\ AwaitAll(r)
  /\ UNCHANGED <<stateVars, reserved, lg, body, stamp, heard, clock, countVars>>

\* One /health answer, or the failure gather stores in its place.
QueryHealth(r, role) ==
  /\ At(r, {"status_poll"})
  /\ role \in pending[r]
  /\ \/ /\ lg[role].status # "absent"
        /\ Hear(r, role, [status |-> lg[role].status, end |-> lg[role].end])
     \/ Hear(r, role, Unreachable)
  /\ Settle(r, role)
  /\ UNCHANGED <<stateVars, reserved, lg, pc, body, stamp, clock, countVars>>

\* The end times in the reports that carry the given status.
EndTimes(r, verdict) ==
  {heard[r][role].end : role \in {x \in Roles : heard[r][x].status = verdict}}
    \ {NoTime}

AllSuccess(r) == \A role \in Roles : heard[r][role].status = "success"
AnyFailed(r)  == \E role \in Roles : heard[r][role].status = "failed"
AnyUnreachable(r) == \E role \in Roles : heard[r][role].status = "unreachable"

EarliestOf(times) == {e \in times : \A x \in times : e <= x}
LatestOf(times)   == {e \in times : \A x \in times : x <= e}

\* end_time becomes the latest (all succeeded) or the earliest (some failed)
\* of the reported times, and is kept when no report has one.
RecordEnd(choice) ==
  IF choice = {} THEN UNCHANGED endTime ELSE endTime' \in choice

\* Mutant: the benchmark takes over whatever status a load generator reports.
ConcludeStatusVerbatim(r) ==
  /\ At(r, {"status_poll"})
  /\ pending[r] = {}
  /\ \E role \in Roles : status' = heard[r][role].status
  /\ Finish(r)
  /\ UNCHANGED <<config, startTime, endTime, installed, reserved, lg, clock, countVars>>

\* The verdict is written over whatever the status is when the last answer
\* arrives.
ConcludeStatus(r) ==
  /\ At(r, {"status_poll"})
  /\ pending[r] = {}
  /\ \/ /\ AnyUnreachable(r) \/ ~(AllSuccess(r) \/ AnyFailed(r))
        /\ UNCHANGED <<status, endTime>>
     \/ /\ AllSuccess(r)
        /\ status' = "success"
        /\ RecordEnd(LatestOf(EndTimes(r, "success")))
     \/ /\ AnyFailed(r) /\ ~AnyUnreachable(r)
        /\ status' = "failed"
        /\ RecordEnd(EarliestOf(EndTimes(r, "failed")))
  /\ Finish(r)
  /\ UNCHANGED <<config, startTime, installed, reserved, lg, clock, countVars>>

---------------------------------------------------------------------------
(* POST /shutdown *)

Shutdown(r) ==
  /\ "shutdown" \in Ops
  /\ At(r, {"idle"})
  /\ status \notin {"not-initialized", "running"}
  /\ Goto(r, "shutdown_globeco")
  /\ UNCHANGED <<stateVars, reserved, lg, body, stamp, pending, heard, clock, countVars>>

\* One uninstall, or the PVC deletion, ends: done, failed or timed out.
ShutdownStep(r) ==
  /\ At(r, ShutdownStages)
  /\ \/ /\ At(r, {"shutdown_globeco"})
        /\ Goto(r, "shutdown_prometheus")
        /\ UNCHANGED <<body, stamp, pending, heard>>
     \/ /\ At(r, {"shutdown_prometheus"})
        /\ Goto(r, "shutdown_pvc")
        /\ UNCHANGED <<body, stamp, pending, heard>>
     \/ At(r, {"shutdown_pvc"}) /\ Finish(r)
  /\ UNCHANGED <<stateVars, reserved, lg, clock, countVars>>

---------------------------------------------------------------------------
(* The world outside the handlers *)

\* A load generator's Locust process exits with code 0 or another one.
LoadEnds(role, verdict) ==
  /\ lg[role].status = "running"
  /\ lg' = [lg EXCEPT ![role].status = verdict, ![role].end = clock]
  /\ UNCHANGED <<stateVars, reserved, requestVars, clock, countVars>>

Tick ==
  /\ clock < MaxClock
  /\ clock' = clock + 1
  /\ UNCHANGED <<stateVars, reserved, lg, requestVars, countVars>>

\* The Runner dies and comes back: lifespan() builds a fresh BenchmarkState,
\* the requests are gone, S3 and the containers are not.
Restart ==
  /\ restarts < MaxRestarts
  /\ restarts' = restarts + 1
  /\ status' = "not-initialized"
  /\ config' = NoTrial
  /\ startTime' = NoTime
  /\ endTime' = NoTime
  /\ installed' = {}
  /\ pc' = [r \in Requests |-> "idle"]
  /\ body' = [r \in Requests |-> NoBody]
  /\ stamp' = [r \in Requests |-> NoTime]
  /\ pending' = [r \in Requests |-> {}]
  /\ heard' = [r \in Requests |-> Silence]
  /\ UNCHANGED <<reserved, lg, clock, starts>>

---------------------------------------------------------------------------
InitializeNext(r) ==
  \/ \E t \in Trials, skip \in SUBSET {"kubernetes", "globeco"} : Initialize(r, t, skip)
  \/ ReserveTrial(r)
  \/ ReserveAnswerLost(r)
  \/ InstallKubernetes(r)
  \/ InstallGlobeco(r)
  \/ \E role \in Roles : RunContainer(r, role)
  \/ \E role \in Roles : VerifyContainer(r, role)
  \/ LoadGeneratorsDeployed(r)
  \/ CompleteInitialize(r)
  \/ FailInitialize(r)

StartNext(r) ==
  \/ Start(r)
  \/ DropUnhandled(r)
  \/ \E role \in Roles : PostStart(r, role)
  \/ \E role \in Roles : CheckRunning(r, role)
  \/ CheckRunningFails(r)
  \/ ConfirmStart(r)

AbortNext(r) ==
  \/ Abort(r)
  \/ \E role \in Roles : PostAbort(r, role)
  \/ ConcludeAbort(r)

StatusNext(r) ==
  \/ PollStatus(r)
  \/ \E role \in Roles : QueryHealth(r, role)
  \/ ConcludeStatus(r)

ShutdownNext(r) == Shutdown(r) \/ ShutdownStep(r)

Next ==
  \/ \E r \in Requests :
       InitializeNext(r) \/ StartNext(r) \/ AbortNext(r) \/ StatusNext(r) \/ ShutdownNext(r)
  \/ \E role \in Roles, verdict \in {"success", "failed"} : LoadEnds(role, verdict)
  \/ Tick
  \/ Restart

Spec == Init /\ [][Next]_vars

\* The handlers make progress once accepted: every await of /start, /abort,
\* /status and /shutdown is bounded by a timeout (httpx, check_health's
\* attempts, asyncio.wait_for), so it ends, in whatever way.  /initialize
\* waits for subprocesses without a timeout and gets no fairness.
HandlerStep(r) ==
  \/ \E role \in Roles : PostStart(r, role)
  \/ \E role \in Roles : CheckRunning(r, role)
  \/ CheckRunningFails(r)
  \/ ConfirmStart(r)
  \/ \E role \in Roles : PostAbort(r, role)
  \/ ConcludeAbort(r)
  \/ \E role \in Roles : QueryHealth(r, role)
  \/ ConcludeStatus(r)
  \/ ShutdownStep(r)
  \/ DropUnhandled(r)

FairSpec == Spec /\ \A r \in Requests : WF_vars(HandlerStep(r))

---------------------------------------------------------------------------
(* Type invariant *)

LoadGenerator == [status  : LoadGeneratorStatus,
                  started : Times \union {NoTime},
                  end     : Times \union {NoTime}]

StateTypeOK ==
  /\ status \in BenchmarkStatus
  /\ config \in Trials \union {NoTrial}
  /\ startTime \in Times \union {NoTime}
  /\ endTime \in Times \union {NoTime}
  /\ installed \in SUBSET InstallSteps

RequestTypeOK ==
  /\ pc \in [Requests -> Stages]
  /\ body \in [Requests -> Body]
  /\ stamp \in [Requests -> Times \union {NoTime}]
  /\ pending \in [Requests -> SUBSET Roles]
  /\ heard \in [Requests -> [Roles -> Report]]
  /\ \A r \in Requests : At(r, InitStages) => body[r].trial \in Trials

WorldTypeOK ==
  /\ reserved \in SUBSET Trials
  /\ lg \in [Roles -> LoadGenerator]
  /\ clock \in Times
  /\ starts \in 0..MaxStarts
  /\ restarts \in 0..MaxRestarts

\* Every variable holds a value of its kind.
TypeOK == StateTypeOK /\ RequestTypeOK /\ WorldTypeOK

---------------------------------------------------------------------------
(* Safety *)

\* Every handler that gets past "status is not-initialized" relies on the
\* configuration being there and on the installation being complete.  However
\* /initialize, /start, /abort and /status overlap and fail, no status other
\* than not-initialized is ever visible without both.
InitializedMeansInstalled ==
  status # "not-initialized" => InitializationComplete /\ config # NoTrial

\* The metrics window starts at the recorded start_time (metrics.py:138).  No
\* load generator whose load the window is meant to cover was started before
\* it, even when several /start requests race, fail half-way and leave POSTs
\* behind, or when the load generators are restarted.
WindowOpensBeforeLoad ==
  startTime # NoTime => \A role \in Roles : startTime <= lg[role].started

\* Past its reservation an /initialize owns the S3 prefix of its trial: no
\* other /initialize in progress and no completed configuration has the same
\* trial, and the reservation object is there, whatever was lost or restarted.
HoldsTrial(r) == At(r, InitStages \ {"init_reserve"})

TrialHeldOnce ==
  /\ \A r \in Requests : HoldsTrial(r) =>
       /\ body[r].trial \in reserved
       /\ config # body[r].trial
       /\ \A q \in Requests \ {r} : HoldsTrial(q) => body[q].trial # body[r].trial
  /\ config # NoTrial => config \in reserved

\* Until a second /start is let through, the verdict /status and /abort left
\* behind is about the load that ran: success only when every generator ended
\* with success, with the latest end time; failed only when one failed, with
\* the end time of one that did (status.py:93-110).
VerdictMatchesLoad ==
  starts <= 1 =>
    /\ status = "success" =>
         /\ \A role \in Roles : lg[role].status = "success" /\ lg[role].end <= endTime
         /\ \E role \in Roles : lg[role].end = endTime
    /\ status = "failed" =>
         \E role \in Roles : lg[role].status = "failed" /\ lg[role].end = endTime

\* Whenever both bounds of the metrics window are set, they are in order,
\* although /start writes start_time after /status or /abort may have written
\* end_time: until a second /start is let through, and after it whenever the
\* trial is aborted.
WindowIsOrdered ==
  /\ starts <= 1 \/ status = "aborted"
  /\ startTime # NoTime /\ endTime # NoTime
  => startTime <= endTime

---------------------------------------------------------------------------
(* What the exports see of the lifecycle *)

\* The phase of TrialWindow.
Phase == IF status \in {"success", "failed", "aborted"} THEN "ended" ELSE status

Window == INSTANCE TrialWindow WITH phase <- Phase

\* The handlers keep the contract the export endpoints run beside: once
\* "not-initialized" is left it comes back only with a restart, no verdict and
\* no start is written before, start_time changes only when a start is
\* confirmed and end_time only with a verdict, whoever overlaps or is late.
KeepsWindow == Window!WindowSpec

---------------------------------------------------------------------------
(* Liveness *)

\* Every accepted /start, /abort, /status and /shutdown is answered and lets go
\* of its slot, whatever fails and whoever else is in progress.
EveryRequestEnds ==
  \A r \in Requests :
    At(r, StartStages \union ShutdownStages
            \union {"start_orphans", "abort_post", "status_poll"})
      ~> At(r, {"idle"})

---------------------------------------------------------------------------
(* What the documents say of the program, and its code does not do *)

\* "WHEN POST /start is received and initialization_complete is false, THE
\* Runner SHALL return HTTP 409": while /initialize is at its last step all
\* three flags are set but config is not, and /start fails on it instead.
StartFindsConfig == \A r \in Requests : pc[r] # "unhandled"

\* "THE Runner SHALL persist the request object from POST /initialize in memory
\* so that settings are available to subsequent API calls for the lifetime of
\* the process": once set, the configuration does not change.
ConfigPersists ==
  [][config # NoTrial /\ restarts' = restarts => config' = config]_vars
=============================================================================

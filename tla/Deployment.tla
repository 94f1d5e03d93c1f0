----------------------------- MODULE Deployment -----------------------------
(***************************************************************************)
(* What /initialize deploys and what /shutdown takes away again: the       *)
(* GlobeCo Helm release (_install_helm_chart), RabbitMQ and the load       *)
(* generators (_deploy_load_generators with DockerManager and              *)
(* check_health), and the helm uninstall of both releases.                 *)
(*                                                                         *)
(* BenchmarkLifecycle takes each of these for one step; here they are      *)
(* opened.  helm and docker are commands that may fail after they have     *)
(* done something, the Runner tries them again when the error text looks   *)
(* transient, and a helm uninstall goes on after the handler stopped       *)
(* waiting for it.  Calls of /initialize may overlap, and so may           *)
(* /shutdown with a call that is late.                                     *)
(***************************************************************************)
EXTENDS Naturals

CONSTANTS
  Calls,           \* calls of /initialize
  Shutdowns,       \* calls of /shutdown
  NoCall,          \* the owner of a release that no call has installed
  NumRoles,        \* the load generators (config.VALID_ROLES has five)
  MaxAttempts,     \* docker_run_max_attempts, of helm commands as well
  HealthAttempts   \* health_check_max_attempts

ASSUME DeploymentAssumption ==
  /\ NoCall \notin Calls
  /\ NumRoles \in Nat \ {0}
  /\ MaxAttempts \in Nat \ {0}
  /\ HealthAttempts \in Nat \ {0}

\* The containers in the order in which they are run: RabbitMQ, then the roles.
Broker     == 0
Roles      == 1..NumRoles
Containers == 0..NumRoles

VARIABLES
  (* the cluster and the Docker host *)
  release, owner, container,
  (* calls of /initialize: the await, the attempt and the container they are at *)
  pc, attempt, pos, skips,
  (* calls of /shutdown: the await, their helm processes, what they report *)
  stage, process, report,
  (* history, per call: what happened to containers under it *)
  disturbed, unstarted

callVars     == <<pc, attempt, pos, skips>>
shutdownVars == <<stage, process, report>>
historyVars  == <<disturbed, unstarted>>
vars == <<release, owner, container, callVars, shutdownVars, historyVars>>

---------------------------------------------------------------------------
(* Values *)

\* HELM_RELEASES, in this order.
Releases     == {"globeco", "prometheus"}
ReleaseState == {"absent", "pending", "failed", "deployed"}

\* "stopped": created and never started, or exited; "starting": /health does
\* not answer yet; "ready": RabbitMQ runs, or /health says healthy and
\* not-started; "loaded": it says anything else, now and later.
ContainerState == {"absent", "stopped", "starting", "ready", "loaded"}
Up == {"starting", "ready", "loaded"}

HelmStages   == {"repo_add", "repo_update", "install", "install_wait"}
DockerStages == {"network", "run", "copy", "verify"}
Stages == {"idle", "images", "done", "failed"} \union HelmStages \union DockerStages

ShutdownStages == {"idle", "globeco", "prometheus", "pvc", "answered"}

\* A helm uninstall: not begun, under way, has removed the release, has not.
ProcessState == {"none", "running", "removed", "refused"}
ReportState  == {"none", "uninstalled", "failed"}

---------------------------------------------------------------------------
\* An earlier run of the Runner may have left releases and containers behind.
Init ==
  /\ release \in [Releases -> {"absent", "failed", "deployed"}]
  /\ owner = NoCall
  /\ container \in [Containers -> {"absent", "stopped", "ready", "loaded"}]
  /\ pc = [c \in Calls |-> "idle"]
  /\ attempt = [c \in Calls |-> 1]
  /\ pos = [c \in Calls |-> 0]
  /\ skips = [c \in Calls |-> FALSE]
  /\ stage = [s \in Shutdowns |-> "idle"]
  /\ process = [s \in Shutdowns |-> [rel \in Releases |-> "none"]]
  /\ report = [s \in Shutdowns |-> [rel \in Releases |-> "none"]]
  /\ disturbed = [c \in Calls |-> {}]
  /\ unstarted = [c \in Calls |-> {}]

At(c, stages) == pc[c] \in stages

\* The call goes on to a command it has not tried yet.
Begin(c, next) ==
  /\ pc' = [pc EXCEPT ![c] = next]
  /\ attempt' = [attempt EXCEPT ![c] = 1]

\* Mutant: one attempt more than the setting allows.
RetryOnceMore(c, from) ==
  /\ attempt[c] <= MaxAttempts
  /\ attempt' = [attempt EXCEPT ![c] = @ + 1]
  /\ pc' = [pc EXCEPT ![c] = from]
  /\ UNCHANGED pos

\* After a failure that looks transient, and the backoff.
Retry(c, from) ==
  /\ attempt[c] < MaxAttempts
  /\ attempt' = [attempt EXCEPT ![c] = @ + 1]
  /\ pc' = [pc EXCEPT ![c] = from]
  /\ UNCHANGED pos

\* After a permanent failure, a missing binary, or the last attempt.
GiveUp(c) == pc' = [pc EXCEPT ![c] = "failed"] /\ UNCHANGED <<attempt, pos>>

\* The step at the present container succeeded: the next container, or, after
\* the last one, the next loop.
Advance(c, next) ==
  IF pos[c] < NumRoles
    THEN Begin(c, pc[c]) /\ pos' = [pos EXCEPT ![c] = @ + 1]
    ELSE Begin(c, next) /\ pos' = [pos EXCEPT ![c] = 1]

---------------------------------------------------------------------------
(* POST /initialize, from the GlobeCo install on *)

\* The guard of /initialize: no call has completed yet.  (It is evaluated a
\* reservation and a cluster installation earlier; being weaker here only
\* lets fewer calls overlap, and two are enough.)
Arrive(c, skip) ==
  /\ At(c, {"idle"})
  /\ \A d \in Calls : ~At(d, {"done"})
  /\ Begin(c, IF skip THEN "network" ELSE "repo_add")
  /\ skips' = [skips EXCEPT ![c] = skip]
  /\ disturbed' = [disturbed EXCEPT ![c] = {}]
  /\ unstarted' = [unstarted EXCEPT ![c] = {p \in Containers : container[p] = "stopped"}]
  /\ UNCHANGED <<release, owner, container, pos, shutdownVars>>

RepoCommand(c) ==
  /\ \/ At(c, {"repo_add"}) /\ Begin(c, "repo_update") /\ UNCHANGED pos
     \/ At(c, {"repo_update"}) /\ Begin(c, "install") /\ UNCHANGED pos
     \/ At(c, {"repo_add", "repo_update"}) /\ (Retry(c, pc[c]) \/ GiveUp(c))
  /\ UNCHANGED <<release, owner, container, skips, shutdownVars, historyVars>>

\* Mutant: helm upgrade --install.
HelmCreatesAnyway(c) ==
  /\ At(c, {"install"})
  /\ release' = [release EXCEPT !["globeco"] = "pending"]
  /\ owner' = c
  /\ pc' = [pc EXCEPT ![c] = "install_wait"]
  /\ UNCHANGED <<container, attempt, pos, skips, shutdownVars, historyVars>>

\* helm install has recorded the release and applied the chart; --wait begins.
HelmCreates(c) ==
  /\ At(c, {"install"})
  /\ release["globeco"] = "absent"
  /\ release' = [release EXCEPT !["globeco"] = "pending"]
  /\ owner' = c
  /\ pc' = [pc EXCEPT ![c] = "install_wait"]
  /\ UNCHANGED <<container, attempt, pos, skips, shutdownVars, historyVars>>

\* It fails before: no answer from the repository or the cluster, whether the
\* release exists or not, or, for good, "cannot re-use a name that is still in
\* use".
HelmRefuses(c) ==
  /\ At(c, {"install"})
  /\ Retry(c, "install") \/ GiveUp(c)
  /\ UNCHANGED <<release, owner, container, skips, shutdownVars, historyVars>>

\* The wait ends well.  A release uninstalled meanwhile cannot be updated.
HelmDeploys(c) ==
  /\ At(c, {"install_wait"})
  /\ release["globeco"] = "pending" /\ owner = c
  /\ release' = [release EXCEPT !["globeco"] = "deployed"]
  /\ Begin(c, "network")
  /\ UNCHANGED <<owner, container, pos, skips, shutdownVars, historyVars>>

\* The wait times out, which looks transient, or ends otherwise; a release
\* in state failed stays behind.
HelmFails(c) ==
  /\ At(c, {"install_wait"})
  /\ IF release["globeco"] = "pending" /\ owner = c
       THEN release' = [release EXCEPT !["globeco"] = "failed"]
       ELSE UNCHANGED release
  /\ Retry(c, "install") \/ GiveUp(c)
  /\ UNCHANGED <<owner, container, skips, shutdownVars, historyVars>>

\* docker network inspect kasbench
VerifyNetwork(c) ==
  /\ At(c, {"network"})
  /\ \/ Begin(c, "run") /\ pos' = [pos EXCEPT ![c] = Broker]
     \/ GiveUp(c)
  /\ UNCHANGED <<release, owner, container, skips, shutdownVars, historyVars>>

\* Mutant: the exit code of docker run is not looked at.
RunStartsUnseen(c) ==
  /\ At(c, {"run"})
  /\ container[pos[c]] = "absent"
  /\ \E state \in {"absent", "starting"} :
       container' = [container EXCEPT ![pos[c]] = state]
  /\ Advance(c, "copy")
  /\ UNCHANGED <<release, owner, skips, shutdownVars, historyVars>>

\* docker run returns 0.
RunStarts(c) ==
  /\ At(c, {"run"})
  /\ container[pos[c]] = "absent"
  /\ container' = [container EXCEPT ![pos[c]] = "starting"]
  /\ Advance(c, "copy")
  /\ UNCHANGED <<release, owner, skips, shutdownVars, historyVars>>

\* "already in use" counts as a success, whatever state the container is in.
RunFindsName(c) ==
  /\ At(c, {"run"})
  /\ container[pos[c]] # "absent"
  /\ Advance(c, "copy")
  /\ UNCHANGED <<release, owner, container, skips, shutdownVars, historyVars>>

\* docker cannot be run, its daemon does not answer, or the image cannot be
\* pulled; the first two may happen though the container exists.
RunFails(c) ==
  /\ At(c, {"run"})
  /\ Retry(c, "run") \/ GiveUp(c)
  /\ UNCHANGED <<release, owner, container, skips, shutdownVars, historyVars>>

\* The container is created, and starting it fails (a port that is taken, a
\* daemon that breaks off): "Error response from daemon" looks transient.
RunHalfFails(c) ==
  /\ At(c, {"run"})
  /\ container[pos[c]] = "absent"
  /\ container' = [container EXCEPT ![pos[c]] = "stopped"]
  /\ unstarted' = [d \in Calls |-> unstarted[d] \union {pos[c]}]
  /\ IF attempt[c] < MaxAttempts THEN Retry(c, "run") ELSE GiveUp(c)
  /\ UNCHANGED <<release, owner, skips, shutdownVars, disturbed>>

\* docker exec mkdir, whose result is not looked at, and docker cp.
CopyKubeconfig(c) ==
  /\ At(c, {"copy"})
  /\ Advance(c, "verify") \/ GiveUp(c)
  /\ UNCHANGED <<release, owner, container, skips, shutdownVars, historyVars>>

\* Mutant: the health check is content with any status field.
VerifyHealthyLax(c) ==
  /\ At(c, {"verify"})
  /\ container[pos[c]] \in {"ready", "loaded"}
  /\ Advance(c, "images")
  /\ UNCHANGED <<release, owner, container, skips, shutdownVars, historyVars>>

\* check_health: one attempt matches.  After the last role the image id is
\* captured, best effort.
VerifyHealthy(c) ==
  /\ At(c, {"verify"})
  /\ container[pos[c]] = "ready"
  /\ Advance(c, "images")
  /\ UNCHANGED <<release, owner, container, skips, shutdownVars, historyVars>>

\* One attempt does not match, or is not answered.
VerifyUnhealthy(c) ==
  /\ At(c, {"verify"})
  /\ IF attempt[c] < HealthAttempts
       THEN attempt' = [attempt EXCEPT ![c] = @ + 1] /\ UNCHANGED <<pc, pos>>
       ELSE GiveUp(c)
  /\ UNCHANGED <<release, owner, container, skips, shutdownVars, historyVars>>

\* The image export; then status and configuration are set.
CompleteInitialize(c) ==
  /\ At(c, {"images"})
  /\ Begin(c, "done") \/ (pc' = [pc EXCEPT ![c] = "failed"] /\ UNCHANGED attempt)
  /\ UNCHANGED <<release, owner, container, pos, skips, shutdownVars, historyVars>>

---------------------------------------------------------------------------
(* POST /shutdown *)

\* The process of helm uninstall is started.
Uninstalling(s, rel) ==
  /\ stage' = [stage EXCEPT ![s] = rel]
  /\ process' = [process EXCEPT ![s][rel] = "running"]

\* The guard: initialized and not running, which BenchmarkLifecycle follows up.
Shutdown(s) ==
  /\ stage[s] = "idle"
  /\ \E c \in Calls : At(c, {"done"})
  /\ Uninstalling(s, "globeco")
  /\ UNCHANGED <<release, owner, container, callVars, report, historyVars>>

\* GlobeCo first, then Prometheus, then the PVC of the Alertmanager.
NextUninstall(s, rel) ==
  IF rel = "globeco"
    THEN Uninstalling(s, "prometheus")
    ELSE stage' = [stage EXCEPT ![s] = "pvc"] /\ UNCHANGED process

Reports(s, rel, result) == report' = [report EXCEPT ![s][rel] = result]

\* Mutant: a timeout is taken for the end of the uninstall.
UninstallEndsAnyhow(s, rel) ==
  /\ stage[s] = rel
  /\ Reports(s, rel, IF process[s][rel] = "refused" THEN "failed" ELSE "uninstalled")
  /\ NextUninstall(s, rel)
  /\ UNCHANGED <<release, owner, container, callVars, historyVars>>

\* The process has ended within the timeout: its exit code decides.
UninstallEnds(s, rel) ==
  /\ stage[s] = rel
  /\ \/ process[s][rel] = "removed" /\ Reports(s, rel, "uninstalled")
     \/ process[s][rel] = "refused" /\ Reports(s, rel, "failed")
  /\ NextUninstall(s, rel)
  /\ UNCHANGED <<release, owner, container, callVars, historyVars>>

\* wait_for cancels the wait, not the process.
UninstallTimesOut(s, rel) ==
  /\ stage[s] = rel
  /\ Reports(s, rel, "failed")
  /\ NextUninstall(s, rel)
  /\ UNCHANGED <<release, owner, container, callVars, historyVars>>

\* The PVC is deleted, or not: it is logged and the answer does not say so.
DeletePvc(s) ==
  /\ stage[s] = "pvc"
  /\ stage' = [stage EXCEPT ![s] = "answered"]
  /\ UNCHANGED <<release, owner, container, callVars, process, report, historyVars>>

---------------------------------------------------------------------------
(* The world outside the Runner *)

\* A helm uninstall under way, waited for or not.
Uninstall(s, rel) ==
  /\ process[s][rel] = "running"
  /\ \/ /\ release[rel] # "absent"
        /\ release' = [release EXCEPT ![rel] = "absent"]
        /\ owner' = IF rel = "globeco" THEN NoCall ELSE owner
        /\ process' = [process EXCEPT ![s][rel] = "removed"]
     \/ /\ process' = [process EXCEPT ![s][rel] = "refused"]
        /\ UNCHANGED <<release, owner>>
  /\ UNCHANGED <<container, callVars, stage, report, historyVars>>

\* The program in a container starts to answer.
ComesUp(p) ==
  /\ container[p] = "starting"
  /\ container' = [container EXCEPT ![p] = "ready"]
  /\ UNCHANGED <<release, owner, callVars, shutdownVars, historyVars>>

\* A container exits, or a load generator is told to start.
Disturb(p) ==
  /\ \/ container[p] \in Up /\ container' = [container EXCEPT ![p] = "stopped"]
     \/ /\ p \in Roles /\ container[p] = "ready"
        /\ container' = [container EXCEPT ![p] = "loaded"]
  /\ disturbed' = [c \in Calls |-> disturbed[c] \union {p}]
  /\ UNCHANGED <<release, owner, callVars, shutdownVars, unstarted>>

---------------------------------------------------------------------------
CallNext(c) ==
  \/ \E skip \in BOOLEAN : Arrive(c, skip)
  \/ RepoCommand(c)
  \/ HelmCreates(c)
  \/ HelmRefuses(c)
  \/ HelmDeploys(c)
  \/ HelmFails(c)
  \/ VerifyNetwork(c)
  \/ RunStarts(c)
  \/ RunFindsName(c)
  \/ RunFails(c)
  \/ RunHalfFails(c)
  \/ CopyKubeconfig(c)
  \/ VerifyHealthy(c)
  \/ VerifyUnhealthy(c)
  \/ CompleteInitialize(c)

ShutdownNext(s) ==
  \/ Shutdown(s)
  \/ \E rel \in Releases :
       UninstallEnds(s, rel) \/ UninstallTimesOut(s, rel) \/ Uninstall(s, rel)
  \/ DeletePvc(s)

Next ==
  \/ \E c \in Calls : CallNext(c)
  \/ \E s \in Shutdowns : ShutdownNext(s)
  \/ \E p \in Containers : ComesUp(p) \/ Disturb(p)

Spec == Init /\ [][Next]_vars

---------------------------------------------------------------------------
(* Type invariant *)

TypeOK ==
  /\ release \in [Releases -> ReleaseState]
  /\ owner \in Calls \union {NoCall}
  /\ container \in [Containers -> ContainerState]
  /\ pc \in [Calls -> Stages]
  /\ attempt \in [Calls -> Nat]
  /\ pos \in [Calls -> Containers]
  /\ skips \in [Calls -> BOOLEAN]
  /\ stage \in [Shutdowns -> ShutdownStages]
  /\ process \in [Shutdowns -> [Releases -> ProcessState]]
  /\ report \in [Shutdowns -> [Releases -> ReportState]]
  /\ disturbed \in [Calls -> SUBSET Containers]
  /\ unstarted \in [Calls -> SUBSET Containers]
  /\ \A c \in Calls :
       /\ At(c, HelmStages \union {"run"}) => attempt[c] <= MaxAttempts
       /\ At(c, {"verify"}) => attempt[c] <= HealthAttempts /\ pos[c] \in Roles

---------------------------------------------------------------------------
(* Safety *)

Removed(rel) == \E s \in Shutdowns : process[s][rel] = "removed"

\* The call has GlobeCo behind it, and has not skipped it.
PastHelm(c) == ~skips[c] /\ At(c, DockerStages \union {"images", "done"})

\* As long as no uninstall has removed it, a call that has got past the Helm
\* install stands on a deployed release that it created itself: the retries do
\* not adopt a release that an earlier attempt, another call or an earlier
\* run of the Runner left behind, and at most one overlapping call gets past.
ReleaseStands ==
  ~Removed("globeco") =>
    \A c \in Calls : PastHelm(c) => release["globeco"] = "deployed" /\ owner = c

\* A call that has deployed the load generators leaves each of them healthy
\* and not started, except those that exited or took up a load during the
\* call.  Containers left by an earlier run, and starts that failed half-way
\* and count as "already in use", do not slip through.
DeployedMeansReady ==
  \A c \in Calls : At(c, {"images", "done"}) =>
    \A p \in Roles \ disturbed[c] : container[p] = "ready"

\* Nothing checks RabbitMQ after docker run.  When the call is past it,
\* RabbitMQ runs, unless its container exited during the call, or was there
\* stopped when the call arrived, or its start failed half-way.
BrokerRuns ==
  \A c \in Calls : At(c, {"copy", "verify", "images", "done"}) =>
    \/ container[Broker] \in Up
    \/ Broker \in disturbed[c] \union unstarted[c]

\* A release that disappears is removed by the process of a /shutdown that is
\* waiting for it or has reported it as failed: nothing that was reported
\* uninstalled, and installed again by a late /initialize, is removed by
\* the same /shutdown once more.
RemovalIsAnnounced ==
  [][\A s \in Shutdowns, rel \in Releases :
       (process[s][rel] = "running" /\ process'[s][rel] = "removed") =>
         stage[s] = rel \/ report[s][rel] = "failed"]_vars
=============================================================================

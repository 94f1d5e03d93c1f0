# Verification of the KASBench Runner

The KASBench Runner (`src/src/kasbench_runner/`) is a FastAPI application that takes a Kubernetes
cluster through one benchmark trial: it reserves the trial in S3, installs the cluster and the GlobeCo
application, deploys five load generators, starts, watches and aborts them, exports what was measured, and
uninstalls. This directory holds its TLA+ models, the TLC configurations that check them, and TLAPS proofs of their safety
properties. `PROJECT.json` maps every definition to the lines it stands for, lists the runs, and for every property
names a mutation of the code that breaks it.

1. [The system](#1-the-system)
2. [The models](#2-the-models)
3. [The runs](#3-the-runs)
4. [Fairness](#4-fairness)
5. [The proofs](#5-the-proofs)
6. [Where the code and its documents disagree](#6-where-the-code-and-its-documents-disagree)
7. [What is not modelled](#7-what-is-not-modelled)
8. [Plan](#8-plan)
9. [Running it](#9-running-it)

Paths below are relative to `src/src/kasbench_runner/`.

## 1. The system

The Runner is one process with one asyncio event loop. A handler runs without interruption from one `await` to the
next, and any number of handlers can be suspended at an `await` at once. There is no lock, no queue and no task
group above the handlers: what a handler tested before an `await` may be false after it. Blocking calls (boto3) run in
threads, commands (`helm`, `kubectl`, `docker`, `git`) in subprocesses, and the rest goes over HTTP (httpx, kr8s) or SSH (asyncssh).

The only shared state in the process is the `BenchmarkState` singleton (`models/state.py`): the status
(`not-initialized`, `not-started`, `running`, `success`, `failed`, `aborted`), the request body of `/initialize` as `config`,
`start_time` and `end_time`, three install flags, the `snapshot_in_progress` flag and the role parameters. It is built afresh by
`lifespan` (`app.py`) and nothing of it is persisted; S3, the cluster and the containers outlive the process.

| Component | State | Operations | Talks to | What makes it hard | What makes it correct |
|---|---|---|---|---|---|
| Lifecycle: `models/state.py`, `routes/{initialize,start,abort,status,shutdown}.py`, `app.py` | `BenchmarkState` | `/initialize`, `/start`, `/abort`, `/status`, `/shutdown` | S3, cluster installation, Helm, Docker, load generators | guards evaluated before long awaits; several writers of `status`; `gather` that leaves POSTs behind; restarts | no status without an installation and a configuration; a verdict that fits the load; a metrics window that covers it; a trial is held once |
| Load generators: `services/load_generator_client.py` (the generators themselves are another program) | per role: status, start and end time | `start`, `health`, `abort` | HTTP | refusals, timeouts, lost answers | best-effort abort, all-or-error start |
| Trial reservation: `services/s3_client.py` | the object `{run}/{trial}/reserved` | `reserve_trial` (conditional put), uploads, `head_object` | S3 | lost answers, retries of botocore | at most one owner of a prefix |
| Cluster installation: `services/kubernetes_manager.py`, `services/ssh_client.py` | one SSH connection, timers of critical nodes | `install_cluster` | nodes over SSH, Kubernetes API, Helm | long, without timeouts, not repeatable; two timeouts in one poll | one installation per cluster; charts only on a Ready cluster; a bounded poll that gives up for the right reason |
| GlobeCo Helm install: `routes/initialize.py` | none | three commands with backoff | Helm | a retried `helm install` meets its own release, or another's | a success stands on a deployed release of its own |
| Load generator deployment: `services/docker_manager.py`, `services/health_checker.py` | containers | pull, run, health check with retries | Docker over SSH or locally, HTTP | `docker run` that created but did not start | a success means a healthy load generator that has not started |
| Cluster snapshot: `routes/snapshot.py`, `services/snapshot_collector.py` | `snapshot_in_progress` | `/snapshot` | kubectl, kr8s, S3 | mutual exclusion across awaits; partial uploads; a retry over an older bundle | `SHA256SUMS` seals the files of one attempt |
| Rollout monitor: `routes/rollout.py`, `services/rollout_monitor.py` | one task per workload | `/rollout/wait`, `/rollout/all` | Kubernetes API | reads of a moving cluster; equal timeouts that race; retries inside a timeout; cancellation | complete only if the pods confirmed it; given up only with a reason; noticed when complete; on time |
| Helm uninstall: `routes/shutdown.py` | none | uninstalls, PVC deletion | Helm, kubectl | `wait_for` abandons the subprocess | the uninstall reported is the one that happened |
| Metrics: `routes/metrics.py`, `services/prometheus_client.py` | none | `/metrics/export` | Prometheus, S3 | the window is read again after an await; an overwrite check that is awaited key by key, then uploads one by one | the window has both bounds and is of an ended trial; no mixture of the metrics of two exports |
| `/db`, `/output` | none | export per role, streaming | load generators, S3 | sequential, one broken transfer ends all of `/db/export` | a result for every role |
| `/prometheus/tsdb/export` | a temporary directory | snapshot, copy, upload | Prometheus, kubectl, S3 | clean-up on every path; a `kubectl cp` that outlives its timeout | all or error; no directory left behind but by a crash or such a copy |
| Logs: `routes/logs.py`, `services/log_collector.py` | none | `/logs` | Kubernetes API, S3 | object names that may collide | one object per container |
| `/images`, `/metadata`, `/roundtrip` | none | read and upload | Kubernetes API, load generators, S3 | little | - |
| `services/manifest_parser.py` and `_install_manifests` | none | deprecated, not called | - | pure parser | - |
| Configuration, errors, logging, message models | none | - | - | - | - |

The hazards that follow from this, each at its line, are the `hazards` of `PROJECT.json`; section 3 says which property
covers which.

## 2. The models

Each component has a module with its `VARIABLES`, `Init`, one action per step, `Next`, its specifications and its
properties; an `MC` module that TLC is run on; and a module of proofs. They are composed in two ways. `Exports` extends `TrialWindow`, the
abstract lifecycle, and runs its actions beside its own; that `BenchmarkLifecycle` implements `TrialWindow` is checked and
proved (`KeepsWindow`); and `Runner` puts the real lifecycle in its place and runs both in one process. The others share no variables and are composed by what they assume of each other. `Snapshot` assumes of the lifecycle that a trial is configured once and that an initialized status comes
with a configuration, which are `ConfiguredOnce` and `InitializedMeansInstalled`, proved of `BenchmarkLifecycle`.
`BenchmarkLifecycle` takes the cluster installation as one step that ends or fails, and `ClusterInstall` opens that step for
calls that overlap, which `BenchmarkLifecycle` shows to be possible. `Deployment` does the same for the Helm install, the deployment of the
containers and the uninstalls of `/shutdown`.

An operator whose comment begins with "Mutant:" is not part of any specification: it is the form a
definition would have with a plausible bug, kept for the mutation of the definition below it.

### BenchmarkLifecycle, TrialWindow

| Model | Code |
|---|---|
| `status`, `config`, `startTime`, `endTime`, `installed` | the fields of `BenchmarkState`; `installed` is the set of the three flags that are true |
| `pc[r]` | the `await` at which request `r` is suspended |
| `body`, `stamp`, `pending`, `heard` | its locals: the request, `start_time`, the roles `gather` or the loop still waits for, the answers so far |
| `reserved`, `lg` | the reservations in S3; the load generators, as their `/health` reports them |
| `clock`, `starts`, `restarts` | time, and two counters that only bound the state space |
| `Initialize` ... `FailInitialize` | `routes/initialize.py` from guard to answer; `Proceed` is the code between two awaits, which sets the flags of skipped steps without one |
| `Start`, `PostStart`, `CheckRunning`, `ConfirmStart` | `routes/start.py`; `start_orphans` are the POSTs that `gather` does not cancel when one of them fails |
| `Abort`, `PostAbort`, `ConcludeAbort`; `PollStatus`, `QueryHealth`, `ConcludeStatus`; `Shutdown`, `ShutdownStep` | the other three handlers |
| `LoadEnds`, `Tick`, `Restart` | the world |

A request refused by a guard (409) changes nothing and is a stuttering step. A POST may be refused, may take effect, or may take effect
and its answer be lost. `docker run` of a container that exists is a success and leaves it as it is (`docker_manager.py`), so containers of an earlier
process are found again. Abstractions: the loops over roles go in any order (the code's `VALID_ROLES` order is one of
them); the `Health` field is folded into `Status`; `effective_role_params`, which no guard reads, is left out; the best-effort capture of chart
versions, which changes no state of the Runner, is part of the await before the containers; POSTs under way at a restart are dropped; what `/shutdown` does to the
cluster is not modelled, only when it does it. Containers are never removed, as no code of the Runner removes one.

`TrialWindow` is what the exports see of it: the phase of the trial (`Phase` merges the three verdicts into `ended`) and the two times. Its
actions are the contract that `KeepsWindow` states of the handlers: a completed `/initialize`, a confirmed start, a verdict
or an abort, a restart, and nothing else, change these three, each in its own way. A verdict is possible before a start is confirmed, and the end time
of an earlier run stays in place: the contract is what the code does, not what the documents draw.

### Snapshot, SnapshotBundle

| Model | Code |
|---|---|
| `inProgress`, `configured` | `snapshot_in_progress`; status is not `not-initialized` |
| `pc`, `phase`, `files`, `left` | `routes/snapshot.py` and `collect_snapshot`: the stage, the collected dictionary, what of it is not uploaded yet |
| `s3`, `sums` | the objects below `{run}/{trial}/snapshot/{phase}/`, each with the number of the attempt that wrote it, and `SHA256SUMS` with the files it lists |
| `started`, `confirmed` | attempts begun (a bound as well); the last one answered 200 |
| `TakeSnapshot`, `Collect`, `CollectFails`, `Upload`, `UploadOptionalFails`, `UploadRequiredFails`, `UploadSums`, `UploadSumsFails`, `Restart` | the steps of an attempt, with what the `finally` does at each exit |

The contents of a file are the number of the attempt it comes from: that is what the properties tell apart. The module follows the prefix of
one trial. Within the required and within the optional files the order of uploads is arbitrary. A put that failed may have taken
effect; it does so no later than its answer. An invalid phase sets and resets the flag without an await and is a stuttering step.

`SnapshotBundle` is what a reader of S3 is promised: attempts do not overlap, the required files of an attempt come before its seal, and an
attempt may be given up. `ImplementsBundle` is the refinement: `busy` is the phase of the request past the guard, `stored` the required files
of the latest attempt, `sealed` whether `SHA256SUMS` is of the latest attempt.

### RolloutMonitor

| Model | Code |
|---|---|
| `cluster` | per workload, its condition, which is what the controller reports together with what its pods are: `absent`, `zero` replicas, `stale` (the controller has not seen the new template), `rolling`, `lagging` (the pods that are there are ready; they are not all counted yet, or more are to come), `settled`, `thinned` (reported complete, some pods gone, the rest ready), `crashed` (reported complete, pods unready or none left), `broken` (a container waits for an unrecoverable reason), `exceeded` (progress deadline, pods unready), `starved` (progress deadline, too few pods, those there ready) |
| `marks`, `overslept` | history: what it has been since the call arrived; how often its monitor went to sleep over it while it was rolled out |
| `elapsed`, `due` | the clock; per monitor, when its sleep or its API call ends |
| `pc`, `attempt`, `seen`, `result` | the monitor: where in the poll it is, the retry counter, what the first read said, how it ended |
| `Poll`, `Fetch`, `FetchFails`, `FetchBreaks`, `Retry`, `CheckPods`, `CheckPodsFails`, `ConfirmPods`, `ConfirmPodsFails` | one poll of `rollout_monitor.py`: three reads with awaits in between; the first read of the pods fails open, the second closed |
| `WaitForRollout`, `WaitForAllRollouts`, `AnswerComplete`, `AnswerFailure`, `AnswerTimeout`, `Tick` | the handlers and `asyncio.wait` with its timeout and cancellation |

One call, and time counts from its arrival. Timers are prompt: no time passes while something is due. Each API call ends within `CallTime`, an assumption
on kr8s and httpx. A template changes only before the call. A StatefulSet goes through the same actions as a Deployment,
as its monitor has the same loop; it has no `exceeded` and no `starved`. As in `_all_pods_ready`, the pods are ready when there are some and all
of these are (`PodsReady`): their number is not compared with the replicas, so a `thinned` workload can be answered complete. A workload that is listed twice is left out.

### ClusterInstall

| Model | Code |
|---|---|
| `members`, `releases` | the nodes of the cluster; the releases `helm install` created |
| `pc`, `answer` | the step of each call of `install_cluster`; the error and the node it names |
| `conn`, `togo` | the host its `SSHClient` is connected to (exceptions of asyncssh, and of the local `mkdir` before the copy of the kubeconfig, leak it); the workers to join |
| `attempt` | of `_kubectl_apply_with_retry` |
| `elapsed`, `due`, `first` | the clock of the readiness poll, its next deadline, `critical_first_seen` |
| `readyAt`, `criticalAt`, `steadyFrom`, `admitted` | history the properties speak of |
| `InitControlPlane` ... `JoinWorker` | the commands over SSH, each connect, execute, close |
| `Poll`, `Listed`, `ListFails`, `Report`, `Tick` | `_wait_for_nodes_ready` |
| `InstallEbsCsi` ... `InstallKeda` | the local commands, with `HelmInstall` (not repeatable) apart from `Command` |

Several calls, one manager and client each, as `/initialize` makes them; they meet only in the cluster. `kubeadm init` and `kubeadm
join` refuse a host that is a node already and are atomic with respect to each other: assumptions on kubeadm. A list of the nodes says
anything of the nodes that are members at any poll, the most general environment. Joins go in any order; the autoscaler is chosen at the end;
backoff is not timed. The control plane is not among the workers and no host is listed twice (`InstallAssumption`). `_create_namespaces`
iterates an empty list, and `_install_envoy_gateway` has no caller.

### Deployment

| Model | Code |
|---|---|
| `release`, `owner` | the two Helm releases and the call that installed GlobeCo |
| `container` | RabbitMQ (0) and the load generators in their order: `absent`, `stopped`, `starting`, `ready`, `loaded` |
| `pc`, `attempt`, `pos`, `skips` | per `/initialize`, from the GlobeCo install on: the command, the attempt, the container the loop is at, `skip` |
| `stage`, `process`, `report` | per `/shutdown`: the step, its `helm uninstall` processes, what the answer will say of them |
| `disturbed`, `unstarted` | history the properties speak of: containers that exited or took up load, and containers that were there stopped or whose start failed |
| `RepoCommand`, `HelmCreates`, `HelmRefuses`, `HelmDeploys`, `HelmFails` | `_install_helm_chart` and `_run_helm_command_with_retry`; `helm install --wait` records the release, then waits |
| `VerifyNetwork`, `RunStarts`, `RunFindsName`, `RunFails`, `RunHalfFails`, `CopyKubeconfig` | `DockerManager`; `RunFindsName` is "already in use", a success whatever state the container is in |
| `VerifyHealthy`, `VerifyUnhealthy`, `CompleteInitialize` | `check_health` attempt by attempt, and the end of the handler |
| `Shutdown`, `UninstallEnds`, `UninstallTimesOut`, `DeletePvc`; `Uninstall` | `routes/shutdown.py`; the process, which `wait_for` does not stop |

The run starts from any mixture of releases and containers an earlier Runner may have left. Which failures look transient is decided by the error
text: a failure is either retried or ends the call, as the environment likes, except where the text is known ("already in use"). A command may fail before it looks at the release or the container,
so that one which exists is no reason not to fail otherwise.
The capture of image ids and of `helm_versions.json` is best effort and left out. Backoff is not timed.

### Exports

| Model | Code |
|---|---|
| `phase`, `startTime`, `endTime` | the lifecycle, as `TrialWindow` has it |
| `s3` | the objects, each with its kind, its item (the key) and the request that wrote it |
| `tempdir`, `copying` | the directories of `mkdtemp` and the `kubectl cp` processes |
| `kind`, `overwrite`, `pc`, `expected`, `todo`, `got`, `present`, `stored`, `failed`, `window`, `answer` | per request: what was asked, the stage, and the handler's locals |
| `earlier`, `disturbed` | history: the requests that were over when it arrived; whether the trial moved during its overwrite check |
| `Arrive...`; `CheckKey`, `CheckFails`; `Discover`, `DiscoverFails`; `TriggerSnapshot` ... `CopyTimesOut` | the guards, and the stages only one endpoint has |
| `Fetch`, `FetchFails`, `ReadFails`, `FetchBreaks`, `Put`, `PutFails`, `UploadFails` | the two loops every endpoint has; the sets `Batches`, `BestEffort`, `Fragile` say how an endpoint differs: all items fetched before the first put or not, failures recorded or final, exceptions that no handler catches |
| `TrialMoves`, `Restart`, `OrphanCopies` | the lifecycle, a crash, a copy that nobody waits for |

The endpoints are one pattern, so they are one module: a reader of the code finds the same loop written six times. A put that failed may have taken effect.
An item is a metric, a container, a role or a file; the keys of a TSDB snapshot are its own, the others are shared by all requests of the kind. A
request dropped by a crash is `done` with the answer `lost`.

### Runner

`BenchmarkLifecycle` and `Exports` in one process: the handlers of `app.py`'s routers on one `BenchmarkState`, of which the exports read the status
and the two times. `LifecycleMoves` is a step of the former and `ExportMoves` one of the latter; `RunnerDies` takes the requests of both. It adds no action of its own and no
run: its steps are those of two modules that have theirs, and what it is for is proved (section 5). `MetricsCoverLoad` is what the two modules give together and
neither can state: the window of the metrics covers the load. Time is one clock here, so that of the Runner and those of the load generators are
taken to agree.

## 3. The runs

TLC explores every reachable state of these instances. All passing runs switch deadlock checking off, since the
system may come to rest: no client has to send a request, and the counters that bound an instance run out.

| Run | Instance | States | What it shows |
|---|---|---|---|
| `LifecycleRaces` | 2 requests at a time, 2 roles, 1 trial, all five operations, 2 `/start` let through, clock 0..1 | 916 407 | Whatever two handlers are in progress, a status other than `not-initialized` means installed and configured (`InitializedMeansInstalled`), no load is older than the window that is to cover it (`WindowOpensBeforeLoad`), and the window is not reversed (`WindowIsOrdered`) |
| `LifecycleRestart` | 2 requests, 2 roles, 2 trials, one `/start`, one restart, without `/shutdown` | 766 012 | When the process dies at any point and finds its old reservations and containers, a trial is held once (`TrialHeldOnce`), a `success` or `failed` is about the load that ran (`VerdictMatchesLoad`), and the lifecycle implements `TrialWindow` (`KeepsWindow`) |
| `LifecycleLiveness` | 2 requests, 2 roles, 1 trial, all operations, one `/start`, no clock | 53 303 | Accepted requests are answered (`EveryRequestEnds`) |
| `DeploymentRaces` | 2 overlapping `/initialize` past the cluster install, 1 `/shutdown`, RabbitMQ and 1 load generator, 2 attempts of every command and of the health check, any leftovers | 1 102 659 | A call past Helm owns a deployed release (`ReleaseStands`), what it deployed is ready (`DeployedMeansReady`), RabbitMQ runs but in three named cases (`BrokerRuns`), an uninstall that was reported done removes nothing later (`RemovalIsAnnounced`) |
| `ExportRaces` | 2 requests of any kinds, 2 items, beside `TrialWindow`, with every failure, lost put answer and crash | 397 348 | The metrics of two exports that did not overlap are never mixed (`OneAuthor`), an answer accounts for every item and what it claims is in S3 (`AccountedFor`), the window queried has both bounds and is of an ended trial (`WindowStands`), directories are cleaned up (`TempDirBelongs`), `/metrics/export` is answered (`MetricsExportEnds`) |
| `SnapshotRaces` | 2 requests, 2 required files, 1 optional, 2 attempts per phase, restarts | 39 606 | The flag is a lock (`FlagIsLock`); `SHA256SUMS` is never ahead of the files (`SumsNeverAhead`); what a 200 promised holds (`ConfirmedMeansStored`); the bundle is implemented (`ImplementsBundle`); the lock is released (`UploadsRelease`) |
| `RolloutRaces` | 1 deployment (scaled to zero under KEDA), 1 stateful set, timeout 2, interval 1, 1 retry after 1, calls within 1 | 365 825 | A success was confirmed by pods that were ready when, or after, the controller reported the rollout complete (`SuccessWasConfirmed`); a failure was troubled (`UnrecoverableWasTroubled`); a rollout that stays complete is slept over once at most, whatever the first read of the pods does (`RolloutIsNotOverslept`); a wait overruns its timeout by one poll and one sleep at most (`OverrunBounded`); the answer fits the monitors and leaves none behind (`AnswerIsWarranted`); every call is answered (`EveryCallEnds`) |
| `InstallRaces` | 2 calls, control plane and 2 workers, readiness timeout 3, interval 1, critical timeout 1, lists within 1, 2 attempts | 725 781 | One installation per cluster (`OneInstallation`), no `helm install` of a release that exists (`NoReleaseClash`), charts only after one list had every host Ready (`ChartsOnReadyCluster`), the critical timer is started by a critical list only, cleared by Ready, and not idle (`CriticalWasNeverReady`, `SteadyTroubleEndsPoll`), the poll is bounded and ends (`PollIsBounded`, `EveryPollEnds`) |
| `StartBeforeConfig`, `ConfigReplaced`, `SnapshotSums`, `RolloutStale` | see section 6 | - | a sentence of the documents that the code does not keep |

`TypeOK` is checked along with the first run of each module.

**Why these bounds are enough to be interesting.** Two requests give every overlap of two handlers, and each hazard of section 1 is about
two; a third request would only be a third handler between awaits of the others. Two roles give the cases "one answered, one
not", "one failed, one succeeded" and "one refused while the other is under way"; nothing depends on five. One trial suffices
where only one may be held, two where a restarted Runner needs a second one to be initialized again. A clock of two instants tells "before" from
"after"; end times that differ need no more. Two `/start` are let through where a second one must do no harm, and one where
the property is about a single start (below). Two snapshot attempts are one that leaves something and one that writes over it. For the rollout, a timeout of two
intervals lets a poll begin before, at and after it, and lets retries run over it; for the cluster, a readiness timeout of three
and a critical timeout of one let a timer start, be kept, be cleared and start again within one poll. Two attempts are a first and a retry, the
only two that differ. One load generator next to RabbitMQ has both the checked and the unchecked container; with two items an export can be partial. One time
is enough where the properties ask only whether a bound is there.

**A condition that is part of a property.** `VerdictMatchesLoad`, `WindowIsOrdered` and the second half of `MetricsCoverLoad` say what holds until a second `/start` is let through
(`starts <= 1`; an aborted trial has its window in order after that too): the README of the repository describes a "strict linear lifecycle" (`src/README.md:7`), the code does not enforce it, and with a second start from a terminal status
they fail, because `end_time` is left over from the run before.

Symmetry is used in `LifecycleRaces` and `LifecycleRestart`, where requests, roles and trials are interchangeable. Their properties are invariants
and `KeepsWindow`, which is of the form `Init /\ [][Next]_v` and itself symmetric; no run with a liveness property uses it.

**Mutants.** For every property of a passing run `PROJECT.json` names a definition and its mutated form that breaks the property: a put without
`If-None-Match`, a `start_time` taken when the start is confirmed, a flag not reset on failure, `SHA256SUMS` uploaded early, a second read that
fails open, a first one that fails closed, one retry too many, a node count that is off by one, a timer that any reason starts,
an overwrite check that is content with the first key, an upload that fails and leaves its directory, a `helm upgrade --install`, a timeout taken for the end of an uninstall, and so on. A property that no such mutation breaks would say nothing about the code.

## 4. Fairness

Fairness is assumed only of steps the code bounds in time.

- `BenchmarkLifecycle!FairSpec`: weak fairness of the steps of accepted `/start`, `/abort`, `/status` and `/shutdown` requests. Their awaits are
  httpx requests with a timeout, `check_health` with a number of attempts, and `asyncio.wait_for`. Weak fairness of the disjunction is enough: while a request is
  past its guard some step of it is always enabled. `/initialize` gets none: it awaits subprocesses and SSH commands without a timeout. Clients, load generators, the clock and restarts get none.
- `Snapshot!FairSpec`: weak fairness of the uploads, which botocore bounds by timeouts and retries. The collection awaits `kubectl` without a timeout (`snapshot_collector.py:613`)
  and gets none, so that the lock is released is shown only from the first upload on. That the lock can be held for ever by a hanging `kubectl` is a hazard of the code.
- `RolloutMonitor!FairSpec`: the event loop runs what is due, API calls end, time passes. Nothing makes the cluster get anywhere.
- `ClusterInstall!FairSpec`: the same of the readiness poll only; no command is bound to end.
- `Exports!FairSpec`: the steps of an accepted `/metrics/export`. Its awaits are httpx queries with connect and read timeouts and calls of botocore. The other exports wait for
  `kubectl` or read from a load generator without a timeout and get none.
- `Deployment` states none: its commands are subprocesses that nothing bounds, and its properties are safety.

## 5. The proofs

The theorems hold for every number of requests, roles, trials, files, workloads, hosts and calls, for every timeout and interval,
and for every value of the bounds; they assume the named `ASSUME` of their module and nothing else. Each comes from an inductive invariant, and each step lemma treats one handler or one group of actions.

| Module | Theorems | Inductive invariant, and why the property needs it |
|---|---|---|
| `BenchmarkLifecycleProofs` | `TypeCorrect`, `InstallSafe`, `WindowSafe`, `TrialSafe`, `ConfiguredOnce`, `WindowKept`, `NoEndlessRequest` | `InstallInv`: `InitializedMeansInstalled` says nothing of a handler about to write `status`. `StageFlags` adds which flags an `/initialize` has set by its stage, and `HandlersHaveConfig` that a handler past its guard found a configuration, which is never taken away but by a restart that drops the handler. `WindowInv` adds `StampBeforeLoad`: while a `/start` is verifying, the generators it launched run no earlier than its stamp. `TrialHeldOnce` is inductive with `TypeOK`. `ConfiguredOnce` follows a trial from the moment it is configured: `SpentTrial` says it stays reserved and no `/initialize` holds it, so none can complete it again. `WindowKept` proves `Spec => KeepsWindow`, every step a step of `TrialWindow` or a stutter; it needs both invariants, to know that a handler which writes a verdict found the Runner initialized and that a stamp is a time. |
| `OneStartProofs` | `WindowOrdered`, `VerdictSound` | `OrderInv`: until a `/start` passes its guard nothing has run and no end is written down anywhere (`Untouched`); after that no end that any variable holds, what a suspended `/status` has heard included, is before `start_time` or before the stamp of a `/start` in progress. `AbortedInv` is its counterpart for an aborted trial, whose end was written after its start however often it was started. `VerdictInv`: the one `/start` launches no load twice (`LaunchOnce`), hence an ended load stays as it is, hence every end that was heard is how the load ended (`HeardTrue`), however late it is used. That the latest and the earliest of some times exist is `LeastNatural`, from the library's well-founded induction. |
| `SnapshotProofs` | `TypeCorrect`, `LockSafe`, `SumsSafe`, `ConfirmedSafe`, `Refinement`, `NoEndlessAttempt` | `SnapshotInv`: the flag is a lock; `Progress`: what the holder has uploaded is of the current attempt; `NothingAhead`: no object is of an attempt not begun. `Refinement` proves `Spec => ImplementsBundle`: `InitRefines`, and per action a step of the bundle or a stutter. |
| `RolloutMonitorProofs` | `TypeCorrect`, `ReactionSafe`, `WaitTimeSafe`, `SuccessSafe`, `FailureSafe`, `AnswerSafe`, `NoEndlessRollout` | `RolloutInv`: `Bookkeeping` ties monitors to the call; `TimersKept` bounds, for each stage of a poll, how much of `PollTime` is left, so that the sum over retries, delays and reads stays below the horizon; `OnRecord` says what a monitor has read is among the `marks` of its workload, so that pods found ready confirm a report that came before; `OversleptOnce` adds to `RolloutIsNotOverslept` that a monitor which has slept over a rolled-out workload reads it as complete the next time. |
| `ClusterInstallProofs` | `TypeCorrect`, `OneInstallationSafe`, `ReleaseSafe`, `ReadySafe`, `CriticalSafe`, `SteadyTroubleSafe`, `PollTimeSafe`, `JoinSafe`, `NoEndlessInstall` | `InstallInv`: `Admission` (who is past `kubeadm init` is the one admitted), `ReleasesInOrder` (no release is there before its step), `Fresh` (the poll's variables before it), `TimersCover` (a timer was started by a list that had the node critical, no later than the trouble is steady and after the last Ready), `DeadlinesKept`, `Verdicts`. `EveryHostReady` turns the count of Ready nodes into "every host" with the cardinality theorems. `JoinInv` follows the loop of joins: what is not to go is a member. |
| `DeploymentProofs` | `TypeCorrect`, `RemovalAnnounced`, `ReleaseSafe`, `ReadySafe`, `BrokerSafe`, `NoEndlessDeployment` | `TypeInv` bounds attempts and positions by stage. `ProcessInv`: an uninstall that runs is waited for or reported failed. `ReleaseStands` is inductive with it: the owner of the release is unique. `CheckedInv` extends `DeployedMeansReady` to the generators a health check in progress has passed; `BrokerInv` follows RabbitMQ from the moment a call is past it. |
| `ExportsProofs` | `TypeCorrect`, `WindowCorrect`, `AuthorSafe`, `AccountSafe`, `TempDirSafe`, `NoEndlessExport` | `CheckInv`: the window found at the guard still has both bounds while the keys are checked. `AuthorInv`: exports finished before are done (`EarlierDone`), objects have an author that ran (`AuthorKnown`), and the keys an export has found free hold nothing of an earlier one (`CheckedKeys`). `AccountInv`: what is left, stored and lost of the items is a partition at every stage; `KeptInv`: every stored item has an object that no earlier export wrote. `DirInv`: a directory, or a copy that runs on, is of a request on its way through them or of one that timed out or was lost. |

**The composition.** `RunsLifecycle` and `RunsExports` prove that `Runner` implements the specification of either module, so every safety theorem of both holds
of the process as a whole. The first is immediate; the second needs that every step of a handler is, to the exports, a step of `TrialWindow` or none,
which is `StepKeepsWindow`, the lemma `WindowKept` rests on. `LoadCovered` (`RunnerSpec => MetricsCoverLoad`) puts `WindowSafe`, `WindowOrdered` and `VerdictSound` together with `BoundsKept`: an
export that checks its keys found both bounds at its guard, and no step but a restart, which takes the export with it, removes one.

**Progress.** The theorems named `NoEndless...` are the safety half of the liveness properties. Each says that every step of a call advances a measure of the call that
cannot decrease for ever, roles, items, files, hosts and containers being finitely many (the stage it is at; within a stage the answers, items, files, workers or containers left, and the attempts left of a retried command), and that no step of anybody else takes
the measure back, short of a restart that drops the call. So no loop of the code goes round without getting somewhere, and an accepted call ends after finitely many of its own steps,
whoever overlaps with it and whatever fails. In the two polls the measure is taken between two ticks of the clock, and `OverrunBounded` and
`PollIsBounded` bound the clock.

`InstallSafe`, `WindowSafe` and `TrialSafe` need no bound on starts or restarts. `SumsSafe` and `Refinement` hold
for every sequence of attempts.

**Only model-checked.** The five liveness properties: `EveryRequestEnds`, `UploadsRelease`, `MetricsExportEnds`, `EveryCallEnds`, `EveryPollEnds`. What is missing from their proofs is the fairness: that
a step of the call is enabled until the call ends, and is then taken (`ENABLED` and the rules for `WF` are out of the prover's reach), and the induction on the measure that the `NoEndless...` theorems provide.
That the four violations are reachable is shown by TLC's traces. Every safety property of a passing run is proved.

## 6. Where the code and its documents disagree

Each is a run that TLC finds violated, with the documents' sentence quoted in `PROJECT.json`.

| Run | Property | What happens |
|---|---|---|
| `StartBeforeConfig` | `StartFindsConfig` | `/start` tests the three flags, which are set before `config` is; during the image export it passes its guard and reads attributes of `None` (`start.py:69`), where requirement 7 asks for a 409 |
| `ConfigReplaced` | `ConfigPersists` | two overlapping `/initialize` for different trials both complete, and the later one replaces the configuration |
| `SnapshotSums` | `SumsMeanComplete` | `SHA256SUMS` lists an optional file whose upload failed, although it is documented as the sign of a complete bundle |
| `RolloutStale` | `SuccessIsCurrent` | `observedGeneration` is not compared, so a wait that comes before the controller has noticed a new template reports the old pods as the new rollout |

Met while modelling, and not given a run:

- The state diagram (`src/.kiro/specs/kasbench-runner/design.md:87-94`, and "strict linear lifecycle", `src/README.md:7`) is not what the handlers do. One request at a time is enough to go from `not-started`
  to a verdict, by `/status` after a `/start` that failed half-way (`status.py:98, 108`), and from a verdict back to `running` (`start.py:57`). `TrialWindow` is the diagram that does hold.
- `shutdown.py:184`: the guard of `/shutdown` is evaluated once, before minutes of uninstalling; a `/start` that overlaps runs the benchmark meanwhile (`src/README.md:440`). And `/shutdown`
  leaves the status as it is, so `/start` is accepted after it as well.
- `metrics.py:107`: two overlapping `/metrics/export` without `overwrite` both pass the check and write the same keys. `OneAuthor` states what is left of the promise.
- `db.py:184`: a transfer that breaks off raises `httpx.ReadError`, which `output.py` catches and `db.py` does not: the results of the roles before are lost with the answer.
- `prometheus_tsdb.py:207`: after the timeout the directory is removed and `kubectl cp` goes on, making it again; nobody removes it then.
- `initialize.py:743`: RabbitMQ is the one container that nothing checks; `BrokerRuns` names the cases in which it may be down.
- `docker_manager.py:238`: "already in use" is a success also for a container that never started. For the load generators the health check catches it.
- `kubernetes_manager.py:401`: the timer of a critical node is cleared by Ready only. A node that is critical, then not Ready for another reason, then critical again is given up
  on time since the first, although it was not critical throughout. `CriticalWasNeverReady` states what does hold.
- `rollout_monitor.py:400-443`: the pods that are listed have to be ready, but `expected_replicas` is compared with zero only. With a pod missing and counters that lag behind, a rollout
  is answered complete without all its replicas, for which `src/.kiro/specs/rollout-and-snapshot/requirements.md:26` asks. `SuccessWasConfirmed` claims the pods that are there, no more.
- `rollout_monitor.py:228-241`: the answer to a batch timeout names the first incomplete workload, where the requirements ask for all of them.
- `rollout_monitor.py`: a single wait ends up to one poll with all its retries, and a sleep, after the "maximum wait time"; `OverrunBounded` states how much.
- `rollout_monitor.py:49-60`: the reasons taken for unrecoverable do not include `CrashLoopBackOff`, `ImagePullBackOff` and `ErrImagePull`, which the requirements name.
- `abort.py:83`: the status becomes `aborted` also when no load generator confirmed.
- `config.py`: the list of namespaces to create is empty; the requirements name four.

## 7. What is not modelled

- `services/metrics_config.py` is a table of names and PromQL queries without behaviour: in `Exports` it is the number of items. The substitution of the window into a query is text.
- The GET routes of `/db` and `/output` stream a file from a load generator to the client. They change no state and keep none.
- File names, object names and the contents of the documents. Two log objects may be given the same name (`log_collector.py:196`); `Exports` identifies an item by its key and cannot see it.
- Best-effort captures whose outcome nothing depends on: image ids, `helm_versions.json`, chart versions.
- Configuration, error formatting, logging, the message models: no state. The ranges of the settings are the modules' assumptions.
- `services/manifest_parser.py` and `_install_manifests`, which have no caller.
- The load generators, kubeadm, Helm, the Kubernetes API and S3 are modelled from how the code uses them and marked external in `PROJECT.json`.
- Nothing relates the releases that `/shutdown` takes away to the status: the code does not, so there is no property to state.

## 8. Plan

| | Module | Status | What it opens |
|---|---|---|---|
| 1 | `BenchmarkLifecycle` implements `TrialWindow` | done, proved | the state machine and its races |
| 2 | `Snapshot` implements `SnapshotBundle` | done, proved | the lock and the bundle |
| 3 | `RolloutMonitor` | done, proved | polls, retries, batch |
| 4 | `ClusterInstall` | done, proved | installation and readiness |
| 5 | `Deployment` | done, proved | `helm install`, `docker run`, `check_health` and `helm uninstall` with their retries and timeouts |
| 6 | `Exports` beside `TrialWindow` | done, proved | every export and its loops |
| 7 | proofs | done for safety | every safety property of a passing run is proved; of liveness, that nothing goes on for ever, not that it goes on |
| 8 | `Runner` | done, proved | the lifecycle and the exports in one process |

## 9. Running it

    tlc -workers 2 -config LifecycleRaces.cfg MCBenchmarkLifecycle.tla
    tlapm BenchmarkLifecycleProofs.tla

Each `.cfg` belongs to the module `PROJECT.json` names for it. A passing run takes about a minute with two workers, a violation a few seconds, and the eight proof modules together some minutes.

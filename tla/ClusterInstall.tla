--------------------------- MODULE ClusterInstall ---------------------------
(***************************************************************************)
(* The installation of the Kubernetes cluster by POST /initialize:         *)
(* KubernetesManager.install_cluster over SSHClient, one manager and one   *)
(* client for each call.  kubeadm runs on the nodes over SSH; then the     *)
(* nodes are polled until all are Ready; then the drivers, Prometheus and  *)
(* the operators are installed by local commands.                          *)
(*                                                                         *)
(* Calls may overlap, and a call may follow one that failed; they meet in  *)
(* the cluster only.  The commands have no timeout and their durations     *)
(* matter to nothing here, so only the readiness poll has a clock, which   *)
(* counts from the beginning of that poll.                                 *)
(***************************************************************************)
EXTENDS Integers, FiniteSets

CONSTANTS
  Calls,                    \* the requests that get as far as the installation
  ControlPlane, Workers,    \* the hosts they name
  Nobody,                   \* no host
  ReadinessTimeout, PollInterval,
  CriticalTimeout,          \* CRITICAL_CONDITION_TIMEOUT
  CallTime,                 \* within which a list of the nodes is answered
  MaxAttempts               \* of a kubectl apply

Hosts == {ControlPlane} \union Workers

ASSUME InstallAssumption ==
  /\ IsFiniteSet(Workers)
  /\ ControlPlane \notin Workers
  /\ Nobody \notin Hosts
  /\ ReadinessTimeout \in Nat \ {0}
  /\ PollInterval \in Nat \ {0}
  /\ CriticalTimeout \in Nat
  /\ CallTime \in Nat
  /\ MaxAttempts \in Nat \ {0}

VARIABLES
  members,            \* the hosts that are nodes of the cluster
  releases,           \* the Helm releases that "helm install" created in it
  pc, answer,         \* by call, the step it is at and how it ended
  conn, togo,         \* the host its SSH client is connected to; workers to join
  attempt,            \* of the kubectl apply it is at
  elapsed, due,       \* the clock of its readiness poll and the next deadline
  first,              \* critical_first_seen
  readyAt,            \* history: when a node was last listed Ready,
  criticalAt,         \* all the times it was listed critical,
  steadyFrom,         \* and since when every list had it so
  admitted            \* history: the calls whose kubeadm init succeeded

clusterVars == <<members, releases, admitted>>
pollVars == <<elapsed, due, first, readyAt, criticalAt, steadyFrom>>
sshVars == <<conn, togo>>
vars == <<clusterVars, pc, answer, sshVars, attempt, pollVars>>

Never == -1
NoAnswer == [error |-> "none", node |-> Nobody]

Init ==
  /\ members = {}
  /\ releases = {}
  /\ admitted = {}
  /\ pc = [c \in Calls |-> "idle"]
  /\ answer = [c \in Calls |-> NoAnswer]
  /\ conn = [c \in Calls |-> Nobody]
  /\ togo = [c \in Calls |-> Workers]
  /\ attempt = [c \in Calls |-> 1]
  /\ elapsed = [c \in Calls |-> 0]
  /\ due = [c \in Calls |-> 0]
  /\ first = [c \in Calls |-> [n \in Hosts |-> Never]]
  /\ readyAt = [c \in Calls |-> [n \in Hosts |-> Never]]
  /\ criticalAt = [c \in Calls |-> [n \in Hosts |-> {}]]
  /\ steadyFrom = [c \in Calls |-> [n \in Hosts |-> Never]]

Go(c, step) ==
  /\ pc' = [pc EXCEPT ![c] = step]
  /\ UNCHANGED answer

Fail(c, error, node) ==
  /\ pc' = [pc EXCEPT ![c] = "failed"]
  /\ answer' = [answer EXCEPT ![c] = [error |-> error, node |-> node]]

Begin(c) ==
  /\ pc[c] = "idle"
  /\ Go(c, "kubeadm_init")
  /\ UNCHANGED <<clusterVars, sshVars, attempt, pollVars>>

---------------------------------------------------------------------------
(* Commands on the nodes *)

OnControlPlane ==
  {"kubeadm_init", "setup_kubeconfig", "copy_kubeconfig", "flannel", "join_token"}
SshSteps == OnControlPlane \union {"join"}

Targets(c) == IF pc[c] = "join" THEN togo[c] ELSE {ControlPlane}

Connect(c) ==
  /\ pc[c] \in SshSteps
  /\ conn[c] = Nobody
  /\ \E host \in Targets(c) :
       \/ /\ conn' = [conn EXCEPT ![c] = host]
          /\ UNCHANGED <<pc, answer>>
       \/ /\ Fail(c, "kubernetes_install_failed", host)
          /\ UNCHANGED conn
  /\ UNCHANGED <<clusterVars, togo, attempt, pollVars>>

Close(c) == conn' = [conn EXCEPT ![c] = Nobody]

\* The command ran and ended with 0.
Succeed(c, next) == Close(c) /\ Go(c, next)

\* An exit status other than 0, or none, is an SSHError and closes the
\* connection.  The exceptions of asyncssh itself pass execute by, and leave it
\* open.
FailOver(c) ==
  \/ Close(c) /\ Fail(c, "kubernetes_install_failed", conn[c])
  \/ UNCHANGED conn /\ Fail(c, "kubernetes_install_failed", Nobody)

At(c, step) == pc[c] = step /\ (step \in SshSteps => conn[c] # Nobody)

\* kubeadm init refuses a host that is a control plane already.
KubeadmInit(fails) ==
  \/ ~fails /\ members = {} /\ members' = {ControlPlane}
  \/ fails /\ members' \in {members, members \union {ControlPlane}}

\* kubeadm join refuses a host that is a node already.
KubeadmJoin(host, fails) ==
  \/ ~fails /\ host \notin members /\ members' = members \union {host}
  \/ fails /\ members' \in {members, members \union {host}}

\* Mutant: what kubeadm init returns is not looked at.
InitControlPlaneBlindly(c) ==
  /\ At(c, "kubeadm_init")
  /\ \E fails \in BOOLEAN : KubeadmInit(fails)
  /\ Succeed(c, "setup_kubeconfig")
  /\ admitted' = admitted \union {c}
  /\ UNCHANGED <<releases, togo, attempt, pollVars>>

InitControlPlane(c) ==
  /\ At(c, "kubeadm_init")
  /\ \/ /\ KubeadmInit(FALSE)
        /\ Succeed(c, "setup_kubeconfig")
        /\ admitted' = admitted \union {c}
     \/ /\ KubeadmInit(TRUE)
        /\ FailOver(c)
        /\ UNCHANGED admitted
  /\ UNCHANGED <<releases, togo, attempt, pollVars>>

\* A command on the control plane that nothing below depends on.
Remote(c, step, next) ==
  /\ At(c, step)
  /\ Succeed(c, next) \/ FailOver(c)
  /\ UNCHANGED <<clusterVars, togo, attempt, pollVars>>

\* The errors of scp are SSHErrors; one of the mkdir before it, which is local and
\* outside the try, leaves the connection open like those of asyncssh above.
CopyKubeconfig(c) ==
  \/ Remote(c, "setup_kubeconfig", "copy_kubeconfig")
  \/ Remote(c, "copy_kubeconfig", "flannel")

InstallFlannel(c) == Remote(c, "flannel", "join_token")

AfterToken == IF Workers = {} THEN "polling" ELSE "join"

GetJoinToken(c) == Remote(c, "join_token", AfterToken)

\* One worker after another; the order of the list is not kept.
JoinWorker(c) ==
  /\ At(c, "join")
  /\ LET left == togo[c] \ {conn[c]} IN
       \/ /\ KubeadmJoin(conn[c], FALSE)
          /\ togo' = [togo EXCEPT ![c] = left]
          /\ Succeed(c, IF left = {} THEN "polling" ELSE "join")
       \/ /\ KubeadmJoin(conn[c], TRUE)
          /\ FailOver(c)
          /\ UNCHANGED togo
  /\ UNCHANGED <<releases, admitted, attempt, pollVars>>

SshStep(c) ==
  \/ Connect(c)
  \/ InitControlPlane(c)
  \/ CopyKubeconfig(c)
  \/ InstallFlannel(c)
  \/ GetJoinToken(c)
  \/ JoinWorker(c)

---------------------------------------------------------------------------
(* The readiness poll *)

\* What a list says of a node: Ready; not Ready for one of the
\* CRITICAL_NOT_READY_REASONS; not Ready for another reason; nothing.
Reading == {"ready", "critical", "other", "nothing"}

\* Nodes come and go between Ready and not Ready at any time.
Lists == {list \in [Hosts -> Reading] : \A n \in Hosts \ members : list[n] = "nothing"}

ExpectedNodeCount == 1 + Cardinality(Workers)
ReadyCount(list) == Cardinality({n \in Hosts : list[n] = "ready"})

\* Mutant: the control plane is not counted.
AllReadyButOne(list) == ReadyCount(list) >= Cardinality(Workers)

AllReady(list) == ReadyCount(list) >= ExpectedNodeCount

\* Mutant: every critical list starts the timer.
StartTimersAgain(c, list) ==
  [n \in Hosts |->
    CASE list[n] = "ready" -> Never
      [] list[n] = "critical" -> elapsed[c]
      [] OTHER -> first[c][n]]

\* Mutant: any reason not to be Ready starts the timer.
StartTimersOnAnyReason(c, list) ==
  [n \in Hosts |->
    CASE list[n] = "ready" -> Never
      [] list[n] \in {"critical", "other"} /\ first[c][n] = Never -> elapsed[c]
      [] OTHER -> first[c][n]]

\* Ready clears the timer of a node, a critical reason starts it; with another
\* reason, or none, it runs on.
Timers(c, list) ==
  [n \in Hosts |->
    CASE list[n] = "ready" -> Never
      [] list[n] = "critical" /\ first[c][n] = Never -> elapsed[c]
      [] OTHER -> first[c][n]]

Expired(c, list) ==
  {n \in Hosts :
    /\ list[n] = "critical"
    /\ first[c][n] # Never
    /\ elapsed[c] - first[c][n] > CriticalTimeout}

Observe(c, list) ==
  /\ readyAt' = [readyAt EXCEPT ![c] =
       [n \in Hosts |-> IF list[n] = "ready" THEN elapsed[c] ELSE @[n]]]
  /\ criticalAt' = [criticalAt EXCEPT ![c] =
       [n \in Hosts |-> IF list[n] = "critical" THEN @[n] \union {elapsed[c]} ELSE @[n]]]
  /\ steadyFrom' = [steadyFrom EXCEPT ![c] =
       [n \in Hosts |->
         CASE list[n] # "critical" -> Never
           [] list[n] = "critical" /\ @[n] = Never -> elapsed[c]
           [] OTHER -> @[n]]]

PollWithin(c, step, time) ==
  /\ Go(c, step)
  /\ due' = [due EXCEPT ![c] = elapsed[c] + time]

\* Mutant: the loop has no timeout.
PollForever(c) ==
  /\ pc[c] = "polling"
  /\ elapsed[c] >= due[c]
  /\ PollWithin(c, "listing", CallTime)
  /\ UNCHANGED <<clusterVars, sshVars, attempt, elapsed, first, readyAt, criticalAt, steadyFrom>>

\* Mutant: start_time is read inside the loop.
PollFromNow(c) ==
  /\ pc[c] = "polling"
  /\ elapsed[c] >= due[c]
  /\ Go(c, "listing")
  /\ elapsed' = [elapsed EXCEPT ![c] = 0]
  /\ due' = [due EXCEPT ![c] = CallTime]
  /\ UNCHANGED <<clusterVars, sshVars, attempt, first, readyAt, criticalAt, steadyFrom>>

\* The top of the loop.
Poll(c) ==
  /\ pc[c] = "polling"
  /\ elapsed[c] >= due[c]
  /\ PollWithin(c, IF elapsed[c] >= ReadinessTimeout THEN "reporting" ELSE "listing", CallTime)
  /\ UNCHANGED <<clusterVars, sshVars, attempt, elapsed, first, readyAt, criticalAt, steadyFrom>>

\* The nodes are looked at one by one and the first whose timer has run out ends
\* the call.  Otherwise, if all are Ready, the poll is over and its variables
\* are gone; there is no namespace to be created.
Listed(c) ==
  /\ pc[c] = "listing"
  /\ \E list \in Lists :
       /\ Observe(c, list)
       /\ IF Expired(c, list) # {}
            THEN /\ \E n \in Expired(c, list) : Fail(c, "node_critical", n)
                 /\ UNCHANGED <<elapsed, due, first>>
            ELSE IF AllReady(list)
            THEN /\ Go(c, "ebs_repo")
                 /\ elapsed' = [elapsed EXCEPT ![c] = 0]
                 /\ due' = [due EXCEPT ![c] = 0]
                 /\ first' = [first EXCEPT ![c] = [n \in Hosts |-> Never]]
            ELSE /\ first' = [first EXCEPT ![c] = Timers(c, list)]
                 /\ PollWithin(c, "polling", PollInterval)
                 /\ UNCHANGED elapsed
  /\ UNCHANGED <<clusterVars, sshVars, attempt>>

\* The list is not guarded: its errors end the call.
ListFails(c) ==
  /\ pc[c] = "listing"
  /\ Fail(c, "kubernetes_install_failed", Nobody)
  /\ UNCHANGED <<clusterVars, sshVars, attempt, pollVars>>

\* _get_unready_nodes is read for the message only, and its errors are ignored.
Report(c) ==
  /\ pc[c] = "reporting"
  /\ Fail(c, "node_readiness_failed", Nobody)
  /\ UNCHANGED <<clusterVars, sshVars, attempt, pollVars>>

Tick(c) ==
  /\ pc[c] \in {"polling", "listing", "reporting"}
  /\ elapsed[c] < due[c]
  /\ elapsed' = [elapsed EXCEPT ![c] = @ + 1]
  /\ UNCHANGED <<clusterVars, pc, answer, sshVars, attempt, due, first, readyAt, criticalAt, steadyFrom>>

WaitStep(c) == Poll(c) \/ Listed(c) \/ ListFails(c) \/ Report(c) \/ Tick(c)

---------------------------------------------------------------------------
(* Local commands *)

Local(c) == UNCHANGED <<members, admitted, sshVars, pollVars>>

\* A command that may be repeated, or changes nothing.
Command(c, step, next) ==
  /\ pc[c] = step
  /\ Go(c, next) \/ Fail(c, "kubernetes_install_failed", Nobody)
  /\ Local(c)
  /\ UNCHANGED <<releases, attempt>>

\* Mutant: a failed helm install is tried again, as the one of GlobeCo is.
HelmInstallWithRetry(c, release, next) ==
  /\ pc[c] = release
  /\ \/ release \notin releases /\ releases' = releases \union {release} /\ Go(c, next)
     \/ releases' \in {releases, releases \union {release}} /\ UNCHANGED <<pc, answer>>
  /\ Local(c)
  /\ UNCHANGED attempt

\* helm install refuses a name in use; when it fails for another reason, the
\* release may be there or not.
HelmInstall(c, release, next) ==
  /\ pc[c] = release
  /\ \/ release \notin releases /\ releases' = releases \union {release} /\ Go(c, next)
     \/ /\ releases' \in {releases, releases \union {release}}
        /\ Fail(c, "kubernetes_install_failed", Nobody)
  /\ Local(c)
  /\ UNCHANGED attempt

\* Mutant: one attempt too many.
ApplyWithOneMoreRetry(c, step, next) ==
  /\ pc[c] = step
  /\ \/ Go(c, next) /\ attempt' = [attempt EXCEPT ![c] = 1]
     \/ /\ attempt[c] <= MaxAttempts
        /\ attempt' = [attempt EXCEPT ![c] = @ + 1]
        /\ UNCHANGED <<pc, answer>>
  /\ Local(c)
  /\ UNCHANGED releases

\* Tried again when the failure looks transient, or is an exception.
ApplyWithRetry(c, step, next) ==
  /\ pc[c] = step
  /\ \/ Go(c, next) /\ attempt' = [attempt EXCEPT ![c] = 1]
     \/ /\ attempt[c] < MaxAttempts
        /\ attempt' = [attempt EXCEPT ![c] = @ + 1]
        /\ UNCHANGED <<pc, answer>>
     \/ Fail(c, "kubernetes_install_failed", Nobody) /\ UNCHANGED attempt
  /\ Local(c)
  /\ UNCHANGED releases

InstallEbsCsi(c) ==
  \/ Command(c, "ebs_repo", "ebs_upgrade")
  \/ Command(c, "ebs_upgrade", "storage_class")
  \/ Command(c, "storage_class", "efs_repo")

InstallEfsCsi(c) ==
  \/ Command(c, "efs_repo", "efs")
  \/ HelmInstall(c, "efs", "prometheus_repo")

InstallPrometheus(c) ==
  \/ Command(c, "prometheus_repo", "prometheus")
  \/ HelmInstall(c, "prometheus", "cert_manager")

\* A probe of the webhook that fails is only logged.
ProbeWebhook(c) ==
  /\ pc[c] = "webhook_probe"
  /\ Go(c, "operator")
  /\ Local(c)
  /\ UNCHANGED <<releases, attempt>>

InstallOtelCollector(c) ==
  \/ ApplyWithRetry(c, "cert_manager", "cert_manager_wait")
  \/ Command(c, "cert_manager_wait", "webhook_wait")
  \/ Command(c, "webhook_wait", "webhook_probe")
  \/ ProbeWebhook(c)
  \/ ApplyWithRetry(c, "operator", "operator_wait")
  \/ \E next \in {"vpa_clone", "keda_repo", "installed"} :  \* the autoscaler asked for
       Command(c, "operator_wait", next)

InstallVpa(c) ==
  \/ Command(c, "vpa_clone", "vpa_up")
  \/ Command(c, "vpa_up", "vpa_wait")
  \/ Command(c, "vpa_wait", "installed")

InstallKeda(c) ==
  \/ Command(c, "keda_repo", "keda")
  \/ HelmInstall(c, "keda", "keda_wait")
  \/ Command(c, "keda_wait", "installed")

LocalStep(c) ==
  \/ InstallEbsCsi(c)
  \/ InstallEfsCsi(c)
  \/ InstallPrometheus(c)
  \/ InstallOtelCollector(c)
  \/ InstallVpa(c)
  \/ InstallKeda(c)

Next == \E c \in Calls : Begin(c) \/ SshStep(c) \/ WaitStep(c) \/ LocalStep(c)

Spec == Init /\ [][Next]_vars

\* Time passes, lists are answered within CallTime, and the event loop runs what
\* is due.  No command is bound to end, neither over SSH nor locally.
FairSpec == Spec /\ \A c \in Calls : WF_vars(WaitStep(c))

---------------------------------------------------------------------------
(* Type invariant *)

\* The steps in their order, with the last release that precedes each.
Waiting == {"polling", "listing", "reporting"}
BeforeEfs == {"ebs_repo", "ebs_upgrade", "storage_class", "efs_repo", "efs"}
BeforePrometheus == {"prometheus_repo", "prometheus"}
BeforeKeda ==
  {"cert_manager", "cert_manager_wait", "webhook_wait", "webhook_probe", "operator",
   "operator_wait", "keda_repo", "keda"}
Afterwards == {"keda_wait", "vpa_clone", "vpa_up", "vpa_wait", "installed"}
LocalSteps == BeforeEfs \union BeforePrometheus \union BeforeKeda \union Afterwards
Steps == {"idle", "failed"} \union SshSteps \union Waiting \union LocalSteps

Errors == {"none", "kubernetes_install_failed", "node_critical", "node_readiness_failed"}
Moments == Nat \union {Never}

TypeOK ==
  /\ members \in SUBSET Hosts
  /\ releases \in SUBSET {"efs", "prometheus", "keda"}
  /\ admitted \in SUBSET Calls
  /\ pc \in [Calls -> Steps]
  /\ answer \in [Calls -> [error : Errors, node : Hosts \union {Nobody}]]
  /\ conn \in [Calls -> Hosts \union {Nobody}]
  /\ togo \in [Calls -> SUBSET Workers]
  /\ attempt \in [Calls -> 1..MaxAttempts]
  /\ elapsed \in [Calls -> Nat]
  /\ due \in [Calls -> Nat]
  /\ first \in [Calls -> [Hosts -> Moments]]
  /\ readyAt \in [Calls -> [Hosts -> Moments]]
  /\ criticalAt \in [Calls -> [Hosts -> SUBSET Nat]]
  /\ steadyFrom \in [Calls -> [Hosts -> Moments]]

---------------------------------------------------------------------------
(* Safety *)

\* However calls overlap or follow each other, at most one of them installs the
\* cluster: kubeadm init refuses the others before they touch anything else.  An
\* installation that fails after it is not taken up by any later call.
OneInstallation == \A c, d \in admitted : c = d

\* helm install is not repeatable, and no call ever repeats it: a release is
\* not there yet when a call comes to install it.
NoReleaseClash ==
  \A c \in Calls : pc[c] \in {"efs", "prometheus", "keda"} => pc[c] \notin releases

\* Nothing is installed before one and the same list had every host of the
\* request Ready: counting stands for naming them.
ChartsOnReadyCluster ==
  \A c \in Calls :
    pc[c] \in LocalSteps =>
      \A m, n \in Hosts : readyAt[c][m] = readyAt[c][n] /\ readyAt[c][n] # Never

\* A call is given up for a critical node only if a list of more than
\* CriticalTimeout ago had it critical, no list since had it Ready, and the last
\* has it critical again: no other reason, and no wait, stands for the first list.
CriticalWasNeverReady ==
  \A c \in Calls :
    answer[c].error = "node_critical" =>
      LET n == answer[c].node IN
        /\ steadyFrom[c][n] # Never
        /\ \E t \in criticalAt[c][n] :
             elapsed[c] - t > CriticalTimeout /\ readyAt[c][n] <= t

\* No poll goes on with a node that every list of more than CriticalTimeout had
\* critical.
SteadyTroubleEndsPoll ==
  \A c \in Calls : \A n \in Hosts :
    pc[c] = "polling" /\ steadyFrom[c][n] # Never =>
      due[c] - PollInterval - steadyFrom[c][n] <= CriticalTimeout

\* The poll overruns its timeout by no more than a list that was begun in time,
\* the sleep after it, and the list for the message.
PollIsBounded ==
  \A c \in Calls : elapsed[c] <= ReadinessTimeout - 1 + 2 * CallTime + PollInterval

---------------------------------------------------------------------------
(* Liveness *)

\* A readiness poll ends, whatever the nodes do.
EveryPollEnds == \A c \in Calls : pc[c] \in Waiting ~> pc[c] \notin Waiting
=============================================================================

------------------------ MODULE ClusterInstallProofs ------------------------
(***************************************************************************)
(* At most one call installs the cluster, it installs nothing twice and    *)
(* nothing on a cluster that is not ready, and the readiness poll keeps    *)
(* its two timeouts, for every set of calls and hosts and every timing.    *)
(***************************************************************************)
EXTENDS ClusterInstall, FiniteSetTheorems, TLAPS

---------------------------------------------------------------------------
(* The inductive invariant *)

\* Whoever is past kubeadm init was admitted, and whoever was admitted made the
\* cluster.
Admission ==
  /\ OneInstallation
  /\ admitted # {} => members # {}
  /\ \A c \in Calls :
       IF pc[c] \in {"idle", "kubeadm_init"} THEN c \notin admitted
       ELSE c \in admitted \/ pc[c] = "failed"

\* By step of the call that installs, the releases it has still to make.
StillToCome(step) ==
  IF step \in SshSteps \union Waiting \union BeforeEfs THEN {"efs", "prometheus", "keda"}
  ELSE IF step \in BeforePrometheus THEN {"prometheus", "keda"}
  ELSE IF step \in BeforeKeda THEN {"keda"}
  ELSE {}

ReleasesInOrder ==
  /\ releases # {} => admitted # {}
  /\ \A c \in admitted : StillToCome(pc[c]) \intersect releases = {}

\* The poll has not begun.
Fresh ==
  \A c \in Calls : pc[c] \in {"idle"} \union SshSteps =>
    /\ elapsed[c] = 0 /\ due[c] = 0 /\ answer[c].error = "none"
    /\ \A n \in Hosts : first[c][n] = Never /\ readyAt[c][n] = Never /\ steadyFrom[c][n] = Never

\* The code's timer of a node was started by a list that had it critical, no later
\* than the node's unbroken trouble began, and after the last list that had it
\* Ready.
TimersCover ==
  \A c \in Calls : pc[c] \in Waiting =>
    /\ answer[c].error = "none"
    /\ \A n \in Hosts :
         /\ readyAt[c][n] <= elapsed[c] /\ first[c][n] <= elapsed[c]
         /\ first[c][n] # Never =>
              readyAt[c][n] <= first[c][n] /\ first[c][n] \in criticalAt[c][n]
         /\ steadyFrom[c][n] # Never => first[c][n] # Never /\ first[c][n] <= steadyFrom[c][n]

\* By when each stage of the poll is over.
LastList == ReadinessTimeout - 1
Limit(step) ==
  CASE step = "polling"   -> LastList + CallTime + PollInterval
    [] step = "listing"   -> LastList + CallTime
    [] step = "reporting" -> LastList + CallTime + PollInterval + CallTime

DeadlinesKept ==
  /\ PollIsBounded
  /\ \A c \in Calls : pc[c] \in Waiting => elapsed[c] <= due[c] /\ due[c] <= Limit(pc[c])

Verdicts ==
  /\ ChartsOnReadyCluster
  /\ CriticalWasNeverReady
  /\ SteadyTroubleEndsPoll

InstallInv ==
  Admission /\ ReleasesInOrder /\ Fresh /\ TimersCover /\ DeadlinesKept /\ Verdicts

---------------------------------------------------------------------------
(* Type correctness *)

LEMMA HostsFinite ==
  IsFiniteSet(Hosts) /\ Cardinality(Hosts) = ExpectedNodeCount /\ ExpectedNodeCount \in Nat
<1>1. IsFiniteSet(Workers) /\ ControlPlane \notin Workers
  BY InstallAssumption
<1>2. /\ IsFiniteSet(Workers \union {ControlPlane})
      /\ Cardinality(Workers \union {ControlPlane}) = Cardinality(Workers) + 1
  BY <1>1, FS_AddElement
<1>3. Hosts = Workers \union {ControlPlane}
  BY DEF Hosts
<1>4. Cardinality(Workers) \in Nat
  BY <1>1, FS_CardinalityType
<1>. QED
  BY <1>2, <1>3, <1>4 DEF ExpectedNodeCount

LEMMA InitType == Init => TypeOK
BY InstallAssumption DEF Init, TypeOK, NoAnswer, Errors, Steps, Moments

LEMMA GoType ==
  ASSUME TypeOK, NEW c \in Calls, NEW step \in Steps, Go(c, step)
  PROVE  /\ pc' \in [Calls -> Steps]
         /\ answer' \in [Calls -> [error : Errors, node : Hosts \union {Nobody}]]
BY DEF Go, TypeOK

LEMMA FailType ==
  ASSUME TypeOK, NEW c \in Calls, NEW error \in Errors, NEW node \in Hosts \union {Nobody},
         Fail(c, error, node)
  PROVE  /\ pc' \in [Calls -> Steps]
         /\ answer' \in [Calls -> [error : Errors, node : Hosts \union {Nobody}]]
BY DEF Fail, TypeOK, Steps

LEMMA SucceedType ==
  ASSUME TypeOK, NEW c \in Calls, NEW step \in Steps, Succeed(c, step)
  PROVE  /\ pc' \in [Calls -> Steps]
         /\ answer' \in [Calls -> [error : Errors, node : Hosts \union {Nobody}]]
         /\ conn' \in [Calls -> Hosts \union {Nobody}]
BY GoType DEF Succeed, Close, TypeOK

LEMMA FailOverType ==
  ASSUME TypeOK, NEW c \in Calls, FailOver(c)
  PROVE  /\ pc' \in [Calls -> Steps]
         /\ answer' \in [Calls -> [error : Errors, node : Hosts \union {Nobody}]]
         /\ conn' \in [Calls -> Hosts \union {Nobody}]
<1>1. conn[c] \in Hosts \union {Nobody} /\ "kubernetes_install_failed" \in Errors
  BY DEF TypeOK, Errors
<1>2. CASE Close(c) /\ Fail(c, "kubernetes_install_failed", conn[c])
  BY <1>1, <1>2, FailType DEF Close, TypeOK
<1>3. CASE UNCHANGED conn /\ Fail(c, "kubernetes_install_failed", Nobody)
  BY <1>1, <1>3, FailType DEF TypeOK
<1>. QED
  BY <1>2, <1>3 DEF FailOver

LEMMA SshStepsAreSteps ==
  /\ SshSteps \subseteq Steps /\ Waiting \subseteq Steps /\ LocalSteps \subseteq Steps
  /\ "failed" \in Steps /\ "idle" \in Steps
BY DEF Steps

LEMMA SshType ==
  ASSUME TypeOK, NEW c \in Calls, SshStep(c)
  PROVE  TypeOK'
<1>1. ASSUME NEW step, NEW next \in Steps, Remote(c, step, next)
      PROVE  TypeOK'
  <2>1. /\ pc' \in [Calls -> Steps]
        /\ answer' \in [Calls -> [error : Errors, node : Hosts \union {Nobody}]]
        /\ conn' \in [Calls -> Hosts \union {Nobody}]
    BY <1>1, SucceedType, FailOverType DEF Remote
  <2>. QED
    BY <1>1, <2>1 DEF Remote, clusterVars, pollVars, TypeOK
<1>2. CASE Connect(c)
  <2>1. PICK host \in Targets(c) :
          \/ conn' = [conn EXCEPT ![c] = host] /\ UNCHANGED <<pc, answer>>
          \/ Fail(c, "kubernetes_install_failed", host) /\ UNCHANGED conn
    BY <1>2 DEF Connect
  <2>2. host \in Hosts
    BY DEF Targets, TypeOK, Hosts
  <2>3. /\ pc' \in [Calls -> Steps]
        /\ answer' \in [Calls -> [error : Errors, node : Hosts \union {Nobody}]]
        /\ conn' \in [Calls -> Hosts \union {Nobody}]
    <3>1. "kubernetes_install_failed" \in Errors /\ host \in Hosts \union {Nobody}
      BY <2>2 DEF Errors
    <3>2. CASE conn' = [conn EXCEPT ![c] = host] /\ UNCHANGED <<pc, answer>>
      BY <3>1, <3>2 DEF TypeOK
    <3>3. CASE Fail(c, "kubernetes_install_failed", host) /\ UNCHANGED conn
      BY <3>1, <3>3, FailType DEF TypeOK
    <3>. QED
      BY <2>1, <3>2, <3>3
  <2>. QED
    BY <1>2, <2>3 DEF Connect, clusterVars, pollVars, TypeOK
<1>3. CASE InitControlPlane(c)
  <2>1. /\ pc' \in [Calls -> Steps]
        /\ answer' \in [Calls -> [error : Errors, node : Hosts \union {Nobody}]]
        /\ conn' \in [Calls -> Hosts \union {Nobody}]
    BY <1>3, SucceedType, FailOverType, SshStepsAreSteps
    DEF InitControlPlane, SshSteps, OnControlPlane
  <2>2. members' \in SUBSET Hosts /\ admitted' \in SUBSET Calls
    BY <1>3 DEF InitControlPlane, KubeadmInit, TypeOK, Hosts
  <2>. QED
    BY <1>3, <2>1, <2>2 DEF InitControlPlane, pollVars, TypeOK
<1>4. CASE CopyKubeconfig(c)
  BY <1>1, <1>4, SshStepsAreSteps DEF CopyKubeconfig, SshSteps, OnControlPlane
<1>5. CASE InstallFlannel(c)
  BY <1>1, <1>5, SshStepsAreSteps DEF InstallFlannel, SshSteps, OnControlPlane
<1>6. CASE GetJoinToken(c)
  BY <1>1, <1>6, SshStepsAreSteps DEF GetJoinToken, AfterToken, SshSteps, Waiting
<1>7. CASE JoinWorker(c)
  <2>. DEFINE left == togo[c] \ {conn[c]}
  <2>1. (IF left = {} THEN "polling" ELSE "join") \in Steps
    BY SshStepsAreSteps DEF SshSteps, Waiting
  <2>2. /\ pc' \in [Calls -> Steps]
        /\ answer' \in [Calls -> [error : Errors, node : Hosts \union {Nobody}]]
        /\ conn' \in [Calls -> Hosts \union {Nobody}]
    BY <1>7, <2>1, SucceedType, FailOverType DEF JoinWorker
  <2>3. conn[c] \in Hosts
    BY <1>7 DEF JoinWorker, At, SshSteps, TypeOK
  <2>4. members' \in SUBSET Hosts /\ togo' \in [Calls -> SUBSET Workers]
    <3>1. members \in SUBSET Hosts /\ togo \in [Calls -> SUBSET Workers]
      BY DEF TypeOK
    <3>. QED
      BY <1>7, <2>3, <3>1 DEF JoinWorker, KubeadmJoin
  <2>. QED
    BY <1>7, <2>2, <2>4 DEF JoinWorker, pollVars, TypeOK
<1>. QED
  BY <1>2, <1>3, <1>4, <1>5, <1>6, <1>7 DEF SshStep

LEMMA TimersType ==
  ASSUME TypeOK, NEW c \in Calls, NEW list \in Lists
  PROVE  Timers(c, list) \in [Hosts -> Moments]
BY DEF Timers, TypeOK, Moments

LEMMA ObserveType ==
  ASSUME TypeOK, NEW c \in Calls, NEW list \in Lists, Observe(c, list)
  PROVE  /\ readyAt' \in [Calls -> [Hosts -> Moments]]
         /\ criticalAt' \in [Calls -> [Hosts -> SUBSET Nat]]
         /\ steadyFrom' \in [Calls -> [Hosts -> Moments]]
<1>1. /\ elapsed[c] \in Moments /\ elapsed[c] \in Nat
      /\ criticalAt[c] \in [Hosts -> SUBSET Nat]
      /\ readyAt[c] \in [Hosts -> Moments] /\ steadyFrom[c] \in [Hosts -> Moments]
      /\ Never \in Moments
  BY DEF TypeOK, Moments
<1>2. [n \in Hosts |-> IF list[n] = "ready" THEN elapsed[c] ELSE readyAt[c][n]]
        \in [Hosts -> Moments]
  BY <1>1
<1>3. [n \in Hosts |->
         CASE list[n] # "critical" -> Never
           [] list[n] = "critical" /\ steadyFrom[c][n] = Never -> elapsed[c]
           [] OTHER -> steadyFrom[c][n]] \in [Hosts -> Moments]
  BY <1>1
<1>4. [n \in Hosts |->
         IF list[n] = "critical" THEN criticalAt[c][n] \union {elapsed[c]}
         ELSE criticalAt[c][n]] \in [Hosts -> SUBSET Nat]
  BY <1>1
<1>. QED
  BY <1>2, <1>3, <1>4 DEF Observe, TypeOK

LEMMA WaitType ==
  ASSUME TypeOK, NEW c \in Calls, WaitStep(c)
  PROVE  TypeOK'
<1>1. CallTime \in Nat /\ PollInterval \in Nat /\ elapsed[c] \in Nat
  BY InstallAssumption DEF TypeOK
<1>2. CASE Poll(c)
  <2>1. (IF elapsed[c] >= ReadinessTimeout THEN "reporting" ELSE "listing") \in Steps
    BY DEF Steps, Waiting
  <2>2. /\ pc' \in [Calls -> Steps]
        /\ answer' \in [Calls -> [error : Errors, node : Hosts \union {Nobody}]]
    BY <1>2, <2>1, GoType DEF Poll, PollWithin
  <2>3. due' \in [Calls -> Nat]
    BY <1>1, <1>2 DEF Poll, PollWithin, TypeOK
  <2>. QED
    BY <1>2, <2>2, <2>3 DEF Poll, clusterVars, sshVars, TypeOK
<1>3. CASE Listed(c)
  <2>1. PICK list \in Lists :
          /\ Observe(c, list)
          /\ IF Expired(c, list) # {}
               THEN /\ \E n \in Expired(c, list) : Fail(c, "node_critical", n)
                    /\ UNCHANGED <<elapsed, due, first>>
               ELSE IF AllReady(list)
               THEN /\ Go(c, "ebs_repo")
                    /\ elapsed' = [elapsed EXCEPT ![c] = 0]
                    /\ due' = [due EXCEPT ![c] = 0]
                    /\ first' = [first EXCEPT ![c] = [n \in Hosts |-> Never]]
               ELSE /\ first' = [first EXCEPT ![c] = Timers(c, list)]
                    /\ PollWithin(c, "polling", PollInterval)
                    /\ UNCHANGED elapsed
    BY <1>3 DEF Listed
  <2>2. /\ pc' \in [Calls -> Steps]
        /\ answer' \in [Calls -> [error : Errors, node : Hosts \union {Nobody}]]
        /\ elapsed' \in [Calls -> Nat] /\ due' \in [Calls -> Nat]
        /\ first' \in [Calls -> [Hosts -> Moments]]
    <3>1. CASE Expired(c, list) # {}
      BY <2>1, <3>1, FailType DEF Expired, Errors, TypeOK
    <3>2. CASE Expired(c, list) = {} /\ AllReady(list)
      <4>1. "ebs_repo" \in Steps
        BY SshStepsAreSteps DEF LocalSteps, BeforeEfs
      <4>2. [n \in Hosts |-> Never] \in [Hosts -> Moments]
        BY DEF Moments
      <4>3. /\ Go(c, "ebs_repo")
            /\ elapsed' = [elapsed EXCEPT ![c] = 0]
            /\ due' = [due EXCEPT ![c] = 0]
            /\ first' = [first EXCEPT ![c] = [n \in Hosts |-> Never]]
        BY <2>1, <3>2
      <4>4. /\ pc' \in [Calls -> Steps]
            /\ answer' \in [Calls -> [error : Errors, node : Hosts \union {Nobody}]]
        BY <4>1, <4>3, GoType
      <4>5. first' \in [Calls -> [Hosts -> Moments]]
        BY <4>2, <4>3 DEF TypeOK
      <4>. QED
        BY <4>3, <4>4, <4>5 DEF TypeOK
    <3>3. CASE Expired(c, list) = {} /\ ~AllReady(list)
      <4>1. "polling" \in Steps
        BY SshStepsAreSteps DEF Waiting
      <4>2. /\ first' = [first EXCEPT ![c] = Timers(c, list)]
            /\ Go(c, "polling")
            /\ due' = [due EXCEPT ![c] = elapsed[c] + PollInterval]
            /\ UNCHANGED elapsed
        BY <2>1, <3>3 DEF PollWithin
      <4>3. /\ pc' \in [Calls -> Steps]
            /\ answer' \in [Calls -> [error : Errors, node : Hosts \union {Nobody}]]
        BY <4>1, <4>2, GoType
      <4>4. first' \in [Calls -> [Hosts -> Moments]]
        BY <4>2, TimersType DEF TypeOK
      <4>5. elapsed[c] + PollInterval \in Nat
        BY <1>1
      <4>. QED
        BY <4>2, <4>3, <4>4, <4>5 DEF TypeOK
    <3>. QED
      BY <3>1, <3>2, <3>3
  <2>. QED
    BY <1>3, <2>1, <2>2, ObserveType DEF Listed, clusterVars, sshVars, TypeOK
<1>4. CASE ListFails(c)
  BY <1>4, FailType DEF ListFails, clusterVars, sshVars, pollVars, TypeOK, Errors
<1>5. CASE Report(c)
  BY <1>5, FailType DEF Report, clusterVars, sshVars, pollVars, TypeOK, Errors
<1>6. CASE Tick(c)
  BY <1>1, <1>6 DEF Tick, clusterVars, sshVars, TypeOK
<1>. QED
  BY <1>2, <1>3, <1>4, <1>5, <1>6 DEF WaitStep

LEMMA LocalType ==
  ASSUME TypeOK, NEW c \in Calls, LocalStep(c)
  PROVE  TypeOK'
<1>. DEFINE Moved == /\ pc' \in [Calls -> Steps]
                    /\ answer' \in [Calls -> [error : Errors, node : Hosts \union {Nobody}]]
<1>1. "kubernetes_install_failed" \in Errors
  BY DEF Errors
<1>2. ASSUME NEW step, NEW next \in Steps, Command(c, step, next)
      PROVE  TypeOK'
  <2>1. Moved
    BY <1>1, <1>2, GoType, FailType DEF Command
  <2>. QED
    BY <1>2, <2>1 DEF Command, Local, sshVars, pollVars, TypeOK
<1>3. ASSUME NEW release \in {"efs", "prometheus", "keda"}, NEW next \in Steps,
             HelmInstall(c, release, next)
      PROVE  TypeOK'
  <2>1. Moved
    BY <1>1, <1>3, GoType, FailType DEF HelmInstall
  <2>2. releases' \in SUBSET {"efs", "prometheus", "keda"}
    BY <1>3 DEF HelmInstall, TypeOK
  <2>. QED
    BY <1>3, <2>1, <2>2 DEF HelmInstall, Local, sshVars, pollVars, TypeOK
<1>4. ASSUME NEW step, NEW next \in Steps, ApplyWithRetry(c, step, next)
      PROVE  TypeOK'
  <2>1. Moved
    BY <1>1, <1>4, GoType, FailType DEF ApplyWithRetry, TypeOK
  <2>2. attempt' \in [Calls -> 1..MaxAttempts]
    <3>1. attempt \in [Calls -> 1..MaxAttempts]
      BY DEF TypeOK
    <3>. QED
      BY <1>4, <3>1, InstallAssumption DEF ApplyWithRetry
  <2>. QED
    BY <1>4, <2>1, <2>2 DEF ApplyWithRetry, Local, sshVars, pollVars, TypeOK
<1>5. CASE ProbeWebhook(c)
  <2>1. "operator" \in Steps
    BY SshStepsAreSteps DEF LocalSteps, BeforeKeda
  <2>2. Moved
    BY <1>5, <2>1, GoType DEF ProbeWebhook
  <2>. QED
    BY <1>5, <2>2 DEF ProbeWebhook, Local, sshVars, pollVars, TypeOK
<1>6. BeforeEfs \subseteq Steps /\ BeforePrometheus \subseteq Steps
      /\ BeforeKeda \subseteq Steps /\ Afterwards \subseteq Steps
  BY SshStepsAreSteps DEF LocalSteps
<1>. HIDE DEF Moved
<1>7. CASE InstallEbsCsi(c)
  BY <1>2, <1>6, <1>7 DEF InstallEbsCsi, BeforeEfs
<1>8. CASE InstallEfsCsi(c)
  BY <1>2, <1>3, <1>6, <1>8 DEF InstallEfsCsi, BeforeEfs, BeforePrometheus
<1>9. CASE InstallPrometheus(c)
  BY <1>2, <1>3, <1>6, <1>9 DEF InstallPrometheus, BeforePrometheus, BeforeKeda
<1>10. CASE InstallOtelCollector(c)
  BY <1>2, <1>4, <1>5, <1>6, <1>10 DEF InstallOtelCollector, BeforeKeda, Afterwards
<1>11. CASE InstallVpa(c)
  BY <1>2, <1>6, <1>11 DEF InstallVpa, Afterwards
<1>12. CASE InstallKeda(c)
  BY <1>2, <1>3, <1>6, <1>12 DEF InstallKeda, BeforeKeda, Afterwards
<1>. QED
  BY <1>7, <1>8, <1>9, <1>10, <1>11, <1>12 DEF LocalStep

LEMMA StepType ==
  ASSUME TypeOK, [Next]_vars
  PROVE  TypeOK'
<1>1. CASE UNCHANGED vars
  BY <1>1 DEF vars, clusterVars, sshVars, pollVars, TypeOK
<1>2. ASSUME NEW c \in Calls, Begin(c)
      PROVE  TypeOK'
  <2>1. "kubeadm_init" \in Steps
    BY SshStepsAreSteps DEF SshSteps, OnControlPlane
  <2>2. /\ pc' \in [Calls -> Steps]
        /\ answer' \in [Calls -> [error : Errors, node : Hosts \union {Nobody}]]
    BY <1>2, <2>1, GoType DEF Begin
  <2>. QED
    BY <1>2, <2>2 DEF Begin, clusterVars, sshVars, pollVars, TypeOK
<1>. QED
  BY <1>1, <1>2, SshType, WaitType, LocalType DEF Next

---------------------------------------------------------------------------
(* What the steps on the nodes and the local ones have in common *)

\* Only the call that moves may be answered, and by failing.
AnswerKept(c) ==
  \A d \in Calls : answer'[d] # answer[d] =>
    d = c /\ pc'[c] = "failed" /\ answer'[d].error = "kubernetes_install_failed"

SshMove(c, next) ==
  /\ pc[c] \in SshSteps
  /\ next = "kubeadm_init" => pc[c] = "kubeadm_init"
  /\ pc' = [pc EXCEPT ![c] = next]
  /\ AnswerKept(c)
  /\ UNCHANGED <<releases, pollVars>>
  /\ members \subseteq members'
  /\ \/ UNCHANGED admitted /\ (pc[c] = "kubeadm_init" => next \in {"kubeadm_init", "failed"})
     \/ /\ pc[c] = "kubeadm_init" /\ members = {} /\ members' # {}
        /\ admitted' = admitted \union {c} /\ next # "kubeadm_init"

LocalMove(c, next) ==
  /\ pc[c] \in LocalSteps
  /\ pc' = [pc EXCEPT ![c] = next]
  /\ AnswerKept(c)
  /\ UNCHANGED <<members, admitted, pollVars>>
  /\ StillToCome(next) \subseteq StillToCome(pc[c])
  /\ \/ UNCHANGED releases
     \/ releases' = releases \union {pc[c]} /\ pc[c] \notin StillToCome(next)

LEMMA GoAnswer ==
  ASSUME NEW c, NEW step, Go(c, step)
  PROVE  pc' = [pc EXCEPT ![c] = step] /\ AnswerKept(c)
BY DEF Go, AnswerKept

LEMMA FailAnswer ==
  ASSUME TypeOK, NEW c \in Calls, NEW node, Fail(c, "kubernetes_install_failed", node)
  PROVE  pc' = [pc EXCEPT ![c] = "failed"] /\ AnswerKept(c)
BY DEF Fail, AnswerKept, TypeOK

LEMMA FailOverAnswer ==
  ASSUME TypeOK, NEW c \in Calls, FailOver(c)
  PROVE  pc' = [pc EXCEPT ![c] = "failed"] /\ AnswerKept(c)
BY FailAnswer DEF FailOver

LEMMA StepOverSsh ==
  ASSUME TypeOK, NEW c \in Calls, SshStep(c)
  PROVE  \E next \in SshSteps \union {"polling", "failed"} : SshMove(c, next)
<1>. USE DEF SshSteps, OnControlPlane
<1>1. ASSUME NEW step \in SshSteps \ {"kubeadm_init"},
             NEW next \in (SshSteps \union {"polling"}) \ {"kubeadm_init"},
             Remote(c, step, next)
      PROVE  SshMove(c, next) \/ SshMove(c, "failed")
  <2>1. CASE Succeed(c, next)
    BY <1>1, <2>1, GoAnswer DEF Remote, At, Succeed, SshMove, clusterVars, pollVars
  <2>2. CASE FailOver(c)
    BY <1>1, <2>2, FailOverAnswer DEF Remote, At, SshMove, clusterVars, pollVars
  <2>. QED
    BY <1>1, <2>1, <2>2 DEF Remote
<1>2. CASE Connect(c)
  <2>1. PICK host \in Targets(c) :
          \/ conn' = [conn EXCEPT ![c] = host] /\ UNCHANGED <<pc, answer>>
          \/ Fail(c, "kubernetes_install_failed", host) /\ UNCHANGED conn
    BY <1>2 DEF Connect
  <2>2. CASE UNCHANGED <<pc, answer>>
    <3>1. pc' = [pc EXCEPT ![c] = pc[c]] /\ AnswerKept(c)
      BY <2>2 DEF TypeOK, AnswerKept
    <3>2. SshMove(c, pc[c])
      BY <1>2, <3>1 DEF Connect, SshMove, clusterVars, pollVars
    <3>. QED
      BY <1>2, <3>2 DEF Connect
  <2>3. CASE Fail(c, "kubernetes_install_failed", host)
    <3>1. SshMove(c, "failed")
      BY <1>2, <2>3, FailAnswer DEF Connect, SshMove, clusterVars, pollVars
    <3>. QED
      BY <3>1
  <2>. QED
    BY <2>1, <2>2, <2>3
<1>3. CASE InitControlPlane(c)
  <2>1. CASE KubeadmInit(FALSE) /\ Succeed(c, "setup_kubeconfig") /\ admitted' = admitted \union {c}
    <3>1. SshMove(c, "setup_kubeconfig")
      BY <1>3, <2>1, GoAnswer DEF InitControlPlane, At, KubeadmInit, Succeed, SshMove, pollVars
    <3>. QED
      BY <3>1
  <2>2. CASE KubeadmInit(TRUE) /\ FailOver(c) /\ UNCHANGED admitted
    <3>1. SshMove(c, "failed")
      BY <1>3, <2>2, FailOverAnswer DEF InitControlPlane, At, KubeadmInit, SshMove, pollVars
    <3>. QED
      BY <3>1
  <2>. QED
    BY <1>3, <2>1, <2>2 DEF InitControlPlane
<1>4. CASE CopyKubeconfig(c)
  BY <1>1, <1>4 DEF CopyKubeconfig
<1>5. CASE InstallFlannel(c)
  BY <1>1, <1>5 DEF InstallFlannel
<1>6. CASE GetJoinToken(c)
  BY <1>1, <1>6 DEF GetJoinToken, AfterToken
<1>7. CASE JoinWorker(c)
  <2>. DEFINE next == IF togo[c] \ {conn[c]} = {} THEN "polling" ELSE "join"
  <2>1. CASE KubeadmJoin(conn[c], FALSE) /\ Succeed(c, next)
    <3>1. SshMove(c, next)
      BY <1>7, <2>1, GoAnswer DEF JoinWorker, At, KubeadmJoin, Succeed, SshMove, pollVars
    <3>. QED
      BY <3>1
  <2>2. CASE KubeadmJoin(conn[c], TRUE) /\ FailOver(c)
    <3>1. SshMove(c, "failed")
      BY <1>7, <2>2, FailOverAnswer DEF JoinWorker, At, KubeadmJoin, SshMove, pollVars
    <3>. QED
      BY <3>1
  <2>. QED
    BY <1>7, <2>1, <2>2 DEF JoinWorker
<1>. QED
  BY <1>2, <1>3, <1>4, <1>5, <1>6, <1>7 DEF SshStep

LEMMA StepsDiffer ==
  /\ \A s \in LocalSteps : s \notin SshSteps \union Waiting \union {"idle", "failed"}
  /\ \A s \in Waiting : s \notin SshSteps \union {"idle", "failed"}
  /\ \A s \in SshSteps : s \notin {"idle", "failed"}
BY DEF LocalSteps, SshSteps, OnControlPlane, Waiting, BeforeEfs, BeforePrometheus, BeforeKeda,
       Afterwards

LEMMA StepLocally ==
  ASSUME TypeOK, NEW c \in Calls, LocalStep(c)
  PROVE  \E next \in LocalSteps \union {"failed"} : LocalMove(c, next)
<1>0. StillToCome("failed") = {}
  BY DEF StillToCome, SshSteps, OnControlPlane, Waiting, BeforeEfs, BeforePrometheus, BeforeKeda
<1>1. ASSUME NEW step \in LocalSteps, NEW next \in LocalSteps, Command(c, step, next),
             StillToCome(next) \subseteq StillToCome(step)
      PROVE  LocalMove(c, next) \/ LocalMove(c, "failed")
  <2>1. CASE Go(c, next)
    BY <1>1, <2>1, GoAnswer DEF Command, Local, LocalMove
  <2>2. CASE Fail(c, "kubernetes_install_failed", Nobody)
    BY <1>0, <1>1, <2>2, FailAnswer DEF Command, Local, LocalMove
  <2>. QED
    BY <1>1, <2>1, <2>2 DEF Command
<1>2. ASSUME NEW release \in LocalSteps, NEW next \in LocalSteps, HelmInstall(c, release, next),
             StillToCome(next) \subseteq StillToCome(release), release \notin StillToCome(next)
      PROVE  LocalMove(c, next) \/ LocalMove(c, "failed")
  <2>1. CASE Go(c, next) /\ releases' = releases \union {release}
    BY <1>2, <2>1, GoAnswer DEF HelmInstall, Local, LocalMove
  <2>2. CASE /\ Fail(c, "kubernetes_install_failed", Nobody)
             /\ releases' \in {releases, releases \union {release}}
    BY <1>0, <1>2, <2>2, FailAnswer DEF HelmInstall, Local, LocalMove
  <2>. QED
    BY <1>2, <2>1, <2>2 DEF HelmInstall
<1>3. ASSUME NEW step \in LocalSteps, NEW next \in LocalSteps, ApplyWithRetry(c, step, next),
             StillToCome(next) \subseteq StillToCome(step)
      PROVE  LocalMove(c, next) \/ LocalMove(c, step) \/ LocalMove(c, "failed")
  <2>1. CASE Go(c, next)
    BY <1>3, <2>1, GoAnswer DEF ApplyWithRetry, Local, LocalMove
  <2>2. CASE UNCHANGED <<pc, answer>>
    <3>1. pc' = [pc EXCEPT ![c] = step] /\ AnswerKept(c)
      BY <1>3, <2>2 DEF ApplyWithRetry, TypeOK, AnswerKept
    <3>. QED
      BY <1>3, <3>1 DEF ApplyWithRetry, Local, LocalMove
  <2>3. CASE Fail(c, "kubernetes_install_failed", Nobody)
    BY <1>0, <1>3, <2>3, FailAnswer DEF ApplyWithRetry, Local, LocalMove
  <2>. QED
    BY <1>3, <2>1, <2>2, <2>3 DEF ApplyWithRetry
<1>4. /\ \A s \in BeforeEfs : s \in LocalSteps /\ StillToCome(s) = {"efs", "prometheus", "keda"}
      /\ \A s \in BeforePrometheus : s \in LocalSteps /\ StillToCome(s) = {"prometheus", "keda"}
      /\ \A s \in BeforeKeda : s \in LocalSteps /\ StillToCome(s) = {"keda"}
      /\ \A s \in Afterwards : s \in LocalSteps /\ StillToCome(s) = {}
  BY DEF LocalSteps, StillToCome, SshSteps, OnControlPlane, Waiting, BeforeEfs,
         BeforePrometheus, BeforeKeda, Afterwards
<1>5. CASE InstallEbsCsi(c)
  BY <1>1, <1>4, <1>5 DEF InstallEbsCsi, BeforeEfs
<1>6. CASE InstallEfsCsi(c)
  BY <1>1, <1>2, <1>4, <1>6 DEF InstallEfsCsi, BeforeEfs, BeforePrometheus
<1>7. CASE InstallPrometheus(c)
  BY <1>1, <1>2, <1>4, <1>7 DEF InstallPrometheus, BeforePrometheus, BeforeKeda
<1>8. CASE ProbeWebhook(c)
  <2>1. LocalMove(c, "operator")
    BY <1>4, <1>8, GoAnswer DEF ProbeWebhook, Local, LocalMove, BeforeKeda
  <2>. QED
    BY <1>4, <2>1 DEF BeforeKeda
<1>9. CASE InstallOtelCollector(c)
  BY <1>1, <1>3, <1>4, <1>8, <1>9 DEF InstallOtelCollector, BeforeKeda, Afterwards
<1>10. CASE InstallVpa(c)
  BY <1>1, <1>4, <1>10 DEF InstallVpa, Afterwards
<1>11. CASE InstallKeda(c)
  BY <1>1, <1>2, <1>4, <1>11 DEF InstallKeda, BeforeKeda, Afterwards
<1>. QED
  BY <1>5, <1>6, <1>7, <1>9, <1>10, <1>11 DEF LocalStep

---------------------------------------------------------------------------
(* The invariant holds at first, and every step keeps it *)

LEMMA Times ==
  /\ LastList \in Nat /\ LastList = ReadinessTimeout - 1 /\ CallTime \in Nat
  /\ PollInterval \in Nat /\ CriticalTimeout \in Nat /\ Never \in Int /\ Never < 0
  /\ Limit("polling") = LastList + CallTime + PollInterval
  /\ Limit("listing") = LastList + CallTime
  /\ Limit("reporting") = LastList + CallTime + PollInterval + CallTime
BY InstallAssumption DEF LastList, Limit, Never

LEMMA InitInstall == Init => InstallInv
<1>. SUFFICES ASSUME Init PROVE InstallInv
  OBVIOUS
<1>1. Admission
  BY DEF Init, Admission, OneInstallation
<1>2. ReleasesInOrder
  BY DEF Init, ReleasesInOrder
<1>3. Fresh
  BY DEF Init, Fresh, NoAnswer
<1>4. TimersCover
  BY DEF Init, TimersCover, Waiting
<1>5. DeadlinesKept
  BY Times DEF Init, DeadlinesKept, PollIsBounded, LastList, Waiting
<1>6. Verdicts
  BY StepsDiffer DEF Init, Verdicts, ChartsOnReadyCluster, CriticalWasNeverReady,
     SteadyTroubleEndsPoll, NoAnswer
<1>. QED
  BY <1>1, <1>2, <1>3, <1>4, <1>5, <1>6 DEF InstallInv

\* Every step but those of the poll leaves the clocks alone.  What is left to
\* look at is the call that moves, and only if it moves into the poll or, being
\* there already, further into the local steps.
LEMMA VerdictsKept ==
  ASSUME TypeOK, Fresh, TimersCover, DeadlinesKept, Verdicts, NEW c \in Calls, NEW next,
         pc' = [pc EXCEPT ![c] = next], UNCHANGED pollVars, AnswerKept(c),
         next \in SshSteps => pc[c] \in {"idle"} \union SshSteps,
         next \in Waiting => next = "polling" /\ pc[c] \in SshSteps,
         next \in LocalSteps => pc[c] \in LocalSteps,
         next # "idle"
  PROVE  Fresh' /\ TimersCover' /\ DeadlinesKept' /\ Verdicts'
<1>1. pc'[c] = next /\ \A d \in Calls : d # c => pc'[d] = pc[d]
  BY DEF TypeOK
<1>2. \A d \in Calls : pc'[d] # "failed" => answer'[d] = answer[d]
  BY DEF AnswerKept
<1>3. next \in {"idle"} \union SshSteps \union Waiting => next # "failed"
  BY StepsDiffer
<1>4. Fresh'
  BY <1>1, <1>2, <1>3, StepsDiffer DEF Fresh, pollVars
<1>5. next \in Waiting =>
        /\ next = "polling" /\ elapsed[c] = 0 /\ due[c] = 0 /\ answer[c].error = "none"
        /\ \A n \in Hosts : first[c][n] = Never /\ readyAt[c][n] = Never
                           /\ steadyFrom[c][n] = Never
  BY DEF Fresh
<1>6. TimersCover'
  <2>1. next \in Waiting =>
          \A n \in Hosts : readyAt[c][n] <= elapsed[c] /\ first[c][n] <= elapsed[c]
    BY <1>5, Times
  <2>. QED
    BY <1>1, <1>2, <1>3, <1>5, <2>1, StepsDiffer DEF TimersCover, pollVars
<1>7. DeadlinesKept'
  <2>1. PollIsBounded'
    BY DEF DeadlinesKept, PollIsBounded, pollVars
  <2>2. Limit("polling") \in Nat
    BY Times
  <2>3. next \in Waiting => elapsed[c] <= due[c] /\ due[c] <= Limit(next)
    BY <1>5, <2>2
  <2>4. \A d \in Calls : pc'[d] \in Waiting => elapsed[d] <= due[d] /\ due[d] <= Limit(pc'[d])
    BY <1>1, <2>3 DEF DeadlinesKept
  <2>. QED
    BY <2>1, <2>4 DEF DeadlinesKept, pollVars, Limit
<1>8. Verdicts'
  <2>1. ChartsOnReadyCluster'
    BY <1>1 DEF Verdicts, ChartsOnReadyCluster, pollVars
  <2>2. CriticalWasNeverReady'
    BY DEF Verdicts, CriticalWasNeverReady, AnswerKept, pollVars
  <2>3. SteadyTroubleEndsPoll'
    BY <1>1, <1>5 DEF Verdicts, SteadyTroubleEndsPoll, pollVars, Waiting
  <2>. QED
    BY <2>1, <2>2, <2>3 DEF Verdicts
<1>. QED
  BY <1>4, <1>6, <1>7, <1>8

LEMMA BeginKeeps ==
  ASSUME TypeOK, InstallInv, NEW c \in Calls, Begin(c)
  PROVE  InstallInv'
<1>. USE DEF InstallInv
<1>1. /\ pc[c] = "idle" /\ pc' = [pc EXCEPT ![c] = "kubeadm_init"] /\ AnswerKept(c)
      /\ UNCHANGED <<clusterVars, pollVars>>
  BY GoAnswer DEF Begin
<1>2. pc'[c] = "kubeadm_init" /\ \A d \in Calls : d # c => pc'[d] = pc[d]
  BY <1>1 DEF TypeOK
<1>3. "kubeadm_init" \in SshSteps
  BY DEF SshSteps, OnControlPlane
<1>4. Admission' /\ ReleasesInOrder'
  BY <1>1, <1>2 DEF Admission, OneInstallation, ReleasesInOrder, StillToCome, clusterVars
<1>5. Fresh' /\ TimersCover' /\ DeadlinesKept' /\ Verdicts'
  BY <1>1, <1>3, StepsDiffer, VerdictsKept
<1>. QED
  BY <1>4, <1>5

LEMMA SshKeeps ==
  ASSUME TypeOK, InstallInv, NEW c \in Calls, NEW next \in SshSteps \union {"polling", "failed"},
         SshMove(c, next)
  PROVE  InstallInv'
<1>. USE DEF InstallInv
<1>1. pc'[c] = next /\ \A d \in Calls : d # c => pc'[d] = pc[d]
  BY DEF SshMove, TypeOK
<1>2. Admission'
  <2>1. CASE UNCHANGED admitted /\ (pc[c] = "kubeadm_init" => next \in {"kubeadm_init", "failed"})
    <3>1. IF next \in {"idle", "kubeadm_init"} THEN c \notin admitted
          ELSE c \in admitted \/ next = "failed"
      BY <2>1, StepsDiffer DEF SshMove, Admission
    <3>. QED
      BY <1>1, <2>1, <3>1 DEF SshMove, Admission, OneInstallation
  <2>2. CASE /\ pc[c] = "kubeadm_init" /\ members = {} /\ members' # {}
             /\ admitted' = admitted \union {c} /\ next # "kubeadm_init"
    <3>1. admitted = {} /\ next # "idle"
      BY <2>2, StepsDiffer DEF Admission
    <3>. QED
      BY <1>1, <2>2, <3>1 DEF Admission, OneInstallation
  <2>. QED
    BY <2>1, <2>2 DEF SshMove
<1>3. ReleasesInOrder'
  <2>1. StillToCome(pc[c]) = {"efs", "prometheus", "keda"}
    BY DEF SshMove, StillToCome
  <2>2. CASE UNCHANGED admitted
    <3>1. c \in admitted => releases = {}
      BY <2>1 DEF ReleasesInOrder, TypeOK
    <3>. QED
      BY <1>1, <2>2, <3>1 DEF SshMove, ReleasesInOrder, StillToCome
  <2>3. CASE members = {} /\ admitted' = admitted \union {c}
    <3>1. releases = {}
      BY <2>3 DEF Admission, ReleasesInOrder
    <3>. QED
      BY <2>3, <3>1 DEF SshMove, ReleasesInOrder
  <2>. QED
    BY <2>2, <2>3 DEF SshMove
<1>4. Fresh' /\ TimersCover' /\ DeadlinesKept' /\ Verdicts'
  <2>1. next \in LocalSteps => pc[c] \in LocalSteps
    BY StepsDiffer DEF Waiting
  <2>2. next # "idle" /\ (next \in Waiting => next = "polling")
    BY StepsDiffer
  <2>. QED
    BY <2>1, <2>2, VerdictsKept DEF SshMove
<1>. QED
  BY <1>2, <1>3, <1>4

LEMMA LocalKeeps ==
  ASSUME TypeOK, InstallInv, NEW c \in Calls, NEW next \in LocalSteps \union {"failed"},
         LocalMove(c, next)
  PROVE  InstallInv'
<1>. USE DEF InstallInv
<1>1. pc'[c] = next /\ \A d \in Calls : d # c => pc'[d] = pc[d]
  BY DEF LocalMove, TypeOK
<1>2. "kubeadm_init" \in SshSteps
  BY DEF SshSteps, OnControlPlane
<1>3. c \in admitted
  BY <1>2, StepsDiffer DEF LocalMove, Admission
<1>4. Admission'
  BY <1>1, <1>2, <1>3, StepsDiffer DEF LocalMove, Admission, OneInstallation
<1>5. ReleasesInOrder'
  <2>1. \A d \in admitted : d = c
    BY <1>3 DEF Admission, OneInstallation, TypeOK
  <2>2. StillToCome(next) \intersect releases' = {}
    BY <1>3 DEF LocalMove, ReleasesInOrder
  <2>. QED
    BY <1>1, <1>3, <2>1, <2>2 DEF LocalMove, ReleasesInOrder, StillToCome
<1>6. Fresh' /\ TimersCover' /\ DeadlinesKept' /\ Verdicts'
  <2>1. next \notin SshSteps \union Waiting \union {"idle"}
    BY StepsDiffer
  <2>. QED
    BY <2>1, VerdictsKept DEF LocalMove
<1>. QED
  BY <1>4, <1>5, <1>6

---------------------------------------------------------------------------
(* The poll *)

\* As many Ready nodes as expected are all of them.
LEMMA EveryHostReady ==
  ASSUME NEW list \in Lists, AllReady(list)
  PROVE  \A n \in Hosts : list[n] = "ready"
<1>. DEFINE Ready == {n \in Hosts : list[n] = "ready"}
<1>1. IsFiniteSet(Hosts) /\ Ready \in SUBSET Hosts
  BY HostsFinite
<1>2. Cardinality(Ready) <= Cardinality(Hosts) /\ IsFiniteSet(Ready)
  BY <1>1, FS_Subset
<1>3. Cardinality(Ready) \in Nat
  BY <1>2, FS_CardinalityType
<1>4. Cardinality(Ready) >= ExpectedNodeCount
  BY DEF AllReady, ReadyCount
<1>5. Cardinality(Hosts) = Cardinality(Ready)
  BY <1>2, <1>3, <1>4, HostsFinite
<1>6. Hosts = Ready
  BY <1>1, <1>5, FS_Subset
<1>. QED
  BY <1>6

\* The poll moves nobody else and installs nothing.
LEMMA WaitOrder ==
  ASSUME TypeOK, Admission, ReleasesInOrder, NEW c \in Calls, NEW next,
         pc[c] \in Waiting, pc' = [pc EXCEPT ![c] = next],
         next \in Waiting \union {"ebs_repo", "failed"}, UNCHANGED clusterVars
  PROVE  Admission' /\ ReleasesInOrder'
<1>1. pc'[c] = next /\ \A d \in Calls : d # c => pc'[d] = pc[d]
  BY DEF TypeOK
<1>2. next \notin {"idle", "kubeadm_init"} /\ pc[c] \notin {"idle", "kubeadm_init", "failed"}
  BY DEF Waiting
<1>3. StillToCome(next) \subseteq StillToCome(pc[c])
  BY DEF StillToCome, BeforeEfs
<1>4. Admission'
  BY <1>1, <1>2 DEF Admission, OneInstallation, clusterVars
<1>5. ReleasesInOrder'
  BY <1>1, <1>3 DEF ReleasesInOrder, StillToCome, clusterVars
<1>. QED
  BY <1>4, <1>5

LEMMA PollKeeps ==
  ASSUME TypeOK, InstallInv, NEW c \in Calls, Poll(c)
  PROVE  InstallInv'
<1>. USE DEF InstallInv
<1>. DEFINE next == IF elapsed[c] >= ReadinessTimeout THEN "reporting" ELSE "listing"
<1>1. /\ pc[c] = "polling" /\ elapsed[c] >= due[c]
      /\ pc' = [pc EXCEPT ![c] = next] /\ due' = [due EXCEPT ![c] = elapsed[c] + CallTime]
      /\ UNCHANGED <<clusterVars, answer, elapsed, first, readyAt, criticalAt, steadyFrom>>
  BY DEF Poll, PollWithin, Go
<1>2. /\ pc'[c] = next /\ due'[c] = elapsed[c] + CallTime
      /\ \A d \in Calls : d # c => pc'[d] = pc[d] /\ due'[d] = due[d]
  BY <1>1 DEF TypeOK
<1>3. next \in {"listing", "reporting"} /\ pc[c] \in Waiting /\ next \in Waiting
  BY <1>1 DEF Waiting
<1>4. Admission' /\ ReleasesInOrder'
  BY <1>1, <1>3, WaitOrder
<1>5. Fresh'
  BY <1>1, <1>2, <1>3, StepsDiffer DEF Fresh
<1>6. TimersCover'
  BY <1>1, <1>2, <1>3 DEF TimersCover
<1>7. DeadlinesKept'
  <2>1. elapsed[c] \in Nat /\ due[c] \in Nat
    BY DEF TypeOK
  <2>2. elapsed[c] <= LastList + CallTime + PollInterval
    BY <1>1, <1>3, <2>1, Times DEF DeadlinesKept
  <2>3. elapsed[c] <= due'[c] /\ due'[c] <= Limit(next)
    BY <1>2, <2>1, <2>2, Times, InstallAssumption
  <2>4. \A d \in Calls : pc'[d] \in Waiting => elapsed[d] <= due'[d] /\ due'[d] <= Limit(pc'[d])
    BY <1>2, <2>3 DEF DeadlinesKept
  <2>. QED
    BY <1>1, <2>4 DEF DeadlinesKept, PollIsBounded, Limit
<1>8. Verdicts'
  <2>1. ChartsOnReadyCluster'
    BY <1>1, <1>2, <1>3, StepsDiffer DEF Verdicts, ChartsOnReadyCluster
  <2>2. CriticalWasNeverReady'
    BY <1>1 DEF Verdicts, CriticalWasNeverReady
  <2>3. SteadyTroubleEndsPoll'
    BY <1>1, <1>2, <1>3 DEF Verdicts, SteadyTroubleEndsPoll
  <2>. QED
    BY <2>1, <2>2, <2>3 DEF Verdicts
<1>. QED
  BY <1>4, <1>5, <1>6, <1>7, <1>8

LEMMA Observed ==
  ASSUME TypeOK, NEW c \in Calls, NEW list \in Lists, Observe(c, list)
  PROVE  /\ \A d \in Calls : d # c =>
              /\ readyAt'[d] = readyAt[d] /\ steadyFrom'[d] = steadyFrom[d]
              /\ criticalAt'[d] = criticalAt[d]
         /\ \A n \in Hosts :
              /\ readyAt'[c][n] = IF list[n] = "ready" THEN elapsed[c] ELSE readyAt[c][n]
              /\ criticalAt[c][n] \subseteq criticalAt'[c][n]
              /\ list[n] = "critical" => elapsed[c] \in criticalAt'[c][n]
              /\ list[n] # "critical" => steadyFrom'[c][n] = Never
              /\ list[n] = "critical" =>
                   steadyFrom'[c][n] =
                     IF steadyFrom[c][n] = Never THEN elapsed[c] ELSE steadyFrom[c][n]
BY DEF Observe, TypeOK

\* The listing ends the poll, for better or worse: what holds of the other calls
\* and of the deadlines.
LEMMA WaitEnds ==
  ASSUME TypeOK, InstallInv, NEW c \in Calls, NEW next \in {"ebs_repo", "failed"},
         pc[c] \in Waiting, pc' = [pc EXCEPT ![c] = next], UNCHANGED clusterVars,
         \A d \in Calls : d # c =>
           /\ answer'[d] = answer[d] /\ elapsed'[d] = elapsed[d] /\ due'[d] = due[d]
           /\ first'[d] = first[d] /\ readyAt'[d] = readyAt[d]
           /\ criticalAt'[d] = criticalAt[d] /\ steadyFrom'[d] = steadyFrom[d],
         elapsed'[c] \in {0, elapsed[c]},
         next = "ebs_repo" => \A m, n \in Hosts : readyAt'[c][m] = readyAt'[c][n]
                                                /\ readyAt'[c][n] # Never,
         answer'[c].error = "node_critical" =>
           /\ steadyFrom'[c][answer'[c].node] # Never
           /\ \E t \in criticalAt'[c][answer'[c].node] :
                elapsed'[c] - t > CriticalTimeout /\ readyAt'[c][answer'[c].node] <= t
  PROVE  InstallInv'
<1>. USE DEF InstallInv
<1>1. pc'[c] = next /\ \A d \in Calls : d # c => pc'[d] = pc[d]
  BY DEF TypeOK
<1>2. next \notin Waiting \union SshSteps \union {"idle"}
  BY StepsDiffer DEF LocalSteps, BeforeEfs
<1>3. Admission' /\ ReleasesInOrder'
  BY WaitOrder
<1>4. Fresh'
  BY <1>1, <1>2 DEF Fresh
<1>5. TimersCover'
  BY <1>1, <1>2 DEF TimersCover
<1>6. DeadlinesKept'
  <2>1. 0 <= ReadinessTimeout - 1 + 2 * CallTime + PollInterval
    BY InstallAssumption
  <2>2. PollIsBounded'
    BY <2>1 DEF DeadlinesKept, PollIsBounded
  <2>3. \A d \in Calls : pc'[d] \in Waiting => elapsed'[d] <= due'[d] /\ due'[d] <= Limit(pc'[d])
    BY <1>1, <1>2 DEF DeadlinesKept
  <2>. QED
    BY <2>2, <2>3 DEF DeadlinesKept, Limit
<1>7. Verdicts'
  <2>1. ChartsOnReadyCluster'
    BY <1>1, StepsDiffer DEF Verdicts, ChartsOnReadyCluster
  <2>2. CriticalWasNeverReady'
    BY DEF Verdicts, CriticalWasNeverReady
  <2>3. SteadyTroubleEndsPoll'
    BY <1>1 DEF Verdicts, SteadyTroubleEndsPoll
  <2>. QED
    BY <2>1, <2>2, <2>3 DEF Verdicts
<1>. QED
  BY <1>3, <1>4, <1>5, <1>6, <1>7

LEMMA FailEndsPoll ==
  ASSUME TypeOK, InstallInv, NEW c \in Calls, NEW error \in Errors \ {"node_critical"},
         pc[c] \in Waiting, Fail(c, error, Nobody), UNCHANGED <<clusterVars, pollVars>>
  PROVE  InstallInv'
<1>1. /\ pc' = [pc EXCEPT ![c] = "failed"]
      /\ answer'[c].error # "node_critical"
      /\ \A d \in Calls : d # c => answer'[d] = answer[d]
  BY DEF Fail, TypeOK
<1>. QED
  BY <1>1, WaitEnds DEF pollVars

LEMMA ListedKeeps ==
  ASSUME TypeOK, InstallInv, NEW c \in Calls, Listed(c)
  PROVE  InstallInv'
<1>. USE DEF InstallInv
<1>1. PICK list \in Lists :
        /\ Observe(c, list)
        /\ IF Expired(c, list) # {}
             THEN /\ \E n \in Expired(c, list) : Fail(c, "node_critical", n)
                  /\ UNCHANGED <<elapsed, due, first>>
             ELSE IF AllReady(list)
             THEN /\ Go(c, "ebs_repo")
                  /\ elapsed' = [elapsed EXCEPT ![c] = 0]
                  /\ due' = [due EXCEPT ![c] = 0]
                  /\ first' = [first EXCEPT ![c] = [n \in Hosts |-> Never]]
             ELSE /\ first' = [first EXCEPT ![c] = Timers(c, list)]
                  /\ PollWithin(c, "polling", PollInterval)
                  /\ UNCHANGED elapsed
  BY DEF Listed
<1>2. pc[c] = "listing" /\ pc[c] \in Waiting /\ UNCHANGED clusterVars
  BY DEF Listed, Waiting
<1>3. /\ elapsed[c] \in Nat
      /\ \A n \in Hosts : /\ first[c][n] \in Moments /\ readyAt[c][n] \in Moments
                         /\ steadyFrom[c][n] \in Moments
  BY DEF TypeOK
<1>4. \A n \in Hosts :
        /\ first[c][n] # Never =>
             readyAt[c][n] <= first[c][n] /\ first[c][n] \in criticalAt[c][n]
        /\ steadyFrom[c][n] # Never => first[c][n] # Never /\ first[c][n] <= steadyFrom[c][n]
  BY <1>2 DEF TimersCover
<1>5. CASE Expired(c, list) # {}
  <2>1. PICK n \in Expired(c, list) : Fail(c, "node_critical", n)
    BY <1>1, <1>5
  <2>2. /\ pc' = [pc EXCEPT ![c] = "failed"] /\ answer'[c].node = n
        /\ \A d \in Calls : d # c => answer'[d] = answer[d]
    BY <2>1 DEF Fail, TypeOK
  <2>3. /\ n \in Hosts /\ list[n] = "critical" /\ first[c][n] # Never
        /\ elapsed[c] - first[c][n] > CriticalTimeout
    BY DEF Expired
  <2>4. readyAt[c][n] <= first[c][n] /\ first[c][n] \in criticalAt'[c][n]
    BY <1>1, <1>4, <2>3, Observed
  <2>5. readyAt'[c][n] = readyAt[c][n] /\ steadyFrom'[c][n] # Never
    BY <1>1, <1>3, <2>3, Observed, Times
  <2>6. \E t \in criticalAt'[c][n] : elapsed[c] - t > CriticalTimeout /\ readyAt'[c][n] <= t
    BY <2>3, <2>4, <2>5
  <2>7. UNCHANGED <<elapsed, due, first>>
    BY <1>1, <1>5
  <2>. QED
    BY <1>1, <1>2, <2>2, <2>5, <2>6, <2>7, Observed, WaitEnds
<1>6. CASE Expired(c, list) = {} /\ AllReady(list)
  <2>1. /\ Go(c, "ebs_repo")
        /\ elapsed' = [elapsed EXCEPT ![c] = 0]
        /\ due' = [due EXCEPT ![c] = 0]
        /\ first' = [first EXCEPT ![c] = [n \in Hosts |-> Never]]
    BY <1>1, <1>6
  <2>2. \A n \in Hosts : readyAt'[c][n] = elapsed[c]
    BY <1>1, <1>6, EveryHostReady, Observed
  <2>3. answer'[c].error = "none"
    BY <1>2, <2>1 DEF Go, TimersCover
  <2>4. /\ pc' = [pc EXCEPT ![c] = "ebs_repo"] /\ UNCHANGED answer
        /\ elapsed'[c] = 0
        /\ \A d \in Calls : d # c => /\ elapsed'[d] = elapsed[d] /\ due'[d] = due[d]
                                    /\ first'[d] = first[d]
    BY <2>1 DEF Go, TypeOK
  <2>5. \A m, n \in Hosts : readyAt'[c][m] = readyAt'[c][n] /\ readyAt'[c][n] # Never
    BY <1>3, <2>2, Times
  <2>6. \A d \in Calls : d # c => /\ readyAt'[d] = readyAt[d] /\ steadyFrom'[d] = steadyFrom[d]
                              /\ criticalAt'[d] = criticalAt[d]
    BY <1>1, Observed
  <2>7. answer'[c].error # "node_critical"
    BY <2>3
  <2>. QED
    BY <1>2, <2>4, <2>5, <2>6, <2>7, WaitEnds
<1>7. CASE Expired(c, list) = {} /\ ~AllReady(list)
  <2>1. /\ first' = [first EXCEPT ![c] = Timers(c, list)]
        /\ pc' = [pc EXCEPT ![c] = "polling"]
        /\ due' = [due EXCEPT ![c] = elapsed[c] + PollInterval]
        /\ UNCHANGED <<answer, elapsed>>
    BY <1>1, <1>7 DEF PollWithin, Go
  <2>2. /\ pc'[c] = "polling" /\ due'[c] = elapsed[c] + PollInterval
        /\ first'[c] = Timers(c, list)
        /\ \A d \in Calls : d # c =>
             pc'[d] = pc[d] /\ due'[d] = due[d] /\ first'[d] = first[d]
    BY <2>1 DEF TypeOK
  <2>3. /\ \A d \in Calls : d # c =>
             /\ readyAt'[d] = readyAt[d] /\ steadyFrom'[d] = steadyFrom[d]
             /\ criticalAt'[d] = criticalAt[d]
        /\ \A n \in Hosts :
             /\ readyAt'[c][n] = IF list[n] = "ready" THEN elapsed[c] ELSE readyAt[c][n]
             /\ criticalAt[c][n] \subseteq criticalAt'[c][n]
             /\ list[n] = "critical" => elapsed[c] \in criticalAt'[c][n]
             /\ list[n] # "critical" => steadyFrom'[c][n] = Never
             /\ list[n] = "critical" =>
                  steadyFrom'[c][n] =
                    IF steadyFrom[c][n] = Never THEN elapsed[c] ELSE steadyFrom[c][n]
    BY <1>1, Observed
  <2>4. \A n \in Hosts :
          /\ list[n] = "ready" => first'[c][n] = Never
          /\ list[n] = "critical" =>
               first'[c][n] = IF first[c][n] = Never THEN elapsed[c] ELSE first[c][n]
          /\ list[n] \notin {"ready", "critical"} => first'[c][n] = first[c][n]
    BY <2>2 DEF Timers
  <2>5. "polling" \in Waiting
    BY DEF Waiting
  <2>6. \A n \in Hosts : readyAt[c][n] <= elapsed[c] /\ first[c][n] <= elapsed[c]
    BY <1>2 DEF TimersCover
  <2>7. Admission' /\ ReleasesInOrder'
    BY <1>2, <2>1, <2>5, WaitOrder
  <2>8. Fresh'
    BY <2>1, <2>2, <2>3, <2>5, StepsDiffer DEF Fresh
  <2>9. TimersCover'
    <3>1. \A n \in Hosts :
            /\ readyAt'[c][n] <= elapsed[c] /\ first'[c][n] <= elapsed[c]
            /\ first'[c][n] # Never =>
                 readyAt'[c][n] <= first'[c][n] /\ first'[c][n] \in criticalAt'[c][n]
            /\ steadyFrom'[c][n] # Never =>
                 first'[c][n] # Never /\ first'[c][n] <= steadyFrom'[c][n]
      <4>. SUFFICES ASSUME NEW n \in Hosts
                    PROVE  /\ readyAt'[c][n] <= elapsed[c] /\ first'[c][n] <= elapsed[c]
                           /\ first'[c][n] # Never =>
                                /\ readyAt'[c][n] <= first'[c][n]
                                /\ first'[c][n] \in criticalAt'[c][n]
                           /\ steadyFrom'[c][n] # Never =>
                                first'[c][n] # Never /\ first'[c][n] <= steadyFrom'[c][n]
        OBVIOUS
      <4>1. CASE list[n] = "ready"
        BY <1>3, <2>3, <2>4, <4>1, Times
      <4>2. CASE list[n] = "critical"
        <5>1. readyAt'[c][n] = readyAt[c][n]
          BY <2>3, <4>2
        <5>2. CASE first[c][n] = Never
          <6>1. first'[c][n] = elapsed[c] /\ steadyFrom'[c][n] = elapsed[c]
            BY <1>4, <2>3, <2>4, <4>2, <5>2
          <6>. QED
            BY <1>3, <2>3, <2>6, <4>2, <5>1, <6>1, Times
        <5>3. CASE first[c][n] # Never
          <6>1. first'[c][n] = first[c][n] /\ first[c][n] <= elapsed[c]
            BY <2>4, <2>6, <4>2, <5>3
          <6>. QED
            BY <1>3, <1>4, <2>3, <2>6, <4>2, <5>1, <5>3, <6>1
        <5>. QED
          BY <5>2, <5>3
      <4>3. CASE list[n] \notin {"ready", "critical"}
        BY <1>3, <1>4, <2>3, <2>4, <2>6, <4>3, Times
      <4>. QED
        BY <4>1, <4>2, <4>3
    <3>. QED
      BY <1>2, <2>1, <2>2, <2>3, <3>1 DEF TimersCover
  <2>10. DeadlinesKept'
    <3>1. due[c] \in Nat /\ elapsed[c] <= LastList + CallTime
      BY <1>2, <1>3, Times DEF DeadlinesKept, TypeOK
    <3>2. elapsed[c] <= due'[c] /\ due'[c] <= Limit("polling")
      BY <1>3, <2>2, <3>1, Times
    <3>3. \A d \in Calls : pc'[d] \in Waiting => elapsed[d] <= due'[d] /\ due'[d] <= Limit(pc'[d])
      BY <2>2, <3>2 DEF DeadlinesKept
    <3>. QED
      BY <2>1, <3>3 DEF DeadlinesKept, PollIsBounded, Limit
  <2>11. ChartsOnReadyCluster'
    BY <2>2, <2>3, <2>5, StepsDiffer DEF Verdicts, ChartsOnReadyCluster
  <2>12. CriticalWasNeverReady'
    <3>1. answer[c].error = "none"
      BY <1>2 DEF TimersCover
    <3>. QED
      BY <2>1, <2>3, <3>1 DEF Verdicts, CriticalWasNeverReady
  <2>13. SteadyTroubleEndsPoll'
    <3>1. ASSUME NEW n \in Hosts, steadyFrom'[c][n] # Never
          PROVE  due'[c] - PollInterval - steadyFrom'[c][n] <= CriticalTimeout
      <4>1. list[n] = "critical"
        BY <2>3, <3>1
      <4>2. first[c][n] # Never => elapsed[c] - first[c][n] <= CriticalTimeout
        BY <1>3, <1>7, <4>1, Times DEF Expired, Moments
      <4>3. CASE steadyFrom[c][n] = Never
        <5>1. due'[c] - PollInterval - steadyFrom'[c][n] = 0
          BY <1>3, <2>2, <2>3, <4>1, <4>3, Times
        <5>. QED
          BY <5>1, Times
      <4>4. CASE steadyFrom[c][n] # Never
        <5>1. /\ first[c][n] \in Nat /\ steadyFrom[c][n] \in Nat
              /\ first[c][n] <= steadyFrom[c][n] /\ first[c][n] # Never
          BY <1>3, <1>4, <4>4 DEF Moments
        <5>2. due'[c] - PollInterval - steadyFrom'[c][n] = elapsed[c] - steadyFrom[c][n]
          BY <1>3, <2>2, <2>3, <4>1, <4>4, <5>1, Times
        <5>. QED
          BY <1>3, <4>2, <5>1, <5>2, Times
      <4>. QED
        BY <4>3, <4>4
    <3>. QED
      BY <2>2, <2>3, <3>1 DEF Verdicts, SteadyTroubleEndsPoll
  <2>. QED
    BY <2>7, <2>8, <2>9, <2>10, <2>11, <2>12, <2>13 DEF Verdicts
<1>. QED
  BY <1>5, <1>6, <1>7

LEMMA TickKeeps ==
  ASSUME TypeOK, InstallInv, NEW c \in Calls, Tick(c)
  PROVE  InstallInv'
<1>. USE DEF InstallInv
<1>1. /\ pc[c] \in Waiting /\ elapsed[c] < due[c]
      /\ elapsed' = [elapsed EXCEPT ![c] = elapsed[c] + 1]
      /\ UNCHANGED <<clusterVars, pc, answer, due, first, readyAt, criticalAt, steadyFrom>>
  BY DEF Tick, Waiting
<1>2. /\ elapsed'[c] = elapsed[c] + 1 /\ elapsed[c] \in Nat /\ due[c] \in Nat
      /\ \A d \in Calls : d # c => elapsed'[d] = elapsed[d]
  BY <1>1 DEF TypeOK
<1>3. Admission' /\ ReleasesInOrder'
  BY <1>1 DEF Admission, OneInstallation, ReleasesInOrder, StillToCome, clusterVars
<1>4. Fresh'
  BY <1>1, <1>2, StepsDiffer DEF Fresh
<1>5. TimersCover'
  <2>1. \A n \in Hosts : readyAt[c][n] <= elapsed'[c] /\ first[c][n] <= elapsed'[c]
    <3>1. \A n \in Hosts :
            /\ readyAt[c][n] \in Int /\ readyAt[c][n] <= elapsed[c]
            /\ first[c][n] \in Int /\ first[c][n] <= elapsed[c]
      BY <1>1 DEF TimersCover, TypeOK, Moments, Never
    <3>. QED
      BY <1>2, <3>1
  <2>. QED
    BY <1>1, <1>2, <2>1 DEF TimersCover
<1>6. DeadlinesKept'
  <2>1. elapsed'[c] <= due[c] /\ due[c] <= Limit(pc[c])
    BY <1>1, <1>2 DEF DeadlinesKept
  <2>2. Limit(pc[c]) <= ReadinessTimeout - 1 + 2 * CallTime + PollInterval /\ Limit(pc[c]) \in Nat
    BY <1>1, Times, InstallAssumption DEF Waiting
  <2>3. elapsed'[c] <= ReadinessTimeout - 1 + 2 * CallTime + PollInterval
    BY <1>2, <2>1, <2>2, InstallAssumption
  <2>4. PollIsBounded'
    BY <1>2, <2>3 DEF DeadlinesKept, PollIsBounded
  <2>5. \A d \in Calls : pc[d] \in Waiting => elapsed'[d] <= due[d] /\ due[d] <= Limit(pc[d])
    BY <1>2, <2>1 DEF DeadlinesKept
  <2>. QED
    BY <1>1, <2>4, <2>5 DEF DeadlinesKept, Limit
<1>7. Verdicts'
  <2>1. answer[c].error = "none"
    BY <1>1 DEF TimersCover
  <2>. QED
    BY <1>1, <1>2, <2>1
    DEF Verdicts, ChartsOnReadyCluster, CriticalWasNeverReady, SteadyTroubleEndsPoll
<1>. QED
  BY <1>3, <1>4, <1>5, <1>6, <1>7

LEMMA StepInstall ==
  ASSUME TypeOK, InstallInv, [Next]_vars
  PROVE  InstallInv'
<1>1. CASE UNCHANGED vars
  <2>. USE <1>1 DEF vars, clusterVars, sshVars, pollVars, InstallInv
  <2>1. Admission' /\ ReleasesInOrder'
    BY DEF Admission, OneInstallation, ReleasesInOrder, StillToCome
  <2>2. Fresh' /\ TimersCover'
    BY DEF Fresh, TimersCover
  <2>3. DeadlinesKept'
    BY DEF DeadlinesKept, PollIsBounded, Limit
  <2>4. Verdicts'
    BY DEF Verdicts, ChartsOnReadyCluster, CriticalWasNeverReady, SteadyTroubleEndsPoll
  <2>. QED
    BY <2>1, <2>2, <2>3, <2>4
<1>2. ASSUME NEW c \in Calls, SshStep(c)
      PROVE  InstallInv'
  BY <1>2, StepOverSsh, SshKeeps
<1>3. ASSUME NEW c \in Calls, LocalStep(c)
      PROVE  InstallInv'
  BY <1>3, StepLocally, LocalKeeps
<1>4. ASSUME NEW c \in Calls, WaitStep(c)
      PROVE  InstallInv'
  <2>1. CASE ListFails(c)
    <3>1. "kubernetes_install_failed" \in Errors \ {"node_critical"} /\ "listing" \in Waiting
      BY DEF Errors, Waiting
    <3>. QED
      BY <2>1, <3>1, FailEndsPoll DEF ListFails
  <2>2. CASE Report(c)
    <3>1. "node_readiness_failed" \in Errors \ {"node_critical"} /\ "reporting" \in Waiting
      BY DEF Errors, Waiting
    <3>. QED
      BY <2>2, <3>1, FailEndsPoll DEF Report
  <2>. QED
    BY <1>4, <2>1, <2>2, PollKeeps, ListedKeeps, TickKeeps DEF WaitStep
<1>. QED
  BY <1>1, <1>2, <1>3, <1>4, BeginKeeps DEF Next

LEMMA Inductive == Spec => [](TypeOK /\ InstallInv)
<1>1. TypeOK /\ InstallInv /\ [Next]_vars => (TypeOK /\ InstallInv)'
  BY StepType, StepInstall
<1>2. Init => TypeOK /\ InstallInv
  BY InitType, InitInstall
<1>. QED
  BY <1>1, <1>2, PTL DEF Spec

---------------------------------------------------------------------------
\* The variables of an installation always hold values of their kind; a kubectl
\* apply is never at more than its last attempt.
THEOREM TypeCorrect == Spec => []TypeOK
BY Inductive, PTL

\* However many calls overlap or follow each other, one at most installs the
\* cluster.
THEOREM OneInstallationSafe == Spec => []OneInstallation
BY Inductive, PTL DEF InstallInv, Admission

\* No call comes to a helm install whose release is there already.
THEOREM ReleaseSafe == Spec => []NoReleaseClash
<1>1. TypeOK /\ InstallInv => NoReleaseClash
  <2>. SUFFICES ASSUME TypeOK, InstallInv, NEW c \in Calls,
                       pc[c] \in {"efs", "prometheus", "keda"}
                PROVE  pc[c] \notin releases
    BY DEF NoReleaseClash
  <2>1. c \in admitted
    BY DEF InstallInv, Admission
  <2>2. pc[c] \in StillToCome(pc[c])
    BY DEF StillToCome, SshSteps, OnControlPlane, Waiting, BeforeEfs, BeforePrometheus, BeforeKeda
  <2>. QED
    BY <2>1, <2>2 DEF InstallInv, ReleasesInOrder
<1>. QED
  BY <1>1, Inductive, PTL

\* Drivers and operators are installed only after one list had all nodes Ready.
THEOREM ReadySafe == Spec => []ChartsOnReadyCluster
BY Inductive, PTL DEF InstallInv, Verdicts

\* A node that ends an installation was listed critical longer ago than
\* CRITICAL_CONDITION_TIMEOUT, is so still, and was not listed Ready since.
THEOREM CriticalSafe == Spec => []CriticalWasNeverReady
BY Inductive, PTL DEF InstallInv, Verdicts

\* A node that is critical for longer than CRITICAL_CONDITION_TIMEOUT without a
\* break ends the poll.
THEOREM SteadyTroubleSafe == Spec => []SteadyTroubleEndsPoll
BY Inductive, PTL DEF InstallInv, Verdicts

\* By how much the poll may overrun node_readiness_timeout_seconds.
THEOREM PollTimeSafe == Spec => []PollIsBounded
BY Inductive, PTL DEF InstallInv, DeadlinesKept

---------------------------------------------------------------------------
(* What a step leaves alone *)

ownVars(c) == <<pc[c], conn[c], togo[c], attempt[c], elapsed[c], due[c]>>

LEMMA SshIsLocal ==
  ASSUME TypeOK, NEW d \in Calls, SshStep(d)
  PROVE  /\ \A c \in Calls \ {d} : UNCHANGED ownVars(c)
         /\ UNCHANGED <<attempt, elapsed, due>>
         /\ members \subseteq members'
<1>1. UNCHANGED <<attempt, elapsed, due>> /\ members \subseteq members'
  BY DEF SshStep, Connect, InitControlPlane, KubeadmInit, CopyKubeconfig,
         InstallFlannel, GetJoinToken, Remote, JoinWorker, KubeadmJoin, clusterVars, pollVars
<1>2. \A c \in Calls \ {d} : UNCHANGED <<pc[c], conn[c], togo[c]>>
  BY DEF SshStep, Connect, InitControlPlane, CopyKubeconfig, InstallFlannel,
         GetJoinToken, Remote, JoinWorker, Succeed, FailOver, Close, Go, Fail, TypeOK
<1>. QED
  BY <1>1, <1>2 DEF ownVars

LEMMA WaitIsLocal ==
  ASSUME TypeOK, NEW d \in Calls, WaitStep(d)
  PROVE  /\ \A c \in Calls \ {d} : UNCHANGED ownVars(c)
         /\ UNCHANGED <<members, conn, togo, attempt>>
<1>1. UNCHANGED <<members, conn, togo, attempt>>
  BY DEF WaitStep, Poll, Listed, ListFails, Report, Tick, clusterVars, sshVars
<1>2. \A c \in Calls \ {d} : UNCHANGED <<pc[c], elapsed[c], due[c]>>
  <2>1. CASE Listed(d)
    BY <2>1 DEF Listed, PollWithin, Go, Fail, TypeOK
  <2>. QED
    BY <2>1 DEF WaitStep, Poll, ListFails, Report, Tick, PollWithin, Go, Fail, TypeOK, pollVars
<1>. QED
  BY <1>1, <1>2 DEF ownVars

LEMMA LocalIsLocal ==
  ASSUME TypeOK, NEW d \in Calls, LocalStep(d)
  PROVE  /\ \A c \in Calls \ {d} : UNCHANGED ownVars(c)
         /\ UNCHANGED <<members, conn, togo, elapsed, due>>
<1>. USE DEF TypeOK
<1>1. \/ \E step, next : Command(d, step, next)
      \/ \E release, next : HelmInstall(d, release, next)
      \/ \E step, next : ApplyWithRetry(d, step, next)
      \/ ProbeWebhook(d)
  BY DEF LocalStep, InstallEbsCsi, InstallEfsCsi, InstallPrometheus, InstallOtelCollector,
         InstallVpa, InstallKeda
<1>2. UNCHANGED <<members, conn, togo, elapsed, due>>
  BY <1>1 DEF Command, HelmInstall, ApplyWithRetry, ProbeWebhook, Local, sshVars, pollVars
<1>3. \A c \in Calls \ {d} : UNCHANGED <<pc[c], attempt[c]>>
  BY <1>1 DEF Command, HelmInstall, ApplyWithRetry, ProbeWebhook, Go, Fail
<1>. QED
  BY <1>2, <1>3 DEF ownVars

LEMMA BeginIsLocal ==
  ASSUME TypeOK, NEW d \in Calls, Begin(d)
  PROVE  /\ \A c \in Calls \ {d} : UNCHANGED ownVars(c)
         /\ UNCHANGED <<members, conn, togo, attempt, elapsed, due>>
BY DEF Begin, Go, ownVars, clusterVars, sshVars, pollVars, TypeOK

---------------------------------------------------------------------------
(* The poll begins with every host in the cluster *)

\* Only a worker that is in the cluster is crossed off, and the client is never
\* connected to one that is.
JoinOf(c) ==
  /\ Workers \ togo[c] \subseteq members
  /\ pc[c] = "join" => conn[c] \in togo[c] \union {Nobody}
  /\ pc[c] \notin {"idle", "kubeadm_init", "failed"} => ControlPlane \in members
  /\ pc[c] \in Waiting \union LocalSteps => togo[c] = {}

JoinInv == \A c \in Calls : JoinOf(c)

LEMMA SshJoins ==
  ASSUME TypeOK, NEW c \in Calls, JoinOf(c), SshStep(c)
  PROVE  JoinOf(c)'
<1>. USE DEF TypeOK
<1>1. /\ members \subseteq members'
      /\ pc[c] \in SshSteps
      /\ pc[c] # "kubeadm_init" => ControlPlane \in members
  BY SshIsLocal, StepsDiffer
  DEF SshStep, Connect, InitControlPlane, CopyKubeconfig, InstallFlannel,
      GetJoinToken, Remote, JoinWorker, At, JoinOf, SshSteps, OnControlPlane
<1>2. ASSUME pc' = [pc EXCEPT ![c] = "failed"], togo' = togo
      PROVE  JoinOf(c)'
    BY <1>1, <1>2, StepsDiffer DEF JoinOf
<1>3. CASE Connect(c)
  <2>1. CASE UNCHANGED pc
    BY <1>1, <1>3, <2>1, StepsDiffer DEF Connect, Targets, JoinOf
  <2>. QED
    BY <1>2, <1>3, <2>1 DEF Connect, Fail
<1>4. CASE InitControlPlane(c)
  <2>1. CASE KubeadmInit(FALSE) /\ Succeed(c, "setup_kubeconfig")
    <3>1. ControlPlane \in members' /\ pc'[c] = "setup_kubeconfig" /\ togo' = togo
      BY <1>4, <2>1 DEF InitControlPlane, KubeadmInit, Succeed, Go
    <3>. QED
      BY <1>1, <3>1, StepsDiffer DEF JoinOf, SshSteps, OnControlPlane
  <2>. QED
    BY <1>2, <1>4, <2>1 DEF InitControlPlane, FailOver, Fail
<1>5. ASSUME NEW next \in SshSteps \union {"polling"}, next = "polling" => Workers = {},
             Succeed(c, next), togo' = togo, ControlPlane \in members
      PROVE  JoinOf(c)'
  <2>1. conn'[c] = Nobody /\ pc'[c] = next
    BY <1>5 DEF Succeed, Close, Go
  <2>. QED
    BY <1>1, <1>5, <2>1, StepsDiffer DEF JoinOf, SshSteps, OnControlPlane, Waiting
<1>6. CASE CopyKubeconfig(c) \/ InstallFlannel(c) \/ GetJoinToken(c)
  <2>1. togo' = togo /\ ControlPlane \in members
    BY <1>1, <1>6
    DEF CopyKubeconfig, InstallFlannel, GetJoinToken, Remote, At
  <2>2. \/ Succeed(c, "copy_kubeconfig") \/ Succeed(c, "flannel") \/ Succeed(c, "join_token")
        \/ Succeed(c, AfterToken)
        \/ pc' = [pc EXCEPT ![c] = "failed"]
    BY <1>6 DEF CopyKubeconfig, InstallFlannel, GetJoinToken, Remote, Succeed,
                FailOver, Fail
  <2>. QED
    BY <1>2, <1>5, <2>1, <2>2 DEF AfterToken, SshSteps, OnControlPlane
<1>7. CASE JoinWorker(c)
  <2>. DEFINE left == togo[c] \ {conn[c]}
  <2>1. CASE /\ KubeadmJoin(conn[c], FALSE) /\ togo' = [togo EXCEPT ![c] = left]
             /\ Succeed(c, IF left = {} THEN "polling" ELSE "join")
    <3>1. /\ members' = members \union {conn[c]} /\ togo'[c] = left /\ conn'[c] = Nobody
          /\ pc'[c] = IF left = {} THEN "polling" ELSE "join"
      BY <2>1 DEF KubeadmJoin, Succeed, Close, Go
    <3>2. Workers \ left \subseteq members' /\ ControlPlane \in members'
      BY <1>1, <1>7, <3>1 DEF JoinOf, JoinWorker, At
    <3>. QED
      BY <3>1, <3>2, StepsDiffer DEF JoinOf, SshSteps, Waiting
  <2>. QED
    BY <1>2, <1>7, <2>1 DEF JoinWorker, FailOver, Fail
<1>. QED
  BY <1>3, <1>4, <1>6, <1>7 DEF SshStep

LEMMA NextJoins == ASSUME TypeOK, JoinInv, [Next]_vars PROVE JoinInv'
<1>. USE DEF JoinInv
<1>1. CASE UNCHANGED vars
  BY <1>1 DEF vars, clusterVars, sshVars, JoinOf
<1>2. ASSUME NEW d \in Calls, NEW c \in Calls \ {d}, UNCHANGED ownVars(c),
             members \subseteq members'
      PROVE  JoinOf(c)'
  BY <1>2 DEF ownVars, JoinOf
<1>3. ASSUME NEW d \in Calls, SshStep(d)
      PROVE  JoinInv'
  BY <1>2, <1>3, SshIsLocal, SshJoins
<1>4. ASSUME NEW d \in Calls, UNCHANGED <<members, conn, togo>>,
             pc[d] \notin {"idle", "kubeadm_init", "failed"} \/ pc'[d] = "kubeadm_init",
             pc'[d] # "join",
             pc'[d] \in Waiting \union LocalSteps => pc[d] \in Waiting \union LocalSteps
      PROVE  JoinOf(d)'
  BY <1>4 DEF JoinOf
<1>5. ASSUME NEW d \in Calls, Begin(d)
      PROVE  JoinInv'
  <2>1. pc'[d] = "kubeadm_init"
    BY <1>5 DEF Begin, Go, TypeOK
  <2>. QED
    BY <1>2, <1>4, <1>5, <2>1, BeginIsLocal, StepsDiffer DEF SshSteps, OnControlPlane
<1>6. ASSUME NEW d \in Calls, WaitStep(d)
      PROVE  JoinInv'
  <2>1. /\ pc[d] \in Waiting
        /\ pc'[d] \in Waiting \union {"ebs_repo", "failed"}
    BY <1>6 DEF WaitStep, Poll, Listed, ListFails, Report, Tick, PollWithin, Go, Fail, TypeOK,
                Waiting
  <2>2. JoinOf(d)'
    BY <1>4, <1>6, <2>1, WaitIsLocal, StepsDiffer DEF Waiting
  <2>. QED
    BY <1>2, <1>6, <2>2, WaitIsLocal
<1>7. ASSUME NEW d \in Calls, LocalStep(d)
      PROVE  JoinInv'
  <2>1. pc[d] \in LocalSteps /\ pc'[d] \in LocalSteps \union {"failed"}
    BY <1>7, StepLocally DEF LocalMove, TypeOK
  <2>2. JoinOf(d)'
    BY <1>4, <1>7, <2>1, LocalIsLocal, StepsDiffer DEF SshSteps, OnControlPlane
  <2>. QED
    BY <1>2, <1>7, <2>2, LocalIsLocal
<1>. QED
  BY <1>1, <1>3, <1>5, <1>6, <1>7 DEF Next

\* A call that polls has every host of its request in the cluster.
EveryHostJoined ==
  \A c \in Calls : pc[c] \in Waiting \union LocalSteps => Hosts \subseteq members

\* A call has joined every host it names before it counts the nodes that are
\* Ready, although the workers are joined one by one and each may fail: the
\* poll never waits for a node that nobody joined.
THEOREM JoinSafe == Spec => []EveryHostJoined
<1>1. Init => JoinInv
  BY StepsDiffer DEF Init, JoinInv, JoinOf
<1>2. JoinInv => EveryHostJoined
  <2>1. \A s \in Waiting \union LocalSteps : s \notin {"idle", "kubeadm_init", "failed"}
    BY StepsDiffer DEF SshSteps, OnControlPlane
  <2>. QED
    BY <2>1 DEF JoinInv, JoinOf, EveryHostJoined, Hosts
<1>. QED
  BY <1>1, <1>2, NextJoins, TypeCorrect, PTL DEF Spec

---------------------------------------------------------------------------
(* No installation goes on for ever *)

\* How many steps a call may still go through; the poll is one of them.
Ahead ==
  [failed |-> 0, installed |-> 0,
   vpa_wait |-> 1, keda_wait |-> 1, vpa_up |-> 2, keda |-> 2, vpa_clone |-> 3, keda_repo |-> 3,
   operator_wait |-> 4, operator |-> 5, webhook_probe |-> 6, webhook_wait |-> 7,
   cert_manager_wait |-> 8, cert_manager |-> 9, prometheus |-> 10, prometheus_repo |-> 11,
   efs |-> 12, efs_repo |-> 13, storage_class |-> 14, ebs_upgrade |-> 15, ebs_repo |-> 16,
   polling |-> 17, listing |-> 17, reporting |-> 17,
   join |-> 18, join_token |-> 19, flannel |-> 20, copy_kubeconfig |-> 21,
   setup_kubeconfig |-> 22, kubeadm_init |-> 23, idle |-> 24]

\* One worker less to join, or a connection to the next host.
JoinAdvances(c) ==
  /\ pc'[c] = pc[c] /\ pc[c] \in SshSteps
  /\ \/ togo'[c] \subseteq togo[c] /\ togo'[c] # togo[c]
     \/ togo'[c] = togo[c] /\ conn[c] = Nobody /\ conn'[c] # Nobody

\* The clock of the poll moves; or, at one time, from the top of the loop to the
\* list, and from there to the sleep.
PollAdvances(c) ==
  /\ pc[c] \in Waiting /\ pc'[c] \in Waiting
  /\ \/ elapsed'[c] > elapsed[c]
     \/ /\ elapsed'[c] = elapsed[c]
        /\ \/ pc[c] = "polling" /\ elapsed[c] >= due[c] /\ pc'[c] # "polling"
           \/ pc[c] = "listing" /\ pc'[c] = "polling" /\ elapsed[c] < due'[c]

RetryAdvances(c) ==
  /\ pc'[c] = pc[c] /\ pc[c] \in LocalSteps
  /\ attempt'[c] > attempt[c]

Advances(c) ==
  \/ Ahead[pc'[c]] < Ahead[pc[c]]
  \/ JoinAdvances(c)
  \/ PollAdvances(c)
  \/ RetryAdvances(c)

LEMMA AheadOfSteps ==
  /\ \A s \in Steps : Ahead[s] \in Nat
  /\ \A s \in Steps \ {"failed", "installed"} : Ahead[s] > 0
  /\ Ahead["failed"] = 0
  /\ \A s \in Waiting : Ahead[s] = 17
BY DEF Ahead, Steps, SshSteps, OnControlPlane, Waiting, LocalSteps, BeforeEfs,
       BeforePrometheus, BeforeKeda, Afterwards

LEMMA GoAdvances ==
  ASSUME TypeOK, NEW c \in Calls, NEW next, Go(c, next), Ahead[next] < Ahead[pc[c]]
  PROVE  Advances(c)
BY DEF Go, Advances, TypeOK

LEMMA FailAdvances ==
  ASSUME TypeOK, NEW c \in Calls, NEW error, NEW node, Fail(c, error, node),
         pc[c] \notin {"failed", "installed"}
  PROVE  Advances(c)
BY AheadOfSteps DEF Fail, Advances, TypeOK

LEMMA SshAdvances ==
  ASSUME TypeOK, JoinInv, NEW c \in Calls, SshStep(c)
  PROVE  Advances(c)
<1>. USE GoAdvances, FailAdvances
<1>1. pc[c] \in SshSteps /\ pc[c] \notin {"failed", "installed"}
  BY DEF SshStep, Connect, InitControlPlane, CopyKubeconfig, InstallFlannel,
         GetJoinToken, Remote, JoinWorker, At, SshSteps, OnControlPlane
<1>2. CASE Connect(c)
  <2>1. PICK host \in Targets(c) :
          \/ conn' = [conn EXCEPT ![c] = host] /\ UNCHANGED pc
          \/ Fail(c, "kubernetes_install_failed", host)
    BY <1>2 DEF Connect
  <2>2. CASE conn' = [conn EXCEPT ![c] = host] /\ UNCHANGED pc
    <3>1. host \in Hosts /\ conn'[c] # Nobody
      BY <2>1, <2>2, InstallAssumption DEF Targets, Hosts, TypeOK
    <3>. QED
      BY <1>1, <1>2, <2>2, <3>1 DEF Connect, Advances, JoinAdvances
  <2>. QED
    BY <1>1, <2>1, <2>2
<1>3. ASSUME FailOver(c)
      PROVE  Advances(c)
  BY <1>1, <1>3 DEF FailOver
<1>4. CASE InitControlPlane(c)
  <2>1. FailOver(c) \/ (pc[c] = "kubeadm_init" /\ Go(c, "setup_kubeconfig"))
    BY <1>4 DEF InitControlPlane, At, Succeed
  <2>2. CASE pc[c] = "kubeadm_init" /\ Go(c, "setup_kubeconfig")
    BY <2>2 DEF Ahead
  <2>. QED
    BY <1>3, <2>1, <2>2
<1>5. CASE CopyKubeconfig(c) \/ InstallFlannel(c) \/ GetJoinToken(c)
  <2>1. \/ FailOver(c)
        \/ pc[c] = "setup_kubeconfig" /\ Go(c, "copy_kubeconfig")
        \/ pc[c] = "copy_kubeconfig" /\ Go(c, "flannel")
        \/ pc[c] = "flannel" /\ Go(c, "join_token")
        \/ pc[c] = "join_token" /\ (Go(c, "polling") \/ Go(c, "join"))
    BY <1>5 DEF CopyKubeconfig, InstallFlannel, GetJoinToken, AfterToken, Remote, At,
                Succeed
  <2>. QED
    BY <1>1, <1>3, <2>1 DEF Ahead
<1>6. CASE JoinWorker(c)
  <2>. DEFINE left == togo[c] \ {conn[c]}
  <2>1. CASE togo' = [togo EXCEPT ![c] = left] /\ Succeed(c, IF left = {} THEN "polling" ELSE "join")
    <3>1. pc[c] = "join" /\ conn[c] \in togo[c] /\ togo'[c] = left
      BY <1>6, <2>1 DEF JoinWorker, At, JoinInv, JoinOf, SshSteps, TypeOK
    <3>2. CASE left = {}
      BY <2>1, <3>1, <3>2 DEF Succeed, Ahead
    <3>3. CASE left # {}
      <4>1. pc'[c] = "join"
        BY <2>1, <3>3 DEF Succeed, Go, TypeOK
      <4>. QED
        BY <1>1, <3>1, <4>1 DEF Advances, JoinAdvances
    <3>. QED
      BY <3>2, <3>3
  <2>. QED
    BY <1>3, <1>6, <2>1 DEF JoinWorker
<1>. QED
  BY <1>2, <1>4, <1>5, <1>6 DEF SshStep

LEMMA WaitAdvances ==
  ASSUME TypeOK, NEW c \in Calls, WaitStep(c)
  PROVE  Advances(c)
<1>. USE DEF Waiting, TypeOK
<1>1. CASE Poll(c)
  BY <1>1 DEF Poll, PollWithin, Go, Advances, PollAdvances
<1>2. CASE Listed(c)
  <2>1. \/ \E n : Fail(c, "node_critical", n)
        \/ Go(c, "ebs_repo")
        \/ PollWithin(c, "polling", PollInterval) /\ UNCHANGED elapsed
    <3>1. PICK list \in Lists :
            IF Expired(c, list) # {}
              THEN \E n \in Expired(c, list) : Fail(c, "node_critical", n)
              ELSE \/ Go(c, "ebs_repo")
                   \/ PollWithin(c, "polling", PollInterval) /\ UNCHANGED elapsed
      BY <1>2 DEF Listed
    <3>. QED
      BY <3>1
  <2>2. CASE PollWithin(c, "polling", PollInterval) /\ UNCHANGED elapsed
    <3>1. due'[c] > elapsed[c]
      BY <2>2, InstallAssumption DEF PollWithin
    <3>. QED
      BY <1>2, <2>2, <3>1 DEF Listed, PollWithin, Go, Advances, PollAdvances
  <2>3. pc[c] = "listing"
    BY <1>2 DEF Listed
  <2>4. CASE Go(c, "ebs_repo")
    BY <2>3, <2>4, GoAdvances DEF Ahead
  <2>5. ASSUME NEW n, Fail(c, "node_critical", n)
        PROVE  Advances(c)
    BY <2>3, <2>5, FailAdvances
  <2>. QED
    BY <2>1, <2>2, <2>4, <2>5
<1>3. CASE ListFails(c) \/ Report(c)
  BY <1>3, FailAdvances DEF ListFails, Report
<1>4. CASE Tick(c)
  BY <1>4 DEF Tick, Advances, PollAdvances
<1>. QED
  BY <1>1, <1>2, <1>3, <1>4 DEF WaitStep

LEMMA LocalAdvances ==
  ASSUME TypeOK, NEW c \in Calls, LocalStep(c)
  PROVE  Advances(c)
<1>. USE GoAdvances, FailAdvances
<1>1. ASSUME NEW step \in LocalSteps \ {"installed"}, NEW next, Ahead[next] < Ahead[step],
             Command(c, step, next) \/ HelmInstall(c, step, next) \/ ApplyWithRetry(c, step, next)
      PROVE  Advances(c)
  <2>1. pc[c] = step /\ step \notin {"failed", "installed"}
    BY <1>1, StepsDiffer DEF Command, HelmInstall, ApplyWithRetry
  <2>2. CASE UNCHANGED pc /\ attempt' = [attempt EXCEPT ![c] = @ + 1]
    BY <1>1, <2>1, <2>2 DEF Advances, RetryAdvances, TypeOK
  <2>. QED
    BY <1>1, <2>1, <2>2 DEF Command, HelmInstall, ApplyWithRetry
<1>2. CASE InstallEbsCsi(c) \/ InstallEfsCsi(c) \/ InstallPrometheus(c)
  BY <1>1, <1>2 DEF InstallEbsCsi, InstallEfsCsi, InstallPrometheus, Ahead, LocalSteps,
                    BeforeEfs, BeforePrometheus
<1>3. CASE ProbeWebhook(c)
  BY <1>3 DEF ProbeWebhook, Ahead
<1>4. CASE InstallOtelCollector(c)
  BY <1>1, <1>3, <1>4 DEF InstallOtelCollector, Ahead, LocalSteps, BeforeKeda
<1>5. CASE InstallVpa(c) \/ InstallKeda(c)
  BY <1>1, <1>5 DEF InstallVpa, InstallKeda, Ahead, LocalSteps, BeforeKeda, Afterwards
<1>. QED
  BY <1>2, <1>3, <1>4, <1>5 DEF LocalStep

CallNext(c) == Begin(c) \/ SshStep(c) \/ WaitStep(c) \/ LocalStep(c)

\* Every step of a call takes it further, and no step of another call takes it
\* back.
CallsAdvance ==
  \A c \in Calls :
    /\ CallNext(c) => Advances(c)
    /\ Advances(c) \/ UNCHANGED ownVars(c)

\* An installation joins each worker once, tries a kubectl apply MaxAttempts
\* times at most, and its poll lists the nodes at most once in PollInterval of a
\* time that PollIsBounded bounds: whatever other calls and the nodes do, it
\* takes a bounded number of steps.  What EveryPollEnds adds is the fairness.
THEOREM NoEndlessInstall == Spec => [][CallsAdvance]_vars
<1>1. ASSUME TypeOK, JoinInv, Next, NEW c \in Calls
      PROVE  /\ CallNext(c) => Advances(c)
             /\ Advances(c) \/ UNCHANGED ownVars(c)
  <2>. USE <1>1
  <2>1. ASSUME Begin(c)
        PROVE  Advances(c)
    BY <2>1, GoAdvances DEF Begin, Ahead
  <2>2. CallNext(c) => Advances(c)
    BY <2>1, SshAdvances, WaitAdvances, LocalAdvances DEF CallNext
  <2>3. ASSUME NEW d \in Calls \ {c}, CallNext(d)
        PROVE  UNCHANGED ownVars(c)
    BY <2>3, BeginIsLocal, SshIsLocal, WaitIsLocal, LocalIsLocal DEF CallNext
  <2>. QED
    BY <2>2, <2>3 DEF Next, CallNext
<1>2. TypeOK /\ JoinInv /\ [Next]_vars => [CallsAdvance]_vars
  BY <1>1 DEF CallsAdvance
<1>3. Init => JoinInv
  BY StepsDiffer DEF Init, JoinInv, JoinOf
<1>. QED
  BY <1>2, <1>3, NextJoins, TypeCorrect, PTL DEF Spec
=============================================================================

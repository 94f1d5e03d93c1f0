-------------------------- MODULE DeploymentProofs --------------------------
(***************************************************************************)
(* Type correctness and the safety properties of Deployment, for every     *)
(* number of calls, load generators and attempts.                          *)
(***************************************************************************)
EXTENDS Deployment, TLAPS

(* Types.  TypeOK is not inductive: the position is one of a load          *)
(* generator at the health checks because it already is when the           *)
(* kubeconfig is copied.                                                   *)

CallBounds(c) ==
  /\ At(c, HelmStages \union {"run"}) => attempt[c] <= MaxAttempts
  /\ At(c, {"verify"}) => attempt[c] <= HealthAttempts
  /\ At(c, {"copy", "verify"}) => pos[c] \in Roles

CallType ==
  /\ pc \in [Calls -> Stages]
  /\ attempt \in [Calls -> Nat]
  /\ pos \in [Calls -> Containers]
  /\ skips \in [Calls -> BOOLEAN]
  /\ \A c \in Calls : CallBounds(c)

WorldType ==
  /\ release \in [Releases -> ReleaseState]
  /\ owner \in Calls \union {NoCall}
  /\ container \in [Containers -> ContainerState]
  /\ disturbed \in [Calls -> SUBSET Containers]
  /\ unstarted \in [Calls -> SUBSET Containers]

ShutdownType ==
  /\ stage \in [Shutdowns -> ShutdownStages]
  /\ process \in [Shutdowns -> [Releases -> ProcessState]]
  /\ report \in [Shutdowns -> [Releases -> ReportState]]

TypeInv == CallType /\ WorldType /\ ShutdownType

LEMMA StageSets ==
  /\ Roles \subseteq Containers /\ 1 \in Roles /\ Broker \in Containers /\ Broker \notin Roles
  /\ HelmStages \union DockerStages \union {"idle", "images", "done", "failed"} = Stages
  /\ 1 <= MaxAttempts /\ 1 <= HealthAttempts
BY DeploymentAssumption DEF Roles, Containers, Broker, Stages

\* What becomes of one call: the rest of the calls are as they were.
LEMMA OneCallType ==
  ASSUME CallType, NEW c \in Calls,
         NEW stg \in Stages, NEW n \in Nat, NEW p \in Containers, NEW b \in BOOLEAN,
         pc' = [pc EXCEPT ![c] = stg], attempt' = [attempt EXCEPT ![c] = n],
         pos' = [pos EXCEPT ![c] = p], skips' = [skips EXCEPT ![c] = b],
         stg \in HelmStages \union {"run"} => n <= MaxAttempts,
         stg = "verify" => n <= HealthAttempts,
         stg \in {"copy", "verify"} => p \in Roles
  PROVE  CallType'
<1>1. /\ pc' \in [Calls -> Stages] /\ attempt' \in [Calls -> Nat]
      /\ pos' \in [Calls -> Containers] /\ skips' \in [Calls -> BOOLEAN]
  BY DEF CallType
<1>2. pc'[c] = stg /\ attempt'[c] = n /\ pos'[c] = p
  BY DEF CallType
<1>3. \A d \in Calls : d # c => pc'[d] = pc[d] /\ attempt'[d] = attempt[d] /\ pos'[d] = pos[d]
  BY DEF CallType
<1>4. CallBounds(c)'
  BY <1>2 DEF CallBounds, At
<1>5. \A d \in Calls : d # c => CallBounds(d)'
  BY <1>3 DEF CallType, CallBounds, At
<1>. QED
  BY <1>1, <1>4, <1>5 DEF CallType

LEMMA BeginType ==
  ASSUME CallType, NEW c \in Calls, NEW next \in Stages, Begin(c, next), UNCHANGED skips,
         \/ UNCHANGED pos /\ next \notin {"copy", "verify"}
         \/ pos' = [pos EXCEPT ![c] = Broker] /\ next \notin {"copy", "verify"}
         \/ pos' = [pos EXCEPT ![c] = 1]
  PROVE  CallType'
<1>1. skips[c] \in BOOLEAN /\ skips' = [skips EXCEPT ![c] = skips[c]]
  BY DEF CallType
<1>2. \E p \in Containers : /\ pos' = [pos EXCEPT ![c] = p]
                            /\ next \in {"copy", "verify"} => p \in Roles
  <2>1. UNCHANGED pos => pos' = [pos EXCEPT ![c] = pos[c]]
    BY DEF CallType
  <2>2. pos[c] \in Containers
    BY DEF CallType
  <2>. QED
    BY <2>1, <2>2, StageSets
<1>. QED
  BY <1>1, <1>2, StageSets, OneCallType DEF Begin

LEMMA RetryType ==
  ASSUME CallType, NEW c \in Calls, NEW from \in Stages, UNCHANGED skips,
         from \notin {"copy", "verify"}, Retry(c, from) \/ GiveUp(c)
  PROVE  CallType'
<1>1. /\ skips[c] \in BOOLEAN /\ skips' = [skips EXCEPT ![c] = skips[c]]
      /\ pos[c] \in Containers /\ pos' = [pos EXCEPT ![c] = pos[c]]
      /\ attempt[c] \in Nat
  BY DEF CallType, Retry, GiveUp
<1>2. CASE Retry(c, from)
  <2>1. attempt[c] + 1 \in Nat /\ attempt[c] + 1 <= MaxAttempts
    BY <1>1, <1>2, DeploymentAssumption DEF Retry
  <2>2. attempt' = [attempt EXCEPT ![c] = attempt[c] + 1] /\ pc' = [pc EXCEPT ![c] = from]
    BY <1>2 DEF Retry
  <2>. QED
    BY <1>1, <2>1, <2>2, OneCallType
<1>3. CASE GiveUp(c)
  <2>1. attempt' = [attempt EXCEPT ![c] = attempt[c]] /\ pc' = [pc EXCEPT ![c] = "failed"]
    BY <1>3 DEF GiveUp, CallType
  <2>2. "failed" \in Stages /\ "failed" \notin HelmStages
    BY DEF Stages, HelmStages
  <2>. QED
    BY <1>1, <2>1, <2>2, OneCallType
<1>. QED
  BY <1>2, <1>3

LEMMA AdvanceType ==
  ASSUME CallType, NEW c \in Calls, NEW next \in Stages, Advance(c, next), UNCHANGED skips,
         pc[c] \in {"run", "copy", "verify"}
  PROVE  CallType'
<1>1. CASE pos[c] < NumRoles
  <2>1. pos[c] + 1 \in Containers /\ pos[c] + 1 \in Roles
    BY <1>1, DeploymentAssumption DEF CallType, Containers, Roles
  <2>2. pc[c] \in Stages /\ Begin(c, pc[c]) /\ pos' = [pos EXCEPT ![c] = pos[c] + 1]
    BY <1>1 DEF Advance, CallType
  <2>3. skips[c] \in BOOLEAN /\ skips' = [skips EXCEPT ![c] = skips[c]]
    BY DEF CallType
  <2>. QED
    BY <2>1, <2>2, <2>3, StageSets, OneCallType DEF Begin
<1>2. CASE ~(pos[c] < NumRoles)
  BY <1>2, BeginType DEF Advance
<1>. QED
  BY <1>1, <1>2

LEMMA CallNextType ==
  ASSUME CallType, NEW c \in Calls, CallNext(c)
  PROVE  CallType'
<1>0. /\ {"network", "run", "copy", "verify", "images", "done", "failed", "repo_add",
          "repo_update", "install", "install_wait"} \subseteq Stages
      /\ {"install", "install_wait"} \subseteq HelmStages
  BY DEF Stages, HelmStages, DockerStages
<1>s. /\ skips[c] \in BOOLEAN /\ pos[c] \in Containers /\ attempt[c] \in Nat
      /\ UNCHANGED skips => skips' = [skips EXCEPT ![c] = skips[c]]
      /\ UNCHANGED pos => pos' = [pos EXCEPT ![c] = pos[c]]
      /\ UNCHANGED attempt => attempt' = [attempt EXCEPT ![c] = attempt[c]]
  BY DEF CallType
<1>1. ASSUME NEW skip \in BOOLEAN, Arrive(c, skip) PROVE CallType'
  <2>1. /\ skips' = [skips EXCEPT ![c] = skip]
        /\ pos' = [pos EXCEPT ![c] = pos[c]] /\ attempt' = [attempt EXCEPT ![c] = 1]
    BY <1>1, <1>s DEF Arrive, Begin
  <2>2. \/ pc' = [pc EXCEPT ![c] = "network"]
        \/ pc' = [pc EXCEPT ![c] = "repo_add"]
    BY <1>1 DEF Arrive, Begin
  <2>3. 1 \in Nat /\ 1 <= MaxAttempts
    BY StageSets
  <2>. QED
    BY <1>0, <1>s, <2>1, <2>2, <2>3, OneCallType
<1>2. CASE RepoCommand(c)
  <2>1. \/ Begin(c, "repo_update") /\ UNCHANGED pos
        \/ Begin(c, "install") /\ UNCHANGED pos
        \/ pc[c] \in {"repo_add", "repo_update"} /\ (Retry(c, pc[c]) \/ GiveUp(c))
    BY <1>2 DEF RepoCommand, At
  <2>2. UNCHANGED skips
    BY <1>2 DEF RepoCommand
  <2>3. CASE pc[c] \in {"repo_add", "repo_update"} /\ (Retry(c, pc[c]) \/ GiveUp(c))
    BY <1>0, <2>2, <2>3, RetryType
  <2>. QED
    BY <1>0, <2>1, <2>2, <2>3, BeginType
<1>3. CASE HelmCreates(c)
  <2>1. attempt[c] <= MaxAttempts
    BY <1>3 DEF HelmCreates, At, CallType, CallBounds, HelmStages
  <2>2. pc' = [pc EXCEPT ![c] = "install_wait"] /\ UNCHANGED <<skips, pos, attempt>>
    BY <1>3 DEF HelmCreates
  <2>. QED
    BY <1>0, <1>s, <2>1, <2>2, OneCallType
<1>4. CASE HelmRefuses(c) \/ HelmFails(c)
  BY <1>0, <1>4, RetryType DEF HelmRefuses, HelmFails
<1>5. CASE HelmDeploys(c)
  BY <1>0, <1>5, BeginType DEF HelmDeploys
<1>6. CASE VerifyNetwork(c)
  <2>1. CASE Begin(c, "run") /\ pos' = [pos EXCEPT ![c] = Broker]
    BY <1>0, <1>6, <2>1, BeginType DEF VerifyNetwork
  <2>2. CASE GiveUp(c)
    BY <1>0, <1>6, <2>2, RetryType DEF VerifyNetwork
  <2>. QED
    BY <1>6, <2>1, <2>2 DEF VerifyNetwork
<1>7. CASE RunStarts(c) \/ RunFindsName(c)
  BY <1>0, <1>7, AdvanceType DEF RunStarts, RunFindsName, At
<1>8. CASE RunFails(c) \/ RunHalfFails(c)
  BY <1>0, <1>8, RetryType DEF RunFails, RunHalfFails
<1>9. CASE CopyKubeconfig(c)
  <2>1. CASE Advance(c, "verify")
    BY <1>0, <1>9, <2>1, AdvanceType DEF CopyKubeconfig, At
  <2>2. CASE GiveUp(c)
    BY <1>0, <1>9, <2>2, RetryType DEF CopyKubeconfig
  <2>. QED
    BY <1>9, <2>1, <2>2 DEF CopyKubeconfig
<1>10. CASE VerifyHealthy(c)
  BY <1>0, <1>10, AdvanceType DEF VerifyHealthy, At
<1>11. CASE VerifyUnhealthy(c)
  <2>1. CASE GiveUp(c)
    BY <1>0, <1>11, <2>1, RetryType DEF VerifyUnhealthy
  <2>2. CASE /\ attempt[c] < HealthAttempts
             /\ attempt' = [attempt EXCEPT ![c] = @ + 1] /\ UNCHANGED <<pc, pos>>
    <3>1. pc[c] = "verify" /\ pos[c] \in Roles /\ UNCHANGED skips
      BY <1>11 DEF VerifyUnhealthy, At, CallType, CallBounds
    <3>2. pc' = [pc EXCEPT ![c] = "verify"]
      BY <2>2, <3>1 DEF CallType
    <3>3. attempt[c] + 1 \in Nat /\ attempt[c] + 1 <= HealthAttempts
      BY <1>s, <2>2, DeploymentAssumption
    <3>4. "verify" \notin HelmStages \union {"run"}
      BY DEF HelmStages
    <3>. QED
      BY <1>0, <1>s, <2>2, <3>1, <3>2, <3>3, <3>4, OneCallType
  <2>. QED
    BY <1>11, <2>1, <2>2 DEF VerifyUnhealthy
<1>12. CASE CompleteInitialize(c)
  <2>1. CASE Begin(c, "done")
    BY <1>0, <1>12, <2>1, BeginType DEF CompleteInitialize
  <2>2. CASE pc' = [pc EXCEPT ![c] = "failed"] /\ UNCHANGED attempt
    BY <1>0, <1>12, <2>2, RetryType DEF CompleteInitialize, GiveUp
  <2>. QED
    BY <1>12, <2>1, <2>2 DEF CompleteInitialize
<1>. QED
  BY <1>1, <1>2, <1>3, <1>4, <1>5, <1>6, <1>7, <1>8, <1>9, <1>10, <1>11, <1>12 DEF CallNext

LEMMA CallWorldType ==
  ASSUME CallType, WorldType, NEW c \in Calls, CallNext(c)
  PROVE  WorldType'
<1>1. pos[c] \in Containers
  BY DEF CallType
<1>2. release' \in [Releases -> ReleaseState] /\ owner' \in Calls \union {NoCall}
  BY DEF CallNext, Arrive, RepoCommand, HelmCreates, HelmRefuses, HelmDeploys, HelmFails,
         VerifyNetwork, RunStarts, RunFindsName, RunFails, RunHalfFails, CopyKubeconfig,
         VerifyHealthy, VerifyUnhealthy, CompleteInitialize, WorldType, ReleaseState
<1>3. container' \in [Containers -> ContainerState]
  BY <1>1 DEF CallNext, Arrive, RepoCommand, HelmCreates, HelmRefuses, HelmDeploys, HelmFails,
         VerifyNetwork, RunStarts, RunFindsName, RunFails, RunHalfFails, CopyKubeconfig,
         VerifyHealthy, VerifyUnhealthy, CompleteInitialize, WorldType, ContainerState
<1>4. disturbed' \in [Calls -> SUBSET Containers] /\ unstarted' \in [Calls -> SUBSET Containers]
  BY <1>1 DEF CallNext, Arrive, RepoCommand, HelmCreates, HelmRefuses, HelmDeploys, HelmFails,
         VerifyNetwork, RunStarts, RunFindsName, RunFails, RunHalfFails, CopyKubeconfig,
         VerifyHealthy, VerifyUnhealthy, CompleteInitialize, WorldType, historyVars
<1>. QED
  BY <1>2, <1>3, <1>4 DEF WorldType

LEMMA CallKeepsShutdowns ==
  ASSUME NEW c \in Calls, CallNext(c)
  PROVE  UNCHANGED <<stage, process, report>>
BY DEF CallNext, Arrive, RepoCommand, HelmCreates, HelmRefuses, HelmDeploys, HelmFails,
       VerifyNetwork, RunStarts, RunFindsName, RunFails, RunHalfFails, CopyKubeconfig,
       VerifyHealthy, VerifyUnhealthy, CompleteInitialize, shutdownVars

LEMMA ShutdownFrame ==
  ASSUME NEW s \in Shutdowns, ShutdownNext(s)
  PROVE  UNCHANGED <<pc, attempt, pos, skips, container, disturbed, unstarted>>
BY DEF ShutdownNext, Shutdown, UninstallEnds, UninstallTimesOut, Uninstall, DeletePvc, callVars,
       historyVars

LEMMA ShutdownNextType ==
  ASSUME TypeInv, NEW s \in Shutdowns, ShutdownNext(s)
  PROVE  TypeInv'
<1>1. CallType'
  BY ShutdownFrame DEF TypeInv, CallType, CallBounds, At
<1>2. WorldType'
  <2>1. release' \in [Releases -> ReleaseState] /\ owner' \in Calls \union {NoCall}
    BY DEF ShutdownNext, Shutdown, UninstallEnds, UninstallTimesOut, Uninstall, DeletePvc, TypeInv,
           WorldType, ReleaseState
  <2>. QED
    BY <2>1, ShutdownFrame DEF TypeInv, WorldType
<1>3. ASSUME NEW rel \in Releases, Uninstalling(s, rel)
      PROVE  /\ stage' \in [Shutdowns -> ShutdownStages]
             /\ process' \in [Shutdowns -> [Releases -> ProcessState]]
  BY <1>3 DEF Uninstalling, TypeInv, ShutdownType, ShutdownStages, ProcessState, Releases
<1>4. ASSUME NEW rel \in Releases, NextUninstall(s, rel)
      PROVE  /\ stage' \in [Shutdowns -> ShutdownStages]
             /\ process' \in [Shutdowns -> [Releases -> ProcessState]]
  BY <1>3, <1>4 DEF NextUninstall, TypeInv, ShutdownType, ShutdownStages, Releases
<1>5. ASSUME NEW rel \in Releases, NEW result \in ReportState, Reports(s, rel, result)
      PROVE  report' \in [Shutdowns -> [Releases -> ReportState]]
  BY <1>5 DEF Reports, TypeInv, ShutdownType
<1>6. CASE Shutdown(s)
  <2>1. "globeco" \in Releases
    BY DEF Releases
  <2>. QED
    BY <1>1, <1>2, <1>3, <1>6, <2>1 DEF Shutdown, TypeInv, ShutdownType
<1>7. ASSUME NEW rel \in Releases, UninstallEnds(s, rel) \/ UninstallTimesOut(s, rel)
      PROVE  TypeInv'
  <2>1. NextUninstall(s, rel) /\ (Reports(s, rel, "uninstalled") \/ Reports(s, rel, "failed"))
    BY <1>7 DEF UninstallEnds, UninstallTimesOut
  <2>2. "uninstalled" \in ReportState /\ "failed" \in ReportState
    BY DEF ReportState
  <2>. QED
    BY <1>1, <1>2, <1>4, <1>5, <2>1, <2>2 DEF TypeInv, ShutdownType
<1>8. ASSUME NEW rel \in Releases, Uninstall(s, rel) PROVE TypeInv'
  <2>1. \E state \in ProcessState : process' = [process EXCEPT ![s][rel] = state]
    BY <1>8 DEF Uninstall, ProcessState
  <2>2. process' \in [Shutdowns -> [Releases -> ProcessState]]
    BY <2>1 DEF TypeInv, ShutdownType
  <2>3. UNCHANGED <<stage, report>>
    BY <1>8 DEF Uninstall
  <2>. QED
    BY <1>1, <1>2, <2>2, <2>3 DEF TypeInv, ShutdownType
<1>9. CASE DeletePvc(s)
  BY <1>1, <1>2, <1>9 DEF DeletePvc, TypeInv, ShutdownType, ShutdownStages
<1>. QED
  BY <1>6, <1>7, <1>8, <1>9 DEF ShutdownNext

LEMMA NextType == ASSUME TypeInv, [Next]_vars PROVE TypeInv'
<1>1. CASE UNCHANGED vars
  BY <1>1 DEF vars, callVars, shutdownVars, historyVars, TypeInv, CallType, CallBounds, At,
              WorldType, ShutdownType
<1>2. ASSUME NEW c \in Calls, CallNext(c) PROVE TypeInv'
  BY <1>2, CallNextType, CallWorldType, CallKeepsShutdowns DEF TypeInv, ShutdownType
<1>3. ASSUME NEW p \in Containers, ComesUp(p) \/ Disturb(p) PROVE TypeInv'
  <2>1. CallType' /\ ShutdownType'
    BY <1>3 DEF ComesUp, Disturb, callVars, shutdownVars, TypeInv, CallType, CallBounds, At,
                ShutdownType
  <2>2. WorldType'
    BY <1>3 DEF ComesUp, Disturb, historyVars, TypeInv, WorldType, ContainerState
  <2>. QED
    BY <2>1, <2>2 DEF TypeInv
<1>. QED
  BY <1>1, <1>2, <1>3, ShutdownNextType DEF Next

LEMMA InitType == Init => TypeInv
<1>. SUFFICES ASSUME Init PROVE TypeInv
  OBVIOUS
<1>1. CallType
  BY StageSets DEF Init, CallType, CallBounds, At, Stages, HelmStages, Containers, Broker
<1>2. WorldType
  BY DEF Init, WorldType, ReleaseState, ContainerState
<1>3. ShutdownType
  BY DEF Init, ShutdownType, ShutdownStages, ProcessState, ReportState
<1>. QED
  BY <1>1, <1>2, <1>3 DEF TypeInv

\* Every variable keeps to its type, no command is tried more often than its
\* setting allows, and the health checks are of load generators.
THEOREM TypeCorrect == Spec => []TypeOK
<1>1. TypeInv => TypeOK
  BY DEF TypeInv, CallType, WorldType, ShutdownType, CallBounds, At, TypeOK
<1>. QED
  BY <1>1, InitType, NextType, PTL DEF Spec

THEOREM TypeInvariant == Spec => []TypeInv
BY InitType, NextType, PTL DEF Spec

---------------------------------------------------------------------------
(* The helm processes of /shutdown *)

\* A process that runs is waited for or was given up and reported as failed,
\* and none runs, or has run, before the request arrives.
ProcessInv ==
  \A s \in Shutdowns :
    /\ stage[s] = "idle" => process[s]["globeco"] = "none"
    /\ \A rel \in Releases :
         process[s][rel] = "running" => stage[s] = rel \/ report[s][rel] = "failed"

LEMMA ProcessFrame ==
  ASSUME TypeInv, NEW s \in Shutdowns, ShutdownNext(s), NEW r \in Shutdowns, r # s
  PROVE  stage'[r] = stage[r] /\ process'[r] = process[r] /\ report'[r] = report[r]
<1>1. stage'[r] = stage[r]
  BY DEF ShutdownNext, Shutdown, UninstallEnds, UninstallTimesOut, Uninstall, DeletePvc,
         Uninstalling, NextUninstall, TypeInv, ShutdownType
<1>2. process'[r] = process[r]
  BY DEF ShutdownNext, Shutdown, UninstallEnds, UninstallTimesOut, Uninstall, DeletePvc,
         Uninstalling, NextUninstall, TypeInv, ShutdownType
<1>3. report'[r] = report[r]
  BY DEF ShutdownNext, Shutdown, UninstallEnds, UninstallTimesOut, Uninstall, DeletePvc,
         Reports, TypeInv, ShutdownType
<1>. QED
  BY <1>1, <1>2, <1>3

\* What one step makes of a /shutdown: the process it starts, if any, is of the
\* release it goes on to, and the release it leaves is one without a running
\* process or one reported as failed.
LEMMA ShutdownEffect ==
  ASSUME TypeInv, ProcessInv, NEW s \in Shutdowns, ShutdownNext(s)
  PROVE  /\ stage'[s] # "idle" \/ process'[s]["globeco"] = "none"
         /\ \A rel \in Releases :
              process'[s][rel] = "running" => stage'[s] = rel \/ report'[s][rel] = "failed"
<1>g. "globeco" \in Releases /\ "prometheus" \in Releases
  BY DEF Releases
<1>1. CASE Shutdown(s)
  <2>1. /\ stage'[s] = "globeco" /\ report' = report
        /\ \A rel \in Releases : rel # "globeco" => process'[s][rel] = process[s][rel]
        /\ stage[s] = "idle"
    BY <1>1 DEF Shutdown, Uninstalling, TypeInv, ShutdownType
  <2>2. \A rel \in Releases : process[s][rel] = "running" => report[s][rel] = "failed"
    BY <2>1 DEF ProcessInv, Releases
  <2>. QED
    BY <2>1, <2>2
<1>2. ASSUME NEW rel \in Releases, UninstallEnds(s, rel) \/ UninstallTimesOut(s, rel)
      PROVE  /\ stage'[s] # "idle"
             /\ \A other \in Releases :
                  process'[s][other] = "running" =>
                    stage'[s] = other \/ report'[s][other] = "failed"
  <2>1. /\ stage[s] = rel
        /\ process[s][rel] = "running" => report'[s][rel] = "failed"
        /\ \A other \in Releases : other # rel => report'[s][other] = report[s][other]
    BY <1>2 DEF UninstallEnds, UninstallTimesOut, Reports, TypeInv, ShutdownType
  <2>2. \/ rel = "prometheus" /\ stage'[s] = "pvc" /\ process' = process
        \/ /\ rel = "globeco" /\ stage'[s] = "prometheus"
           /\ \A other \in Releases : other # "prometheus" =>
                process'[s][other] = process[s][other]
    BY <1>2 DEF UninstallEnds, UninstallTimesOut, NextUninstall, Uninstalling, Releases, TypeInv,
                ShutdownType
  <2>. QED
    BY <1>g, <2>1, <2>2 DEF ProcessInv
<1>3. ASSUME NEW rel \in Releases, Uninstall(s, rel)
      PROVE  /\ stage'[s] # "idle" \/ process'[s]["globeco"] = "none"
             /\ \A other \in Releases :
                  process'[s][other] = "running" =>
                    stage'[s] = other \/ report'[s][other] = "failed"
  <2>1. /\ stage' = stage /\ report' = report /\ process[s][rel] = "running"
        /\ process'[s][rel] # "running"
        /\ \A other \in Releases : other # rel => process'[s][other] = process[s][other]
    BY <1>3 DEF Uninstall, TypeInv, ShutdownType
  <2>. QED
    BY <1>g, <2>1 DEF ProcessInv
<1>4. CASE DeletePvc(s)
  <2>1. /\ stage[s] = "pvc" /\ stage'[s] = "answered"
        /\ process' = process /\ report' = report
    BY <1>4 DEF DeletePvc, TypeInv, ShutdownType
  <2>. QED
    BY <2>1 DEF ProcessInv, Releases
<1>. QED
  BY <1>1, <1>2, <1>3, <1>4 DEF ShutdownNext

LEMMA NextProcess == ASSUME TypeInv, ProcessInv, [Next]_vars PROVE ProcessInv'
<1>1. CASE UNCHANGED vars \/ \E p \in Containers : ComesUp(p) \/ Disturb(p)
  BY <1>1 DEF vars, ComesUp, Disturb, shutdownVars, ProcessInv
<1>2. ASSUME NEW c \in Calls, CallNext(c) PROVE ProcessInv'
  BY <1>2, CallKeepsShutdowns DEF ProcessInv
<1>3. ASSUME NEW s \in Shutdowns, ShutdownNext(s) PROVE ProcessInv'
  BY <1>3, ProcessFrame, ShutdownEffect DEF ProcessInv
<1>. QED
  BY <1>1, <1>2, <1>3 DEF Next

THEOREM ProcessInvariant == Spec => []ProcessInv
<1>1. Init => ProcessInv
  BY DEF Init, ProcessInv, Releases
<1>. QED
  BY <1>1, NextProcess, TypeInvariant, PTL DEF Spec

\* A release is removed by a /shutdown that waits for it or has reported it as
\* failed, never by one that has reported it uninstalled.
THEOREM RemovalAnnounced == Spec => RemovalIsAnnounced
<1>1. ProcessInv =>
        [\A s \in Shutdowns, rel \in Releases :
           (process[s][rel] = "running" /\ process'[s][rel] = "removed") =>
             stage[s] = rel \/ report[s][rel] = "failed"]_vars
  BY DEF ProcessInv
<1>. QED
  BY <1>1, ProcessInvariant, PTL DEF Spec, RemovalIsAnnounced

---------------------------------------------------------------------------
(* The GlobeCo release *)

\* Once removed is removed for good, since no /shutdown starts the same
\* uninstall again.
LEMMA RemovedStays ==
  ASSUME TypeInv, ProcessInv, NEW s \in Shutdowns, ShutdownNext(s), Removed("globeco")
  PROVE  Removed("globeco")'
<1>1. PICK r \in Shutdowns : process[r]["globeco"] = "removed"
  BY DEF Removed
<1>2. CASE r # s
  BY <1>1, <1>2, ProcessFrame DEF Removed
<1>3. CASE r = s
  <2>1. process'[s]["globeco"] = "removed"
    <3>1. stage[s] # "idle"
      BY <1>1, <1>3 DEF ProcessInv
    <3>. QED
      BY <1>1, <1>3, <3>1 DEF ShutdownNext, Shutdown, UninstallEnds, UninstallTimesOut, Uninstall,
         DeletePvc, NextUninstall, Uninstalling, Releases, TypeInv, ShutdownType
  <2>. QED
    BY <1>3, <2>1 DEF Removed
<1>. QED
  BY <1>2, <1>3

\* A call gets past Helm by HelmDeploys only, and leaves the others where they are.
LEMMA PastHelmStep ==
  ASSUME TypeInv, NEW c \in Calls, CallNext(c), NEW d \in Calls, PastHelm(d)'
  PROVE  PastHelm(d) \/ (d = c /\ HelmDeploys(c))
<1>1. CASE d # c
  <2>1. pc'[d] = pc[d] /\ skips'[d] = skips[d]
    BY <1>1 DEF CallNext, Arrive, RepoCommand, HelmCreates, HelmRefuses, HelmDeploys, HelmFails,
       VerifyNetwork, RunStarts, RunFindsName, RunFails, RunHalfFails, CopyKubeconfig,
       VerifyHealthy, VerifyUnhealthy, CompleteInitialize, Begin, Retry, GiveUp, Advance,
       TypeInv, CallType
  <2>. QED
    BY <2>1 DEF PastHelm, At
<1>2. CASE d = c
  <2>1. ASSUME NEW skip \in BOOLEAN, Arrive(c, skip) PROVE FALSE
    <3>1. skips'[c] = skip /\ pc'[c] = IF skip THEN "network" ELSE "repo_add"
      BY <2>1 DEF Arrive, Begin, TypeInv, CallType
    <3>. QED
      BY <1>2, <3>1 DEF PastHelm, At, DockerStages
  <2>2. CASE RepoCommand(c) \/ HelmCreates(c) \/ HelmRefuses(c) \/ HelmFails(c)
    <3>1. pc'[c] \in HelmStages \union {"failed"}
      BY <2>2 DEF RepoCommand, HelmCreates, HelmRefuses, HelmFails, Begin, Retry, GiveUp, At,
                  TypeInv, CallType, HelmStages
    <3>. QED
      BY <1>2, <3>1 DEF PastHelm, At, HelmStages, DockerStages
  <2>3. CASE \/ VerifyNetwork(c) \/ RunStarts(c) \/ RunFindsName(c) \/ RunFails(c)
             \/ RunHalfFails(c) \/ CopyKubeconfig(c) \/ VerifyHealthy(c) \/ VerifyUnhealthy(c)
             \/ CompleteInitialize(c)
    <3>1. pc[c] \in DockerStages \union {"images"} /\ skips' = skips
      BY <2>3 DEF VerifyNetwork, RunStarts, RunFindsName, RunFails, RunHalfFails, CopyKubeconfig,
         VerifyHealthy, VerifyUnhealthy, CompleteInitialize, At, DockerStages
    <3>. QED
      BY <1>2, <3>1 DEF PastHelm, At
  <2>. QED
    BY <1>2, <2>1, <2>2, <2>3 DEF CallNext
<1>. QED
  BY <1>1, <1>2

LEMMA CallRelease ==
  ASSUME TypeInv, ReleaseStands, NEW c \in Calls, CallNext(c)
  PROVE  ReleaseStands'
<1>1. Removed("globeco")' <=> Removed("globeco")
  BY CallKeepsShutdowns DEF Removed
<1>. SUFFICES ASSUME ~Removed("globeco"), NEW d \in Calls, PastHelm(d)'
              PROVE  release'["globeco"] = "deployed" /\ owner' = d
  BY <1>1 DEF ReleaseStands
<1>2. CASE HelmDeploys(c)
  <2>1. /\ release["globeco"] = "pending" /\ owner = c
        /\ release'["globeco"] = "deployed" /\ owner' = owner
    BY <1>2 DEF HelmDeploys, TypeInv, WorldType, Releases
  <2>2. ~PastHelm(d)
    BY <2>1 DEF ReleaseStands
  <2>. QED
    BY <2>1, <2>2, PastHelmStep
<1>3. CASE ~HelmDeploys(c)
  <2>1. PastHelm(d)
    BY <1>3, PastHelmStep
  <2>2. release["globeco"] = "deployed" /\ owner = d
    BY <2>1 DEF ReleaseStands
  <2>3. release' = release /\ owner' = owner
    BY <1>3, <2>2 DEF CallNext, Arrive, RepoCommand, HelmCreates, HelmRefuses, HelmFails,
       VerifyNetwork, RunStarts, RunFindsName, RunFails, RunHalfFails, CopyKubeconfig,
       VerifyHealthy, VerifyUnhealthy, CompleteInitialize
  <2>. QED
    BY <2>2, <2>3
<1>. QED
  BY <1>2, <1>3

LEMMA ShutdownRelease ==
  ASSUME TypeInv, ProcessInv, ReleaseStands, NEW s \in Shutdowns, ShutdownNext(s)
  PROVE  ReleaseStands'
<1>1. CASE Removed("globeco")'
  BY <1>1 DEF ReleaseStands
<1>2. CASE ~Removed("globeco")'
  <2>1. ~Removed("globeco")
    BY <1>2, RemovedStays
  <2>2. \A d \in Calls : PastHelm(d)' <=> PastHelm(d)
    BY ShutdownFrame DEF PastHelm, At
  <2>3. release'["globeco"] = release["globeco"] /\ owner' = owner
    <3>1. ASSUME NEW rel \in Releases, Uninstall(s, rel)
          PROVE  release'["globeco"] = release["globeco"] /\ owner' = owner
      <4>1. CASE release' = release /\ owner' = owner
        BY <4>1
      <4>2. CASE release' # release \/ owner' # owner
        <5>1. /\ release' = [release EXCEPT ![rel] = "absent"]
              /\ owner' = IF rel = "globeco" THEN NoCall ELSE owner
              /\ process' = [process EXCEPT ![s][rel] = "removed"]
          BY <3>1, <4>2 DEF Uninstall
        <5>2. rel # "globeco"
          BY <1>2, <5>1 DEF Removed, TypeInv, ShutdownType
        <5>. QED
          BY <5>1, <5>2 DEF TypeInv, WorldType, Releases
      <4>. QED
        BY <4>1, <4>2
    <3>. QED
      BY <3>1 DEF ShutdownNext, Shutdown, UninstallEnds, UninstallTimesOut, DeletePvc
  <2>. QED
    BY <2>1, <2>2, <2>3 DEF ReleaseStands
<1>. QED
  BY <1>1, <1>2

LEMMA NextRelease ==
  ASSUME TypeInv, ProcessInv, ReleaseStands, [Next]_vars PROVE ReleaseStands'
<1>1. CASE UNCHANGED vars \/ \E p \in Containers : ComesUp(p) \/ Disturb(p)
  <2>1. UNCHANGED <<release, owner, pc, skips, process>>
    BY <1>1 DEF vars, ComesUp, Disturb, callVars, shutdownVars
  <2>. QED
    BY <2>1 DEF ReleaseStands, Removed, PastHelm, At
<1>. QED
  BY <1>1, CallRelease, ShutdownRelease DEF Next

\* Until an uninstall removes it, a call past the Helm install stands on a
\* deployed release of its own: no retry adopts what an earlier attempt, an
\* earlier run or another call left, and at most one call gets past.
THEOREM ReleaseSafe == Spec => []ReleaseStands
<1>1. Init => ReleaseStands
  BY DEF Init, ReleaseStands, PastHelm, At, DockerStages
<1>. QED
  BY <1>1, NextRelease, ProcessInvariant, TypeInvariant, PTL DEF Spec

---------------------------------------------------------------------------
(* The containers *)

LEMMA CallFrame ==
  ASSUME TypeInv, NEW c \in Calls, CallNext(c), NEW d \in Calls, d # c
  PROVE  /\ pc'[d] = pc[d] /\ pos'[d] = pos[d] /\ attempt'[d] = attempt[d]
         /\ disturbed'[d] = disturbed[d] /\ unstarted[d] \subseteq unstarted'[d]
<1>1. pc'[d] = pc[d] /\ pos'[d] = pos[d] /\ attempt'[d] = attempt[d]
  BY DEF CallNext, Arrive, RepoCommand, HelmCreates, HelmRefuses, HelmDeploys, HelmFails,
       VerifyNetwork, RunStarts, RunFindsName, RunFails, RunHalfFails, CopyKubeconfig,
       VerifyHealthy, VerifyUnhealthy, CompleteInitialize, Begin, Retry, GiveUp, Advance,
       TypeInv, CallType
<1>2. disturbed'[d] = disturbed[d] /\ unstarted[d] \subseteq unstarted'[d]
  BY DEF CallNext, Arrive, RepoCommand, HelmCreates, HelmRefuses, HelmDeploys, HelmFails,
       VerifyNetwork, RunStarts, RunFindsName, RunFails, RunHalfFails, CopyKubeconfig,
       VerifyHealthy, VerifyUnhealthy, CompleteInitialize, historyVars, TypeInv, WorldType
<1>. QED
  BY <1>1, <1>2

\* A call changes only a container that is not there: it runs it, or leaves it
\* created and not started, which the history of every call records.
LEMMA CallContainer ==
  ASSUME TypeInv, NEW c \in Calls, CallNext(c), NEW p \in Containers
  PROVE  \/ container'[p] = container[p]
         \/ container[p] = "absent" /\ container'[p] = "starting"
         \/ /\ container[p] = "absent" /\ container'[p] = "stopped"
            /\ \A d \in Calls : p \in unstarted'[d]
<1>0. pos[c] \in Containers
  BY DEF TypeInv, CallType
<1>1. CASE RunStarts(c)
  BY <1>0, <1>1 DEF RunStarts, TypeInv, WorldType
<1>2. CASE RunHalfFails(c)
  BY <1>0, <1>2 DEF RunHalfFails, TypeInv, WorldType
<1>3. CASE ~RunStarts(c) /\ ~RunHalfFails(c)
  BY <1>3 DEF CallNext, Arrive, RepoCommand, HelmCreates, HelmRefuses, HelmDeploys, HelmFails,
       VerifyNetwork, RunFindsName, RunFails, CopyKubeconfig, VerifyHealthy, VerifyUnhealthy,
       CompleteInitialize
<1>. QED
  BY <1>1, <1>2, <1>3

\* The load generators that a call has checked, up to the one it is at.
Checked(c, p) == At(c, {"images", "done"}) \/ (At(c, {"verify"}) /\ p < pos[c])

CheckedInv ==
  \A c \in Calls : \A p \in Roles \ disturbed[c] : Checked(c, p) => container[p] = "ready"

LEMMA CheckedStep ==
  ASSUME TypeInv, NEW c \in Calls, CallNext(c), NEW p \in Roles, Checked(c, p)'
  PROVE  /\ Checked(c, p) \/ container[p] = "ready"
         /\ disturbed'[c] = disturbed[c]
<1>0. pos[c] \in Containers /\ p \in Nat /\ 1 <= p /\ p <= NumRoles /\ NumRoles \in Nat
  BY DeploymentAssumption DEF TypeInv, CallType, Roles
<1>1. CASE CopyKubeconfig(c)
  <2>1. pc[c] = "copy" /\ UNCHANGED disturbed
    BY <1>1 DEF CopyKubeconfig, At, historyVars
  <2>2. pc'[c] \in {"copy", "failed"} \/ (pc'[c] = "verify" /\ pos'[c] = 1)
    BY <1>1, <2>1 DEF CopyKubeconfig, Advance, Begin, GiveUp, TypeInv, CallType
  <2>. QED
    BY <1>0, <2>2 DEF Checked, At
<1>2. CASE VerifyHealthy(c)
  <2>1. pc[c] = "verify" /\ container[pos[c]] = "ready" /\ UNCHANGED disturbed
    BY <1>2 DEF VerifyHealthy, At, historyVars
  <2>2. \/ pos[c] < NumRoles /\ pos'[c] = pos[c] + 1
        \/ ~(pos[c] < NumRoles)
    BY <1>2 DEF VerifyHealthy, Advance, TypeInv, CallType
  <2>3. p < pos[c] \/ p = pos[c]
    <3>1. CASE pos[c] < NumRoles /\ pos'[c] = pos[c] + 1
      <4>1. pc'[c] = "verify"
        BY <1>2, <2>1, <3>1 DEF VerifyHealthy, Advance, Begin, TypeInv, CallType
      <4>2. p < pos[c] + 1
        BY <3>1, <4>1 DEF Checked, At
      <4>. QED
        BY <1>0, <4>2 DEF Containers
    <3>2. CASE ~(pos[c] < NumRoles)
      BY <1>0, <3>2 DEF Containers
    <3>. QED
      BY <2>2, <3>1, <3>2
  <2>. QED
    BY <2>1, <2>3 DEF Checked, At
<1>3. CASE VerifyUnhealthy(c)
  <2>1. pc[c] = "verify" /\ UNCHANGED disturbed
    BY <1>3 DEF VerifyUnhealthy, At, historyVars
  <2>2. (pc' = pc /\ pos' = pos) \/ pc'[c] = "failed"
    BY <1>3 DEF VerifyUnhealthy, GiveUp, TypeInv, CallType
  <2>. QED
    BY <2>1, <2>2 DEF Checked, At
<1>4. CASE CompleteInitialize(c)
  BY <1>4 DEF CompleteInitialize, Checked, At, historyVars
<1>5. ASSUME NEW skip \in BOOLEAN, Arrive(c, skip) PROVE FALSE
  <2>1. pc'[c] = IF skip THEN "network" ELSE "repo_add"
    BY <1>5 DEF Arrive, Begin, TypeInv, CallType
  <2>. QED
    BY <2>1 DEF Checked, At
<1>6. CASE \/ RepoCommand(c) \/ HelmCreates(c) \/ HelmRefuses(c) \/ HelmDeploys(c)
           \/ HelmFails(c) \/ VerifyNetwork(c) \/ RunStarts(c) \/ RunFindsName(c)
           \/ RunFails(c) \/ RunHalfFails(c)
  <2>1. pc'[c] \in HelmStages \union {"network", "run", "copy", "failed"}
    BY <1>6 DEF RepoCommand, HelmCreates, HelmRefuses, HelmDeploys, HelmFails, VerifyNetwork,
       RunStarts, RunFindsName, RunFails, RunHalfFails, Begin, Retry, GiveUp, Advance, At,
       TypeInv, CallType, HelmStages
  <2>. QED
    BY <2>1 DEF Checked, At, HelmStages
<1>. QED
  BY <1>1, <1>2, <1>3, <1>4, <1>5, <1>6 DEF CallNext

LEMMA NextChecked == ASSUME TypeInv, CheckedInv, [Next]_vars PROVE CheckedInv'
<1>r. Roles \subseteq Containers
  BY StageSets
<1>1. CASE UNCHANGED vars \/ \E s \in Shutdowns : ShutdownNext(s)
  <2>1. UNCHANGED <<pc, pos, container, disturbed>>
    BY <1>1, ShutdownFrame DEF vars, callVars, historyVars
  <2>. QED
    BY <2>1 DEF CheckedInv, Checked, At
<1>2. ASSUME NEW c \in Calls, CallNext(c) PROVE CheckedInv'
  <2>1. ASSUME NEW d \in Calls, NEW p \in Roles, p \notin disturbed'[d], Checked(d, p)'
        PROVE  container'[p] = "ready"
    <3>1. disturbed'[d] = disturbed[d] /\ (Checked(d, p) \/ container[p] = "ready")
      <4>1. CASE d = c
        BY <1>2, <2>1, <4>1, CheckedStep
      <4>2. CASE d # c
        BY <1>2, <2>1, <4>2, CallFrame DEF Checked, At
      <4>. QED
        BY <4>1, <4>2
    <3>2. container[p] = "ready"
      BY <2>1, <3>1 DEF CheckedInv
    <3>. QED
      BY <1>2, <1>r, <3>2, CallContainer
  <2>. QED
    BY <2>1 DEF CheckedInv
<1>3. ASSUME NEW q \in Containers, ComesUp(q) \/ Disturb(q) PROVE CheckedInv'
  <2>1. pc' = pc /\ pos' = pos
    BY <1>3 DEF ComesUp, Disturb, callVars
  <2>2. ASSUME NEW d \in Calls, NEW p \in Roles, p \notin disturbed'[d]
        PROVE  p \notin disturbed[d] /\ (container[p] = "ready" => container'[p] = "ready")
    BY <1>3, <1>r, <2>2 DEF ComesUp, Disturb, historyVars, TypeInv, WorldType
  <2>. QED
    BY <2>1, <2>2 DEF CheckedInv, Checked, At
<1>. QED
  BY <1>1, <1>2, <1>3 DEF Next

\* A call that has deployed the load generators leaves each healthy and not
\* started, unless it exited or took up a load during the call.
THEOREM ReadySafe == Spec => []DeployedMeansReady
<1>1. Init => CheckedInv
  BY DEF Init, CheckedInv, Checked, At
<1>2. CheckedInv => DeployedMeansReady
  BY DEF CheckedInv, Checked, DeployedMeansReady
<1>. QED
  BY <1>1, <1>2, NextChecked, TypeInvariant, PTL DEF Spec

\* Past docker run of the first container, which is RabbitMQ.
PastBroker(c) == (At(c, {"run"}) /\ pos[c] # Broker) \/ At(c, {"copy", "verify", "images", "done"})

BrokerInv ==
  \A c \in Calls :
    /\ PastBroker(c) => container[Broker] # "absent"
    /\ ~At(c, {"idle"}) /\ container[Broker] = "stopped" =>
         Broker \in disturbed[c] \union unstarted[c]

LEMMA BrokerStep ==
  ASSUME TypeInv, BrokerInv, NEW c \in Calls, CallNext(c)
  PROVE  /\ PastBroker(c)' => container'[Broker] # "absent"
         /\ pc'[c] # "idle" /\ container'[Broker] = "stopped" =>
              Broker \in disturbed'[c] \union unstarted'[c]
<1>b. Broker \in Containers /\ pos[c] \in Containers
  BY StageSets DEF TypeInv, CallType
<1>1. PastBroker(c)' => container'[Broker] # "absent"
  <2>1. CASE RunStarts(c) \/ RunFindsName(c)
    <3>1. CASE pos[c] = Broker
      BY <1>b, <2>1, <3>1 DEF RunStarts, RunFindsName, TypeInv, WorldType
    <3>2. CASE pos[c] # Broker
      <4>1. container[Broker] # "absent"
        BY <2>1, <3>2 DEF RunStarts, RunFindsName, BrokerInv, PastBroker, At
      <4>. QED
        BY <1>b, <4>1, CallContainer
    <3>. QED
      BY <3>1, <3>2
  <2>2. CASE PastBroker(c)
    BY <1>b, <2>2, CallContainer DEF BrokerInv
  <2>3. CASE /\ ~RunStarts(c) /\ ~RunFindsName(c) /\ ~PastBroker(c)
    <3>1. ~PastBroker(c)'
      <4>1. ASSUME NEW skip \in BOOLEAN, Arrive(c, skip) PROVE ~PastBroker(c)'
        <5>1. pc'[c] = IF skip THEN "network" ELSE "repo_add"
          BY <4>1 DEF Arrive, Begin, TypeInv, CallType
        <5>. QED
          BY <5>1 DEF PastBroker, At
      <4>2. CASE VerifyNetwork(c)
        <5>1. (pc'[c] = "run" /\ pos'[c] = Broker) \/ pc'[c] = "failed"
          BY <4>2 DEF VerifyNetwork, Begin, GiveUp, TypeInv, CallType
        <5>. QED
          BY <5>1 DEF PastBroker, At
      <4>3. CASE RunFails(c) \/ RunHalfFails(c)
        <5>1. pc[c] = "run" /\ pos' = pos /\ pc'[c] \in {"run", "failed"}
          BY <4>3 DEF RunFails, RunHalfFails, Retry, GiveUp, At, TypeInv, CallType
        <5>. QED
          BY <2>3, <5>1 DEF PastBroker, At
      <4>4. CASE \/ RepoCommand(c) \/ HelmCreates(c) \/ HelmRefuses(c) \/ HelmDeploys(c)
                 \/ HelmFails(c)
        <5>1. pc'[c] \in {"repo_add", "repo_update", "install", "install_wait", "network", "failed"}
          BY <4>4 DEF RepoCommand, HelmCreates, HelmRefuses, HelmDeploys, HelmFails, Begin, Retry,
                      GiveUp, At, TypeInv, CallType
        <5>. QED
          BY <5>1 DEF PastBroker, At
      <4>5. ~(CopyKubeconfig(c) \/ VerifyHealthy(c) \/ VerifyUnhealthy(c) \/ CompleteInitialize(c))
        BY <2>3 DEF CopyKubeconfig, VerifyHealthy, VerifyUnhealthy, CompleteInitialize, PastBroker,
                    At
      <4>. QED
        BY <2>3, <4>1, <4>2, <4>3, <4>4, <4>5 DEF CallNext
    <3>. QED
      BY <3>1
  <2>. QED
    BY <2>1, <2>2, <2>3
<1>2. ASSUME pc'[c] # "idle", container'[Broker] = "stopped"
      PROVE  Broker \in disturbed'[c] \union unstarted'[c]
  <2>1. CASE container[Broker] # "stopped"
    BY <1>2, <1>b, <2>1, CallContainer
  <2>2. ASSUME container[Broker] = "stopped", NEW skip \in BOOLEAN, Arrive(c, skip)
        PROVE  Broker \in unstarted'[c]
    BY <1>b, <2>2 DEF Arrive, TypeInv, WorldType
  <2>3. CASE container[Broker] = "stopped" /\ ~\E skip \in BOOLEAN : Arrive(c, skip)
    <3>1. pc[c] # "idle"
      BY <2>3 DEF CallNext, RepoCommand, HelmCreates, HelmRefuses, HelmDeploys, HelmFails,
         VerifyNetwork, RunStarts, RunFindsName, RunFails, RunHalfFails, CopyKubeconfig,
         VerifyHealthy, VerifyUnhealthy, CompleteInitialize, At
    <3>2. disturbed'[c] = disturbed[c] /\ unstarted[c] \subseteq unstarted'[c]
      BY <2>3 DEF CallNext, RepoCommand, HelmCreates, HelmRefuses, HelmDeploys, HelmFails,
         VerifyNetwork, RunStarts, RunFindsName, RunFails, RunHalfFails, CopyKubeconfig,
         VerifyHealthy, VerifyUnhealthy, CompleteInitialize, historyVars, TypeInv, WorldType
    <3>. QED
      BY <2>3, <3>1, <3>2 DEF BrokerInv, At
  <2>. QED
    BY <2>1, <2>2, <2>3
<1>. QED
  BY <1>1, <1>2

LEMMA NextBroker == ASSUME TypeInv, BrokerInv, [Next]_vars PROVE BrokerInv'
<1>b. Broker \in Containers
  BY StageSets
<1>1. CASE UNCHANGED vars \/ \E s \in Shutdowns : ShutdownNext(s)
  <2>1. UNCHANGED <<pc, pos, container, disturbed, unstarted>>
    BY <1>1, ShutdownFrame DEF vars, callVars, historyVars
  <2>. QED
    BY <2>1 DEF BrokerInv, PastBroker, At
<1>2. ASSUME NEW c \in Calls, CallNext(c), NEW d \in Calls, d # c PROVE
        /\ PastBroker(d)' => container'[Broker] # "absent"
        /\ pc'[d] # "idle" /\ container'[Broker] = "stopped" =>
             Broker \in disturbed'[d] \union unstarted'[d]
  <2>1. /\ pc'[d] = pc[d] /\ pos'[d] = pos[d]
        /\ disturbed'[d] = disturbed[d] /\ unstarted[d] \subseteq unstarted'[d]
    BY <1>2, CallFrame
  <2>. QED
    BY <1>2, <1>b, <2>1, CallContainer DEF BrokerInv, PastBroker, At
<1>3. ASSUME NEW q \in Containers, ComesUp(q) \/ Disturb(q) PROVE BrokerInv'
  <2>1. pc' = pc /\ pos' = pos /\ unstarted' = unstarted
    BY <1>3 DEF ComesUp, Disturb, callVars, historyVars
  <2>2. \/ container'[Broker] = container[Broker] /\ \A c \in Calls : disturbed[c] \subseteq disturbed'[c]
        \/ container'[Broker] \in {"ready", "loaded"} /\ container[Broker] # "absent"
        \/ /\ container[Broker] # "absent" /\ container'[Broker] = "stopped"
           /\ \A c \in Calls : Broker \in disturbed'[c]
    BY <1>3, <1>b DEF ComesUp, Disturb, Up, historyVars, TypeInv, WorldType
  <2>. QED
    BY <2>1, <2>2 DEF BrokerInv, PastBroker, At
<1>4. ASSUME NEW c \in Calls, CallNext(c) PROVE BrokerInv'
  BY <1>2, <1>4, BrokerStep DEF BrokerInv, At
<1>. QED
  BY <1>1, <1>3, <1>4 DEF Next

\* RabbitMQ runs once a call is past it, although nothing checks it, unless its
\* container exited, was found stopped, or failed to start during the call.
THEOREM BrokerSafe == Spec => []BrokerRuns
<1>1. Init => BrokerInv
  BY DEF Init, BrokerInv, PastBroker, At
<1>2. TypeInv /\ BrokerInv => BrokerRuns
  <2>1. TypeInv => container[Broker] \in ContainerState
    BY StageSets DEF TypeInv, WorldType
  <2>. QED
    BY <2>1 DEF BrokerInv, PastBroker, BrokerRuns, At, ContainerState, Up
<1>. QED
  BY <1>1, <1>2, NextBroker, TypeInvariant, PTL DEF Spec

---------------------------------------------------------------------------
(* No deployment goes on for ever *)

\* How many stages a call may still go through.  helm install and its --wait
\* count as one: a retry goes back from the second to the first.
Ahead ==
  [done |-> 0, failed |-> 0, images |-> 1, verify |-> 2, copy |-> 3, run |-> 4, network |-> 5,
   install |-> 6, install_wait |-> 6, repo_update |-> 7, repo_add |-> 8, idle |-> 9]

\* The call comes to a later stage, or in a loop to the next container, or there
\* to the next attempt, or in that from helm install to its --wait.
Advances(c) ==
  \/ Ahead[pc'[c]] < Ahead[pc[c]]
  \/ /\ Ahead[pc'[c]] = Ahead[pc[c]]
     /\ \/ pos'[c] > pos[c]
        \/ pos'[c] = pos[c] /\ attempt'[c] > attempt[c]
        \/ /\ pc[c] = "install" /\ pc'[c] = "install_wait"
           /\ UNCHANGED <<pos[c], attempt[c]>>

LEMMA BeginAdvances ==
  ASSUME TypeInv, NEW c \in Calls, NEW next, Begin(c, next), Ahead[next] < Ahead[pc[c]]
  PROVE  Advances(c)
BY DEF Begin, Advances, TypeInv, CallType

LEMMA RetryAdvances ==
  ASSUME TypeInv, NEW c \in Calls, ~At(c, {"done", "failed"}), NEW from,
         Ahead[from] = Ahead[pc[c]], Retry(c, from) \/ GiveUp(c)
  PROVE  Advances(c)
<1>1. CASE Retry(c, from)
  BY <1>1 DEF Retry, Advances, TypeInv, CallType
<1>2. CASE GiveUp(c)
  <2>1. Ahead[pc[c]] \in 1..9
    BY DEF At, Ahead, TypeInv, CallType, Stages, HelmStages, DockerStages
  <2>. QED
    BY <1>2, <2>1 DEF GiveUp, Advances, Ahead, TypeInv, CallType
<1>. QED
  BY <1>1, <1>2

LEMMA ContainerAdvances ==
  ASSUME TypeInv, NEW c \in Calls, NEW next, Advance(c, next), Ahead[next] < Ahead[pc[c]]
  PROVE  Advances(c)
<1>1. CASE pos[c] < NumRoles
  <2>1. pos'[c] > pos[c] /\ pc'[c] = pc[c]
    BY <1>1, DeploymentAssumption DEF Advance, Begin, TypeInv, CallType, Containers
  <2>. QED
    BY <2>1 DEF Advances
<1>2. CASE ~(pos[c] < NumRoles)
  BY <1>2, BeginAdvances DEF Advance
<1>. QED
  BY <1>1, <1>2

LEMMA CallAdvances ==
  ASSUME TypeInv, NEW c \in Calls, CallNext(c)
  PROVE  Advances(c)
<1>. USE BeginAdvances, RetryAdvances DEF At
<1>1. ASSUME NEW skip \in BOOLEAN, Arrive(c, skip)
      PROVE  Advances(c)
  BY <1>1 DEF Arrive, Ahead
<1>2. CASE RepoCommand(c) \/ HelmRefuses(c)
  BY <1>2 DEF RepoCommand, HelmRefuses, Ahead
<1>3. CASE HelmCreates(c)
  BY <1>3 DEF HelmCreates, Advances, Ahead, TypeInv, CallType
<1>4. CASE HelmDeploys(c) \/ HelmFails(c)
  BY <1>4 DEF HelmDeploys, HelmFails, Ahead
<1>5. CASE VerifyNetwork(c)
  BY <1>5 DEF VerifyNetwork, Ahead
<1>6. CASE RunStarts(c) \/ RunFindsName(c)
  BY <1>6, ContainerAdvances DEF RunStarts, RunFindsName, Ahead
<1>7. CASE RunFails(c) \/ RunHalfFails(c)
  BY <1>7 DEF RunFails, RunHalfFails, Ahead
<1>8. CASE CopyKubeconfig(c) \/ VerifyHealthy(c)
  BY <1>8, ContainerAdvances DEF CopyKubeconfig, VerifyHealthy, Ahead
<1>9. CASE VerifyUnhealthy(c)
  BY <1>9 DEF VerifyUnhealthy, Advances, TypeInv, CallType
<1>10. CASE CompleteInitialize(c)
  BY <1>10 DEF CompleteInitialize, Advances, Ahead, TypeInv, CallType
<1>. QED
  BY <1>1, <1>2, <1>3, <1>4, <1>5, <1>6, <1>7, <1>8, <1>9, <1>10 DEF CallNext

\* Every step of a call takes it further, and no step of anybody else takes it
\* back; once it has completed or failed it makes none.
CallsAdvance ==
  \A c \in Calls :
    /\ CallNext(c) => Advances(c) /\ ~At(c, {"done", "failed"})
    /\ Advances(c) \/ UNCHANGED <<pc[c], pos[c], attempt[c]>>

\* The retries and the loops of /initialize end: a call deploys each container
\* once per loop and tries a command at most as often as its setting says,
\* whatever the other calls, the uninstalls and the containers do meanwhile.
\* (TypeInv bounds the attempts; it counts them afresh for each command.)
THEOREM NoEndlessDeployment == Spec => [][CallsAdvance]_vars
<1>1. ASSUME TypeInv, Next, NEW c \in Calls
      PROVE  /\ CallNext(c) => Advances(c) /\ ~At(c, {"done", "failed"})
             /\ Advances(c) \/ UNCHANGED <<pc[c], pos[c], attempt[c]>>
  <2>. USE <1>1
  <2>1. ASSUME CallNext(c)
        PROVE  ~At(c, {"done", "failed"})
    BY <2>1 DEF CallNext, Arrive, RepoCommand, HelmCreates, HelmRefuses, HelmDeploys, HelmFails,
                VerifyNetwork, RunStarts, RunFindsName, RunFails, RunHalfFails, CopyKubeconfig,
                VerifyHealthy, VerifyUnhealthy, CompleteInitialize, At
  <2>2. ASSUME NEW d \in Calls \ {c}, CallNext(d)
        PROVE  UNCHANGED <<pc[c], pos[c], attempt[c]>>
    BY <2>2, CallFrame
  <2>3. ASSUME NEW s \in Shutdowns, ShutdownNext(s)
        PROVE  UNCHANGED <<pc[c], pos[c], attempt[c]>>
    BY <2>3, ShutdownFrame
  <2>4. ASSUME NEW p \in Containers, ComesUp(p) \/ Disturb(p)
        PROVE  UNCHANGED <<pc[c], pos[c], attempt[c]>>
    BY <2>4 DEF ComesUp, Disturb, callVars
  <2>. QED
    BY <2>1, <2>2, <2>3, <2>4, CallAdvances DEF Next
<1>2. TypeInv /\ [Next]_vars => [CallsAdvance]_vars
  BY <1>1 DEF CallsAdvance
<1>. QED
  BY <1>2, TypeInvariant, PTL DEF Spec
=============================================================================

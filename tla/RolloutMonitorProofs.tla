------------------------ MODULE RolloutMonitorProofs ------------------------
(***************************************************************************)
(* The time limits of the monitors, what their verdicts are worth, and how *)
(* soon they come, for every set of workloads and every timing.            *)
(***************************************************************************)
EXTENDS RolloutMonitor, TLAPS

---------------------------------------------------------------------------
(* Durations *)

\* What the first n retries take, each a delay and a read.
Retries(n) == n * (CallTime + RetryDelay)

\* The time by which the stage a monitor is at is over.
Limit(stage, tries) ==
  CASE stage = "polling"    -> Horizon
    [] stage = "fetching"   -> LastPoll + CallTime + Retries(tries)
    [] stage = "retrying"   -> LastPoll + Retries(tries)
    [] stage = "checking"   -> LastPoll + CallTime + Retries(RetryLimit) + CallTime
    [] stage = "confirming" -> LastPoll + CallTime + Retries(RetryLimit) + CallTime + CallTime

LEMMA Durations ==
  /\ LastPoll \in Nat /\ LastPoll = Timeout - 1 /\ CallTime \in Nat /\ PollInterval \in Nat
  /\ Horizon = LastPoll + CallTime + Retries(RetryLimit) + CallTime + CallTime + PollInterval
  /\ Retries(0) = 0
  /\ \A n \in Nat : /\ Retries(n) \in Nat
                    /\ Retries(n + 1) = Retries(n) + CallTime + RetryDelay
  /\ \A n \in 0..RetryLimit : Retries(n) <= Retries(RetryLimit)
<1>. USE RolloutAssumption
<1>1. CallTime + RetryDelay \in Nat
  OBVIOUS
<1>2. ASSUME NEW d \in Nat
      PROVE  /\ 0 * d = 0
             /\ \A n \in Nat : n * d \in Nat /\ (n + 1) * d = n * d + d
             /\ \A n \in 0..RetryLimit : n * d <= RetryLimit * d
  OBVIOUS
<1>3. /\ Retries(0) = 0
      /\ \A n \in Nat : /\ Retries(n) \in Nat
                        /\ Retries(n + 1) = Retries(n) + CallTime + RetryDelay
      /\ \A n \in 0..RetryLimit : Retries(n) <= Retries(RetryLimit)
  BY <1>1, <1>2 DEF Retries
<1>4. Horizon = LastPoll + CallTime + Retries(RetryLimit) + CallTime + CallTime + PollInterval
  BY DEF Horizon, PollTime, LastPoll, Retries
<1>. QED
  BY <1>3, <1>4 DEF LastPoll

---------------------------------------------------------------------------
(* The inductive invariant *)

\* Who runs when: nobody before the call, only monitors of the call after it, and
\* nobody any more once it is answered.
Bookkeeping ==
  /\ call = NoCall =>
       /\ elapsed = 0
       /\ answer = NoAnswer
       /\ \A w \in Workloads : pc[w] = "off" /\ due[w] = 0 /\ attempt[w] = 0
  /\ \A w \in Workloads :
       /\ Active(w) => w \in call.of
       /\ pc[w] = "over" <=> result[w] # "none"
       /\ result[w] = "cancelled" => answer # NoAnswer
  /\ AnswerIsWarranted

\* No monitor is late, and none has more time than its stage allows.
TimersKept ==
  /\ OverrunBounded
  /\ \A w \in Workloads : Active(w) =>
       /\ elapsed <= due[w]
       /\ due[w] <= Limit(pc[w], attempt[w])

\* What a workload has been is on record while its monitor is looking at it.
OnRecord ==
  /\ \A w \in Workloads :
       /\ Active(w) => Marked(marks[w], cluster[w]) = marks[w]
       /\ ~Active(w) => seen[w] = "nothing"
       /\ seen[w] = "zero" => cluster[w] = "zero"
       /\ seen[w] = "complete" => "reported" \in marks[w]
       /\ pc[w] = "confirming" => seen[w] = "complete"
  /\ SuccessWasConfirmed
  /\ UnrecoverableWasTroubled

\* A monitor that has slept on a workload since it is rolled out reads it as
\* complete the next time.
OversleptOnce ==
  \A w \in Workloads :
    /\ overslept[w] \in {0, 1}
    /\ overslept[w] = 1 =>
         /\ cluster[w] \in Passing
         /\ pc[w] \in {"checking", "confirming"} => seen[w] = "complete"

RolloutInv == Bookkeeping /\ TimersKept /\ OnRecord /\ OversleptOnce

---------------------------------------------------------------------------
(* Type correctness *)

LEMMA InitType == Init => TypeOK
BY RolloutAssumption DEF Init, TypeOK, ConditionsOf, NoCall, NoAnswer

LEMMA GoType ==
  ASSUME TypeOK, NEW w \in Workloads, NEW time \in Nat,
         NEW stage \in {"polling", "fetching", "retrying", "checking", "confirming"},
         Go(w, stage, time)
  PROVE  pc' \in [Workloads -> {"off", "polling", "fetching", "retrying", "checking",
                                "confirming", "over"}]
         /\ due' \in [Workloads -> Nat]
         /\ UNCHANGED result
BY DEF Go, TypeOK

LEMMA EndType ==
  ASSUME TypeOK, NEW w \in Workloads, NEW outcome \in {"complete"} \union Failures,
         End(w, outcome), UNCHANGED <<clusterVars, elapsed, call, answer>>
  PROVE  TypeOK'
BY RolloutAssumption DEF End, TypeOK, clusterVars

LEMMA SleepType ==
  ASSUME TypeOK, NEW w \in Workloads, NEW times \in Nat, Sleep(w, times),
         UNCHANGED <<clusterVars, elapsed, call, answer>>
  PROVE  TypeOK'
<1>1. PollInterval \in Nat
  BY RolloutAssumption
<1>. QED
  BY <1>1, GoType DEF Sleep, TypeOK, clusterVars

LEMMA OneMoreType ==
  ASSUME TypeOK, NEW w \in Workloads
  PROVE  OneMore(w) \in Nat
BY DEF OneMore, TypeOK

LEMMA JudgeType ==
  ASSUME TypeOK, NEW w \in Workloads, Judge(w), UNCHANGED <<clusterVars, elapsed, call, answer>>
  PROVE  TypeOK'
<1>1. CASE End(w, "complete")
  BY <1>1, EndType
<1>2. CASE Go(w, "confirming", CallTime) /\ UNCHANGED <<attempt, seen, overslept>>
  BY <1>2, GoType, RolloutAssumption DEF TypeOK, clusterVars
<1>3. CASE Sleep(w, OneMore(w))
  BY <1>3, SleepType, OneMoreType
<1>. QED
  BY <1>1, <1>2, <1>3 DEF Judge

LEMMA MonitorType ==
  ASSUME TypeOK, NEW w \in Workloads, MonitorStep(w)
  PROVE  TypeOK'
<1>. USE DEF Failures
<1>1. UNCHANGED <<clusterVars, elapsed, call, answer>>
  BY DEF MonitorStep, Poll, Fetch, FetchFails, FetchBreaks, Retry, CheckPods,
         CheckPodsFails, ConfirmPods, ConfirmPodsFails
<1>2. CASE Poll(w)
  <2>1. CASE End(w, "timeout")
    BY <1>1, <2>1, EndType
  <2>2. CASE Go(w, "fetching", CallTime) /\ UNCHANGED <<attempt, seen, overslept>>
    BY <1>1, <2>2, GoType, RolloutAssumption DEF TypeOK, clusterVars
  <2>. QED
    BY <1>2, <2>1, <2>2 DEF Poll
<1>3. CASE Fetch(w)
  <2>1. CASE End(w, "deployment_not_found") \/ End(w, "rollout_unrecoverable")
    BY <1>1, <2>1, EndType
  <2>2. CASE /\ Controller[cluster[w]] \notin {"nothing", "exceeded"}
             /\ seen' = [seen EXCEPT ![w] = Controller[cluster[w]]]
             /\ Go(w, "checking", CallTime)
             /\ attempt' = [attempt EXCEPT ![w] = 0]
             /\ UNCHANGED overslept
    <3>1. Controller[cluster[w]] \in {"zero", "complete", "incomplete"}
      BY <2>2 DEF TypeOK, Condition, Controller
    <3>. QED
      BY <1>1, <2>2, <3>1, GoType, RolloutAssumption DEF TypeOK, clusterVars
  <2>. QED
    BY <1>3, <2>1, <2>2 DEF Fetch
<1>4. CASE FetchFails(w)
  <2>1. CASE End(w, "kubernetes_api_error")
    BY <1>1, <2>1, EndType
  <2>2. CASE /\ attempt[w] < RetryLimit
             /\ attempt' = [attempt EXCEPT ![w] = @ + 1]
             /\ Go(w, "retrying", RetryDelay)
             /\ UNCHANGED <<seen, overslept>>
    <3>1. attempt' \in [Workloads -> 0..RetryLimit]
      BY <2>2, RolloutAssumption DEF TypeOK
    <3>. QED
      BY <1>1, <2>2, <3>1, GoType, RolloutAssumption DEF TypeOK, clusterVars
  <2>. QED
    BY <1>4, <2>1, <2>2 DEF FetchFails
<1>5. CASE FetchBreaks(w)
  BY <1>1, <1>5, EndType DEF FetchBreaks
<1>6. CASE Retry(w)
  BY <1>6, GoType, RolloutAssumption DEF Retry, TypeOK, clusterVars
<1>7. CASE CheckPods(w) \/ CheckPodsFails(w)
  BY <1>1, <1>7, EndType, JudgeType DEF CheckPods, CheckPodsFails
<1>8. CASE ConfirmPods(w) \/ ConfirmPodsFails(w)
  BY <1>1, <1>8, EndType, SleepType, OneMoreType DEF ConfirmPods, ConfirmPodsFails
<1>. QED
  BY <1>2, <1>3, <1>4, <1>5, <1>6, <1>7, <1>8 DEF MonitorStep

LEMMA CancelType ==
  ASSUME TypeOK, CancelPending, UNCHANGED <<clusterVars, elapsed, call>>,
         answer' \in [kind : {"none", "complete"} \union Failures, named : SUBSET Workloads]
  PROVE  TypeOK'
BY RolloutAssumption DEF CancelPending, TypeOK, clusterVars, Pending

LEMMA StepType ==
  ASSUME TypeOK, Bookkeeping, [Next]_vars
  PROVE  TypeOK'
<1>1. CASE UNCHANGED vars
  BY <1>1 DEF vars, clusterVars, monitorVars, TypeOK
<1>2. ASSUME NEW kind \in {"wait", "all"}, NEW of \in SUBSET Workloads, Begin(kind, of)
      PROVE  TypeOK'
  BY <1>2 DEF Begin, TypeOK, Marked
<1>3. ASSUME NEW w \in Workloads, Evolve(w)
      PROVE  TypeOK'
  BY <1>3 DEF Evolve, TypeOK, Marked, ConditionsOf
<1>4. ASSUME NEW w \in Workloads, MonitorStep(w)
      PROVE  TypeOK'
  BY <1>4, MonitorType
<1>5. CASE AnswerComplete
  BY <1>5 DEF AnswerComplete, Reply, TypeOK, clusterVars, monitorVars
<1>6. CASE AnswerFailure
  <2>1. PICK w \in Failed : Reply(result[w], {w})
    BY <1>6 DEF AnswerFailure
  <2>2. answer = NoAnswer
    BY <2>1 DEF Reply
  <2>3. w \in Workloads /\ result[w] \in Failures
    BY <2>1, <2>2 DEF Failed, TypeOK, Bookkeeping
  <2>. QED
    BY <1>6, <2>1, <2>3, CancelType DEF AnswerFailure, Reply, TypeOK
<1>7. CASE AnswerTimeout
  BY <1>7, CancelType DEF AnswerTimeout, Reply, Pending, TypeOK, Failures
<1>8. CASE Tick
  BY <1>8 DEF Tick, TypeOK, clusterVars, monitorVars
<1>9. CASE WaitForRollout
  <2>1. PICK d \in Deployments : Begin("wait", {d})
    BY <1>9 DEF WaitForRollout
  <2>. QED
    BY <1>2, <2>1 DEF Workloads
<1>10. CASE WaitForAllRollouts
  BY <1>2, <1>10 DEF WaitForAllRollouts
<1>. QED
  BY <1>1, <1>3, <1>4, <1>5, <1>6, <1>7, <1>8, <1>9, <1>10 DEF Next, Answer

---------------------------------------------------------------------------
(* What a step of a monitor amounts to *)

Stages == {"polling", "fetching", "retrying", "checking", "confirming"}

\* It ends with a verdict that the cluster bears out, ...
EndsSoundly(w) ==
  \E outcome \in {"complete"} \union Failures :
    /\ End(w, outcome)
    /\ outcome = "complete" =>
         seen[w] = "zero" \/ (pc[w] = "confirming" /\ cluster[w] \in PodsReady)
    /\ outcome = "rollout_unrecoverable" =>
         cluster[w] \in PodsBroken \/ Controller[cluster[w]] = "exceeded"

\* ... or goes on to a stage that is over in time, with what it has read of the
\* controller.  It sleeps on a workload that it could find complete only if it had
\* read the controller before.
GoesOnInTime(w) ==
  \E stage \in Stages, time \in Nat, tries \in 0..RetryLimit, times \in Nat,
     status \in {"nothing", seen[w], Controller[cluster[w]]} :
    /\ Go(w, stage, time)
    /\ attempt' = [attempt EXCEPT ![w] = tries]
    /\ elapsed + time <= Limit(stage, tries)
    /\ seen' = [seen EXCEPT ![w] = status]
    /\ stage = "checking" => status = Controller[cluster[w]]
    /\ stage = "confirming" => status = "complete"
    /\ overslept' = [overslept EXCEPT ![w] = times]
    /\ \/ times \in {0, overslept[w]}
       \/ /\ stage = "polling" /\ times = OneMore(w)
          /\ cluster[w] \in PodsReady => pc[w] = "checking" /\ seen[w] = "incomplete"

LEMMA Unread ==
  ASSUME TypeOK, NEW w \in Workloads, UNCHANGED <<seen, overslept>>
  PROVE  /\ seen' = [seen EXCEPT ![w] = seen[w]]
         /\ overslept' = [overslept EXCEPT ![w] = overslept[w]]
         /\ overslept[w] \in Nat
         /\ UNCHANGED attempt => attempt' = [attempt EXCEPT ![w] = attempt[w]]
BY DEF TypeOK

LEMMA SleepsInTime ==
  ASSUME TypeOK, TimersKept, NEW w \in Workloads, pc[w] \in {"checking", "confirming"},
         NEW times \in {0, OneMore(w)}, Sleep(w, times),
         \/ times = 0
         \/ cluster[w] \in PodsReady => pc[w] = "checking" /\ seen[w] = "incomplete"
  PROVE  GoesOnInTime(w)
<1>1. elapsed + PollInterval <= Limit("polling", attempt[w])
  <2>1. elapsed <= LastPoll + CallTime + Retries(RetryLimit) + CallTime + CallTime
    BY Durations, RolloutAssumption DEF TimersKept, Active, Limit, TypeOK
  <2>. QED
    BY <2>1, Durations, RolloutAssumption DEF Limit, TypeOK
<1>2. attempt' = [attempt EXCEPT ![w] = attempt[w]]
  BY DEF Sleep, TypeOK
<1>3. times \in Nat
  BY OneMoreType
<1>. QED
  BY <1>1, <1>2, <1>3, Durations DEF Sleep, GoesOnInTime, Stages, TypeOK

LEMMA JudgesInTime ==
  ASSUME TypeOK, TimersKept, NEW w \in Workloads, pc[w] = "checking", Judge(w)
  PROVE  EndsSoundly(w) \/ GoesOnInTime(w)
<1>1. CASE seen[w] = "zero" /\ End(w, "complete")
  BY <1>1 DEF EndsSoundly
<1>2. CASE seen[w] = "complete" /\ Go(w, "confirming", CallTime)
           /\ UNCHANGED <<attempt, seen, overslept>>
  <2>1. elapsed + CallTime <= Limit("confirming", attempt[w])
    <3>1. elapsed <= LastPoll + CallTime + Retries(RetryLimit) + CallTime
      BY Durations, RolloutAssumption DEF TimersKept, Active, Limit, TypeOK
    <3>. QED
      BY <3>1, Durations, RolloutAssumption DEF Limit, TypeOK
  <2>. QED
    BY <1>2, <2>1, Unread, Durations DEF GoesOnInTime, Stages, TypeOK
<1>3. CASE seen[w] = "incomplete" /\ Sleep(w, OneMore(w))
  BY <1>3, SleepsInTime
<1>. QED
  BY <1>1, <1>2, <1>3 DEF Judge

LEMMA StepOfMonitor ==
  ASSUME TypeOK, TimersKept, NEW w \in Workloads, MonitorStep(w)
  PROVE  /\ Active(w)
         /\ EndsSoundly(w) \/ GoesOnInTime(w)
         /\ UNCHANGED <<clusterVars, elapsed, call, answer>>
<1>. USE DEF Stages, Failures
<1>1. UNCHANGED <<clusterVars, elapsed, call, answer>> /\ Active(w)
  BY DEF MonitorStep, Poll, Fetch, FetchFails, FetchBreaks, Retry, CheckPods,
         CheckPodsFails, ConfirmPods, ConfirmPodsFails, Active
<1>. SUFFICES EndsSoundly(w) \/ GoesOnInTime(w)
  BY <1>1
<1>2. CASE Poll(w)
  <2>1. CASE End(w, "timeout")
    BY <2>1 DEF EndsSoundly
  <2>2. CASE elapsed < Timeout /\ Go(w, "fetching", CallTime) /\ UNCHANGED <<attempt, seen, overslept>>
    <3>1. elapsed + CallTime <= Limit("fetching", attempt[w])
      BY <2>2, Durations, RolloutAssumption DEF Limit, TypeOK
    <3>. QED
      BY <2>2, <3>1, Unread, Durations DEF GoesOnInTime, TypeOK
  <2>. QED
    BY <1>2, <2>1, <2>2 DEF Poll
<1>3. CASE Fetch(w)
  <2>1. CASE End(w, "deployment_not_found")
    BY <2>1 DEF EndsSoundly
  <2>2. CASE Controller[cluster[w]] = "exceeded" /\ End(w, "rollout_unrecoverable")
    BY <2>2 DEF EndsSoundly
  <2>3. CASE /\ seen' = [seen EXCEPT ![w] = Controller[cluster[w]]]
             /\ Go(w, "checking", CallTime)
             /\ attempt' = [attempt EXCEPT ![w] = 0]
             /\ UNCHANGED overslept
    <3>1. elapsed <= LastPoll + CallTime + Retries(attempt[w])
      BY <1>3, Durations, RolloutAssumption DEF Fetch, TimersKept, Active, Limit, TypeOK
    <3>2. elapsed + CallTime <= Limit("checking", 0)
      BY <3>1, Durations, RolloutAssumption DEF Limit, TypeOK
    <3>3. /\ 0 \in 0..RetryLimit /\ CallTime \in Nat
          /\ overslept' = [overslept EXCEPT ![w] = overslept[w]] /\ overslept[w] \in Nat
      BY <2>3, RolloutAssumption DEF TypeOK
    <3>. QED
      BY <2>3, <3>2, <3>3 DEF GoesOnInTime
  <2>. QED
    BY <1>3, <2>1, <2>2, <2>3 DEF Fetch
<1>4. CASE FetchFails(w)
  <2>1. CASE End(w, "kubernetes_api_error")
    BY <2>1 DEF EndsSoundly
  <2>2. CASE /\ attempt[w] < RetryLimit
             /\ attempt' = [attempt EXCEPT ![w] = @ + 1]
             /\ Go(w, "retrying", RetryDelay)
             /\ UNCHANGED <<seen, overslept>>
    <3>1. attempt[w] + 1 \in 0..RetryLimit
      BY <2>2, RolloutAssumption DEF TypeOK
    <3>2. elapsed + RetryDelay <= Limit("retrying", attempt[w] + 1)
      <4>1. elapsed <= LastPoll + CallTime + Retries(attempt[w])
        BY <1>4, Durations, RolloutAssumption DEF FetchFails, TimersKept, Active, Limit, TypeOK
      <4>2. Retries(attempt[w] + 1) = Retries(attempt[w]) + CallTime + RetryDelay
        BY Durations DEF TypeOK
      <4>. QED
        BY <3>1, <4>1, <4>2, Durations, RolloutAssumption DEF Limit, TypeOK
    <3>3. attempt' = [attempt EXCEPT ![w] = attempt[w] + 1]
      BY <2>2
    <3>. QED
      BY <2>2, <3>1, <3>2, <3>3, Unread, RolloutAssumption DEF GoesOnInTime
  <2>. QED
    BY <1>4, <2>1, <2>2 DEF FetchFails
<1>5. CASE FetchBreaks(w)
  BY <1>5 DEF FetchBreaks, EndsSoundly
<1>6. CASE Retry(w)
  <2>1. elapsed + CallTime <= Limit("fetching", attempt[w])
    BY <1>6, Durations, RolloutAssumption DEF Retry, TimersKept, Active, Limit, TypeOK
  <2>. QED
    BY <1>6, <2>1, Unread, Durations DEF Retry, GoesOnInTime, TypeOK
<1>7. CASE CheckPods(w) \/ CheckPodsFails(w)
  BY <1>7, JudgesInTime DEF CheckPods, CheckPodsFails, EndsSoundly
<1>8. CASE ConfirmPods(w) \/ ConfirmPodsFails(w)
  BY <1>8, SleepsInTime DEF ConfirmPods, ConfirmPodsFails, EndsSoundly
<1>. QED
  BY <1>2, <1>3, <1>4, <1>5, <1>6, <1>7, <1>8 DEF MonitorStep

---------------------------------------------------------------------------
(* Every step keeps the invariant *)

\* Nothing is struck from the record, and what a workload is comes onto it.
LEMMA Recorded ==
  ASSUME NEW before, NEW c \in Condition
  PROVE  /\ before \subseteq Marked(before, c)
         /\ Marked(Marked(before, c), c) = Marked(before, c)
         /\ Controller[c] = "complete" => "reported" \in Marked(before, c)
         /\ "reported" \in Marked(before, c) /\ c \in PodsReady => "confirmed" \in Marked(before, c)
         /\ c \in PodsBroken \/ Controller[c] = "exceeded" => "troubled" \in Marked(before, c)
BY DEF Marked

LEMMA InitRollout == Init => RolloutInv
<1>. SUFFICES ASSUME Init PROVE RolloutInv
  OBVIOUS
<1>1. \A w \in Workloads : pc[w] = "off" /\ due[w] = 0 /\ attempt[w] = 0
                           /\ seen[w] = "nothing" /\ result[w] = "none"
                           /\ overslept[w] = 0
  BY DEF Init
<1>2. Bookkeeping
  BY <1>1 DEF Init, Bookkeeping, AnswerIsWarranted, Active
<1>3. TimersKept
  <2>1. 0 <= Horizon
    BY Durations, RolloutAssumption
  <2>. QED
    BY <1>1, <2>1 DEF Init, TimersKept, OverrunBounded, NoCall, Active
<1>4. OnRecord
  BY <1>1 DEF Init, OnRecord, SuccessWasConfirmed, UnrecoverableWasTroubled, Active
<1>5. OversleptOnce
  BY <1>1 DEF OversleptOnce
<1>. QED
  BY <1>2, <1>3, <1>4, <1>5 DEF RolloutInv

\* A monitor only runs while the call is open.
LEMMA OpenWhileActive ==
  ASSUME TypeOK, Bookkeeping, NEW w \in Workloads, Active(w)
  PROVE  w \in call.of /\ call # NoCall /\ answer = NoAnswer
BY DEF Bookkeeping, AnswerIsWarranted, Pending, Active

LEMMA EndKeeps ==
  ASSUME TypeOK, RolloutInv, NEW w \in Workloads, Active(w), EndsSoundly(w),
         UNCHANGED <<clusterVars, elapsed, call, answer>>
  PROVE  RolloutInv'
<1>1. PICK outcome \in {"complete"} \union Failures :
        /\ End(w, outcome)
        /\ outcome = "complete" =>
             seen[w] = "zero" \/ (pc[w] = "confirming" /\ cluster[w] \in PodsReady)
        /\ outcome = "rollout_unrecoverable" =>
             cluster[w] \in PodsBroken \/ Controller[cluster[w]] = "exceeded"
  BY DEF EndsSoundly
<1>2. w \in call.of /\ call # NoCall /\ answer = NoAnswer
  BY OpenWhileActive DEF RolloutInv
<1>3. \A v \in Workloads :
        /\ v # w => pc'[v] = pc[v] /\ due'[v] = due[v] /\ attempt'[v] = attempt[v]
                    /\ seen'[v] = seen[v] /\ result'[v] = result[v]
                    /\ overslept'[v] = overslept[v]
        /\ v = w => pc'[v] = "over" /\ result'[v] = outcome /\ seen'[v] = "nothing"
                    /\ overslept'[v] = 0
  BY <1>1 DEF End, TypeOK
<1>4. Bookkeeping'
  BY <1>2, <1>3 DEF RolloutInv, Bookkeeping, AnswerIsWarranted, Active, Failures
<1>5. TimersKept'
  BY <1>3 DEF RolloutInv, TimersKept, OverrunBounded, Active
<1>6. OnRecord'
  <2>1. /\ Marked(marks[w], cluster[w]) = marks[w]
        /\ seen[w] = "zero" => cluster[w] = "zero"
        /\ pc[w] = "confirming" => "reported" \in marks[w]
    BY DEF RolloutInv, OnRecord
  <2>2. outcome = "complete" => cluster[w] = "zero" \/ "confirmed" \in marks[w]
    BY <1>1, <2>1, Recorded DEF TypeOK
  <2>3. outcome = "rollout_unrecoverable" => "troubled" \in marks[w]
    BY <1>1, <2>1, Recorded DEF TypeOK
  <2>. QED
    BY <1>3, <2>2, <2>3
    DEF RolloutInv, OnRecord, SuccessWasConfirmed, UnrecoverableWasTroubled, Active, clusterVars
<1>7. OversleptOnce'
  BY <1>3 DEF RolloutInv, OversleptOnce, clusterVars
<1>. QED
  BY <1>4, <1>5, <1>6, <1>7 DEF RolloutInv

LEMMA GoKeeps ==
  ASSUME TypeOK, RolloutInv, NEW w \in Workloads, Active(w), GoesOnInTime(w),
         UNCHANGED <<clusterVars, elapsed, call, answer>>
  PROVE  RolloutInv'
<1>1. PICK stage \in Stages, time \in Nat, tries \in 0..RetryLimit, times \in Nat,
           status \in {"nothing", seen[w], Controller[cluster[w]]} :
        /\ Go(w, stage, time)
        /\ attempt' = [attempt EXCEPT ![w] = tries]
        /\ elapsed + time <= Limit(stage, tries)
        /\ seen' = [seen EXCEPT ![w] = status]
        /\ stage = "checking" => status = Controller[cluster[w]]
        /\ stage = "confirming" => status = "complete"
        /\ overslept' = [overslept EXCEPT ![w] = times]
        /\ \/ times \in {0, overslept[w]}
           \/ /\ stage = "polling" /\ times = OneMore(w)
              /\ cluster[w] \in PodsReady => pc[w] = "checking" /\ seen[w] = "incomplete"
  BY DEF GoesOnInTime
<1>2. w \in call.of /\ call # NoCall /\ answer = NoAnswer
  BY OpenWhileActive DEF RolloutInv
<1>3. \A v \in Workloads :
        /\ v # w => pc'[v] = pc[v] /\ due'[v] = due[v] /\ attempt'[v] = attempt[v]
                    /\ seen'[v] = seen[v] /\ overslept'[v] = overslept[v]
        /\ v = w => pc'[v] = stage /\ due'[v] = elapsed + time /\ attempt'[v] = tries
                    /\ seen'[v] = status /\ overslept'[v] = times
        /\ result'[v] = result[v]
  BY <1>1 DEF Go, TypeOK
<1>4. stage # "off" /\ stage # "over" /\ pc[w] # "over"
  BY DEF Stages, Active
<1>5. Bookkeeping'
  BY <1>2, <1>3, <1>4 DEF RolloutInv, Bookkeeping, AnswerIsWarranted, Active
<1>6. TimersKept'
  <2>1. elapsed <= elapsed + time
    BY DEF TypeOK
  <2>. QED
    BY <1>1, <1>3, <2>1 DEF RolloutInv, TimersKept, OverrunBounded, Active
<1>7. OnRecord'
  <2>1. /\ Controller[cluster[w]] = "zero" => cluster[w] = "zero"
        /\ Controller[cluster[w]] = "complete" => "reported" \in marks[w]
    BY Recorded DEF RolloutInv, OnRecord, TypeOK, Condition, Controller
  <2>2. /\ status = "zero" => cluster[w] = "zero"
        /\ status = "complete" => "reported" \in marks[w]
        /\ stage = "confirming" => status = "complete"
    BY <1>1, <2>1 DEF RolloutInv, OnRecord
  <2>. QED
    BY <1>3, <1>4, <2>2
    DEF RolloutInv, OnRecord, SuccessWasConfirmed, UnrecoverableWasTroubled, Active, clusterVars
<1>8. OversleptOnce'
  <2>1. times = OneMore(w) /\ times \notin {0, overslept[w]} =>
          cluster[w] \in Passing /\ times = 1 /\ stage = "polling"
    <3>1. cluster[w] \in Passing => cluster[w] \in PodsReady
      BY DEF Passing
    <3>. QED
      BY <1>1, <3>1 DEF RolloutInv, OversleptOnce, OneMore
  <2>2. times = 1 => cluster[w] \in Passing
    BY <1>1, <2>1 DEF RolloutInv, OversleptOnce
  <2>3. times = 1 /\ stage \in {"checking", "confirming"} => status = "complete"
    BY <1>1, <2>2 DEF Passing
  <2>4. times \in {0, 1}
    BY <1>1, <2>1 DEF RolloutInv, OversleptOnce
  <2>. QED
    BY <1>3, <2>2, <2>3, <2>4 DEF RolloutInv, OversleptOnce, clusterVars
<1>. QED
  BY <1>5, <1>6, <1>7, <1>8 DEF RolloutInv

LEMMA BeginKeeps ==
  ASSUME TypeOK, RolloutInv, NEW kind \in {"wait", "all"}, NEW of \in SUBSET Workloads,
         Begin(kind, of)
  PROVE  RolloutInv'
<1>1. /\ elapsed = 0 /\ answer = NoAnswer
      /\ \A w \in Workloads : pc[w] = "off" /\ due[w] = 0 /\ attempt[w] = 0 /\ result[w] = "none"
  BY DEF Begin, RolloutInv, Bookkeeping
<1>2. /\ \A w \in Workloads :
           /\ pc'[w] = IF w \in of THEN "polling" ELSE "off"
           /\ marks'[w] = IF w \in of THEN Marked({}, cluster[w]) ELSE {}
      /\ call' = [kind |-> kind, of |-> of]
      /\ UNCHANGED <<cluster, elapsed, answer, due, attempt, seen, result, overslept>>
  BY DEF Begin
<1>3. call' # NoCall
  BY <1>2 DEF NoCall
<1>4. Bookkeeping'
  BY <1>1, <1>2, <1>3 DEF Bookkeeping, AnswerIsWarranted, Active
<1>5. TimersKept'
  <2>1. \A w \in Workloads : Active(w)' => pc'[w] = "polling"
    BY <1>2 DEF Active
  <2>2. 0 <= Horizon /\ 0 <= Timeout
    BY Durations, RolloutAssumption
  <2>. QED
    BY <1>1, <1>2, <2>1, <2>2
    DEF TimersKept, OverrunBounded, Limit
<1>6. OnRecord'
  <2>1. \A w \in Workloads : seen[w] = "nothing"
    BY <1>1 DEF RolloutInv, OnRecord, Active
  <2>2. \A w \in Workloads :
          Marked(Marked({}, cluster[w]), cluster[w]) = Marked({}, cluster[w])
    BY Recorded DEF TypeOK
  <2>. QED
    BY <1>1, <1>2, <2>1, <2>2
    DEF RolloutInv, OnRecord, SuccessWasConfirmed, UnrecoverableWasTroubled, Active
<1>7. OversleptOnce'
  BY <1>2 DEF RolloutInv, OversleptOnce
<1>. QED
  BY <1>4, <1>5, <1>6, <1>7 DEF RolloutInv

\* An answer leaves no monitor running.
LEMMA AnswerKeeps ==
  ASSUME TypeOK, RolloutInv, Answer
  PROVE  RolloutInv'
<1>1. answer = NoAnswer /\ UNCHANGED <<clusterVars, elapsed, call>>
  BY DEF Answer, AnswerComplete, AnswerFailure, AnswerTimeout, Reply
<1>2. call # NoCall
  <2>1. Pending # {} \/ Failed # {} => call.of # {}
    BY DEF Pending, Failed
  <2>2. NoCall.of = {}
    BY DEF NoCall
  <2>. QED
    BY <2>1, <2>2 DEF Answer, AnswerComplete, AnswerFailure, AnswerTimeout
<1>3. CASE AnswerComplete
  <2>1. UNCHANGED monitorVars /\ Pending = {} /\ Failed = {}
        /\ answer' = [kind |-> "complete", named |-> call.of]
    BY <1>3 DEF AnswerComplete, Reply
  <2>2. Pending' = {} /\ Failed' = {}
    BY <1>1, <2>1 DEF Pending, Failed, Active, monitorVars
  <2>3. Bookkeeping'
    BY <1>1, <1>2, <2>1, <2>2
    DEF RolloutInv, Bookkeeping, AnswerIsWarranted, Active, monitorVars, NoAnswer
  <2>. QED
    BY <1>1, <2>1, <2>3
    DEF RolloutInv, TimersKept, OverrunBounded, OnRecord, OversleptOnce,
        SuccessWasConfirmed, UnrecoverableWasTroubled, Active, monitorVars, clusterVars
<1>4. CASE AnswerFailure \/ AnswerTimeout
  <2>1. PICK w \in Workloads, kind \in Failures :
          /\ answer' = [kind |-> kind, named |-> {w}]
          /\ result[w] = kind \/ (w \in Pending /\ kind = "timeout")
    <3>1. CASE AnswerFailure
      <4>1. PICK w \in Failed : Reply(result[w], {w})
        BY <3>1 DEF AnswerFailure
      <4>2. w \in Workloads /\ result[w] \in Failures
        BY <4>1, <1>1 DEF Failed, TypeOK, RolloutInv, Bookkeeping
      <4>. QED
        BY <4>1, <4>2 DEF Reply
    <3>2. CASE AnswerTimeout
      <4>1. PICK w \in Pending : Reply("timeout", {w})
        BY <3>2 DEF AnswerTimeout
      <4>. QED
        BY <4>1 DEF Reply, Failures, Pending, TypeOK
    <3>. QED
      BY <1>4, <3>1, <3>2
  <2>2. \A v \in Workloads :
          /\ v \in Pending => pc'[v] = "over" /\ result'[v] = "cancelled"
          /\ v \notin Pending => pc'[v] = pc[v] /\ result'[v] = result[v]
          /\ seen'[v] = "nothing" /\ overslept'[v] = 0
    BY <1>4 DEF AnswerFailure, AnswerTimeout, CancelPending
  <2>3. \A v \in Workloads : Active(v) <=> v \in Pending
    BY DEF RolloutInv, Bookkeeping, Pending, TypeOK
  <2>4. \A v \in Workloads : ~Active(v)'
    BY <2>2, <2>3 DEF Active
  <2>5. AnswerIsWarranted'
    <3>1. Pending' = {}
      BY <1>1, <2>4 DEF Pending, TypeOK
    <3>2. answer'.kind # "complete" /\ answer'.named = {w}
      BY <2>1 DEF Failures
    <3>3. w \notin Pending => result'[w] = answer'.kind
      BY <2>1, <2>2
    <3>4. w \in Pending => result'[w] = "cancelled" /\ answer'.kind = "timeout"
      <4>1. result[w] = kind => w \notin Pending
        BY <2>1, <2>3 DEF RolloutInv, Bookkeeping, Failures, Active
      <4>. QED
        BY <2>1, <2>2, <4>1
    <3>. QED
      BY <3>1, <3>2, <3>3, <3>4 DEF AnswerIsWarranted
  <2>6. Bookkeeping'
    <3>1. answer' # NoAnswer
      BY <2>1 DEF NoAnswer, Failures
    <3>2. \A v \in Workloads : pc'[v] = "over" <=> result'[v] # "none"
      BY <2>2 DEF RolloutInv, Bookkeeping
    <3>. QED
      BY <1>1, <1>2, <2>4, <2>5, <3>1, <3>2 DEF Bookkeeping
  <2>7. TimersKept'
    BY <1>1, <2>4 DEF RolloutInv, TimersKept, OverrunBounded
  <2>8. OnRecord'
    BY <1>1, <2>2, <2>4
    DEF RolloutInv, OnRecord, SuccessWasConfirmed, UnrecoverableWasTroubled, Active, clusterVars
  <2>9. OversleptOnce'
    BY <2>2 DEF OversleptOnce
  <2>. QED
    BY <2>6, <2>7, <2>8, <2>9 DEF RolloutInv
<1>. QED
  BY <1>3, <1>4 DEF Answer

\* Time passes only while some monitor still has some.
LEMMA TickKeeps ==
  ASSUME TypeOK, RolloutInv, Tick
  PROVE  RolloutInv'
<1>1. /\ elapsed' = elapsed + 1
      /\ UNCHANGED <<cluster, marks, call, answer, pc, due, attempt, seen, result, overslept>>
  BY DEF Tick, clusterVars, monitorVars
<1>2. PICK w \in Pending : elapsed < due[w]
  BY DEF Tick
<1>3. call # NoCall
  BY <1>2 DEF RolloutInv, Bookkeeping, Pending, Active, TypeOK
<1>4. Bookkeeping'
  BY <1>1, <1>3
  DEF RolloutInv, Bookkeeping, AnswerIsWarranted, Active, Pending, Failed
<1>5. OverrunBounded'
  <2>1. w \in Workloads /\ Active(w)
    BY DEF Pending, TypeOK
  <2>2. due[w] <= Limit(pc[w], attempt[w])
    BY <2>1 DEF RolloutInv, TimersKept
  <2>3. Limit(pc[w], attempt[w]) <= Horizon
    <3>1. attempt[w] \in 0..RetryLimit
      BY <2>1 DEF TypeOK
    <3>2. Retries(attempt[w]) <= Retries(RetryLimit) /\ Retries(attempt[w]) \in Nat
          /\ Retries(RetryLimit) \in Nat
      BY <3>1, Durations, RolloutAssumption
    <3>3. pc[w] \in Stages
      BY <2>1 DEF TypeOK, Active, Stages
    <3>. QED
      BY <3>2, <3>3, Durations, RolloutAssumption DEF Limit, Stages
  <2>4. Limit(pc[w], attempt[w]) \in Int
    <3>1. pc[w] \in Stages /\ attempt[w] \in Nat
      BY <2>1, RolloutAssumption DEF TypeOK, Active, Stages
    <3>. QED
      BY <3>1, Durations, RolloutAssumption DEF Limit, Stages
  <2>5. Horizon \in Int
    BY Durations, RolloutAssumption
  <2>. QED
    BY <1>1, <1>2, <2>1, <2>2, <2>3, <2>4, <2>5 DEF OverrunBounded, TypeOK
<1>6. TimersKept'
  <2>1. \A v \in Workloads : Active(v) => v \in Pending
    BY DEF RolloutInv, Bookkeeping, Pending
  <2>2. \A v \in Workloads : Active(v) => elapsed + 1 <= due[v]
    BY <2>1 DEF Tick, TypeOK
  <2>. QED
    BY <1>1, <1>5, <2>2 DEF RolloutInv, TimersKept, Active
<1>7. OnRecord'
  BY <1>1 DEF RolloutInv, OnRecord, SuccessWasConfirmed, UnrecoverableWasTroubled, Active
<1>8. OversleptOnce'
  BY <1>1 DEF RolloutInv, OversleptOnce
<1>. QED
  BY <1>4, <1>6, <1>7, <1>8 DEF RolloutInv

LEMMA EvolveKeeps ==
  ASSUME TypeOK, RolloutInv, NEW w \in Workloads, Evolve(w)
  PROVE  RolloutInv'
<1>1. PICK c \in Successors[cluster[w]] \intersect ConditionsOf(w) :
        /\ cluster' = [cluster EXCEPT ![w] = c]
        /\ marks' = [marks EXCEPT ![w] = Marked(@, c)]
        /\ overslept' = [overslept EXCEPT ![w] = IF c \in Passing THEN @ ELSE 0]
  BY DEF Evolve
<1>2. UNCHANGED <<elapsed, call, answer, pc, due, attempt, seen, result>> /\ Active(w)
  BY DEF Evolve
<1>3. cluster[w] # "zero" /\ c \in Condition
  BY <1>1 DEF Successors, ConditionsOf
<1>4. \A v \in Workloads :
        /\ v # w => cluster'[v] = cluster[v] /\ marks'[v] = marks[v]
                    /\ overslept'[v] = overslept[v]
        /\ v = w => cluster'[v] = c /\ marks'[v] = Marked(marks[v], c)
                    /\ overslept'[v] = IF c \in Passing THEN overslept[v] ELSE 0
  BY <1>1 DEF TypeOK
<1>5. Bookkeeping' /\ TimersKept'
  BY <1>2
  DEF RolloutInv, Bookkeeping, TimersKept, AnswerIsWarranted, OverrunBounded,
      Active, Pending, Failed
<1>6. OnRecord'
  <2>1. /\ marks[w] \subseteq Marked(marks[w], c)
        /\ Marked(Marked(marks[w], c), c) = Marked(marks[w], c)
    BY <1>3, Recorded
  <2>2. result[w] = "none"
    BY <1>2 DEF RolloutInv, Bookkeeping, Active
  <2>3. seen[w] # "zero"
    BY <1>3 DEF RolloutInv, OnRecord
  <2>. QED
    BY <1>2, <1>4, <2>1, <2>2, <2>3
    DEF RolloutInv, OnRecord, SuccessWasConfirmed, UnrecoverableWasTroubled, Active
<1>7. OversleptOnce'
  BY <1>2, <1>4 DEF RolloutInv, OversleptOnce
<1>. QED
  BY <1>5, <1>6, <1>7 DEF RolloutInv

LEMMA StepRollout ==
  ASSUME TypeOK, RolloutInv, [Next]_vars
  PROVE  RolloutInv'
<1>1. CASE UNCHANGED vars
  BY <1>1
  DEF vars, clusterVars, monitorVars, RolloutInv, Bookkeeping, TimersKept, OnRecord,
      OversleptOnce, AnswerIsWarranted, OverrunBounded, SuccessWasConfirmed,
      UnrecoverableWasTroubled, Active, Pending, Failed
<1>2. CASE WaitForRollout
  <2>1. PICK d \in Deployments : Begin("wait", {d})
    BY <1>2 DEF WaitForRollout
  <2>. QED
    BY <2>1, BeginKeeps DEF Workloads
<1>3. CASE WaitForAllRollouts
  BY <1>3, BeginKeeps DEF WaitForAllRollouts
<1>4. ASSUME NEW w \in Workloads, Evolve(w)
      PROVE  RolloutInv'
  BY <1>4, EvolveKeeps
<1>5. ASSUME NEW w \in Workloads, MonitorStep(w)
      PROVE  RolloutInv'
  BY <1>5, StepOfMonitor, EndKeeps, GoKeeps DEF RolloutInv
<1>6. CASE Answer
  BY <1>6, AnswerKeeps
<1>7. CASE Tick
  BY <1>7, TickKeeps
<1>. QED
  BY <1>1, <1>2, <1>3, <1>4, <1>5, <1>6, <1>7 DEF Next

LEMMA Inductive == Spec => [](TypeOK /\ RolloutInv)
<1>1. TypeOK /\ RolloutInv /\ [Next]_vars => (TypeOK /\ RolloutInv)'
  BY StepType, StepRollout DEF RolloutInv
<1>2. Init => TypeOK /\ RolloutInv
  BY InitType, InitRollout
<1>. QED
  BY <1>1, <1>2, PTL DEF Spec

---------------------------------------------------------------------------
\* The variables of a rollout call always hold values of their kind; a monitor
\* never has more than RETRY_LIMIT retries behind it.
THEOREM TypeCorrect == Spec => []TypeOK
BY Inductive, PTL

\* /rollout/wait overruns its timeout by no more than one last poll with all its
\* retries, and a sleep.
THEOREM WaitTimeSafe == Spec => []OverrunBounded
BY Inductive, PTL DEF RolloutInv, TimersKept

\* No rollout is reported complete but one that its controller reported so and whose
\* pods confirmed it then or later, while the call was open.
THEOREM SuccessSafe == Spec => []SuccessWasConfirmed
BY Inductive, PTL DEF RolloutInv, OnRecord

\* No rollout is given up as unrecoverable that was never in trouble while the
\* call was open.
THEOREM FailureSafe == Spec => []UnrecoverableWasTroubled
BY Inductive, PTL DEF RolloutInv, OnRecord

\* A monitor sleeps at most once on a workload that is rolled out, stays so and can
\* be read: whatever came before, the poll after that is the last.
THEOREM ReactionSafe == Spec => []RolloutIsNotOverslept
<1>1. TypeOK /\ RolloutInv => RolloutIsNotOverslept
  BY DEF RolloutInv, OversleptOnce, RolloutIsNotOverslept
<1>. QED
  BY <1>1, Inductive, PTL

\* An answer leaves no monitor behind and blames the right workload.
THEOREM AnswerSafe == Spec => []AnswerIsWarranted
BY Inductive, PTL DEF RolloutInv, Bookkeeping

---------------------------------------------------------------------------
(* No monitor goes on for ever *)

\* At one time, how many stages a monitor may still go through: a poll that is
\* due is read, with its retries, judged, confirmed and slept after.
Ahead(w) ==
  CASE pc[w] \in {"off", "over"}            -> 0
    [] pc[w] = "polling" /\ elapsed < due[w]  -> 1
    [] pc[w] = "confirming"                 -> 2
    [] pc[w] = "checking"                   -> 3
    [] pc[w] \in {"fetching", "retrying"}   -> 4
    [] pc[w] = "polling" /\ elapsed >= due[w] -> 5

\* The monitor comes to a later stage; or to the next retry, or from its delay
\* to its read.
Advances(w) ==
  \/ Ahead(w)' < Ahead(w)
  \/ /\ pc[w] \in {"fetching", "retrying"} /\ pc'[w] \in {"fetching", "retrying"}
     /\ \/ attempt'[w] > attempt[w]
        \/ attempt'[w] = attempt[w] /\ pc[w] = "retrying" /\ pc'[w] = "fetching"

LEMMA AheadOf ==
  ASSUME TypeOK, NEW w \in Workloads
  PROVE  /\ pc[w] \in {"off", "over"} => Ahead(w) = 0
         /\ pc[w] = "polling" => Ahead(w) = IF elapsed < due[w] THEN 1 ELSE 5
         /\ pc[w] = "confirming" => Ahead(w) = 2
         /\ pc[w] = "checking" => Ahead(w) = 3
         /\ pc[w] \in {"fetching", "retrying"} => Ahead(w) = 4
BY DEF Ahead, TypeOK

LEMMA EndAdvances ==
  ASSUME TypeOK, TypeOK', NEW w \in Workloads, NEW outcome, Active(w), End(w, outcome)
  PROVE  Advances(w)
<1>1. Ahead(w) > 0
  BY AheadOf DEF Active, TypeOK
<1>2. pc'[w] = "over"
  BY DEF End, TypeOK
<1>3. Ahead(w)' = 0
  BY <1>2 DEF Ahead
<1>. QED
  BY <1>1, <1>3 DEF Advances

LEMMA SleepAdvances ==
  ASSUME TypeOK, TypeOK', NEW w \in Workloads, pc[w] \in {"checking", "confirming"},
         NEW times, Sleep(w, times), UNCHANGED elapsed
  PROVE  Advances(w)
<1>1. pc'[w] = "polling" /\ elapsed' < due'[w]
  BY RolloutAssumption DEF Sleep, Go, TypeOK
<1>2. ~(elapsed' >= due'[w])
  BY <1>1 DEF TypeOK
<1>3. Ahead(w)' = 1
  BY <1>1, <1>2 DEF Ahead
<1>. QED
  BY <1>3, AheadOf DEF Advances

LEMMA MonitorAdvances ==
  ASSUME TypeOK, TypeOK', NEW w \in Workloads, MonitorStep(w)
  PROVE  Advances(w)
<1>. USE DEF Active
<1>1. UNCHANGED elapsed
  BY DEF MonitorStep, Poll, Fetch, FetchFails, FetchBreaks, Retry, CheckPods, CheckPodsFails,
         ConfirmPods, ConfirmPodsFails
<1>2. ASSUME NEW stage \in {"fetching", "retrying", "checking", "confirming"}, NEW time,
             Go(w, stage, time)
      PROVE  /\ pc'[w] = stage
             /\ Ahead(w)' = CASE stage \in {"fetching", "retrying"} -> 4
                              [] stage = "checking"   -> 3
                              [] stage = "confirming" -> 2
  <2>1. pc'[w] = stage
    BY <1>2 DEF Go, TypeOK
  <2>. QED
    BY <2>1 DEF Ahead
<1>3. CASE Poll(w)
  <2>1. CASE Go(w, "fetching", CallTime)
    BY <1>2, <1>3, <2>1, AheadOf DEF Poll, Advances, TypeOK
  <2>. QED
    BY <1>3, <2>1, EndAdvances DEF Poll
<1>4. CASE Fetch(w)
  <2>1. CASE Go(w, "checking", CallTime)
    BY <1>2, <1>4, <2>1, AheadOf DEF Fetch, Advances
  <2>. QED
    BY <1>4, <2>1, EndAdvances DEF Fetch
<1>5. CASE FetchFails(w)
  <2>1. CASE attempt' = [attempt EXCEPT ![w] = @ + 1] /\ Go(w, "retrying", RetryDelay)
    BY <1>2, <1>5, <2>1 DEF FetchFails, Advances, TypeOK
  <2>. QED
    BY <1>5, <2>1, EndAdvances DEF FetchFails
<1>6. CASE FetchBreaks(w)
  BY <1>6, EndAdvances DEF FetchBreaks
<1>7. CASE Retry(w)
  BY <1>2, <1>7 DEF Retry, Advances, TypeOK
<1>8. ASSUME pc[w] = "checking", Judge(w)
      PROVE  Advances(w)
  <2>1. CASE Go(w, "confirming", CallTime)
    BY <1>2, <1>8, <2>1, AheadOf DEF Advances
  <2>. QED
    BY <1>1, <1>8, <2>1, EndAdvances, SleepAdvances DEF Judge
<1>9. CASE CheckPods(w) \/ CheckPodsFails(w)
  BY <1>8, <1>9, EndAdvances DEF CheckPods, CheckPodsFails
<1>10. CASE ConfirmPods(w) \/ ConfirmPodsFails(w)
  BY <1>1, <1>10, EndAdvances, SleepAdvances DEF ConfirmPods, ConfirmPodsFails
<1>. QED
  BY <1>3, <1>4, <1>5, <1>6, <1>7, <1>9, <1>10 DEF MonitorStep

\* While a call is open, time passes one by one and every step of a monitor takes
\* it further at its time; nobody takes a monitor back or starts one again.
\* Nothing happens any more once the answer is out.
CallAdvances ==
  /\ answer = NoAnswer
  /\ elapsed' \in {elapsed, elapsed + 1}
  /\ \A w \in Workloads :
       /\ MonitorStep(w) => Advances(w) /\ UNCHANGED elapsed
       /\ Active(w) /\ UNCHANGED elapsed =>
            Advances(w) \/ UNCHANGED <<pc[w], due[w], attempt[w]>>
       /\ Active(w)' => Active(w) \/ call = NoCall

LEMMA MonitorIsLocal ==
  ASSUME TypeOK, NEW w \in Workloads, NEW v \in Workloads \ {w}, MonitorStep(v)
  PROVE  UNCHANGED <<pc[w], due[w], attempt[w]>>
BY DEF MonitorStep, Poll, Fetch, FetchFails, FetchBreaks, Retry, CheckPods, CheckPodsFails,
       ConfirmPods, ConfirmPodsFails, Judge, Sleep, Go, End, TypeOK

\* The monitors do not spin: between two ticks of the clock, which OverrunBounded
\* stops, each reads a workload once with at most RetryLimit retries, whatever
\* the cluster does and however often.  So a call is answered after a bounded
\* number of steps of the Runner; what EveryCallEnds adds is the fairness.
THEOREM NoEndlessRollout == Spec => [][CallAdvances]_vars
<1>1. ASSUME TypeOK, TypeOK', Bookkeeping, Next
      PROVE  CallAdvances
  <2>. USE <1>1
  <2>1. ASSUME NEW w \in Workloads, Active(w)
        PROVE  answer = NoAnswer
    BY <2>1, OpenWhileActive
  <2>2. ASSUME NEW w \in Workloads, MonitorStep(w)
        PROVE  Active(w) /\ UNCHANGED <<elapsed, call, answer>>
    BY <2>2 DEF MonitorStep, Poll, Fetch, FetchFails, FetchBreaks, Retry, CheckPods,
                CheckPodsFails, ConfirmPods, ConfirmPodsFails, Active
  <2>3. ASSUME NEW w \in Workloads, MonitorStep(w)
        PROVE  CallAdvances
    <3>1. \A v \in Workloads : MonitorStep(v) => Advances(v)
      BY MonitorAdvances
    <3>2. Active(w) /\ answer = NoAnswer /\ UNCHANGED elapsed
      BY <2>1, <2>2, <2>3
    <3>3. \A v \in Workloads \ {w} : UNCHANGED <<pc[v], due[v], attempt[v]>>
      BY <2>3, MonitorIsLocal
    <3>. QED
      BY <2>3, <3>1, <3>2, <3>3 DEF CallAdvances, Active, TypeOK
  <2>4. ASSUME UNCHANGED elapsed, answer = NoAnswer, NEW S \in SUBSET Workloads,
               \A w \in Workloads : Active(w) => w \in S,
               \A w \in S : pc'[w] = "over",
               \A w \in Workloads \ S : UNCHANGED pc[w]
        PROVE  CallAdvances
    <3>1. \A w \in Workloads : Active(w) => Advances(w)
      <4>1. ASSUME NEW w \in Workloads, Active(w)
            PROVE  Ahead(w) > 0 /\ Ahead(w)' = 0
        BY <2>4, <4>1, AheadOf DEF Ahead, Active, TypeOK
      <4>. QED
        BY <4>1 DEF Advances
    <3>. QED
      BY <2>2, <2>4, <3>1 DEF CallAdvances, Active, TypeOK
  <2>5. CASE UNCHANGED <<pc, due, attempt, elapsed>> /\ answer = NoAnswer
    BY <2>5, <2>2, MonitorAdvances DEF CallAdvances, Active, TypeOK
  <2>6. CASE AnswerComplete
    BY <2>5, <2>6 DEF AnswerComplete, Reply, monitorVars
  <2>7. CASE AnswerFailure \/ AnswerTimeout
    <3>1. UNCHANGED elapsed /\ answer = NoAnswer /\ CancelPending
      BY <2>7 DEF AnswerFailure, AnswerTimeout, Reply
    <3>2. /\ Pending \subseteq Workloads
          /\ \A w \in Workloads : Active(w) => w \in Pending
      BY DEF Bookkeeping, Pending, TypeOK
    <3>3. /\ \A w \in Pending : pc'[w] = "over"
          /\ \A w \in Workloads \ Pending : UNCHANGED pc[w]
      BY <3>1, <3>2 DEF CancelPending
    <3>. QED
      BY <2>4, <3>1, <3>2, <3>3
  <2>8. ASSUME NEW w \in Workloads, Evolve(w)
        PROVE  CallAdvances
    BY <2>1, <2>5, <2>8 DEF Evolve
  <2>9. CASE Tick
    BY <2>2, <2>9 DEF Tick, CallAdvances, monitorVars, Active, TypeOK
  <2>10. ASSUME NEW kind, NEW of, Begin(kind, of)
         PROVE  CallAdvances
    BY <2>2, <2>10 DEF Begin, CallAdvances, Bookkeeping, Active, TypeOK
  <2>. QED
    BY <2>3, <2>6, <2>7, <2>8, <2>9, <2>10
    DEF Next, WaitForRollout, WaitForAllRollouts, Answer
<1>2. TypeOK /\ TypeOK' /\ Bookkeeping /\ [Next]_vars => [CallAdvances]_vars
  BY <1>1
<1>. QED
  BY <1>2, Inductive, PTL DEF Spec, RolloutInv
=============================================================================

--------------------------- MODULE RolloutMonitor ---------------------------
(***************************************************************************)
(* POST /rollout/wait and POST /rollout/all: one polling monitor per       *)
(* Deployment or StatefulSet, the retries of its reads, and the batch that *)
(* waits for all monitors under one timeout.                               *)
(*                                                                         *)
(* A monitor judges a workload from up to three reads of the Kubernetes    *)
(* API, and the cluster goes on between them.  A poll of a StatefulSet     *)
(* goes through the same steps as one of a Deployment, and so does its     *)
(* retry loop; only ProgressDeadlineExceeded is peculiar to Deployments.   *)
(*                                                                         *)
(* Time is counted from the arrival of the call.  Timers are prompt: no    *)
(* time passes while a monitor or the batch has something to do.           *)
(***************************************************************************)
EXTENDS Integers

CONSTANTS
  Deployments, StatefulSets,  \* what is configured to be waited for
  ScaleToZero,                \* the deployments left out under KEDA
  Timeout,                    \* of the call, in the unit of the clock
  PollInterval, RetryLimit, RetryDelay,
  CallTime                    \* within which the API answers or the client gives up

Workloads == Deployments \union StatefulSets

ASSUME RolloutAssumption ==
  /\ Deployments \intersect StatefulSets = {}
  /\ ScaleToZero \subseteq Deployments
  /\ Timeout \in Nat \ {0}
  /\ PollInterval \in Nat \ {0}
  /\ RetryLimit \in Nat
  /\ RetryDelay \in Nat
  /\ CallTime \in Nat

VARIABLES
  cluster,                          \* by workload, its state in the cluster
  marks,                            \* and what it has been since the call arrived
  elapsed,                          \* the time since then
  call, answer,                     \* the request and its answer
  pc, due, attempt, seen, result,   \* by workload, its monitor; attempt is 0 and
                                    \* seen "nothing" where the code has no such variable
  overslept                         \* history: how often the monitor has gone to sleep
                                    \* on a workload that is rolled out

clusterVars == <<cluster, marks>>
monitorVars == <<pc, due, attempt, seen, result, overslept>>
vars == <<clusterVars, elapsed, call, answer, monitorVars>>

---------------------------------------------------------------------------
(* The cluster *)

\* By state of a workload: what its controller reports, what its pods are, and
\* what it may become.  In "stale" the controller has not noticed yet that the
\* template was changed; in "lagging" the pods that are there are ready and it does
\* not count them all yet, or more are to come; in "thinned" it has not noticed yet
\* that some are gone, in "crashed" that some are no longer ready, or none is left.
\* After the progress deadline the pods are unready in "exceeded", too few in
\* "starved".
Controller ==
  [ absent   |-> "nothing",    zero    |-> "zero",       stale    |-> "complete",
    rolling  |-> "incomplete", lagging |-> "incomplete", settled  |-> "complete",
    thinned  |-> "complete",   crashed |-> "complete",   broken   |-> "incomplete",
    exceeded |-> "exceeded",   starved |-> "exceeded" ]

Condition == DOMAIN Controller

\* There are pods, and all that are there are ready: how many there should be is
\* not looked at.
PodsReady == {"stale", "lagging", "settled", "thinned", "starved"}
PodsBroken == {"broken"}

Successors ==
  [ absent   |-> {},
    zero     |-> {},
    stale    |-> {"rolling", "lagging"},
    rolling  |-> {"lagging", "broken", "exceeded"},
    lagging  |-> {"settled", "rolling", "starved"},
    settled  |-> {"thinned", "crashed"},
    thinned  |-> {"crashed", "lagging"},
    crashed  |-> {"settled", "thinned", "rolling", "lagging"},
    broken   |-> {"rolling", "lagging"},
    exceeded |-> {"lagging", "starved"},
    starved  |-> {"rolling", "lagging"} ]

\* What the monitor finds complete if it can read it.
Passing == {c \in PodsReady : Controller[c] = "complete"}

\* A StatefulSet has no Progressing condition.
ConditionsOf(w) ==
  IF w \in Deployments THEN Condition ELSE Condition \ {"exceeded", "starved"}

\* What a workload was before, and is in c: reported complete by its controller, at
\* that time or later confirmed by its pods, in trouble, of the current template.
Marked(before, c) ==
  LET now == before
               \union (IF Controller[c] = "complete" THEN {"reported"} ELSE {})
               \union (IF c \in PodsBroken \/ Controller[c] = "exceeded" THEN {"troubled"} ELSE {})
               \union (IF c = "stale" THEN {} ELSE {"current"})
  IN IF "reported" \in now /\ c \in PodsReady THEN now \union {"confirmed"} ELSE now

NoCall == [kind |-> "none", of |-> {}]
NoAnswer == [kind |-> "none", named |-> {}]

Init ==
  /\ cluster \in {c \in [Workloads -> Condition] : \A w \in Workloads : c[w] \in ConditionsOf(w)}
  /\ marks = [w \in Workloads |-> {}]
  /\ elapsed = 0
  /\ call = NoCall
  /\ answer = NoAnswer
  /\ pc = [w \in Workloads |-> "off"]
  /\ due = [w \in Workloads |-> 0]
  /\ attempt = [w \in Workloads |-> 0]
  /\ seen = [w \in Workloads |-> "nothing"]
  /\ result = [w \in Workloads |-> "none"]
  /\ overslept = [w \in Workloads |-> 0]

Active(w) == pc[w] \notin {"off", "over"}

\* Only its own monitor reads a workload, so nothing depends on what becomes of
\* it when that one is over.
Evolve(w) ==
  /\ Active(w)
  /\ \E c \in Successors[cluster[w]] \intersect ConditionsOf(w) :
       /\ cluster' = [cluster EXCEPT ![w] = c]
       /\ marks' = [marks EXCEPT ![w] = Marked(@, c)]
       /\ overslept' = [overslept EXCEPT ![w] = IF c \in Passing THEN @ ELSE 0]
  /\ UNCHANGED <<elapsed, call, answer, pc, due, attempt, seen, result>>

---------------------------------------------------------------------------
(* The monitor of one workload *)

\* Goes on to a stage that is due, or has to be answered, within time.
Go(w, stage, time) ==
  /\ pc' = [pc EXCEPT ![w] = stage]
  /\ due' = [due EXCEPT ![w] = elapsed + time]
  /\ UNCHANGED result

End(w, outcome) ==
  /\ pc' = [pc EXCEPT ![w] = "over"]
  /\ result' = [result EXCEPT ![w] = outcome]
  /\ due' = [due EXCEPT ![w] = 0]
  /\ attempt' = [attempt EXCEPT ![w] = 0]
  /\ seen' = [seen EXCEPT ![w] = "nothing"]
  /\ overslept' = [overslept EXCEPT ![w] = 0]

Sleep(w, times) ==
  /\ Go(w, "polling", PollInterval)
  /\ seen' = [seen EXCEPT ![w] = "nothing"]
  /\ overslept' = [overslept EXCEPT ![w] = times]
  /\ UNCHANGED attempt

OneMore(w) == IF cluster[w] \in Passing THEN overslept[w] + 1 ELSE 0

\* The top of the loop.
Poll(w) ==
  /\ pc[w] = "polling"
  /\ elapsed >= due[w]
  /\ \/ elapsed >= Timeout /\ End(w, "timeout")
     \/ /\ elapsed < Timeout
        /\ Go(w, "fetching", CallTime)
        /\ UNCHANGED <<attempt, seen, overslept>>
  /\ UNCHANGED <<clusterVars, elapsed, call, answer>>

Fetch(w) ==
  /\ pc[w] = "fetching"
  /\ LET status == Controller[cluster[w]] IN
       \/ status = "nothing" /\ End(w, "deployment_not_found")
       \/ status = "exceeded" /\ End(w, "rollout_unrecoverable")
       \/ /\ status \notin {"nothing", "exceeded"}
          /\ seen' = [seen EXCEPT ![w] = status]
          /\ Go(w, "checking", CallTime)
          /\ attempt' = [attempt EXCEPT ![w] = 0]
          /\ UNCHANGED overslept
  /\ UNCHANGED <<clusterVars, elapsed, call, answer>>

\* Mutant: one retry too many.
FetchFailsTooOften(w) ==
  /\ pc[w] = "fetching"
  /\ \/ attempt[w] > RetryLimit /\ End(w, "kubernetes_api_error")
     \/ /\ attempt[w] <= RetryLimit
        /\ attempt' = [attempt EXCEPT ![w] = @ + 1]
        /\ Go(w, "retrying", RetryDelay)
        /\ UNCHANGED <<seen, overslept>>
  /\ UNCHANGED <<clusterVars, elapsed, call, answer>>

\* A transient error.
FetchFails(w) ==
  /\ pc[w] = "fetching"
  /\ \/ attempt[w] = RetryLimit /\ End(w, "kubernetes_api_error")
     \/ /\ attempt[w] < RetryLimit
        /\ attempt' = [attempt EXCEPT ![w] = @ + 1]
        /\ Go(w, "retrying", RetryDelay)
        /\ UNCHANGED <<seen, overslept>>
  /\ UNCHANGED <<clusterVars, elapsed, call, answer>>

\* Any other error.
FetchBreaks(w) ==
  /\ pc[w] = "fetching"
  /\ End(w, "kubernetes_api_error")
  /\ UNCHANGED <<clusterVars, elapsed, call, answer>>

Retry(w) ==
  /\ pc[w] = "retrying"
  /\ elapsed >= due[w]
  /\ Go(w, "fetching", CallTime)
  /\ UNCHANGED <<attempt, seen, overslept, clusterVars, elapsed, call, answer>>

\* What the controller reported decides whether the pods are looked at again.
Judge(w) ==
  \/ seen[w] = "zero" /\ End(w, "complete")
  \/ seen[w] = "complete" /\ Go(w, "confirming", CallTime) /\ UNCHANGED <<attempt, seen, overslept>>
  \/ seen[w] = "incomplete" /\ Sleep(w, OneMore(w))

\* Mutant: a container that is still being created counts as one that never will.
CheckPodsHastily(w) ==
  /\ pc[w] = "checking"
  /\ IF cluster[w] \in PodsBroken \union {"rolling"}
       THEN End(w, "rollout_unrecoverable")
       ELSE Judge(w)
  /\ UNCHANGED <<clusterVars, elapsed, call, answer>>

CheckPods(w) ==
  /\ pc[w] = "checking"
  /\ IF cluster[w] \in PodsBroken THEN End(w, "rollout_unrecoverable") ELSE Judge(w)
  /\ UNCHANGED <<clusterVars, elapsed, call, answer>>

\* Mutant: the first read fails closed, like the second.
CheckPodsFailsClosed(w) ==
  /\ pc[w] = "checking"
  /\ Sleep(w, OneMore(w))
  /\ UNCHANGED <<clusterVars, elapsed, call, answer>>

\* The pods could not be read: taken for unbroken.
CheckPodsFails(w) ==
  /\ pc[w] = "checking"
  /\ Judge(w)
  /\ UNCHANGED <<clusterVars, elapsed, call, answer>>

ConfirmPods(w) ==
  /\ pc[w] = "confirming"
  /\ IF cluster[w] \in PodsReady THEN End(w, "complete") ELSE Sleep(w, OneMore(w))
  /\ UNCHANGED <<clusterVars, elapsed, call, answer>>

\* Mutant: the second read fails open, like the first.
ConfirmPodsFailsOpen(w) ==
  /\ pc[w] = "confirming"
  /\ End(w, "complete")
  /\ UNCHANGED <<clusterVars, elapsed, call, answer>>

\* The pods could not be read: taken for unready.
ConfirmPodsFails(w) ==
  /\ pc[w] = "confirming"
  /\ Sleep(w, 0)
  /\ UNCHANGED <<clusterVars, elapsed, call, answer>>

MonitorStep(w) ==
  \/ Poll(w)
  \/ Fetch(w) \/ FetchFails(w) \/ FetchBreaks(w) \/ Retry(w)
  \/ CheckPods(w) \/ CheckPodsFails(w)
  \/ ConfirmPods(w) \/ ConfirmPodsFails(w)

---------------------------------------------------------------------------
(* The requests *)

Begin(kind, of) ==
  /\ call = NoCall
  /\ call' = [kind |-> kind, of |-> of]
  /\ marks' = [w \in Workloads |-> IF w \in of THEN Marked({}, cluster[w]) ELSE {}]
  /\ pc' = [w \in Workloads |-> IF w \in of THEN "polling" ELSE "off"]
  /\ UNCHANGED <<cluster, elapsed, answer, due, attempt, seen, result, overslept>>

\* The only monitor of a /rollout/wait is that of a deployment.
WaitForRollout == \E d \in Deployments : Begin("wait", {d})

WaitForAllRollouts ==
  \E keda \in BOOLEAN : Begin("all", IF keda THEN Workloads \ ScaleToZero ELSE Workloads)

Pending == {w \in call.of : Active(w)}
Failed == {w \in call.of : pc[w] = "over" /\ result[w] # "complete"}

\* asyncio.wait gives up.
BatchDue == call.kind = "all" /\ elapsed >= Timeout

Reply(kind, named) ==
  /\ answer = NoAnswer
  /\ answer' = [kind |-> kind, named |-> named]

CancelPending ==
  /\ pc' = [w \in Workloads |-> IF w \in Pending THEN "over" ELSE pc[w]]
  /\ result' = [w \in Workloads |-> IF w \in Pending THEN "cancelled" ELSE result[w]]
  /\ due' = [w \in Workloads |-> 0]
  /\ attempt' = [w \in Workloads |-> 0]
  /\ seen' = [w \in Workloads |-> "nothing"]
  /\ overslept' = [w \in Workloads |-> 0]

\* Mutant: a deployment that was left out is waited for all the same.
AnswerCompleteConfigured ==
  /\ call # NoCall
  /\ {w \in Workloads : result[w] = "complete"} = Workloads
  /\ Reply("complete", call.of)
  /\ UNCHANGED <<clusterVars, elapsed, call, monitorVars>>

\* Every monitor returned.
AnswerComplete ==
  /\ call # NoCall
  /\ Pending = {}
  /\ Failed = {}
  /\ Reply("complete", call.of)
  /\ UNCHANGED <<clusterVars, elapsed, call, monitorVars>>

\* Mutant: the answer does not wait for the other monitors to be cancelled.
AnswerFailureOnly ==
  /\ \E w \in Failed : Reply(result[w], {w})
  /\ UNCHANGED <<clusterVars, elapsed, call, monitorVars>>

\* A monitor raised an exception.  When several have by the time the batch is
\* resumed, the set of finished tasks has no order.
AnswerFailure ==
  /\ \E w \in Failed : Reply(result[w], {w})
  /\ CancelPending
  /\ UNCHANGED <<clusterVars, elapsed, call>>

\* The first of the monitors that are not done is the one that is named;
\* deployments come before stateful sets.
AnswerTimeout ==
  /\ BatchDue
  /\ Pending # {}
  /\ Failed = {}
  /\ \E w \in Pending :
       /\ w \in StatefulSets => Pending \intersect Deployments = {}
       /\ Reply("timeout", {w})
  /\ CancelPending
  /\ UNCHANGED <<clusterVars, elapsed, call>>

Tick ==
  /\ answer = NoAnswer
  /\ Pending # {}
  /\ Failed = {}
  /\ ~BatchDue
  /\ \A w \in Pending : elapsed < due[w]
  /\ elapsed' = elapsed + 1
  /\ UNCHANGED <<clusterVars, call, answer, monitorVars>>

Answer == AnswerComplete \/ AnswerFailure \/ AnswerTimeout

Next ==
  \/ WaitForRollout
  \/ WaitForAllRollouts
  \/ \E w \in Workloads : Evolve(w) \/ MonitorStep(w)
  \/ Answer
  \/ Tick

Spec == Init /\ [][Next]_vars

\* The event loop runs what is ready, every API call ends within CallTime, and
\* time passes.  Nothing makes the cluster get anywhere.
FairSpec ==
  /\ Spec
  /\ WF_vars(Answer)
  /\ WF_vars(Tick)
  /\ \A w \in Workloads : WF_vars(MonitorStep(w))

---------------------------------------------------------------------------
(* Type invariant *)

\* When the last poll may begin, and how long it may take to be judged.
LastPoll == Timeout - 1
PollTime == (RetryLimit + 1) * CallTime + RetryLimit * RetryDelay + 2 * CallTime
Horizon == LastPoll + PollTime + PollInterval

Failures == {"timeout", "rollout_unrecoverable", "deployment_not_found", "kubernetes_api_error"}

TypeOK ==
  /\ cluster \in [Workloads -> Condition]
  /\ marks \in [Workloads -> SUBSET {"reported", "confirmed", "troubled", "current"}]
  /\ elapsed \in Nat
  /\ call \in [kind : {"none", "wait", "all"}, of : SUBSET Workloads]
  /\ answer \in [kind : {"none", "complete"} \union Failures, named : SUBSET Workloads]
  /\ pc \in [Workloads ->
       {"off", "polling", "fetching", "retrying", "checking", "confirming", "over"}]
  /\ due \in [Workloads -> Nat]
  /\ attempt \in [Workloads -> 0..RetryLimit]
  /\ seen \in [Workloads -> {"nothing", "zero", "complete", "incomplete"}]
  /\ result \in [Workloads -> {"none", "complete", "cancelled"} \union Failures]
  /\ overslept \in [Workloads -> Nat]

---------------------------------------------------------------------------
(* Safety *)

\* A rollout is reported complete only if the pods confirmed it: at some moment
\* since the call arrived, not before the controller reported it complete, the
\* workload had pods and all it had were ready.  A failing read of the pods does
\* not pass for that, nor do ready pods of which the counters know nothing yet.
\* Pods that are missing are not noticed.
SuccessWasConfirmed ==
  \A w \in Workloads :
    result[w] = "complete" => cluster[w] = "zero" \/ "confirmed" \in marks[w]

\* A rollout is given up as unrecoverable only if at some moment since the call
\* arrived a pod was broken or the progress deadline was exceeded; an API that
\* fails or pods that are only late do not amount to that.
UnrecoverableWasTroubled ==
  \A w \in Workloads :
    result[w] = "rollout_unrecoverable" => "troubled" \in marks[w]

\* A single wait overruns its timeout by no more than one last poll with all
\* its retries, and a sleep.
OverrunBounded == elapsed <= Horizon

\* A workload that is rolled out and stays so is slept on once at most, after a poll
\* that had begun before: the next one finds it complete, whether or not the pods
\* can be searched for broken ones.  Only when the second read of the pods fails
\* does that poll not count.
RolloutIsNotOverslept == \A w \in Workloads : overslept[w] <= 1

\* An answer leaves no monitor behind, says complete only if all monitors do,
\* and blames a workload whose monitor did fail that way or was cut short.
AnswerIsWarranted ==
  answer # NoAnswer =>
    /\ Pending = {}
    /\ answer.kind = "complete" => Failed = {}
    /\ answer.kind # "complete" =>
         \A w \in answer.named :
           \/ result[w] = answer.kind
           \/ answer.kind = "timeout" /\ result[w] = "cancelled"

---------------------------------------------------------------------------
(* Liveness *)

\* Every call is answered, whatever the cluster does.
EveryCallEnds == call # NoCall ~> answer # NoAnswer

---------------------------------------------------------------------------
(* What the documents say of the program, and its code does not do *)

\* The monitor polls "until all replicas are updated": a workload reported
\* complete has had, since the call arrived, a moment in which its controller
\* had caught up with its template.
SuccessIsCurrent ==
  \A w \in Workloads :
    result[w] = "complete" => "current" \in marks[w]
=============================================================================

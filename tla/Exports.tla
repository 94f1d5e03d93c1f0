------------------------------ MODULE Exports ------------------------------
(***************************************************************************)
(* The endpoints that collect the artifacts of a trial and put them into   *)
(* S3: /metrics/export, /logs/{ns}/export, /db/export, /output/export,     *)
(* /prometheus/tsdb/export, and those that write one object                *)
(* (/roundtrip/export, and as "object" /images/export, /metadata/export    *)
(* and the exports of a single role).                                      *)
(*                                                                         *)
(* They are one pattern: a guard on the status, a loop that fetches items, *)
(* a loop that puts them (the same loop, where an item is fetched and put  *)
(* before the next), and an answer that merges what failed.  They differ   *)
(* in what they check first, in which failures they record and which end   *)
(* them, and in what they leave behind.  Every item is awaited, so exports *)
(* overlap with each other and with the lifecycle (TrialWindow), and the   *)
(* Runner may die between two items.  A request that a guard rejects       *)
(* changes nothing and has no action.                                      *)
(***************************************************************************)
EXTENDS TrialWindow, Naturals

CONSTANTS
  Requests,   \* export requests
  NumItems    \* metrics, containers, roles, or files of a TSDB snapshot

ASSUME ExportsAssumption == NumItems \in Nat \ {0}

Items == 1..NumItems

VARIABLES
  (* the bucket, the directories of mkdtemp, the kubectl cp processes *)
  s3, tempdir, copying,
  (* the requests: what they were asked, the await they are at, their locals *)
  kind, overwrite, pc, expected, todo, got, present, stored, failed, window, answer,
  (* history: the requests answered before one arrived; the requests during
     whose overwrite check the trial left the phase "ended" *)
  earlier, disturbed

askedVars == <<kind, overwrite>>
loopVars  == <<expected, todo, got, stored, failed>>
worldVars == <<s3, tempdir, copying>>
vars == <<windowVars, worldVars, askedVars, loopVars, pc, present, window, answer,
          earlier, disturbed>>

---------------------------------------------------------------------------
(* Values *)

Singles == {"roundtrip", "object"}
Kinds   == {"metrics", "logs", "db", "output", "tsdb"} \union Singles

\* Kinds whose guard asks for a terminal status; the others only refuse
\* "not-initialized".
NeedsVerdict == {"metrics", "roundtrip"}

\* All items are fetched before the first is put.
Batches == {"metrics", "logs", "tsdb"}

\* A failed item is recorded and the loop goes on; it ends the others.
BestEffort == {"metrics", "logs", "db", "output"}

\* Kinds with an exception on the way to an item that no handler catches: a
\* body that is not JSON, httpx.ReadError (caught in output.py, not in db.py),
\* kubectl missing.
Fragile == {"metrics", "db"} \union Singles

\* "error" is an error answer or an exception that escapes the handler.
Stages  == {"idle", "check", "discover", "trigger", "copy", "work", "done"}
Answers == {"none", "complete", "partial", "refused", "error", "timeout", "lost"}

Window   == [start : Times, end : Times]
NoWindow == [start |-> NoTime, end |-> NoTime]

\* The objects under one key; a TSDB snapshot has its own directory.
Object == [kind : Kinds, item : Items, by : Requests]
SameKey(o, r, i) == o.kind = kind[r] /\ o.item = i /\ (kind[r] = "tsdb" => o.by = r)

---------------------------------------------------------------------------
Init ==
  /\ WindowInit
  /\ s3 = {}
  /\ tempdir = {}
  /\ copying = {}
  /\ kind = [r \in Requests |-> "object"]
  /\ overwrite = [r \in Requests |-> FALSE]
  /\ pc = [r \in Requests |-> "idle"]
  /\ expected = [r \in Requests |-> {}]
  /\ todo = [r \in Requests |-> {}]
  /\ got = [r \in Requests |-> {}]
  /\ present = [r \in Requests |-> {}]
  /\ stored = [r \in Requests |-> {}]
  /\ failed = [r \in Requests |-> {}]
  /\ window = [r \in Requests |-> NoWindow]
  /\ answer = [r \in Requests |-> "none"]
  /\ earlier = [r \in Requests |-> {}]
  /\ disturbed = {}

At(r, stages) == pc[r] \in stages

Goto(r, stage) == pc' = [pc EXCEPT ![r] = stage] /\ UNCHANGED answer

Reply(r, result) ==
  /\ pc' = [pc EXCEPT ![r] = "done"]
  /\ answer' = [answer EXCEPT ![r] = result]

\* The loops take the items in order.
First(items, i) == i \in items /\ \A j \in items : i <= j

Expect(r, items) ==
  /\ expected' = [expected EXCEPT ![r] = items]
  /\ todo' = [todo EXCEPT ![r] = items]

\* The handler returns an error, or raises: what it collected is dropped.
BreakOff(r, result) ==
  /\ Reply(r, result)
  /\ expected' = [expected EXCEPT ![r] = {}]
  /\ todo' = [todo EXCEPT ![r] = {}]
  /\ got' = [got EXCEPT ![r] = {}]
  /\ stored' = [stored EXCEPT ![r] = {}]
  /\ failed' = [failed EXCEPT ![r] = {}]

\* Mutant: an answer only when nothing failed.
ProceedUnlessFailed(r, left, kept, done, lost) ==
  /\ UNCHANGED expected
  /\ todo' = [todo EXCEPT ![r] = left]
  /\ got' = [got EXCEPT ![r] = kept]
  /\ stored' = [stored EXCEPT ![r] = done]
  /\ failed' = [failed EXCEPT ![r] = lost]
  /\ IF left \union kept \union lost # {} THEN UNCHANGED <<pc, answer>>
     ELSE Reply(r, "complete")

\* The loops go on with what is left, or the answer merges their outcome.
\* (/db/export answers 200 in both cases; its results tell them apart.)
Proceed(r, left, kept, done, lost) ==
  /\ UNCHANGED expected
  /\ todo' = [todo EXCEPT ![r] = left]
  /\ got' = [got EXCEPT ![r] = kept]
  /\ stored' = [stored EXCEPT ![r] = done]
  /\ failed' = [failed EXCEPT ![r] = lost]
  /\ IF left \union kept # {} THEN UNCHANGED <<pc, answer>>
     ELSE Reply(r, IF lost = {} THEN "complete" ELSE "partial")

\* start_time and end_time, read in one step.
ReadWindow(r) == window' = [window EXCEPT ![r] = [start |-> startTime, end |-> endTime]]

---------------------------------------------------------------------------
(* The request arrives *)

\* Mutant: being initialized is enough for every kind.
AdmittedEarly(k) == k \in Kinds /\ phase # "not-initialized"

Admitted(k) ==
  IF k \in NeedsVerdict THEN phase = "ended" ELSE phase # "not-initialized"

Enter(r, k, items, stage) ==
  /\ At(r, {"idle"})
  /\ Admitted(k)
  /\ kind' = [kind EXCEPT ![r] = k]
  /\ earlier' = [earlier EXCEPT ![r] = {q \in Requests : At(q, {"done"})}]
  /\ Expect(r, items)
  /\ Goto(r, stage)
  /\ UNCHANGED <<windowVars, worldVars, got, present, stored, failed, disturbed>>

\* Mutant: /metrics does not look for missing bounds.
ArriveMetricsUnbounded(r, force) ==
  /\ Enter(r, "metrics", Items, IF force THEN "work" ELSE "check")
  /\ overwrite' = [overwrite EXCEPT ![r] = force]
  /\ IF force THEN ReadWindow(r) ELSE UNCHANGED window

\* Both bounds are there.  With "overwrite" no key is checked.
ArriveMetrics(r, force) ==
  /\ startTime # NoTime /\ endTime # NoTime
  /\ Enter(r, "metrics", Items, IF force THEN "work" ELSE "check")
  /\ overwrite' = [overwrite EXCEPT ![r] = force]
  /\ IF force THEN ReadWindow(r) ELSE UNCHANGED window

ArriveLogs(r) == Enter(r, "logs", {}, "discover") /\ UNCHANGED <<overwrite, window>>

ArriveTsdb(r) == Enter(r, "tsdb", Items, "trigger") /\ UNCHANGED <<overwrite, window>>

\* The roles one after another.
ArriveRoles(r) ==
  /\ \E k \in {"db", "output"} : Enter(r, k, Items, "work")
  /\ UNCHANGED <<overwrite, window>>

ArriveSingle(r) ==
  /\ \E k \in Singles : Enter(r, k, {1}, "work")
  /\ UNCHANGED <<overwrite, window>>

---------------------------------------------------------------------------
(* POST /metrics/export: check_objects_exist *)

\* Mutant: the first key answers for all of them.
CheckFirstKey(r) ==
  /\ At(r, {"check"})
  /\ IF \E o \in s3 : o.kind = "metrics" /\ o.item = 1
       THEN BreakOff(r, "refused") /\ UNCHANGED window
       ELSE Goto(r, "work") /\ ReadWindow(r) /\ UNCHANGED loopVars
  /\ disturbed' = disturbed \ {r}
  /\ UNCHANGED <<windowVars, worldVars, askedVars, present, earlier>>

\* head_object of one key.  After the last one the request is refused with the
\* keys that exist, or reads the window and goes on to Prometheus.
CheckKey(r) ==
  /\ At(r, {"check"})
  /\ \E i \in Items : First(todo[r], i) /\
       LET exists == \E o \in s3 : o.kind = "metrics" /\ o.item = i
           found  == present[r] \union (IF exists THEN {i} ELSE {})
       IN  \/ /\ todo[r] # {i}
              /\ todo' = [todo EXCEPT ![r] = @ \ {i}]
              /\ present' = [present EXCEPT ![r] = found]
              /\ UNCHANGED <<pc, answer, expected, got, stored, failed, window, disturbed>>
           \/ /\ todo[r] = {i}
              /\ present' = [present EXCEPT ![r] = {}]
              /\ disturbed' = disturbed \ {r}
              /\ IF found # {}
                   THEN BreakOff(r, "refused") /\ UNCHANGED window
                   ELSE /\ Goto(r, "work")
                        /\ todo' = [todo EXCEPT ![r] = Items]
                        /\ ReadWindow(r)
                        /\ UNCHANGED <<expected, got, stored, failed>>
  /\ UNCHANGED <<windowVars, worldVars, askedVars, earlier>>

\* A ClientError other than 404 is answered; a lost connection is none,
\* escapes, and ends the request as well.
CheckFails(r) ==
  /\ At(r, {"check"})
  /\ BreakOff(r, "error")
  /\ present' = [present EXCEPT ![r] = {}]
  /\ disturbed' = disturbed \ {r}
  /\ UNCHANGED <<windowVars, worldVars, askedVars, window, earlier>>

---------------------------------------------------------------------------
(* POST /logs/{namespace}/export: _discover_pods *)

\* The namespace may have no pods: nothing to do is complete.
Discover(r) ==
  /\ At(r, {"discover"})
  /\ \E pods \in SUBSET Items :
       /\ Expect(r, pods)
       /\ IF pods = {} THEN Reply(r, "complete") ELSE Goto(r, "work")
  /\ UNCHANGED <<windowVars, worldVars, kind, overwrite, got, stored, failed,
                 present, window, earlier, disturbed>>

DiscoverFails(r) ==
  /\ At(r, {"discover"})
  /\ BreakOff(r, "error")
  /\ UNCHANGED <<windowVars, worldVars, askedVars, present, window, earlier, disturbed>>

---------------------------------------------------------------------------
(* POST /prometheus/tsdb/export: snapshot, pod, kubectl cp *)

TriggerSnapshot(r) ==
  /\ At(r, {"trigger"})
  /\ Goto(r, "copy")
  /\ tempdir' = tempdir \union {r}
  /\ copying' = copying \union {r}
  /\ UNCHANGED <<windowVars, s3, askedVars, loopVars, present, window, earlier, disturbed>>

\* Prometheus does not answer, or has no pod.
TriggerFails(r) ==
  /\ At(r, {"trigger"})
  /\ BreakOff(r, "error")
  /\ UNCHANGED <<windowVars, worldVars, askedVars, present, window, earlier, disturbed>>

CopySucceeds(r) ==
  /\ At(r, {"copy"})
  /\ r \in copying
  /\ copying' = copying \ {r}
  /\ got' = [got EXCEPT ![r] = todo[r]]
  /\ todo' = [todo EXCEPT ![r] = {}]
  /\ Goto(r, "work")
  /\ UNCHANGED <<windowVars, s3, tempdir, askedVars, expected, stored, failed, present, window,
                 earlier, disturbed>>

\* A nonzero exit code.
CopyFails(r) ==
  /\ At(r, {"copy"})
  /\ r \in copying
  /\ copying' = copying \ {r}
  /\ tempdir' = tempdir \ {r}
  /\ BreakOff(r, "error")
  /\ UNCHANGED <<windowVars, s3, askedVars, present, window, earlier, disturbed>>

\* After 300 seconds.  Nobody kills kubectl.
CopyTimesOut(r) ==
  /\ At(r, {"copy"})
  /\ tempdir' = tempdir \ {r}
  /\ BreakOff(r, "timeout")
  /\ UNCHANGED <<windowVars, s3, copying, askedVars, present, window, earlier, disturbed>>

---------------------------------------------------------------------------
(* The loops *)

Fetching(r, i) ==
  /\ At(r, {"work"})
  /\ First(todo[r], i)
  /\ kind[r] \in Batches \/ got[r] = {}

Putting(r, i) ==
  /\ At(r, {"work"})
  /\ First(got[r], i)
  /\ kind[r] \in Batches => todo[r] = {}

Fetch(r) ==
  /\ \E i \in Items :
       Fetching(r, i) /\ Proceed(r, todo[r] \ {i}, got[r] \union {i}, stored[r], failed[r])
  /\ UNCHANGED <<windowVars, worldVars, askedVars, present, window, earlier, disturbed>>

\* A status other than 200, no connection, a timeout, no log: recorded, and the
\* loop goes on.
FetchFails(r) ==
  /\ \E i \in Items :
       /\ Fetching(r, i)
       /\ kind[r] \in BestEffort
       /\ Proceed(r, todo[r] \ {i}, got[r], stored[r], failed[r] \union {i})
  /\ UNCHANGED <<windowVars, worldVars, askedVars, present, window, earlier, disturbed>>

\* kubectl fails, or prints nothing or what is not JSON: the only item, and so
\* the request.
ReadFails(r) ==
  /\ \E i \in Items : Fetching(r, i)
  /\ kind[r] \in Singles
  /\ BreakOff(r, "error")
  /\ UNCHANGED <<windowVars, worldVars, askedVars, present, window, earlier, disturbed>>

\* The exception escapes, and with it the results so far.
FetchBreaks(r) ==
  /\ \E i \in Items : Fetching(r, i)
  /\ kind[r] \in Fragile
  /\ BreakOff(r, "error")
  /\ UNCHANGED <<windowVars, worldVars, askedVars, present, window, earlier, disturbed>>

Write(r, i) ==
  s3' = {o \in s3 : ~SameKey(o, r, i)} \union {[kind |-> kind[r], item |-> i, by |-> r]}

\* put_object returns.  Once the last file is up the directory goes.
Put(r) ==
  /\ \E i \in Items :
       /\ Putting(r, i)
       /\ Write(r, i)
       /\ Proceed(r, todo[r], got[r] \ {i}, stored[r] \union {i}, failed[r])
  /\ tempdir' = IF pc'[r] = "done" THEN tempdir \ {r} ELSE tempdir
  /\ UNCHANGED <<windowVars, copying, askedVars, present, window, earlier, disturbed>>

\* Mutant: the file is counted before the put, whatever comes of it.
PutFailsUnseen(r) ==
  /\ \E i \in Items :
       /\ Putting(r, i)
       /\ kind[r] \in BestEffort
       /\ Proceed(r, todo[r], got[r] \ {i}, stored[r] \union {i}, failed[r])
  /\ UNCHANGED <<windowVars, worldVars, askedVars, present, window, earlier, disturbed>>

\* put_object raises, and the object may be there all the same: recorded.
PutFails(r) ==
  /\ \E i \in Items :
       /\ Putting(r, i)
       /\ kind[r] \in BestEffort
       /\ UNCHANGED s3 \/ Write(r, i)
       /\ Proceed(r, todo[r], got[r] \ {i}, stored[r], failed[r] \union {i})
  /\ UNCHANGED <<windowVars, tempdir, copying, askedVars, present, window, earlier, disturbed>>

\* Mutant: the directory stays when an upload fails.
UploadFailsUntidy(r) ==
  /\ \E i \in Items : Putting(r, i)
  /\ kind[r] \notin BestEffort
  /\ BreakOff(r, "error")
  /\ UNCHANGED <<windowVars, worldVars, askedVars, present, window, earlier, disturbed>>

\* Or the first failure ends the request, and the directory goes.
UploadFails(r) ==
  /\ \E i \in Items : Putting(r, i) /\ (UNCHANGED s3 \/ Write(r, i))
  /\ kind[r] \notin BestEffort
  /\ BreakOff(r, "error")
  /\ tempdir' = tempdir \ {r}
  /\ UNCHANGED <<windowVars, copying, askedVars, present, window, earlier, disturbed>>

---------------------------------------------------------------------------
(* The world outside the handlers *)

\* The lifecycle goes on, seen through TrialWindow.
TrialMoves ==
  /\ \/ InitializeCompletes \/ StartConfirmed
     \/ VerdictReached
  /\ disturbed' = IF phase' = "ended" THEN disturbed
                  ELSE disturbed \union {r \in Requests : At(r, {"check"})}
  /\ UNCHANGED <<worldVars, askedVars, loopVars, pc, present, window, answer, earlier>>

\* The Runner dies with its requests and comes back.  S3, the directories and
\* the kubectl processes stay.
Restart ==
  /\ RunnerRestarts
  /\ LET gone == {r \in Requests : ~At(r, {"idle", "done"})}
         Clear(f) == [r \in Requests |-> IF r \in gone THEN {} ELSE f[r]]
     IN  /\ pc' = [r \in Requests |-> IF r \in gone THEN "done" ELSE pc[r]]
         /\ answer' = [r \in Requests |-> IF r \in gone THEN "lost" ELSE answer[r]]
         /\ expected' = Clear(expected)
         /\ todo' = Clear(todo)
         /\ got' = Clear(got)
         /\ stored' = Clear(stored)
         /\ failed' = Clear(failed)
         /\ present' = Clear(present)
         /\ disturbed' = disturbed \ gone
  /\ UNCHANGED <<worldVars, askedVars, window, earlier>>

\* A kubectl cp that nobody waits for writes the next file, making its
\* directory again, or ends.
OrphanCopies(r) ==
  /\ r \in copying
  /\ At(r, {"done"})
  /\ \/ tempdir' = tempdir \union {r} /\ UNCHANGED copying
     \/ copying' = copying \ {r} /\ UNCHANGED tempdir
  /\ UNCHANGED <<windowVars, s3, askedVars, loopVars, pc, present, window, answer,
                 earlier, disturbed>>

---------------------------------------------------------------------------
LoopStep(r) ==
  \/ CheckKey(r)
  \/ CheckFails(r)
  \/ Fetch(r)
  \/ FetchFails(r)
  \/ ReadFails(r)
  \/ FetchBreaks(r)
  \/ Put(r)
  \/ PutFails(r)
  \/ UploadFails(r)

RequestNext(r) ==
  \/ \E force \in BOOLEAN : ArriveMetrics(r, force)
  \/ ArriveLogs(r)
  \/ ArriveTsdb(r)
  \/ ArriveRoles(r)
  \/ ArriveSingle(r)
  \/ LoopStep(r)
  \/ Discover(r)
  \/ DiscoverFails(r)
  \/ TriggerSnapshot(r)
  \/ TriggerFails(r)
  \/ CopySucceeds(r)
  \/ CopyFails(r)
  \/ CopyTimesOut(r)
  \/ OrphanCopies(r)

Next ==
  \/ \E r \in Requests : RequestNext(r)
  \/ TrialMoves
  \/ Restart

Spec == Init /\ [][Next]_vars

\* Prometheus is queried with connect and read timeouts and botocore has its
\* own, so every await of /metrics/export ends.  The others wait for kubectl
\* or read a load generator without a timeout and get no fairness.
FairSpec ==
  Spec /\ \A r \in Requests : WF_vars(kind[r] = "metrics" /\ LoopStep(r))

---------------------------------------------------------------------------
(* Type invariant *)

WorldTypeOK ==
  /\ phase \in Phases
  /\ startTime \in Times \union {NoTime}
  /\ endTime \in Times \union {NoTime}
  /\ s3 \subseteq Object
  /\ tempdir \subseteq Requests
  /\ copying \subseteq Requests

AskedTypeOK ==
  /\ kind \in [Requests -> Kinds]
  /\ overwrite \in [Requests -> BOOLEAN]
  /\ present \in [Requests -> SUBSET Items]
  /\ window \in [Requests -> Window \union {NoWindow}]
  /\ earlier \in [Requests -> SUBSET Requests]
  /\ disturbed \subseteq Requests

LoopTypeOK ==
  /\ pc \in [Requests -> Stages]
  /\ answer \in [Requests -> Answers]
  /\ expected \in [Requests -> SUBSET Items]
  /\ todo \in [Requests -> SUBSET Items]
  /\ got \in [Requests -> SUBSET Items]
  /\ stored \in [Requests -> SUBSET Items]
  /\ failed \in [Requests -> SUBSET Items]

\* Every variable holds a value of its kind.
TypeOK == WorldTypeOK /\ AskedTypeOK /\ LoopTypeOK

---------------------------------------------------------------------------
(* Safety *)

Overlapped(p, q) == p \notin earlier[q] /\ q \notin earlier[p]

\* Without "overwrite" the metrics of a trial are never a mixture: two metric
\* objects of different non-overwriting requests mean that the requests
\* overlapped, so that neither check could see the other's objects.  A partial
\* export, a put whose answer was lost and a crash in the middle all block
\* later requests (metrics.py:103-133).
OneAuthor ==
  \A o, u \in s3 :
    /\ o.kind = "metrics" /\ ~overwrite[o.by]
    /\ u.kind = "metrics" /\ ~overwrite[u.by]
    /\ o.by # u.by
    => Overlapped(o.by, u.by)

\* /metrics checks start_time and end_time, awaits S3 key by key, and reads
\* them again.  What it queries with has both bounds, whatever came in between
\* (it never takes the timestamp of None), and is the window of a trial that
\* has ended, unless the trial left that phase during the check.
WindowStands ==
  [][\A r \in Requests : window'[r] # window[r] =>
       /\ window'[r] \in Window
       /\ phase = "ended" \/ r \in disturbed]_vars

\* An answer that merges results accounts for every item: it was stored or it
\* failed.  A stored object is still in S3 when the answer is out, unless a
\* request that overlapped or came later has replaced it: it is never one of
\* an export that was over before.
AccountedFor ==
  \A r \in Requests : answer[r] \in {"complete", "partial"} =>
    /\ stored[r] \union failed[r] = expected[r]
    /\ stored[r] \intersect failed[r] = {}
    /\ (answer[r] = "complete") = (failed[r] = {})
    /\ \A i \in stored[r] : \E o \in s3 :
         o.kind = kind[r] /\ o.item = i /\ o.by \notin earlier[r]

\* Every way out of /prometheus/tsdb/export removes the copy of the snapshot.
\* One that is left behind is of a Runner that died, or of a kubectl cp that
\* outlived its timeout.
TempDirBelongs ==
  \A r \in tempdir :
    kind[r] = "tsdb" /\ (At(r, {"copy", "work"}) \/ answer[r] \in {"timeout", "lost"})

---------------------------------------------------------------------------
(* Liveness *)

\* Every accepted /metrics/export is answered, or lost with the Runner,
\* whatever fails, whoever overlaps, and however the trial moves on.
MetricsExportEnds ==
  \A r \in Requests :
    (kind[r] = "metrics" /\ ~At(r, {"idle"})) ~> At(r, {"done"})
=============================================================================

------------------------------ MODULE Snapshot ------------------------------
(***************************************************************************)
(* POST /snapshot: the snapshot_in_progress flag of the BenchmarkState and *)
(* SnapshotCollector.collect_snapshot, which collects the files of a       *)
(* phase, uploads them one after the other to the phase's prefix in S3 and *)
(* SHA256SUMS last.                                                        *)
(*                                                                         *)
(* The model follows the prefix of one trial: a trial can be configured    *)
(* once, as its reservation stays in S3 (ConfiguredOnce, proved of         *)
(* BenchmarkLifecycle), and a status other than not-initialized comes with *)
(* a configuration (InitializedMeansInstalled there).  The contents of a   *)
(* file are abstracted to the attempt that collected it.  The files of a   *)
(* section are uploaded in any order here, in a fixed one in the code.     *)
(***************************************************************************)
EXTENDS Integers

CONSTANTS
  Requests,      \* slots for /snapshot requests in progress at the same time
  Required,      \* files without which a snapshot fails
  Optional,      \* files of CRDs that a cluster need not have
  MaxAttempts    \* bound: attempts at a snapshot of each phase

ASSUME SnapshotAssumption ==
  /\ Required \intersect Optional = {}
  /\ MaxAttempts \in Nat

VARIABLES
  configured, inProgress,   \* BenchmarkState: status and config; the flag
  pc, phase, files, left,   \* the requests in progress
  s3, sums,                 \* by phase: the files and SHA256SUMS in S3
  started, confirmed        \* by phase: attempts begun; last one answered 200

requestVars == <<pc, phase, files, left>>
storeVars   == <<s3, sums>>
vars == <<configured, inProgress, requestVars, storeVars, started, confirmed>>

Phases == {"pre", "post"}
NoPhase == "none"
Files == Required \union Optional

\* Attempts are numbered from 1; an object that is not there has none.
Missing  == -1
Attempts == 0..MaxAttempts
NoSums == [attempt |-> Missing, lists |-> {}]

Init ==
  /\ configured = FALSE
  /\ inProgress = FALSE
  /\ pc = [r \in Requests |-> "idle"]
  /\ phase = [r \in Requests |-> NoPhase]
  /\ files = [r \in Requests |-> {}]
  /\ left = [r \in Requests |-> {}]
  /\ s3 = [p \in Phases |-> [f \in Files |-> Missing]]
  /\ sums = [p \in Phases |-> NoSums]
  /\ started = [p \in Phases |-> 0]
  /\ confirmed = [p \in Phases |-> Missing]

---------------------------------------------------------------------------
\* /initialize completes.
Configure ==
  /\ ~configured
  /\ \A p \in Phases : started[p] = 0
  /\ configured' = TRUE
  /\ UNCHANGED <<inProgress, requestVars, storeVars, started, confirmed>>

\* Mutant: the flag is set without having been looked at.
TakeSnapshotUnguarded(r, p) ==
  /\ pc[r] = "idle"
  /\ configured
  /\ started[p] < MaxAttempts
  /\ started' = [started EXCEPT ![p] = @ + 1]
  /\ inProgress' = TRUE
  /\ pc' = [pc EXCEPT ![r] = "collecting"]
  /\ phase' = [phase EXCEPT ![r] = p]
  /\ UNCHANGED <<configured, files, left, storeVars, confirmed>>

\* Mutant: the phase is not validated.
TakeSnapshotAnyPhase(r, p) ==
  /\ pc[r] = "idle"
  /\ configured
  /\ ~inProgress
  /\ inProgress' = TRUE
  /\ pc' = [pc EXCEPT ![r] = "collecting"]
  /\ phase' = [phase EXCEPT ![r] = "during"]
  /\ UNCHANGED <<configured, files, left, storeVars, started, confirmed>>

\* A request for any other phase sets the flag, raises InvalidPhaseError and
\* resets the flag without an await in between.
TakeSnapshot(r, p) ==
  /\ pc[r] = "idle"
  /\ configured
  /\ ~inProgress
  /\ started[p] < MaxAttempts
  /\ started' = [started EXCEPT ![p] = @ + 1]
  /\ inProgress' = TRUE
  /\ pc' = [pc EXCEPT ![r] = "collecting"]
  /\ phase' = [phase EXCEPT ![r] = p]
  /\ UNCHANGED <<configured, files, left, storeVars, confirmed>>

\* Mutant: the flag is reset only when the request succeeded.
FinishFlagged(r) ==
  /\ inProgress' = (left[r] # {})
  /\ pc' = [pc EXCEPT ![r] = "idle"]
  /\ phase' = [phase EXCEPT ![r] = NoPhase]
  /\ files' = [files EXCEPT ![r] = {}]
  /\ left' = [left EXCEPT ![r] = {}]

\* The handler leaves its try block, whose finally resets the flag.
Finish(r) ==
  /\ inProgress' = FALSE
  /\ pc' = [pc EXCEPT ![r] = "idle"]
  /\ phase' = [phase EXCEPT ![r] = NoPhase]
  /\ files' = [files EXCEPT ![r] = {}]
  /\ left' = [left EXCEPT ![r] = {}]

\* A cluster without an optional CRD, or without an answer, leaves its file out.
CollectedCrds == SUBSET Optional

\* Every required section was collected, and some of the optional CRDs.
Collect(r) ==
  /\ pc[r] = "collecting"
  /\ \E crds \in CollectedCrds :
       /\ files' = [files EXCEPT ![r] = Required \union crds]
       /\ left' = [left EXCEPT ![r] = Required \union crds]
  /\ pc' = [pc EXCEPT ![r] = "uploading"]
  /\ UNCHANGED <<configured, inProgress, phase, storeVars, started, confirmed>>

\* Collecting a required section raised SnapshotCollectionError.
CollectFails(r) ==
  /\ pc[r] = "collecting"
  /\ Finish(r)
  /\ UNCHANGED <<configured, storeVars, started, confirmed>>

---------------------------------------------------------------------------
(* The uploads *)

Attempt(r) == started[phase[r]]

Put(r, f) == s3' = [s3 EXCEPT ![phase[r]][f] = Attempt(r)]

\* The optional files were added to the dictionary after the required ones.
UploadsNext(r, f) ==
  /\ pc[r] = "uploading"
  /\ f \in left[r]
  /\ f \in Optional => left[r] \intersect Required = {}

Upload(r, f) ==
  /\ UploadsNext(r, f)
  /\ Put(r, f)
  /\ left' = [left EXCEPT ![r] = @ \ {f}]
  /\ UNCHANGED <<configured, inProgress, pc, phase, files, sums, started, confirmed>>

\* The put of an optional file raised S3OperationError, and may have taken
\* effect all the same.
UploadOptionalFails(r, f) ==
  /\ UploadsNext(r, f)
  /\ f \in Optional
  /\ Put(r, f) \/ UNCHANGED s3
  /\ left' = [left EXCEPT ![r] = @ \ {f}]
  /\ UNCHANGED <<configured, inProgress, pc, phase, files, sums, started, confirmed>>

\* Mutant: a failed upload of a required file is only logged, too.
UploadRequiredSkipped(r, f) ==
  /\ UploadsNext(r, f)
  /\ f \in Required
  /\ left' = [left EXCEPT ![r] = @ \ {f}]
  /\ UNCHANGED <<configured, inProgress, pc, phase, files, storeVars, started, confirmed>>

UploadRequiredFails(r, f) ==
  /\ UploadsNext(r, f)
  /\ f \in Required
  /\ Put(r, f) \/ UNCHANGED s3
  /\ Finish(r)
  /\ UNCHANGED <<configured, sums, started, confirmed>>

\* SHA256SUMS has an entry for every collected file, uploaded or not.
PutSums(r) ==
  sums' = [sums EXCEPT ![phase[r]] = [attempt |-> Attempt(r), lists |-> files[r]]]

\* Mutant: SHA256SUMS is uploaded before the other files are.
UploadSumsEarly(r) ==
  /\ pc[r] = "uploading"
  /\ PutSums(r)
  /\ Finish(r)
  /\ confirmed' = [confirmed EXCEPT ![phase[r]] = Attempt(r)]
  /\ UNCHANGED <<configured, s3, started>>

\* The last upload, and the answer 200.
UploadSums(r) ==
  /\ pc[r] = "uploading"
  /\ left[r] = {}
  /\ PutSums(r)
  /\ Finish(r)
  /\ confirmed' = [confirmed EXCEPT ![phase[r]] = Attempt(r)]
  /\ UNCHANGED <<configured, s3, started>>

UploadSumsFails(r) ==
  /\ pc[r] = "uploading"
  /\ left[r] = {}
  /\ PutSums(r) \/ UNCHANGED sums
  /\ Finish(r)
  /\ UNCHANGED <<configured, s3, started, confirmed>>

---------------------------------------------------------------------------
\* The process dies and comes back: the flag and the requests are gone, S3
\* is not.
Restart ==
  /\ configured
  /\ configured' = FALSE
  /\ inProgress' = FALSE
  /\ pc' = [r \in Requests |-> "idle"]
  /\ phase' = [r \in Requests |-> NoPhase]
  /\ files' = [r \in Requests |-> {}]
  /\ left' = [r \in Requests |-> {}]
  /\ UNCHANGED <<storeVars, started, confirmed>>

UploadStep(r) ==
  \/ \E f \in Files : Upload(r, f) \/ UploadOptionalFails(r, f) \/ UploadRequiredFails(r, f)
  \/ UploadSums(r)
  \/ UploadSumsFails(r)

Next ==
  \/ Configure
  \/ \E r \in Requests :
       \/ \E p \in Phases : TakeSnapshot(r, p)
       \/ Collect(r)
       \/ CollectFails(r)
       \/ UploadStep(r)
  \/ Restart

Spec == Init /\ [][Next]_vars

\* botocore bounds every put by its timeouts and its number of retries, so an
\* upload ends, one way or the other.  The collection waits for kubectl without
\* a timeout and gets no fairness.
FairSpec == Spec /\ \A r \in Requests : WF_vars(UploadStep(r))

---------------------------------------------------------------------------
(* Type invariant *)

TypeOK ==
  /\ configured \in BOOLEAN
  /\ inProgress \in BOOLEAN
  /\ pc \in [Requests -> {"idle", "collecting", "uploading"}]
  /\ phase \in [Requests -> Phases \union {NoPhase}]
  /\ files \in [Requests -> SUBSET Files]
  /\ left \in [Requests -> SUBSET Files]
  /\ s3 \in [Phases -> [Files -> Attempts \union {Missing}]]
  /\ sums \in [Phases -> [attempt : Attempts \union {Missing}, lists : SUBSET Files]]
  /\ started \in [Phases -> Attempts]
  /\ confirmed \in [Phases -> Attempts \union {Missing}]

---------------------------------------------------------------------------
(* Safety *)

\* The flag is a lock: it is set exactly while a request is past the guard, at
\* most one request is, and no failure, restart or late answer leaves it set.
FlagIsLock ==
  /\ inProgress = (\E r \in Requests : pc[r] # "idle")
  /\ \A q, r \in Requests : pc[q] # "idle" /\ pc[r] # "idle" => q = r

\* SHA256SUMS is never ahead of the files: every required file in S3 is at
\* least as new as the SHA256SUMS of its phase, after whatever sequence of
\* attempts that failed half-way, lost answers and restarts.
SumsNeverAhead ==
  \A p \in Phases : \A f \in Required : sums[p].attempt <= s3[p][f]

\* What a 200 answered holds until the next attempt at the phase: SHA256SUMS
\* is that attempt's, and so is every required file.
ConfirmedMeansStored ==
  \A p \in Phases : confirmed[p] = started[p] =>
    /\ sums[p].attempt = started[p]
    /\ \A f \in Required : s3[p][f] = started[p]

\* The collector implements the abstract bundle.
Current(p) == {f \in Required : s3[p][f] = started[p]}
Busy ==
  IF \E r \in Requests : pc[r] # "idle"
    THEN CHOOSE p \in Phases : \E r \in Requests : pc[r] # "idle" /\ phase[r] = p
    ELSE NoPhase

Bundle == INSTANCE SnapshotBundle
            WITH busy   <- Busy,
                 stored <- [p \in Phases |-> Current(p)],
                 sealed <- [p \in Phases |-> sums[p].attempt = started[p]]

ImplementsBundle == Bundle!Spec

---------------------------------------------------------------------------
(* Liveness *)

\* Once the uploads have begun the lock is released, however they end.
UploadsRelease ==
  \A r \in Requests : pc[r] = "uploading" ~> ~inProgress

---------------------------------------------------------------------------
(* What the documents say of the program, and its code does not do *)

\* "The SHA256SUMS file (uploaded last) serves as the completeness indicator":
\* where it is, every file it lists is there, from the same attempt.
SumsMeanComplete ==
  \A p \in Phases : \A f \in sums[p].lists : s3[p][f] = sums[p].attempt
=============================================================================

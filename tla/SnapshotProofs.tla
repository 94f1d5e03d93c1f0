--------------------------- MODULE SnapshotProofs ---------------------------
(***************************************************************************)
(* The lock, the integrity of SHA256SUMS and the refinement of the abstract *)
(* bundle, for every number of requests, files and attempts.               *)
(***************************************************************************)
EXTENDS Snapshot, TLAPS

\* What a request past the guard knows: its phase has been started and not yet
\* confirmed, and every required file it no longer has to upload is in S3.
Progress ==
  \A r \in Requests : pc[r] # "idle" =>
    /\ phase[r] \in Phases
    /\ confirmed[phase[r]] < started[phase[r]]
    /\ pc[r] = "uploading" =>
         \A f \in Required \ left[r] : s3[phase[r]][f] = started[phase[r]]

\* Nothing in S3, and no confirmation, is newer than the last attempt.
NothingAhead ==
  \A p \in Phases :
    /\ confirmed[p] <= started[p]
    /\ sums[p].attempt <= started[p]
    /\ \A f \in Required : s3[p][f] <= started[p]

SnapshotInv ==
  /\ FlagIsLock
  /\ Progress
  /\ NothingAhead
  /\ SumsNeverAhead
  /\ ConfirmedMeansStored

---------------------------------------------------------------------------
(* Type correctness *)

LEMMA FinishType ==
  ASSUME TypeOK, NEW r \in Requests, Finish(r)
  PROVE  /\ inProgress' \in BOOLEAN
         /\ pc' \in [Requests -> {"idle", "collecting", "uploading"}]
         /\ phase' \in [Requests -> Phases \union {NoPhase}]
         /\ files' \in [Requests -> SUBSET Files]
         /\ left' \in [Requests -> SUBSET Files]
BY DEF Finish, TypeOK

LEMMA PutType ==
  ASSUME TypeOK, NEW r \in Requests, NEW f \in Files, phase[r] \in Phases, Put(r, f)
  PROVE  s3' \in [Phases -> [Files -> Attempts \union {Missing}]]
BY DEF Put, Attempt, TypeOK

LEMMA PutSumsType ==
  ASSUME TypeOK, NEW r \in Requests, phase[r] \in Phases, PutSums(r)
  PROVE  sums' \in [Phases -> [attempt : Attempts \union {Missing}, lists : SUBSET Files]]
BY DEF PutSums, Attempt, TypeOK

LEMMA StepType ==
  ASSUME TypeOK, Progress, [Next]_vars
  PROVE  TypeOK'
<1>. USE DEF TypeOK
<1>1. CASE UNCHANGED vars
  BY <1>1 DEF vars, requestVars, storeVars
<1>2. CASE Configure
  BY <1>2 DEF Configure, requestVars, storeVars
<1>3. ASSUME NEW r \in Requests, NEW p \in Phases, TakeSnapshot(r, p)
      PROVE  TypeOK'
  <2>1. started' \in [Phases -> Attempts]
    BY <1>3, SnapshotAssumption DEF TakeSnapshot, Attempts
  <2>. QED
    BY <1>3, <2>1 DEF TakeSnapshot, storeVars
<1>4. ASSUME NEW r \in Requests, Collect(r)
      PROVE  TypeOK'
  BY <1>4 DEF Collect, CollectedCrds, Files, storeVars
<1>5. ASSUME NEW r \in Requests, CollectFails(r)
      PROVE  TypeOK'
  BY <1>5, FinishType DEF CollectFails, storeVars
<1>6. ASSUME NEW r \in Requests, UploadStep(r)
      PROVE  TypeOK'
  <2>1. phase[r] \in Phases
    BY <1>6
    DEF Progress, UploadStep, Upload, UploadOptionalFails, UploadRequiredFails,
        UploadsNext, UploadSums, UploadSumsFails
  <2>2. ASSUME NEW f \in Files, Upload(r, f) \/ UploadOptionalFails(r, f)
        PROVE  TypeOK'
    BY <2>1, <2>2, PutType DEF Upload, UploadOptionalFails
  <2>3. ASSUME NEW f \in Files, UploadRequiredFails(r, f)
        PROVE  TypeOK'
    BY <2>1, <2>3, PutType, FinishType DEF UploadRequiredFails
  <2>4. CASE UploadSums(r)
    <3>1. confirmed' \in [Phases -> Attempts \union {Missing}]
      BY <2>1, <2>4 DEF UploadSums, Attempt
    <3>. QED
      BY <2>1, <2>4, <3>1, PutSumsType, FinishType DEF UploadSums
  <2>5. CASE UploadSumsFails(r)
    BY <2>1, <2>5, PutSumsType, FinishType DEF UploadSumsFails
  <2>. QED
    BY <1>6, <2>2, <2>3, <2>4, <2>5 DEF UploadStep
<1>7. CASE Restart
  BY <1>7 DEF Restart, storeVars
<1>. QED
  BY <1>1, <1>2, <1>3, <1>4, <1>5, <1>6, <1>7 DEF Next

---------------------------------------------------------------------------
(* The inductive invariant *)

LEMMA InitSnapshot == Init => TypeOK /\ SnapshotInv
<1>. SUFFICES ASSUME Init PROVE TypeOK /\ SnapshotInv
  OBVIOUS
<1>1. 0 \in Attempts
  BY SnapshotAssumption DEF Attempts
<1>2. TypeOK
  BY <1>1 DEF Init, TypeOK, NoSums
<1>3. FlagIsLock /\ Progress
  BY DEF Init, FlagIsLock, Progress
<1>4. NothingAhead /\ SumsNeverAhead /\ ConfirmedMeansStored
  BY DEF Init, NothingAhead, SumsNeverAhead, ConfirmedMeansStored, NoSums, Missing,
         Phases, Files
<1>. QED
  BY <1>2, <1>3, <1>4 DEF SnapshotInv

\* Attempt numbers are integers, so the provers' arithmetic applies.
LEMMA AttemptsAreInts ==
  ASSUME TypeOK
  PROVE  \A p \in Phases :
           /\ started[p] \in Nat
           /\ confirmed[p] \in Int
           /\ sums[p].attempt \in Int
           /\ \A f \in Required : s3[p][f] \in Int
BY SnapshotAssumption DEF TypeOK, Attempts, Missing, Files

\* Leaving the try block: the lock is released and nobody is left inside.
LEMMA FinishReleases ==
  ASSUME TypeOK, FlagIsLock, NEW r \in Requests, pc[r] # "idle", Finish(r)
  PROVE  FlagIsLock' /\ \A q \in Requests : pc'[q] = "idle"
BY DEF Finish, FlagIsLock, TypeOK

\* While r holds the lock a put in its phase only brings files up to date.
LEMMA PutKeeps ==
  ASSUME TypeOK, SnapshotInv, NEW r \in Requests, pc[r] # "idle", NEW f \in Files,
         Put(r, f) \/ UNCHANGED s3, UNCHANGED <<sums, started, confirmed>>
  PROVE  /\ NothingAhead' /\ SumsNeverAhead' /\ ConfirmedMeansStored'
         /\ \A p \in Phases, g \in Required :
              \/ s3'[p][g] = s3[p][g]
              \/ p = phase[r] /\ g = f /\ s3'[p][g] = started[p]
<1>1. phase[r] \in Phases /\ confirmed[phase[r]] < started[phase[r]]
  BY DEF SnapshotInv, Progress
<1>2. \A p \in Phases, g \in Required :
        \/ s3'[p][g] = s3[p][g]
        \/ p = phase[r] /\ g = f /\ s3'[p][g] = started[p]
  BY <1>1 DEF Put, Attempt, TypeOK, Files
<1>3. \A p \in Phases, g \in Required : s3[p][g] <= s3'[p][g] /\ s3'[p][g] <= started[p]
  BY <1>2, AttemptsAreInts DEF SnapshotInv, NothingAhead
<1>4. NothingAhead'
  BY <1>3 DEF SnapshotInv, NothingAhead
<1>5. SumsNeverAhead'
  <2>. SUFFICES ASSUME NEW p \in Phases, NEW g \in Required
                PROVE  sums[p].attempt <= s3'[p][g]
    BY DEF SumsNeverAhead
  <2>1. sums[p].attempt <= s3[p][g] /\ s3[p][g] <= s3'[p][g]
    BY <1>3 DEF SnapshotInv, SumsNeverAhead
  <2>2. s3'[p][g] \in Int
    BY <1>2, AttemptsAreInts
  <2>. QED
    BY <2>1, <2>2, AttemptsAreInts
<1>6. ConfirmedMeansStored'
  <2>1. \A p \in Phases : confirmed[p] = started[p] => p # phase[r]
    BY <1>1, AttemptsAreInts
  <2>. QED
    BY <1>2, <2>1 DEF SnapshotInv, ConfirmedMeansStored
<1>. QED
  BY <1>2, <1>4, <1>5, <1>6

\* A request that gave up leaves S3 as it is.
LEMMA LeaveKeeps ==
  ASSUME TypeOK, SnapshotInv, NEW r \in Requests, pc[r] # "idle", Finish(r),
         NothingAhead', SumsNeverAhead', ConfirmedMeansStored'
  PROVE  SnapshotInv'
BY FinishReleases DEF SnapshotInv, Progress

LEMMA TakeKeeps ==
  ASSUME TypeOK, SnapshotInv, NEW r \in Requests, NEW p \in Phases, TakeSnapshot(r, p)
  PROVE  SnapshotInv'
<1>1. \A q \in Requests : pc[q] = "idle"
  BY DEF TakeSnapshot, SnapshotInv, FlagIsLock
<1>2. \A q \in Requests : pc'[q] = IF q = r THEN "collecting" ELSE "idle"
  BY <1>1 DEF TakeSnapshot, TypeOK
<1>3. FlagIsLock'
  BY <1>2 DEF TakeSnapshot, FlagIsLock
<1>4. UNCHANGED <<s3, sums, confirmed>>
  BY DEF TakeSnapshot, storeVars
<1>5. \A x \in Phases : started'[x] = IF x = p THEN started[x] + 1 ELSE started[x]
  BY DEF TakeSnapshot, TypeOK
<1>6. NothingAhead'
  <2>. SUFFICES ASSUME NEW x \in Phases
                PROVE  /\ confirmed[x] <= started'[x]
                       /\ sums[x].attempt <= started'[x]
                       /\ \A f \in Required : s3[x][f] <= started'[x]
    BY <1>4 DEF NothingAhead
  <2>. QED
    BY <1>5, AttemptsAreInts DEF SnapshotInv, NothingAhead
<1>7. confirmed[p] < started'[p] /\ phase'[r] = p
  BY <1>5, AttemptsAreInts DEF SnapshotInv, NothingAhead, TakeSnapshot, TypeOK
<1>8. Progress'
  BY <1>2, <1>4, <1>7 DEF Progress
<1>9. ConfirmedMeansStored'
  BY <1>4, <1>5, <1>7, AttemptsAreInts DEF SnapshotInv, ConfirmedMeansStored
<1>. QED
  BY <1>3, <1>4, <1>6, <1>8, <1>9 DEF SnapshotInv, SumsNeverAhead

\* One more file is dealt with: uploaded, or optional and given up.
LEMMA UploadKeeps ==
  ASSUME TypeOK, SnapshotInv, NEW r \in Requests, NEW f \in Files,
         Upload(r, f) \/ UploadOptionalFails(r, f)
  PROVE  SnapshotInv'
<1>1. /\ pc[r] = "uploading"
      /\ Put(r, f) \/ (UNCHANGED s3 /\ f \in Optional)
      /\ left' = [left EXCEPT ![r] = @ \ {f}]
      /\ UNCHANGED <<inProgress, pc, phase, sums, started, confirmed>>
  BY DEF Upload, UploadOptionalFails, UploadsNext
<1>2. /\ NothingAhead' /\ SumsNeverAhead' /\ ConfirmedMeansStored'
      /\ \A p \in Phases, g \in Required :
           \/ s3'[p][g] = s3[p][g]
           \/ p = phase[r] /\ g = f /\ s3'[p][g] = started[p]
  BY <1>1, PutKeeps
<1>3. FlagIsLock'
  BY <1>1 DEF SnapshotInv, FlagIsLock
<1>4. \A q \in Requests : pc[q] # "idle" => q = r
  BY <1>1 DEF SnapshotInv, FlagIsLock
<1>5. \A g \in Required \ left'[r] : s3'[phase[r]][g] = started[phase[r]]
  <2>. SUFFICES ASSUME NEW g \in Required, g \notin left'[r]
                PROVE  s3'[phase[r]][g] = started[phase[r]]
    OBVIOUS
  <2>1. phase[r] \in Phases
    BY <1>1 DEF SnapshotInv, Progress
  <2>2. CASE g \notin left[r]
    BY <1>1, <1>2, <2>1, <2>2 DEF SnapshotInv, Progress
  <2>3. CASE g = f
    <3>1. Put(r, f)
      BY <1>1, <2>3, SnapshotAssumption
    <3>. QED
      BY <2>1, <2>3, <3>1 DEF Put, Attempt, TypeOK
  <2>. QED
    BY <1>1, <2>2, <2>3 DEF TypeOK
<1>6. Progress'
  BY <1>1, <1>4, <1>5 DEF SnapshotInv, Progress
<1>. QED
  BY <1>2, <1>3, <1>6 DEF SnapshotInv

\* SHA256SUMS is stored when all required files are: answered or not, it is
\* not ahead of them.
LEMMA SumsKeep ==
  ASSUME TypeOK, SnapshotInv, NEW r \in Requests, UploadSums(r) \/ UploadSumsFails(r)
  PROVE  SnapshotInv'
<1>1. /\ pc[r] = "uploading" /\ left[r] = {} /\ Finish(r)
      /\ PutSums(r) \/ (UNCHANGED sums /\ UNCHANGED confirmed)
      /\ \/ confirmed' = [confirmed EXCEPT ![phase[r]] = started[phase[r]]]
         \/ UNCHANGED confirmed
      /\ UNCHANGED <<s3, started>>
  BY DEF UploadSums, UploadSumsFails, Attempt
<1>2. /\ phase[r] \in Phases
      /\ confirmed[phase[r]] < started[phase[r]]
      /\ \A f \in Required : s3[phase[r]][f] = started[phase[r]]
  BY <1>1 DEF SnapshotInv, Progress
<1>3. \A p \in Phases :
        \/ sums'[p] = sums[p] /\ (p = phase[r] => UNCHANGED confirmed)
        \/ p = phase[r] /\ sums'[p].attempt = started[p]
  BY <1>1, <1>2 DEF PutSums, Attempt, TypeOK
<1>4. \A p \in Phases :
        \/ confirmed'[p] = confirmed[p]
        \/ p = phase[r] /\ confirmed'[p] = started[p]
  BY <1>1, <1>2 DEF TypeOK
<1>5. SumsNeverAhead'
  <2>. SUFFICES ASSUME NEW p \in Phases, NEW f \in Required
                PROVE  sums'[p].attempt <= s3[p][f]
    BY <1>1 DEF SumsNeverAhead
  <2>. QED
    BY <1>2, <1>3, AttemptsAreInts DEF SnapshotInv, SumsNeverAhead
<1>6. NothingAhead'
  BY <1>1, <1>3, <1>4, AttemptsAreInts DEF SnapshotInv, NothingAhead
<1>7. ConfirmedMeansStored'
  <2>. SUFFICES ASSUME NEW p \in Phases, confirmed'[p] = started[p]
                PROVE  /\ sums'[p].attempt = started[p]
                       /\ \A f \in Required : s3[p][f] = started[p]
    BY <1>1 DEF ConfirmedMeansStored
  <2>1. CASE p = phase[r]
    BY <1>2, <1>3, <2>1, AttemptsAreInts
  <2>2. CASE p # phase[r]
    BY <1>3, <1>4, <2>2 DEF SnapshotInv, ConfirmedMeansStored
  <2>. QED
    BY <2>1, <2>2
<1>. QED
  BY <1>1, <1>5, <1>6, <1>7, LeaveKeeps

LEMMA StepSnapshot ==
  ASSUME TypeOK, SnapshotInv, [Next]_vars
  PROVE  SnapshotInv'
<1>1. CASE UNCHANGED vars
  BY <1>1
  DEF vars, requestVars, storeVars, SnapshotInv, FlagIsLock, Progress, NothingAhead,
      SumsNeverAhead, ConfirmedMeansStored
<1>2. CASE Configure
  BY <1>2
  DEF Configure, requestVars, storeVars, SnapshotInv, FlagIsLock, Progress,
      NothingAhead, SumsNeverAhead, ConfirmedMeansStored
<1>3. ASSUME NEW r \in Requests, NEW p \in Phases, TakeSnapshot(r, p)
      PROVE  SnapshotInv'
  BY <1>3, TakeKeeps
<1>4. ASSUME NEW r \in Requests, Collect(r)
      PROVE  SnapshotInv'
  <2>1. /\ pc[r] = "collecting"
        /\ pc' = [pc EXCEPT ![r] = "uploading"]
        /\ Required \ left'[r] = {}
        /\ UNCHANGED <<inProgress, phase, s3, sums, started, confirmed>>
    BY <1>4 DEF Collect, TypeOK, storeVars
  <2>2. FlagIsLock'
    BY <2>1 DEF SnapshotInv, FlagIsLock, TypeOK
  <2>3. Progress'
    BY <2>1 DEF SnapshotInv, FlagIsLock, Progress, TypeOK
  <2>. QED
    BY <2>1, <2>2, <2>3
    DEF SnapshotInv, NothingAhead, SumsNeverAhead, ConfirmedMeansStored
<1>5. ASSUME NEW r \in Requests, CollectFails(r)
      PROVE  SnapshotInv'
  BY <1>5, LeaveKeeps
  DEF CollectFails, storeVars, SnapshotInv, NothingAhead, SumsNeverAhead, ConfirmedMeansStored
<1>6. ASSUME NEW r \in Requests, UploadStep(r)
      PROVE  SnapshotInv'
  <2>1. ASSUME NEW f \in Files, UploadRequiredFails(r, f)
        PROVE  SnapshotInv'
    BY <2>1, PutKeeps, LeaveKeeps DEF UploadRequiredFails, UploadsNext
  <2>. QED
    BY <1>6, <2>1, UploadKeeps, SumsKeep DEF UploadStep
<1>7. CASE Restart
  BY <1>7
  DEF Restart, storeVars, SnapshotInv, FlagIsLock, Progress, NothingAhead,
      SumsNeverAhead, ConfirmedMeansStored
<1>. QED
  BY <1>1, <1>2, <1>3, <1>4, <1>5, <1>6, <1>7 DEF Next

LEMMA Inductive == Spec => [](TypeOK /\ SnapshotInv)
<1>1. TypeOK /\ SnapshotInv /\ [Next]_vars => (TypeOK /\ SnapshotInv)'
  BY StepType, StepSnapshot DEF SnapshotInv
<1>. QED
  BY <1>1, InitSnapshot, PTL DEF Spec

---------------------------------------------------------------------------
(* The refinement of SnapshotBundle *)

\* Only one phase can be busy, that of the request that holds the lock.
LEMMA HolderIsBusy ==
  ASSUME FlagIsLock, NEW r \in Requests, pc[r] # "idle", phase[r] \in Phases
  PROVE  Busy = phase[r]
BY DEF FlagIsLock, Busy

LEMMA NobodyIsBusy ==
  ASSUME \A r \in Requests : pc[r] = "idle"
  PROVE  Busy = NoPhase
BY DEF Busy

LEMMA InitRefines == Init => Bundle!Init
<1>. SUFFICES ASSUME Init PROVE Bundle!Init
  OBVIOUS
<1>1. Busy = NoPhase
  BY NobodyIsBusy DEF Init
<1>2. \A p \in Phases : Current(p) = {} /\ sums[p].attempt # started[p]
  BY DEF Init, Current, NoSums, Missing, Files
<1>. QED
  BY <1>1, <1>2 DEF Bundle!Init

\* The guard lets a request through when no phase is busy; its attempt number
\* is newer than anything stored.
LEMMA TakeRefines ==
  ASSUME TypeOK, SnapshotInv, NEW r \in Requests, NEW p \in Phases, TakeSnapshot(r, p)
  PROVE  Bundle!Begin(p)
<1>1. \A q \in Requests : pc[q] = "idle"
  BY DEF TakeSnapshot, SnapshotInv, FlagIsLock
<1>2. \A q \in Requests : pc'[q] # "idle" <=> q = r
  BY <1>1 DEF TakeSnapshot, TypeOK
<1>3. phase'[r] = p
  BY DEF TakeSnapshot, TypeOK
<1>4. Busy' = p
  BY <1>2, <1>3 DEF Busy
<1>5. UNCHANGED <<s3, sums>>
  BY DEF TakeSnapshot, storeVars
<1>6. \A x \in Phases : started'[x] = IF x = p THEN started[x] + 1 ELSE started[x]
  BY DEF TakeSnapshot, TypeOK
<1>7. \A x \in Phases : Current(x)' = IF x = p THEN {} ELSE Current(x)
  <2>1. \A f \in Required : s3[p][f] # started[p] + 1
    BY AttemptsAreInts DEF SnapshotInv, NothingAhead
  <2>. QED
    BY <1>5, <1>6, <2>1 DEF Current
<1>8. \A x \in Phases :
        (sums[x].attempt = started[x])' = IF x = p THEN FALSE ELSE sums[x].attempt = started[x]
  <2>1. sums[p].attempt # started[p] + 1
    BY AttemptsAreInts DEF SnapshotInv, NothingAhead
  <2>. QED
    BY <1>5, <1>6, <2>1
<1>. QED
  BY <1>1, <1>4, <1>7, <1>8, NobodyIsBusy DEF Bundle!Begin

\* A put of the request that holds the lock stores a file of its phase, or
\* brings an optional one up to date.
LEMMA PutRefines ==
  ASSUME TypeOK, SnapshotInv, NEW r \in Requests, pc[r] # "idle", NEW f \in Files,
         Put(r, f), UNCHANGED <<sums, started>>,
         Busy' \in {Busy, NoPhase}
  PROVE  f \in Required => Bundle!Store(f)
<1>. SUFFICES ASSUME f \in Required PROVE Bundle!Store(f)
  OBVIOUS
<1>1. phase[r] \in Phases /\ Busy = phase[r] /\ Busy # NoPhase
  BY HolderIsBusy DEF SnapshotInv, Progress, Phases, NoPhase
<1>2. \A p \in Phases :
        Current(p)' = IF p = phase[r] THEN Current(p) \union {f} ELSE Current(p)
  BY <1>1 DEF Put, Attempt, Current, TypeOK, Files
<1>. QED
  BY <1>1, <1>2 DEF Bundle!Store

LEMMA PutOptionalRefines ==
  ASSUME TypeOK, NEW r \in Requests, NEW f \in Optional, phase[r] \in Phases,
         Put(r, f) \/ UNCHANGED s3, UNCHANGED started
  PROVE  \A p \in Phases : Current(p)' = Current(p)
BY SnapshotAssumption DEF Put, Attempt, Current, TypeOK, Files

\* Storing SHA256SUMS finds every required file stored by the same attempt.
LEMMA SumsRefine ==
  ASSUME TypeOK, SnapshotInv, NEW r \in Requests, pc[r] = "uploading", left[r] = {},
         PutSums(r), Finish(r), UNCHANGED <<s3, started>>
  PROVE  Bundle!Seal
<1>1. phase[r] \in Phases /\ Busy = phase[r] /\ Busy # NoPhase
  BY HolderIsBusy DEF SnapshotInv, Progress, Phases, NoPhase
<1>2. Busy' = NoPhase
  BY FinishReleases DEF SnapshotInv, Busy
<1>3. Current(phase[r]) = Required
  BY DEF SnapshotInv, Progress, Current
<1>4. \A p \in Phases : Current(p)' = Current(p)
  BY DEF Current
<1>5. \A p \in Phases :
        (sums[p].attempt = started[p])' = IF p = phase[r] THEN TRUE ELSE sums[p].attempt = started[p]
  BY <1>1 DEF PutSums, Attempt, TypeOK
<1>. QED
  BY <1>1, <1>2, <1>3, <1>4, <1>5 DEF Bundle!Seal

\* Leaving without a put is giving up.
LEMMA LeaveRefines ==
  ASSUME TypeOK, SnapshotInv, NEW r \in Requests, pc[r] # "idle",
         Finish(r), UNCHANGED storeVars, UNCHANGED started
  PROVE  Bundle!GiveUp
<1>1. Busy # NoPhase
  BY HolderIsBusy DEF SnapshotInv, Progress, Phases, NoPhase
<1>2. Busy' = NoPhase
  BY FinishReleases DEF SnapshotInv, Busy
<1>. QED
  BY <1>1, <1>2 DEF Bundle!GiveUp, Current, storeVars

LEMMA StepRefines ==
  ASSUME TypeOK, SnapshotInv, [Next]_vars
  PROVE  Bundle!Next \/ UNCHANGED Bundle!vars
<1>1. CASE UNCHANGED vars \/ Configure
  <2>1. UNCHANGED <<pc, phase, s3, sums, started>>
    BY <1>1 DEF vars, Configure, requestVars, storeVars
  <2>2. Busy' = Busy
    BY <2>1 DEF Busy
  <2>. QED
    BY <2>1, <2>2 DEF Bundle!vars, Current
<1>2. ASSUME NEW r \in Requests, NEW p \in Phases, TakeSnapshot(r, p)
      PROVE  Bundle!Next
  BY <1>2, TakeRefines DEF Bundle!Next
<1>3. ASSUME NEW r \in Requests, Collect(r)
      PROVE  UNCHANGED Bundle!vars
  <2>1. UNCHANGED <<phase, s3, sums, started>>
    BY <1>3 DEF Collect, storeVars
  <2>2. \A q \in Requests : pc'[q] # "idle" <=> q = r
    BY <1>3 DEF Collect, TypeOK, SnapshotInv, FlagIsLock
  <2>3. phase[r] \in Phases /\ Busy = phase[r]
    BY <1>3, HolderIsBusy DEF Collect, SnapshotInv, Progress
  <2>4. Busy' = phase[r]
    BY <2>1, <2>2, <2>3 DEF Busy
  <2>. QED
    BY <2>1, <2>3, <2>4 DEF Bundle!vars, Current
<1>4. ASSUME NEW r \in Requests, CollectFails(r)
      PROVE  Bundle!Next
  BY <1>4, LeaveRefines DEF CollectFails, Bundle!Next
<1>5. ASSUME NEW r \in Requests, UploadStep(r)
      PROVE  Bundle!Next \/ UNCHANGED Bundle!vars
  <2>1. phase[r] \in Phases /\ pc[r] = "uploading"
    BY <1>5
    DEF SnapshotInv, Progress, UploadStep, Upload, UploadOptionalFails,
        UploadRequiredFails, UploadsNext, UploadSums, UploadSumsFails
  <2>2. ASSUME NEW f \in Files, Upload(r, f) \/ UploadOptionalFails(r, f)
        PROVE  Bundle!Next \/ UNCHANGED Bundle!vars
    <3>0. UNCHANGED <<pc, phase, sums, started>>
      BY <2>2 DEF Upload, UploadOptionalFails
    <3>1. Busy' = Busy /\ UNCHANGED <<sums, started>>
      BY <3>0 DEF Busy
    <3>2. CASE f \in Required
      <4>1. Put(r, f)
        BY <2>2, <3>2, SnapshotAssumption DEF Upload, UploadOptionalFails
      <4>. QED
        BY <2>1, <3>1, <3>2, <4>1, PutRefines DEF Bundle!Next
    <3>3. CASE f \in Optional
      <4>1. Put(r, f) \/ UNCHANGED s3
        BY <2>2 DEF Upload, UploadOptionalFails
      <4>. QED
        BY <2>1, <3>1, <3>3, <4>1, PutOptionalRefines DEF Bundle!vars
    <3>. QED
      BY <3>2, <3>3 DEF Files
  <2>3. ASSUME NEW f \in Files, UploadRequiredFails(r, f)
        PROVE  Bundle!Next
    <3>1. f \in Required /\ Finish(r) /\ UNCHANGED <<sums, started>>
      BY <2>3 DEF UploadRequiredFails
    <3>2. Busy' = NoPhase
      BY <2>1, <3>1, FinishReleases DEF SnapshotInv, Busy
    <3>3. CASE Put(r, f)
      BY <2>1, <3>1, <3>2, <3>3, PutRefines DEF Bundle!Next
    <3>4. CASE UNCHANGED s3
      BY <2>1, <3>1, <3>4, LeaveRefines DEF Bundle!Next, storeVars
    <3>. QED
      BY <2>3, <3>3, <3>4 DEF UploadRequiredFails
  <2>4. CASE UploadSums(r)
    BY <2>4, SumsRefine DEF UploadSums, Bundle!Next
  <2>5. CASE UploadSumsFails(r)
    <3>1. CASE PutSums(r)
      BY <2>5, <3>1, SumsRefine DEF UploadSumsFails, Bundle!Next
    <3>2. CASE UNCHANGED sums
      BY <2>1, <2>5, <3>2, LeaveRefines DEF UploadSumsFails, Bundle!Next, storeVars
    <3>. QED
      BY <2>5, <3>1, <3>2 DEF UploadSumsFails
  <2>. QED
    BY <1>5, <2>2, <2>3, <2>4, <2>5 DEF UploadStep
<1>6. CASE Restart
  <2>1. Busy' = NoPhase /\ UNCHANGED <<s3, sums, started>>
    BY <1>6 DEF Restart, Busy, storeVars
  <2>2. CASE Busy = NoPhase
    BY <2>1, <2>2 DEF Bundle!vars, Current
  <2>3. CASE Busy # NoPhase
    BY <2>1, <2>3 DEF Bundle!Next, Bundle!GiveUp, Current
  <2>. QED
    BY <2>2, <2>3
<1>. QED
  BY <1>1, <1>2, <1>3, <1>4, <1>5, <1>6 DEF Next

---------------------------------------------------------------------------
\* snapshot_in_progress works as a lock for any number of requests: set exactly
\* while one of them is past the guard, and never more than one.
THEOREM LockSafe == Spec => []FlagIsLock
BY Inductive, PTL DEF SnapshotInv

\* No required file in S3 is older than the SHA256SUMS next to it, whatever
\* attempts failed, answers were lost and restarts happened before.
THEOREM SumsSafe == Spec => []SumsNeverAhead
BY Inductive, PTL DEF SnapshotInv

\* An attempt answered 200 has stored every required file and SHA256SUMS, and
\* they stay until the next attempt at the phase.
THEOREM ConfirmedSafe == Spec => []ConfirmedMeansStored
BY Inductive, PTL DEF SnapshotInv

\* The variables of /snapshot always hold values of their kind.
THEOREM TypeCorrect == Spec => []TypeOK
BY Inductive, PTL

\* The collector implements the abstract bundle: attempts do not overlap, and
\* SHA256SUMS seals a phase only when the same attempt stored all that is required.
THEOREM Refinement == Spec => ImplementsBundle
<1>1. TypeOK /\ SnapshotInv /\ [Next]_vars => [Bundle!Next]_(Bundle!vars)
  BY StepRefines
<1>. QED
  BY <1>1, InitRefines, Inductive, PTL DEF Spec, ImplementsBundle, Bundle!Spec

---------------------------------------------------------------------------
(* No attempt goes on for ever *)

RequestStep(r) == Collect(r) \/ CollectFails(r) \/ UploadStep(r)

\* The attempt comes to its next stage, or to its end, or has one file less to
\* upload.
Advances(r) ==
  \/ pc'[r] = "idle"
  \/ pc[r] = "collecting" /\ pc'[r] = "uploading"
  \/ /\ pc'[r] = pc[r]
     /\ left'[r] \subseteq left[r]
     /\ left'[r] # left[r]

\* Every step of an attempt takes it further, and no step of anybody else takes
\* it back.
AttemptsAdvance ==
  \A r \in Requests : pc[r] # "idle" =>
    /\ RequestStep(r) => Advances(r)
    /\ Advances(r) \/ UNCHANGED <<pc[r], left[r]>>

\* Every file is put once and no put is tried again, whatever fails: an attempt
\* has collected, and holds the lock, for as many puts as it has files and one
\* more at most.  What UploadsRelease adds to this is the fairness alone.
THEOREM NoEndlessAttempt == Spec => [][AttemptsAdvance]_vars
<1>1. ASSUME TypeOK, Next, NEW r \in Requests, pc[r] # "idle"
      PROVE  /\ RequestStep(r) => Advances(r)
             /\ Advances(r) \/ UNCHANGED <<pc[r], left[r]>>
  <2>. USE <1>1 DEF TypeOK
  <2>1. ASSUME NEW q \in Requests, RequestStep(q)
        PROVE  IF q = r THEN Advances(r) ELSE UNCHANGED <<pc[r], left[r]>>
    <3>1. CASE Finish(q)
      BY <3>1 DEF Finish, Advances
    <3>2. CASE Collect(q)
      BY <3>2 DEF Collect, Advances
    <3>3. ASSUME NEW f \in Files, Upload(q, f) \/ UploadOptionalFails(q, f)
          PROVE  IF q = r THEN Advances(r) ELSE UNCHANGED <<pc[r], left[r]>>
      BY <3>3 DEF Upload, UploadOptionalFails, UploadsNext, Advances
    <3>. QED
      BY <2>1, <3>1, <3>2, <3>3
      DEF RequestStep, CollectFails, UploadStep, UploadRequiredFails, UploadSums,
          UploadSumsFails
  <2>2. ASSUME Configure
        PROVE  UNCHANGED <<pc[r], left[r]>>
    BY <2>1, <2>2 DEF Configure, requestVars
  <2>3. ASSUME NEW q \in Requests, NEW p \in Phases, TakeSnapshot(q, p)
        PROVE  UNCHANGED <<pc[r], left[r]>>
    BY <2>3 DEF TakeSnapshot
  <2>4. CASE Restart
    BY <2>4 DEF Restart, Advances
  <2>. QED
    BY <2>1, <2>2, <2>3, <2>4 DEF Next, RequestStep
<1>2. TypeOK /\ [Next]_vars => [AttemptsAdvance]_vars
  BY <1>1 DEF AttemptsAdvance
<1>. QED
  BY <1>2, TypeCorrect, PTL DEF Spec
=============================================================================

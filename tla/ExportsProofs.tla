--------------------------- MODULE ExportsProofs ---------------------------
(***************************************************************************)
(* Type correctness and the safety properties of Exports, for every number *)
(* of requests and items and every set of times.                           *)
(***************************************************************************)
EXTENDS Exports, TLAPS

(* Types.  TypeOK alone is not inductive: the window is read after the     *)
(* check, and is one only because the bounds found on arrival are still    *)
(* there.                                                                  *)

\* What a request that checks its keys has found, and what has changed since.
CheckInv ==
  \A r \in Requests : At(r, {"check"}) =>
    /\ startTime \in Times /\ endTime \in Times
    /\ phase = "ended" \/ r \in disturbed

LEMMA BreakOffType ==
  ASSUME LoopTypeOK, NEW r \in Requests, NEW result \in Answers, BreakOff(r, result)
  PROVE  LoopTypeOK'
BY DEF LoopTypeOK, BreakOff, Reply, Stages

LEMMA ProceedType ==
  ASSUME LoopTypeOK, NEW r \in Requests,
         NEW left \in SUBSET Items, NEW kept \in SUBSET Items,
         NEW done \in SUBSET Items, NEW lost \in SUBSET Items,
         Proceed(r, left, kept, done, lost)
  PROVE  LoopTypeOK'
<1>1. /\ todo' \in [Requests -> SUBSET Items]
      /\ got' \in [Requests -> SUBSET Items]
      /\ stored' \in [Requests -> SUBSET Items]
      /\ failed' \in [Requests -> SUBSET Items]
      /\ expected' \in [Requests -> SUBSET Items]
  BY DEF LoopTypeOK, Proceed
<1>2. pc' \in [Requests -> Stages] /\ answer' \in [Requests -> Answers]
  BY DEF LoopTypeOK, Proceed, Reply, Stages, Answers
<1>. QED
  BY <1>1, <1>2 DEF LoopTypeOK

LEMMA WriteType ==
  ASSUME TypeOK, NEW r \in Requests, NEW i \in Items, Write(r, i)
  PROVE  s3' \subseteq Object
<1>1. [kind |-> kind[r], item |-> i, by |-> r] \in Object
  BY DEF TypeOK, AskedTypeOK, Object
<1>. QED
  BY <1>1 DEF Write, TypeOK, WorldTypeOK

LEMMA ReadWindowType ==
  ASSUME TypeOK, NEW r \in Requests, startTime \in Times, endTime \in Times, ReadWindow(r)
  PROVE  window' \in [Requests -> Window \union {NoWindow}] /\ window'[r] \in Window
<1>1. [start |-> startTime, end |-> endTime] \in Window
  BY DEF Window
<1>. QED
  BY <1>1 DEF ReadWindow, TypeOK, AskedTypeOK

LEMMA InitType == Init => TypeOK /\ CheckInv
<1>. SUFFICES ASSUME Init PROVE TypeOK /\ CheckInv
  OBVIOUS
<1>1. WorldTypeOK
  BY DEF Init, WindowInit, WorldTypeOK, Phases
<1>2. AskedTypeOK
  BY DEF Init, AskedTypeOK, Kinds, Singles
<1>3. LoopTypeOK
  BY DEF Init, LoopTypeOK, Stages, Answers
<1>4. CheckInv
  BY DEF Init, CheckInv, At
<1>. QED
  BY <1>1, <1>2, <1>3, <1>4 DEF TypeOK

LEMMA EnterType ==
  ASSUME TypeOK, NEW r \in Requests, NEW k \in Kinds, NEW items \in SUBSET Items,
         NEW stage \in Stages, Enter(r, k, items, stage)
  PROVE  /\ LoopTypeOK' /\ WorldTypeOK'
         /\ kind' \in [Requests -> Kinds]
         /\ earlier' \in [Requests -> SUBSET Requests]
         /\ present' \in [Requests -> SUBSET Items]
         /\ disturbed' \subseteq Requests
<1>1. LoopTypeOK'
  BY DEF Enter, Expect, Goto, TypeOK, LoopTypeOK
<1>2. WorldTypeOK'
  BY DEF Enter, TypeOK, WorldTypeOK, windowVars, worldVars
<1>. QED
  BY <1>1, <1>2 DEF Enter, TypeOK, AskedTypeOK

LEMMA ArriveType ==
  ASSUME TypeOK, NEW r \in Requests,
         \/ \E force \in BOOLEAN : ArriveMetrics(r, force)
         \/ ArriveLogs(r) \/ ArriveTsdb(r) \/ ArriveRoles(r) \/ ArriveSingle(r)
  PROVE  TypeOK'
<1>1. ASSUME NEW force \in BOOLEAN, ArriveMetrics(r, force) PROVE TypeOK'
  <2>1. startTime \in Times /\ endTime \in Times
    BY <1>1 DEF ArriveMetrics, TypeOK, WorldTypeOK
  <2>2. (IF force THEN "work" ELSE "check") \in Stages /\ "metrics" \in Kinds
    BY DEF Stages, Kinds
  <2>3. Enter(r, "metrics", Items, IF force THEN "work" ELSE "check")
    BY <1>1 DEF ArriveMetrics
  <2>4. window' \in [Requests -> Window \union {NoWindow}]
    BY <1>1, <2>1, ReadWindowType DEF ArriveMetrics, TypeOK, AskedTypeOK
  <2>5. overwrite' \in [Requests -> BOOLEAN]
    BY <1>1 DEF ArriveMetrics, TypeOK, AskedTypeOK
  <2>. QED
    BY <2>2, <2>3, <2>4, <2>5, EnterType DEF TypeOK, AskedTypeOK
<1>2. CASE ArriveLogs(r) \/ ArriveTsdb(r) \/ ArriveRoles(r) \/ ArriveSingle(r)
  <2>1. \E k \in Kinds, items \in SUBSET Items, stage \in Stages : Enter(r, k, items, stage)
    <3>1. 1 \in Items
      BY ExportsAssumption DEF Items
    <3>. QED
      BY <1>2, <3>1
      DEF ArriveLogs, ArriveTsdb, ArriveRoles, ArriveSingle, Kinds, Singles, Stages
  <2>2. UNCHANGED <<overwrite, window>>
    BY <1>2 DEF ArriveLogs, ArriveTsdb, ArriveRoles, ArriveSingle
  <2>. QED
    BY <2>1, <2>2, EnterType DEF TypeOK, AskedTypeOK
<1>. QED
  BY <1>1, <1>2

LEMMA CheckType ==
  ASSUME TypeOK, CheckInv, NEW r \in Requests, CheckKey(r) \/ CheckFails(r)
  PROVE  TypeOK'
<1>w. WorldTypeOK'
  BY DEF CheckKey, CheckFails, TypeOK, WorldTypeOK, windowVars, worldVars
<1>b. /\ startTime \in Times /\ endTime \in Times
  BY DEF CheckKey, CheckFails, CheckInv
<1>1. CASE CheckFails(r)
  <2>1. LoopTypeOK'
    BY <1>1, BreakOffType DEF CheckFails, TypeOK, Answers
  <2>2. AskedTypeOK'
    BY <1>1 DEF CheckFails, TypeOK, AskedTypeOK, askedVars
  <2>. QED
    BY <1>w, <2>1, <2>2 DEF TypeOK
<1>2. CASE CheckKey(r)
  <2>1. PICK i \in Items : First(todo[r], i) /\
          LET exists == \E o \in s3 : o.kind = "metrics" /\ o.item = i
              found  == present[r] \union (IF exists THEN {i} ELSE {})
          IN  \/ /\ todo[r] # {i}
                 /\ todo' = [todo EXCEPT ![r] = @ \ {i}]
                 /\ present' = [present EXCEPT ![r] = found]
                 /\ UNCHANGED <<pc, answer, expected, got, stored, failed, window, disturbed>>
              \/ /\ todo[r] = {i}
                 /\ present' = [present EXCEPT ![r] = {}]
                 /\ disturbed' = disturbed \ {r}
                 /\ IF found # {}
                      THEN BreakOff(r, "refused") /\ UNCHANGED window
                      ELSE /\ Goto(r, "work")
                           /\ todo' = [todo EXCEPT ![r] = Items]
                           /\ ReadWindow(r)
                           /\ UNCHANGED <<expected, got, stored, failed>>
    BY <1>2 DEF CheckKey
  <2>2. /\ kind' = kind /\ overwrite' = overwrite /\ earlier' = earlier
    BY <1>2 DEF CheckKey, askedVars
  <2>3. CASE todo[r] # {i}
    <3>1. LoopTypeOK'
      BY <2>1, <2>3 DEF TypeOK, LoopTypeOK
    <3>2. AskedTypeOK'
      BY <2>1, <2>2, <2>3 DEF TypeOK, AskedTypeOK
    <3>. QED
      BY <1>w, <3>1, <3>2 DEF TypeOK
  <2>4. CASE todo[r] = {i} /\ BreakOff(r, "refused") /\ UNCHANGED window
    <3>1. LoopTypeOK'
      BY <2>4, BreakOffType DEF TypeOK, Answers
    <3>2. AskedTypeOK'
      BY <2>1, <2>2, <2>4 DEF TypeOK, AskedTypeOK
    <3>. QED
      BY <1>w, <3>1, <3>2 DEF TypeOK
  <2>5. CASE /\ todo[r] = {i} /\ Goto(r, "work") /\ ReadWindow(r)
             /\ todo' = [todo EXCEPT ![r] = Items]
             /\ UNCHANGED <<expected, got, stored, failed>>
    <3>1. LoopTypeOK'
      BY <2>5 DEF TypeOK, LoopTypeOK, Goto, Stages
    <3>2. window' \in [Requests -> Window \union {NoWindow}]
      BY <1>b, <2>5, ReadWindowType
    <3>3. AskedTypeOK'
      BY <2>1, <2>2, <2>5, <3>2 DEF TypeOK, AskedTypeOK
    <3>. QED
      BY <1>w, <3>1, <3>3 DEF TypeOK
  <2>. QED
    BY <2>1, <2>3, <2>4, <2>5
<1>. QED
  BY <1>1, <1>2

LEMMA CollectType ==
  ASSUME TypeOK, NEW r \in Requests,
         \/ Discover(r) \/ DiscoverFails(r) \/ TriggerSnapshot(r) \/ TriggerFails(r)
         \/ CopySucceeds(r) \/ CopyFails(r) \/ CopyTimesOut(r)
  PROVE  TypeOK'
<1>1. AskedTypeOK'
  BY DEF Discover, DiscoverFails, TriggerSnapshot, TriggerFails, CopySucceeds, CopyFails,
         CopyTimesOut, TypeOK, AskedTypeOK, askedVars
<1>2. WorldTypeOK'
  BY DEF Discover, DiscoverFails, TriggerSnapshot, TriggerFails, CopySucceeds, CopyFails,
         CopyTimesOut, TypeOK, WorldTypeOK, windowVars, worldVars
<1>3. CASE Discover(r)
  BY <1>1, <1>2, <1>3
  DEF Discover, Expect, Reply, Goto, TypeOK, LoopTypeOK, Stages, Answers
<1>4. CASE TriggerSnapshot(r) \/ CopySucceeds(r)
  BY <1>1, <1>2, <1>4
  DEF TriggerSnapshot, CopySucceeds, Goto, TypeOK, LoopTypeOK, Stages, loopVars
<1>5. CASE DiscoverFails(r) \/ TriggerFails(r) \/ CopyFails(r) \/ CopyTimesOut(r)
  <2>1. BreakOff(r, "error") \/ BreakOff(r, "timeout")
    BY <1>5 DEF DiscoverFails, TriggerFails, CopyFails, CopyTimesOut
  <2>. QED
    BY <1>1, <1>2, <2>1, BreakOffType DEF TypeOK, Answers
<1>. QED
  BY <1>3, <1>4, <1>5

LEMMA LoopType ==
  ASSUME TypeOK, NEW r \in Requests,
         \/ Fetch(r) \/ FetchFails(r) \/ ReadFails(r) \/ FetchBreaks(r)
         \/ Put(r) \/ PutFails(r) \/ UploadFails(r)
  PROVE  TypeOK'
<1>1. AskedTypeOK'
  BY DEF Fetch, FetchFails, ReadFails, FetchBreaks, Put, PutFails, UploadFails, TypeOK,
         AskedTypeOK, askedVars
<1>2. s3' \subseteq Object
  <2>1. s3' = s3 \/ \E i \in Items : Write(r, i)
    BY DEF Fetch, FetchFails, ReadFails, FetchBreaks, Put, PutFails, UploadFails, worldVars
  <2>. QED
    BY <2>1, WriteType DEF TypeOK, WorldTypeOK
<1>3. WorldTypeOK'
  BY <1>2 DEF Fetch, FetchFails, ReadFails, FetchBreaks, Put, PutFails, UploadFails, TypeOK,
         WorldTypeOK, worldVars, windowVars
<1>4. CASE ReadFails(r) \/ FetchBreaks(r) \/ UploadFails(r)
  <2>1. BreakOff(r, "error")
    BY <1>4 DEF ReadFails, FetchBreaks, UploadFails
  <2>. QED
    BY <1>1, <1>3, <2>1, BreakOffType DEF TypeOK, Answers
<1>5. CASE Fetch(r) \/ FetchFails(r) \/ Put(r) \/ PutFails(r)
  <2>1. \E left, kept, done, lost \in SUBSET Items : Proceed(r, left, kept, done, lost)
    <3>1. /\ todo[r] \in SUBSET Items /\ got[r] \in SUBSET Items
          /\ stored[r] \in SUBSET Items /\ failed[r] \in SUBSET Items
      BY DEF TypeOK, LoopTypeOK
    <3>2. \E i \in Items :
            \/ Proceed(r, todo[r] \ {i}, got[r] \union {i}, stored[r], failed[r])
            \/ Proceed(r, todo[r] \ {i}, got[r], stored[r], failed[r] \union {i})
            \/ Proceed(r, todo[r], got[r] \ {i}, stored[r] \union {i}, failed[r])
            \/ Proceed(r, todo[r], got[r] \ {i}, stored[r], failed[r] \union {i})
      BY <1>5 DEF Fetch, FetchFails, Put, PutFails
    <3>3. PICK i \in Items :
            \/ Proceed(r, todo[r] \ {i}, got[r] \union {i}, stored[r], failed[r])
            \/ Proceed(r, todo[r] \ {i}, got[r], stored[r], failed[r] \union {i})
            \/ Proceed(r, todo[r], got[r] \ {i}, stored[r] \union {i}, failed[r])
            \/ Proceed(r, todo[r], got[r] \ {i}, stored[r], failed[r] \union {i})
      BY <3>2
    <3>4. /\ todo[r] \ {i} \in SUBSET Items /\ got[r] \ {i} \in SUBSET Items
          /\ got[r] \union {i} \in SUBSET Items
          /\ stored[r] \union {i} \in SUBSET Items
          /\ failed[r] \union {i} \in SUBSET Items
      BY <3>1
    <3>. QED
      BY <3>1, <3>3, <3>4
  <2>. QED
    BY <1>1, <1>3, <2>1, ProceedType DEF TypeOK
<1>. QED
  BY <1>4, <1>5

LEMMA WindowType ==
  ASSUME WorldTypeOK, InitializeCompletes \/ StartConfirmed \/ VerdictReached \/ RunnerRestarts
  PROVE  /\ phase' \in Phases
         /\ startTime' \in Times \union {NoTime}
         /\ endTime' \in Times \union {NoTime}
BY DEF WorldTypeOK, InitializeCompletes, StartConfirmed, VerdictReached, RunnerRestarts, Phases

LEMMA WorldType ==
  ASSUME TypeOK, TrialMoves \/ Restart \/ \E r \in Requests : OrphanCopies(r)
  PROVE  TypeOK'
<1>1. CASE TrialMoves
  <2>1. WorldTypeOK'
    BY <1>1, WindowType DEF TrialMoves, TypeOK, WorldTypeOK, worldVars
  <2>2. AskedTypeOK' /\ LoopTypeOK'
    BY <1>1 DEF TrialMoves, TypeOK, AskedTypeOK, LoopTypeOK, askedVars, loopVars
  <2>. QED
    BY <2>1, <2>2 DEF TypeOK
<1>2. CASE Restart
  <2>1. WorldTypeOK'
    BY <1>2, WindowType DEF Restart, TypeOK, WorldTypeOK, worldVars
  <2>2. AskedTypeOK'
    BY <1>2 DEF Restart, TypeOK, AskedTypeOK, askedVars
  <2>3. LoopTypeOK'
    BY <1>2 DEF Restart, TypeOK, LoopTypeOK, Stages, Answers
  <2>. QED
    BY <2>1, <2>2, <2>3 DEF TypeOK
<1>3. ASSUME NEW r \in Requests, OrphanCopies(r) PROVE TypeOK'
  BY <1>3
  DEF OrphanCopies, TypeOK, WorldTypeOK, AskedTypeOK, LoopTypeOK, windowVars, askedVars, loopVars
<1>. QED
  BY <1>1, <1>2, <1>3

LEMMA NextType == ASSUME TypeOK, CheckInv, [Next]_vars PROVE TypeOK'
<1>1. CASE UNCHANGED vars
  BY <1>1 DEF vars, TypeOK, WorldTypeOK, AskedTypeOK, LoopTypeOK, windowVars, worldVars,
              askedVars, loopVars
<1>2. CASE Next
  BY <1>2, ArriveType, CheckType, CollectType, LoopType, WorldType
  DEF Next, RequestNext, LoopStep
<1>. QED
  BY <1>1, <1>2

\* The steps of a request that has arrived leave the trial alone, start no
\* check, and forget what disturbed one only when it ends.
LEMMA WorkKeepsCheck ==
  ASSUME TypeOK, CheckInv, NEW r \in Requests,
         \/ LoopStep(r) \/ Discover(r) \/ DiscoverFails(r) \/ TriggerSnapshot(r)
         \/ TriggerFails(r) \/ CopySucceeds(r) \/ CopyFails(r) \/ CopyTimesOut(r)
         \/ OrphanCopies(r)
  PROVE  CheckInv'
<1>1. startTime' = startTime /\ endTime' = endTime /\ phase' = phase
  BY DEF LoopStep, CheckKey, CheckFails, Fetch, FetchFails, ReadFails, FetchBreaks, Put, PutFails,
         UploadFails, Discover, DiscoverFails, TriggerSnapshot, TriggerFails, CopySucceeds,
         CopyFails, CopyTimesOut, OrphanCopies, windowVars
<1>2. \A q \in Requests : pc'[q] = "check" => pc[q] = "check" /\ (q \in disturbed => q \in disturbed')
  <2>1. CASE CheckKey(r) \/ CheckFails(r)
    BY <2>1 DEF CheckKey, CheckFails, BreakOff, Reply, Goto, TypeOK, LoopTypeOK
  <2>2. CASE \/ Fetch(r) \/ FetchFails(r) \/ ReadFails(r) \/ FetchBreaks(r)
             \/ Put(r) \/ PutFails(r) \/ UploadFails(r)
    <3>1. disturbed' = disturbed
      BY <2>2 DEF Fetch, FetchFails, ReadFails, FetchBreaks, Put, PutFails, UploadFails
    <3>2. pc' = pc \/ pc' = [pc EXCEPT ![r] = "done"]
      BY <2>2 DEF Fetch, FetchFails, ReadFails, FetchBreaks, Put, PutFails, UploadFails,
                  Proceed, BreakOff, Reply
    <3>. QED
      BY <3>1, <3>2 DEF TypeOK, LoopTypeOK
  <2>3. CASE \/ Discover(r) \/ DiscoverFails(r) \/ TriggerSnapshot(r) \/ TriggerFails(r)
             \/ CopySucceeds(r) \/ CopyFails(r) \/ CopyTimesOut(r) \/ OrphanCopies(r)
    BY <2>3 DEF Discover, DiscoverFails, TriggerSnapshot, TriggerFails, CopySucceeds, CopyFails,
                CopyTimesOut, OrphanCopies, BreakOff, Reply, Goto, TypeOK, LoopTypeOK
  <2>. QED
    BY <2>1, <2>2, <2>3 DEF LoopStep
<1>. QED
  BY <1>1, <1>2 DEF CheckInv, At

LEMMA NextCheck == ASSUME TypeOK, CheckInv, [Next]_vars PROVE CheckInv'
<1>1. CASE UNCHANGED vars
  BY <1>1 DEF vars, CheckInv, At, windowVars
<1>2. ASSUME NEW r \in Requests, NEW force \in BOOLEAN, ArriveMetrics(r, force) PROVE CheckInv'
  <2>1. /\ startTime' = startTime /\ endTime' = endTime /\ phase' = phase
        /\ phase = "ended" /\ disturbed' = disturbed
    BY <1>2 DEF ArriveMetrics, Enter, Admitted, NeedsVerdict, windowVars
  <2>2. startTime \in Times /\ endTime \in Times
    BY <1>2 DEF ArriveMetrics, TypeOK, WorldTypeOK
  <2>. QED
    BY <2>1, <2>2 DEF CheckInv
<1>3. ASSUME NEW r \in Requests,
             ArriveLogs(r) \/ ArriveTsdb(r) \/ ArriveRoles(r) \/ ArriveSingle(r)
      PROVE  CheckInv'
  <2>1. /\ startTime' = startTime /\ endTime' = endTime /\ phase' = phase
        /\ disturbed' = disturbed
    BY <1>3 DEF ArriveLogs, ArriveTsdb, ArriveRoles, ArriveSingle, Enter, windowVars
  <2>2. \A q \in Requests : pc'[q] = "check" => pc[q] = "check"
    BY <1>3 DEF ArriveLogs, ArriveTsdb, ArriveRoles, ArriveSingle, Enter, Goto, TypeOK, LoopTypeOK
  <2>. QED
    BY <2>1, <2>2 DEF CheckInv, At
<1>4. CASE TrialMoves
  BY <1>4 DEF TrialMoves, InitializeCompletes, StartConfirmed, VerdictReached, CheckInv, At,
              TypeOK, WorldTypeOK
<1>5. CASE Restart
  BY <1>5 DEF Restart, CheckInv, At, TypeOK, LoopTypeOK
<1>. QED
  BY <1>1, <1>2, <1>3, <1>4, <1>5, WorkKeepsCheck DEF Next, RequestNext

\* Every variable keeps to its type, and a request that is checking its keys
\* still has both bounds to query with.
THEOREM TypeCorrect == Spec => [](TypeOK /\ CheckInv)
<1>1. TypeOK /\ CheckInv /\ [Next]_vars => (TypeOK /\ CheckInv)'
  BY NextType, NextCheck
<1>. QED
  BY <1>1, InitType, PTL DEF Spec

---------------------------------------------------------------------------
(* The window *)

\* The one step that reads a window on arrival finds the trial ended; the one
\* after the check finds both bounds, and the trial ended unless disturbed.
LEMMA NextWindow ==
  ASSUME TypeOK, CheckInv, [Next]_vars, NEW q \in Requests, window'[q] # window[q]
  PROVE  /\ window'[q] \in Window
         /\ phase = "ended" \/ q \in disturbed
<1>1. ASSUME NEW r \in Requests, CheckKey(r) PROVE
        /\ window'[q] \in Window
        /\ phase = "ended" \/ q \in disturbed
  <2>1. ReadWindow(r) /\ startTime \in Times /\ endTime \in Times
    BY <1>1 DEF CheckKey, CheckInv
  <2>2. q = r
    BY <2>1 DEF ReadWindow, TypeOK, AskedTypeOK
  <2>. QED
    BY <1>1, <2>1, <2>2, ReadWindowType DEF CheckKey, CheckInv
<1>2. ASSUME NEW r \in Requests, NEW force \in BOOLEAN, ArriveMetrics(r, force) PROVE
        window'[q] \in Window /\ phase = "ended"
  <2>1. ReadWindow(r) /\ startTime \in Times /\ endTime \in Times
    BY <1>2 DEF ArriveMetrics, TypeOK, WorldTypeOK
  <2>2. q = r
    BY <2>1 DEF ReadWindow, TypeOK, AskedTypeOK
  <2>3. phase = "ended"
    BY <1>2 DEF ArriveMetrics, Enter, Admitted, NeedsVerdict
  <2>. QED
    BY <2>1, <2>2, <2>3, ReadWindowType
<1>3. ASSUME NEW r \in Requests,
             \/ ArriveLogs(r) \/ ArriveTsdb(r) \/ ArriveRoles(r) \/ ArriveSingle(r)
             \/ CheckFails(r) \/ Fetch(r) \/ FetchFails(r) \/ ReadFails(r) \/ FetchBreaks(r)
             \/ Put(r) \/ PutFails(r) \/ UploadFails(r)
             \/ Discover(r) \/ DiscoverFails(r) \/ TriggerSnapshot(r) \/ TriggerFails(r)
             \/ CopySucceeds(r) \/ CopyFails(r) \/ CopyTimesOut(r) \/ OrphanCopies(r)
      PROVE  window' = window
  BY <1>3 DEF ArriveLogs, ArriveTsdb, ArriveRoles, ArriveSingle, CheckFails, Fetch, FetchFails,
              ReadFails, FetchBreaks, Put, PutFails, UploadFails, Discover, DiscoverFails,
              TriggerSnapshot, TriggerFails, CopySucceeds, CopyFails, CopyTimesOut, OrphanCopies
<1>4. TrialMoves \/ Restart \/ UNCHANGED vars => window' = window
  BY DEF TrialMoves, Restart, vars
<1>. QED
  BY <1>1, <1>2, <1>3, <1>4 DEF Next, RequestNext, LoopStep

\* What /metrics/export queries Prometheus with has both bounds, and is the
\* window of a trial that has ended unless the trial moved on during the check
\* of the keys, although the bounds are read again after it.
THEOREM WindowCorrect == Spec => WindowStands
<1>1. TypeOK /\ CheckInv /\ [Next]_vars =>
        [\A r \in Requests : window'[r] # window[r] =>
           /\ window'[r] \in Window
           /\ phase = "ended" \/ r \in disturbed]_vars
  BY NextWindow
<1>. QED
  BY <1>1, TypeCorrect, PTL DEF Spec, WindowStands

---------------------------------------------------------------------------
(* A step of one request leaves the others alone *)

LEMMA ArriveFrame ==
  ASSUME TypeOK, NEW r \in Requests, NEW q \in Requests, q # r,
         \/ \E force \in BOOLEAN : ArriveMetrics(r, force)
         \/ ArriveLogs(r) \/ ArriveTsdb(r) \/ ArriveRoles(r) \/ ArriveSingle(r)
  PROVE  /\ pc'[q] = pc[q] /\ answer'[q] = answer[q] /\ earlier'[q] = earlier[q]
         /\ kind'[q] = kind[q] /\ overwrite'[q] = overwrite[q]
         /\ expected'[q] = expected[q] /\ todo'[q] = todo[q]
<1>1. \E k \in Kinds, items \in SUBSET Items, stage \in Stages : Enter(r, k, items, stage)
  <2>1. 1 \in Items
    BY ExportsAssumption DEF Items
  <2>. QED
    BY <2>1 DEF ArriveMetrics, ArriveLogs, ArriveTsdb, ArriveRoles, ArriveSingle, Kinds, Singles,
                Stages
<1>2. /\ pc'[q] = pc[q] /\ answer'[q] = answer[q] /\ earlier'[q] = earlier[q]
      /\ kind'[q] = kind[q] /\ expected'[q] = expected[q] /\ todo'[q] = todo[q]
  BY <1>1 DEF Enter, Expect, Goto, TypeOK, AskedTypeOK, LoopTypeOK
<1>3. overwrite'[q] = overwrite[q]
  BY DEF ArriveMetrics, ArriveLogs, ArriveTsdb, ArriveRoles, ArriveSingle, TypeOK, AskedTypeOK
<1>. QED
  BY <1>2, <1>3

LEMMA WorkFrame ==
  ASSUME TypeOK, NEW r \in Requests, NEW q \in Requests, q # r,
         \/ LoopStep(r) \/ Discover(r) \/ DiscoverFails(r) \/ TriggerSnapshot(r)
         \/ TriggerFails(r) \/ CopySucceeds(r) \/ CopyFails(r) \/ CopyTimesOut(r)
         \/ OrphanCopies(r)
  PROVE  /\ pc'[q] = pc[q] /\ answer'[q] = answer[q]
         /\ kind' = kind /\ overwrite' = overwrite /\ earlier' = earlier
         /\ expected'[q] = expected[q] /\ todo'[q] = todo[q] /\ got'[q] = got[q]
         /\ stored'[q] = stored[q] /\ failed'[q] = failed[q] /\ present'[q] = present[q]
         /\ q \in tempdir' <=> q \in tempdir
         /\ q \in copying' <=> q \in copying
<1>1. kind' = kind /\ overwrite' = overwrite /\ earlier' = earlier
  BY DEF LoopStep, CheckKey, CheckFails, Fetch, FetchFails, ReadFails, FetchBreaks, Put, PutFails,
         UploadFails, Discover, DiscoverFails, TriggerSnapshot, TriggerFails, CopySucceeds,
         CopyFails, CopyTimesOut, OrphanCopies, askedVars
<1>2. (q \in tempdir' <=> q \in tempdir) /\ (q \in copying' <=> q \in copying)
  BY DEF LoopStep, CheckKey, CheckFails, Fetch, FetchFails, ReadFails, FetchBreaks, Put, PutFails,
         UploadFails, Discover, DiscoverFails, TriggerSnapshot, TriggerFails, CopySucceeds,
         CopyFails, CopyTimesOut, OrphanCopies, worldVars
<1>3. present'[q] = present[q]
  BY DEF LoopStep, CheckKey, CheckFails, Fetch, FetchFails, ReadFails, FetchBreaks, Put, PutFails,
         UploadFails, Discover, DiscoverFails, TriggerSnapshot, TriggerFails, CopySucceeds,
         CopyFails, CopyTimesOut, OrphanCopies, TypeOK, AskedTypeOK
<1>4. /\ pc'[q] = pc[q] /\ answer'[q] = answer[q]
      /\ expected'[q] = expected[q] /\ todo'[q] = todo[q] /\ got'[q] = got[q]
      /\ stored'[q] = stored[q] /\ failed'[q] = failed[q]
  <2>1. CASE CheckKey(r) \/ CheckFails(r)
    BY <2>1 DEF CheckKey, CheckFails, BreakOff, Reply, Goto, TypeOK, LoopTypeOK, loopVars
  <2>2. CASE ReadFails(r) \/ FetchBreaks(r) \/ UploadFails(r)
    BY <2>2 DEF ReadFails, FetchBreaks, UploadFails, BreakOff, Reply, TypeOK, LoopTypeOK
  <2>3. CASE Fetch(r) \/ FetchFails(r) \/ Put(r) \/ PutFails(r)
    BY <2>3 DEF Fetch, FetchFails, Put, PutFails, Proceed, Reply, TypeOK, LoopTypeOK
  <2>4. CASE \/ Discover(r) \/ DiscoverFails(r) \/ TriggerSnapshot(r) \/ TriggerFails(r)
             \/ CopySucceeds(r) \/ CopyFails(r) \/ CopyTimesOut(r) \/ OrphanCopies(r)
    BY <2>4 DEF Discover, DiscoverFails, TriggerSnapshot, TriggerFails, CopySucceeds, CopyFails,
                CopyTimesOut, OrphanCopies, Expect, BreakOff, Reply, Goto, TypeOK, LoopTypeOK,
                loopVars
  <2>. QED
    BY <2>1, <2>2, <2>3, <2>4 DEF LoopStep
<1>. QED
  BY <1>1, <1>2, <1>3, <1>4

---------------------------------------------------------------------------
(* The directories *)

\* A kubectl cp that runs beside no request is one of a request that timed out
\* or was lost, and a request has an answer only at its end: so no later step
\* of the request can hide whose directory it is.
DirOf(r) ==
  /\ At(r, {"trigger", "copy"}) => kind[r] = "tsdb"
  /\ ~At(r, {"done"}) => answer[r] = "none"
  /\ r \in tempdir =>
       kind[r] = "tsdb" /\ (At(r, {"copy", "work"}) \/ answer[r] \in {"timeout", "lost"})
  /\ r \in copying =>
       kind[r] = "tsdb" /\ (At(r, {"copy"}) \/ answer[r] \in {"timeout", "lost"})

DirInv == \A r \in Requests : DirOf(r)

LEMMA ArriveDir ==
  ASSUME TypeOK, NEW r \in Requests, DirOf(r),
         \/ \E force \in BOOLEAN : ArriveMetrics(r, force)
         \/ ArriveLogs(r) \/ ArriveTsdb(r) \/ ArriveRoles(r) \/ ArriveSingle(r)
  PROVE  DirOf(r)'
<1>1. \E k \in Kinds, items \in SUBSET Items, stage \in Stages :
        /\ Enter(r, k, items, stage)
        /\ stage \in {"trigger", "copy"} => k = "tsdb"
        /\ stage # "done"
  <2>1. 1 \in Items
    BY ExportsAssumption DEF Items
  <2>. QED
    BY <2>1 DEF ArriveMetrics, ArriveLogs, ArriveTsdb, ArriveRoles, ArriveSingle, Kinds, Singles,
                Stages
<1>2. pc[r] = "idle" /\ answer' = answer /\ tempdir' = tempdir /\ copying' = copying
  BY <1>1 DEF Enter, Goto, At, worldVars
<1>3. (pc'[r] \in {"trigger", "copy"} => kind'[r] = "tsdb") /\ pc'[r] # "done"
  BY <1>1 DEF Enter, Goto, TypeOK, AskedTypeOK, LoopTypeOK
<1>4. r \notin tempdir /\ r \notin copying /\ answer[r] = "none"
  BY <1>2 DEF DirOf, At
<1>. QED
  BY <1>2, <1>3, <1>4 DEF DirOf, At

LEMMA LoopDir ==
  ASSUME TypeOK, NEW r \in Requests, DirOf(r), LoopStep(r)
  PROVE  DirOf(r)'
<1>1. kind' = kind /\ copying' = copying
  BY DEF LoopStep, CheckKey, CheckFails, Fetch, FetchFails, ReadFails, FetchBreaks, Put, PutFails,
         UploadFails, askedVars, worldVars
<1>2. pc[r] \in {"check", "work"} /\ answer[r] = "none" /\ r \notin copying
  BY DEF LoopStep, CheckKey, CheckFails, Fetch, FetchFails, ReadFails, FetchBreaks, Put, PutFails,
         UploadFails, Fetching, Putting, At, DirOf
<1>3. pc'[r] \in {"check", "work", "done"} /\ (pc'[r] # "done" => answer'[r] = "none")
  BY <1>2 DEF LoopStep, CheckKey, CheckFails, Fetch, FetchFails, ReadFails, FetchBreaks, Put,
              PutFails, UploadFails, Proceed, BreakOff, Reply, Goto, TypeOK, LoopTypeOK
<1>4. r \in tempdir' => r \in tempdir /\ pc'[r] = "work"
  <2>1. CASE CheckKey(r) \/ CheckFails(r)
    <3>1. r \notin tempdir
      BY <1>2, <2>1 DEF CheckKey, CheckFails, At, DirOf
    <3>. QED
      BY <2>1, <3>1 DEF CheckKey, CheckFails, worldVars
  <2>2. CASE FetchFails(r) \/ ReadFails(r) \/ FetchBreaks(r) \/ PutFails(r)
    <3>1. kind[r] # "tsdb"
      BY <2>2 DEF FetchFails, ReadFails, FetchBreaks, PutFails, BestEffort, Singles, Fragile
    <3>. QED
      BY <2>2, <3>1 DEF FetchFails, ReadFails, FetchBreaks, PutFails, worldVars, DirOf
  <2>3. CASE Fetch(r)
    <3>1. pc' = pc /\ tempdir' = tempdir
      BY <2>3 DEF Fetch, Proceed, worldVars
    <3>. QED
      BY <3>1, <2>3 DEF Fetch, Fetching, At
  <2>4. CASE Put(r)
    BY <1>3, <2>4 DEF Put, Putting, At, Proceed, Reply, TypeOK, LoopTypeOK
  <2>5. CASE UploadFails(r)
    BY <2>5 DEF UploadFails
  <2>. QED
    BY <2>1, <2>2, <2>3, <2>4, <2>5 DEF LoopStep
<1>. QED
  BY <1>1, <1>2, <1>3, <1>4 DEF DirOf, At

LEMMA CollectDir ==
  ASSUME TypeOK, NEW r \in Requests, DirOf(r),
         \/ Discover(r) \/ DiscoverFails(r) \/ TriggerSnapshot(r) \/ TriggerFails(r)
         \/ CopySucceeds(r) \/ CopyFails(r) \/ CopyTimesOut(r) \/ OrphanCopies(r)
  PROVE  DirOf(r)'
<1>1. CASE Discover(r) \/ DiscoverFails(r) \/ TriggerFails(r)
  BY <1>1 DEF Discover, DiscoverFails, TriggerFails, BreakOff, Reply, Goto, At, TypeOK, LoopTypeOK,
              worldVars, askedVars, DirOf
<1>2. CASE TriggerSnapshot(r) \/ CopySucceeds(r)
  BY <1>2 DEF TriggerSnapshot, CopySucceeds, Goto, At, TypeOK, LoopTypeOK, askedVars, DirOf
<1>3. CASE CopyFails(r)
  BY <1>3 DEF CopyFails, BreakOff, Reply, At, TypeOK, LoopTypeOK, askedVars, DirOf
<1>4. CASE CopyTimesOut(r)
  BY <1>4 DEF CopyTimesOut, BreakOff, Reply, At, TypeOK, LoopTypeOK, askedVars, DirOf
<1>5. CASE OrphanCopies(r)
  BY <1>5 DEF OrphanCopies, At, askedVars, DirOf
<1>. QED
  BY <1>1, <1>2, <1>3, <1>4, <1>5

LEMMA NextDir == ASSUME TypeOK, DirInv, [Next]_vars PROVE DirInv'
<1>1. CASE UNCHANGED vars
  BY <1>1 DEF vars, worldVars, askedVars, DirInv, DirOf, At
<1>2. CASE TrialMoves
  BY <1>2 DEF TrialMoves, worldVars, askedVars, DirInv, DirOf, At
<1>3. CASE Restart
  BY <1>3 DEF Restart, worldVars, askedVars, DirInv, DirOf, At, TypeOK, LoopTypeOK
<1>4. ASSUME NEW r \in Requests, RequestNext(r), NEW q \in Requests PROVE DirOf(q)'
  <2>0. DirOf(q) /\ DirOf(r)
    BY DEF DirInv
  <2>1. CASE q = r
    BY <1>4, <2>0, <2>1, ArriveDir, LoopDir, CollectDir DEF RequestNext
  <2>2. CASE /\ q # r
             /\ \/ \E force \in BOOLEAN : ArriveMetrics(r, force)
                \/ ArriveLogs(r) \/ ArriveTsdb(r) \/ ArriveRoles(r) \/ ArriveSingle(r)
    <3>1. pc'[q] = pc[q] /\ answer'[q] = answer[q] /\ kind'[q] = kind[q]
      BY <2>2, ArriveFrame
    <3>2. tempdir' = tempdir /\ copying' = copying
      BY <2>2 DEF ArriveMetrics, ArriveLogs, ArriveTsdb, ArriveRoles, ArriveSingle, Enter,
                  worldVars
    <3>. QED
      BY <2>0, <3>1, <3>2 DEF DirOf, At
  <2>3. CASE /\ q # r
             /\ \/ LoopStep(r) \/ Discover(r) \/ DiscoverFails(r) \/ TriggerSnapshot(r)
                \/ TriggerFails(r) \/ CopySucceeds(r) \/ CopyFails(r) \/ CopyTimesOut(r)
                \/ OrphanCopies(r)
    <3>1. /\ pc'[q] = pc[q] /\ answer'[q] = answer[q] /\ kind' = kind
          /\ q \in tempdir' <=> q \in tempdir
          /\ q \in copying' <=> q \in copying
      BY <2>3, WorkFrame
    <3>. QED
      BY <2>0, <3>1 DEF DirOf, At
  <2>. QED
    BY <1>4, <2>1, <2>2, <2>3 DEF RequestNext
<1>. QED
  BY <1>1, <1>2, <1>3, <1>4 DEF Next, DirInv

\* A directory with a copy of the TSDB that outlives its request is of a Runner
\* that died or of a kubectl cp that outlived its timeout.
THEOREM TempDirSafe == Spec => []TempDirBelongs
<1>1. Init => DirInv
  BY DEF Init, DirInv, DirOf, At
<1>2. TypeOK /\ DirInv /\ [Next]_vars => DirInv'
  BY NextDir
<1>3. TypeOK /\ DirInv => TempDirBelongs
  BY DEF TypeOK, WorldTypeOK, DirInv, DirOf, TempDirBelongs
<1>. QED
  BY <1>1, <1>2, <1>3, TypeCorrect, PTL DEF Spec

---------------------------------------------------------------------------
(* One author *)

\* Only requests that were over when one arrived are earlier than it: one that
\* still writes is earlier than none.
EarlierDone == \A r \in Requests : \A q \in earlier[r] : q \in Requests /\ At(q, {"done"})

\* An object has an author that arrived, and was asked for objects of its kind.
AuthorKnown == \A o \in s3 : ~At(o.by, {"idle"}) /\ kind[o.by] = o.kind

\* The metrics under the keys that were found free, and under all keys once the
\* check is over, are of no earlier request.
CheckedKeys(r) ==
  /\ At(r, {"check"}) =>
       /\ kind[r] = "metrics"
       /\ present[r] = {} =>
            \A o \in s3 : o.kind = "metrics" /\ o.item \notin todo[r] => o.by \notin earlier[r]
  /\ At(r, {"discover", "trigger", "copy"}) => kind[r] # "metrics"
  /\ At(r, {"work"}) /\ kind[r] = "metrics" /\ ~overwrite[r] =>
       \A o \in s3 : o.kind = "metrics" => o.by \notin earlier[r]

AuthorInv ==
  /\ EarlierDone
  /\ AuthorKnown
  /\ \A r \in Requests : CheckedKeys(r)
  /\ OneAuthor

LEMMA ArriveEffect ==
  ASSUME TypeOK, NEW r \in Requests,
         \/ \E force \in BOOLEAN : ArriveMetrics(r, force)
         \/ ArriveLogs(r) \/ ArriveTsdb(r) \/ ArriveRoles(r) \/ ArriveSingle(r)
  PROVE  /\ s3' = s3 /\ pc[r] = "idle" /\ answer' = answer
         /\ got' = got /\ stored' = stored /\ failed' = failed /\ present' = present
         /\ earlier'[r] = {q \in Requests : pc[q] = "done"}
         /\ \/ /\ pc'[r] = "check" /\ kind'[r] = "metrics"
               /\ expected'[r] = Items /\ todo'[r] = Items
            \/ pc'[r] = "work" /\ (kind'[r] = "metrics" => overwrite'[r])
                               /\ expected'[r] = todo'[r]
            \/ pc'[r] = "discover" /\ kind'[r] = "logs" /\ expected'[r] = {} /\ todo'[r] = {}
            \/ pc'[r] = "trigger" /\ kind'[r] = "tsdb" /\ expected'[r] = todo'[r]
<1>1. ASSUME NEW k \in Kinds, NEW items \in SUBSET Items, NEW stage \in Stages,
             Enter(r, k, items, stage)
      PROVE  /\ s3' = s3 /\ pc[r] = "idle" /\ answer' = answer
             /\ got' = got /\ stored' = stored /\ failed' = failed /\ present' = present
             /\ earlier'[r] = {q \in Requests : pc[q] = "done"}
             /\ pc'[r] = stage /\ kind'[r] = k /\ expected'[r] = items /\ todo'[r] = items
  BY <1>1 DEF Enter, Expect, Goto, At, worldVars, TypeOK, AskedTypeOK, LoopTypeOK
<1>2. ASSUME NEW force \in BOOLEAN, ArriveMetrics(r, force)
      PROVE  /\ Enter(r, "metrics", Items, IF force THEN "work" ELSE "check")
             /\ overwrite'[r] = force
  BY <1>2 DEF ArriveMetrics, TypeOK, AskedTypeOK
<1>3. \A force \in BOOLEAN : (IF force THEN "work" ELSE "check") \in Stages
  BY DEF Stages
<1>4. {1} \in SUBSET Items /\ {} \in SUBSET Items /\ Items \in SUBSET Items
  BY ExportsAssumption DEF Items
<1>5. /\ \A k \in {"metrics", "logs", "tsdb", "db", "output"} \union Singles : k \in Kinds
      /\ \A k \in {"db", "output"} \union Singles : k # "metrics"
      /\ {"discover", "trigger", "work"} \subseteq Stages
  BY DEF Kinds, Singles, Stages
<1>6. ASSUME NEW force \in BOOLEAN, ArriveMetrics(r, force)
      PROVE  /\ s3' = s3 /\ pc[r] = "idle" /\ answer' = answer
             /\ got' = got /\ stored' = stored /\ failed' = failed /\ present' = present
             /\ earlier'[r] = {q \in Requests : pc[q] = "done"}
             /\ kind'[r] = "metrics" /\ expected'[r] = Items /\ todo'[r] = Items
             /\ pc'[r] = "check" \/ (pc'[r] = "work" /\ overwrite'[r])
  <2>1. CASE force
    <3>1. Enter(r, "metrics", Items, "work") /\ "work" \in Stages /\ overwrite'[r]
      BY <1>2, <1>6, <2>1 DEF Stages
    <3>. QED
      BY <1>1, <1>4, <1>5, <3>1
  <2>2. CASE ~force
    <3>1. Enter(r, "metrics", Items, "check") /\ "check" \in Stages
      BY <1>2, <1>6, <2>2 DEF Stages
    <3>. QED
      BY <1>1, <1>4, <1>5, <3>1
  <2>. QED
    BY <2>1, <2>2
<1>7. CASE ArriveLogs(r)
  BY <1>1, <1>4, <1>5, <1>7 DEF ArriveLogs
<1>8. CASE ArriveTsdb(r)
  BY <1>1, <1>4, <1>5, <1>8 DEF ArriveTsdb
<1>9. CASE ArriveRoles(r) \/ ArriveSingle(r)
  <2>1. PICK k \in {"db", "output"} \union Singles, items \in {Items, {1}} : Enter(r, k, items, "work")
    BY <1>9 DEF ArriveRoles, ArriveSingle
  <2>. QED
    BY <1>1, <1>4, <1>5, <2>1
<1>. QED
  BY <1>6, <1>7, <1>8, <1>9

LEMMA ArriveAuthor ==
  ASSUME TypeOK, AuthorInv, NEW r \in Requests,
         \/ \E force \in BOOLEAN : ArriveMetrics(r, force)
         \/ ArriveLogs(r) \/ ArriveTsdb(r) \/ ArriveRoles(r) \/ ArriveSingle(r)
  PROVE  AuthorInv'
<1>1. /\ s3' = s3 /\ pc[r] = "idle" /\ present' = present
      /\ earlier'[r] = {q \in Requests : pc[q] = "done"}
      /\ pc'[r] # "idle" /\ pc'[r] # "done"
      /\ pc'[r] = "check" => kind'[r] = "metrics" /\ todo'[r] = Items
      /\ pc'[r] = "work" => (kind'[r] = "metrics" => overwrite'[r])
      /\ pc'[r] \in {"discover", "trigger", "copy"} => kind'[r] # "metrics"
  BY ArriveEffect
<1>2. \A q \in Requests : q # r =>
        /\ pc'[q] = pc[q] /\ earlier'[q] = earlier[q] /\ todo'[q] = todo[q]
        /\ kind'[q] = kind[q] /\ overwrite'[q] = overwrite[q]
  BY ArriveFrame
<1>3. EarlierDone'
  BY <1>1, <1>2 DEF AuthorInv, EarlierDone, At
<1>4. \A o \in s3 : o.by \in Requests /\ o.by # r /\ o.item \in Items
  BY <1>1 DEF AuthorInv, AuthorKnown, At, TypeOK, WorldTypeOK, Object
<1>5. AuthorKnown'
  BY <1>1, <1>2, <1>4 DEF AuthorInv, AuthorKnown, At
<1>6. OneAuthor'
  BY <1>1, <1>2, <1>4 DEF AuthorInv, OneAuthor, Overlapped
<1>7. CheckedKeys(r)'
  BY <1>1, <1>4 DEF CheckedKeys, At
<1>8. ASSUME NEW q \in Requests, q # r PROVE CheckedKeys(q)'
  BY <1>1, <1>2, <1>8 DEF AuthorInv, CheckedKeys, At
<1>. QED
  BY <1>3, <1>5, <1>6, <1>7, <1>8 DEF AuthorInv

\* A step that adds to S3 only what a request at work writes, and brings no
\* request to a check or past one.
LEMMA StepAuthor ==
  ASSUME TypeOK, AuthorInv,
         \A o \in s3' : o \in s3 \/ (o.by \in Requests /\ pc[o.by] = "work" /\ o.kind = kind[o.by]),
         UNCHANGED <<kind, overwrite, earlier>>,
         \A q \in Requests :
           /\ pc[q] # "idle" => pc'[q] # "idle"
           /\ pc[q] = "done" => pc'[q] = "done"
           /\ pc'[q] = "check" =>
                pc[q] = "check" /\ todo'[q] = todo[q] /\ present'[q] = present[q]
           /\ pc'[q] \in {"discover", "trigger", "copy"} => kind[q] # "metrics"
           /\ pc'[q] = "work" /\ kind[q] = "metrics" => pc[q] = "work"
  PROVE  AuthorInv'
<1>1. EarlierDone'
  BY DEF AuthorInv, EarlierDone, At
<1>2. \A o \in s3' : o \in s3 \/ \A q \in Requests : o.by \notin earlier[q]
  BY DEF AuthorInv, EarlierDone, At
<1>3. AuthorKnown'
  <2>1. \A o \in s3 : o.by \in Requests
    BY DEF TypeOK, WorldTypeOK, Object
  <2>. QED
    BY <2>1 DEF AuthorInv, AuthorKnown, At
<1>4. ASSUME NEW q \in Requests PROVE CheckedKeys(q)'
  <2>1. CheckedKeys(q)
    BY DEF AuthorInv
  <2>2. CASE pc'[q] = "check"
    BY <1>2, <2>1, <2>2 DEF CheckedKeys, At
  <2>3. CASE pc'[q] = "work" /\ kind[q] = "metrics"
    BY <1>2, <2>1, <2>3 DEF CheckedKeys, At
  <2>. QED
    BY <2>2, <2>3 DEF CheckedKeys, At
<1>5. OneAuthor'
  <2>1. ASSUME NEW o \in s3', NEW u \in s3',
               o.kind = "metrics", ~overwrite[o.by], u.kind = "metrics", ~overwrite[u.by],
               o.by # u.by
        PROVE  o.by \notin earlier[u.by]
    <3>1. u.by \in Requests
      BY DEF TypeOK, WorldTypeOK, Object
    <3>2. CASE o \in s3 /\ u \in s3
      BY <2>1, <3>2 DEF AuthorInv, OneAuthor, Overlapped
    <3>3. CASE o \notin s3
      BY <1>2, <3>1, <3>3
    <3>4. CASE o \in s3 /\ u \notin s3
      BY <2>1, <3>1, <3>4 DEF AuthorInv, CheckedKeys, At
    <3>. QED
      BY <3>2, <3>3, <3>4
  <2>. QED
    BY <2>1 DEF OneAuthor, Overlapped
<1>. QED
  BY <1>1, <1>3, <1>4, <1>5 DEF AuthorInv

\* What checking one key does: it goes on, refuses, or has found every key free.
LEMMA CheckKeyCases ==
  ASSUME TypeOK, NEW r \in Requests, CheckKey(r)
  PROVE  \E i \in Items :
           LET exists == \E o \in s3 : o.kind = "metrics" /\ o.item = i
           IN  \/ /\ pc' = pc /\ answer' = answer /\ todo'[r] = todo[r] \ {i}
                  /\ present'[r] = {} => present[r] = {} /\ ~exists
               \/ pc'[r] = "done"
               \/ /\ pc'[r] = "work" /\ answer' = answer /\ todo'[r] = Items
                  /\ todo[r] = {i} /\ present[r] = {} /\ ~exists
<1>1. PICK i \in Items : First(todo[r], i) /\
        LET exists == \E o \in s3 : o.kind = "metrics" /\ o.item = i
            found  == present[r] \union (IF exists THEN {i} ELSE {})
        IN  \/ /\ todo[r] # {i}
               /\ todo' = [todo EXCEPT ![r] = @ \ {i}]
               /\ present' = [present EXCEPT ![r] = found]
               /\ UNCHANGED <<pc, answer, expected, got, stored, failed, window, disturbed>>
            \/ /\ todo[r] = {i}
               /\ present' = [present EXCEPT ![r] = {}]
               /\ disturbed' = disturbed \ {r}
               /\ IF found # {}
                    THEN BreakOff(r, "refused") /\ UNCHANGED window
                    ELSE /\ Goto(r, "work")
                         /\ todo' = [todo EXCEPT ![r] = Items]
                         /\ ReadWindow(r)
                         /\ UNCHANGED <<expected, got, stored, failed>>
  BY DEF CheckKey
<1>2. CASE todo[r] # {i}
  <2>1. /\ pc' = pc /\ answer' = answer /\ todo'[r] = todo[r] \ {i}
        /\ present'[r] = {} =>
             present[r] = {} /\ ~\E o \in s3 : o.kind = "metrics" /\ o.item = i
    <3>1. /\ pc' = pc /\ answer' = answer
          /\ todo' = [todo EXCEPT ![r] = @ \ {i}]
          /\ present' = [present EXCEPT ![r] = present[r] \union
               (IF \E o \in s3 : o.kind = "metrics" /\ o.item = i THEN {i} ELSE {})]
      BY <1>1, <1>2
    <3>2. todo'[r] = todo[r] \ {i}
      BY <3>1 DEF TypeOK, LoopTypeOK
    <3>3. present'[r] = present[r] \union
            (IF \E o \in s3 : o.kind = "metrics" /\ o.item = i THEN {i} ELSE {})
      BY <3>1 DEF TypeOK, AskedTypeOK
    <3>. QED
      BY <3>1, <3>2, <3>3
  <2>. QED
    BY <2>1
<1>3. CASE todo[r] = {i} /\ BreakOff(r, "refused")
  BY <1>1, <1>3 DEF BreakOff, Reply, TypeOK, LoopTypeOK
<1>4. CASE /\ todo[r] = {i} /\ Goto(r, "work") /\ todo' = [todo EXCEPT ![r] = Items]
           /\ present[r] = {} /\ ~\E o \in s3 : o.kind = "metrics" /\ o.item = i
  BY <1>4 DEF Goto, TypeOK, LoopTypeOK
<1>. QED
  BY <1>1, <1>2, <1>3, <1>4

\* The last key of a check that found none: no metrics of an earlier request.
LEMMA CheckAuthor ==
  ASSUME TypeOK, AuthorInv, NEW r \in Requests, CheckKey(r)
  PROVE  AuthorInv'
<1>1. /\ s3' = s3 /\ kind' = kind /\ overwrite' = overwrite /\ earlier' = earlier
      /\ pc[r] = "check"
  BY DEF CheckKey, worldVars, askedVars, At
<1>2. /\ pc'[r] \in {"check", "work", "done"}
      /\ \A q \in Requests : q # r =>
           pc'[q] = pc[q] /\ todo'[q] = todo[q] /\ present'[q] = present[q]
  <2>1. pc'[r] \in {"check", "work", "done"}
    BY <1>1, CheckKeyCases
  <2>. QED
    BY <2>1, WorkFrame DEF LoopStep
<1>3. CheckedKeys(r) /\ kind[r] = "metrics"
  BY <1>1 DEF AuthorInv, CheckedKeys, At
<1>4. pc'[r] = "check" /\ present'[r] = {} =>
        \A o \in s3 : o.kind = "metrics" /\ o.item \notin todo'[r] => o.by \notin earlier[r]
  <2>1. SUFFICES ASSUME pc'[r] = "check", present'[r] = {}
        PROVE  \A o \in s3 : o.kind = "metrics" /\ o.item \notin todo'[r] => o.by \notin earlier[r]
    OBVIOUS
  <2>2. PICK i \in Items :
          /\ todo'[r] = todo[r] \ {i} /\ present[r] = {}
          /\ ~\E o \in s3 : o.kind = "metrics" /\ o.item = i
    BY <1>1, <2>1, CheckKeyCases
  <2>. QED
    BY <1>1, <1>3, <2>2 DEF CheckedKeys, At
<1>5. pc'[r] = "work" => \A o \in s3 : o.kind = "metrics" => o.by \notin earlier[r]
  <2>1. SUFFICES ASSUME pc'[r] = "work"
        PROVE  \A o \in s3 : o.kind = "metrics" => o.by \notin earlier[r]
    OBVIOUS
  <2>2. PICK i \in Items :
          /\ todo[r] = {i} /\ present[r] = {}
          /\ ~\E o \in s3 : o.kind = "metrics" /\ o.item = i
    BY <1>1, <2>1, CheckKeyCases
  <2>. QED
    BY <1>1, <1>3, <2>2 DEF CheckedKeys, At
<1>6. EarlierDone' /\ AuthorKnown'
  <2>1. \A o \in s3 : o.by \in Requests
    BY DEF TypeOK, WorldTypeOK, Object
  <2>2. r \notin UNION {earlier[q] : q \in Requests}
    BY <1>1 DEF AuthorInv, EarlierDone, At
  <2>. QED
    BY <1>1, <1>2, <2>1, <2>2 DEF AuthorInv, EarlierDone, AuthorKnown, At
<1>7. OneAuthor'
  BY <1>1 DEF AuthorInv, OneAuthor, Overlapped
<1>8. CheckedKeys(r)'
  BY <1>1, <1>2, <1>3, <1>4, <1>5 DEF CheckedKeys, At
<1>9. ASSUME NEW q \in Requests, q # r PROVE CheckedKeys(q)'
  BY <1>1, <1>2, <1>9 DEF AuthorInv, CheckedKeys, At
<1>. QED
  BY <1>6, <1>7, <1>8, <1>9 DEF AuthorInv

\* Where a step of an arrived request, other than one of a check, leaves it.
LEMMA WorkStages ==
  ASSUME TypeOK, AuthorInv, NEW r \in Requests,
         \/ CheckFails(r) \/ Fetch(r) \/ FetchFails(r) \/ ReadFails(r) \/ FetchBreaks(r)
         \/ Put(r) \/ PutFails(r) \/ UploadFails(r) \/ Discover(r) \/ DiscoverFails(r)
         \/ TriggerSnapshot(r) \/ TriggerFails(r) \/ CopySucceeds(r) \/ CopyFails(r)
         \/ CopyTimesOut(r) \/ OrphanCopies(r)
  PROVE  /\ pc[r] # "idle"
         /\ \/ pc'[r] = "done"
            \/ pc'[r] = pc[r] /\ pc[r] = "work"
            \/ pc'[r] \in {"copy", "work"} /\ kind[r] # "metrics" /\ pc[r] # "done"
<1>0. CheckedKeys(r)
  BY DEF AuthorInv
<1>1. CASE \/ CheckFails(r) \/ ReadFails(r) \/ FetchBreaks(r) \/ UploadFails(r)
           \/ DiscoverFails(r) \/ TriggerFails(r) \/ CopyFails(r) \/ CopyTimesOut(r)
  <2>1. pc' = [pc EXCEPT ![r] = "done"]
    BY <1>1 DEF CheckFails, ReadFails, FetchBreaks, UploadFails, DiscoverFails, TriggerFails,
                CopyFails, CopyTimesOut, BreakOff, Reply
  <2>2. pc[r] # "idle"
    BY <1>1 DEF CheckFails, ReadFails, FetchBreaks, UploadFails, DiscoverFails, TriggerFails,
                CopyFails, CopyTimesOut, Fetching, Putting, At
  <2>. QED
    BY <2>1, <2>2 DEF TypeOK, LoopTypeOK
<1>2. CASE Fetch(r) \/ FetchFails(r) \/ Put(r) \/ PutFails(r)
  <2>1. pc[r] = "work" /\ (pc' = pc \/ pc' = [pc EXCEPT ![r] = "done"])
    BY <1>2 DEF Fetch, FetchFails, Put, PutFails, Fetching, Putting, At, Proceed, Reply
  <2>. QED
    BY <2>1 DEF TypeOK, LoopTypeOK
<1>3. CASE Discover(r) \/ TriggerSnapshot(r) \/ CopySucceeds(r)
  <2>1. pc[r] \in {"discover", "trigger", "copy"} /\ pc'[r] \in {"copy", "work", "done"}
    BY <1>3 DEF Discover, TriggerSnapshot, CopySucceeds, Reply, Goto, At, TypeOK, LoopTypeOK
  <2>. QED
    BY <1>0, <2>1 DEF CheckedKeys, At
<1>4. CASE OrphanCopies(r)
  BY <1>4 DEF OrphanCopies, At
<1>. QED
  BY <1>1, <1>2, <1>3, <1>4

LEMMA WorkAuthor ==
  ASSUME TypeOK, AuthorInv, NEW r \in Requests,
         \/ CheckFails(r) \/ Fetch(r) \/ FetchFails(r) \/ ReadFails(r) \/ FetchBreaks(r)
         \/ Put(r) \/ PutFails(r) \/ UploadFails(r) \/ Discover(r) \/ DiscoverFails(r)
         \/ TriggerSnapshot(r) \/ TriggerFails(r) \/ CopySucceeds(r) \/ CopyFails(r)
         \/ CopyTimesOut(r) \/ OrphanCopies(r)
  PROVE  AuthorInv'
<1>1. UNCHANGED <<kind, overwrite, earlier>>
  BY DEF CheckFails, Fetch, FetchFails, ReadFails, FetchBreaks, Put, PutFails, UploadFails,
         Discover, DiscoverFails, TriggerSnapshot, TriggerFails, CopySucceeds, CopyFails,
         CopyTimesOut, OrphanCopies, askedVars
<1>2. \A o \in s3' : o \in s3 \/ (o.by \in Requests /\ pc[o.by] = "work" /\ o.kind = kind[o.by])
  <2>1. s3' = s3 \/ (pc[r] = "work" /\ \E i \in Items : Write(r, i))
    BY DEF CheckFails, Fetch, FetchFails, ReadFails, FetchBreaks, Put, PutFails, UploadFails,
           Discover, DiscoverFails, TriggerSnapshot, TriggerFails, CopySucceeds, CopyFails,
           CopyTimesOut, OrphanCopies, worldVars, Putting, At
  <2>. QED
    BY <2>1 DEF Write
<1>3. ASSUME NEW q \in Requests, q # r
      PROVE  pc'[q] = pc[q] /\ todo'[q] = todo[q] /\ present'[q] = present[q]
  BY <1>3, WorkFrame DEF LoopStep
<1>4. \A q \in Requests :
        /\ pc[q] # "idle" => pc'[q] # "idle"
        /\ pc[q] = "done" => pc'[q] = "done"
        /\ pc'[q] = "check" => pc[q] = "check" /\ todo'[q] = todo[q] /\ present'[q] = present[q]
        /\ pc'[q] \in {"discover", "trigger", "copy"} => kind[q] # "metrics"
        /\ pc'[q] = "work" /\ kind[q] = "metrics" => pc[q] = "work"
  BY <1>3, WorkStages DEF AuthorInv, CheckedKeys, At
<1>. QED
  BY <1>1, <1>2, <1>4, StepAuthor

LEMMA NextAuthor == ASSUME TypeOK, AuthorInv, [Next]_vars PROVE AuthorInv'
<1>1. CASE TrialMoves \/ UNCHANGED vars
  <2>1. UNCHANGED <<kind, overwrite, earlier, s3, pc, todo, present>>
    BY <1>1 DEF TrialMoves, vars, worldVars, askedVars, loopVars
  <2>. QED
    BY <2>1, StepAuthor DEF AuthorInv, CheckedKeys, At
<1>2. CASE Restart
  <2>1. UNCHANGED <<kind, overwrite, earlier, s3>>
    BY <1>2 DEF Restart, worldVars, askedVars
  <2>2. \A q \in Requests :
          pc'[q] = IF pc[q] \in {"idle", "done"} THEN pc[q] ELSE "done"
    BY <1>2 DEF Restart, At
  <2>. QED
    BY <2>1, <2>2, StepAuthor
<1>3. ASSUME NEW r \in Requests, RequestNext(r) PROVE AuthorInv'
  BY <1>3, ArriveAuthor, CheckAuthor, WorkAuthor DEF RequestNext, LoopStep
<1>. QED
  BY <1>1, <1>2, <1>3 DEF Next

\* Two exports of metrics that were not asked to overwrite, and that did not
\* overlap, never both have objects in the bucket.
THEOREM AuthorSafe == Spec => []OneAuthor
<1>1. Init => AuthorInv
  BY DEF Init, AuthorInv, EarlierDone, AuthorKnown, CheckedKeys, OneAuthor, At
<1>2. TypeOK /\ AuthorInv /\ [Next]_vars => AuthorInv'
  BY NextAuthor
<1>3. AuthorInv => OneAuthor
  BY DEF AuthorInv
<1>. QED
  BY <1>1, <1>2, <1>3, TypeCorrect, PTL DEF Spec

---------------------------------------------------------------------------
(* Every item accounted for *)

Disjoint(a, b) == a \intersect b = {}

\* What a request expects is always split into what is left to fetch, what is
\* fetched, what is stored and what failed.
Split(items, left, kept, done, lost) ==
  /\ items = left \union kept \union done \union lost
  /\ Disjoint(left, kept) /\ Disjoint(left, done) /\ Disjoint(left, lost)
  /\ Disjoint(kept, done) /\ Disjoint(kept, lost) /\ Disjoint(done, lost)

Fresh(r) == got[r] = {} /\ stored[r] = {} /\ failed[r] = {}

AccountOf(r) ==
  /\ At(r, {"idle", "check", "discover", "trigger", "copy"}) => Fresh(r)
  /\ At(r, {"check"}) => expected[r] = Items
  /\ At(r, {"trigger", "copy"}) => todo[r] = expected[r]
  /\ At(r, {"work"}) => Split(expected[r], todo[r], got[r], stored[r], failed[r])
  /\ answer[r] \in {"complete", "partial"} =>
       /\ Split(expected[r], {}, {}, stored[r], failed[r])
       /\ (answer[r] = "complete") = (failed[r] = {})

\* An object for every stored item of a request at work, or done with it, by a
\* request that was not over before this one arrived.
StoredKept(r) ==
  At(r, {"work"}) \/ answer[r] \in {"complete", "partial"} =>
    \A i \in stored[r] : \E o \in s3 :
      o.kind = kind[r] /\ o.item = i /\ o.by \notin earlier[r]

AccountInv == \A r \in Requests : AccountOf(r)
KeptInv    == \A r \in Requests : StoredKept(r)

LEMMA BreakOffAccount ==
  ASSUME TypeOK, NEW r \in Requests, NEW result \in {"refused", "error", "timeout", "lost"},
         BreakOff(r, result)
  PROVE  AccountOf(r)' /\ stored'[r] = {}
<1>1. /\ pc'[r] = "done" /\ answer'[r] = result
      /\ got'[r] = {} /\ stored'[r] = {} /\ failed'[r] = {}
  BY DEF BreakOff, Reply, TypeOK, LoopTypeOK
<1>. QED
  BY <1>1 DEF AccountOf, At

LEMMA ProceedAccount ==
  ASSUME TypeOK, NEW r \in Requests, pc[r] = "work", answer[r] = "none",
         NEW left \in SUBSET Items, NEW kept \in SUBSET Items,
         NEW done \in SUBSET Items, NEW lost \in SUBSET Items,
         Split(expected[r], left, kept, done, lost),
         Proceed(r, left, kept, done, lost)
  PROVE  AccountOf(r)' /\ stored'[r] = done
<1>1. /\ expected'[r] = expected[r] /\ todo'[r] = left /\ got'[r] = kept
      /\ stored'[r] = done /\ failed'[r] = lost
  BY DEF Proceed, TypeOK, LoopTypeOK
<1>2. CASE left \union kept # {}
  <2>1. pc'[r] = "work" /\ answer'[r] = "none"
    BY <1>2 DEF Proceed
  <2>. QED
    BY <1>1, <2>1 DEF AccountOf, At
<1>3. CASE left \union kept = {}
  <2>1. pc'[r] = "done" /\ answer'[r] = IF lost = {} THEN "complete" ELSE "partial"
    BY <1>3 DEF Proceed, Reply, TypeOK, LoopTypeOK
  <2>2. left = {} /\ kept = {}
    BY <1>3
  <2>3. Split(expected[r], {}, {}, done, lost)
    BY <2>2 DEF Split
  <2>. QED
    BY <1>1, <2>1, <2>3 DEF AccountOf, At
<1>. QED
  BY <1>2, <1>3

\* Moving one item from a part of a split to another leaves a split.
LEMMA SplitMoves ==
  ASSUME NEW items, NEW left, NEW kept, NEW done, NEW lost,
         Split(items, left, kept, done, lost), NEW i
  PROVE  /\ i \in left => /\ Split(items, left \ {i}, kept \union {i}, done, lost)
                          /\ Split(items, left \ {i}, kept, done, lost \union {i})
         /\ i \in kept => /\ Split(items, left, kept \ {i}, done \union {i}, lost)
                          /\ Split(items, left, kept \ {i}, done, lost \union {i})
BY DEF Split, Disjoint

LEMMA LoopAccount ==
  ASSUME TypeOK, DirInv, AccountInv, NEW r \in Requests,
         Fetch(r) \/ FetchFails(r) \/ Put(r) \/ PutFails(r)
  PROVE  /\ AccountOf(r)'
         /\ \A i \in stored'[r] : i \in stored[r] \/ Write(r, i)
<1>1. pc[r] = "work" /\ answer[r] = "none"
  BY DEF Fetch, FetchFails, Put, PutFails, Fetching, Putting, At, DirInv, DirOf
<1>2. Split(expected[r], todo[r], got[r], stored[r], failed[r])
  BY <1>1 DEF AccountInv, AccountOf, At
<1>3. /\ todo[r] \in SUBSET Items /\ got[r] \in SUBSET Items
      /\ stored[r] \in SUBSET Items /\ failed[r] \in SUBSET Items
  BY DEF TypeOK, LoopTypeOK
<1>4. PICK i \in Items :
        \/ /\ i \in todo[r]
           /\ \/ Proceed(r, todo[r] \ {i}, got[r] \union {i}, stored[r], failed[r])
              \/ Proceed(r, todo[r] \ {i}, got[r], stored[r], failed[r] \union {i})
        \/ /\ i \in got[r]
           /\ \/ Proceed(r, todo[r], got[r] \ {i}, stored[r] \union {i}, failed[r]) /\ Write(r, i)
              \/ Proceed(r, todo[r], got[r] \ {i}, stored[r], failed[r] \union {i})
  BY DEF Fetch, FetchFails, Put, PutFails, Fetching, Putting, First
<1>5. /\ todo[r] \ {i} \in SUBSET Items /\ got[r] \ {i} \in SUBSET Items
      /\ got[r] \union {i} \in SUBSET Items /\ stored[r] \union {i} \in SUBSET Items
      /\ failed[r] \union {i} \in SUBSET Items
  BY <1>3
<1>6. /\ i \in todo[r] =>
           /\ Split(expected[r], todo[r] \ {i}, got[r] \union {i}, stored[r], failed[r])
           /\ Split(expected[r], todo[r] \ {i}, got[r], stored[r], failed[r] \union {i})
      /\ i \in got[r] =>
           /\ Split(expected[r], todo[r], got[r] \ {i}, stored[r] \union {i}, failed[r])
           /\ Split(expected[r], todo[r], got[r] \ {i}, stored[r], failed[r] \union {i})
  BY <1>2, SplitMoves
<1>7. CASE i \in todo[r] /\ Proceed(r, todo[r] \ {i}, got[r] \union {i}, stored[r], failed[r])
  BY <1>1, <1>3, <1>5, <1>6, <1>7, ProceedAccount
<1>8. CASE i \in todo[r] /\ Proceed(r, todo[r] \ {i}, got[r], stored[r], failed[r] \union {i})
  BY <1>1, <1>3, <1>5, <1>6, <1>8, ProceedAccount
<1>9. CASE /\ i \in got[r] /\ Write(r, i)
           /\ Proceed(r, todo[r], got[r] \ {i}, stored[r] \union {i}, failed[r])
  BY <1>1, <1>3, <1>5, <1>6, <1>9, ProceedAccount
<1>10. CASE i \in got[r] /\ Proceed(r, todo[r], got[r] \ {i}, stored[r], failed[r] \union {i})
  BY <1>1, <1>3, <1>5, <1>6, <1>10, ProceedAccount
<1>. QED
  BY <1>4, <1>7, <1>8, <1>9, <1>10

LEMMA CheckAccount ==
  ASSUME TypeOK, DirInv, AccountInv, NEW r \in Requests, CheckKey(r)
  PROVE  AccountOf(r)' /\ (pc'[r] = "work" => stored'[r] = {}) /\
         answer'[r] \notin {"complete", "partial"}
<1>1. pc[r] = "check" /\ answer[r] = "none"
  BY DEF CheckKey, At, DirInv, DirOf
<1>2. Fresh(r) /\ expected[r] = Items
  BY <1>1 DEF AccountInv, AccountOf, At
<1>3. \/ BreakOff(r, "refused")
      \/ /\ answer' = answer
         /\ expected' = expected /\ got' = got /\ stored' = stored /\ failed' = failed
         /\ pc' = pc \/ (Goto(r, "work") /\ todo' = [todo EXCEPT ![r] = Items])
  BY DEF CheckKey, Goto
<1>4. CASE BreakOff(r, "refused")
  <2>1. pc'[r] = "done" /\ answer'[r] = "refused"
    BY <1>4 DEF BreakOff, Reply, TypeOK, LoopTypeOK
  <2>. QED
    BY <1>4, <2>1, BreakOffAccount
<1>5. CASE /\ answer' = answer /\ pc' = pc
           /\ expected' = expected /\ got' = got /\ stored' = stored /\ failed' = failed
  BY <1>1, <1>2, <1>5 DEF AccountOf, At, Fresh
<1>6. CASE /\ answer' = answer
           /\ expected' = expected /\ got' = got /\ stored' = stored /\ failed' = failed
           /\ Goto(r, "work") /\ todo' = [todo EXCEPT ![r] = Items]
  <2>1. pc'[r] = "work" /\ todo'[r] = Items
    BY <1>6 DEF Goto, TypeOK, LoopTypeOK
  <2>2. Split(Items, Items, {}, {}, {})
    BY DEF Split, Disjoint
  <2>. QED
    BY <1>1, <1>2, <1>6, <2>1, <2>2 DEF AccountOf, At, Fresh
<1>. QED
  BY <1>3, <1>4, <1>5, <1>6

\* The steps of r: its own account, and no stored item that it did not store.
LEMMA OwnAccount ==
  ASSUME TypeOK, DirInv, AccountInv, NEW r \in Requests, RequestNext(r)
  PROVE  /\ AccountOf(r)'
         /\ pc'[r] = "work" \/ answer'[r] \in {"complete", "partial"} =>
              \A i \in stored'[r] :
                \/ i \in stored[r] /\ (pc[r] = "work" \/ answer[r] \in {"complete", "partial"})
                \/ pc[r] = "work" /\ Write(r, i)
<1>1. CASE \/ \E force \in BOOLEAN : ArriveMetrics(r, force)
           \/ ArriveLogs(r) \/ ArriveTsdb(r) \/ ArriveRoles(r) \/ ArriveSingle(r)
  <2>1. pc[r] = "idle" /\ answer[r] = "none" /\ Fresh(r)
    BY <1>1, ArriveEffect DEF AccountInv, AccountOf, At, DirInv, DirOf
  <2>2. Split(todo'[r], todo'[r], {}, {}, {})
    BY DEF Split, Disjoint
  <2>3. /\ answer' = answer /\ got' = got /\ stored' = stored /\ failed' = failed
        /\ pc'[r] \in {"check", "work", "discover", "trigger"}
        /\ pc'[r] = "check" => expected'[r] = Items
        /\ expected'[r] = todo'[r]
    BY <1>1, ArriveEffect
  <2>. QED
    BY <2>1, <2>2, <2>3 DEF AccountOf, At, Fresh
<1>2. CASE CheckKey(r)
  BY <1>2, CheckAccount
<1>3. CASE \/ CheckFails(r) \/ ReadFails(r) \/ FetchBreaks(r) \/ UploadFails(r)
           \/ DiscoverFails(r) \/ TriggerFails(r) \/ CopyFails(r) \/ CopyTimesOut(r)
  <2>1. BreakOff(r, "error") \/ BreakOff(r, "timeout")
    BY <1>3 DEF CheckFails, ReadFails, FetchBreaks, UploadFails, DiscoverFails, TriggerFails,
                CopyFails, CopyTimesOut
  <2>. QED
    BY <2>1, BreakOffAccount
<1>4. CASE Fetch(r) \/ FetchFails(r) \/ Put(r) \/ PutFails(r)
  <2>1. pc[r] = "work"
    BY <1>4 DEF Fetch, FetchFails, Put, PutFails, Fetching, Putting, At
  <2>. QED
    BY <1>4, <2>1, LoopAccount
<1>5. CASE Discover(r)
  <2>1. pc[r] = "discover" /\ answer[r] = "none" /\ Fresh(r)
    BY <1>5 DEF Discover, At, DirInv, DirOf, AccountInv, AccountOf
  <2>2. PICK pods \in SUBSET Items :
          /\ Expect(r, pods)
          /\ IF pods = {} THEN Reply(r, "complete") ELSE Goto(r, "work")
    BY <1>5 DEF Discover
  <2>3. /\ expected'[r] = pods /\ todo'[r] = pods
        /\ got' = got /\ stored' = stored /\ failed' = failed
    BY <1>5, <2>2 DEF Discover, Expect, TypeOK, LoopTypeOK
  <2>4. \/ pods = {} /\ pc'[r] = "done" /\ answer'[r] = "complete"
        \/ pc'[r] = "work" /\ answer'[r] = "none"
    BY <2>1, <2>2 DEF Reply, Goto, TypeOK, LoopTypeOK
  <2>5. Split(pods, pods, {}, {}, {}) /\ Split({}, {}, {}, {}, {})
    BY DEF Split, Disjoint
  <2>. QED
    BY <2>1, <2>3, <2>4, <2>5 DEF AccountOf, At, Fresh
<1>6. CASE TriggerSnapshot(r)
  <2>1. pc[r] = "trigger" /\ answer[r] = "none" /\ Fresh(r) /\ todo[r] = expected[r]
    BY <1>6 DEF TriggerSnapshot, At, DirInv, DirOf, AccountInv, AccountOf
  <2>2. pc'[r] = "copy" /\ UNCHANGED <<answer, loopVars>>
    BY <1>6 DEF TriggerSnapshot, Goto, TypeOK, LoopTypeOK
  <2>. QED
    BY <2>1, <2>2 DEF AccountOf, At, Fresh, loopVars
<1>7. CASE CopySucceeds(r)
  <2>1. pc[r] = "copy" /\ answer[r] = "none" /\ Fresh(r) /\ todo[r] = expected[r]
    BY <1>7 DEF CopySucceeds, At, DirInv, DirOf, AccountInv, AccountOf
  <2>2. /\ pc'[r] = "work" /\ answer' = answer /\ todo'[r] = {} /\ got'[r] = todo[r]
        /\ expected' = expected /\ stored' = stored /\ failed' = failed
    BY <1>7 DEF CopySucceeds, Goto, TypeOK, LoopTypeOK
  <2>3. Split(expected[r], {}, expected[r], {}, {})
    BY DEF Split, Disjoint
  <2>. QED
    BY <2>1, <2>2, <2>3 DEF AccountOf, At, Fresh
<1>8. CASE OrphanCopies(r)
  BY <1>8 DEF OrphanCopies, AccountInv, AccountOf, At, Fresh, loopVars
<1>. QED
  BY <1>1, <1>2, <1>3, <1>4, <1>5, <1>6, <1>7, <1>8 DEF RequestNext, LoopStep

\* An object is never gone without one of its kind and item in its place, by a
\* request that is at work and so earlier than none.
LEMMA PutKeeps ==
  ASSUME TypeOK, AuthorInv, NEW r \in Requests, pc[r] = "work", NEW i \in Items, Write(r, i),
         NEW q \in Requests, NEW o \in s3, o.by \notin earlier[q]
  PROVE  \E u \in s3' : u.kind = o.kind /\ u.item = o.item /\ u.by \notin earlier[q]
<1>1. CASE SameKey(o, r, i)
  <2>1. r \notin earlier[q]
    BY DEF AuthorInv, EarlierDone, At
  <2>2. [kind |-> kind[r], item |-> i, by |-> r] \in s3'
    BY DEF Write
  <2>. QED
    BY <1>1, <2>1, <2>2 DEF SameKey
<1>2. CASE ~SameKey(o, r, i)
  <2>1. o \in s3'
    BY <1>2 DEF Write
  <2>. QED
    BY <2>1
<1>. QED
  BY <1>1, <1>2

LEMMA StepKeeps ==
  ASSUME TypeOK, AuthorInv, [Next]_vars,
         NEW q \in Requests, NEW o \in s3, o.by \notin earlier[q]
  PROVE  \E u \in s3' : u.kind = o.kind /\ u.item = o.item /\ u.by \notin earlier[q]
<1>1. CASE s3' = s3
  BY <1>1
<1>2. ASSUME NEW r \in Requests, Put(r) \/ PutFails(r) \/ UploadFails(r), s3' # s3
      PROVE  pc[r] = "work" /\ \E i \in Items : Write(r, i)
  BY <1>2 DEF Put, PutFails, UploadFails, Putting, At
<1>3. s3' = s3 \/ \E r \in Requests : Put(r) \/ PutFails(r) \/ UploadFails(r)
  <2>1. CASE TrialMoves \/ Restart \/ UNCHANGED vars
    BY <2>1 DEF TrialMoves, Restart, vars, worldVars
  <2>2. ASSUME NEW r \in Requests, RequestNext(r)
        PROVE  s3' = s3 \/ Put(r) \/ PutFails(r) \/ UploadFails(r)
    BY <2>2, ArriveEffect DEF RequestNext, LoopStep, CheckKey, CheckFails, Fetch, FetchFails,
       ReadFails, FetchBreaks, Discover, DiscoverFails, TriggerSnapshot, TriggerFails,
       CopySucceeds, CopyFails, CopyTimesOut, OrphanCopies, worldVars
  <2>. QED
    BY <2>1, <2>2 DEF Next
<1>. QED
  BY <1>1, <1>2, <1>3, PutKeeps

LEMMA NextKept ==
  ASSUME TypeOK, DirInv, AuthorInv, AccountInv, KeptInv, [Next]_vars
  PROVE  KeptInv'
<1>1. ASSUME NEW q \in Requests, kind'[q] = kind[q], earlier'[q] = earlier[q],
             NEW i \in stored[q], At(q, {"work"}) \/ answer[q] \in {"complete", "partial"}
      PROVE  \E u \in s3' : u.kind = kind'[q] /\ u.item = i /\ u.by \notin earlier'[q]
  <2>1. PICK o \in s3 : o.kind = kind[q] /\ o.item = i /\ o.by \notin earlier[q]
    BY <1>1 DEF KeptInv, StoredKept
  <2>. QED
    BY <1>1, <2>1, StepKeeps
<1>2. CASE TrialMoves \/ UNCHANGED vars
  <2>1. UNCHANGED <<kind, earlier, stored, pc, answer>>
    BY <1>2 DEF TrialMoves, vars, askedVars, loopVars
  <2>. QED
    BY <1>1, <2>1 DEF KeptInv, StoredKept, At
<1>3. CASE Restart
  <2>1. UNCHANGED <<kind, earlier>>
    BY <1>3 DEF Restart, askedVars
  <2>2. \A q \in Requests :
          \/ stored'[q] = {}
          \/ stored'[q] = stored[q] /\ pc'[q] = pc[q] /\ answer'[q] = answer[q]
    BY <1>3 DEF Restart
  <2>. QED
    BY <1>1, <2>1, <2>2 DEF KeptInv, StoredKept, At
<1>4. ASSUME NEW r \in Requests, NEW q \in Requests,
             \/ \E force \in BOOLEAN : ArriveMetrics(r, force)
             \/ ArriveLogs(r) \/ ArriveTsdb(r) \/ ArriveRoles(r) \/ ArriveSingle(r)
      PROVE  StoredKept(q)'
  <2>1. stored' = stored /\ answer' = answer /\ pc[r] = "idle"
    BY <1>4, ArriveEffect
  <2>2. CASE q = r
    BY <2>1, <2>2 DEF AccountInv, AccountOf, Fresh, At, StoredKept
  <2>3. CASE q # r
    <3>1. pc'[q] = pc[q] /\ kind'[q] = kind[q] /\ earlier'[q] = earlier[q]
      BY <1>4, <2>3, ArriveFrame
    <3>. QED
      BY <1>1, <2>1, <3>1 DEF StoredKept, At
  <2>. QED
    BY <2>2, <2>3
<1>5. ASSUME NEW r \in Requests, NEW q \in Requests, RequestNext(r),
             \/ LoopStep(r) \/ Discover(r) \/ DiscoverFails(r) \/ TriggerSnapshot(r)
             \/ TriggerFails(r) \/ CopySucceeds(r) \/ CopyFails(r) \/ CopyTimesOut(r)
             \/ OrphanCopies(r)
      PROVE  StoredKept(q)'
  <2>1. kind' = kind /\ earlier' = earlier
    <3>1. \A p \in Requests : p # r => kind' = kind /\ earlier' = earlier
      BY <1>5, WorkFrame
    <3>. QED
      BY <1>5 DEF LoopStep, CheckKey, CheckFails, Fetch, FetchFails, ReadFails, FetchBreaks, Put,
         PutFails, UploadFails, Discover, DiscoverFails, TriggerSnapshot, TriggerFails,
         CopySucceeds, CopyFails, CopyTimesOut, OrphanCopies, askedVars
  <2>2. CASE q # r
    <3>1. pc'[q] = pc[q] /\ stored'[q] = stored[q] /\ answer'[q] = answer[q]
      BY <1>5, <2>2, WorkFrame
    <3>. QED
      BY <1>1, <2>1, <3>1 DEF StoredKept, At
  <2>3. CASE q = r
    <3>1. ASSUME NEW i \in stored'[r], pc[r] = "work", Write(r, i)
          PROVE  \E u \in s3' : u.kind = kind'[r] /\ u.item = i /\ u.by \notin earlier'[r]
      <4>1. [kind |-> kind[r], item |-> i, by |-> r] \in s3' /\ r \notin earlier[r]
        BY <3>1 DEF Write, AuthorInv, EarlierDone, At
      <4>. QED
        BY <2>1, <4>1
    <3>. QED
      BY <1>1, <1>5, <2>1, <2>3, <3>1, OwnAccount DEF StoredKept, At
  <2>. QED
    BY <2>2, <2>3
<1>6. ASSUME NEW r \in Requests, RequestNext(r) PROVE KeptInv'
  BY <1>4, <1>5, <1>6 DEF KeptInv, RequestNext
<1>. QED
  BY <1>2, <1>3, <1>6 DEF Next

LEMMA NextAccount ==
  ASSUME TypeOK, DirInv, AccountInv, [Next]_vars
  PROVE  AccountInv'
<1>1. CASE TrialMoves \/ UNCHANGED vars
  <2>1. UNCHANGED <<pc, answer, expected, todo, got, stored, failed>>
    BY <1>1 DEF TrialMoves, vars, loopVars
  <2>. QED
    BY <2>1 DEF AccountInv, AccountOf, Fresh, At
<1>2. CASE Restart
  <2>1. ASSUME NEW q \in Requests PROVE
          \/ pc'[q] = "done" /\ answer'[q] = "lost"
          \/ /\ pc'[q] = pc[q] /\ answer'[q] = answer[q] /\ expected'[q] = expected[q]
             /\ todo'[q] = todo[q] /\ got'[q] = got[q] /\ stored'[q] = stored[q]
             /\ failed'[q] = failed[q]
    BY <1>2 DEF Restart
  <2>2. ASSUME NEW q \in Requests PROVE AccountOf(q)'
    <3>1. AccountOf(q)
      BY DEF AccountInv
    <3>. QED
      BY <2>1, <3>1 DEF AccountOf, Fresh, At
  <2>. QED
    BY <2>2 DEF AccountInv
<1>3. ASSUME NEW r \in Requests, NEW q \in Requests, q # r, RequestNext(r)
      PROVE  AccountOf(q)'
  <2>0. AccountOf(q)
    BY DEF AccountInv
  <2>1. /\ pc'[q] = pc[q] /\ answer'[q] = answer[q] /\ expected'[q] = expected[q]
        /\ todo'[q] = todo[q] /\ got'[q] = got[q] /\ stored'[q] = stored[q]
        /\ failed'[q] = failed[q]
    <3>1. CASE \/ \E force \in BOOLEAN : ArriveMetrics(r, force)
               \/ ArriveLogs(r) \/ ArriveTsdb(r) \/ ArriveRoles(r) \/ ArriveSingle(r)
      BY <1>3, <3>1, ArriveFrame, ArriveEffect
    <3>2. CASE \/ LoopStep(r) \/ Discover(r) \/ DiscoverFails(r) \/ TriggerSnapshot(r)
               \/ TriggerFails(r) \/ CopySucceeds(r) \/ CopyFails(r) \/ CopyTimesOut(r)
               \/ OrphanCopies(r)
      BY <1>3, <3>2, WorkFrame
    <3>. QED
      BY <1>3, <3>1, <3>2 DEF RequestNext
  <2>. QED
    BY <2>0, <2>1 DEF AccountOf, Fresh, At
<1>4. ASSUME NEW r \in Requests, RequestNext(r) PROVE AccountInv'
  BY <1>3, <1>4, OwnAccount DEF AccountInv
<1>. QED
  BY <1>1, <1>2, <1>4 DEF Next

\* An answer that merges results names every item once, as stored or as failed,
\* and a stored one is in the bucket unless an export that overlapped or came
\* later replaced it.
THEOREM AccountSafe == Spec => []AccountedFor
<1>1. Init => DirInv /\ AuthorInv /\ AccountInv /\ KeptInv
  BY DEF Init, DirInv, DirOf, AuthorInv, EarlierDone, AuthorKnown, CheckedKeys, OneAuthor,
         AccountInv, AccountOf, Fresh, KeptInv, StoredKept, At
<1>2. TypeOK /\ DirInv /\ AuthorInv /\ AccountInv /\ KeptInv /\ [Next]_vars
        => (DirInv /\ AuthorInv /\ AccountInv /\ KeptInv)'
  BY NextDir, NextAuthor, NextAccount, NextKept
<1>3. AccountInv /\ KeptInv => AccountedFor
  BY DEF AccountInv, AccountOf, Split, Disjoint, KeptInv, StoredKept, AccountedFor
<1>. QED
  BY <1>1, <1>2, <1>3, TypeCorrect, PTL DEF Spec

---------------------------------------------------------------------------
(* No export goes on for ever *)

\* How many stages a request may still go through.
Ahead ==
  [done |-> 0, work |-> 1, copy |-> 2, check |-> 3, discover |-> 3, trigger |-> 3, idle |-> 4]

Shrinks(f, r) == f'[r] \subseteq f[r] /\ f'[r] # f[r]

\* The request comes to a later stage; or it has one item less to look for or to
\* fetch, or as many, and one less to put.
Advances(r) ==
  \/ Ahead[pc'[r]] < Ahead[pc[r]]
  \/ /\ pc'[r] = pc[r]
     /\ Shrinks(todo, r) \/ (todo'[r] = todo[r] /\ Shrinks(got, r))

LEMMA StageAdvances ==
  ASSUME TypeOK, NEW r \in Requests, ~At(r, {"done"}), pc'[r] \in Stages,
         \/ pc'[r] = "done"
         \/ At(r, {"idle"}) /\ pc'[r] # "idle"
         \/ At(r, {"check", "discover", "trigger"}) /\ pc'[r] \in {"copy", "work"}
         \/ At(r, {"copy"}) /\ pc'[r] = "work"
  PROVE  Advances(r)
BY DEF Advances, Ahead, At, Stages, TypeOK, LoopTypeOK

LEMMA ProceedAdvances ==
  ASSUME TypeOK, NEW r \in Requests, At(r, {"work"}), NEW i \in Items,
         NEW done, NEW lost,
         \/ /\ i \in todo[r]
            /\ \E kept : Proceed(r, todo[r] \ {i}, kept, done, lost)
         \/ /\ i \in got[r]
            /\ Proceed(r, todo[r], got[r] \ {i}, done, lost)
  PROVE  Advances(r)
<1>1. CASE UNCHANGED pc
  BY <1>1 DEF Proceed, Advances, Shrinks, TypeOK, LoopTypeOK
<1>2. CASE pc'[r] = "done"
  BY <1>2, StageAdvances DEF At, Stages
<1>. QED
  BY <1>1, <1>2 DEF Proceed, Reply, TypeOK, LoopTypeOK

LEMMA LoopAdvances ==
  ASSUME TypeOK, NEW r \in Requests, LoopStep(r)
  PROVE  Advances(r)
<1>1. ASSUME NEW result, BreakOff(r, result), ~At(r, {"done"})
      PROVE  Advances(r)
  BY <1>1, StageAdvances DEF BreakOff, Reply, Stages, TypeOK, LoopTypeOK
<1>2. CASE CheckKey(r)
  <2>1. PICK i \in Items :
          /\ At(r, {"check"}) /\ i \in todo[r]
          /\ \/ todo' = [todo EXCEPT ![r] = @ \ {i}] /\ UNCHANGED pc
             \/ BreakOff(r, "refused")
             \/ Goto(r, "work")
    BY <1>2 DEF CheckKey, First
  <2>2. CASE todo' = [todo EXCEPT ![r] = @ \ {i}] /\ UNCHANGED pc
    BY <2>1, <2>2 DEF Advances, Shrinks, TypeOK, LoopTypeOK
  <2>3. CASE Goto(r, "work")
    <3>1. pc'[r] = "work"
      BY <2>3 DEF Goto, TypeOK, LoopTypeOK
    <3>. QED
      BY <2>1, <3>1, StageAdvances DEF At, Stages
  <2>. QED
    BY <1>1, <2>1, <2>2, <2>3 DEF At
<1>3. CASE CheckFails(r)
  BY <1>1, <1>3 DEF CheckFails, At
<1>4. CASE Fetch(r) \/ FetchFails(r)
  BY <1>4, ProceedAdvances DEF Fetch, FetchFails, Fetching, First
<1>5. CASE Put(r) \/ PutFails(r)
  BY <1>5, ProceedAdvances DEF Put, PutFails, Putting, First
<1>6. CASE ReadFails(r) \/ FetchBreaks(r) \/ UploadFails(r)
  BY <1>1, <1>6 DEF ReadFails, FetchBreaks, UploadFails, Fetching, Putting, At
<1>. QED
  BY <1>2, <1>3, <1>4, <1>5, <1>6 DEF LoopStep

LEMMA RequestAdvances ==
  ASSUME TypeOK, NEW r \in Requests, ~At(r, {"done"}), RequestNext(r)
  PROVE  Advances(r)
<1>. USE DEF TypeOK, LoopTypeOK
<1>1. ASSUME NEW k, NEW items, NEW stage \in Stages \ {"idle"}, Enter(r, k, items, stage)
      PROVE  Advances(r)
  BY <1>1, StageAdvances DEF Enter, Goto
<1>2. ASSUME NEW result, Reply(r, result)
      PROVE  Advances(r)
  BY <1>2, StageAdvances DEF Reply, Stages
<1>3. CASE \/ \E force \in BOOLEAN : ArriveMetrics(r, force)
           \/ ArriveLogs(r) \/ ArriveTsdb(r) \/ ArriveRoles(r) \/ ArriveSingle(r)
  BY <1>1, <1>3 DEF ArriveMetrics, ArriveLogs, ArriveTsdb, ArriveRoles, ArriveSingle, Stages
<1>4. CASE Discover(r) \/ TriggerSnapshot(r) \/ CopySucceeds(r)
  <2>1. \/ \E result : Reply(r, result)
        \/ At(r, {"discover"}) /\ pc'[r] = "work"
        \/ At(r, {"trigger"}) /\ pc'[r] = "copy"
        \/ At(r, {"copy"}) /\ pc'[r] = "work"
    BY <1>4 DEF Discover, TriggerSnapshot, CopySucceeds, Goto
  <2>. QED
    BY <1>2, <2>1, StageAdvances DEF At, Stages
<1>5. CASE DiscoverFails(r) \/ TriggerFails(r) \/ CopyFails(r) \/ CopyTimesOut(r)
  BY <1>2, <1>5 DEF DiscoverFails, TriggerFails, CopyFails, CopyTimesOut, BreakOff
<1>6. ~OrphanCopies(r)
  BY DEF OrphanCopies
<1>. QED
  BY <1>3, <1>4, <1>5, <1>6, LoopAdvances DEF RequestNext

\* An answered request rests; at most a kubectl cp of it still runs.
LEMMA DoneRests ==
  ASSUME TypeOK, NEW r \in Requests, At(r, {"done"}), RequestNext(r)
  PROVE  UNCHANGED <<pc[r], answer[r]>>
<1>. USE DEF At
<1>1. \A k, items, stage : ~Enter(r, k, items, stage)
  BY DEF Enter
<1>2. ~LoopStep(r)
  BY DEF LoopStep, CheckKey, CheckFails, Fetch, FetchFails, ReadFails, FetchBreaks, Put, PutFails,
         UploadFails, Fetching, Putting
<1>3. OrphanCopies(r)
  BY <1>1, <1>2
  DEF RequestNext, ArriveMetrics, ArriveLogs, ArriveTsdb, ArriveRoles, ArriveSingle, Discover,
      DiscoverFails, TriggerSnapshot, TriggerFails, CopySucceeds, CopyFails, CopyTimesOut
<1>. QED
  BY <1>3 DEF OrphanCopies

LEMMA RequestIsLocal ==
  ASSUME TypeOK, NEW r \in Requests, NEW q \in Requests \ {r}, RequestNext(q)
  PROVE  UNCHANGED <<pc[r], todo[r], got[r], answer[r]>>
<1>1. CASE \/ \E force \in BOOLEAN : ArriveMetrics(q, force)
           \/ ArriveLogs(q) \/ ArriveTsdb(q) \/ ArriveRoles(q) \/ ArriveSingle(q)
  <2>1. UNCHANGED got
    BY <1>1 DEF ArriveMetrics, ArriveLogs, ArriveTsdb, ArriveRoles, ArriveSingle, Enter
  <2>. QED
    BY <1>1, <2>1, ArriveFrame
<1>2. CASE \/ LoopStep(q) \/ Discover(q) \/ DiscoverFails(q) \/ TriggerSnapshot(q)
           \/ TriggerFails(q) \/ CopySucceeds(q) \/ CopyFails(q) \/ CopyTimesOut(q)
           \/ OrphanCopies(q)
  BY <1>2, WorkFrame
<1>. QED
  BY <1>1, <1>2 DEF RequestNext

\* Every step of a request takes it further, and no step of anybody else takes
\* it back; once it is answered, it stays so.
ExportsAdvance ==
  \A r \in Requests :
    IF At(r, {"done"})
      THEN UNCHANGED <<pc[r], answer[r]>>
      ELSE /\ RequestNext(r) => Advances(r)
           /\ Advances(r) \/ UNCHANGED <<pc[r], todo[r], got[r]>>

\* No loop of an export goes round without having dealt with an item, whatever
\* fails and is recorded and however the trial moves on: a request is answered
\* after at most a check, a fetch and a put for each of its items and a few
\* commands before.  What MetricsExportEnds adds to this is the fairness alone.
THEOREM NoEndlessExport == Spec => [][ExportsAdvance]_vars
<1>1. ASSUME TypeOK, Next, NEW r \in Requests
      PROVE  IF At(r, {"done"})
               THEN UNCHANGED <<pc[r], answer[r]>>
               ELSE /\ RequestNext(r) => Advances(r)
                    /\ Advances(r) \/ UNCHANGED <<pc[r], todo[r], got[r]>>
  <2>. USE <1>1
  <2>1. CASE RequestNext(r) /\ ~At(r, {"done"})
    BY <2>1, RequestAdvances
  <2>2. CASE RequestNext(r) /\ At(r, {"done"})
    BY <2>2, DoneRests
  <2>3. ASSUME NEW q \in Requests \ {r}, RequestNext(q)
        PROVE  UNCHANGED <<pc[r], todo[r], got[r], answer[r]>>
    BY <2>3, RequestIsLocal
  <2>4. CASE Restart
    <3>1. IF At(r, {"idle", "done"})
            THEN UNCHANGED <<pc[r], todo[r], got[r], answer[r]>>
            ELSE pc'[r] = "done"
      BY <2>4 DEF Restart, At
    <3>2. ~At(r, {"idle", "done"}) => Advances(r)
      BY <3>1, StageAdvances DEF At, Stages
    <3>. QED
      BY <3>1, <3>2, RequestAdvances DEF At
  <2>5. ASSUME TrialMoves
        PROVE  UNCHANGED <<pc[r], todo[r], got[r], answer[r]>>
    BY <2>5 DEF TrialMoves, loopVars
  <2>. QED
    BY <2>1, <2>2, <2>3, <2>4, <2>5 DEF Next
<1>2. TypeOK /\ [Next]_vars => [ExportsAdvance]_vars
  BY <1>1 DEF ExportsAdvance
<1>. QED
  BY <1>2, TypeCorrect, PTL DEF Spec
=============================================================================

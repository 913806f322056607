------------------------- MODULE TwoManagers_proofs -------------------------
(***************************************************************************)
(* Proofs about two managers, for all values of the constants, any number  *)
(* of incarnations, failures and crashes of either: Ready is earned, no    *)
(* wakeup is lost, and, while every incarnation keeps its first spec, no   *)
(* migration is started twice or called failed when it did not.            *)
(*                                                                         *)
(* What ControllerSafety_proofs proves of a manager's own steps and of     *)
(* those it looks on is proved of the second by instantiation.             *)
(***************************************************************************)
EXTENDS TwoManagers, ControllerSafety_proofs

S == INSTANCE ControllerSafety_proofs WITH
    crCache <- crCache2, crFresh <- crFresh2, jobCache <- jobCache2,
    secretCache <- secretCache2, operFresh <- operFresh2,
    pc <- pc2, obj <- obj2, fresh <- fresh2, target <- target2, result <- result2,
    queued <- queued2, timer <- timer2

USE HashAssumption, ConstantsAssumption
    DEF NoName, NoUrl, Token, DatabaseKinds,
        S!NoName, S!NoUrl, S!Token, S!DatabaseKinds

(***************************************************************************)
(* The two instances are about the same steps and the same shared state    *)
(***************************************************************************)

\* What the actions read.
LEMMA SameReads ==
  /\ Second!SeenDBUpgrade = S!SeenDBUpgrade
  /\ Second!SeenJobs = S!SeenJobs
  /\ Second!SeenSecrets = S!SeenSecrets
  /\ Second!ConnectionURL = S!ConnectionURL
  /\ Second!NoSecret = S!NoSecret
  /\ Second!SecretWriteAccepted <=> S!SecretWriteAccepted
  /\ Second!OwnedJobs = S!OwnedJobs
  /\ Second!ExpectedJobName = S!ExpectedJobName
  /\ Second!StaleJobs = S!StaleJobs
  /\ Second!StatusWritten = S!StatusWritten
  BY DEF Second!SeenDBUpgrade, S!SeenDBUpgrade, Second!SeenJobs, S!SeenJobs,
         Second!SeenSecrets, S!SeenSecrets, Second!ConnectionURL, S!ConnectionURL,
         Second!NoSecret, S!NoSecret, Second!SecretWriteAccepted,
         S!SecretWriteAccepted, Second!OwnedJobs, S!OwnedJobs, Second!ExpectedJobName,
         S!ExpectedJobName, Second!StaleJobs, S!StaleJobs, Second!StatusWritten,
         S!StatusWritten, Second!NoUrl, S!NoUrl, Second!Token, S!Token

\* What they write.
LEMMA SameWrites ==
  /\ Second!SecretWritten = S!SecretWritten
  /\ Second!NeedsWrite <=> S!NeedsWrite
  /\ \A s : Second!Validate(s) <=> S!Validate(s)
  /\ \A next : Second!Goto(next) <=> S!Goto(next)
  /\ \A r : Second!Return(r) <=> S!Return(r)
  /\ Second!Done <=> S!Done
  /\ \A new : Second!WriteDBUpgrade(new) <=> S!WriteDBUpgrade(new)
  /\ \A n : Second!DropJob(n) <=> S!DropJob(n)
  /\ Second!Disturbance <=> S!Disturbance
  BY SameReads
     DEF Second!SecretWritten, S!SecretWritten, Second!NeedsWrite, S!NeedsWrite,
         Second!Validate, S!Validate, Second!SecretMissing, S!SecretMissing,
         Second!ConfigMissing, S!ConfigMissing, Second!Goto, S!Goto, Second!Return,
         S!Return, Second!Done, S!Done, Second!WriteDBUpgrade, S!WriteDBUpgrade,
         Second!DropJob, S!DropJob, Second!Disturbance, S!Disturbance, Second!Blocked,
         S!Blocked, Second!Stopped, S!Stopped, Second!Result, S!Result,
         Second!NoResult, S!NoResult, Second!NoJob, S!NoJob, Second!Nothing, S!Nothing,
         Second!NoUrl, S!NoUrl, Second!NoName, S!NoName, Second!isJobRunning,
         S!isJobRunning

\* What is beside a Job about to be created is the same too.
LEMMA SameBeside == Second!Beside <=> S!Beside
  BY DEF Second!Beside, S!Beside, Second!Underway, S!Underway

LEMMA SameReconcile == Second!Reconcile <=> S!Reconcile
  <1>1. /\ Second!Fetch <=> S!Fetch
        /\ Second!FetchNotFound <=> S!FetchNotFound
        /\ Second!SecretUpToDate <=> S!SecretUpToDate
        /\ Second!WriteSecret <=> S!WriteSecret
        /\ Second!SecretError <=> S!SecretError
        /\ Second!ListJobsFails <=> S!ListJobsFails
        /\ Second!WaitForOldJob <=> S!WaitForOldJob
        /\ Second!ReplaceOldJob <=> S!ReplaceOldJob
        /\ Second!SyncJobStatus <=> S!SyncJobStatus
    BY SameReads, SameWrites
       DEF Second!Fetch, S!Fetch, Second!FetchNotFound, S!FetchNotFound,
           Second!SecretUpToDate, S!SecretUpToDate, Second!WriteSecret, S!WriteSecret,
           Second!SecretError, S!SecretError, Second!ListJobsFails, S!ListJobsFails,
           Second!WaitForOldJob, S!WaitForOldJob, Second!ReplaceOldJob,
           S!ReplaceOldJob, Second!SyncJobStatus, S!SyncJobStatus, Second!crVars,
           S!crVars, Second!jobVars, S!jobVars, Second!secretVars, S!secretVars,
           Second!reconciler, S!reconciler, Second!queue, S!queue, Second!history,
           S!history, Second!Waiting, S!Waiting, Second!Blocked, S!Blocked,
           Second!Stopped, S!Stopped, Second!Succeeded, S!Succeeded, Second!Result,
           S!Result, Second!isJobRunning, S!isJobRunning, Second!NoUrl, S!NoUrl
  <1>2. /\ Second!NoJobFound <=> S!NoJobFound
        /\ Second!PreCheckFails <=> S!PreCheckFails
        /\ Second!DeleteJob <=> S!DeleteJob
        /\ Second!CreateJob <=> S!CreateJob
        /\ Second!JobAlreadyExists <=> S!JobAlreadyExists
        /\ Second!CreateJobFails <=> S!CreateJobFails
        /\ Second!UpdateStatus <=> S!UpdateStatus
        /\ Second!UpdateStatusFails <=> S!UpdateStatusFails
    BY SameReads, SameWrites, SameBeside
       DEF Second!NoJobFound, S!NoJobFound, Second!PreCheckFails, S!PreCheckFails,
           Second!DeleteJob, S!DeleteJob, Second!CreateJob, S!CreateJob,
           Second!JobAlreadyExists, S!JobAlreadyExists, Second!CreateJobFails,
           S!CreateJobFails, Second!UpdateStatus, S!UpdateStatus,
           Second!UpdateStatusFails, S!UpdateStatusFails, Second!NoJobExists,
           S!NoJobExists, Second!StatusAccepted, S!StatusAccepted, Second!crVars,
           S!crVars, Second!jobVars, S!jobVars, Second!secretVars, S!secretVars,
           Second!reconciler, S!reconciler, Second!queue, S!queue, Second!history,
           S!history, Second!Waiting, S!Waiting, Second!Blocked, S!Blocked,
           Second!Stopped, S!Stopped, Second!Succeeded, S!Succeeded, Second!Result,
           S!Result, Second!isJobRunning, S!isJobRunning, Second!NoUrl, S!NoUrl
  <1> QED BY <1>1, <1>2 DEF Second!Reconcile, S!Reconcile

\* A step of the second manager is one of S.
LEMMA SecondStep == SecondManager => S!Next
  <1>1. /\ Second!SyncDBUpgrade <=> S!SyncDBUpgrade
        /\ Second!SyncJobs <=> S!SyncJobs
        /\ Second!SyncSecrets <=> S!SyncSecrets
        /\ Second!TimerFires <=> S!TimerFires
        /\ Second!Resync <=> S!Resync
        /\ Second!Crash <=> S!Crash
    BY SameWrites
       DEF Second!SyncDBUpgrade, S!SyncDBUpgrade, Second!SyncJobs, S!SyncJobs,
           Second!SyncSecrets, S!SyncSecrets, Second!TimerFires, S!TimerFires,
           Second!Resync, S!Resync, Second!Crash, S!Crash, Second!Relisted, S!Relisted,
           Second!NoName, S!NoName, Second!Nothing, S!Nothing, Second!NoResult,
           S!NoResult, Second!Stopped, S!Stopped, Second!Result, S!Result,
           Second!crVars, S!crVars, Second!jobVars, S!jobVars, Second!secretVars,
           S!secretVars, Second!reconciler, S!reconciler, Second!queue, S!queue,
           Second!history, S!history
  <1> QED BY <1>1, SameReconcile DEF SecondManager, S!Next, S!Cluster

\* What the two instances say of the shared state, now and after a step, is the same.
LEMMA SameShared ==
  /\ SharedInv' <=> S!SharedInv'
  /\ SharedOnce' <=> S!SharedOnce'
  /\ SharedFailed <=> S!SharedFailed
  /\ SharedFailed' <=> S!SharedFailed'
  /\ JobsStay <=> S!JobsStay
  <1>1. SharedInv' <=> S!SharedInv'
    BY DEF SharedInv, S!SharedInv, DBUpgrade, S!DBUpgrade, Conditions, S!Conditions,
           Job, S!Job, SecretStore, S!SecretStore, OperatorSecret, S!OperatorSecret,
           JobsHonest, S!JobsHonest, ReadyIsEarned, S!ReadyIsEarned,
           Phases, S!Phases, Reasons, S!Reasons
  <1>2. SharedOnce' <=> S!SharedOnce'
    BY DEF SharedOnce, S!SharedOnce, Request, S!Request, Requested, S!Requested,
           HasJob, S!HasJob
  <1>3. SharedFailed <=> S!SharedFailed
    BY DEF SharedFailed, S!SharedFailed, FailedJob, S!FailedJob
  <1>4. SharedFailed' <=> S!SharedFailed'
    BY DEF SharedFailed, S!SharedFailed, FailedJob, S!FailedJob
  <1>5. JobsStay <=> S!JobsStay
    BY DEF JobsStay, S!JobsStay, Stays, S!Stays, Orphaned, S!Orphaned
  <1> QED BY <1>1, <1>2, <1>3, <1>4, <1>5

\* A step of both is a step of one, on which the other looks.
LEMMA BothStep ==
  ASSUME [BothNext]_<<vars, vars2>>
  PROVE  \/ Next /\ S!LooksOn
         \/ S!Next /\ LooksOn
         \/ UNCHANGED <<vars, vars2>>
  <1>1. SecondLooksOn <=> S!LooksOn
    BY DEF SecondLooksOn, S!LooksOn, S!queue
  <1>2. FirstLooksOn <=> LooksOn
    BY DEF FirstLooksOn, LooksOn
  <1> QED BY <1>1, <1>2, SecondStep DEF BothNext

\* Where nothing happens, nothing changes.
LEMMA BothSame ==
  ASSUME UNCHANGED <<vars, vars2>>
  PROVE  UNCHANGED vars /\ UNCHANGED S!vars
  BY DEF vars, vars2, S!vars

(***************************************************************************)
(* Each manager's invariant                                                *)
(***************************************************************************)

LEMMA BothInitInv == BothInit => Inv /\ S!Inv
  <1>1. Second!Init <=> S!Init
    BY DEF Second!Init, S!Init, Second!Absent, S!Absent, Second!NoJob, S!NoJob,
           Second!NoSecret, S!NoSecret, Second!NoUrl, Second!Nothing, S!Nothing,
           Second!NoName, Second!NoResult, S!NoResult, Second!Stopped, S!Stopped,
           Second!Result, S!Result
  <1> QED BY <1>1, InitInv, S!InitInv DEF BothInit

LEMMA BothNextInv ==
  ASSUME Inv, S!Inv, [BothNext]_<<vars, vars2>>
  PROVE  /\ Inv' /\ S!Inv'
         /\ succeeded \subseteq succeeded' /\ asked \subseteq asked'
  <1>1. Inv' => SharedInv'
    BY DEF Inv, TypeOK, SpecsKnown, SharedInv
  <1>2. S!Inv' => S!SharedInv'
    BY DEF S!Inv, S!TypeOK, S!SpecsKnown, S!SharedInv
  <1>3. CASE Next /\ S!LooksOn
    <2>1. Inv' /\ succeeded \subseteq succeeded' /\ asked \subseteq asked'
      BY <1>3, NextInv, HistoryStep, AskedStep
    <2> QED BY <1>1, <1>3, <2>1, SameShared, S!LooksOnInv
  <1>4. CASE S!Next /\ LooksOn
    <2>1. S!Inv' /\ succeeded \subseteq succeeded' /\ asked \subseteq asked'
      BY <1>4, S!NextInv, S!HistoryStep, S!AskedStep
    <2> QED BY <1>2, <1>4, <2>1, SameShared, LooksOnInv
  <1>5. CASE UNCHANGED <<vars, vars2>>
    <2>1. Inv' /\ S!Inv'
      BY <1>5, BothSame, NextInv, S!NextInv
    <2> QED BY <1>5, <2>1 DEF vars
  <1> QED BY <1>3, <1>4, <1>5, BothStep

LEMMA BothAlways == BothSpec => [](Inv /\ S!Inv)
  <1>1. Inv /\ S!Inv /\ [BothNext]_<<vars, vars2>> => (Inv /\ S!Inv)'
    BY BothNextInv
  <1> QED BY <1>1, BothInitInv, PTL DEF BothSpec

\* Ready=True for the current generation is earned however many managers write it.
THEOREM EarnedByEither == BothSpec => []ReadyIsEarned
  <1>1. Inv => ReadyIsEarned
    BY DEF Inv
  <1> QED BY <1>1, BothAlways, PTL

\* No wakeup is lost between two managers that list Jobs from their caches: once
\* nothing is queued, delayed, in flight or undelivered, the status is final.
THEOREM BothSettled == "Job" \in Lagging => (BothSpec => []BothQuietIsSettled)
  <1> SUFFICES ASSUME "Job" \in Lagging PROVE BothSpec => []BothQuietIsSettled
    OBVIOUS
  <1>1. BothInit => Awake
    BY DEF BothInit, Init, Absent, Awake
  <1>2. ASSUME Inv, S!Inv, Inv', Awake, [BothNext]_<<vars, vars2>> PROVE Awake'
    <2>1. CASE Next \/ UNCHANGED <<vars, vars2>>
      BY <1>2, <2>1, AwakeNext, BothSame
    <2>2. CASE LooksOn
      BY <1>2, <2>2, LooksOnAwake
    <2> QED BY <1>2, <2>1, <2>2, BothStep
  <1>3. Awake => BothQuietIsSettled
    BY DEF Awake, BothQuietIsSettled, Quiet, Final, FinalFor, Ended, SeenJobs
  <1> QED BY <1>1, <1>2, <1>3, BothAlways, PTL DEF BothSpec

(***************************************************************************)
(* One generation                                                          *)
(***************************************************************************)

BothOnce == OnceInv /\ S!OnceInv

LEMMA BothOnceAlways == MaxGen = 1 => (BothSpec => []BothOnce)
  <1> SUFFICES ASSUME MaxGen = 1 PROVE BothSpec => []BothOnce
    OBVIOUS
  <1>1. BothInit => BothOnce
    <2> SUFFICES ASSUME BothInit PROVE BothOnce
      OBVIOUS
    <2>1. /\ asked = {} /\ launched = {} /\ ~cr.live /\ pc = "idle" /\ pc2 = "idle"
          /\ ~crCache.live /\ ~crCache2.live
          /\ \A n \in JobNames : jobs[n].phase = "absent" /\ jobCache[n].phase = "absent"
                                   /\ jobCache2[n].phase = "absent"
      BY DEF BothInit, Init, Second!Init, Absent, Second!Absent, NoJob, Second!NoJob
    <2>2. OnceInv
      BY <2>1 DEF OnceInv, AskedKnown, SharedOnce, Requested, SeenDBUpgrade
    <2>3. S!OnceInv
      BY <2>1 DEF S!OnceInv, S!AskedKnown, S!SharedOnce, S!Requested, S!SeenDBUpgrade
    <2> QED BY <2>2, <2>3 DEF BothOnce
  <1>2. ASSUME Inv, S!Inv, BothOnce, [BothNext]_<<vars, vars2>> PROVE BothOnce'
    <2>1. /\ Inv' /\ S!Inv' /\ OnceInv /\ S!OnceInv /\ asked \subseteq asked'
      BY <1>2, BothNextInv DEF BothOnce
    <2>2. (OnceInv' => SharedOnce') /\ (S!OnceInv' => S!SharedOnce')
      BY DEF OnceInv, S!OnceInv
    <2>3. CASE Next /\ S!LooksOn
      <3>1. OnceInv'
        BY <1>2, <2>1, <2>3, OnceNext
      <3> QED BY <2>1, <2>2, <2>3, <3>1, SameShared, S!OnceLooksOn DEF BothOnce
    <2>4. CASE S!Next /\ LooksOn
      <3>1. S!OnceInv'
        BY <1>2, <2>1, <2>4, S!OnceNext
      <3> QED BY <2>1, <2>2, <2>4, <3>1, SameShared, OnceLooksOn DEF BothOnce
    <2>5. CASE UNCHANGED <<vars, vars2>>
      BY <1>2, <2>1, <2>5, BothSame, OnceNext, S!OnceNext DEF BothOnce
    <2> QED BY <1>2, <2>3, <2>4, <2>5, BothStep
  <1> QED BY <1>1, <1>2, BothAlways, PTL DEF BothSpec

\* While an incarnation keeps its first spec, two managers start its migration once,
\* whichever of them was stale, failed or died.
THEOREM LaunchedByOne == MaxGen = 1 => (BothSpec => NoSecondLaunch)
  <1> SUFFICES ASSUME MaxGen = 1 PROVE BothSpec => NoSecondLaunch
    OBVIOUS
  <1> DEFINE Recorded == \A n \in JobNames :
                            Launches(n) /\ ~Orphaned(jobs'[n].owner) => launched' # launched
  <1>1. ASSUME Inv, S!Inv, BothOnce, [BothNext]_<<vars, vars2>> PROVE [Recorded]_vars
    <2> SUFFICES ASSUME NEW n \in JobNames, Launches(n), ~Orphaned(jobs'[n].owner)
                 PROVE  launched' # launched \/ UNCHANGED vars
      OBVIOUS
    <2>1. CASE Next
      BY <1>1, <2>1, OnceLaunched DEF BothOnce
    <2>2. CASE S!Next
      <3>1. S!Launches(n) /\ ~S!Orphaned(jobs'[n].owner)
        BY DEF Launches, S!Launches, Orphaned, S!Orphaned
      <3> QED BY <1>1, <2>2, <3>1, S!OnceLaunched DEF BothOnce
    <2> QED BY <1>1, <2>1, <2>2, BothStep, BothSame
  <1>2. BothSpec => []BothOnce
    BY BothOnceAlways
  <1> QED BY <1>1, <1>2, BothAlways, PTL DEF BothSpec, NoSecondLaunch

\* While an incarnation keeps its first spec and no call fails, JobFailed means that
\* its Job failed, although the other manager may have made or seen it first.
THEOREM FailuresAreReal == MaxGen = 1 => (BothSpec => []FailureIsReal)
  <1> SUFFICES ASSUME MaxGen = 1 PROVE BothSpec => []FailureIsReal
    OBVIOUS
  <1> DEFINE Real == SharedFailed /\ OwnFailed /\ S!OwnFailed
  <1>1. BothInit => Real
    BY DEF BothInit, Init, Absent, SharedFailed, OwnFailed, S!OwnFailed
  <1>2. ASSUME Inv, S!Inv, Inv', S!Inv', BothOnce, BothOnce', Real,
               [BothNext]_<<vars, vars2>>
        PROVE  Real'
    <2>1. /\ OnceInv /\ OnceInv' /\ S!OnceInv /\ S!OnceInv' /\ spent \in Nat
      BY <1>2 DEF BothOnce, Inv, TypeOK
    <2>2. CASE Next /\ S!LooksOn
      <3>1. SharedFailed' /\ OwnFailed' /\ JobsStay
        BY <1>2, <2>1, <2>2, FailedNext, OnceStays
      <3>2. /\ spent' = 0 => spent = 0
            /\ cr'.live => (cr.live /\ cr'.uid = cr.uid) \/ cr'.uid = cr.uid + 1
        BY <1>2, <2>1, <2>2, HistoryStep, UserStep
      <3> QED BY <1>2, <2>1, <2>2, <3>1, <3>2, SameShared, S!FailedLooksOn
    <2>3. CASE S!Next /\ LooksOn
      <3>1. S!SharedFailed' /\ S!OwnFailed' /\ S!JobsStay
        BY <1>2, <2>1, <2>3, SameShared, S!FailedNext, S!OnceStays
      <3>2. /\ spent' = 0 => spent = 0
            /\ cr'.live => (cr.live /\ cr'.uid = cr.uid) \/ cr'.uid = cr.uid + 1
        BY <1>2, <2>1, <2>3, S!HistoryStep, S!UserStep
      <3> QED BY <1>2, <2>1, <2>3, <3>1, <3>2, SameShared, FailedLooksOn
    <2>4. CASE UNCHANGED <<vars, vars2>>
      <3>1. SharedFailed' /\ OwnFailed'
        BY <1>2, <2>1, <2>4, BothSame, FailedNext
      <3>2. S!OwnFailed'
        BY <1>2, <2>1, <2>4, BothSame, SameShared, S!FailedNext
      <3> QED BY <3>1, <3>2
    <2> QED BY <1>2, <2>2, <2>3, <2>4, BothStep
  <1>3. Real => FailureIsReal
    BY DEF SharedFailed, FailedJob, FailureIsReal
  <1>4. BothSpec => []BothOnce
    BY BothOnceAlways
  <1> QED BY <1>1, <1>2, <1>3, <1>4, BothAlways, PTL DEF BothSpec

=============================================================================

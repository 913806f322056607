--------------------- MODULE DBUpgradeController_proofs ---------------------
(***************************************************************************)
(* Proofs about DBUpgradeController for all values of its constants: type  *)
(* correctness, ReadyIsEarned, and OneJobAtATime when Jobs are not read    *)
(* from an old cache.                                                      *)
(***************************************************************************)
EXTENDS DBUpgradeController, TLAPS

USE DEF crVars, jobVars, secretVars, reconciler, queue, history

(***************************************************************************)
(* The values the actions write                                            *)
(***************************************************************************)

\* An object that does not exist is typed and claims nothing.
LEMMA AbsentType ==
  ASSUME NEW u \in 0..MaxUid
  PROVE  /\ Absent(u) \in DBUpgrade /\ Conditions(Absent(u))
         /\ ~Absent(u).live /\ Absent(u).observed = 0 /\ Absent(u).gen = 0
  BY ConstantsAssumption DEF Absent, DBUpgrade, Conditions, Reasons

\* So are the empty values of Jobs, Secrets and fetched objects.
LEMMA NothingType ==
  /\ NoJob \in Job /\ NoJob.phase = "absent"
  /\ NoSecret \in OperatorSecret
  /\ Nothing \in Fetched
  <1>1. 0 \in 0..MaxUid /\ 0 \in 0..MaxGen
    BY ConstantsAssumption
  <1>2. NoJob \in Job /\ NoJob.phase = "absent"
    BY <1>1 DEF NoJob, Job, Phases
  <1>3. NoSecret \in OperatorSecret
    BY <1>1 DEF NoSecret, OperatorSecret
  <1>4. Nothing \in Fetched
    BY <1>1 DEF Nothing, Fetched
  <1> QED BY <1>2, <1>3, <1>4

\* No result that waits, retries or stops claims Ready.
LEMMA ResultTypes ==
  ASSUME NEW reason \in Reasons
  PROVE  /\ Waiting(reason) \in ReconcileResult /\ Conditions(Waiting(reason))
         /\ Blocked(reason) \in ReconcileResult /\ Conditions(Blocked(reason))
         /\ Stopped(reason) \in ReconcileResult /\ Conditions(Stopped(reason))
         /\ ~Waiting(reason).ready /\ ~Blocked(reason).ready /\ ~Stopped(reason).ready
  BY DEF Waiting, Blocked, Stopped, Result, ReconcileResult, Conditions

\* Succeeded claims Ready and nothing else; the empty result claims nothing.
LEMMA OtherResultTypes ==
  /\ Succeeded \in ReconcileResult /\ Conditions(Succeeded)
  /\ NoResult \in ReconcileResult /\ Conditions(NoResult) /\ ~NoResult.ready
  BY DEF Succeeded, NoResult, Stopped, Result, ReconcileResult, Conditions, Reasons

\* Every initial state satisfies the inductive invariant.
LEMMA InitInv == Init => Inv
  <1> SUFFICES ASSUME Init PROVE Inv
    OBVIOUS
  <1>1. TypeOK
    <2>1. 0 \in 0..MaxUid /\ 0 \in 0..MaxDisturbances
      BY ConstantsAssumption
    <2>2. cr \in DBUpgrade /\ crCache \in DBUpgrade /\ Conditions(cr) /\ Conditions(crCache)
      BY <2>1, AbsentType DEF Init
    <2>3. jobs \in [JobNames -> Job] /\ jobCache \in [JobNames -> Job]
      BY NothingType DEF Init
    <2>4. secrets \in SecretStore /\ secretCache \in SecretStore
      BY NothingType DEF Init, SecretStore
    <2>5. obj \in Fetched /\ result \in ReconcileResult /\ Conditions(result)
      BY NothingType, OtherResultTypes DEF Init
    <2>6. crFresh \in BOOLEAN /\ operFresh \in BOOLEAN /\ fresh \in BOOLEAN
          /\ queued \in BOOLEAN /\ timer \in BOOLEAN
          /\ pc = "idle" /\ pc \in Pcs /\ target \in JobNames \cup {NoName}
      BY DEF Init, Pcs
    <2>7. /\ succeeded \subseteq (0..MaxUid) \X (Specs \cup {NoSpec})
          /\ database \in (0..MaxUid) \X (Specs \cup {NoSpec})
          /\ launched \subseteq (0..MaxUid) \X (0..MaxGen)
          /\ asked \subseteq (0..MaxUid) \X (0..MaxGen) \X (Specs \cup {NoSpec})
          /\ lingering \subseteq Job /\ overlapped \in BOOLEAN
          /\ spent \in 0..MaxDisturbances
      BY <2>1 DEF Init
    <2> QED BY <2>2, <2>3, <2>4, <2>5, <2>6, <2>7 DEF TypeOK
  <1>2. ~cr.live /\ ~crCache.live /\ cr.observed <= cr.gen
    BY AbsentType, ConstantsAssumption DEF Init
  <1>3. JobsHonest(jobs) /\ JobsHonest(jobCache)
    BY NothingType DEF Init, JobsHonest
  <1>4. VersionsHonest /\ SpecsKnown /\ ResultEarned /\ ReadyIsEarned
    BY <1>2, OtherResultTypes
       DEF Init, VersionsHonest, SpecsKnown, ResultEarned, ReadyIsEarned
  <1> QED BY <1>1, <1>2, <1>3, <1>4 DEF Inv

(***************************************************************************)
(* What the steps share                                                    *)
(***************************************************************************)

\* A step that leaves the object, its cached copy and the reconcile alone.
LEMMA SameObject ==
  ASSUME Inv, UNCHANGED <<cr, crCache, crFresh, pc, obj, fresh, result>>,
         succeeded \subseteq succeeded'
  PROVE  /\ VersionsHonest' /\ SpecsKnown' /\ (cr.observed <= cr.gen)'
         /\ ResultEarned' /\ ReadyIsEarned'
  BY DEF Inv, VersionsHonest, SpecsKnown, ResultEarned, ReadyIsEarned

\* A step that only lets the history of successes grow.
LEMMA SameJobs ==
  ASSUME Inv, succeeded \subseteq succeeded'
  PROVE  /\ jobs' = jobs => JobsHonest(jobs)'
         /\ jobCache' = jobCache => JobsHonest(jobCache)'
  BY DEF Inv, JobsHonest

\* What the cached reads return is typed, and a Job they show complete is.
LEMMA CachedReads ==
  ASSUME Inv
  PROVE  /\ SeenDBUpgrade \in DBUpgrade
         /\ SeenDBUpgrade.live => SeenDBUpgrade.spec \in Specs
         /\ SeenJobs \in [JobNames -> Job] /\ JobsHonest(SeenJobs)
         /\ SeenSecrets \in SecretStore
  BY DEF Inv, TypeOK, SpecsKnown, SeenDBUpgrade, SeenJobs, SeenSecrets

(***************************************************************************)
(* Users                                                                   *)
(***************************************************************************)

\* What users asked for is recorded with every write of the object.
LEMMA AskedType ==
  ASSUME Inv, NEW new \in DBUpgrade, WriteDBUpgrade(new)
  PROVE  asked' \subseteq (0..MaxUid) \X (0..MaxGen) \X (Specs \cup {NoSpec})
  <1>1. asked \subseteq (0..MaxUid) \X (0..MaxGen) \X (Specs \cup {NoSpec})
    BY DEF Inv, TypeOK
  <1>2. /\ new.uid \in 0..MaxUid /\ new.gen \in 0..MaxGen
        /\ new.spec \in Specs \cup {NoSpec}
    BY DEF DBUpgrade
  <1>3. asked' \subseteq asked \cup {<<new.uid, new.gen, new.spec>>}
    BY DEF WriteDBUpgrade
  <1> QED BY <1>1, <1>2, <1>3

\* One lemma for each group of actions.  A new object: its status is empty, and
\* copies of older incarnations no longer count as fresh.
LEMMA CreateDBUpgradeInv ==
  ASSUME Inv, NEW s \in Specs, CreateDBUpgrade(s)
  PROVE  Inv'
  <1> DEFINE new == [Absent(cr.uid + 1) EXCEPT !.live = TRUE, !.gen = 1, !.spec = s]
  <1>1. cr \in DBUpgrade /\ cr.uid + 1 \in 0..MaxUid /\ 1 \in 0..MaxGen
    BY ConstantsAssumption DEF Inv, TypeOK, CreateDBUpgrade, DBUpgrade
  <1>2. /\ new \in DBUpgrade /\ new.spec = s
        /\ new.gen = 1 /\ new.observed = 0 /\ new.ready = FALSE
    <2>1. /\ Absent(cr.uid + 1) \in DBUpgrade
          /\ Absent(cr.uid + 1).observed = 0 /\ Absent(cr.uid + 1).ready = FALSE
      BY <1>1, AbsentType DEF Absent
    <2> QED BY <1>1, <2>1 DEF DBUpgrade
  <1>3. cr' = new /\ crFresh' = FALSE /\ fresh' = FALSE
    BY DEF CreateDBUpgrade, WriteDBUpgrade
  <1>9. asked' \subseteq (0..MaxUid) \X (0..MaxGen) \X (Specs \cup {NoSpec})
    BY <1>2, AskedType DEF CreateDBUpgrade
  <1> HIDE DEF new
  <1>4. TypeOK'
    BY <1>2, <1>3, <1>9 DEF Inv, TypeOK, Conditions, CreateDBUpgrade, WriteDBUpgrade
  <1>5. JobsHonest(jobs)' /\ JobsHonest(jobCache)'
    BY SameJobs DEF CreateDBUpgrade
  <1>6. VersionsHonest' /\ SpecsKnown'
    BY <1>2, <1>3
       DEF Inv, VersionsHonest, SpecsKnown, CreateDBUpgrade, WriteDBUpgrade
  <1>8. (cr.observed <= cr.gen)' /\ ReadyIsEarned'
    BY <1>2, <1>3 DEF ReadyIsEarned
  <1>7. ResultEarned'
    BY DEF Inv, ResultEarned, CreateDBUpgrade
  <1> QED BY <1>4, <1>5, <1>6, <1>7, <1>8 DEF Inv

\* A new generation: a status that says Ready is no longer about it.
LEMMA UpdateSpecInv ==
  ASSUME Inv, NEW s \in Specs, UpdateSpec(s)
  PROVE  Inv'
  <1>1. cr \in DBUpgrade /\ cr.gen + 1 \in 0..MaxGen /\ cr.observed <= cr.gen
    BY ConstantsAssumption DEF Inv, TypeOK, UpdateSpec, DBUpgrade
  <1>2. /\ cr' = [cr EXCEPT !.spec = s, !.gen = cr.gen + 1]
        /\ crFresh' = FALSE /\ fresh' = FALSE
    BY DEF UpdateSpec, WriteDBUpgrade
  <1>3. /\ cr' \in DBUpgrade /\ cr'.spec = s /\ cr'.gen = cr.gen + 1
        /\ cr'.observed = cr.observed /\ cr'.live = cr.live
        /\ Conditions(cr) => Conditions(cr)'
    BY <1>1, <1>2 DEF DBUpgrade, Conditions
  <1>9. asked' \subseteq (0..MaxUid) \X (0..MaxGen) \X (Specs \cup {NoSpec})
    BY <1>2, <1>3, AskedType DEF UpdateSpec, WriteDBUpgrade
  <1>4. TypeOK'
    BY <1>2, <1>3, <1>9 DEF Inv, TypeOK, UpdateSpec, WriteDBUpgrade
  <1>5. JobsHonest(jobs)' /\ JobsHonest(jobCache)'
    BY SameJobs DEF UpdateSpec
  <1>6. (cr.observed < cr.gen)'
    BY <1>1, <1>3 DEF DBUpgrade
  <1>7. VersionsHonest' /\ SpecsKnown' /\ (cr.observed <= cr.gen)' /\ ReadyIsEarned'
    BY <1>1, <1>2, <1>3, <1>6
       DEF Inv, VersionsHonest, SpecsKnown, ReadyIsEarned, UpdateSpec,
           WriteDBUpgrade, DBUpgrade
  <1>8. ResultEarned'
    BY DEF Inv, ResultEarned, UpdateSpec
  <1> QED BY <1>4, <1>5, <1>7, <1>8 DEF Inv

\* A deleted object claims nothing, and the reconciler's copy is no longer fresh.
LEMMA DeleteDBUpgradeInv ==
  ASSUME Inv, DeleteDBUpgrade
  PROVE  Inv'
  <1>1. cr.uid \in 0..MaxUid
    BY DEF Inv, TypeOK, DBUpgrade
  <1>2. /\ cr' = Absent(cr.uid) /\ crFresh' = FALSE /\ fresh' = FALSE /\ crCache' = crCache
        /\ spent' \in 0..MaxDisturbances
    BY ConstantsAssumption
       DEF DeleteDBUpgrade, WriteDBUpgrade, Disturbance, Inv, TypeOK
  <1>3. /\ Absent(cr.uid) \in DBUpgrade /\ Conditions(Absent(cr.uid))
        /\ ~Absent(cr.uid).live /\ Absent(cr.uid).observed <= Absent(cr.uid).gen
    BY <1>1, AbsentType
  <1>9. asked' \subseteq (0..MaxUid) \X (0..MaxGen) \X (Specs \cup {NoSpec})
    BY <1>3, AskedType DEF DeleteDBUpgrade
  <1>4. TypeOK'
    BY <1>2, <1>3, <1>9 DEF Inv, TypeOK, DeleteDBUpgrade
  <1>5. JobsHonest(jobs)' /\ JobsHonest(jobCache)'
    BY SameJobs DEF DeleteDBUpgrade
  <1>6. VersionsHonest' /\ SpecsKnown' /\ (cr.observed <= cr.gen)' /\ ReadyIsEarned'
        /\ ResultEarned'
    BY <1>2, <1>3
       DEF Inv, VersionsHonest, SpecsKnown, ReadyIsEarned, ResultEarned,
           DeleteDBUpgrade
  <1> QED BY <1>4, <1>5, <1>6 DEF Inv

\* The customer's Secret is no part of what Ready claims.
LEMMA CustomerSecretInv ==
  ASSUME Inv, RotateSecret \/ RemoveSecret
  PROVE  Inv'
  <1>1. PICK u \in Urls \cup {NoUrl} : WriteCustomerSecret(u)
    BY DEF RotateSecret, RemoveSecret
  <1>2. spent' \in 0..MaxDisturbances
    BY ConstantsAssumption
       DEF RotateSecret, RemoveSecret, Disturbance, Inv, TypeOK
  <1>3. secrets' \in SecretStore
    BY <1>1 DEF WriteCustomerSecret, Inv, TypeOK, SecretStore
  <1>4. TypeOK'
    BY <1>1, <1>2, <1>3 DEF Inv, TypeOK, WriteCustomerSecret
  <1> QED
    BY <1>1, <1>4, SameObject, SameJobs DEF Inv, WriteCustomerSecret

(***************************************************************************)
(* Job controller, garbage collector, informers                            *)
(***************************************************************************)

\* A Job that changes phase, to complete only when its success is recorded.
LEMMA SetPhaseInv ==
  ASSUME Inv, NEW n \in JobNames, NEW phase \in Phases \ {"absent"},
         SetPhase(n, phase), jobs[n].phase # "absent",
         \/ phase # "complete" /\ succeeded' = succeeded /\ database' = database
         \/ /\ database' = <<jobs[n].owner, jobs[n].spec>>
            /\ succeeded' = succeeded \cup {database'}
  PROVE  Inv'
  <1>1. /\ jobs \in [JobNames -> Job]
        /\ jobs[n].owner \in 0..MaxUid /\ jobs[n].spec \in Specs \cup {NoSpec}
    BY DEF Inv, TypeOK, Job
  <1>2. jobs' = [jobs EXCEPT ![n].phase = phase]
    BY DEF SetPhase
  <1>3. jobs' \in [JobNames -> Job]
    BY <1>1, <1>2 DEF Job
  <1>4. TypeOK'
    BY <1>1, <1>3 DEF Inv, TypeOK, SetPhase
  <1>5. succeeded \subseteq succeeded'
    OBVIOUS
  <1>6. JobsHonest(jobs)'
    BY <1>1, <1>2 DEF Inv, JobsHonest, Job
  <1>7. JobsHonest(jobCache)'
    BY <1>5, SameJobs DEF SetPhase
  <1> QED
    BY <1>4, <1>5, <1>6, <1>7, SameObject DEF Inv, SetPhase

\* The Job controller and the kubelet advance a Job.
LEMMA JobAdvancesInv ==
  ASSUME Inv, NEW n \in JobNames, JobAdvances(n)
  PROVE  Inv'
  <1>1. CASE StartPod(n)
    BY <1>1, SetPhaseInv DEF StartPod, Phases
  <1>2. CASE StartContainer(n)
    BY <1>2, SetPhaseInv DEF StartContainer, Phases
  <1>3. CASE JobSucceeds(n)
    BY <1>3, SetPhaseInv DEF JobSucceeds, Phases
  <1>4. CASE JobFails(n)
    BY <1>4, SetPhaseInv DEF JobFails, isJobRunning, Phases
  <1> QED BY <1>1, <1>2, <1>3, <1>4 DEF JobAdvances

\* Removing a Job, by the collector or by the reconcile; its pod may run on.
LEMMA RemoveJob ==
  ASSUME Inv, NEW n \in JobNames, DropJob(n), succeeded' = succeeded
  PROVE  /\ jobs' \in [JobNames -> Job] /\ JobsHonest(jobs)'
         /\ lingering' \subseteq Job
  <1>1. jobs \in [JobNames -> Job] /\ JobsHonest(jobs)
    BY DEF Inv, TypeOK
  <1>2. jobs' \in [JobNames -> Job] /\ JobsHonest(jobs)'
    BY <1>1, NothingType DEF JobsHonest, DropJob
  <1>3. lingering' \subseteq Job
    BY <1>1 DEF DropJob, Inv, TypeOK
  <1> QED BY <1>2, <1>3

\* The garbage collector removes Jobs and Secrets.
LEMMA CollectInv ==
  ASSUME Inv, CollectSecret \/ \E n \in JobNames : CollectJob(n)
  PROVE  Inv'
  <1>1. CASE CollectSecret
    <2>1. secrets' \in SecretStore
      BY <1>1, NothingType DEF CollectSecret, Inv, TypeOK, SecretStore
    <2>2. TypeOK'
      BY <1>1, <2>1 DEF Inv, TypeOK, CollectSecret
    <2> QED BY <1>1, <2>2, SameObject, SameJobs DEF Inv, CollectSecret
  <1>2. ASSUME NEW n \in JobNames, CollectJob(n) PROVE Inv'
    <2>1. /\ jobs' \in [JobNames -> Job] /\ JobsHonest(jobs)'
          /\ lingering' \subseteq Job
      BY <1>2, RemoveJob DEF CollectJob
    <2>2. TypeOK'
      BY <1>2, <2>1 DEF Inv, TypeOK, CollectJob
    <2> QED BY <1>2, <2>1, <2>2, SameObject, SameJobs DEF Inv, CollectJob
  <1> QED BY <1>1, <1>2

\* A cache is refreshed, or the key is queued.
LEMMA SyncInv ==
  ASSUME Inv, SyncDBUpgrade \/ SyncJobs \/ SyncSecrets \/ TimerFires \/ Resync
  PROVE  Inv'
  <1>1. CASE SyncDBUpgrade
    BY <1>1, SameJobs
       DEF Inv, SyncDBUpgrade, TypeOK, VersionsHonest, SpecsKnown, ResultEarned,
           ReadyIsEarned
  <1>2. CASE SyncJobs
    BY <1>2, SameObject DEF Inv, SyncJobs, TypeOK, JobsHonest
  <1>3. CASE SyncSecrets
    BY <1>3, SameObject, SameJobs DEF Inv, SyncSecrets, TypeOK
  <1>4. CASE TimerFires
    BY <1>4, SameObject, SameJobs DEF Inv, TimerFires, TypeOK
  <1>5. CASE Resync
    <2>1. spent' \in 0..MaxDisturbances
      BY <1>5, ConstantsAssumption DEF Resync, Disturbance, Inv, TypeOK
    <2> QED BY <1>5, <2>1, SameObject, SameJobs DEF Inv, Resync, TypeOK
  <1> QED BY <1>1, <1>2, <1>3, <1>4, <1>5

\* A pod that outlived its Job starts or ends.
LEMMA LingeringPodInv ==
  ASSUME Inv, LingeringPodAdvances
  PROVE  Inv'
  <1>1. PICK job \in lingering :
           \/ lingering' = lingering \ {job} /\ database' = database
           \/ /\ lingering' = (lingering \ {job}) \cup {[job EXCEPT !.phase = "running"]}
              /\ database' = database
           \/ lingering' = lingering \ {job} /\ database' = <<job.owner, job.spec>>
    BY DEF LingeringPodAdvances
  <1>2. job \in Job /\ [job EXCEPT !.phase = "running"] \in Job
    BY <1>1 DEF Inv, TypeOK, Job, Phases
  <1>3. lingering' \subseteq Job
    BY <1>1, <1>2 DEF Inv, TypeOK
  <1>4. database' \in (0..MaxUid) \X (Specs \cup {NoSpec})
    BY <1>1, <1>2 DEF Inv, TypeOK, Job
  <1>5. TypeOK'
    BY <1>3, <1>4 DEF Inv, TypeOK, LingeringPodAdvances
  <1> QED BY <1>5, SameObject, SameJobs DEF Inv, LingeringPodAdvances

\* The manager dies: what it held is gone; its successor has caches of its own.
LEMMA CrashInv ==
  ASSUME Inv, Crash
  PROVE  Inv'
  <1>1. spent' \in 0..MaxDisturbances
    BY ConstantsAssumption DEF Crash, Disturbance, Inv, TypeOK
  <1>2. /\ crCache' \in {crCache, cr} /\ crFresh' \in {crFresh, TRUE}
        /\ crFresh' => crCache' = cr \/ (crFresh /\ crCache' = crCache)
        /\ jobCache' \in {jobCache, jobs} /\ secretCache' \in {secretCache, secrets}
        /\ operFresh' \in {operFresh, TRUE}
    <2>1. CASE Relisted
      BY <2>1 DEF Relisted
    <2>2. CASE UNCHANGED <<crCache, crFresh, jobCache, secretCache, operFresh>>
      BY <2>2
    <2> QED BY <2>1, <2>2 DEF Crash
  <1>3. cr \in DBUpgrade /\ crCache \in DBUpgrade /\ crCache'.live \in BOOLEAN
    BY <1>2 DEF Inv, TypeOK, DBUpgrade
  <1>4. /\ pc' = "idle" /\ obj' \in Fetched /\ fresh' = FALSE /\ target' = NoName
        /\ result' \in ReconcileResult /\ Conditions(result)' /\ ~result'.ready
        /\ queued' \in BOOLEAN /\ timer' = FALSE
    BY <1>3, NothingType, OtherResultTypes DEF Crash, Conditions
  <1>5. TypeOK'
    BY <1>1, <1>2, <1>3, <1>4 DEF Inv, TypeOK, Crash, Pcs
  <1>6. VersionsHonest' /\ SpecsKnown' /\ (cr.observed <= cr.gen)' /\ ReadyIsEarned'
        /\ ResultEarned'
    BY <1>2, <1>4
       DEF Inv, Crash, VersionsHonest, SpecsKnown, ReadyIsEarned, ResultEarned
  <1>7. JobsHonest(jobs)' /\ JobsHonest(jobCache)'
    BY <1>2 DEF Inv, Crash, JobsHonest
  <1> QED BY <1>5, <1>6, <1>7 DEF Inv

(***************************************************************************)
(* The reconcile                                                           *)
(***************************************************************************)

\* reconcileDBUpgrade returns r, which claims Ready only of a completed Job.
LEMMA ReturnStep ==
  ASSUME Inv, pc # "idle", NEW r \in ReconcileResult, Conditions(r), Return(r),
         r.ready => <<obj.uid, obj.spec>> \in succeeded,
         UNCHANGED <<cr, crCache, crFresh, fresh, succeeded>>
  PROVE  /\ VersionsHonest' /\ SpecsKnown' /\ (cr.observed <= cr.gen)'
         /\ ResultEarned' /\ ReadyIsEarned'
         /\ pc' = "status" /\ pc' \in Pcs /\ target' \in JobNames \cup {NoName}
         /\ obj' = obj
         /\ result' \in ReconcileResult /\ Conditions(result)'
  BY DEF Inv, Return, VersionsHonest, SpecsKnown, ResultEarned, ReadyIsEarned,
         Conditions, Pcs

\* The reconcile goes on to another call.
LEMMA GotoStep ==
  ASSUME Inv, pc \notin {"idle", "status"}, NEW next \in Pcs, pc' = next,
         UNCHANGED <<cr, crCache, crFresh, obj, fresh, result, succeeded>>
  PROVE  /\ VersionsHonest' /\ SpecsKnown' /\ (cr.observed <= cr.gen)'
         /\ ResultEarned' /\ ReadyIsEarned' /\ pc' \in Pcs
  BY DEF Inv, VersionsHonest, SpecsKnown, ResultEarned, ReadyIsEarned

\* The disturbances stay within their bound.
LEMMA DisturbanceType ==
  ASSUME Inv, Disturbance \/ UNCHANGED spent
  PROVE  spent' \in 0..MaxDisturbances
  BY ConstantsAssumption DEF Disturbance, Inv, TypeOK

\* The reconciler's copy is fresh only if the cached one was.
LEMMA FetchInv ==
  ASSUME Inv, Fetch \/ FetchNotFound
  PROVE  Inv'
  <1>1. CASE FetchNotFound
    BY <1>1, SameObject, SameJobs DEF Inv, FetchNotFound, TypeOK
  <1>2. CASE Fetch
    <2> DEFINE o == SeenDBUpgrade
    <2>1. /\ o \in DBUpgrade /\ o.spec \in Specs
          /\ obj' = [uid |-> o.uid, gen |-> o.gen, spec |-> o.spec]
      BY <1>2, CachedReads DEF Fetch
    <2>2. obj' \in Fetched /\ obj'.spec \in Specs
      BY <2>1 DEF DBUpgrade, Fetched
    <2>3. ~result.ready
      BY <1>2 DEF Inv, ResultEarned, Fetch
    <2>4. /\ result' \in ReconcileResult /\ Conditions(result)' /\ ~result'.ready
          /\ pc' \in Pcs /\ pc' # "delete"
      <3>1. "SecretNotFound" \in Reasons /\ "AWSNotSupported" \in Reasons
        BY DEF Reasons
      <3>2. \/ result' = result
            \/ result' = Blocked("SecretNotFound")
            \/ result' = Stopped("AWSNotSupported")
        BY <1>2 DEF Fetch, Validate
      <3>3. pc' \in {"status", "secret"}
        BY <1>2 DEF Fetch, Validate
      <3> QED BY <2>3, <3>1, <3>2, <3>3, ResultTypes DEF Inv, TypeOK, Conditions, Pcs
    <2>5. fresh' => o = cr /\ cr.live
      BY <1>2 DEF Fetch, SeenDBUpgrade, Inv, VersionsHonest
    <2>6. fresh' \in BOOLEAN
      BY <1>2 DEF Fetch, Inv, TypeOK
    <2>7. TypeOK'
      BY <1>2, <2>2, <2>4, <2>6 DEF Inv, TypeOK, Fetch
    <2>8. VersionsHonest' /\ SpecsKnown' /\ (cr.observed <= cr.gen)' /\ ReadyIsEarned'
      BY <1>2, <2>1, <2>2, <2>5
         DEF Inv, Fetch, VersionsHonest, SpecsKnown, ReadyIsEarned
    <2>9. ResultEarned'
      BY <2>4 DEF ResultEarned
    <2>10. JobsHonest(jobs)' /\ JobsHonest(jobCache)'
      BY <1>2, SameJobs DEF Fetch
    <2> QED BY <2>7, <2>8, <2>9, <2>10 DEF Inv
  <1> QED BY <1>1, <1>2

\* ensureMigrationSecret goes on to the Jobs or reports an error.
LEMMA SecretInv ==
  ASSUME Inv, SecretUpToDate \/ WriteSecret \/ SecretError
  PROVE  Inv'
  <1>1. CASE SecretUpToDate
    BY <1>1, GotoStep, SameJobs DEF Inv, SecretUpToDate, Goto, TypeOK, Pcs
  <1>2. ASSUME pc = "secret", Return(Blocked("SecretNotFound")),
               UNCHANGED <<crVars, fresh, history>>
        PROVE  /\ VersionsHonest' /\ SpecsKnown' /\ (cr.observed <= cr.gen)'
               /\ ResultEarned' /\ ReadyIsEarned'
               /\ pc' = "status" /\ pc' \in Pcs /\ target' \in JobNames \cup {NoName}
         /\ obj' = obj
               /\ result' \in ReconcileResult /\ Conditions(result)'
    <2>1. "SecretNotFound" \in Reasons
      BY DEF Reasons
    <2> QED BY <1>2, <2>1, ResultTypes, ReturnStep
  <1>3. CASE WriteSecret
    <2>1. SecretWritten \in OperatorSecret
      <3>1. ConnectionURL \in Urls \cup {NoUrl, Token}
        BY CachedReads DEF ConnectionURL, SecretStore
      <3>2. secrets.oper \in OperatorSecret /\ obj.uid \in 0..MaxUid
        BY DEF Inv, TypeOK, SecretStore, Fetched
      <3> QED BY <3>1, <3>2 DEF SecretWritten, OperatorSecret
    <2>2. secrets' \in SecretStore
      BY <1>3, <2>1 DEF WriteSecret, Inv, TypeOK, SecretStore
    <2>3. spent' \in 0..MaxDisturbances
      BY <1>3, DisturbanceType DEF WriteSecret
    <2>4. CASE Goto("job")
      <3>1. TypeOK'
        BY <1>3, <2>2, <2>3, <2>4 DEF Inv, TypeOK, WriteSecret, Goto, Pcs
      <3> QED BY <1>3, <2>4, <3>1, GotoStep, SameJobs DEF Inv, WriteSecret, Goto, Pcs
    <2>5. CASE Return(Blocked("SecretNotFound"))
      <3>1. TypeOK'
        BY <1>2, <1>3, <2>2, <2>3, <2>5 DEF Inv, TypeOK, WriteSecret
      <3> QED BY <1>2, <1>3, <2>5, <3>1, SameJobs DEF Inv, WriteSecret
    <2> QED BY <1>3, <2>4, <2>5 DEF WriteSecret
  <1>4. CASE SecretError
    <2>1. spent' \in 0..MaxDisturbances
      BY <1>4, DisturbanceType DEF SecretError
    <2>2. TypeOK'
      BY <1>2, <1>4, <2>1 DEF Inv, TypeOK, SecretError
    <2> QED BY <1>2, <1>4, <2>2, SameJobs DEF Inv, SecretError
  <1> QED BY <1>1, <1>3, <1>4

\* A step that returns a result and changes nothing else.
LEMMA ReportStep ==
  ASSUME Inv, pc # "idle", NEW r \in ReconcileResult, Conditions(r), Return(r),
         r.ready => <<obj.uid, obj.spec>> \in succeeded,
         UNCHANGED <<crVars, jobVars, secretVars, fresh, queue, history>>,
         Disturbance \/ UNCHANGED spent
  PROVE  Inv'
  <1>1. spent' \in 0..MaxDisturbances
    BY DisturbanceType
  <1>2. TypeOK'
    BY <1>1, ReturnStep DEF Inv, TypeOK
  <1> QED BY <1>2, ReturnStep, SameJobs DEF Inv

\* A Job that is neither old nor absent runs the spec of the fetched object.
LEMMA CurrentJob ==
  ASSUME Inv, pc = "job", NEW n \in OwnedJobs \ StaleJobs,
         SeenJobs[n].phase = "complete"
  PROVE  <<obj.uid, obj.spec>> \in succeeded
  <1>1. n \in JobNames /\ SeenJobs[n].owner = obj.uid /\ n = computeSpecHash[obj.spec]
    BY DEF OwnedJobs, StaleJobs, ExpectedJobName
  <1>2. /\ SeenJobs[n].spec \in Specs /\ computeSpecHash[SeenJobs[n].spec] = n
        /\ <<SeenJobs[n].owner, SeenJobs[n].spec>> \in succeeded
    BY <1>1, CachedReads DEF JobsHonest
  <1>3. obj.spec \in Specs
    BY DEF Inv, SpecsKnown
  <1> QED BY <1>1, <1>2, <1>3, HashAssumption

\* Of what getJobForDBUpgrade finds, only a completed current Job is a success.
LEMMA FindJobInv ==
  ASSUME Inv,
         \/ ListJobsFails \/ WaitForOldJob \/ ReplaceOldJob \/ SyncJobStatus
         \/ NoJobFound \/ PreCheckFails
  PROVE  Inv'
  <1> USE DEF Reasons
  <1>1. CASE WaitForOldJob
    BY <1>1, ReportStep, ResultTypes DEF WaitForOldJob
  <1>2. CASE ReplaceOldJob
    <2>1. target' \in JobNames
      BY <1>2 DEF ReplaceOldJob, StaleJobs, OwnedJobs
    <2>2. TypeOK'
      BY <1>2, <2>1 DEF Inv, TypeOK, ReplaceOldJob, Pcs
    <2> QED BY <1>2, <2>2, GotoStep, SameJobs DEF Inv, ReplaceOldJob, Pcs
  <1>3. CASE SyncJobStatus
    <2>1. PICK n \in OwnedJobs \ StaleJobs :
            \/ SeenJobs[n].phase = "complete" /\ Return(Succeeded)
            \/ Return(Waiting("PostCheckBakeTimeWaiting"))
            \/ Return(Blocked("PostCheckFailed"))
            \/ Return(Stopped("JobFailed"))
            \/ Return(Waiting("MigrationInProgress"))
            \/ Return(Waiting("JobPending"))
      BY <1>3 DEF SyncJobStatus
    <2>2. /\ pc = "job" /\ UNCHANGED <<crVars, jobVars, secretVars, fresh, queue, history>>
          /\ Disturbance \/ UNCHANGED spent
      BY <1>3 DEF SyncJobStatus
    <2>3. CASE SeenJobs[n].phase = "complete" /\ Return(Succeeded)
      BY <2>2, <2>3, CurrentJob, ReportStep, OtherResultTypes
    <2>4. CASE Return(Waiting("PostCheckBakeTimeWaiting"))
      BY <2>2, <2>4, ReportStep, ResultTypes
    <2>5. CASE Return(Blocked("PostCheckFailed"))
      BY <2>2, <2>5, ReportStep, ResultTypes
    <2>6. CASE Return(Stopped("JobFailed"))
      BY <2>2, <2>6, ReportStep, ResultTypes
    <2>7. CASE Return(Waiting("MigrationInProgress"))
      BY <2>2, <2>7, ReportStep, ResultTypes
    <2>8. CASE Return(Waiting("JobPending"))
      BY <2>2, <2>8, ReportStep, ResultTypes
    <2> QED BY <2>1, <2>3, <2>4, <2>5, <2>6, <2>7, <2>8
  <1>4. CASE NoJobFound
    <2>1. TypeOK'
      BY <1>4 DEF Inv, TypeOK, NoJobFound, Goto, Pcs
    <2> QED BY <1>4, <2>1, GotoStep, SameJobs DEF Inv, NoJobFound, Goto, Pcs
  <1>5. CASE PreCheckFails
    BY <1>5, ReportStep, ResultTypes DEF PreCheckFails
  <1>6. CASE ListJobsFails
    BY <1>6, ReportStep, ResultTypes DEF ListJobsFails
  <1> QED BY <1>1, <1>2, <1>3, <1>4, <1>5, <1>6

\* Deleting a Job keeps the record of its success.
LEMMA DeleteJobInv ==
  ASSUME Inv, DeleteJob
  PROVE  Inv'
  <1>1. Blocked("Initializing") \in ReconcileResult /\ Conditions(Blocked("Initializing"))
        /\ ~Blocked("Initializing").ready
    BY ResultTypes DEF Reasons
  <1>2. /\ jobs' \in [JobNames -> Job] /\ JobsHonest(jobs)'
        /\ lingering' \subseteq Job
    <2>1. target \in JobNames
      BY DEF DeleteJob, Inv, TypeOK
    <2>2. CASE DropJob(target)
      BY <2>1, <2>2, RemoveJob DEF DeleteJob
    <2>3. CASE UNCHANGED <<jobs, lingering>>
      BY <2>3, SameJobs DEF DeleteJob, Inv, TypeOK
    <2> QED BY <2>2, <2>3 DEF DeleteJob
  <1>3. spent' \in 0..MaxDisturbances
    BY DisturbanceType DEF DeleteJob
  <1>4. TypeOK'
    BY <1>1, <1>2, <1>3, ReturnStep DEF Inv, TypeOK, DeleteJob
  <1> QED BY <1>1, <1>2, <1>4, ReturnStep, SameJobs DEF Inv, DeleteJob

\* A new Job runs the spec its name stands for, and is not complete.
LEMMA CreateJobInv ==
  ASSUME Inv, CreateJob \/ JobAlreadyExists \/ CreateJobFails
  PROVE  Inv'
  <1> USE DEF Reasons
  <1>1. CASE CreateJob
    <2> DEFINE job == [phase |-> "pending", owner |-> obj.uid, spec |-> obj.spec]
    <2>1. /\ obj.spec \in Specs /\ obj.uid \in 0..MaxUid /\ obj.gen \in 0..MaxGen
          /\ computeSpecHash[obj.spec] \in JobNames
      BY <1>1, HashAssumption DEF CreateJob, Inv, SpecsKnown, TypeOK, Fetched
    <2>2. job \in Job /\ job.phase = "pending" /\ job.spec = obj.spec
      BY <2>1 DEF Job, Phases
    <2>3. jobs' = [jobs EXCEPT ![computeSpecHash[obj.spec]] = job]
      BY <1>1 DEF CreateJob, ExpectedJobName
    <2> HIDE DEF job
    <2>4. jobs' \in [JobNames -> Job]
      BY <2>2, <2>3 DEF Inv, TypeOK
    <2>5. JobsHonest(jobs)'
      <3>1. succeeded' = succeeded /\ job.phase # "complete"
        BY <1>1, <2>2 DEF CreateJob
      <3>2. \A n \in JobNames :
              jobs'[n] = IF n = computeSpecHash[obj.spec] THEN job ELSE jobs[n]
        BY <2>3 DEF Inv, TypeOK
      <3> QED BY <2>1, <2>2, <3>1, <3>2 DEF Inv, JobsHonest
    <2>6. launched' \subseteq (0..MaxUid) \X (0..MaxGen)
      BY <1>1, <2>1 DEF CreateJob, Inv, TypeOK
    <2>7. PICK r \in {Waiting("JobPending"), Blocked("JobFailed")} : Return(r)
      BY <1>1 DEF CreateJob
    <2>8. r \in ReconcileResult /\ Conditions(r) /\ ~r.ready
      BY <2>7, ResultTypes
    <2>9. spent' \in 0..MaxDisturbances
      BY <1>1, DisturbanceType DEF CreateJob
    <2>11. overlapped' \in BOOLEAN
      BY <1>1 DEF CreateJob, Inv, TypeOK
    <2>10. TypeOK'
      BY <1>1, <2>11, <2>4, <2>6, <2>7, <2>8, <2>9, ReturnStep DEF Inv, TypeOK, CreateJob
    <2> QED BY <1>1, <2>5, <2>7, <2>8, <2>10, ReturnStep, SameJobs DEF Inv, CreateJob
  <1>2. CASE JobAlreadyExists
    BY <1>2, ReportStep, ResultTypes DEF JobAlreadyExists
  <1>3. CASE CreateJobFails
    BY <1>3, ReportStep, ResultTypes DEF CreateJobFails
  <1> QED BY <1>1, <1>2, <1>3

\* The status is written over the object it was computed from, or not at all.
LEMMA UpdateStatusInv ==
  ASSUME Inv, UpdateStatus \/ UpdateStatusFails
  PROVE  Inv'
  <1>1. spent' \in 0..MaxDisturbances
    BY DisturbanceType DEF UpdateStatus, UpdateStatusFails
  <1>2. /\ pc' = "idle" /\ obj' \in Fetched /\ fresh' = FALSE /\ target' = NoName
        /\ result' \in ReconcileResult /\ Conditions(result)' /\ ~result'.ready
    BY NothingType, OtherResultTypes DEF UpdateStatus, UpdateStatusFails, Done, Conditions
  <1>3. JobsHonest(jobs)' /\ JobsHonest(jobCache)'
    BY SameJobs DEF UpdateStatus, UpdateStatusFails
  <1>4. queued' \in BOOLEAN /\ timer' \in BOOLEAN
    BY DEF UpdateStatus, UpdateStatusFails, Inv, TypeOK, ReconcileResult
  <1>5. CASE UNCHANGED crVars
    <2>1. TypeOK'
      BY <1>1, <1>2, <1>4, <1>5
         DEF Inv, TypeOK, UpdateStatus, UpdateStatusFails, Pcs
    <2>2. VersionsHonest' /\ SpecsKnown' /\ (cr.observed <= cr.gen)' /\ ReadyIsEarned'
          /\ ResultEarned'
      BY <1>2, <1>5
         DEF Inv, VersionsHonest, SpecsKnown, ReadyIsEarned, ResultEarned,
             UpdateStatus, UpdateStatusFails
    <2> QED BY <1>3, <2>1, <2>2 DEF Inv
  <1>6. CASE UpdateStatus /\ WriteDBUpgrade(StatusWritten)
    <2>1. /\ cr.live /\ obj.uid = cr.uid /\ obj.gen = cr.gen /\ obj.spec = cr.spec
          /\ cr.spec \in Specs /\ cr \in DBUpgrade /\ result \in ReconcileResult
      BY <1>6 DEF UpdateStatus, StatusAccepted, Inv, TypeOK, VersionsHonest, SpecsKnown
    <2>2. /\ cr' \in DBUpgrade /\ cr'.live = cr.live /\ cr'.uid = cr.uid
          /\ cr'.gen = cr.gen /\ cr'.spec = cr.spec /\ cr'.observed = cr.gen
          /\ cr'.ready = result.ready /\ cr'.progressing = result.progressing
      <3>1. cr' = [cr EXCEPT !.ready = result.ready, !.progressing = result.progressing,
                             !.reason = result.reason, !.observed = cr.gen]
        BY <1>6, <2>1 DEF WriteDBUpgrade, StatusWritten
      <3>2. /\ result.ready \in BOOLEAN /\ result.progressing \in BOOLEAN
            /\ result.reason \in Reasons
        BY <2>1 DEF ReconcileResult
      <3>3. cr.gen \in 0..MaxGen
        BY <2>1 DEF DBUpgrade
      <3> QED BY <2>1, <3>1, <3>2, <3>3 DEF DBUpgrade
    <2>3. Conditions(cr)'
      BY <2>2 DEF Conditions, Inv, TypeOK
    <2>4. TypeOK'
      <3>1. StatusWritten \in DBUpgrade
        BY <1>6, <2>2 DEF WriteDBUpgrade
      <3> QED BY <1>1, <1>2, <1>4, <1>6, <2>2, <2>3, <3>1, AskedType
              DEF Inv, TypeOK, UpdateStatus, WriteDBUpgrade, Pcs
    <2>5. (cr.observed <= cr.gen)'
      BY <2>1, <2>2 DEF DBUpgrade
    <2>6. ReadyIsEarned'
      BY <1>6, <2>1, <2>2 DEF Inv, ReadyIsEarned, ResultEarned, UpdateStatus
    <2>7. VersionsHonest' /\ SpecsKnown' /\ ResultEarned'
      BY <1>2, <1>6, <2>1, <2>2
         DEF Inv, VersionsHonest, SpecsKnown, ResultEarned, WriteDBUpgrade
    <2> QED BY <1>3, <2>4, <2>5, <2>6, <2>7 DEF Inv
  <1> QED BY <1>5, <1>6 DEF UpdateStatus, UpdateStatusFails

(***************************************************************************)
(* The theorems                                                            *)
(***************************************************************************)

\* Every step, and every stuttering step, preserves the inductive invariant.
LEMMA NextInv == Inv /\ [Next]_vars => Inv'
  <1> SUFFICES ASSUME Inv, [Next]_vars PROVE Inv'
    OBVIOUS
  <1>1. CASE Reconcile
    BY <1>1, FetchInv, SecretInv, FindJobInv, DeleteJobInv, CreateJobInv,
       UpdateStatusInv
       DEF Reconcile
  <1>2. CASE User
    BY <1>2, CreateDBUpgradeInv, UpdateSpecInv, DeleteDBUpgradeInv, CustomerSecretInv
       DEF User
  <1>3. CASE Cluster
    BY <1>3, JobAdvancesInv, CollectInv, LingeringPodInv, SyncInv, CrashInv
       DEF Cluster
  <1>4. CASE UNCHANGED vars
    <2>1. TypeOK'
      BY <1>4 DEF Inv, TypeOK, vars
    <2> QED BY <1>4, <2>1, SameObject, SameJobs DEF Inv, vars
  <1> QED BY <1>1, <1>2, <1>3, <1>4 DEF Next

\* The inductive invariant holds of every behaviour of the controller.
THEOREM Invariant == Spec => []Inv
  BY InitInv, NextInv, PTL DEF Spec

\* Every variable keeps its type, and the status never says Ready and Progressing.
THEOREM TypeCorrect == Spec => []TypeOK
  <1>1. Inv => TypeOK
    BY DEF Inv
  <1> QED BY <1>1, Invariant, PTL

\* Ready=True for the current generation is never claimed of a spec whose Job did
\* not complete: for any number of specs, Jobs, incarnations, generations, stale
\* caches, failures and crashes.
THEOREM ReadyIsAlwaysEarned == Spec => []ReadyIsEarned
  <1>1. Inv => ReadyIsEarned
    BY DEF Inv
  <1> QED BY <1>1, Invariant, PTL

(***************************************************************************)
(* One Job at a time, when Jobs are read from the server                   *)
(***************************************************************************)

Alone == TypeOK /\ OneJobAtATime /\ CreatesFirstJob

\* Jobs may go and advance, and the reconcile may leave the create step.
LEMMA NoNewJob ==
  ASSUME Alone, jobs' \in [JobNames -> Job],
         \A n \in JobNames :
            jobs'[n].phase # "absent" => /\ jobs[n].phase # "absent"
                                         /\ jobs'[n].owner = jobs[n].owner,
         pc' = "create" => pc = "create" /\ obj' = obj
  PROVE  OneJobAtATime' /\ CreatesFirstJob'
  BY DEF Alone, OneJobAtATime, CreatesFirstJob

\* Every step preserves what makes a Job the only one of its object, if the Jobs
\* listed are those on the server.
LEMMA AloneNext ==
  ASSUME "Job" \notin Lagging, Alone, TypeOK', [Next]_vars
  PROVE  Alone'
  <1>1. jobs \in [JobNames -> Job] /\ jobs' \in [JobNames -> Job]
    BY DEF Alone, TypeOK
  <1>2. SUFFICES OneJobAtATime' /\ CreatesFirstJob'
    BY DEF Alone
  <1>3. CASE CreateJob
    <2>1. /\ \A n \in JobNames : jobs[n].phase # "absent" => jobs[n].owner # obj.uid
          /\ \A n \in JobNames : \/ jobs'[n] = jobs[n]
                                 \/ /\ n = ExpectedJobName
                                    /\ jobs'[n].owner = obj.uid
          /\ pc' # "create"
      BY <1>1, <1>3 DEF Alone, CreatesFirstJob, CreateJob, Return
    <2> QED BY <1>1, <2>1 DEF Alone, OneJobAtATime, CreatesFirstJob
  <1>4. CASE NoJobFound
    <2>1. \A n \in JobNames : jobs[n].phase # "absent" => jobs[n].owner # obj.uid
      BY <1>4 DEF NoJobFound, NoJobExists, OwnedJobs, SeenJobs
    <2>2. jobs' = jobs /\ obj' = obj
      BY <1>4 DEF NoJobFound, Goto
    <2> QED BY <2>1, <2>2 DEF Alone, OneJobAtATime, CreatesFirstJob
  <1>5. CASE DeleteJob
    <2>1. pc' # "create"
      BY <1>5 DEF DeleteJob, Return
    <2>2. jobs' = jobs \/ jobs' = [jobs EXCEPT ![target] = NoJob]
      BY <1>5 DEF DeleteJob, DropJob
    <2> QED BY <1>1, <2>1, <2>2, NothingType, NoNewJob
  <1>6. CASE Reconcile /\ ~CreateJob /\ ~NoJobFound /\ ~DeleteJob
    <2>1. jobs' = jobs /\ pc' # "create"
      BY <1>6
         DEF Reconcile, Fetch, FetchNotFound, Validate, SecretUpToDate, WriteSecret,
             SecretError, ListJobsFails, WaitForOldJob, ReplaceOldJob, SyncJobStatus,
             PreCheckFails, JobAlreadyExists, CreateJobFails, UpdateStatus, UpdateStatusFails, Goto,
             Return, Done
    <2> QED BY <1>1, <2>1, NoNewJob
  <1>7. CASE User \/ UNCHANGED vars
    <2>1. jobs' = jobs /\ pc' = pc /\ obj' = obj
      BY <1>7
         DEF User, CreateDBUpgrade, UpdateSpec, DeleteDBUpgrade, RotateSecret,
             RemoveSecret, WriteCustomerSecret, vars
    <2> QED BY <1>1, <2>1, NoNewJob
  <1>8. CASE Cluster
    <2>1. ASSUME NEW n \in JobNames, JobAdvances(n) PROVE OneJobAtATime' /\ CreatesFirstJob'
      <3>1. /\ \E phase \in Phases : jobs' = [jobs EXCEPT ![n].phase = phase]
            /\ jobs[n].phase # "absent" /\ pc' = pc /\ obj' = obj
        BY <2>1
           DEF JobAdvances, StartPod, StartContainer, JobSucceeds, JobFails, SetPhase,
               isJobRunning, Phases
      <3> QED BY <1>1, <3>1, NoNewJob DEF Job
    <2>2. ASSUME NEW n \in JobNames, CollectJob(n) PROVE OneJobAtATime' /\ CreatesFirstJob'
      <3>1. jobs' = [jobs EXCEPT ![n] = NoJob] /\ pc' = pc /\ obj' = obj
        BY <2>2 DEF CollectJob, DropJob
      <3> QED BY <1>1, <3>1, NothingType, NoNewJob
    <2>3. CASE \/ LingeringPodAdvances \/ CollectSecret \/ SyncDBUpgrade \/ SyncJobs \/ SyncSecrets
               \/ TimerFires \/ Resync \/ Crash
      <3>1. jobs' = jobs /\ (pc' = "create" => pc = "create" /\ obj' = obj)
        BY <2>3
           DEF LingeringPodAdvances, CollectSecret, SyncDBUpgrade, SyncJobs, SyncSecrets,
               TimerFires, Resync, Crash
      <3> QED BY <1>1, <3>1, NoNewJob
    <2> QED BY <1>8, <2>1, <2>2, <2>3 DEF Cluster
  <1> QED BY <1>3, <1>4, <1>5, <1>6, <1>7, <1>8 DEF Next

\* Alone holds of every behaviour in which Jobs are read from the server.
LEMMA AloneAlways == "Job" \notin Lagging => (Spec => []Alone)
  <1> SUFFICES ASSUME "Job" \notin Lagging PROVE Spec => []Alone
    OBVIOUS
  <1>1. Init /\ TypeOK => Alone
    BY NothingType DEF Init, Alone, OneJobAtATime, CreatesFirstJob
  <1>2. Alone /\ TypeOK' /\ [Next]_vars => Alone'
    BY AloneNext
  <1> QED BY <1>1, <1>2, TypeCorrect, PTL DEF Spec

\* Provided the Jobs it lists are those of the server, the controller never gives
\* an object two Jobs, whatever users, failures and crashes do meanwhile.  (With
\* an old Job cache it does: the README describes how.)
LEMMA OneJob == "Job" \notin Lagging => (Spec => []OneJobAtATime)
  <1>1. Alone => OneJobAtATime
    BY DEF Alone
  <1> QED BY <1>1, AloneAlways, PTL

=============================================================================

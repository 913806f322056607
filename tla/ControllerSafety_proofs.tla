----------------------- MODULE ControllerSafety_proofs -----------------------
(***************************************************************************)
(* Proofs about DBUpgradeController for all values of its constants, every *)
(* combination of lagging caches included: no generation starts a second   *)
(* migration, and no wakeup is lost.  And, for ControllerRefinement_proofs *)
(* and where Jobs are not read from an old cache, what holds while done is *)
(* reported.                                                               *)
(* The last sections are about a manager that is one of several.           *)
(***************************************************************************)
EXTENDS DBUpgradeController_proofs

USE DEF crVars, jobVars, secretVars, reconciler, queue, history

(***************************************************************************)
(* What one step does to the object, its copies and the Jobs               *)
(***************************************************************************)

\* c and d are the same generation of the same incarnation.
Same(c, d) == c.uid = d.uid /\ c.gen = d.gen /\ c.spec = d.spec

\* The cached copy stays or becomes the server's.
LEMMA SeenStep ==
  ASSUME [Next]_vars
  PROVE  SeenDBUpgrade' = SeenDBUpgrade \/ SeenDBUpgrade' = cr'
  <1>1. CASE Reconcile
    BY <1>1
       DEF Reconcile, Fetch, FetchNotFound, SecretUpToDate, WriteSecret, SecretError,
           ListJobsFails, WaitForOldJob, ReplaceOldJob, SyncJobStatus, NoJobFound,
           PreCheckFails, DeleteJob, CreateJob, JobAlreadyExists, CreateJobFails,
           UpdateStatus, UpdateStatusFails, WriteDBUpgrade, SeenDBUpgrade
  <1>2. CASE User
    BY <1>2
       DEF User, CreateDBUpgrade, UpdateSpec, DeleteDBUpgrade, RotateSecret,
           RemoveSecret, WriteCustomerSecret, WriteDBUpgrade, SeenDBUpgrade
  <1>3. CASE Cluster
    BY <1>3
       DEF Cluster, JobAdvances, StartPod, StartContainer, JobSucceeds, JobFails,
           SetPhase, CollectJob, LingeringPodAdvances, CollectSecret, SyncDBUpgrade,
           SyncJobs, SyncSecrets, TimerFires, Resync, Crash, Relisted, SeenDBUpgrade
  <1>4. CASE UNCHANGED vars
    BY <1>4 DEF vars, SeenDBUpgrade
  <1> QED BY <1>1, <1>2, <1>3, <1>4 DEF Next

\* Only users create, change and delete the object; status writes are about what is
\* there.
LEMMA ObjectStep ==
  ASSUME Inv, [Next]_vars
  PROVE  \/ Same(cr', cr) /\ cr'.live = cr.live
         \/ \E s \in Specs : CreateDBUpgrade(s) \/ UpdateSpec(s)
         \/ DeleteDBUpgrade
  <1>1. CASE UpdateStatus
    <2>1. cr \in DBUpgrade /\ (cr' = cr \/ cr' = StatusWritten)
      BY <1>1 DEF Inv, TypeOK, UpdateStatus, WriteDBUpgrade
    <2> QED BY <2>1 DEF StatusWritten, DBUpgrade, Same
  <1>2. CASE Reconcile /\ ~UpdateStatus
    BY <1>2
       DEF Reconcile, Fetch, FetchNotFound, SecretUpToDate, WriteSecret, SecretError,
           ListJobsFails, WaitForOldJob, ReplaceOldJob, SyncJobStatus, NoJobFound,
           PreCheckFails, DeleteJob, CreateJob, JobAlreadyExists, CreateJobFails,
           UpdateStatusFails, Same
  <1>3. CASE User
    BY <1>3 DEF User, RotateSecret, RemoveSecret, WriteCustomerSecret, Same
  <1>4. CASE Cluster
    BY <1>4
       DEF Cluster, JobAdvances, StartPod, StartContainer, JobSucceeds, JobFails,
           SetPhase, CollectJob, LingeringPodAdvances, CollectSecret, SyncDBUpgrade,
           SyncJobs, SyncSecrets, TimerFires, Resync, Crash, Same
  <1>5. CASE UNCHANGED vars
    BY <1>5 DEF vars, Same
  <1> QED BY <1>1, <1>2, <1>3, <1>4, <1>5 DEF Next

\* The reconciler keeps the copy it fetched until it returns.
LEMMA HeldStep ==
  ASSUME [Next]_vars
  PROVE  \/ pc' = "idle"
         \/ pc # "idle" /\ obj' = obj
         \/ Fetch
  <1>1. CASE Reconcile
    BY <1>1
       DEF Reconcile, FetchNotFound, SecretUpToDate, WriteSecret, SecretError,
           ListJobsFails, WaitForOldJob, ReplaceOldJob, SyncJobStatus, NoJobFound,
           PreCheckFails, DeleteJob, CreateJob, JobAlreadyExists, CreateJobFails,
           UpdateStatus, UpdateStatusFails, Goto, Return, Done
  <1>2. CASE User
    BY <1>2
       DEF User, CreateDBUpgrade, UpdateSpec, DeleteDBUpgrade, RotateSecret,
           RemoveSecret, WriteCustomerSecret
  <1>3. CASE Cluster
    BY <1>3
       DEF Cluster, JobAdvances, StartPod, StartContainer, JobSucceeds, JobFails,
           SetPhase, CollectJob, LingeringPodAdvances, CollectSecret, SyncDBUpgrade,
           SyncJobs, SyncSecrets, TimerFires, Resync, Crash
  <1>4. CASE UNCHANGED vars
    BY <1>4 DEF vars
  <1> QED BY <1>1, <1>2, <1>3, <1>4 DEF Next

\* A Job leaves only when its owner is gone or as the target of a delete; until then
\* it keeps its owner, and its phase once it is over.
Stays(n) ==
  /\ jobs'[n].phase # "absent" /\ jobs'[n].owner = jobs[n].owner
  /\ jobs[n].phase \in {"complete", "failed"} => jobs'[n].phase = jobs[n].phase

LEMMA JobStep ==
  ASSUME Inv, [Next]_vars, NEW n \in JobNames, jobs[n].phase # "absent"
  PROVE  \/ Stays(n)
         \/ Orphaned(jobs[n].owner)
         \/ DeleteJob /\ n = target
  <1>1. jobs \in [JobNames -> Job]
    BY DEF Inv, TypeOK
  <1>2. jobs'[n] = jobs[n] => Stays(n)
    BY DEF Stays
  <1>3. CASE DeleteJob
    <2>1. jobs' = jobs \/ jobs' = [jobs EXCEPT ![target] = NoJob]
      BY <1>3 DEF DeleteJob, DropJob
    <2> QED BY <1>1, <1>2, <1>3, <2>1
  <1>4. CASE CreateJob
    <2>1. n # ExpectedJobName
      BY <1>4 DEF CreateJob
    <2> QED BY <1>1, <1>2, <1>4, <2>1 DEF CreateJob
  <1>5. CASE Reconcile /\ ~DeleteJob /\ ~CreateJob
    BY <1>2, <1>5
       DEF Reconcile, Fetch, FetchNotFound, SecretUpToDate, WriteSecret, SecretError,
           ListJobsFails, WaitForOldJob, ReplaceOldJob, SyncJobStatus, NoJobFound,
           PreCheckFails, JobAlreadyExists, CreateJobFails, UpdateStatus,
           UpdateStatusFails
  <1>6. CASE User \/ UNCHANGED vars
    BY <1>2, <1>6
       DEF User, CreateDBUpgrade, UpdateSpec, DeleteDBUpgrade, RotateSecret,
           RemoveSecret, WriteCustomerSecret, vars
  <1>7. CASE Cluster
    <2>1. ASSUME NEW m \in JobNames, JobAdvances(m) PROVE Stays(n)
      <3>1. \E phase \in Phases \ {"absent"} : jobs' = [jobs EXCEPT ![m].phase = phase]
        BY <2>1
           DEF JobAdvances, StartPod, StartContainer, JobSucceeds, JobFails, SetPhase,
               Phases
      <3>2. jobs[m].phase \notin {"complete", "failed"}
        BY <2>1
           DEF JobAdvances, StartPod, StartContainer, JobSucceeds, JobFails, isJobRunning
      <3> QED BY <1>1, <3>1, <3>2 DEF Stays, Job
    <2>2. ASSUME NEW m \in JobNames, CollectJob(m)
          PROVE  Stays(n) \/ Orphaned(jobs[n].owner)
      <3>1. jobs' = [jobs EXCEPT ![m] = NoJob] /\ Orphaned(jobs[m].owner)
        BY <2>2 DEF CollectJob, DropJob
      <3> QED BY <1>1, <1>2, <3>1
    <2>3. CASE \/ LingeringPodAdvances \/ CollectSecret \/ SyncDBUpgrade \/ SyncJobs
               \/ SyncSecrets \/ TimerFires \/ Resync \/ Crash
      BY <1>2, <2>3
         DEF LingeringPodAdvances, CollectSecret, SyncDBUpgrade, SyncJobs, SyncSecrets,
             TimerFires, Resync, Crash
    <2> QED BY <1>7, <2>1, <2>2, <2>3 DEF Cluster
  <1> QED BY <1>3, <1>4, <1>5, <1>6, <1>7 DEF Next

\* A Job that is there after a step was there before, for the same owner, or is the
\* one that CreateJob makes.
LEMMA OldJob ==
  ASSUME Inv, [Next]_vars, NEW n \in JobNames, jobs'[n].phase # "absent"
  PROVE  \/ /\ jobs[n].phase # "absent"
            /\ jobs'[n].owner = jobs[n].owner /\ jobs'[n].spec = jobs[n].spec
         \/ /\ CreateJob /\ n = ExpectedJobName
            /\ jobs'[n].owner = obj.uid /\ jobs'[n].spec = obj.spec
  <1>1. jobs \in [JobNames -> Job]
    BY DEF Inv, TypeOK
  <1>2. CASE CreateJob
    BY <1>1, <1>2 DEF CreateJob
  <1>3. CASE DeleteJob
    <2>1. jobs' = jobs \/ jobs' = [jobs EXCEPT ![target] = NoJob]
      BY <1>3 DEF DeleteJob, DropJob
    <2> QED BY <1>1, <2>1, NothingType
  <1>4. CASE Reconcile /\ ~DeleteJob /\ ~CreateJob
    BY <1>4
       DEF Reconcile, Fetch, FetchNotFound, SecretUpToDate, WriteSecret, SecretError,
           ListJobsFails, WaitForOldJob, ReplaceOldJob, SyncJobStatus, NoJobFound,
           PreCheckFails, JobAlreadyExists, CreateJobFails, UpdateStatus,
           UpdateStatusFails
  <1>5. CASE User \/ UNCHANGED vars
    BY <1>5
       DEF User, CreateDBUpgrade, UpdateSpec, DeleteDBUpgrade, RotateSecret,
           RemoveSecret, WriteCustomerSecret, vars
  <1>6. CASE Cluster
    <2>1. ASSUME NEW m \in JobNames, JobAdvances(m)
          PROVE  /\ jobs[n].phase # "absent"
                 /\ jobs'[n].owner = jobs[n].owner /\ jobs'[n].spec = jobs[n].spec
      <3>1. \E phase \in Phases : jobs' = [jobs EXCEPT ![m].phase = phase]
        BY <2>1
           DEF JobAdvances, StartPod, StartContainer, JobSucceeds, JobFails, SetPhase,
               Phases
      <3>2. jobs[m].phase # "absent"
        BY <2>1
           DEF JobAdvances, StartPod, StartContainer, JobSucceeds, JobFails, isJobRunning
      <3> QED BY <1>1, <3>1, <3>2 DEF Job
    <2>2. ASSUME NEW m \in JobNames, CollectJob(m)
          PROVE  jobs[n].phase # "absent" /\ jobs'[n] = jobs[n]
      BY <1>1, <2>2, NothingType DEF CollectJob, DropJob
    <2>3. CASE \/ LingeringPodAdvances \/ CollectSecret \/ SyncDBUpgrade \/ SyncJobs
               \/ SyncSecrets \/ TimerFires \/ Resync \/ Crash
      BY <2>3
         DEF LingeringPodAdvances, CollectSecret, SyncDBUpgrade, SyncJobs, SyncSecrets,
             TimerFires, Resync, Crash
    <2> QED BY <1>6, <2>1, <2>2, <2>3 DEF Cluster
  <1> QED BY <1>2, <1>3, <1>4, <1>5, <1>6 DEF Next

\* Only CreateJob makes Jobs.
LEMMA NewJob ==
  ASSUME Inv, [Next]_vars, ~CreateJob, NEW n \in JobNames, Launches(n)
  PROVE  FALSE
  BY OldJob DEF Launches

\* Only CreateJob records a launch, and only ReplaceOldJob chooses a Job to delete.
LEMMA LaunchStep ==
  ASSUME [Next]_vars
  PROVE  /\ launched' = launched \/ CreateJob
         /\ pc' = "delete" => \/ ReplaceOldJob
                              \/ pc = "delete" /\ target' = target /\ obj' = obj
  <1>1. CASE Reconcile
    BY <1>1
       DEF Reconcile, Fetch, FetchNotFound, Validate, SecretUpToDate, WriteSecret,
           SecretError, ListJobsFails, WaitForOldJob, SyncJobStatus, NoJobFound,
           PreCheckFails, DeleteJob, CreateJob, JobAlreadyExists, CreateJobFails,
           UpdateStatus, UpdateStatusFails, Goto, Return, Done, ReplaceOldJob
  <1>2. CASE User \/ UNCHANGED vars
    BY <1>2
       DEF User, CreateDBUpgrade, UpdateSpec, DeleteDBUpgrade, RotateSecret,
           RemoveSecret, WriteCustomerSecret, vars
  <1>3. CASE Cluster
    BY <1>3
       DEF Cluster, JobAdvances, StartPod, StartContainer, JobSucceeds, JobFails,
           SetPhase, CollectJob, LingeringPodAdvances, CollectSecret, SyncDBUpgrade,
           SyncJobs, SyncSecrets, TimerFires, Resync, Crash
  <1> QED BY <1>1, <1>2, <1>3 DEF Next

(***************************************************************************)
(* Copies are behind                                                       *)
(***************************************************************************)

\* c is d, or an earlier generation or incarnation of it.
Follows(c, d) ==
  \/ c.uid < d.uid
  \/ c.uid = d.uid /\ (c.gen < d.gen \/ (c.gen = d.gen /\ c.spec = d.spec))

\* The reconciler's copy is behind the cached one, which is behind the server's: no
\* manager that takes over, and no cache that is listed anew, goes back.
Behind ==
  /\ SeenDBUpgrade.uid <= cr.uid
  /\ pc # "idle" => obj.uid <= cr.uid
  /\ cr.live => /\ Follows(SeenDBUpgrade, cr)
                /\ SeenDBUpgrade.uid = cr.uid => SeenDBUpgrade.live
                /\ pc # "idle" /\ obj.uid = cr.uid => Follows(obj, SeenDBUpgrade)

\* Generations and incarnations are numbers.
LEMMA Numbers ==
  /\ \A c \in DBUpgrade : c.uid \in Nat /\ c.gen \in Nat
  /\ \A o \in Fetched : o.uid \in Nat /\ o.gen \in Nat
  BY ConstantsAssumption DEF DBUpgrade, Fetched

\* What users make of the object comes after what it was; incarnations only increase.
LEMMA UserStep ==
  ASSUME Inv, [Next]_vars
  PROVE  /\ cr'.live => \/ cr.live /\ cr'.uid = cr.uid /\ Follows(cr, cr')
                        \/ cr'.uid = cr.uid + 1
         /\ cr'.uid \in {cr.uid, cr.uid + 1}
  <1>1. cr \in DBUpgrade /\ cr.uid \in Nat /\ cr.gen \in Nat
    BY Numbers DEF Inv, TypeOK
  <1>2. ASSUME NEW s \in Specs, CreateDBUpgrade(s) PROVE cr'.uid = cr.uid + 1
    BY <1>2 DEF CreateDBUpgrade, WriteDBUpgrade, Absent
  <1>3. ASSUME NEW s \in Specs, UpdateSpec(s)
        PROVE  cr.live /\ cr'.uid = cr.uid /\ cr'.gen = cr.gen + 1
    BY <1>1, <1>3 DEF UpdateSpec, WriteDBUpgrade, DBUpgrade
  <1>4. CASE DeleteDBUpgrade
    BY <1>4 DEF DeleteDBUpgrade, WriteDBUpgrade, Absent
  <1>5. CASE \E s \in Specs : CreateDBUpgrade(s)
    BY <1>2, <1>5
  <1>6. CASE \E s \in Specs : UpdateSpec(s)
    <2>1. cr.live /\ cr'.uid = cr.uid /\ cr'.gen = cr.gen + 1
      BY <1>3, <1>6
    <2> QED BY <1>1, <2>1 DEF Follows
  <1>7. CASE Same(cr', cr) /\ cr'.live = cr.live
    BY <1>7 DEF Same, Follows
  <1> QED BY <1>4, <1>5, <1>6, <1>7, ObjectStep

LEMMA BehindNext ==
  ASSUME Inv, Inv', Behind, [Next]_vars
  PROVE  Behind'
  <1>1. /\ cr.uid \in Nat /\ cr.gen \in Nat /\ cr'.uid \in Nat /\ cr'.gen \in Nat
        /\ SeenDBUpgrade.uid \in Nat /\ SeenDBUpgrade.gen \in Nat
        /\ obj.uid \in Nat /\ obj.gen \in Nat
    BY Numbers DEF Inv, TypeOK, SeenDBUpgrade
  <1>2. cr.uid <= cr'.uid
    BY <1>1, UserStep
  <1>3. pc' # "idle" => \/ pc # "idle" /\ obj' = obj
                        \/ Same(obj', SeenDBUpgrade) /\ SeenDBUpgrade' = SeenDBUpgrade
    <2>1. CASE Fetch
      <3>1. Same(obj', SeenDBUpgrade)
        BY <2>1 DEF Fetch, Same
      <3>2. SeenDBUpgrade' = SeenDBUpgrade
        BY <2>1 DEF Fetch, SeenDBUpgrade
      <3> QED BY <3>1, <3>2
    <2> QED BY <2>1, HeldStep
  <1>4. SeenDBUpgrade'.uid <= cr'.uid /\ (pc' # "idle" => obj'.uid <= cr'.uid)
    BY <1>1, <1>2, <1>3, SeenStep DEF Behind, Same
  <1>5. ASSUME cr'.live
        PROVE  /\ Follows(SeenDBUpgrade', cr')
               /\ SeenDBUpgrade'.uid = cr'.uid => SeenDBUpgrade'.live
    BY <1>1, <1>5, UserStep, SeenStep DEF Behind, Follows
  <1>6. ASSUME cr'.live, pc' # "idle", obj'.uid = cr'.uid
        PROVE  Follows(obj', SeenDBUpgrade')
    <2>1. CASE pc # "idle" /\ obj' = obj
      <3>1. cr.live /\ cr'.uid = cr.uid /\ Follows(cr, cr') /\ Follows(obj, SeenDBUpgrade)
        BY <1>1, <1>6, <2>1, UserStep DEF Behind
      <3> QED BY <1>1, <2>1, <3>1, SeenStep DEF Behind, Follows
    <2>2. CASE Same(obj', SeenDBUpgrade) /\ SeenDBUpgrade' = SeenDBUpgrade
      BY <2>2 DEF Same, Follows
    <2> QED BY <1>3, <1>6, <2>1, <2>2
  <1> QED BY <1>4, <1>5, <1>6 DEF Behind

(***************************************************************************)
(* Every copy is of something a user asked for                             *)
(***************************************************************************)

Request(c) == <<c.uid, c.gen, c.spec>>

AskedKnown ==
  /\ cr.live => Request(cr) \in asked
  /\ SeenDBUpgrade.live => Request(SeenDBUpgrade) \in asked
  /\ pc # "idle" => Request(obj) \in asked
  /\ \A a \in asked : a[1] \in 1..cr.uid /\ a[2] \in 1..MaxGen

\* Only the object as it is written is added to what was asked for.
LEMMA AskedStep ==
  ASSUME Inv, [Next]_vars
  PROVE  /\ asked \subseteq asked'
         /\ asked' \subseteq asked \cup {Request(cr')}
         /\ asked' # asked => cr'.live
         /\ cr'.live => cr' = cr \/ Request(cr') \in asked'
  <1>1. ASSUME NEW new, WriteDBUpgrade(new)
        PROVE  /\ cr' = new
               /\ asked' = IF new.live THEN asked \cup {Request(new)} ELSE asked
    BY <1>1 DEF WriteDBUpgrade, Request
  <1>2. CASE \/ UpdateStatus /\ cr' # cr
             \/ \E s \in Specs : CreateDBUpgrade(s) \/ UpdateSpec(s)
             \/ DeleteDBUpgrade
    <2>1. \E new : WriteDBUpgrade(new)
      BY <1>2 DEF UpdateStatus, CreateDBUpgrade, UpdateSpec, DeleteDBUpgrade
    <2> QED BY <1>1, <2>1
  <1>3. CASE UpdateStatus /\ cr' = cr
    <2>1. CASE StatusWritten = cr
      BY <1>3, <2>1 DEF UpdateStatus
    <2>2. CASE StatusWritten # cr
      BY <1>3, <2>2 DEF UpdateStatus, WriteDBUpgrade
    <2> QED BY <2>1, <2>2
  <1>4. CASE Reconcile /\ ~UpdateStatus
    BY <1>4
       DEF Reconcile, Fetch, FetchNotFound, SecretUpToDate, WriteSecret, SecretError,
           ListJobsFails, WaitForOldJob, ReplaceOldJob, SyncJobStatus, NoJobFound,
           PreCheckFails, DeleteJob, CreateJob, JobAlreadyExists, CreateJobFails,
           UpdateStatusFails
  <1>5. CASE RotateSecret \/ RemoveSecret \/ UNCHANGED vars
    BY <1>5 DEF RotateSecret, RemoveSecret, WriteCustomerSecret, vars
  <1>6. CASE Cluster
    BY <1>6
       DEF Cluster, JobAdvances, StartPod, StartContainer, JobSucceeds, JobFails,
           SetPhase, CollectJob, LingeringPodAdvances, CollectSecret, SyncDBUpgrade,
           SyncJobs, SyncSecrets, TimerFires, Resync, Crash
  <1> QED BY <1>2, <1>3, <1>4, <1>5, <1>6 DEF Next, User

LEMMA AskedNext ==
  ASSUME Inv, Inv', AskedKnown, [Next]_vars
  PROVE  AskedKnown'
  <1>1. /\ cr \in DBUpgrade /\ cr.uid \in Nat /\ cr.gen \in Nat
        /\ cr' \in DBUpgrade /\ cr'.uid \in Nat /\ cr'.gen \in Nat /\ cr'.gen <= MaxGen
        /\ MaxGen \in Nat
    BY Numbers, ConstantsAssumption DEF Inv, TypeOK, DBUpgrade
  <1>2. cr'.live => Request(cr') \in asked'
    BY AskedStep DEF AskedKnown
  <1>3. cr.uid <= cr'.uid
    BY <1>1, UserStep
  <1>4. ASSUME cr'.live PROVE cr'.uid >= 1 /\ cr'.gen >= 1
    <2>1. CASE cr.live /\ Same(cr', cr)
      BY <1>1, <2>1 DEF AskedKnown, Request, Same
    <2>2. ASSUME NEW s \in Specs, CreateDBUpgrade(s) PROVE cr'.uid >= 1 /\ cr'.gen >= 1
      BY <1>1, <2>2 DEF CreateDBUpgrade, WriteDBUpgrade, Absent
    <2>3. ASSUME NEW s \in Specs, UpdateSpec(s) PROVE cr'.uid >= 1 /\ cr'.gen >= 1
      <3>1. cr.live /\ cr'.uid = cr.uid /\ cr'.gen = cr.gen + 1
        BY <1>1, <2>3 DEF UpdateSpec, WriteDBUpgrade, DBUpgrade
      <3> QED BY <1>1, <3>1 DEF AskedKnown, Request
    <2>4. ~DeleteDBUpgrade
      BY <1>4 DEF DeleteDBUpgrade, WriteDBUpgrade, Absent
    <2> QED BY <1>4, <2>1, <2>2, <2>3, <2>4, ObjectStep
  <1>5. ASSUME NEW a \in asked' PROVE a[1] \in 1..cr'.uid /\ a[2] \in 1..MaxGen
    <2>1. CASE a \in asked
      BY <1>1, <1>3, <2>1 DEF AskedKnown
    <2>2. CASE a = Request(cr') /\ cr'.live
      BY <1>1, <1>4, <2>2 DEF Request
    <2> QED BY <2>1, <2>2, AskedStep
  <1>6. SeenDBUpgrade'.live => Request(SeenDBUpgrade') \in asked'
    BY <1>2, SeenStep, AskedStep DEF AskedKnown
  <1>7. pc' # "idle" => Request(obj') \in asked'
    <2>1. CASE Fetch
      BY <2>1, AskedStep DEF Fetch, AskedKnown, Request
    <2> QED BY <2>1, HeldStep, AskedStep DEF AskedKnown
  <1> QED BY <1>2, <1>5, <1>6, <1>7 DEF AskedKnown, Request, SeenDBUpgrade

LEMMA AskedAlways == Spec => []AskedKnown
  <1>1. Init => AskedKnown
    BY DEF Init, Absent, AskedKnown, SeenDBUpgrade
  <1>2. Inv /\ Inv' /\ AskedKnown /\ [Next]_vars => AskedKnown'
    BY AskedNext
  <1> QED BY <1>1, <1>2, Invariant, PTL DEF Spec

(***************************************************************************)
(* No generation starts a second migration                                 *)
(***************************************************************************)

HasJob(o) ==
  /\ jobs[computeSpecHash[o.spec]].phase # "absent"
  /\ jobs[computeSpecHash[o.spec]].owner = o.uid

\* If o is of the current incarnation and its generation was launched, its Job is there.
Kept(o) == o.uid = cr.uid /\ <<o.uid, o.gen>> \in launched => HasJob(o)

\* No copy in use is older than what was launched: of the generations launched, only
\* the last may be in use, and its Job is not deleted as long as it is.
LaunchesKept ==
  /\ pc = "delete" => target # ExpectedJobName
  /\ \A l \in launched :
        /\ l[1] <= cr.uid
        /\ cr.live /\ l[1] = cr.uid =>
              /\ SeenDBUpgrade.uid = cr.uid /\ l[2] <= SeenDBUpgrade.gen
              /\ pc # "idle" => obj.uid = cr.uid /\ l[2] <= obj.gen
  /\ cr.live => /\ Kept(SeenDBUpgrade)
                /\ pc # "idle" => Kept(obj)

LaunchInv == Inv /\ Behind /\ LaunchesKept

\* The numbers and the specs of the copies in use.
LEMMA Copies ==
  ASSUME Inv, Behind
  PROVE  /\ cr \in DBUpgrade /\ cr.uid \in Nat /\ cr.gen \in Nat
         /\ SeenDBUpgrade \in DBUpgrade
         /\ SeenDBUpgrade.uid \in Nat /\ SeenDBUpgrade.gen \in Nat
         /\ obj \in Fetched /\ obj.uid \in Nat /\ obj.gen \in Nat
         /\ cr.live /\ SeenDBUpgrade.uid = cr.uid => SeenDBUpgrade.spec \in Specs
         /\ pc # "idle" => obj.spec \in Specs
  <1>1. cr \in DBUpgrade /\ SeenDBUpgrade \in DBUpgrade /\ obj \in Fetched
    BY DEF Inv, TypeOK, SeenDBUpgrade
  <1>2. SeenDBUpgrade.live => SeenDBUpgrade.spec \in Specs
    BY CachedReads
  <1> QED BY <1>1, <1>2, Numbers DEF Behind, Inv, SpecsKnown

\* A generation that was launched before is one of the object that was there before.
LEMMA LaunchedBefore ==
  ASSUME LaunchInv, [Next]_vars, cr'.live, NEW l \in launched, l[1] = cr'.uid
  PROVE  /\ cr.live /\ cr'.uid = cr.uid /\ Follows(cr, cr')
         /\ SeenDBUpgrade.uid = cr.uid /\ l[2] <= SeenDBUpgrade.gen
         /\ pc # "idle" => obj.uid = cr.uid /\ l[2] <= obj.gen
  <1>1. l[1] <= cr.uid /\ cr.uid \in Nat
    BY Copies DEF LaunchInv, LaunchesKept
  <1>2. cr.live /\ cr'.uid = cr.uid /\ Follows(cr, cr')
    BY <1>1, UserStep DEF LaunchInv
  <1> QED BY <1>2 DEF LaunchInv, LaunchesKept

\* A Job of the live object that no delete is aimed at is there after the step.
LEMMA JobKept ==
  ASSUME Inv, [Next]_vars, NEW u, NEW s \in Specs, cr.live, cr.uid = u,
         jobs[computeSpecHash[s]].phase # "absent",
         jobs[computeSpecHash[s]].owner = u,
         DeleteJob => target # computeSpecHash[s]
  PROVE  /\ jobs'[computeSpecHash[s]].phase # "absent"
         /\ jobs'[computeSpecHash[s]].owner = u
  <1>1. computeSpecHash[s] \in JobNames
    BY HashAssumption
  <1>2. Stays(computeSpecHash[s])
    BY <1>1, JobStep DEF Orphaned
  <1> QED BY <1>2 DEF Stays

\* The second conjunct of LaunchesKept is preserved.
LEMMA LaunchedNext ==
  ASSUME LaunchInv, Inv', [Next]_vars, NEW l \in launched'
  PROVE  /\ l[1] <= cr'.uid
         /\ cr'.live /\ l[1] = cr'.uid =>
              /\ SeenDBUpgrade'.uid = cr'.uid /\ l[2] <= SeenDBUpgrade'.gen
              /\ pc' # "idle" => obj'.uid = cr'.uid /\ l[2] <= obj'.gen
  <1> USE DEF LaunchInv
  <1>1. /\ cr.uid \in Nat /\ cr.gen \in Nat /\ cr'.uid \in Nat /\ cr'.gen \in Nat
        /\ SeenDBUpgrade.uid \in Nat /\ SeenDBUpgrade.gen \in Nat
        /\ obj.uid \in Nat /\ obj.gen \in Nat
        /\ l \in Nat \X Nat
    BY Copies, Numbers, ConstantsAssumption DEF Inv, TypeOK
  <1>2. CASE l \in launched
    <2>1. l[1] <= cr'.uid
      BY <1>1, <1>2, UserStep DEF LaunchesKept
    <2>2. ASSUME cr'.live, l[1] = cr'.uid
          PROVE  /\ SeenDBUpgrade'.uid = cr'.uid /\ l[2] <= SeenDBUpgrade'.gen
                 /\ pc' # "idle" => obj'.uid = cr'.uid /\ l[2] <= obj'.gen
      <3>1. /\ cr.live /\ cr'.uid = cr.uid /\ Follows(cr, cr')
            /\ SeenDBUpgrade.uid = cr.uid /\ l[2] <= SeenDBUpgrade.gen
            /\ pc # "idle" => obj.uid = cr.uid /\ l[2] <= obj.gen
        BY <1>2, <2>2, LaunchedBefore
      <3>2. SeenDBUpgrade'.uid = cr'.uid /\ l[2] <= SeenDBUpgrade'.gen
        BY <1>1, <3>1, SeenStep DEF Behind, Follows
      <3>3. CASE Fetch
        BY <3>1, <3>2, <3>3 DEF Fetch
      <3> QED BY <3>1, <3>2, <3>3, HeldStep
    <2> QED BY <2>1, <2>2
  <1>3. CASE CreateJob /\ l = <<obj.uid, obj.gen>>
    <2>1. /\ cr' = cr /\ SeenDBUpgrade' = SeenDBUpgrade /\ obj' = obj /\ pc # "idle"
      BY <1>3 DEF CreateJob, Return, SeenDBUpgrade
    <2>2. l[1] = obj.uid /\ l[2] = obj.gen
      BY <1>3
    <2> QED BY <1>1, <2>1, <2>2 DEF Behind, Follows
  <1> QED BY <1>2, <1>3, LaunchStep DEF CreateJob

\* The Job of a launched generation that is cached or held stays.
LEMMA KeptNext ==
  ASSUME LaunchInv, Inv', [Next]_vars, cr'.live
  PROVE  /\ Kept(SeenDBUpgrade)'
         /\ pc' # "idle" => Kept(obj)'
  <1> USE DEF LaunchInv
  <1>1. /\ cr.uid \in Nat /\ cr.gen \in Nat /\ cr'.uid \in Nat /\ cr'.gen \in Nat
        /\ SeenDBUpgrade.uid \in Nat /\ SeenDBUpgrade.gen \in Nat
        /\ obj.uid \in Nat /\ obj.gen \in Nat
        /\ SeenDBUpgrade'.uid \in Nat /\ SeenDBUpgrade'.gen \in Nat
    BY Copies, Numbers DEF Inv, TypeOK, SeenDBUpgrade
  <1>2. CASE CreateJob
    <2>1. /\ cr' = cr /\ SeenDBUpgrade' = SeenDBUpgrade /\ obj' = obj /\ pc # "idle"
          /\ launched' = launched \cup {<<obj.uid, obj.gen>>}
      BY <1>2 DEF CreateJob, Return, SeenDBUpgrade
    <2>2. obj.spec \in Specs /\ ExpectedJobName \in JobNames /\ jobs \in [JobNames -> Job]
      BY <2>1, Copies, HashAssumption DEF ExpectedJobName, Inv, TypeOK
    <2>3. HasJob(obj)'
      BY <1>2, <2>1, <2>2 DEF CreateJob, HasJob, ExpectedJobName
    <2>4. Kept(SeenDBUpgrade)'
      <3> SUFFICES ASSUME SeenDBUpgrade.uid = cr.uid,
                          <<SeenDBUpgrade.uid, SeenDBUpgrade.gen>> \in launched'
                   PROVE  HasJob(SeenDBUpgrade)'
        BY <2>1 DEF Kept
      <3>1. CASE <<SeenDBUpgrade.uid, SeenDBUpgrade.gen>> \in launched
        <4>1. HasJob(SeenDBUpgrade) /\ SeenDBUpgrade.spec \in Specs
          BY <2>1, <3>1, Copies DEF LaunchesKept, Kept
        <4>2. ~DeleteJob
          BY <1>2 DEF CreateJob, DeleteJob
        <4> QED BY <2>1, <4>1, <4>2, JobKept DEF HasJob
      <3>2. CASE SeenDBUpgrade.uid = obj.uid /\ SeenDBUpgrade.gen = obj.gen
        <4>1. SeenDBUpgrade.spec = obj.spec
          BY <1>1, <2>1, <3>2 DEF Behind, Follows
        <4> QED BY <2>1, <2>3, <3>2, <4>1 DEF HasJob
      <3> QED BY <2>1, <3>1, <3>2
    <2> QED BY <2>3, <2>4 DEF Kept
  <1>3. CASE launched' = launched
    <2>1. ASSUME SeenDBUpgrade'.uid = cr'.uid,
                 <<SeenDBUpgrade'.uid, SeenDBUpgrade'.gen>> \in launched
          PROVE  HasJob(SeenDBUpgrade)'
      <3>1. /\ cr.live /\ cr'.uid = cr.uid /\ Follows(cr, cr')
            /\ SeenDBUpgrade.uid = cr.uid /\ SeenDBUpgrade'.gen <= SeenDBUpgrade.gen
            /\ pc # "idle" => obj.uid = cr.uid /\ SeenDBUpgrade'.gen <= obj.gen
        BY <2>1, LaunchedBefore
      <3>2. Same(SeenDBUpgrade', SeenDBUpgrade)
        BY <1>1, <2>1, <3>1, SeenStep DEF Behind, Follows, Same
      <3>3. HasJob(SeenDBUpgrade) /\ SeenDBUpgrade.spec \in Specs
        BY <2>1, <3>1, <3>2, Copies DEF LaunchesKept, Kept, Same
      <3>4. DeleteJob => target # computeSpecHash[SeenDBUpgrade.spec]
        <4>1. DeleteJob => obj.spec = SeenDBUpgrade.spec
          BY <1>1, <3>1, <3>2 DEF DeleteJob, Behind, Follows, Same
        <4> QED BY <4>1 DEF DeleteJob, LaunchesKept, ExpectedJobName
      <3> QED BY <3>1, <3>2, <3>3, <3>4, JobKept DEF HasJob, Same
    <2>2. ASSUME pc' # "idle", obj'.uid = cr'.uid, <<obj'.uid, obj'.gen>> \in launched
          PROVE  HasJob(obj)'
      <3>1. cr.live /\ cr'.uid = cr.uid
        BY <2>2, LaunchedBefore
      <3>2. CASE pc # "idle" /\ obj' = obj
        <4>1. HasJob(obj) /\ obj.spec \in Specs
          BY <2>2, <3>1, <3>2, Copies DEF LaunchesKept, Kept
        <4>2. DeleteJob => target # computeSpecHash[obj.spec]
          BY DEF DeleteJob, LaunchesKept, ExpectedJobName
        <4> QED BY <2>2, <3>1, <3>2, <4>1, <4>2, JobKept DEF HasJob
      <3>3. CASE Fetch
        <4>1. /\ obj'.uid = SeenDBUpgrade.uid /\ obj'.gen = SeenDBUpgrade.gen
              /\ obj'.spec = SeenDBUpgrade.spec /\ jobs' = jobs
          BY <3>3 DEF Fetch
        <4>2. HasJob(SeenDBUpgrade)
          BY <2>2, <3>1, <4>1 DEF LaunchesKept, Kept
        <4> QED BY <4>1, <4>2 DEF HasJob
      <3> QED BY <2>2, <3>2, <3>3, HeldStep
    <2> QED BY <1>3, <2>1, <2>2 DEF Kept
  <1> QED BY <1>2, <1>3, LaunchStep

\* Every step preserves what keeps a launched generation from being launched again.
LEMMA LaunchNext ==
  ASSUME LaunchInv, Inv', [Next]_vars
  PROVE  LaunchInv'
  <1>1. Behind'
    BY BehindNext DEF LaunchInv
  <1>2. pc' = "delete" => target' # ExpectedJobName'
    <2>1. CASE ReplaceOldJob
      BY <2>1 DEF ReplaceOldJob, StaleJobs, ExpectedJobName
    <2>2. CASE pc = "delete" /\ target' = target /\ obj' = obj
      BY <2>2 DEF LaunchInv, LaunchesKept, ExpectedJobName
    <2> QED BY <2>1, <2>2, LaunchStep
  <1>3. LaunchesKept'
    BY <1>2, LaunchedNext, KeptNext DEF LaunchesKept
  <1> QED BY <1>1, <1>3 DEF LaunchInv

\* Nothing is launched of an object that was never created.
LEMMA LaunchInit ==
  ASSUME Init, Inv
  PROVE  LaunchInv
  <1>1. ~cr.live /\ cr.uid = 0 /\ SeenDBUpgrade = cr
    BY DEF Init, Absent, SeenDBUpgrade
  <1>2. Behind /\ LaunchesKept
    BY <1>1 DEF Init, Behind, LaunchesKept
  <1> QED BY <1>2 DEF LaunchInv

\* LaunchInv holds of every behaviour.
LEMMA LaunchAlways == Spec => []LaunchInv
  <1>1. LaunchInv /\ Inv' /\ [Next]_vars => LaunchInv'
    BY LaunchNext
  <1>2. Init /\ Inv => LaunchInv
    BY LaunchInit
  <1> QED BY <1>1, <1>2, Invariant, PTL DEF Spec

\* One generation of an object that still exists starts its migration once: for all
\* lags, any number of specs, generations and incarnations, failures, lost answers and
\* crashes at any point, although the list of Jobs may not show the first one.
THEOREM LaunchedOnce == Spec => NoSecondLaunch
  <1>1. Spec => []LaunchInv
    BY LaunchAlways
  <1>2. ASSUME LaunchInv, Inv', [Next]_vars, NEW n \in JobNames,
               Launches(n), ~Orphaned(jobs'[n].owner), launched' = launched
        PROVE  FALSE
    <2>1. CASE CreateJob
      <3>1. /\ jobs \in [JobNames -> Job] /\ pc = "create" /\ cr' = cr
            /\ <<obj.uid, obj.gen>> \in launched
            /\ jobs[ExpectedJobName].phase = "absent"
        BY <1>2, <2>1 DEF CreateJob, LaunchInv, Inv, TypeOK
      <3>2. n = ExpectedJobName /\ jobs'[n].owner = obj.uid
        BY <1>2, <2>1, <3>1 DEF CreateJob, Launches
      <3>3. cr.live /\ obj.uid = cr.uid
        BY <1>2, <3>1, <3>2 DEF Orphaned
      <3> QED BY <1>2, <3>1, <3>3 DEF LaunchInv, LaunchesKept, Kept, HasJob,
              ExpectedJobName
    <2>2. CASE ~CreateJob
      BY <1>2, <2>2, NewJob DEF LaunchInv
    <2> QED BY <2>1, <2>2
  <1>3. LaunchInv /\ LaunchInv' /\ [Next]_vars =>
          [\A n \in JobNames :
             Launches(n) /\ ~Orphaned(jobs'[n].owner) => launched' # launched]_vars
    BY <1>2 DEF LaunchInv
  <1> QED BY <1>1, <1>3, PTL DEF Spec, NoSecondLaunch

(***************************************************************************)
(* No wakeup is lost                                                       *)
(***************************************************************************)

\* The Jobs the controller lists show that o's Job is over.
Ended(o, phase) ==
  /\ SeenJobs[computeSpecHash[o.spec]].phase = phase
  /\ SeenJobs[computeSpecHash[o.spec]].owner = o.uid

\* What is said of o in s is final.
FinalFor(o, s) ==
  /\ ~s.progressing
  /\ \/ s.ready /\ s.reason = "MigrationComplete" /\ Ended(o, "complete")
     \/ s.reason = "JobFailed" /\ Ended(o, "failed")
     \/ s.reason = "AWSNotSupported" /\ DatabaseOf[o.spec] = "awsNoConfig"

\* A result that nothing will follow is final, and so is a status that nothing will
\* follow.
Awake ==
  /\ pc = "status" /\ fresh /\ ~queued /\ ~result.requeue => FinalFor(obj, result)
  /\ pc = "idle" /\ ~queued /\ ~timer /\ crFresh /\ cr.live =>
        cr.observed = cr.gen /\ FinalFor(cr, cr)

\* Users and the cluster leave the reconcile alone and take no wakeup away; what they
\* change is an event.
LEMMA EnvironmentStep ==
  ASSUME [User \/ Cluster]_vars, ~Crash
  PROVE  /\ pc' = pc /\ obj' = obj /\ result' = result
         /\ queued => queued'
         /\ timer => timer' \/ queued'
         /\ crFresh' => queued' \/ (crFresh /\ cr' = cr)
         /\ fresh' => fresh /\ cr' = cr
         /\ jobCache' = jobCache \/ queued'
  <1>1. CASE User
    <2>1. /\ UNCHANGED <<pc, obj, result, queued, timer, jobCache>>
          /\ \/ UNCHANGED <<cr, crFresh, fresh>>
             \/ crFresh' = FALSE /\ fresh' = FALSE
      BY <1>1
         DEF User, CreateDBUpgrade, UpdateSpec, DeleteDBUpgrade, RotateSecret,
             RemoveSecret, WriteCustomerSecret, WriteDBUpgrade
    <2> QED BY <2>1
  <1>2. CASE UNCHANGED vars
    BY <1>2 DEF vars
  <1>3. CASE Cluster
    BY <1>3
       DEF Cluster, JobAdvances, StartPod, StartContainer, JobSucceeds, JobFails,
           SetPhase, CollectJob, LingeringPodAdvances, CollectSecret, SyncDBUpgrade,
           SyncJobs, SyncSecrets, TimerFires, Resync
  <1> QED BY <1>1, <1>2, <1>3

\* A Job of the live object that is listed as over stays so until the next event.
LEMMA EndedStep ==
  ASSUME Inv, [Next]_vars, ~DeleteJob,
         NEW u, NEW s \in Specs, NEW phase \in {"complete", "failed"},
         cr.live, cr.uid = u, jobCache' = jobCache,
         SeenJobs[computeSpecHash[s]].phase = phase,
         SeenJobs[computeSpecHash[s]].owner = u
  PROVE  /\ SeenJobs'[computeSpecHash[s]].phase = phase
         /\ SeenJobs'[computeSpecHash[s]].owner = u
  <1>1. computeSpecHash[s] \in JobNames
    BY HashAssumption
  <1>2. CASE "Job" \in Lagging
    BY <1>2 DEF SeenJobs
  <1>3. CASE "Job" \notin Lagging
    <2>1. Stays(computeSpecHash[s])
      BY <1>1, <1>3, JobStep DEF Orphaned, SeenJobs
    <2> QED BY <1>3, <2>1 DEF Stays, SeenJobs
  <1> QED BY <1>2, <1>3

\* What is final stays final until the next event, as long as the object is live.
LEMMA FinalStep ==
  ASSUME Inv, [Next]_vars, ~DeleteJob, jobCache' = jobCache, cr.live
  PROVE  /\ /\ obj.uid = cr.uid /\ obj.spec \in Specs /\ FinalFor(obj, result)
            /\ obj' = obj /\ result' = result
            => FinalFor(obj, result)'
         /\ FinalFor(cr, cr) /\ cr' = cr => FinalFor(cr, cr)'
  <1>1. cr.spec \in Specs
    BY DEF Inv, SpecsKnown
  <1>2. ASSUME obj.uid = cr.uid, obj.spec \in Specs, FinalFor(obj, result),
               obj' = obj, result' = result
        PROVE  FinalFor(obj, result)'
    BY <1>2, EndedStep DEF FinalFor, Ended
  <1>3. ASSUME FinalFor(cr, cr), cr' = cr PROVE FinalFor(cr, cr)'
    BY <1>1, <1>3, EndedStep DEF FinalFor, Ended
  <1> QED BY <1>2, <1>3

\* The results that nothing follows, where they are computed.
LEMMA ResultFinal ==
  ASSUME Inv, Reconcile, pc' = "status", ~result'.requeue
  PROVE  FinalFor(obj, result)'
  <1>1. CASE Fetch
    <2>1. /\ result' = Stopped("AWSNotSupported") /\ obj'.spec = SeenDBUpgrade.spec
          /\ DatabaseOf[SeenDBUpgrade.spec] = "awsNoConfig"
      BY <1>1 DEF Fetch, Validate, ConfigMissing, Blocked, Result
    <2> QED BY <2>1 DEF FinalFor, Stopped, Result
  <1>2. CASE SyncJobStatus
    <2>1. obj' = obj /\ SeenJobs' = SeenJobs
      BY <1>2 DEF SyncJobStatus, Return, SeenJobs
    <2>2. PICK n \in OwnedJobs \ StaleJobs :
            \/ SeenJobs[n].phase = "complete" /\ result' = Succeeded
            \/ SeenJobs[n].phase = "failed" /\ result' = Stopped("JobFailed")
      BY <1>2 DEF SyncJobStatus, Return, Waiting, Blocked, Result
    <2>3. n = computeSpecHash[obj.spec] /\ SeenJobs[n].owner = obj.uid
      BY DEF OwnedJobs, StaleJobs, ExpectedJobName
    <2> QED BY <2>1, <2>2, <2>3 DEF FinalFor, Ended, Succeeded, Stopped, Result
  <1>3. CASE ~Fetch /\ ~SyncJobStatus
    <2>1. result'.requeue = TRUE
      BY <1>3
         DEF Reconcile, FetchNotFound, SecretUpToDate, WriteSecret, SecretError,
             ListJobsFails, WaitForOldJob, ReplaceOldJob, NoJobFound, PreCheckFails,
             DeleteJob, CreateJob, JobAlreadyExists, CreateJobFails, UpdateStatus,
             UpdateStatusFails, Goto, Return, Done, Waiting, Blocked, Result
    <2> QED BY <2>1
  <1> QED BY <1>1, <1>2, <1>3

\* A reconcile that comes to its end without a requeue leaves a final status behind.
LEMMA StatusFinal ==
  ASSUME Inv, Awake, Reconcile, pc' = "idle", ~queued', ~timer', crFresh', cr'.live
  PROVE  cr'.observed = cr'.gen /\ FinalFor(cr, cr)'
  <1>1. UpdateStatus
    <2>1. ~FetchNotFound
      BY DEF FetchNotFound, SeenDBUpgrade, Inv, VersionsHonest
    <2>2. ~UpdateStatusFails
      BY DEF UpdateStatusFails
    <2>3. ASSUME Reconcile, ~FetchNotFound, ~UpdateStatus, ~UpdateStatusFails
          PROVE  pc' # "idle"
      BY <2>3
         DEF Reconcile, Fetch, Validate, SecretUpToDate, WriteSecret, SecretError,
             ListJobsFails, WaitForOldJob, ReplaceOldJob, SyncJobStatus, NoJobFound,
             PreCheckFails, DeleteJob, CreateJob, JobAlreadyExists, CreateJobFails,
             Goto, Return
    <2> QED BY <2>1, <2>2, <2>3
  <1>2. /\ pc = "status" /\ fresh /\ ~queued /\ ~result.requeue
        /\ cr' = cr /\ StatusWritten = cr /\ SeenJobs' = SeenJobs
    <2>1. pc = "status" /\ fresh
      BY <1>1 DEF UpdateStatus, StatusAccepted
    <2>2. cr' = cr /\ StatusWritten = cr
      BY <1>1 DEF UpdateStatus, WriteDBUpgrade
    <2>3. queued' = queued /\ timer' = (timer \/ result.requeue)
      BY <1>1 DEF UpdateStatus
    <2>4. ~queued
      BY <2>3
    <2>5. ~result.requeue
      BY <2>3, Zenon
    <2>6. SeenJobs' = SeenJobs
      BY <1>1 DEF UpdateStatus, jobVars, SeenJobs
    <2> QED BY <2>1, <2>2, <2>4, <2>5, <2>6
  <1>3. FinalFor(obj, result) /\ Same(obj, cr)
    BY <1>2 DEF Awake, Inv, VersionsHonest, Same
  <1>4. /\ cr.ready = result.ready /\ cr.progressing = result.progressing
        /\ cr.reason = result.reason /\ cr.observed = obj.gen
    BY <1>2 DEF StatusWritten, Inv, TypeOK, DBUpgrade
  <1> QED BY <1>2, <1>3, <1>4 DEF FinalFor, Ended, Same

LEMMA AwakeNext ==
  ASSUME Inv, Inv', Awake, [Next]_vars
  PROVE  Awake'
  <1>1. CASE Reconcile
    BY <1>1, ResultFinal, StatusFinal DEF Awake
  <1>2. CASE Crash
    BY <1>2 DEF Crash, Awake, Inv, VersionsHonest
  <1>3. CASE [User \/ Cluster]_vars /\ ~Crash
    <2>1. ~DeleteJob \/ pc \notin {"idle", "status"}
      BY DEF DeleteJob
    <2>2. ASSUME pc' = "status", fresh', ~queued', ~result'.requeue
          PROVE  FinalFor(obj, result)'
      <3>1. /\ pc = "status" /\ fresh /\ ~queued /\ ~result.requeue
            /\ obj' = obj /\ result' = result /\ jobCache' = jobCache
        BY <1>3, <2>2, EnvironmentStep
      <3>2. cr.live /\ obj.uid = cr.uid /\ obj.spec \in Specs
        BY <3>1 DEF Inv, VersionsHonest, SpecsKnown
      <3> QED BY <2>1, <3>1, <3>2, FinalStep DEF Awake
    <2>3. ASSUME pc' = "idle", ~queued', ~timer', crFresh', cr'.live
          PROVE  cr'.observed = cr'.gen /\ FinalFor(cr, cr)'
      <3>1. /\ pc = "idle" /\ ~queued /\ ~timer /\ crFresh /\ cr' = cr
            /\ jobCache' = jobCache
        BY <1>3, <2>3, EnvironmentStep
      <3> QED BY <2>1, <2>3, <3>1, FinalStep DEF Awake
    <2> QED BY <2>2, <2>3 DEF Awake
  <1> QED BY <1>1, <1>2, <1>3 DEF Next

\* Once nothing is queued, delayed, in flight or undelivered, the status is about the
\* current generation and final: however the caches lag, whatever failed, whoever
\* crashed, some event, requeue or error has brought the key back.
THEOREM QuietSettled == Spec => []QuietIsSettled
  <1>1. Init => Awake
    BY DEF Init, Absent, Awake
  <1>2. Inv /\ Inv' /\ Awake /\ [Next]_vars => Awake'
    BY AwakeNext
  <1>3. Awake => QuietIsSettled
    BY DEF Awake, QuietIsSettled, Quiet, Final, FinalFor, Ended, SeenJobs
  <1> QED BY <1>1, <1>2, <1>3, Invariant, PTL DEF Spec

(***************************************************************************)
(* While done is reported, when Jobs are read from the server              *)
(***************************************************************************)

\* The status says that the current generation is migrated.
Claimed == cr.live /\ cr.ready /\ cr.observed = cr.gen

\* The Job of o is there and complete.
Completed(o) ==
  /\ jobs[computeSpecHash[o.spec]].phase = "complete"
  /\ jobs[computeSpecHash[o.spec]].owner = o.uid

\* The result says so, or has one of the reasons not to that do not deny the Job.
Excused ==
  \/ result.ready
  \/ result.reason \in {"SecretNotFound", "Initializing"}
  \/ /\ obj.spec \in PostChecked
     /\ result.reason \in {"PostCheckFailed", "PostCheckBakeTimeWaiting"}

\* While the status claims a migration, its Job is there, nobody holds an older copy of
\* the object, and no reconcile is on its way to another Job.
ClaimHolds ==
  Claimed => /\ Completed(cr) /\ DatabaseOf[cr.spec] # "awsNoConfig"
             /\ Same(SeenDBUpgrade, cr)
             /\ pc # "idle" => Same(obj, cr)
             /\ pc \in {"idle", "secret", "job", "status"}
             /\ pc = "status" => Excused

\* A fresh copy is the cached one.
FreshIsNewest == fresh => Same(SeenDBUpgrade, cr)

\* What makes it so when the claim is written.
ClaimPrepared ==
  /\ FreshIsNewest
  /\ fresh /\ result.ready => Completed(obj) /\ DatabaseOf[obj.spec] # "awsNoConfig"
  /\ pc \notin {"idle", "status"} => DatabaseOf[obj.spec] # "awsNoConfig"

ClaimInv == ClaimHolds /\ ClaimPrepared

\* The object changes by status writes and by users.
LEMMA ObjectWrites ==
  ASSUME [Next]_vars
  PROVE  \/ cr' = cr
         \/ UpdateStatus
         \/ \E s \in Specs : CreateDBUpgrade(s) \/ UpdateSpec(s)
         \/ DeleteDBUpgrade
  <1>1. CASE Reconcile
    BY <1>1
       DEF Reconcile, Fetch, FetchNotFound, SecretUpToDate, WriteSecret, SecretError,
           ListJobsFails, WaitForOldJob, ReplaceOldJob, SyncJobStatus, NoJobFound,
           PreCheckFails, DeleteJob, CreateJob, JobAlreadyExists, CreateJobFails,
           UpdateStatusFails
  <1>2. CASE User
    BY <1>2 DEF User, RotateSecret, RemoveSecret, WriteCustomerSecret
  <1>3. CASE Cluster
    BY <1>3
       DEF Cluster, JobAdvances, StartPod, StartContainer, JobSucceeds, JobFails,
           SetPhase, CollectJob, LingeringPodAdvances, CollectSecret, SyncDBUpgrade,
           SyncJobs, SyncSecrets, TimerFires, Resync, Crash
  <1>4. CASE UNCHANGED vars
    BY <1>4 DEF vars
  <1> QED BY <1>1, <1>2, <1>3, <1>4 DEF Next

\* A copy is fresh only since it was fetched, and only while nobody writes the object.
LEMMA FreshStep ==
  ASSUME [Next]_vars, fresh'
  PROVE  Fetch \/ (fresh /\ cr' = cr /\ obj' = obj)
  <1>1. CASE Reconcile
    BY <1>1
       DEF Reconcile, FetchNotFound, SecretUpToDate, WriteSecret, SecretError,
           ListJobsFails, WaitForOldJob, ReplaceOldJob, SyncJobStatus, NoJobFound,
           PreCheckFails, DeleteJob, CreateJob, JobAlreadyExists, CreateJobFails,
           UpdateStatus, UpdateStatusFails, Goto, Return, Done
  <1>2. CASE User
    BY <1>2
       DEF User, CreateDBUpgrade, UpdateSpec, DeleteDBUpgrade, RotateSecret,
           RemoveSecret, WriteCustomerSecret
  <1>3. CASE Cluster
    BY <1>3
       DEF Cluster, JobAdvances, StartPod, StartContainer, JobSucceeds, JobFails,
           SetPhase, CollectJob, LingeringPodAdvances, CollectSecret, SyncDBUpgrade,
           SyncJobs, SyncSecrets, TimerFires, Resync, Crash
  <1>4. CASE UNCHANGED vars
    BY <1>4 DEF vars
  <1> QED BY <1>1, <1>2, <1>3, <1>4 DEF Next

\* Outside Reconcile the reconcile stands still or is given up.
LEMMA StandsStill ==
  ASSUME [User \/ Cluster]_vars
  PROVE  \/ pc' = "idle" /\ result' = NoResult
         \/ pc' = pc /\ obj' = obj /\ result' = result
  <1>1. CASE User \/ UNCHANGED vars
    BY <1>1
       DEF User, CreateDBUpgrade, UpdateSpec, DeleteDBUpgrade, RotateSecret,
           RemoveSecret, WriteCustomerSecret, vars
  <1>2. CASE Cluster
    BY <1>2
       DEF Cluster, JobAdvances, StartPod, StartContainer, JobSucceeds, JobFails,
           SetPhase, CollectJob, LingeringPodAdvances, CollectSecret, SyncDBUpgrade,
           SyncJobs, SyncSecrets, TimerFires, Resync, Crash
  <1> QED BY <1>1, <1>2

\* A claim is one that stood before, or is written by a reconcile that succeeded with the
\* newest copy of the object.
LEMMA ClaimStep ==
  ASSUME Inv, [Next]_vars, Claimed'
  PROVE  /\ Same(cr', cr) /\ cr.live
         /\ \/ Claimed
            \/ /\ UpdateStatus /\ pc = "status" /\ pc' = "idle" /\ jobs' = jobs
               /\ fresh /\ result.ready
  <1>1. ~DeleteDBUpgrade
    BY DEF DeleteDBUpgrade, WriteDBUpgrade, Absent, Claimed
  <1>2. ASSUME NEW s \in Specs, CreateDBUpgrade(s) PROVE FALSE
    BY <1>2 DEF CreateDBUpgrade, WriteDBUpgrade, Absent, Claimed
  <1>3. ASSUME NEW s \in Specs, UpdateSpec(s) PROVE FALSE
    <2>1. /\ cr'.gen = cr.gen + 1 /\ cr'.observed = cr.observed /\ cr.gen \in Nat
          /\ cr.observed \in Nat /\ cr.observed <= cr.gen
      BY <1>3, Numbers, ConstantsAssumption
         DEF UpdateSpec, WriteDBUpgrade, Inv, TypeOK, DBUpgrade
    <2> QED BY <2>1 DEF Claimed
  <1>4. CASE UpdateStatus
    <2>1. pc = "status" /\ fresh /\ cr.live /\ pc' = "idle" /\ jobs' = jobs
      BY <1>4 DEF UpdateStatus, StatusAccepted, Done, Inv, VersionsHonest
    <2>2. CASE cr' = cr
      BY <2>1, <2>2 DEF Claimed, Same
    <2>3. CASE cr' = StatusWritten
      <3>1. cr'.ready = result.ready /\ Same(cr', cr)
        BY <2>3 DEF StatusWritten, Inv, TypeOK, DBUpgrade, Same
      <3> QED BY <1>4, <2>1, <3>1 DEF Claimed
    <2> QED BY <1>4, <2>2, <2>3 DEF UpdateStatus, WriteDBUpgrade
  <1>5. CASE cr' = cr
    BY <1>5 DEF Claimed, Same
  <1> QED BY <1>1, <1>2, <1>3, <1>4, <1>5, ObjectWrites

\* A success that is held was found in this step, or was held before.
LEMMA ReadyStep ==
  ASSUME Inv, [Next]_vars, fresh', result'.ready
  PROVE  \/ /\ SyncJobStatus /\ pc = "job" /\ obj' = obj /\ jobs' = jobs
            /\ \E n \in JobNames : /\ n = ExpectedJobName /\ SeenJobs[n].owner = obj.uid
                                   /\ SeenJobs[n].phase = "complete"
         \/ pc = "status" /\ fresh /\ result.ready /\ cr' = cr /\ obj' = obj
  <1>1. CASE SyncJobStatus
    <2>1. pc = "job" /\ obj' = obj /\ jobs' = jobs
      BY <1>1 DEF SyncJobStatus, Return
    <2>2. PICK n \in OwnedJobs \ StaleJobs : SeenJobs[n].phase = "complete"
      BY <1>1 DEF SyncJobStatus, Return, Waiting, Blocked, Stopped, Result
    <2> QED BY <1>1, <2>1, <2>2 DEF OwnedJobs, StaleJobs
  <1>2. CASE ~SyncJobStatus
    <2>1. ~Fetch
      <3>1. Fetch => pc = "idle" /\ (result' = result \/ result'.ready = FALSE)
        BY DEF Fetch, Validate, Blocked, Stopped, Result
      <3>2. pc = "idle" => ~result.ready
        BY DEF Inv, ResultEarned
      <3> QED BY <3>1, <3>2
    <2>2. result' = result
      <3>1. CASE Reconcile
        <4>1. \/ UNCHANGED result
              \/ \E reason : Return(Waiting(reason)) \/ Return(Blocked(reason))
              \/ Done
          BY <1>2, <2>1, <3>1
             DEF Reconcile, FetchNotFound, SecretUpToDate, WriteSecret, SecretError,
                 ListJobsFails, WaitForOldJob, ReplaceOldJob, NoJobFound,
                 PreCheckFails, DeleteJob, CreateJob, JobAlreadyExists,
                 CreateJobFails, UpdateStatus, UpdateStatusFails, Goto
        <4> QED BY <4>1 DEF Return, Done, Waiting, Blocked, Result
      <3>2. CASE [User \/ Cluster]_vars
        BY <3>2, StandsStill DEF NoResult, Stopped, Result
      <3> QED BY <3>1, <3>2 DEF Next
    <2>3. fresh /\ cr' = cr /\ obj' = obj /\ result.ready
      BY <2>1, <2>2, FreshStep
    <2> QED BY <2>3 DEF Inv, ResultEarned
  <1> QED BY <1>1, <1>2

\* It stays so.
LEMMA NewestStep ==
  ASSUME Inv, FreshIsNewest, [Next]_vars
  PROVE  FreshIsNewest'
  <1> SUFFICES ASSUME fresh' PROVE Same(SeenDBUpgrade', cr')
    BY DEF FreshIsNewest
  <1>1. CASE Fetch
    <2>1. SeenDBUpgrade' = cr'
      BY <1>1 DEF Fetch, SeenDBUpgrade, Inv, VersionsHonest
    <2> QED BY <2>1 DEF Same
  <1>2. CASE fresh /\ cr' = cr
    BY <1>2, SeenStep DEF FreshIsNewest, Same
  <1> QED BY <1>1, <1>2, FreshStep

\* A completed Job of the live object stays, unless it is the target of a delete.
LEMMA CompletedStep ==
  ASSUME Inv, [Next]_vars, ~DeleteJob, NEW u, NEW s \in Specs, cr.live, cr.uid = u,
         jobs[computeSpecHash[s]].phase = "complete",
         jobs[computeSpecHash[s]].owner = u
  PROVE  /\ jobs'[computeSpecHash[s]].phase = "complete"
         /\ jobs'[computeSpecHash[s]].owner = u
  <1>1. computeSpecHash[s] \in JobNames
    BY HashAssumption
  <1>2. Stays(computeSpecHash[s])
    BY <1>1, JobStep DEF Orphaned
  <1> QED BY <1>2 DEF Stays

\* From a claimed generation, a reconcile goes nowhere near another Job.
LEMMA ClaimedReconcile ==
  ASSUME "Job" \notin Lagging, Inv, OneJobAtATime, ClaimHolds, Claimed, Reconcile
  PROVE  /\ pc' # "idle" => Same(obj', cr)
         /\ pc' \in {"idle", "secret", "job", "status"}
         /\ pc' = "status" => Excused'
  <1>1. /\ Completed(cr) /\ DatabaseOf[cr.spec] # "awsNoConfig"
        /\ Same(SeenDBUpgrade, cr) /\ (pc # "idle" => Same(obj, cr))
        /\ pc \in {"idle", "secret", "job", "status"} /\ (pc = "status" => Excused)
        /\ SeenJobs = jobs
    BY DEF ClaimHolds, SeenJobs
  <1>2. CASE pc = "idle"
    <2>1. Fetch \/ FetchNotFound
      BY <1>2
         DEF Reconcile, SecretUpToDate, WriteSecret, SecretError, ListJobsFails,
             WaitForOldJob, ReplaceOldJob, SyncJobStatus, NoJobFound, PreCheckFails,
             DeleteJob, CreateJob, JobAlreadyExists, CreateJobFails, UpdateStatus,
             UpdateStatusFails
    <2>2. CASE Fetch
      <3>1. Same(obj', cr)
        BY <1>1, <2>2 DEF Fetch, Same
      <3>2. pc' = "secret" \/ (pc' = "status" /\ result'.reason = "SecretNotFound")
        BY <1>1, <2>2 DEF Fetch, Validate, ConfigMissing, Same, Blocked, Result
      <3> QED BY <3>1, <3>2 DEF Excused
    <2>3. CASE FetchNotFound
      BY <1>2, <2>3 DEF FetchNotFound
    <2> QED BY <2>1, <2>2, <2>3
  <1>3. CASE pc = "secret"
    <2>1. /\ obj' = obj
          /\ pc' = "job" \/ (pc' = "status" /\ result'.reason = "SecretNotFound")
      BY <1>3
         DEF Reconcile, Fetch, FetchNotFound, SecretUpToDate, WriteSecret, SecretError,
             ListJobsFails, WaitForOldJob, ReplaceOldJob, SyncJobStatus, NoJobFound,
             PreCheckFails, DeleteJob, CreateJob, JobAlreadyExists, CreateJobFails,
             UpdateStatus, UpdateStatusFails, Goto, Return, Blocked, Result
    <2> QED BY <1>1, <1>3, <2>1 DEF Excused
  <1>4. CASE pc = "job"
    <2>1. cr.spec \in Specs /\ obj.spec = cr.spec /\ obj.uid = cr.uid
      BY <1>1, <1>4 DEF Claimed, Inv, SpecsKnown, Same
    <2>2. ExpectedJobName \in OwnedJobs /\ jobs[ExpectedJobName].phase = "complete"
      BY <1>1, <2>1, HashAssumption DEF Completed, OwnedJobs, ExpectedJobName
    <2>3. StaleJobs = {}
      BY <1>1, <2>2 DEF StaleJobs, OwnedJobs, OneJobAtATime
    <2>4. SyncJobStatus \/ ListJobsFails
      BY <1>4, <2>2, <2>3
         DEF Reconcile, Fetch, FetchNotFound, SecretUpToDate, WriteSecret, SecretError,
             WaitForOldJob, ReplaceOldJob, NoJobFound, PreCheckFails, NoJobExists,
             DeleteJob, CreateJob, JobAlreadyExists, CreateJobFails, UpdateStatus,
             UpdateStatusFails
    <2>5. CASE SyncJobStatus
      <3>1. \A n \in OwnedJobs \ StaleJobs : SeenJobs[n].phase = "complete"
        BY <1>1, <2>2, <2>3 DEF OwnedJobs, OneJobAtATime
      <3>2. /\ pc' = "status" /\ obj' = obj
            /\ \/ result' = Succeeded
               \/ /\ obj.spec \in PostChecked
                  /\ \/ result' = Waiting("PostCheckBakeTimeWaiting")
                     \/ result' = Blocked("PostCheckFailed")
        BY <2>5, <3>1 DEF SyncJobStatus, Return
      <3> QED BY <1>1, <1>4, <3>2 DEF Excused, Succeeded, Waiting, Blocked, Result
    <2>6. CASE ListJobsFails
      BY <1>1, <1>4, <2>6 DEF ListJobsFails, Return, Excused, Blocked, Result
    <2> QED BY <2>4, <2>5, <2>6
  <1>5. CASE pc = "status"
    <2>1. pc' = "idle"
      BY <1>5
         DEF Reconcile, Fetch, FetchNotFound, SecretUpToDate, WriteSecret, SecretError,
             ListJobsFails, WaitForOldJob, ReplaceOldJob, SyncJobStatus, NoJobFound,
             PreCheckFails, DeleteJob, CreateJob, JobAlreadyExists, CreateJobFails,
             UpdateStatus, UpdateStatusFails, Done
    <2> QED BY <2>1
  <1> QED BY <1>1, <1>2, <1>3, <1>4, <1>5

\* A claim is kept by every step that does not withdraw it.
LEMMA ClaimKept ==
  ASSUME "Job" \notin Lagging, Inv, OneJobAtATime, ClaimInv, Claimed, [Next]_vars,
         Claimed'
  PROVE  ClaimHolds'
  <1>1. /\ Completed(cr) /\ DatabaseOf[cr.spec] # "awsNoConfig"
        /\ Same(SeenDBUpgrade, cr) /\ (pc # "idle" => Same(obj, cr))
        /\ pc \in {"idle", "secret", "job", "status"} /\ (pc = "status" => Excused)
    BY DEF ClaimInv, ClaimHolds
  <1>2. Same(cr', cr)
    BY ClaimStep
  <1>3. Completed(cr)'
    <2>1. ~DeleteJob /\ cr.live /\ cr.spec \in Specs
      BY <1>1 DEF DeleteJob, Claimed, Inv, SpecsKnown
    <2> QED BY <1>1, <1>2, <2>1, CompletedStep DEF Completed, Same
  <1>4. Same(SeenDBUpgrade', cr')
    BY <1>1, <1>2, SeenStep DEF Same
  <1>5. /\ pc' # "idle" => Same(obj', cr)
        /\ pc' \in {"idle", "secret", "job", "status"}
        /\ pc' = "status" => Excused'
    <2>1. CASE Reconcile
      BY <2>1, ClaimedReconcile DEF ClaimInv
    <2>2. CASE [User \/ Cluster]_vars
      BY <1>1, <2>2, StandsStill DEF Excused
    <2> QED BY <2>1, <2>2 DEF Next
  <1> QED BY <1>1, <1>2, <1>3, <1>4, <1>5 DEF ClaimHolds, Same

\* A claim is made of a Job that is there, with the newest copy of the object.
LEMMA ClaimMade ==
  ASSUME Inv, ClaimInv, ~Claimed, [Next]_vars, Claimed'
  PROVE  ClaimHolds'
  <1>1. /\ UpdateStatus /\ pc = "status" /\ pc' = "idle" /\ jobs' = jobs
        /\ fresh /\ result.ready /\ Same(cr', cr)
    BY ClaimStep
  <1>2. Same(obj, cr) /\ Same(SeenDBUpgrade, cr)
    BY <1>1 DEF Inv, VersionsHonest, ClaimInv, ClaimPrepared, FreshIsNewest, Same
  <1>3. Completed(obj) /\ DatabaseOf[obj.spec] # "awsNoConfig"
    BY <1>1 DEF ClaimInv, ClaimPrepared
  <1>4. Completed(cr)' /\ DatabaseOf[cr'.spec] # "awsNoConfig"
    BY <1>1, <1>2, <1>3 DEF Completed, Same
  <1>5. Same(SeenDBUpgrade', cr')
    BY <1>1, <1>2, SeenStep DEF Same
  <1> QED BY <1>1, <1>4, <1>5 DEF ClaimHolds

\* A fresh copy is the cached one, and a success it carries is that of a Job on the
\* server.
LEMMA ClaimPreparedNext ==
  ASSUME "Job" \notin Lagging, Inv, ClaimPrepared, [Next]_vars
  PROVE  ClaimPrepared'
  <1>1. FreshIsNewest'
    BY NewestStep DEF ClaimPrepared
  <1>2. ASSUME fresh', result'.ready
        PROVE  Completed(obj)' /\ DatabaseOf[obj'.spec] # "awsNoConfig"
    <2>1. CASE SyncJobStatus /\ pc = "job" /\ obj' = obj /\ jobs' = jobs
               /\ \E n \in JobNames : /\ n = ExpectedJobName /\ SeenJobs[n].owner = obj.uid
                                      /\ SeenJobs[n].phase = "complete"
      BY <2>1 DEF SeenJobs, ExpectedJobName, Completed, ClaimPrepared
    <2>2. CASE pc = "status" /\ fresh /\ result.ready /\ cr' = cr /\ obj' = obj
      <3>1. /\ cr.live /\ obj.uid = cr.uid /\ obj.spec \in Specs
            /\ Completed(obj) /\ DatabaseOf[obj.spec] # "awsNoConfig"
        BY <2>2 DEF Inv, VersionsHonest, SpecsKnown, ClaimPrepared
      <3>2. ~DeleteJob
        BY <2>2 DEF DeleteJob
      <3> QED BY <2>2, <3>1, <3>2, CompletedStep DEF Completed
    <2> QED BY <1>2, <2>1, <2>2, ReadyStep
  <1>3. ASSUME pc' \notin {"idle", "status"} PROVE DatabaseOf[obj'.spec] # "awsNoConfig"
    <2>1. CASE Fetch
      BY <1>3, <2>1 DEF Fetch, Validate, ConfigMissing
    <2>2. CASE ~Fetch /\ pc = "status"
      <3>1. CASE Reconcile
        BY <1>3, <2>2, <3>1
           DEF Reconcile, FetchNotFound, SecretUpToDate, WriteSecret, SecretError,
               ListJobsFails, WaitForOldJob, ReplaceOldJob, SyncJobStatus, NoJobFound,
               PreCheckFails, DeleteJob, CreateJob, JobAlreadyExists, CreateJobFails,
               UpdateStatus, UpdateStatusFails, Done
      <3>2. CASE [User \/ Cluster]_vars
        BY <1>3, <2>2, <3>2, StandsStill
      <3> QED BY <3>1, <3>2 DEF Next
    <2>3. CASE ~Fetch /\ pc # "status"
      <3>1. pc # "idle" /\ obj' = obj
        BY <1>3, <2>3, HeldStep
      <3> QED BY <2>3, <3>1 DEF ClaimPrepared
    <2> QED BY <2>1, <2>2, <2>3
  <1> QED BY <1>1, <1>2, <1>3 DEF ClaimPrepared

\* ClaimInv holds of every behaviour in which Jobs are read from the server.
LEMMA ClaimAlways == "Job" \notin Lagging => (Spec => []ClaimInv)
  <1> SUFFICES ASSUME "Job" \notin Lagging PROVE Spec => []ClaimInv
    OBVIOUS
  <1>1. Init => ClaimInv
    BY DEF Init, Absent, ClaimInv, ClaimHolds, ClaimPrepared, FreshIsNewest, Claimed
  <1>2. ASSUME Inv, OneJobAtATime, ClaimInv, [Next]_vars PROVE ClaimInv'
    BY <1>2, ClaimKept, ClaimMade, ClaimPreparedNext DEF ClaimInv, ClaimHolds
  <1>3. Spec => []OneJobAtATime
    BY OneJob
  <1> QED BY <1>1, <1>2, <1>3, Invariant, PTL DEF Spec

(***************************************************************************)
(* One manager of several: what somebody else's steps leave true of it     *)
(***************************************************************************)

\* A step of another manager: this one's copies of what it writes are no longer fresh.
LooksOn ==
  /\ crFresh' = (crFresh /\ cr' = cr) /\ fresh' = (fresh /\ cr' = cr)
  /\ operFresh' = (operFresh /\ secrets' = secrets)
  /\ UNCHANGED <<crCache, jobCache, secretCache, pc, obj, target, result, queue>>

\* The part of Inv that speaks of what the managers share.
SharedInv ==
  /\ cr \in DBUpgrade /\ Conditions(cr)
  /\ asked \subseteq (0..MaxUid) \X (0..MaxGen) \X (Specs \cup {NoSpec})
  /\ jobs \in [JobNames -> Job]
  /\ lingering \subseteq Job
  /\ secrets \in SecretStore
  /\ succeeded \subseteq (0..MaxUid) \X (Specs \cup {NoSpec})
  /\ database \in (0..MaxUid) \X (Specs \cup {NoSpec})
  /\ launched \subseteq (0..MaxUid) \X (0..MaxGen) /\ overlapped \in BOOLEAN
  /\ spent \in 0..MaxDisturbances
  /\ cr.live => cr.spec \in Specs
  /\ cr.observed <= cr.gen
  /\ JobsHonest(jobs)
  /\ ReadyIsEarned

LEMMA InvShared == Inv => SharedInv
  BY DEF Inv, TypeOK, SpecsKnown, SharedInv

\* Successes are only added to, and disturbances counted up.
LEMMA HistoryStep ==
  ASSUME Inv, [Next]_vars
  PROVE  succeeded \subseteq succeeded' /\ (spent' = spent \/ spent' = spent + 1)
  <1>1. CASE Reconcile
    BY <1>1
       DEF Reconcile, Fetch, FetchNotFound, SecretUpToDate, WriteSecret, SecretError,
           ListJobsFails, WaitForOldJob, ReplaceOldJob, SyncJobStatus, NoJobFound,
           PreCheckFails, DeleteJob, CreateJob, JobAlreadyExists, CreateJobFails,
           UpdateStatus, UpdateStatusFails, Disturbance
  <1>2. CASE User \/ UNCHANGED vars
    BY <1>2
       DEF User, CreateDBUpgrade, UpdateSpec, DeleteDBUpgrade, RotateSecret,
           RemoveSecret, WriteCustomerSecret, Disturbance, vars
  <1>3. CASE Cluster
    BY <1>3
       DEF Cluster, JobAdvances, StartPod, StartContainer, JobSucceeds, JobFails,
           SetPhase, CollectJob, LingeringPodAdvances, CollectSecret, SyncDBUpgrade,
           SyncJobs, SyncSecrets, TimerFires, Resync, Crash, Disturbance
  <1> QED BY <1>1, <1>2, <1>3 DEF Next

\* What this manager knows stays true.
LEMMA LooksOnInv ==
  ASSUME Inv, LooksOn, SharedInv', succeeded \subseteq succeeded'
  PROVE  Inv'
  <1>1. TypeOK'
    BY DEF Inv, TypeOK, LooksOn, SharedInv
  <1>2. VersionsHonest' /\ SpecsKnown'
    BY DEF Inv, VersionsHonest, SpecsKnown, LooksOn, SharedInv
  <1>3. JobsHonest(jobCache)'
    BY SameJobs DEF LooksOn
  <1>4. ResultEarned'
    BY DEF Inv, ResultEarned, LooksOn
  <1> QED BY <1>1, <1>2, <1>3, <1>4 DEF SharedInv, Inv

\* Whatever would have woken this manager still does, if its list of Jobs is a copy.
LEMMA LooksOnAwake ==
  ASSUME "Job" \in Lagging, Awake, LooksOn
  PROVE  Awake'
  BY DEF Awake, LooksOn, FinalFor, Ended, SeenJobs

(***************************************************************************)
(* One generation                                                          *)
(***************************************************************************)

\* Jobs are of what users asked for.
Requested(js) ==
  \A n \in JobNames : js[n].phase # "absent" =>
     \E a \in asked : a[1] = js[n].owner /\ a[3] = js[n].spec

\* What the managers share while every incarnation keeps its first spec: whatever was
\* launched of the live object has its Job.
SharedOnce ==
  /\ cr.live => Request(cr) \in asked
  /\ \A a \in asked : a[1] \in 1..cr.uid /\ a[2] \in 1..MaxGen
  /\ \A a, b \in asked : a[1] = b[1] => a[3] = b[3]
  /\ Requested(jobs)
  /\ \A l \in launched : l[1] <= cr.uid /\ (cr.live /\ l[1] = cr.uid => HasJob(cr))

\* There is then no Job of an earlier spec to delete.
OnceInv == AskedKnown /\ SharedOnce /\ Requested(jobCache) /\ pc # "delete"

\* A Job of the live object stays.
JobsStay ==
  \A n \in JobNames :
     jobs[n].phase # "absent" /\ ~Orphaned(jobs[n].owner) => Stays(n)

LEMMA OnceStays ==
  ASSUME Inv, OnceInv, [Next]_vars
  PROVE  JobsStay
  BY JobStep DEF JobsStay, OnceInv, DeleteJob

\* The cached list of Jobs stays or becomes the server's.
LEMMA SeenJobsStep ==
  ASSUME [Next]_vars
  PROVE  jobCache' = jobCache \/ jobCache' = jobs'
  <1>1. CASE Reconcile
    BY <1>1
       DEF Reconcile, Fetch, FetchNotFound, SecretUpToDate, WriteSecret, SecretError,
           ListJobsFails, WaitForOldJob, ReplaceOldJob, SyncJobStatus, NoJobFound,
           PreCheckFails, DeleteJob, CreateJob, JobAlreadyExists, CreateJobFails,
           UpdateStatus, UpdateStatusFails
  <1>2. CASE User \/ UNCHANGED vars
    BY <1>2
       DEF User, CreateDBUpgrade, UpdateSpec, DeleteDBUpgrade, RotateSecret,
           RemoveSecret, WriteCustomerSecret, vars
  <1>3. CASE Cluster
    BY <1>3
       DEF Cluster, JobAdvances, StartPod, StartContainer, JobSucceeds, JobFails,
           SetPhase, CollectJob, LingeringPodAdvances, CollectSecret, SyncDBUpgrade,
           SyncJobs, SyncSecrets, TimerFires, Resync, Crash, Relisted
  <1> QED BY <1>1, <1>2, <1>3 DEF Next

\* An incarnation that is asked for once has one spec.
LEMMA OneRequest ==
  ASSUME MaxGen = 1, Inv, Inv', OnceInv, AskedKnown', [Next]_vars,
         NEW a \in asked', NEW b \in asked', a[1] = b[1]
  PROVE  a[3] = b[3]
  <1>1. /\ cr \in DBUpgrade /\ cr.uid \in Nat /\ cr.gen \in Nat /\ cr'.uid \in Nat
        /\ asked \subseteq Nat \X Nat \X (Specs \cup {NoSpec})
    BY Numbers, ConstantsAssumption DEF Inv, TypeOK
  <1>2. ASSUME NEW c \in asked, cr'.live, Request(cr') \notin asked, c[1] = cr'.uid
        PROVE  FALSE
    <2>1. c[1] \in 1..cr.uid
      BY DEF OnceInv, SharedOnce
    <2>2. CASE Same(cr', cr) /\ cr'.live = cr.live
      BY <1>2, <2>2 DEF Same, Request, OnceInv, SharedOnce
    <2>3. ASSUME NEW s \in Specs, CreateDBUpgrade(s) PROVE FALSE
      <3>1. cr'.uid = cr.uid + 1
        BY <2>3 DEF CreateDBUpgrade, WriteDBUpgrade, Absent
      <3> QED BY <1>1, <1>2, <2>1, <3>1
    <2>4. ASSUME NEW s \in Specs, UpdateSpec(s) PROVE FALSE
      <3>1. cr.live /\ cr.gen < 1
        BY <2>4 DEF UpdateSpec
      <3>2. Request(cr)[2] \in 1..MaxGen
        BY <3>1 DEF OnceInv, SharedOnce
      <3> QED BY <1>1, <3>1, <3>2 DEF Request
    <2>5. ~DeleteDBUpgrade
      BY <1>2 DEF DeleteDBUpgrade, WriteDBUpgrade, Absent
    <2> QED BY <2>2, <2>3, <2>4, <2>5, ObjectStep
  <1>3. asked' \subseteq asked \cup {Request(cr')} /\ (asked' # asked => cr'.live)
    BY AskedStep
  <1>4. Request(cr')[1] = cr'.uid
    BY DEF Request
  <1>5. CASE a \in asked /\ b \in asked
    BY <1>5 DEF OnceInv, SharedOnce
  <1>6. CASE a \notin asked \/ b \notin asked
    BY <1>2, <1>3, <1>4, <1>6
  <1> QED BY <1>5, <1>6

\* Every step of one manager keeps it so.
LEMMA OnceNext ==
  ASSUME MaxGen = 1, Inv, Inv', OnceInv, [Next]_vars
  PROVE  OnceInv'
  <1>1. AskedKnown'
    BY AskedNext DEF OnceInv
  <1>2. asked \subseteq asked'
    BY AskedStep
  <1>3. /\ cr \in DBUpgrade /\ cr.uid \in Nat /\ cr'.uid \in Nat /\ obj.uid \in Nat
        /\ launched \subseteq Nat \X Nat /\ launched' \subseteq Nat \X Nat
        /\ jobs \in [JobNames -> Job]
    BY Numbers, ConstantsAssumption DEF Inv, TypeOK
  <1>4. CreateJob => /\ Request(obj) \in asked /\ obj.spec \in Specs
                     /\ cr' = cr /\ obj' = obj
    BY DEF CreateJob, Return, OnceInv, AskedKnown, Inv, SpecsKnown
  <1>5. Requested(jobs)'
    <2> SUFFICES ASSUME NEW n \in JobNames, jobs'[n].phase # "absent"
                 PROVE  \E a \in asked' : a[1] = jobs'[n].owner /\ a[3] = jobs'[n].spec
      BY DEF Requested
    <2>1. CASE CreateJob /\ jobs'[n].owner = obj.uid /\ jobs'[n].spec = obj.spec
      BY <1>2, <1>4, <2>1 DEF Request
    <2> QED BY <1>2, <2>1, OldJob DEF OnceInv, SharedOnce, Requested
  <1>6. Requested(jobCache)'
    BY <1>2, <1>5, SeenJobsStep DEF OnceInv, Requested
  <1>7. pc' # "delete"
    <2>1. CASE ReplaceOldJob
      <3>1. PICK n \in StaleJobs : TRUE
        BY <2>1 DEF ReplaceOldJob
      <3>2. /\ n \in JobNames /\ SeenJobs[n].phase # "absent" /\ SeenJobs[n].owner = obj.uid
            /\ n # computeSpecHash[obj.spec]
        BY <3>1 DEF StaleJobs, OwnedJobs, ExpectedJobName
      <3>3. PICK a \in asked : a[1] = obj.uid /\ a[3] = SeenJobs[n].spec
        BY <3>2 DEF OnceInv, SharedOnce, Requested, SeenJobs
      <3>4. Request(obj) \in asked
        BY <2>1 DEF ReplaceOldJob, OnceInv, AskedKnown
      <3>5. SeenJobs[n].spec = obj.spec
        BY <3>3, <3>4 DEF Request, OnceInv, SharedOnce
      <3>6. computeSpecHash[SeenJobs[n].spec] = n
        BY <3>2, CachedReads DEF JobsHonest
      <3> QED BY <3>2, <3>5, <3>6
    <2> QED BY <2>1, LaunchStep DEF OnceInv
  <1>8. ASSUME NEW l \in launched'
        PROVE  l[1] <= cr'.uid /\ (cr'.live /\ l[1] = cr'.uid => HasJob(cr)')
    <2>1. CASE l \in launched
      <3>1. l[1] <= cr'.uid
        BY <1>3, <2>1, UserStep DEF OnceInv, SharedOnce
      <3>2. ASSUME cr'.live, l[1] = cr'.uid PROVE HasJob(cr)'
        <4>1. cr.live /\ cr'.uid = cr.uid
          BY <1>3, <2>1, <3>2, UserStep DEF OnceInv, SharedOnce
        <4>2. HasJob(cr) /\ cr.spec \in Specs
          BY <2>1, <3>2, <4>1 DEF OnceInv, SharedOnce, Inv, SpecsKnown
        <4>3. cr'.spec = cr.spec
          <5>1. Request(cr) \in asked' /\ Request(cr') \in asked'
            BY <1>1, <1>2, <3>2, <4>1 DEF OnceInv, SharedOnce, AskedKnown, Request
          <5> QED BY <1>1, <4>1, <5>1, OneRequest DEF Request
        <4>4. ~DeleteJob
          BY DEF DeleteJob, OnceInv
        <4> QED BY <4>1, <4>2, <4>3, <4>4, JobKept DEF HasJob
      <3> QED BY <3>1, <3>2
    <2>2. CASE CreateJob /\ l = <<obj.uid, obj.gen>>
      <3>1. l[1] = obj.uid /\ Request(obj)[1] = obj.uid
        BY <2>2 DEF Request
      <3>2. obj.uid <= cr.uid
        BY <1>3, <1>4, <2>2, <3>1 DEF OnceInv, SharedOnce
      <3>3. ASSUME cr.live, obj.uid = cr.uid PROVE HasJob(cr)'
        <4>1. Request(cr) \in asked
          BY <3>3 DEF OnceInv, SharedOnce
        <4>2. obj.spec = cr.spec
          BY <1>4, <2>2, <3>3, <4>1 DEF Request, OnceInv, SharedOnce
        <4>3. ExpectedJobName \in JobNames
          BY <1>4, <2>2, HashAssumption DEF ExpectedJobName
        <4> QED BY <1>3, <1>4, <2>2, <3>3, <4>2, <4>3
              DEF CreateJob, HasJob, ExpectedJobName
      <3> QED BY <1>4, <2>2, <3>1, <3>2, <3>3
    <2> QED BY <2>1, <2>2, LaunchStep DEF CreateJob
  <1>9. \A a, b \in asked' : a[1] = b[1] => a[3] = b[3]
    BY <1>1, OneRequest
  <1> QED BY <1>1, <1>5, <1>6, <1>7, <1>8, <1>9
        DEF OnceInv, SharedOnce, AskedKnown, Request

\* And so does every step of another, as long as it keeps what they share.
LEMMA OnceLooksOn ==
  ASSUME OnceInv, LooksOn, SharedOnce', asked \subseteq asked'
  PROVE  OnceInv'
  <1>1. AskedKnown'
    BY DEF OnceInv, SharedOnce, AskedKnown, LooksOn, SeenDBUpgrade, Request
  <1>2. Requested(jobCache)' /\ pc' # "delete"
    BY DEF OnceInv, Requested, LooksOn
  <1> QED BY <1>1, <1>2 DEF OnceInv

\* A step that makes a Job for the live object records its first launch.
LEMMA OnceLaunched ==
  ASSUME Inv, OnceInv, [Next]_vars, NEW n \in JobNames,
         Launches(n), ~Orphaned(jobs'[n].owner)
  PROVE  launched' # launched
  <1>1. CreateJob
    BY NewJob
  <1>2. /\ n = ExpectedJobName /\ jobs'[n].owner = obj.uid
        /\ cr' = cr /\ Request(obj) \in asked /\ jobs[n].phase = "absent"
    BY <1>1, OldJob DEF Launches, CreateJob, OnceInv, AskedKnown
  <1>3. cr.live /\ cr.uid = obj.uid
    BY <1>2 DEF Orphaned
  <1>4. obj.spec = cr.spec
    BY <1>2, <1>3 DEF OnceInv, SharedOnce, Request
  <1>5. <<obj.uid, obj.gen>> \notin launched
    BY <1>2, <1>3, <1>4 DEF OnceInv, SharedOnce, HasJob, ExpectedJobName
  <1> QED BY <1>1, <1>5 DEF CreateJob

\* The Job of o failed.
FailedJob(o) ==
  /\ jobs[computeSpecHash[o.spec]].phase = "failed"
  /\ jobs[computeSpecHash[o.spec]].owner = o.uid

\* As long as nothing was disturbed, a status that says JobFailed is right, and so are
\* the result on its way to it and the list of Jobs the result comes from.
SharedFailed == spent = 0 /\ cr.live /\ cr.reason = "JobFailed" => FailedJob(cr)

OwnFailed ==
  spent = 0 /\ cr.live =>
    /\ pc = "status" /\ result.reason = "JobFailed" /\ obj.uid = cr.uid => FailedJob(obj)
    /\ \A n \in JobNames :
         SeenJobs[n].phase = "failed" /\ SeenJobs[n].owner = cr.uid =>
            jobs[n].phase = "failed" /\ jobs[n].owner = cr.uid

\* A failed Job of the live object stays failed.
LEMMA FailedStays ==
  ASSUME JobsStay, NEW n \in JobNames, cr.live, cr'.uid = cr.uid,
         jobs[n].phase = "failed", jobs[n].owner = cr.uid
  PROVE  jobs'[n].phase = "failed" /\ jobs'[n].owner = cr'.uid
  BY DEF JobsStay, Stays, Orphaned

\* Without a disturbance, JobFailed is read off a list of Jobs.
LEMMA FailStep ==
  ASSUME [Next]_vars, spent' = spent, spent \in Nat,
         pc' = "status", result'.reason = "JobFailed"
  PROVE  \/ pc = "status" /\ obj' = obj /\ result' = result
         \/ /\ obj' = obj /\ pc # "idle"
            /\ \E n \in OwnedJobs \ StaleJobs : SeenJobs[n].phase = "failed"
  <1>1. ~Disturbance
    BY DEF Disturbance
  <1>2. CASE SyncJobStatus
    <2>1. PICK phase \in {SeenJobs[n].phase : n \in OwnedJobs \ StaleJobs} :
            phase = "failed" /\ obj' = obj
      BY <1>1, <1>2 DEF SyncJobStatus, Return, Succeeded, Waiting, Result
    <2> QED BY <1>2, <2>1 DEF SyncJobStatus
  <1>3. CASE Reconcile /\ ~SyncJobStatus
    BY <1>1, <1>3
       DEF Reconcile, Fetch, Validate, FetchNotFound, SecretUpToDate, WriteSecret,
           SecretError, ListJobsFails, WaitForOldJob, ReplaceOldJob, NoJobFound,
           PreCheckFails, DeleteJob, CreateJob, JobAlreadyExists, CreateJobFails,
           UpdateStatus, UpdateStatusFails, Goto, Return, Done, Waiting, Blocked,
           Stopped, Result
  <1>4. CASE [User \/ Cluster]_vars
    BY <1>4, StandsStill
  <1> QED BY <1>2, <1>3, <1>4 DEF Next

\* Every step of one manager keeps failures real.
LEMMA FailedNext ==
  ASSUME MaxGen = 1, Inv, Inv', OnceInv, OnceInv', SharedFailed, OwnFailed, [Next]_vars
  PROVE  SharedFailed' /\ OwnFailed'
  <1> SUFFICES ASSUME spent' = 0, cr'.live
               PROVE  SharedFailed' /\ OwnFailed'
    BY DEF SharedFailed, OwnFailed
  <1>1. /\ spent = 0 /\ spent' = spent /\ spent \in Nat
        /\ cr \in DBUpgrade /\ cr.uid \in Nat /\ obj.uid \in Nat
    BY HistoryStep, Numbers, ConstantsAssumption DEF Inv, TypeOK
  <1>2. JobsStay
    BY OnceStays
  <1>3. CASE cr.live /\ cr'.uid = cr.uid
    <2>1. cr'.spec = cr.spec
      <3>1. Request(cr) \in asked' /\ Request(cr') \in asked'
        BY <1>3, AskedStep DEF OnceInv, SharedOnce, Request
      <3> QED BY <1>3, <3>1 DEF OnceInv, SharedOnce, Request
    <2>2. \A n \in JobNames :
            SeenJobs'[n].phase = "failed" /\ SeenJobs'[n].owner = cr'.uid =>
               jobs'[n].phase = "failed" /\ jobs'[n].owner = cr'.uid
      BY <1>1, <1>2, <1>3, FailedStays, SeenJobsStep DEF OwnFailed, SeenJobs
    <2>3. ASSUME pc' = "status", result'.reason = "JobFailed", obj'.uid = cr'.uid
          PROVE  FailedJob(obj)'
      <3>1. CASE pc = "status" /\ obj' = obj /\ result' = result
        <4>1. FailedJob(obj) /\ computeSpecHash[obj.spec] \in JobNames
          BY <1>1, <1>3, <2>3, <3>1, HashAssumption DEF OwnFailed, Inv, SpecsKnown
        <4> QED BY <1>2, <1>3, <2>3, <3>1, <4>1, FailedStays DEF FailedJob
      <3>2. CASE /\ obj' = obj
                 /\ \E n \in OwnedJobs \ StaleJobs : SeenJobs[n].phase = "failed"
        <4>1. PICK n \in OwnedJobs \ StaleJobs : SeenJobs[n].phase = "failed"
          BY <3>2
        <4>2. n \in JobNames /\ n = computeSpecHash[obj.spec] /\ SeenJobs[n].owner = obj.uid
          BY DEF OwnedJobs, StaleJobs, ExpectedJobName
        <4>3. jobs[n].phase = "failed" /\ jobs[n].owner = cr.uid
          BY <1>1, <1>3, <2>3, <3>2, <4>1, <4>2 DEF OwnFailed
        <4> QED BY <1>2, <1>3, <2>3, <3>2, <4>2, <4>3, FailedStays DEF FailedJob
      <3> QED BY <1>1, <2>3, <3>1, <3>2, FailStep
    <2>4. ASSUME cr'.reason = "JobFailed" PROVE FailedJob(cr)'
      <3>1. CASE cr' = cr
        <4>1. FailedJob(cr) /\ computeSpecHash[cr.spec] \in JobNames
          BY <1>1, <1>3, <2>4, <3>1, HashAssumption DEF SharedFailed, Inv, SpecsKnown
        <4> QED BY <1>2, <1>3, <3>1, <4>1, FailedStays DEF FailedJob
      <3>2. CASE UpdateStatus /\ cr' # cr
        <4>1. pc = "status" /\ fresh /\ cr' = StatusWritten /\ jobs' = jobs
          BY <3>2 DEF UpdateStatus, WriteDBUpgrade, StatusAccepted
        <4>2. cr'.reason = result.reason /\ obj.uid = cr.uid /\ obj.spec = cr.spec
          BY <1>1, <4>1 DEF StatusWritten, DBUpgrade, Inv, VersionsHonest
        <4>3. FailedJob(obj)
          BY <1>1, <1>3, <2>4, <4>1, <4>2 DEF OwnFailed
        <4> QED BY <1>3, <2>1, <4>1, <4>2, <4>3 DEF FailedJob
      <3>3. ASSUME NEW s \in Specs, CreateDBUpgrade(s) \/ UpdateSpec(s) PROVE FALSE
        <4>1. cr'.spec # cr.spec
          BY <1>1, <1>3, <3>3
             DEF CreateDBUpgrade, UpdateSpec, WriteDBUpgrade, DBUpgrade
        <4> QED BY <2>1, <4>1
      <3>4. ~DeleteDBUpgrade
        BY DEF DeleteDBUpgrade, WriteDBUpgrade, Absent
      <3> QED BY <3>1, <3>2, <3>3, <3>4, ObjectWrites
    <2> QED BY <2>2, <2>3, <2>4 DEF SharedFailed, OwnFailed
  <1>4. CASE cr'.uid = cr.uid + 1
    <2>1. PICK s \in Specs : CreateDBUpgrade(s)
      <3>1. ~(cr' = cr) /\ ~DeleteDBUpgrade
        BY <1>1, <1>4 DEF DeleteDBUpgrade, WriteDBUpgrade, Absent
      <3>2. ASSUME UpdateStatus \/ \E s \in Specs : UpdateSpec(s) PROVE cr'.uid = cr.uid
        BY <1>1, <3>2 DEF UpdateStatus, StatusWritten, UpdateSpec, WriteDBUpgrade, DBUpgrade
      <3> QED BY <1>1, <1>4, <3>1, <3>2, ObjectWrites
    <2>2. /\ cr'.reason = "None"
          /\ UNCHANGED <<jobs, jobCache, pc, obj>>
      BY <2>1 DEF CreateDBUpgrade, WriteDBUpgrade, Absent
    <2>3. obj'.uid # cr'.uid \/ pc' # "status"
      <3>1. pc # "idle" => obj.uid \in 1..cr.uid
        BY DEF OnceInv, AskedKnown, Request
      <3> QED BY <1>1, <1>4, <2>2, <3>1
    <2>4. ASSUME NEW n \in JobNames, SeenJobs'[n].phase = "failed",
                 SeenJobs'[n].owner = cr'.uid
          PROVE  FALSE
      <3>1. SeenJobs[n].phase = "failed" /\ SeenJobs[n].owner = cr'.uid
        BY <2>2, <2>4 DEF SeenJobs
      <3>2. SeenJobs[n].owner \in 1..cr.uid
        BY <3>1 DEF OnceInv, SharedOnce, Requested, SeenJobs
      <3> QED BY <1>1, <1>4, <3>1, <3>2
    <2> QED BY <2>2, <2>3, <2>4 DEF SharedFailed, OwnFailed
  <1> QED BY <1>3, <1>4, UserStep

\* So does every step of another manager.
LEMMA FailedLooksOn ==
  ASSUME Inv, OnceInv, OwnFailed, LooksOn, JobsStay, spent' = 0 => spent = 0,
         cr'.live => \/ cr.live /\ cr'.uid = cr.uid
                     \/ cr'.uid = cr.uid + 1
  PROVE  OwnFailed'
  <1> SUFFICES ASSUME spent' = 0, cr'.live PROVE OwnFailed'
    BY DEF OwnFailed
  <1>1. cr.uid \in Nat /\ cr.uid + 1 \notin 1..cr.uid
    BY Numbers DEF Inv, TypeOK
  <1>2. ASSUME NEW n \in JobNames, SeenJobs'[n].phase = "failed",
               SeenJobs'[n].owner = cr'.uid
        PROVE  jobs'[n].phase = "failed" /\ jobs'[n].owner = cr'.uid
    <2>1. CASE "Job" \notin Lagging
      BY <1>2, <2>1 DEF SeenJobs
    <2>2. CASE "Job" \in Lagging
      <3>1. /\ SeenJobs = jobCache /\ SeenJobs' = jobCache
            /\ jobCache[n].owner \in 1..cr.uid
        BY <1>2, <2>2 DEF LooksOn, SeenJobs, OnceInv, SharedOnce, Requested
      <3> QED BY <1>1, <1>2, <3>1, FailedStays DEF OwnFailed
    <2> QED BY <2>1, <2>2
  <1>3. ASSUME pc' = "status", result'.reason = "JobFailed", obj'.uid = cr'.uid
        PROVE  FailedJob(obj)'
    <2>1. obj' = obj /\ pc = "status" /\ result' = result
      BY <1>3 DEF LooksOn
    <2>2. obj.uid \in 1..cr.uid
      BY <2>1 DEF OnceInv, AskedKnown, Request
    <2>3. cr.live /\ cr'.uid = cr.uid
      BY <1>1, <1>3, <2>1, <2>2
    <2>4. FailedJob(obj) /\ computeSpecHash[obj.spec] \in JobNames
      BY <1>3, <2>1, <2>3, HashAssumption DEF OwnFailed, Inv, SpecsKnown
    <2> QED BY <1>3, <2>1, <2>3, <2>4, FailedStays DEF FailedJob
  <1> QED BY <1>2, <1>3 DEF OwnFailed

=============================================================================

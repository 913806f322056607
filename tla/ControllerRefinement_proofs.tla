--------------------- MODULE ControllerRefinement_proofs ---------------------
(***************************************************************************)
(* Proofs for all values of the constants, whatever caches lag, pods       *)
(* linger and incarnations leave behind: unless a Job was created beside   *)
(* another one, Ready says what the database holds; and the controller     *)
(* implements UpgradePromise.                                              *)
(***************************************************************************)
EXTENDS ControllerRefinement, ControllerSafety_proofs

USE DEF crVars, jobVars, secretVars, reconciler, queue, history

(***************************************************************************)
(* The invariant                                                           *)
(***************************************************************************)

\* The status claims only what the newest copy says, which is the one in use.
ClaimIsNewest ==
  /\ FreshIsNewest
  /\ Claimed => Same(SeenDBUpgrade, cr) /\ (pc # "idle" => Same(obj, cr))

\* Jobs are of incarnations that were launched, and those are numbered from 1.
OwnersLaunched(js) ==
  \A n \in JobNames : js[n].phase # "absent" => \E l \in launched : l[1] = js[n].owner

LaunchedLive == \A l \in launched : l[1] # 0

\* About to create, the Jobs of the object that are listed by now are there.
ListedThere ==
  pc = "create" /\ cr.live /\ obj.uid = cr.uid =>
    \A n \in JobNames :
      SeenJobs[n].phase # "absent" /\ SeenJobs[n].owner = obj.uid =>
        jobs[n].phase # "absent" /\ jobs[n].owner = obj.uid

CopiesInv ==
  /\ LaunchInv /\ AskedKnown /\ ClaimIsNewest /\ ListedThere /\ LaunchedLive
  /\ OwnersLaunched(jobs) /\ OwnersLaunched(SeenJobs)

\* Nothing migrates; nothing but m does; at most one Job or pod does.
Nobody == Underway = {} /\ lingering = {}

Only(m) == /\ \A n \in Underway : Migration(jobs[n]) = m
           /\ \A job \in lingering : Migration(job) = m

Single == /\ \A n, k \in Underway : n = k
          /\ Underway # {} => lingering = {}
          /\ \A job, other \in lingering : job = other

\* A Job of the object that is shown complete was the last to migrate.
LastIn(js) ==
  \A n \in JobNames :
    cr.live /\ js[n].phase = "complete" /\ js[n].owner = cr.uid =>
      Nobody /\ database = Migration(js[n])

\* So was what the reconcile is about to report, and what the status reports, but that
\* the same may be migrated again.
Straight ==
  /\ Single
  /\ LastIn(jobs) /\ LastIn(SeenJobs)
  /\ fresh /\ result.ready => Nobody /\ database = <<cr.uid, cr.spec>>
  /\ Claimed => Only(<<cr.uid, cr.spec>>) /\ database = <<cr.uid, cr.spec>>

MatchInv == CopiesInv /\ (overlapped \/ Straight)

(***************************************************************************)
(* The copies                                                              *)
(***************************************************************************)

\* The Jobs a List returns stay or become those there are.
LEMMA ListedStep ==
  ASSUME [Next]_vars
  PROVE  SeenJobs' = SeenJobs \/ SeenJobs' = jobs'
  BY SeenJobsStep DEF SeenJobs

\* Jobs that were launched have owners that were.
LEMMA OwnersNext ==
  ASSUME CopiesInv, Inv, Inv', [Next]_vars
  PROVE  LaunchedLive' /\ OwnersLaunched(jobs)' /\ OwnersLaunched(SeenJobs)'
  <1>1. launched \subseteq launched'
    BY LaunchStep DEF CreateJob
  <1>2. LaunchedLive'
    <2>1. CreateJob => obj.uid # 0
      <3>1. CreateJob => Request(obj) \in asked /\ Request(obj)[1] = obj.uid
        BY DEF CreateJob, CopiesInv, AskedKnown, Request
      <3>2. \A a \in asked : a[1] # 0
        BY DEF CopiesInv, AskedKnown
      <3> QED BY <3>1, <3>2
    <2>2. \A l \in launched' : l \in launched \/ (CreateJob /\ l[1] = obj.uid)
      BY LaunchStep DEF CreateJob
    <2> QED BY <2>1, <2>2 DEF CopiesInv, LaunchedLive
  <1>3. OwnersLaunched(jobs)'
    <2> SUFFICES ASSUME NEW n \in JobNames, jobs'[n].phase # "absent"
                 PROVE  \E l \in launched' : l[1] = jobs'[n].owner
      BY DEF OwnersLaunched
    <2>1. CASE jobs[n].phase # "absent" /\ jobs'[n].owner = jobs[n].owner
      BY <1>1, <2>1 DEF CopiesInv, OwnersLaunched
    <2>2. CASE CreateJob /\ jobs'[n].owner = obj.uid
      <3>1. <<obj.uid, obj.gen>> \in launched' /\ <<obj.uid, obj.gen>>[1] = obj.uid
        BY <2>2 DEF CreateJob
      <3> QED BY <2>2, <3>1
    <2> QED BY <2>1, <2>2, OldJob
  <1>4. OwnersLaunched(SeenJobs)'
    <2>1. CASE SeenJobs' = jobs'
      BY <1>3, <2>1 DEF OwnersLaunched
    <2>2. CASE SeenJobs' = SeenJobs
      BY <1>1, <2>2 DEF CopiesInv, OwnersLaunched
    <2> QED BY <2>1, <2>2, ListedStep
  <1> QED BY <1>2, <1>3, <1>4

\* A claim is about the newest copy as long as it stands.
LEMMA ClaimNewestNext ==
  ASSUME CopiesInv, Inv, [Next]_vars
  PROVE  ClaimIsNewest'
  <1>1. FreshIsNewest'
    BY NewestStep DEF CopiesInv, ClaimIsNewest
  <1>2. ASSUME Claimed'
        PROVE  Same(SeenDBUpgrade', cr') /\ (pc' # "idle" => Same(obj', cr'))
    <2>1. Same(cr', cr)
      BY <1>2, ClaimStep
    <2>2. CASE Claimed
      <3>1. Same(SeenDBUpgrade, cr) /\ (pc # "idle" => Same(obj, cr))
        BY <2>2 DEF CopiesInv, ClaimIsNewest
      <3>2. Same(SeenDBUpgrade', cr')
        BY <2>1, <3>1, SeenStep DEF Same
      <3>3. Fetch => Same(obj', SeenDBUpgrade)
        BY DEF Fetch, Same
      <3> QED BY <2>1, <3>1, <3>2, <3>3, HeldStep DEF Same
    <2>3. CASE fresh /\ pc' = "idle"
      <3>1. Same(SeenDBUpgrade, cr)
        BY <2>3 DEF CopiesInv, ClaimIsNewest, FreshIsNewest
      <3> QED BY <2>1, <2>3, <3>1, SeenStep DEF Same
    <2> QED BY <1>2, <2>2, <2>3, ClaimStep
  <1> QED BY <1>1, <1>2 DEF ClaimIsNewest

\* Between List and Create nobody but the reconcile deletes the object's Jobs.
LEMMA ListedThereNext ==
  ASSUME CopiesInv, Inv, [Next]_vars
  PROVE  ListedThere'
  <1> SUFFICES ASSUME pc' = "create", cr'.live, obj'.uid = cr'.uid, NEW n \in JobNames,
                      SeenJobs'[n].phase # "absent", SeenJobs'[n].owner = obj'.uid
               PROVE  jobs'[n].phase # "absent" /\ jobs'[n].owner = obj'.uid
    BY DEF ListedThere
  <1>1. CASE SeenJobs' = jobs'
    BY <1>1
  <1>2. CASE NoJobFound
    <2>1. SeenJobs' = SeenJobs /\ obj' = obj
      BY <1>2 DEF NoJobFound, Goto, SeenJobs
    <2> QED BY <1>2, <2>1 DEF NoJobFound, NoJobExists, OwnedJobs
  <1>3. CASE SeenJobs' = SeenJobs /\ pc = "create" /\ obj' = obj
    <2>1. cr.live /\ obj.uid = cr.uid
      <3>1. cr.uid \in Nat /\ obj.uid \in Nat /\ obj.uid <= cr.uid
        BY <1>3, Copies DEF CopiesInv, LaunchInv, Behind
      <3>2. (cr.live /\ cr'.uid = cr.uid) \/ cr'.uid = cr.uid + 1
        BY UserStep
      <3> QED BY <1>3, <3>1, <3>2
    <2>2. jobs[n].phase # "absent" /\ jobs[n].owner = obj.uid
      BY <1>3, <2>1 DEF CopiesInv, ListedThere
    <2>3. ~Orphaned(jobs[n].owner) /\ ~DeleteJob
      BY <1>3, <2>1, <2>2 DEF Orphaned, DeleteJob
    <2> QED BY <1>3, <2>2, <2>3, JobStep DEF Stays
  <1>4. NoJobFound \/ (pc = "create" /\ obj' = obj)
    <2>1. CASE Reconcile
      BY <2>1
         DEF Reconcile, Fetch, FetchNotFound, Validate, SecretUpToDate, WriteSecret,
             SecretError, ListJobsFails, WaitForOldJob, ReplaceOldJob, SyncJobStatus,
             PreCheckFails, DeleteJob, CreateJob, JobAlreadyExists, CreateJobFails,
             UpdateStatus, UpdateStatusFails, Goto, Return, Done
    <2>2. CASE [User \/ Cluster]_vars
      BY <2>2, StandsStill
    <2> QED BY <2>1, <2>2 DEF Next
  <1> QED BY <1>1, <1>2, <1>3, <1>4, ListedStep

LEMMA CopiesNext ==
  ASSUME CopiesInv, Inv, Inv', [Next]_vars
  PROVE  CopiesInv'
  <1>1. LaunchInv'
    BY LaunchNext DEF CopiesInv
  <1>2. AskedKnown'
    BY AskedNext DEF CopiesInv
  <1> QED BY <1>1, <1>2, OwnersNext, ClaimNewestNext, ListedThereNext DEF CopiesInv

(***************************************************************************)
(* Who migrates                                                            *)
(***************************************************************************)

\* What becomes of Jobs and pods but by CreateJob: one starts or fails, one completes, one
\* goes and may leave its pod, or a pod that was left goes on.
Advances(n) ==
  /\ \E phase \in {"starting", "running", "failed"} : jobs' = [jobs EXCEPT ![n].phase = phase]
  /\ n \in Underway /\ UNCHANGED <<lingering, database>>

Goes(n) ==
  /\ jobs' = [jobs EXCEPT ![n] = NoJob]
  /\ \/ lingering' = lingering
     \/ lingering' = lingering \cup {jobs[n]} /\ n \in Underway
  /\ UNCHANGED database

LEMMA MigrationStep ==
  ASSUME Inv, [Next]_vars, ~CreateJob
  PROVE  /\ UNCHANGED overlapped
         /\ \/ UNCHANGED <<jobs, lingering, database>>
            \/ \E n \in JobNames : Advances(n) \/ JobSucceeds(n) \/ Goes(n)
            \/ LingeringPodAdvances
  <1>1. CASE DeleteJob
    <2>1. target \in JobNames
      BY <1>1 DEF DeleteJob, Inv, TypeOK
    <2>2. CASE DropJob(target)
      <3>1. Goes(target)
        BY <1>1, <2>1, <2>2 DEF DeleteJob, DropJob, Goes, isJobRunning, Underway
      <3> QED BY <1>1, <2>1, <3>1 DEF DeleteJob
    <2> QED BY <1>1, <2>2 DEF DeleteJob
  <1>2. CASE Reconcile /\ ~DeleteJob
    BY <1>2
       DEF Reconcile, Fetch, FetchNotFound, SecretUpToDate, WriteSecret, SecretError,
           ListJobsFails, WaitForOldJob, ReplaceOldJob, SyncJobStatus, NoJobFound,
           PreCheckFails, JobAlreadyExists, CreateJobFails, UpdateStatus,
           UpdateStatusFails
  <1>3. CASE User \/ UNCHANGED vars
    BY <1>3
       DEF User, CreateDBUpgrade, UpdateSpec, DeleteDBUpgrade, RotateSecret,
           RemoveSecret, WriteCustomerSecret, vars
  <1>4. ASSUME NEW n \in JobNames, StartPod(n) \/ StartContainer(n) \/ JobFails(n)
        PROVE  Advances(n) /\ UNCHANGED overlapped
    BY <1>4
       DEF StartPod, StartContainer, JobFails, SetPhase, isJobRunning, Underway, Advances
  <1>5. ASSUME NEW n \in JobNames, CollectJob(n)
        PROVE  Goes(n) /\ UNCHANGED overlapped
    BY <1>5 DEF CollectJob, DropJob, Goes, isJobRunning, Underway
  <1>6. \A n \in JobNames : JobSucceeds(n) => UNCHANGED overlapped
    BY DEF JobSucceeds, SetPhase
  <1>7. LingeringPodAdvances => UNCHANGED overlapped
    BY DEF LingeringPodAdvances
  <1>8. CASE \/ CollectSecret \/ SyncDBUpgrade \/ SyncJobs \/ SyncSecrets
             \/ TimerFires \/ Resync \/ Crash
    BY <1>8
       DEF CollectSecret, SyncDBUpgrade, SyncJobs, SyncSecrets, TimerFires, Resync, Crash
  <1> QED BY <1>1, <1>2, <1>3, <1>4, <1>5, <1>6, <1>7, <1>8 DEF Next, Cluster, JobAdvances

\* What a step other than CreateJob keeps.
Calm ==
  /\ Single => Single'
  /\ Nobody => Nobody' /\ database' = database
  /\ \A m : Only(m) /\ database = m => Only(m)' /\ database' = m
  /\ \A n \in JobNames :
       jobs'[n].phase = "complete" =>
         \/ jobs[n].phase = "complete" /\ Migration(jobs'[n]) = Migration(jobs[n])
         \/ Single => Nobody' /\ database' = Migration(jobs'[n])

LEMMA AdvancesCalm ==
  ASSUME Inv, NEW n \in JobNames, Advances(n)
  PROVE  Calm
  <1>1. jobs \in [JobNames -> Job] /\ n \in Underway /\ UNCHANGED <<lingering, database>>
    BY DEF Inv, TypeOK, Advances
  <1>2. PICK phase \in {"starting", "running", "failed"} :
          jobs' = [jobs EXCEPT ![n].phase = phase]
    BY DEF Advances
  <1>3. \A k \in JobNames :
          /\ Migration(jobs'[k]) = Migration(jobs[k])
          /\ k # n => jobs'[k] = jobs[k]
          /\ k = n => jobs'[k].phase = phase
    BY <1>1, <1>2 DEF Migration, Job
  <1>4. Underway' \subseteq Underway
    BY <1>1, <1>3 DEF Underway
  <1> QED BY <1>1, <1>3, <1>4 DEF Calm, Single, Nobody, Only, Underway

LEMMA SucceedsCalm ==
  ASSUME Inv, NEW n \in JobNames, JobSucceeds(n)
  PROVE  Calm
  <1>1. /\ jobs \in [JobNames -> Job] /\ n \in Underway /\ lingering' = lingering
        /\ database' = Migration(jobs[n]) /\ jobs' = [jobs EXCEPT ![n].phase = "complete"]
    BY DEF Inv, TypeOK, JobSucceeds, SetPhase, Underway, Migration
  <1>2. \A k \in JobNames :
          /\ Migration(jobs'[k]) = Migration(jobs[k])
          /\ k # n => jobs'[k] = jobs[k]
          /\ k = n => jobs'[k].phase = "complete"
    BY <1>1 DEF Migration, Job
  <1>3. Underway' = Underway \ {n}
    BY <1>1, <1>2 DEF Underway
  <1>4. Single => Single' /\ Nobody'
    BY <1>1, <1>3 DEF Single, Nobody, Underway
  <1>5. ~Nobody
    BY <1>1 DEF Nobody
  <1>6. ASSUME NEW m, Only(m) PROVE Only(m)' /\ database' = m
    BY <1>1, <1>2, <1>3, <1>6 DEF Only, Underway
  <1>7. \A k \in JobNames :
          jobs'[k].phase = "complete" =>
            \/ jobs[k].phase = "complete" /\ Migration(jobs'[k]) = Migration(jobs[k])
            \/ Single => Nobody' /\ database' = Migration(jobs'[k])
    BY <1>1, <1>2, <1>4
  <1> QED BY <1>4, <1>5, <1>6, <1>7 DEF Calm

LEMMA GoesCalm ==
  ASSUME Inv, NEW n \in JobNames, Goes(n)
  PROVE  Calm
  <1>1. /\ jobs \in [JobNames -> Job] /\ jobs' = [jobs EXCEPT ![n] = NoJob]
        /\ database' = database
    BY DEF Inv, TypeOK, Goes
  <1>2. \A k \in JobNames : IF k = n THEN jobs'[k].phase = "absent" ELSE jobs'[k] = jobs[k]
    BY <1>1 DEF NoJob
  <1>3. Underway' = Underway \ {n}
    BY <1>2 DEF Underway
  <1>4. Underway \subseteq JobNames
    BY DEF Underway
  <1>5. \A k \in JobNames :
          jobs'[k].phase = "complete" =>
            jobs[k].phase = "complete" /\ Migration(jobs'[k]) = Migration(jobs[k])
    BY <1>2
  <1>6. CASE lingering' = lingering
    BY <1>1, <1>2, <1>3, <1>4, <1>5, <1>6 DEF Calm, Single, Nobody, Only
  <1>7. CASE lingering' = lingering \cup {jobs[n]} /\ n \in Underway
    <2>1. Single => Single'
      <3> SUFFICES ASSUME Single PROVE Single'
        OBVIOUS
      <3>1. lingering' = {jobs[n]} /\ Underway' = {}
        BY <1>3, <1>7 DEF Single
      <3> QED BY <3>1 DEF Single
    <2>2. ~Nobody
      BY <1>7 DEF Nobody
    <2>3. ASSUME NEW m, Only(m) PROVE Only(m)'
      BY <1>2, <1>3, <1>4, <1>7, <2>3 DEF Only
    <2> QED BY <1>1, <1>5, <2>1, <2>2, <2>3 DEF Calm
  <1> QED BY <1>6, <1>7 DEF Goes

LEMMA LingeringCalm ==
  ASSUME Inv, LingeringPodAdvances
  PROVE  Calm
  <1>1. jobs' = jobs /\ Underway' = Underway
    BY DEF LingeringPodAdvances, Underway
  <1>2. PICK job \in lingering :
          \/ lingering' = lingering \ {job} /\ UNCHANGED database
          \/ /\ lingering' = (lingering \ {job}) \cup {[job EXCEPT !.phase = "running"]}
             /\ UNCHANGED database
          \/ lingering' = lingering \ {job} /\ database' = <<job.owner, job.spec>>
    BY DEF LingeringPodAdvances
  <1>3. job \in Job
    BY DEF Inv, TypeOK
  <1>4. Migration([job EXCEPT !.phase = "running"]) = Migration(job)
    BY <1>3 DEF Migration, Job
  <1>5. ~Nobody
    BY DEF Nobody
  <1>6. Single => Single'
    BY <1>1, <1>2 DEF Single
  <1>7. ASSUME NEW m, Only(m), database = m PROVE Only(m)' /\ database' = m
    <2>1. Migration(job) = m
      BY <1>7 DEF Only
    <2>2. database' = m
      BY <1>2, <1>7, <2>1 DEF Migration
    <2>3. \A other \in lingering' : Migration(other) = m
      BY <1>2, <1>4, <1>7, <2>1 DEF Only
    <2> QED BY <1>1, <1>7, <2>2, <2>3 DEF Only
  <1> QED BY <1>1, <1>5, <1>6, <1>7 DEF Calm

LEMMA CalmStep ==
  ASSUME Inv, [Next]_vars, ~CreateJob
  PROVE  Calm /\ overlapped' = overlapped
  <1>1. ASSUME UNCHANGED <<jobs, lingering, database>> PROVE Calm
    <2>1. Underway' = Underway
      BY <1>1 DEF Underway
    <2>2. (Single => Single') /\ (Nobody => Nobody')
      BY <1>1, <2>1 DEF Single, Nobody
    <2>3. ASSUME NEW m, Only(m) PROVE Only(m)'
      BY <1>1, <2>1, <2>3 DEF Only
    <2>4. database' = database /\ \A n \in JobNames : Migration(jobs'[n]) = Migration(jobs[n])
      BY <1>1 DEF Migration
    <2> QED BY <1>1, <2>2, <2>3, <2>4 DEF Calm
  <1> QED BY <1>1, MigrationStep, AdvancesCalm, SucceedsCalm, GoesCalm, LingeringCalm

\* A Job of the live object that is listed as launched was launched in this incarnation.
LEMMA OwnJobBefore ==
  ASSUME CopiesInv, [Next]_vars, cr'.live, NEW js, OwnersLaunched(js),
         NEW n \in JobNames, js[n].phase # "absent", js[n].owner = cr'.uid
  PROVE  cr.live /\ cr'.uid = cr.uid
  <1>1. PICK l \in launched : l[1] = cr'.uid
    BY DEF OwnersLaunched
  <1> QED BY <1>1, LaunchedBefore DEF CopiesInv

\* Steps other than CreateJob keep what is complete, what is held and what is claimed
\* the last that migrated.
LEMMA StraightCalm ==
  ASSUME CopiesInv, Straight, [Next]_vars, ~CreateJob
  PROVE  Straight'
  <1>1. Inv /\ Calm
    BY CalmStep DEF CopiesInv, LaunchInv
  <1>2. Single'
    BY <1>1 DEF Calm, Straight
  <1>3. ASSUME NEW js, LastIn(js), OwnersLaunched(js), NEW n \in JobNames, cr'.live,
               js[n].phase = "complete", js[n].owner = cr'.uid
        PROVE  Nobody' /\ database' = Migration(js[n])
    <2>1. cr.live /\ cr'.uid = cr.uid
      BY <1>3, OwnJobBefore
    <2>2. Nobody /\ database = Migration(js[n])
      BY <1>3, <2>1 DEF LastIn
    <2> QED BY <1>1, <2>2 DEF Calm
  <1>4. ASSUME NEW n \in JobNames, cr'.live, jobs'[n].phase = "complete",
               jobs'[n].owner = cr'.uid
        PROVE  Nobody' /\ database' = Migration(jobs'[n])
    <2>1. CASE jobs[n].phase = "complete" /\ Migration(jobs'[n]) = Migration(jobs[n])
      <3>1. jobs[n].owner = cr'.uid
        BY <1>4, <2>1 DEF Migration
      <3> QED BY <1>3, <1>4, <2>1, <3>1 DEF CopiesInv, Straight
    <2>2. CASE Single => Nobody' /\ database' = Migration(jobs'[n])
      BY <2>2 DEF Straight
    <2> QED BY <1>1, <1>4, <2>1, <2>2 DEF Calm
  <1>5. ASSUME NEW n \in JobNames, cr'.live, SeenJobs'[n].phase = "complete",
               SeenJobs'[n].owner = cr'.uid
        PROVE  Nobody' /\ database' = Migration(SeenJobs'[n])
    <2>1. CASE SeenJobs' = jobs'
      BY <1>4, <1>5, <2>1
    <2>2. CASE SeenJobs' = SeenJobs
      BY <1>3, <1>5, <2>2 DEF CopiesInv, Straight
    <2> QED BY <2>1, <2>2, ListedStep
  <1>6. ASSUME fresh', result'.ready
        PROVE  Nobody' /\ database' = <<cr'.uid, cr'.spec>>
    <2>1. CASE pc = "status" /\ fresh /\ result.ready /\ cr' = cr
      BY <1>1, <2>1 DEF Straight, Calm
    <2>2. CASE SyncJobStatus /\ pc = "job" /\ obj' = obj
      <3>1. PICK n \in JobNames : /\ n = ExpectedJobName /\ SeenJobs[n].owner = obj.uid
                                  /\ SeenJobs[n].phase = "complete"
        BY <1>1, <1>6, <2>2, ReadyStep
      <3>2. fresh /\ cr' = cr
        BY <1>6, <2>2, FreshStep DEF Fetch
      <3>3. cr.live /\ obj.uid = cr.uid /\ obj.spec = cr.spec /\ cr.spec \in Specs
        BY <1>1, <3>2 DEF Inv, VersionsHonest, SpecsKnown
      <3>4. SeenJobs[n].spec \in Specs /\ computeSpecHash[SeenJobs[n].spec] = n
        BY <1>1, <3>1, CachedReads DEF JobsHonest
      <3>5. Migration(SeenJobs[n]) = <<cr.uid, cr.spec>>
        BY <3>1, <3>3, <3>4, HashAssumption DEF ExpectedJobName, Migration
      <3>6. Nobody /\ database = <<cr.uid, cr.spec>>
        BY <3>1, <3>3, <3>5 DEF Straight, LastIn
      <3> QED BY <1>1, <3>2, <3>6 DEF Calm
    <2> QED BY <1>1, <1>6, <2>1, <2>2, ReadyStep
  <1>7. ASSUME Claimed'
        PROVE  (Only(<<cr.uid, cr.spec>>) /\ database = <<cr.uid, cr.spec>>)'
    <2>1. cr'.uid = cr.uid /\ cr'.spec = cr.spec
      BY <1>1, <1>7, ClaimStep DEF Same
    <2>2. CASE Claimed
      <3>1. Only(<<cr.uid, cr.spec>>) /\ database = <<cr.uid, cr.spec>>
        BY <2>2 DEF Straight
      <3>2. /\ \A n \in Underway' : Migration(jobs'[n]) = <<cr.uid, cr.spec>>
            /\ \A job \in lingering' : Migration(job) = <<cr.uid, cr.spec>>
            /\ database' = <<cr.uid, cr.spec>>
        BY <1>1, <3>1 DEF Calm, Only
      <3> QED BY <2>1, <3>2 DEF Only
    <2>3. CASE fresh /\ result.ready
      BY <1>1, <2>1, <2>3 DEF Straight, Calm, Nobody, Only
    <2> QED BY <1>1, <1>7, <2>2, <2>3, ClaimStep
  <1>8. LastIn(jobs)' /\ LastIn(SeenJobs)'
    BY <1>4, <1>5 DEF LastIn
  <1> QED BY <1>2, <1>6, <1>7, <1>8 DEF Straight

\* A Job that is not created beside another one is the only one underway, and none of
\* the object is complete.
LEMMA StraightCreate ==
  ASSUME CopiesInv, Straight, CreateJob, ~Beside
  PROVE  Straight'
  <1>1. /\ pc = "create" /\ jobs[ExpectedJobName].phase = "absent"
        /\ jobs \in [JobNames -> Job]
        /\ jobs' = [jobs EXCEPT ![ExpectedJobName] =
                      [phase |-> "pending", owner |-> obj.uid, spec |-> obj.spec]]
        /\ UNCHANGED <<cr, jobCache, lingering, database, obj, fresh>> /\ pc' = "status"
    BY DEF CreateJob, Return, CopiesInv, LaunchInv, Inv, TypeOK
  <1>2. ExpectedJobName \in JobNames
    BY <1>1, HashAssumption DEF ExpectedJobName, CopiesInv, LaunchInv, Inv, SpecsKnown
  <1>3. \A n \in JobNames :
          IF n = ExpectedJobName
          THEN jobs'[n].phase = "pending" /\ Migration(jobs'[n]) = <<obj.uid, obj.spec>>
          ELSE jobs'[n] = jobs[n]
    BY <1>1, <1>2 DEF Migration
  <1>4. Underway = {} /\ lingering = {} /\ lingering' = {}
    BY <1>1 DEF Beside
  <1>5. Underway' = {ExpectedJobName}
    BY <1>2, <1>3, <1>4 DEF Underway
  <1>6. Single'
    BY <1>4, <1>5 DEF Single
  <1>7. ASSUME NEW js, OwnersLaunched(js), NEW n \in JobNames, cr.live,
               js[n].phase # "absent", js[n].owner = cr.uid
        PROVE  obj.uid = cr.uid
    <2>1. PICK l \in launched : l[1] = cr.uid
      BY <1>7 DEF OwnersLaunched
    <2> QED BY <1>1, <1>7, <2>1 DEF CopiesInv, LaunchInv, LaunchesKept
  <1>8. ASSUME NEW n \in JobNames, cr.live, jobs[n].phase = "complete", jobs[n].owner = cr.uid
        PROVE  FALSE
    <2>1. obj.uid = cr.uid
      BY <1>7, <1>8 DEF CopiesInv
    <2> QED BY <1>8, <2>1 DEF Beside
  <1>9. ASSUME NEW n \in JobNames, cr.live, SeenJobs[n].phase = "complete",
               SeenJobs[n].owner = cr.uid
        PROVE  FALSE
    <2>1. obj.uid = cr.uid
      BY <1>7, <1>9 DEF CopiesInv
    <2>2. jobs[n].phase # "absent" /\ jobs[n].owner = obj.uid
      BY <1>1, <1>9, <2>1 DEF CopiesInv, ListedThere
    <2> QED BY <2>2 DEF Beside
  <1>10. LastIn(jobs)'
    BY <1>1, <1>3, <1>8 DEF LastIn
  <1>11. LastIn(SeenJobs)'
    <2>1. CASE SeenJobs' = jobs'
      BY <1>10, <2>1 DEF LastIn
    <2>2. CASE SeenJobs' = SeenJobs
      BY <1>1, <1>9, <2>2 DEF LastIn
    <2> QED BY <1>1, <2>1, <2>2 DEF SeenJobs
  <1>12. ~result'.ready
    BY DEF CreateJob, Return, Waiting, Blocked, Result
  <1>13. ASSUME Claimed'
         PROVE  (Only(<<cr.uid, cr.spec>>) /\ database = <<cr.uid, cr.spec>>)'
    <2>1. Claimed
      BY <1>1, <1>13 DEF Claimed
    <2>2. obj.uid = cr.uid /\ obj.spec = cr.spec /\ database = <<cr.uid, cr.spec>>
      BY <1>1, <2>1 DEF CopiesInv, ClaimIsNewest, Same, Straight
    <2>3. \A n \in Underway' : Migration(jobs'[n]) = <<cr'.uid, cr'.spec>>
      BY <1>1, <1>2, <1>3, <1>5, <2>2
    <2> QED BY <1>1, <1>4, <2>2, <2>3 DEF Only
  <1> QED BY <1>6, <1>10, <1>11, <1>12, <1>13 DEF Straight

LEMMA MatchNext ==
  ASSUME MatchInv, Inv', [Next]_vars
  PROVE  MatchInv'
  <1>1. CopiesInv /\ Inv
    BY DEF MatchInv, CopiesInv, LaunchInv
  <1>2. CopiesInv'
    BY <1>1, CopiesNext
  <1>3. CASE CreateJob
    <2>1. overlapped' = (overlapped \/ Beside)
      BY <1>3 DEF CreateJob
    <2> QED BY <1>1, <1>2, <1>3, <2>1, StraightCreate DEF MatchInv
  <1>4. CASE ~CreateJob
    <2>1. overlapped' = overlapped
      BY <1>1, <1>4, CalmStep
    <2> QED BY <1>1, <1>2, <1>4, <2>1, StraightCalm DEF MatchInv
  <1> QED BY <1>3, <1>4

LEMMA MatchInit ==
  ASSUME Init, Inv
  PROVE  MatchInv
  <1>1. LaunchInv
    BY LaunchInit
  <1>2. \A n \in JobNames : jobs[n].phase = "absent" /\ SeenJobs[n].phase = "absent"
    BY DEF Init, NoJob, SeenJobs
  <1>3. /\ ~cr.live /\ pc = "idle" /\ ~fresh /\ launched = {} /\ lingering = {} /\ asked = {}
        /\ ~SeenDBUpgrade.live
    BY DEF Init, Absent, SeenDBUpgrade
  <1>4. AskedKnown
    BY <1>3 DEF AskedKnown
  <1>5. CopiesInv
    BY <1>1, <1>2, <1>3, <1>4
       DEF CopiesInv, ClaimIsNewest, FreshIsNewest, Claimed, ListedThere, LaunchedLive,
           OwnersLaunched
  <1>6. Underway = {}
    BY <1>2 DEF Underway
  <1>7. Straight
    BY <1>2, <1>3, <1>6 DEF Straight, Single, LastIn, Claimed
  <1> QED BY <1>5, <1>7 DEF MatchInv

LEMMA MatchAlways == Spec => []MatchInv
  <1>1. Init /\ Inv => MatchInv
    BY MatchInit
  <1>2. MatchInv /\ Inv' /\ [Next]_vars => MatchInv'
    BY MatchNext
  <1> QED BY <1>1, <1>2, Invariant, PTL DEF Spec

\* "Ready=True means the database schema matches the desired state", unless the
\* controller once created a Job while another one, or the pod of a deleted one, was
\* there: whatever caches are old, pods linger, incarnations leave behind and crashes
\* lose.  (With an old list of Jobs, after a delete in the background or beside the Job of
\* an earlier incarnation, the controller does create a Job like that.)
THEOREM ReadyMatchesUnlessOverlap == Spec => []ReadyUnlessOverlap
  <1>1. ASSUME MatchInv PROVE ReadyUnlessOverlap
    BY <1>1 DEF MatchInv, Straight, ReadyUnlessOverlap, ReadyMatchesDatabase, Claimed
  <1> QED BY <1>1, MatchAlways, PTL

(***************************************************************************)
(* Where migrations take turns                                             *)
(***************************************************************************)

TurnsInv == Turns => Alone /\ ClaimInv /\ lingering = {} /\ ~overlapped

\* The Job of an object that is never created anew is the only one there is.
LEMMA TurnsCreate ==
  ASSUME Turns, CopiesInv, TurnsInv, CreateJob
  PROVE  ~Beside
  <1>1. MaxUid \in Nat /\ MaxUid <= 1 /\ cr.uid <= MaxUid /\ cr.uid \in Nat
    BY ConstantsAssumption DEF Turns, CopiesInv, LaunchInv, Inv, TypeOK, DBUpgrade
  <1>2. obj.uid \in Nat /\ obj.uid <= cr.uid /\ obj.uid # 0
    <2>1. pc = "create" /\ Request(obj) \in asked /\ Request(obj)[1] = obj.uid
      BY DEF CreateJob, CopiesInv, AskedKnown, Request
    <2>2. \A a \in asked : a[1] # 0
      BY DEF CopiesInv, AskedKnown
    <2> QED BY <2>1, <2>2, Copies DEF CopiesInv, LaunchInv, Behind
  <1>3. ASSUME NEW n \in JobNames, jobs[n].phase # "absent"
        PROVE  FALSE
    <2>1. PICK l \in launched : l[1] = jobs[n].owner
      BY <1>3 DEF CopiesInv, OwnersLaunched
    <2>2. l[1] # 0 /\ l[1] <= cr.uid
      BY DEF CopiesInv, LaunchedLive, LaunchInv, LaunchesKept
    <2>3. l[1] \in Nat
      BY ConstantsAssumption DEF CopiesInv, LaunchInv, Inv, TypeOK
    <2>4. jobs[n].owner = obj.uid
      BY <1>1, <1>2, <2>1, <2>2, <2>3
    <2> QED BY <1>3, <2>4 DEF TurnsInv, Alone, CreatesFirstJob, CreateJob
  <1> QED BY <1>3 DEF Beside, Underway, TurnsInv

\* A pod is left only by a delete in the background.
LEMMA NobodyLingers ==
  ASSUME ~Lingers, lingering = {}, [Next]_vars
  PROVE  lingering' = {}
  <1>1. CASE Reconcile
    BY <1>1
       DEF Reconcile, Fetch, FetchNotFound, SecretUpToDate, WriteSecret, SecretError,
           ListJobsFails, WaitForOldJob, ReplaceOldJob, SyncJobStatus, NoJobFound,
           PreCheckFails, DeleteJob, DropJob, CreateJob, JobAlreadyExists,
           CreateJobFails, UpdateStatus, UpdateStatusFails
  <1>2. CASE User \/ UNCHANGED vars
    BY <1>2
       DEF User, CreateDBUpgrade, UpdateSpec, DeleteDBUpgrade, RotateSecret,
           RemoveSecret, WriteCustomerSecret, vars
  <1>3. CASE Cluster
    BY <1>3
       DEF Cluster, JobAdvances, StartPod, StartContainer, JobSucceeds, JobFails,
           SetPhase, CollectJob, DropJob, LingeringPodAdvances, CollectSecret,
           SyncDBUpgrade, SyncJobs, SyncSecrets, TimerFires, Resync, Crash
  <1> QED BY <1>1, <1>2, <1>3 DEF Next

LEMMA TurnsAlways == Spec => []TurnsInv
  <1>1. CASE ~Turns
    BY <1>1, PTL DEF TurnsInv
  <1>2. CASE Turns
    <2> DEFINE Free == lingering = {} /\ ~overlapped
               Taken == Alone /\ ClaimInv
    <2>1. Spec => []Taken
      BY <1>2, AloneAlways, ClaimAlways, PTL DEF Turns
    <2>2. Init => Free
      BY DEF Init
    <2>3. ASSUME MatchInv, Taken, Free, [Next]_vars PROVE Free'
      <3>1. CopiesInv /\ Inv /\ TurnsInv
        BY <2>3 DEF MatchInv, CopiesInv, LaunchInv, TurnsInv
      <3>2. lingering' = {}
        BY <1>2, <2>3, NobodyLingers DEF Turns
      <3>3. CASE CreateJob
        BY <1>2, <2>3, <3>1, <3>2, <3>3, TurnsCreate DEF CreateJob
      <3>4. CASE ~CreateJob
        BY <2>3, <3>1, <3>2, <3>4, CalmStep
      <3> QED BY <3>3, <3>4
    <2>4. Taken /\ Free => TurnsInv
      BY DEF TurnsInv
    <2> HIDE DEF Free, Taken
    <2> QED BY <2>1, <2>2, <2>3, <2>4, MatchAlways, PTL DEF Spec
  <1> QED BY <1>1, <1>2

(***************************************************************************)
(* The refinement                                                          *)
(***************************************************************************)

Known == MatchInv /\ TurnsInv

\* What is known of the Jobs, and of what was asked for.
LEMMA KnownCopies ==
  ASSUME Known
  PROVE  Inv /\ CopiesInv /\ LaunchInv /\ AskedKnown /\ jobs \in [JobNames -> Job]
  BY DEF Known, MatchInv, CopiesInv, LaunchInv, Inv, TypeOK

\* What migrates and what is on record is a matter of Jobs and pods alone.
LEMMA SameRunning ==
  ASSUME UNCHANGED <<jobs, lingering>>
  PROVE  UNCHANGED <<Running, Records>>
  <1>1. Underway' = Underway
    BY DEF Underway
  <1> QED BY <1>1 DEF Running, Records

\* A step the abstract specification does not see.
LEMMA Unseen ==
  ASSUME UNCHANGED <<Wanted, asked, Running, Records, launched, succeeded, database,
                     overlapped>>,
         Claimed' = Claimed
  PROVE  UNCHANGED Promise!promise
  BY DEF Promise!promise, Claimed

\* Nothing was asked for, nothing runs.
LEMMA PromiseInit ==
  ASSUME Init
  PROVE  Promise!Init
  <1>1. \A n \in JobNames : jobs[n].phase = "absent"
    BY DEF Init, NoJob
  <1>2. Running = {} /\ Records = {}
    BY <1>1 DEF Init, Underway, Running, Records
  <1>3. Wanted = <<0, 0, NoSpec>> /\ ~Claimed
    BY DEF Init, Absent, Wanted, Claimed
  <1> QED BY <1>2, <1>3 DEF Init, Promise!Init, Claimed

\* Another spec, or another incarnation, is another request, and what was told is not
\* about it.
LEMMA AskRefined ==
  ASSUME Known, NEW s \in Specs, CreateDBUpgrade(s) \/ UpdateSpec(s)
  PROVE  Promise!Ask(s)
  <1>1. cr \in DBUpgrade /\ cr.uid \in Nat /\ cr.gen \in Nat /\ cr.observed \in Nat
    BY KnownCopies, Numbers, ConstantsAssumption DEF Inv, TypeOK, DBUpgrade
  <1>2. /\ Wanted' = IF Promise!Unwanted THEN <<Wanted[1] + 1, 1, s>>
                                         ELSE <<Wanted[1], Wanted[2] + 1, s>>
        /\ ~Claimed'
    <2>1. CASE CreateDBUpgrade(s)
      <3>1. /\ ~cr.live /\ cr'.live /\ cr'.uid = cr.uid + 1 /\ cr'.gen = 1
            /\ cr'.spec = s /\ ~cr'.ready
        BY <2>1 DEF CreateDBUpgrade, WriteDBUpgrade, Absent
      <3>2. Wanted = <<cr.uid, 0, NoSpec>> /\ Wanted' = <<cr.uid + 1, 1, s>>
        BY <3>1 DEF Wanted
      <3> QED BY <3>1, <3>2 DEF Promise!Unwanted, Claimed
    <2>2. CASE UpdateSpec(s)
      <3>1. /\ cr.live /\ cr'.live /\ cr'.uid = cr.uid /\ cr'.gen = cr.gen + 1
            /\ cr'.spec = s /\ cr'.observed = cr.observed
        BY <1>1, <2>2 DEF UpdateSpec, WriteDBUpgrade, DBUpgrade
      <3>2. cr.gen # 0
        BY <3>1, KnownCopies DEF AskedKnown, Request
      <3>3. ~Claimed'
        BY <1>1, <3>1, KnownCopies DEF Inv, Claimed
      <3>4. Wanted = <<cr.uid, cr.gen, cr.spec>> /\ Wanted' = <<cr.uid, cr.gen + 1, s>>
        BY <3>1 DEF Wanted
      <3> QED BY <3>2, <3>3, <3>4 DEF Promise!Unwanted
    <2> QED BY <2>1, <2>2
  <1>3. asked' = asked \cup {Wanted'}
    BY <1>1 DEF CreateDBUpgrade, UpdateSpec, WriteDBUpgrade, Absent, DBUpgrade, Wanted
  <1>4. UNCHANGED <<Running, Records, launched, succeeded, database, overlapped>>
    BY SameRunning DEF CreateDBUpgrade, UpdateSpec
  <1> QED BY <1>2, <1>3, <1>4 DEF Promise!Ask, Claimed

\* With the object goes what was said of it.
LEMMA WithdrawRefined ==
  ASSUME DeleteDBUpgrade
  PROVE  Promise!Withdraw
  <1>1. ~cr'.live /\ asked' = asked
    BY DEF DeleteDBUpgrade, WriteDBUpgrade, Absent
  <1>2. UNCHANGED <<Running, Records, launched, succeeded, database, overlapped>>
    BY SameRunning DEF DeleteDBUpgrade
  <1>3. Wanted' = <<Wanted[1], 0, NoSpec>>
    BY DEF DeleteDBUpgrade, WriteDBUpgrade, Absent, Wanted
  <1> QED BY <1>1, <1>2, <1>3 DEF Promise!Withdraw

\* A status write tells, retracts, or changes nothing the user asked about.
LEMMA StatusRefined ==
  ASSUME Known, Known', UpdateStatus
  PROVE  Promise!Tell \/ Promise!Retract
  <1>1. /\ fresh /\ cr.live /\ cr \in DBUpgrade
        /\ UNCHANGED <<jobs, lingering, launched, succeeded, database, overlapped>>
    BY KnownCopies DEF UpdateStatus, StatusAccepted, Inv, TypeOK, VersionsHonest
  <1>2. /\ Same(cr', cr) /\ cr'.live = cr.live /\ asked' = asked
        /\ cr'.ready => result.ready
    <2>1. /\ Same(StatusWritten, cr) /\ StatusWritten.live = cr.live
          /\ StatusWritten.ready = result.ready
      BY <1>1 DEF StatusWritten, DBUpgrade, Same
    <2>2. CASE StatusWritten = cr
      BY <2>1, <2>2 DEF UpdateStatus, Same
    <2>3. CASE StatusWritten # cr
      <3>1. cr' = StatusWritten /\ asked' = asked \cup {Request(cr)}
        BY <1>1, <2>1, <2>3 DEF UpdateStatus, WriteDBUpgrade, Request, Same
      <3> QED BY <1>1, <2>1, <3>1, KnownCopies DEF AskedKnown
    <2> QED BY <2>2, <2>3
  <1>3. UNCHANGED <<Wanted, asked, Running, Records, launched, succeeded, database,
                    overlapped>>
    BY <1>1, <1>2, SameRunning DEF Wanted, Same
  <1>4. CASE Claimed'
    <2>1. Wanted = <<cr.uid, cr.gen, cr.spec>> /\ cr.gen # 0
      BY <1>1, KnownCopies DEF Wanted, AskedKnown, Request
    <2>2. <<cr.uid, cr.spec>> \in succeeded
      BY <1>1, <1>2, <1>4, KnownCopies
         DEF Known, MatchInv, CopiesInv, LaunchInv, Inv, ReadyIsEarned, Claimed, Same
    <2>3. ASSUME ~overlapped PROVE Running = {} /\ database = <<cr.uid, cr.spec>>
      <3>1. Nobody /\ database = <<cr.uid, cr.spec>>
        BY <1>1, <1>2, <1>4, <2>3 DEF Known, MatchInv, Straight, Claimed
      <3> QED BY <3>1 DEF Nobody, Running
    <2>4. /\ Wanted[2] # 0 /\ <<Wanted[1], Wanted[3]>> \in succeeded
          /\ ~overlapped => Running = {} /\ database = <<Wanted[1], Wanted[3]>>
      BY <2>1, <2>2, <2>3
    <2> QED BY <1>3, <1>4, <2>4 DEF Promise!Tell, Promise!Unwanted, Claimed
  <1>5. CASE ~Claimed'
    BY <1>3, <1>5 DEF Promise!Retract, Claimed
  <1> QED BY <1>4, <1>5

\* A Job starts the migration of what was asked for.
LEMMA StartRefined ==
  ASSUME Known, Known', CreateJob
  PROVE  \E r \in asked : Promise!Start(r)
  <1> DEFINE r == Request(obj)
             job == [phase |-> "pending", owner |-> obj.uid, spec |-> obj.spec]
  <1>1. /\ pc = "create" /\ jobs[ExpectedJobName].phase = "absent"
        /\ jobs' = [jobs EXCEPT ![ExpectedJobName] = job]
        /\ launched' = launched \cup {<<obj.uid, obj.gen>>}
        /\ overlapped' = (overlapped \/ Beside)
        /\ UNCHANGED <<cr, asked, lingering, succeeded, database>>
    BY DEF CreateJob
  <1>2. ExpectedJobName \in JobNames
    BY <1>1, KnownCopies, HashAssumption DEF ExpectedJobName, Inv, SpecsKnown
  <1>3. r \in asked /\ r[1] = obj.uid /\ r[2] = obj.gen /\ r[3] = obj.spec
    BY <1>1, KnownCopies DEF AskedKnown, Request
  <1>4. \A n \in JobNames :
          IF n = ExpectedJobName
          THEN jobs'[n].phase = "pending" /\ Migration(jobs'[n]) = <<obj.uid, obj.spec>>
          ELSE jobs'[n] = jobs[n]
    BY <1>1, <1>2, KnownCopies DEF Migration
  <1>5. Underway' = Underway \cup {ExpectedJobName} /\ Underway \subseteq JobNames
    BY <1>1, <1>2, <1>4 DEF Underway
  <1>6. ExpectedJobName \notin Underway
    BY <1>1 DEF Underway
  <1>7. Running' = Running \cup {<<obj.uid, obj.spec>>}
    BY <1>1, <1>2, <1>4, <1>5, <1>6 DEF Running
  <1>8. Records' = Records \cup {<<obj.uid, obj.spec>>}
    BY <1>1, <1>2, <1>4 DEF Records
  <1>9. Beside <=> Running # {} \/ \E m \in Records : m[1] = obj.uid
    <2>1. Running # {} <=> Underway # {} \/ lingering # {}
      BY DEF Running
    <2>2. (\E m \in Records : m[1] = obj.uid) <=>
             \E n \in JobNames : jobs[n].phase # "absent" /\ jobs[n].owner = obj.uid
      <3>1. \A n \in JobNames : Migration(jobs[n])[1] = jobs[n].owner
        BY DEF Migration
      <3> QED BY <3>1 DEF Records
    <2> QED BY <2>1, <2>2 DEF Beside
  <1>10. Wanted' = Wanted /\ Claimed' = Claimed
    BY <1>1 DEF Wanted, Claimed
  <1>11. ASSUME cr.live, obj.uid = cr.uid
         PROVE  <<obj.uid, obj.gen>> \notin launched
    <2>1. SUFFICES ASSUME <<obj.uid, obj.gen>> \in launched PROVE FALSE
      OBVIOUS
    <2>2. HasJob(obj)
      BY <1>1, <1>11, <2>1, KnownCopies DEF LaunchInv, LaunchesKept, Kept
    <2> QED BY <1>1, <2>2 DEF HasJob, ExpectedJobName
  <1>12. ASSUME Claimed
         PROVE  ~Turns /\ r = Wanted
    <2>1. Same(obj, cr) /\ cr.live
      BY <1>1, <1>12, KnownCopies DEF CopiesInv, ClaimIsNewest, Claimed
    <2>2. ~Turns
      BY <1>1, <1>12 DEF Known, TurnsInv, ClaimInv, ClaimHolds
    <2> QED BY <2>1, <2>2 DEF Same, Request, Wanted
  <1>13. Turns => ~overlapped'
    BY DEF Known, TurnsInv
  <1>14. Wanted[1] = cr.uid /\ (Wanted[2] # 0 => cr.live)
    BY DEF Wanted
  <1> HIDE DEF r
  <1>15. Promise!MayStart(r)
    BY <1>3, <1>11, <1>12, <1>14 DEF Promise!MayStart, Promise!Unwanted, Claimed
  <1>16. Promise!Start(r)
    BY <1>1, <1>3, <1>7, <1>8, <1>9, <1>10, <1>13, <1>15 DEF Promise!Start, Claimed
  <1> QED BY <1>3, <1>16

\* What is over, killed or deleted is seen as aborted.
LEMMA AbortRefined ==
  ASSUME UNCHANGED <<cr, asked, launched, succeeded, database, overlapped>>,
         Running' \subseteq Running, Records' \subseteq Records
  PROVE  Promise!Next
  <1>1. Wanted' = Wanted /\ Claimed' = Claimed
    BY DEF Wanted, Claimed
  <1>2. Promise!Abort
    BY <1>1 DEF Promise!Abort, Claimed
  <1> QED BY <1>2 DEF Promise!Next

\* A migration that gets to its end is one that was running.
LEMMA FinishRefined ==
  ASSUME NEW m \in Running, database' = m, UNCHANGED <<cr, asked, launched, overlapped>>,
         succeeded' \in {succeeded, succeeded \cup {m}},
         Running' \in {Running, Running \ {m}}, Records' = Records
  PROVE  Promise!Next
  <1>1. Wanted' = Wanted /\ Claimed' = Claimed
    BY DEF Wanted, Claimed
  <1>2. Promise!Finish(m)
    BY <1>1 DEF Promise!Finish, Claimed
  <1> QED BY <1>2 DEF Promise!Next

\* A Job that goes leaves at most its pod.
LEMMA DropRefined ==
  ASSUME Known, NEW n \in JobNames, DropJob(n),
         UNCHANGED <<cr, asked, launched, succeeded, database, overlapped>>
  PROVE  Promise!Next
  <1>1. \A k \in JobNames : jobs'[k].phase = "absent" \/ jobs'[k] = jobs[k]
    BY KnownCopies DEF DropJob, NoJob
  <1>2. lingering' \subseteq lingering \cup {jobs[k] : k \in Underway}
    BY DEF DropJob, isJobRunning, Underway
  <1>3. \A k \in Underway' : k \in Underway /\ jobs'[k] = jobs[k]
    BY <1>1 DEF Underway
  <1>4. Running' \subseteq Running
    BY <1>2, <1>3 DEF Running
  <1>5. Records' \subseteq Records
    BY <1>1 DEF Records
  <1> QED BY <1>4, <1>5, AbortRefined

\* The Job controller finishes or aborts what runs; that a pod starts is not seen.
LEMMA AdvanceRefined ==
  ASSUME Known, NEW n \in JobNames, JobAdvances(n)
  PROVE  Promise!Next
  <1>1. /\ n \in Underway /\ UNCHANGED <<cr, asked, lingering, launched, overlapped>>
        /\ jobs \in [JobNames -> Job]
    BY KnownCopies
       DEF JobAdvances, StartPod, StartContainer, JobSucceeds, JobFails, SetPhase,
           isJobRunning, Underway
  <1>2. PICK phase \in Phases \ {"absent"} : jobs' = [jobs EXCEPT ![n].phase = phase]
    BY DEF JobAdvances, StartPod, StartContainer, JobSucceeds, JobFails, SetPhase, Phases
  <1>3. \A k \in JobNames : /\ Migration(jobs'[k]) = Migration(jobs[k])
                            /\ (jobs'[k].phase # "absent") = (jobs[k].phase # "absent")
                            /\ k # n => jobs'[k] = jobs[k]
    BY <1>1, <1>2 DEF Migration, Job, Underway
  <1>4. Underway' \in {Underway, Underway \ {n}} /\ Underway \subseteq JobNames
    BY <1>1, <1>3 DEF Underway
  <1>5. Running' \in {Running, Running \ {Migration(jobs[n])}} /\ Migration(jobs[n]) \in Running
    BY <1>1, <1>3, <1>4 DEF Running
  <1>6. Records' = Records
    BY <1>3 DEF Records
  <1>7. CASE JobSucceeds(n)
    <2>1. database' = Migration(jobs[n]) /\ succeeded' = succeeded \cup {Migration(jobs[n])}
      BY <1>7 DEF JobSucceeds, Migration
    <2> QED BY <1>1, <1>5, <1>6, <2>1, FinishRefined
  <1>8. CASE StartPod(n) \/ StartContainer(n) \/ JobFails(n)
    <2>1. UNCHANGED <<succeeded, database>>
      BY <1>8 DEF StartPod, StartContainer, JobFails
    <2> QED BY <1>1, <1>5, <1>6, <2>1, AbortRefined
  <1> QED BY <1>7, <1>8 DEF JobAdvances

\* A pod that was left is killed, or gets to the end of its migration unnoticed.
LEMMA LingeringRefined ==
  ASSUME Known, LingeringPodAdvances
  PROVE  Promise!Next
  <1>1. UNCHANGED <<cr, asked, jobs, succeeded, launched, overlapped>>
    BY DEF LingeringPodAdvances
  <1>2. Underway' = Underway /\ Records' = Records
    BY <1>1 DEF Underway, Records
  <1>3. PICK job \in lingering :
          \/ lingering' = lingering \ {job} /\ UNCHANGED database
          \/ /\ lingering' = (lingering \ {job}) \cup {[job EXCEPT !.phase = "running"]}
             /\ UNCHANGED database
          \/ lingering' = lingering \ {job} /\ database' = <<job.owner, job.spec>>
    BY DEF LingeringPodAdvances
  <1>4. Migration([job EXCEPT !.phase = "running"]) = Migration(job)
    <2>1. job \in Job
      BY KnownCopies DEF Inv, TypeOK
    <2> QED BY <2>1 DEF Migration, Job
  <1>5. Migration(job) \in Running
    BY DEF Running
  <1>6. CASE UNCHANGED database
    <2>1. Running' \subseteq Running
      BY <1>1, <1>2, <1>3, <1>4 DEF Running
    <2> QED BY <1>1, <1>2, <1>6, <2>1, AbortRefined
  <1>7. CASE lingering' = lingering \ {job} /\ database' = <<job.owner, job.spec>>
    <2>1. Running' \in {Running, Running \ {Migration(job)}}
      BY <1>1, <1>2, <1>7 DEF Running
    <2>2. database' = Migration(job)
      BY <1>7 DEF Migration
    <2> QED BY <1>1, <1>2, <1>5, <2>1, <2>2, FinishRefined
  <1> QED BY <1>3, <1>6, <1>7

\* Every step of the controller and its environment is one of the promise, or unseen.
LEMMA NextRefined ==
  ASSUME Known, Known', [Next]_vars
  PROVE  [Promise!Next]_(Promise!promise)
  <1>1. CASE UNCHANGED <<cr, asked, jobs, lingering, launched, succeeded, database,
                         overlapped>>
    <2>1. UNCHANGED <<Wanted, Running, Records>> /\ Claimed' = Claimed
      BY <1>1, SameRunning DEF Wanted, Claimed
    <2> QED BY <1>1, <2>1, Unseen
  <1>2. CASE UpdateStatus
    BY <1>2, StatusRefined DEF Promise!Next
  <1>3. CASE CreateJob
    BY <1>3, StartRefined DEF Promise!Next
  <1>4. CASE DeleteJob
    <2>1. CASE UNCHANGED <<jobs, lingering>>
      BY <1>1, <1>4, <2>1 DEF DeleteJob
    <2>2. CASE DropJob(target)
      <3>1. /\ target \in JobNames
            /\ UNCHANGED <<cr, asked, launched, succeeded, database, overlapped>>
        BY <1>4, KnownCopies DEF DeleteJob, Inv, TypeOK
      <3> QED BY <2>2, <3>1, DropRefined
    <2> QED BY <1>4, <2>1, <2>2 DEF DeleteJob
  <1>5. CASE Reconcile /\ ~UpdateStatus /\ ~CreateJob /\ ~DeleteJob
    <2>1. UNCHANGED <<cr, asked, jobs, lingering, launched, succeeded, database,
                      overlapped>>
      BY <1>5
         DEF Reconcile, Fetch, FetchNotFound, SecretUpToDate, WriteSecret, SecretError,
             ListJobsFails, WaitForOldJob, ReplaceOldJob, SyncJobStatus, NoJobFound,
             PreCheckFails, JobAlreadyExists, CreateJobFails, UpdateStatusFails
    <2> QED BY <1>1, <2>1
  <1>6. CASE User
    <2>1. ASSUME NEW s \in Specs, CreateDBUpgrade(s) \/ UpdateSpec(s)
          PROVE  [Promise!Next]_(Promise!promise)
      BY <2>1, AskRefined DEF Promise!Next
    <2>2. CASE DeleteDBUpgrade
      BY <2>2, WithdrawRefined DEF Promise!Next
    <2>3. CASE RotateSecret \/ RemoveSecret
      BY <1>1, <2>3 DEF RotateSecret, RemoveSecret, WriteCustomerSecret
    <2> QED BY <1>6, <2>1, <2>2, <2>3 DEF User
  <1>7. CASE Cluster
    <2>1. ASSUME NEW n \in JobNames, CollectJob(n) PROVE [Promise!Next]_(Promise!promise)
      BY <2>1, DropRefined DEF CollectJob
    <2>2. CASE \/ CollectSecret \/ SyncDBUpgrade \/ SyncJobs \/ SyncSecrets
               \/ TimerFires \/ Resync \/ Crash
      BY <1>1, <2>2
         DEF CollectSecret, SyncDBUpgrade, SyncJobs, SyncSecrets, TimerFires, Resync,
             Crash
    <2> QED BY <1>7, <2>1, <2>2, AdvanceRefined, LingeringRefined DEF Cluster
  <1>8. CASE UNCHANGED vars
    BY <1>1, <1>8 DEF vars
  <1> QED BY <1>2, <1>3, <1>4, <1>5, <1>6, <1>7, <1>8 DEF Next

\* The controller implements UpgradePromise, whatever caches are old, pods linger and
\* incarnations leave behind: each generation starts one migration, of what was asked for,
\* none but of the same starts after the user was told that all is done, and that is told
\* only of what was migrated and, as long as no migration was started beside another one,
\* when nothing runs and the database holds what is wanted.  Where Turns holds, migrations
\* take turns, so that the last proviso is met.
THEOREM PromiseKept == Spec => KeepsPromise
  <1>1. Spec => []Known
    BY MatchAlways, TurnsAlways, PTL DEF Known
  <1>2. Init => Promise!Init
    BY PromiseInit
  <1>3. Known /\ Known' /\ [Next]_vars => [Promise!Next]_(Promise!promise)
    BY NextRefined
  <1> QED BY <1>1, <1>2, <1>3, PTL DEF Spec, KeepsPromise, Promise!Spec

=============================================================================

------------------------ MODULE DBUpgradeController ------------------------
(***************************************************************************)
(* The reconcile loop of controllers/dbupgrade_controller.go for the       *)
(* DBUpgrade of one namespace/name, against an API server it reads through *)
(* informer caches and writes to directly, with the users who edit the     *)
(* object, the Job controller and the garbage collector as environment.    *)
(*                                                                         *)
(* The object may be deleted and created again: `uid' tells incarnations   *)
(* apart, `gen' is metadata.generation.  resourceVersion is abstracted to  *)
(* two Booleans: crFresh (the cached copy carries the server's version)    *)
(* and fresh (the copy the reconciler holds does); every write that really *)
(* changes the object clears both, which is all optimistic locking tests.  *)
(***************************************************************************)
EXTENDS Naturals, FiniteSets

CONSTANTS
    Specs,            \* the values spec may take
    NoSpec,           \* the spec of an object that does not exist
    JobNames,         \* the names Jobs get
    computeSpecHash,  \* spec -> Job name (truncated SHA-256 of its JSON)
    DatabaseOf,       \* spec -> kind of database
    PreChecked,       \* specs with pre-migration checks
    PostChecked,      \* specs with post-migration metrics
    Urls,             \* the connection URLs the customer's Secret may hold
    WebhookEnabled,   \* FALSE when the manager runs with DISABLE_WEBHOOKS
    Lagging,          \* the kinds whose cached reads may be out of date
    Lingers,          \* TRUE when a pod may outlive its deleted Job
    MaxGen,           \* bound: generations of one incarnation
    MaxUid,           \* bound: incarnations
    MaxDisturbances   \* bound: disturbances (see Disturbance)

NoUrl == "none"
Token == "iam-token"
NoName == "none"
DatabaseKinds == {"selfHosted", "aws", "awsNoConfig"}

\* The hash is truncated to 32 bits; collisions are assumed away.
ASSUME HashAssumption ==
    /\ computeSpecHash \in [Specs -> JobNames]
    /\ \A s, t \in Specs : computeSpecHash[s] = computeSpecHash[t] => s = t

ASSUME ConstantsAssumption ==
    /\ NoSpec \notin Specs
    /\ NoName \notin JobNames
    /\ DatabaseOf \in [Specs -> DatabaseKinds]
    /\ PreChecked \subseteq Specs
    /\ PostChecked \subseteq Specs
    /\ Urls # {} /\ NoUrl \notin Urls /\ Token \notin Urls
    /\ WebhookEnabled \in BOOLEAN
    /\ Lagging \subseteq {"DBUpgrade", "Job", "Secret"} /\ Lingers \in BOOLEAN
    /\ MaxGen \in Nat \ {0} /\ MaxUid \in Nat /\ MaxDisturbances \in Nat

VARIABLES
    cr,           \* the DBUpgrade on the API server
    crCache,      \* the informer's copy of it
    crFresh,      \* the informer's copy has the server's resourceVersion
    asked,        \* history: <<uid, gen, spec>> of everything users asked for
    jobs,         \* the Jobs on the API server, by name
    jobCache,     \* the informer's copy of them
    lingering,    \* what was a Job, for each pod that goes on although its Job is gone
    secrets,      \* the customer's Secret and the operator's
    secretCache,  \* the informer's copy of them
    operFresh,    \* the copy of the operator's has the server's version
    pc,           \* what the reconcile in progress does next
    obj,          \* the DBUpgrade it fetched
    fresh,        \* obj still has the server's resourceVersion
    target,       \* the Job it decided to delete
    result,       \* its reconcileResult
    queued,       \* the workqueue holds the key
    timer,        \* a delayed add (RequeueAfter) is pending
    succeeded,    \* history: <<uid, spec>> whose Job completed
    database,     \* history: the last of them, what the database holds
    launched,     \* history: <<uid, gen>> for which a Job was created
    overlapped,   \* history: some Job was created beside another one (see Beside)
    spent         \* disturbances so far

crVars     == <<cr, crCache, crFresh, asked>>
jobVars    == <<jobs, jobCache, lingering>>
secretVars == <<secrets, secretCache, operFresh>>
reconciler == <<pc, obj, fresh, target, result>>
queue      == <<queued, timer>>
history    == <<succeeded, database, launched, overlapped>>
vars == <<cr, crCache, crFresh, asked, jobs, jobCache, lingering, secrets, secretCache,
          operFresh, pc, obj, fresh, target, result, queued, timer, succeeded, database,
          launched, overlapped, spent>>

----------------------------------------------------------------------------
(* Objects *)

Phases == {"absent", "pending", "starting", "running", "complete", "failed"}
Reasons == {"None", "Initializing", "MigrationInProgress", "MigrationComplete",
            "JobFailed", "JobPending", "SecretNotFound", "AWSNotSupported",
            "PreCheckFailed", "PostCheckFailed", "PostCheckBakeTimeWaiting"}
Pcs == {"idle", "secret", "job", "delete", "create", "status"}

DBUpgrade == [live : BOOLEAN, uid : 0..MaxUid, gen : 0..MaxGen,
              spec : Specs \cup {NoSpec}, ready : BOOLEAN,
              progressing : BOOLEAN, reason : Reasons, observed : 0..MaxGen]
\* The conditions the README's status table knows: never both at once.
Conditions(c) == ~(c.ready /\ c.progressing)
Job == [phase : Phases, owner : 0..MaxUid, spec : Specs \cup {NoSpec}]
OperatorSecret == [owner : 0..MaxUid, url : Urls \cup {NoUrl, Token}]
SecretStore == [customer : Urls \cup {NoUrl}, oper : OperatorSecret]
Fetched == [uid : 0..MaxUid, gen : 0..MaxGen, spec : Specs \cup {NoSpec}]
ReconcileResult == [ready : BOOLEAN, progressing : BOOLEAN, reason : Reasons,
                    requeue : BOOLEAN]

Absent(uid) == [live |-> FALSE, uid |-> uid, gen |-> 0, spec |-> NoSpec,
                ready |-> FALSE, progressing |-> FALSE, reason |-> "None",
                observed |-> 0]
NoJob == [phase |-> "absent", owner |-> 0, spec |-> NoSpec]
NoSecret == [owner |-> 0, url |-> NoUrl]
Nothing == [uid |-> 0, gen |-> 0, spec |-> NoSpec]

\* The kinds of reconcileResult; the reason is that of the Progressing condition.
Result(ready, progressing, reason, requeue) ==
    [ready |-> ready, progressing |-> progressing, reason |-> reason,
     requeue |-> requeue]
Waiting(reason) == Result(FALSE, TRUE, reason, TRUE)
\* Mutated form of Blocked: nothing brings the key back.
BlockedForever(reason) == Result(FALSE, FALSE, reason, FALSE)
Blocked(reason) == Result(FALSE, FALSE, reason, TRUE)
\* Mutated form of Stopped: Progressing is not cleared.
StoppedProgressing(reason) == Result(FALSE, TRUE, reason, FALSE)
Stopped(reason) == Result(FALSE, FALSE, reason, FALSE)
\* Mutated form of Succeeded: Progressing is not cleared.
SucceededProgressing == Result(TRUE, TRUE, "MigrationComplete", FALSE)
Succeeded       == Result(TRUE, FALSE, "MigrationComplete", FALSE)
NoResult        == Stopped("None")

\* What a cached read returns: possibly an old copy of the kinds in Lagging.
SeenDBUpgrade == IF "DBUpgrade" \in Lagging THEN crCache ELSE cr
SeenJobs      == IF "Job" \in Lagging THEN jobCache ELSE jobs
SeenSecrets   == IF "Secret" \in Lagging THEN secretCache ELSE secrets

isJobRunning(job) == job.phase \in {"starting", "running"}

----------------------------------------------------------------------------
TypeOK ==
    /\ cr \in DBUpgrade /\ crCache \in DBUpgrade /\ crFresh \in BOOLEAN
    /\ asked \subseteq (0..MaxUid) \X (0..MaxGen) \X (Specs \cup {NoSpec})
    /\ Conditions(cr) /\ Conditions(crCache) /\ Conditions(result)
    /\ jobs \in [JobNames -> Job] /\ jobCache \in [JobNames -> Job]
    /\ lingering \subseteq Job
    /\ secrets \in SecretStore /\ secretCache \in SecretStore
    /\ operFresh \in BOOLEAN
    /\ pc \in Pcs /\ obj \in Fetched /\ fresh \in BOOLEAN
    /\ target \in JobNames \cup {NoName} /\ (pc = "delete" => target \in JobNames)
    /\ result \in ReconcileResult
    /\ queued \in BOOLEAN /\ timer \in BOOLEAN
    /\ succeeded \subseteq (0..MaxUid) \X (Specs \cup {NoSpec})
    /\ database \in (0..MaxUid) \X (Specs \cup {NoSpec})
    /\ launched \subseteq (0..MaxUid) \X (0..MaxGen) /\ overlapped \in BOOLEAN
    /\ spent \in 0..MaxDisturbances

Init ==
    /\ cr = Absent(0) /\ crCache = Absent(0) /\ crFresh = TRUE
    /\ asked = {}
    /\ jobs = [n \in JobNames |-> NoJob] /\ jobCache = [n \in JobNames |-> NoJob]
    /\ lingering = {}
    /\ \E u \in Urls :
          /\ secrets = [customer |-> u, oper |-> NoSecret]
          /\ secretCache = [customer |-> u, oper |-> NoSecret]
    /\ operFresh = TRUE
    /\ pc = "idle" /\ obj = Nothing /\ fresh = FALSE
    /\ target = NoName /\ result = NoResult
    /\ queued = FALSE /\ timer = FALSE
    /\ succeeded = {} /\ database = <<0, NoSpec>> /\ launched = {}
    /\ overlapped = FALSE /\ spent = 0

\* What happens only finitely often: crashes, resyncs, deletions of the object or
\* of the customer's Secret, failed API calls, checks that do not pass (yet).
Disturbance == spent < MaxDisturbances /\ spent' = spent + 1

\* A write that changes the object: older copies of it no longer match.
WriteDBUpgrade(new) ==
    /\ cr' = new
    /\ asked' = IF new.live THEN asked \cup {<<new.uid, new.gen, new.spec>>} ELSE asked
    /\ crFresh' = FALSE
    /\ UNCHANGED crCache

----------------------------------------------------------------------------
(* Users: the DBUpgrade and the Secret it refers to *)

CreateDBUpgrade(s) ==
    /\ ~cr.live /\ cr.uid < MaxUid
    /\ WriteDBUpgrade([Absent(cr.uid + 1) EXCEPT !.live = TRUE, !.gen = 1,
                                                 !.spec = s])
    /\ fresh' = FALSE
    /\ UNCHANGED <<jobVars, secretVars, pc, obj, target, result, queue, history,
                   spent>>

\* ValidateUpdate: not while Progressing, and not to another kind of database.
AdmitsUpdate(s) ==
    WebhookEnabled => ~cr.progressing /\ DatabaseOf[s] = DatabaseOf[cr.spec]

UpdateSpec(s) ==
    /\ cr.live /\ s # cr.spec /\ cr.gen < MaxGen
    /\ AdmitsUpdate(s)
    /\ WriteDBUpgrade([cr EXCEPT !.spec = s, !.gen = @ + 1])
    /\ fresh' = FALSE
    /\ UNCHANGED <<jobVars, secretVars, pc, obj, target, result, queue, history,
                   spent>>

DeleteDBUpgrade ==
    /\ cr.live /\ Disturbance
    /\ WriteDBUpgrade(Absent(cr.uid))
    /\ fresh' = FALSE
    /\ UNCHANGED <<jobVars, secretVars, pc, obj, target, result, queue, history>>

WriteCustomerSecret(u) ==
    /\ secrets.customer # u
    /\ secrets' = [secrets EXCEPT !.customer = u]
    /\ UNCHANGED <<crVars, jobVars, secretCache, operFresh, reconciler, queue,
                   history>>

RotateSecret == (\E u \in Urls : WriteCustomerSecret(u)) /\ UNCHANGED spent
RemoveSecret == WriteCustomerSecret(NoUrl) /\ Disturbance

----------------------------------------------------------------------------
(* The Job controller and the kubelet: one pod per Job (backoffLimit 0),   *)
(* killed when activeDeadlineSeconds is over                               *)

SetPhase(n, phase) ==
    /\ jobs' = [jobs EXCEPT ![n].phase = phase]
    /\ UNCHANGED <<crVars, jobCache, lingering, secretVars, reconciler, queue,
                   launched, overlapped, spent>>

StartPod(n) ==
    /\ jobs[n].phase = "pending"
    /\ SetPhase(n, "starting")
    /\ UNCHANGED <<succeeded, database>>

\* DATABASE_URL comes from a secretKeyRef: no container without the Secret.
StartContainer(n) ==
    /\ jobs[n].phase = "starting" /\ secrets.oper # NoSecret
    /\ SetPhase(n, "running")
    /\ UNCHANGED <<succeeded, database>>

JobSucceeds(n) ==
    /\ jobs[n].phase = "running"
    /\ SetPhase(n, "complete")
    /\ database' = <<jobs[n].owner, jobs[n].spec>>
    /\ succeeded' = succeeded \cup {database'}

JobFails(n) ==
    /\ isJobRunning(jobs[n])
    /\ SetPhase(n, "failed")
    /\ UNCHANGED <<succeeded, database>>

JobAdvances(n) == StartPod(n) \/ StartContainer(n) \/ JobSucceeds(n) \/ JobFails(n)

\* A Job goes: its pod, if it has one, is deleted in the background, which takes a while.
DropJob(n) ==
    /\ jobs' = [jobs EXCEPT ![n] = NoJob]
    /\ lingering' = IF Lingers /\ isJobRunning(jobs[n]) THEN lingering \cup {jobs[n]}
                                                       ELSE lingering

\* Until such a pod is killed its container may start, and may get to the end of the
\* migration.
LingeringPodAdvances ==
    /\ \E job \in lingering :
          \/ lingering' = lingering \ {job} /\ UNCHANGED database
          \/ /\ job.phase = "starting" /\ secrets.oper # NoSecret
             /\ lingering' = (lingering \ {job}) \cup {[job EXCEPT !.phase = "running"]}
             /\ UNCHANGED database
          \/ /\ job.phase = "running"
             /\ lingering' = lingering \ {job} /\ database' = <<job.owner, job.spec>>
    /\ UNCHANGED <<crVars, jobs, jobCache, secretVars, reconciler, queue, succeeded,
                   launched, overlapped, spent>>

(* The garbage collector: objects whose owner no longer exists *)

Orphaned(uid) == ~(cr.live /\ cr.uid = uid)

CollectJob(n) ==
    /\ jobs[n].phase # "absent" /\ Orphaned(jobs[n].owner)
    /\ DropJob(n)
    /\ UNCHANGED <<crVars, jobCache, secretVars, reconciler, queue, history,
                   spent>>

CollectSecret ==
    /\ secrets.oper # NoSecret /\ Orphaned(secrets.oper.owner)
    /\ secrets' = [secrets EXCEPT !.oper = NoSecret]
    /\ operFresh' = FALSE
    /\ UNCHANGED <<crVars, jobVars, secretCache, reconciler, queue, history,
                   spent>>

----------------------------------------------------------------------------
(* Informers and workqueue: events of DBUpgrades and of owned Jobs enqueue *)
(* the key, Secrets are cached but not watched                             *)

SyncDBUpgrade ==
    /\ ~crFresh
    /\ crCache' = cr /\ crFresh' = TRUE /\ queued' = TRUE
    /\ UNCHANGED <<cr, asked, jobVars, secretVars, reconciler, timer, history, spent>>

SyncJobs ==
    /\ jobCache # jobs
    /\ jobCache' = jobs /\ queued' = TRUE
    /\ UNCHANGED <<crVars, jobs, lingering, secretVars, reconciler, timer, history,
                   spent>>

SyncSecrets ==
    /\ "Secret" \in Lagging /\ (secretCache # secrets \/ ~operFresh)
    /\ secretCache' = secrets /\ operFresh' = TRUE
    /\ UNCHANGED <<crVars, jobVars, secrets, reconciler, queue, history, spent>>

TimerFires ==
    /\ timer
    /\ timer' = FALSE /\ queued' = TRUE
    /\ UNCHANGED <<crVars, jobVars, secretVars, reconciler, history, spent>>

\* The periodic resync of the informers.
Resync ==
    /\ crCache.live /\ ~queued /\ Disturbance
    /\ queued' = TRUE
    /\ UNCHANGED <<crVars, jobVars, secretVars, reconciler, timer, history>>

\* The manager dies, at any point of a reconcile, and another one takes over: a new
\* process, whose informers list everything, or a standby that waited for the lease
\* with informers that lag as any.  Either enqueues what its informer knows.
Relisted ==
    /\ crCache' = cr /\ crFresh' = TRUE /\ jobCache' = jobs
    /\ secretCache' = secrets /\ operFresh' = TRUE

Crash ==
    /\ Disturbance
    /\ Relisted \/ UNCHANGED <<crCache, crFresh, jobCache, secretCache, operFresh>>
    /\ pc' = "idle" /\ obj' = Nothing /\ fresh' = FALSE
    /\ target' = NoName /\ result' = NoResult
    /\ queued' = crCache'.live /\ timer' = FALSE
    /\ UNCHANGED <<cr, asked, jobs, lingering, secrets, history>>

----------------------------------------------------------------------------
(* The reconcile: one action per call that reads or writes the cluster.  A *)
(* call may fail outright, or take effect and have its answer lost: both   *)
(* are errors to the caller.                                               *)

\* The reconcile goes on to the step `next'.
Goto(next) ==
    /\ pc' = next
    /\ UNCHANGED <<obj, target, result>>

\* reconcileDBUpgrade returns r.
Return(r) ==
    /\ pc' = "status" /\ result' = r /\ target' = NoName
    /\ UNCHANGED obj

\* Reconcile returns.
Done ==
    /\ pc' = "idle" /\ obj' = Nothing /\ fresh' = FALSE
    /\ target' = NoName /\ result' = NoResult

\* What is read of the cache before the first write: the object, the customer's
\* Secret (validateSecret) and spec.database.aws.
SecretMissing(s) == DatabaseOf[s] = "selfHosted" /\ SeenSecrets.customer = NoUrl
ConfigMissing(s) == DatabaseOf[s] = "awsNoConfig"

Validate(s) ==
    \/ SecretMissing(s) /\ pc' = "status" /\ result' = Blocked("SecretNotFound")
    \/ ConfigMissing(s) /\ pc' = "status" /\ result' = Stopped("AWSNotSupported")
    \/ ~SecretMissing(s) /\ ~ConfigMissing(s) /\ pc' = "secret" /\ UNCHANGED result

Fetch ==
    /\ pc = "idle" /\ queued /\ SeenDBUpgrade.live
    /\ queued' = FALSE
    /\ obj' = [uid |-> SeenDBUpgrade.uid, gen |-> SeenDBUpgrade.gen,
               spec |-> SeenDBUpgrade.spec]
    /\ fresh' = ("DBUpgrade" \in Lagging => crFresh)
    /\ Validate(SeenDBUpgrade.spec)
    /\ UNCHANGED <<crVars, jobVars, secretVars, target, timer, history, spent>>

FetchNotFound ==
    /\ pc = "idle" /\ queued /\ ~SeenDBUpgrade.live
    /\ queued' = FALSE
    /\ UNCHANGED <<crVars, jobVars, secretVars, reconciler, timer, history,
                   spent>>

\* ensureMigrationSecret.  AWS tokens are always rewritten, a customer's URL when
\* it changed; Create fails if the cache missed the Secret, Update if it is stale.
ConnectionURL ==
    IF DatabaseOf[obj.spec] = "selfHosted" THEN SeenSecrets.customer ELSE Token

NeedsWrite ==
    \/ SeenSecrets.oper = NoSecret
    \/ DatabaseOf[obj.spec] # "selfHosted"
    \/ SeenSecrets.oper.url # ConnectionURL

SecretWriteAccepted ==
    IF SeenSecrets.oper = NoSecret
    THEN secrets.oper = NoSecret
    ELSE secrets.oper # NoSecret /\ ("Secret" \in Lagging => operFresh)

SecretWritten ==
    IF SeenSecrets.oper = NoSecret THEN [owner |-> obj.uid, url |-> ConnectionURL]
                                   ELSE [secrets.oper EXCEPT !.url = ConnectionURL]

SecretUpToDate ==
    /\ pc = "secret" /\ ConnectionURL # NoUrl
    /\ ~NeedsWrite
    /\ Goto("job")
    /\ UNCHANGED <<crVars, jobVars, secretVars, fresh, queue, history, spent>>

WriteSecret ==
    /\ pc = "secret" /\ ConnectionURL # NoUrl
    /\ NeedsWrite /\ SecretWriteAccepted
    /\ secrets' = [secrets EXCEPT !.oper = SecretWritten]
    /\ operFresh' = FALSE
    /\ \/ Goto("job") /\ UNCHANGED spent
       \/ Return(Blocked("SecretNotFound")) /\ Disturbance
    /\ UNCHANGED <<crVars, jobVars, secretCache, fresh, queue, history>>

\* Every error of ensureMigrationSecret reports SecretNotFound, Progressing=False: the
\* customer's Secret is gone, the write is refused, a read, a write or STS fails.
SecretError ==
    /\ pc = "secret"
    /\ \/ ConnectionURL = NoUrl /\ UNCHANGED spent
       \/ NeedsWrite /\ ~SecretWriteAccepted /\ UNCHANGED spent
       \/ Disturbance
    /\ Return(Blocked("SecretNotFound"))
    /\ UNCHANGED <<crVars, jobVars, secretVars, fresh, queue, history>>

\* getJobForDBUpgrade takes the first listed Job owned by the object; the list
\* has no order.
\* Mutated form of OwnedJobs: owner references are not compared.
ListedJobs == {n \in JobNames : SeenJobs[n].phase # "absent"}
OwnedJobs == {n \in JobNames : SeenJobs[n].phase # "absent"
                                  /\ SeenJobs[n].owner = obj.uid}
ExpectedJobName == computeSpecHash[obj.spec]

\* Mutated forms of StaleJobs: the names are not compared; every Job is old.
NoStaleJobs == {}
AllStaleJobs == OwnedJobs
StaleJobs == OwnedJobs \ {ExpectedJobName}

\* Mutated forms of NoJobExists: Jobs of earlier specs are left alone; Jobs that
\* completed no longer count.
NoJobForSpec == ExpectedJobName \notin OwnedJobs
NoJobUnfinished == \A n \in OwnedJobs : SeenJobs[n].phase = "complete"
NoJobExists == OwnedJobs = {}

ListJobsFails ==
    /\ pc = "job" /\ Disturbance
    /\ Return(Blocked("Initializing"))
    /\ UNCHANGED <<crVars, jobVars, secretVars, fresh, queue, history>>

WaitForOldJob ==
    /\ pc = "job"
    /\ \E n \in StaleJobs : isJobRunning(SeenJobs[n])
    /\ Return(Waiting("MigrationInProgress"))
    /\ UNCHANGED <<crVars, jobVars, secretVars, fresh, queue, history, spent>>

ReplaceOldJob ==
    /\ pc = "job"
    /\ \E n \in StaleJobs :
          /\ ~isJobRunning(SeenJobs[n])
          /\ target' = n
    /\ pc' = "delete"
    /\ UNCHANGED <<crVars, jobVars, secretVars, obj, result, fresh, queue, history,
                   spent>>

\* syncJobStatus; the post-migration metrics may ask to wait or fail.
SyncJobStatus ==
    /\ pc = "job"
    /\ \E phase \in {SeenJobs[n].phase : n \in OwnedJobs \ StaleJobs} :
          \/ phase = "complete" /\ Return(Succeeded) /\ UNCHANGED spent
          \/ /\ phase = "complete" /\ obj.spec \in PostChecked /\ Disturbance
             /\ \/ Return(Waiting("PostCheckBakeTimeWaiting"))
                \/ Return(Blocked("PostCheckFailed"))
          \/ phase = "failed" /\ Return(Stopped("JobFailed")) /\ UNCHANGED spent
          \/ /\ phase \in {"starting", "running"}
             /\ Return(Waiting("MigrationInProgress")) /\ UNCHANGED spent
          \/ phase = "pending" /\ Return(Waiting("JobPending")) /\ UNCHANGED spent
    /\ UNCHANGED <<crVars, jobVars, secretVars, fresh, queue, history>>

NoJobFound ==
    /\ pc = "job" /\ NoJobExists
    /\ Goto("create")
    /\ UNCHANGED <<crVars, jobVars, secretVars, fresh, queue, history, spent>>

PreCheckFails ==
    /\ pc = "job" /\ NoJobExists /\ obj.spec \in PreChecked
    /\ Disturbance
    /\ Return(Blocked("PreCheckFailed"))
    /\ UNCHANGED <<crVars, jobVars, secretVars, fresh, queue, history>>

\* Deleting a Job that is gone already is a success; both outcomes, and an error,
\* report the same and come back.
DeleteJob ==
    /\ pc = "delete"
    /\ \/ DropJob(target) /\ UNCHANGED spent
       \/ Disturbance /\ UNCHANGED <<jobs, lingering>>
    /\ Return(Blocked("Initializing"))
    /\ UNCHANGED <<crVars, jobCache, secretVars, fresh, queue, history>>

\* Another Job of the object, or one that may still migrate, or a pod whose Job is gone.
Underway == {n \in JobNames : jobs[n].phase \in {"pending", "starting", "running"}}
Beside == \/ \E n \in JobNames : jobs[n].phase # "absent" /\ jobs[n].owner = obj.uid
          \/ Underway # {} \/ lingering # {}

CreateJob ==
    /\ pc = "create" /\ jobs[ExpectedJobName].phase = "absent"
    /\ jobs' = [jobs EXCEPT ![ExpectedJobName] =
                    [phase |-> "pending", owner |-> obj.uid, spec |-> obj.spec]]
    /\ launched' = launched \cup {<<obj.uid, obj.gen>>}
    /\ overlapped' = (overlapped \/ Beside)
    /\ \/ Return(Waiting("JobPending")) /\ UNCHANGED spent
       \/ Return(Blocked("JobFailed")) /\ Disturbance
    /\ UNCHANGED <<crVars, jobCache, lingering, secretVars, fresh, queue, succeeded,
                   database>>

\* Mutated form of JobAlreadyExists: AlreadyExists is an error like any other.
JobExistsFails ==
    /\ pc = "create" /\ jobs[ExpectedJobName].phase # "absent"
    /\ Return(Blocked("JobFailed"))
    /\ UNCHANGED <<crVars, jobVars, secretVars, fresh, queue, history, spent>>
JobAlreadyExists ==
    /\ pc = "create" /\ jobs[ExpectedJobName].phase # "absent"
    /\ Return(Waiting("JobPending"))
    /\ UNCHANGED <<crVars, jobVars, secretVars, fresh, queue, history, spent>>

CreateJobFails ==
    /\ pc = "create" /\ Disturbance
    /\ Return(Blocked("JobFailed"))
    /\ UNCHANGED <<crVars, jobVars, secretVars, fresh, queue, history>>

\* updateStatus; a write that changes nothing leaves the resourceVersion alone.
StatusAccepted == fresh

StatusWritten ==
    [cr EXCEPT !.ready = result.ready, !.progressing = result.progressing,
               !.reason = result.reason, !.observed = obj.gen]

UpdateStatus ==
    /\ pc = "status" /\ StatusAccepted
    /\ IF StatusWritten = cr THEN UNCHANGED crVars ELSE WriteDBUpgrade(StatusWritten)
    /\ \/ timer' = (timer \/ result.requeue) /\ UNCHANGED <<queued, spent>>
       \/ queued' = TRUE /\ UNCHANGED timer /\ Disturbance
    /\ Done
    /\ UNCHANGED <<jobVars, secretVars, history>>

\* A conflict, a missing object or a failed call: the key comes back, the result
\* (its event and its requeue) is dropped.
\* Mutated form of UpdateStatusFails: the error is logged and swallowed.
UpdateStatusIgnored ==
    /\ pc = "status"
    /\ (~StatusAccepted /\ UNCHANGED spent) \/ (StatusAccepted /\ Disturbance)
    /\ UNCHANGED queued
    /\ Done
    /\ UNCHANGED <<crVars, jobVars, secretVars, timer, history>>
UpdateStatusFails ==
    /\ pc = "status"
    /\ (~StatusAccepted /\ UNCHANGED spent) \/ (StatusAccepted /\ Disturbance)
    /\ queued' = TRUE
    /\ Done
    /\ UNCHANGED <<crVars, jobVars, secretVars, timer, history>>

----------------------------------------------------------------------------
Reconcile ==
    \/ Fetch \/ FetchNotFound
    \/ SecretUpToDate \/ WriteSecret \/ SecretError
    \/ ListJobsFails \/ WaitForOldJob \/ ReplaceOldJob \/ SyncJobStatus
    \/ NoJobFound \/ PreCheckFails
    \/ DeleteJob \/ CreateJob \/ JobAlreadyExists \/ CreateJobFails
    \/ UpdateStatus \/ UpdateStatusFails

User ==
    \/ \E s \in Specs : CreateDBUpgrade(s) \/ UpdateSpec(s)
    \/ DeleteDBUpgrade \/ RotateSecret \/ RemoveSecret

Cluster ==
    \/ \E n \in JobNames : JobAdvances(n) \/ CollectJob(n)
    \/ LingeringPodAdvances \/ CollectSecret
    \/ SyncDBUpgrade \/ SyncJobs \/ SyncSecrets
    \/ TimerFires \/ Resync \/ Crash

Next == Reconcile \/ User \/ Cluster

Spec == Init /\ [][Next]_vars

\* The manager keeps working its queue, informers deliver, delays end, the Job
\* controller, the kubelet and activeDeadlineSeconds finish every Job, and the
\* garbage collector gets to everything.  Users owe nothing.
Fairness ==
    /\ WF_vars(Reconcile)
    /\ WF_vars(SyncDBUpgrade) /\ WF_vars(SyncJobs) /\ WF_vars(SyncSecrets)
    /\ WF_vars(TimerFires)
    /\ \A n \in JobNames : WF_vars(JobAdvances(n)) /\ WF_vars(CollectJob(n))
    /\ WF_vars(CollectSecret)

FairSpec == Spec /\ Fairness

----------------------------------------------------------------------------
(* Safety *)

\* Ready=True for the current generation is never claimed of a spec whose Job
\* did not complete, whatever the caches, conflicts and crashes.
ReadyIsEarned ==
    cr.live /\ cr.ready /\ cr.observed = cr.gen => <<cr.uid, cr.spec>> \in succeeded

\* "Ready=True means the database schema matches the desired state": the last
\* migration that completed is the one of the current spec.
ReadyMatchesDatabase ==
    cr.live /\ cr.ready /\ cr.observed = cr.gen => database = <<cr.uid, cr.spec>>

\* The only way to be wrong about the database is to have created a Job beside another
\* one: unseen in an old list, or deleted with its pod still there.
ReadyUnlessOverlap == overlapped \/ ReadyMatchesDatabase

\* The controller never has two Jobs of one object, hence never two migrations.
OneJobAtATime ==
    \A n, m \in JobNames :
        /\ jobs[n].phase # "absent" /\ jobs[m].phase # "absent"
        /\ jobs[n].owner = jobs[m].owner
        => n = m

\* No wakeup is lost: once nothing is queued, delayed, in flight or undelivered,
\* the status is about the current generation and says how its Job ended.
Quiet == /\ pc = "idle" /\ ~queued /\ ~timer
         /\ crFresh /\ jobCache = jobs

Final == \/ cr.ready /\ cr.reason = "MigrationComplete"
            /\ jobs[computeSpecHash[cr.spec]].phase = "complete"
         \/ cr.reason = "JobFailed"
            /\ jobs[computeSpecHash[cr.spec]].phase = "failed"
         \/ cr.reason = "AWSNotSupported" /\ DatabaseOf[cr.spec] = "awsNoConfig"

QuietIsSettled ==
    Quiet /\ cr.live => cr.observed = cr.gen /\ ~cr.progressing /\ Final

\* One generation of an object that still exists starts its migration once.
Launches(n) == jobs[n].phase = "absent" /\ jobs'[n].phase # "absent"

NoSecondLaunch ==
    [][\A n \in JobNames :
          Launches(n) /\ ~Orphaned(jobs'[n].owner) => launched' # launched]_vars

\* Within a generation, a migration reported complete is not reported undone; only a
\* missing Secret, a post-migration check or a failed List, which leaves the completed
\* Job in place, may take Ready away.
SameGeneration == cr.live /\ cr'.live /\ cr'.uid = cr.uid /\ cr'.gen = cr.gen

DoneStaysDone ==
    [][SameGeneration /\ cr.ready /\ cr.observed = cr.gen =>
          \/ cr'.ready
          \/ cr'.reason = "SecretNotFound"
          \/ /\ cr'.reason = "Initializing"
             /\ jobs[computeSpecHash[cr.spec]].phase = "complete"
          \/ /\ cr.spec \in PostChecked
             /\ cr'.reason \in {"PostCheckFailed", "PostCheckBakeTimeWaiting"}]_vars

----------------------------------------------------------------------------
(* The inductive invariant behind ReadyIsEarned and OneJobAtATime *)

\* Equal resource versions mean equal objects: the cached copy and the server's,
\* the reconciler's copy and the server's.
VersionsHonest ==
    /\ crFresh => crCache = cr
    /\ fresh => /\ cr.live
                /\ obj.uid = cr.uid /\ obj.gen = cr.gen /\ obj.spec = cr.spec

SpecsKnown ==
    /\ cr.live => cr.spec \in Specs
    /\ crCache.live => crCache.spec \in Specs
    /\ pc # "idle" => obj.spec \in Specs

\* A Job's name is the hash of the spec it runs, and its Complete condition true.
JobsHonest(js) ==
    \A n \in JobNames :
        /\ js[n].phase # "absent" => /\ js[n].spec \in Specs
                                     /\ computeSpecHash[js[n].spec] = n
        /\ js[n].phase = "complete" => <<js[n].owner, js[n].spec>> \in succeeded

ResultEarned ==
    result.ready => pc = "status" /\ <<obj.uid, obj.spec>> \in succeeded

\* Between List and Create nobody else gives the object a Job.
CreatesFirstJob ==
    pc = "create" =>
        \A n \in JobNames : jobs[n].phase # "absent" => jobs[n].owner # obj.uid

Inv ==
    /\ TypeOK
    /\ VersionsHonest
    /\ SpecsKnown
    /\ cr.observed <= cr.gen
    /\ JobsHonest(jobs) /\ JobsHonest(jobCache)
    /\ ResultEarned
    /\ ReadyIsEarned

----------------------------------------------------------------------------
(* What the documentation says and the code does not guarantee *)

\* README: "A ValidatingWebhook rejects spec modifications while a migration is
\* running".
SpecFixedWhileRunning ==
    [][\A n \in JobNames :
          /\ cr.live /\ cr'.live /\ cr'.uid = cr.uid /\ cr'.gen # cr.gen
          => ~(isJobRunning(jobs[n]) /\ jobs[n].owner = cr.uid)]_vars

\* "Cannot apply new spec while migration is running": an object's migrations take
\* turns.
MigrationsTakeTurns ==
    LET running == {n \in JobNames : jobs[n].phase = "running"}
        left == {job \in lingering : job.phase = "running"}
    IN  Cardinality(running) + Cardinality(left) <= 1

----------------------------------------------------------------------------
(* Liveness *)

Settled ==
    /\ cr.observed = cr.gen /\ ~cr.progressing
    /\ Final \/ (cr.reason = "SecretNotFound" /\ secrets.customer = NoUrl)

\* Once users stop, the object settles for good.
Settles == <>[](cr.live => Settled)

\* The webhook's lock on the spec is always released again.
LockReleased == []<>(~cr.progressing)

============================================================================

# A TLA+ model of the DBUpgrade operator

The operator runs a database migration for every `DBUpgrade` object: it copies
the customer's connection URL (or an RDS token) into a Secret of its own,
creates a Job that applies the migrations of an image, watches the Job, waits a
bake time, evaluates metrics, and says in the object's conditions how it went.
A validating webhook decides which objects and which changes are let in.

This directory holds TLA+ modules translated from that code, the TLC
configurations that check them on small instances, and proofs, which the TLA+
proof system checks, that the safety properties they check hold in every instance.
Paths below are relative to the repository; `PROJECT.json` maps every
definition to its lines, and lists every run, property, hazard and theorem.

## 1. The system

| Component | State | Operations | Modelled in |
|---|---|---|---|
| Reconcile loop, `controllers/dbupgrade_controller.go` | none of its own between reconciles: everything is in the API server; within one, the fetched object, the Jobs it found, its `reconcileResult` | `Reconcile`, `reconcileDBUpgrade`, `validateSecret`, `ensureMigrationSecret`, `getJobForDBUpgrade`, `createMigrationJob`, `syncJobStatus`, `updateStatus` | `DBUpgradeController` |
| Job controller, kubelet, garbage collector (Kubernetes) | Jobs, pods, owner references | a pod starts, its container starts once its Secret exists, it succeeds or fails; it may outlive its deleted Job; orphans are collected | `DBUpgradeController` (external part) |
| Informers and workqueue (controller-runtime) | lagging copies of DBUpgrades, Jobs and Secrets; a key; delayed adds | deliver, enqueue, requeue after a delay or an error, resync, restart | `DBUpgradeController` (external part) |
| Validating webhook, `api/v1alpha1/dbupgrade_webhook.go` | the stored object | `ValidateCreate`, `ValidateUpdate`, `ValidateDelete` | `AdmissionWebhook` |
| Metric checks, `internal/checks/metrics.go` | none | `CheckMetrics` and what it calls | `MetricCheck`, `MetricGate` |
| Pod version checks, `internal/checks/version.go` | none; reads the pods in a cache | `CheckMinPodVersions`, `checkSinglePodVersion`, `extractVersionFromImage` | `VersionCheck` |
| Bake time and post-migration checks, `runPostChecks` | `status.jobCompletedAt`, the delayed add | evaluation of a completed Job against the clock | `BakeTime` |
| API types, `api/v1alpha1` | fields and conditions | | as far as the above test them |
| RDS token client, `internal/aws` | the base configuration, loaded once | `Initialize`, `GenerateRDSAuthToken` | `TokenLifetime` |
| Manager start-up, `main.go` | flags | leader election or not, webhook or not | `TwoManagers`, `Crash` and `WebhookEnabled` of `DBUpgradeController` |
| Operator metric; generated code; manifests | | | no (section 7) |

How they interact:

- Users create, change and delete objects through the webhook. It locks the spec
  while the stored object has `Progressing=True`, a condition the *controller*
  writes, at the end of a reconcile: lock and locked action are in different
  processes and far apart in time.
- The controller reads through informers and writes to the API server. The
  informer of each kind lags independently. Writes of status and of the Secret
  are guarded by the resourceVersion that was read; creates by the name; deletes
  by nothing.
- Events of DBUpgrades and of the Jobs they own enqueue the key; so do the
  requeues a reconcile asks for and the errors it returns. Secrets, pods and
  metrics are not watched: whatever depends on them has to be polled.
- A Job gets its URL from the operator's Secret by reference, when its
  container starts. That is later than the Job's creation and maybe after the
  Secret changed.
- The RDS token in that Secret is good for 15 minutes. Reconciles renew it, the
  container reads it once; between the two lie a scheduler, image pulls, an init
  container and, if the Job's deadline is long, any amount of time.
- Without `--leader-elect` two managers may run. They share nothing but the API
  server: each has informers, a queue and a worker.
- Job names are derived from the object's name and a hash of its spec: a spec
  has one name, and an object of the same name created later has the same names.

What is hard here, and what makes each component correct:

- **Reconcile loop.** Stale reads of three kinds, crash or failure between any
  two calls, a call that took effect and was answered with an error, the spec
  or the whole object changing during a reconcile, wakeups that never come. It is
  correct if success is claimed only of this object's and this spec's Job and
  only while the database holds that migration, if a migration is not started twice
  nor beside another one, if every object settles, and if its lock is always
  released. The code does not reach all of it: it may delete a Job whose pod has
  just started, and start a migration beside another (section 5). What it does
  keep then is stated too (`ReadyUnlessOverlap`, `KeepsPromise`).
- **Two managers.** The same, as far as the API server arbitrates: one migration
  per generation, no failure invented by losing a race, no wakeup lost.
- **Tokens.** No container starts with one that has expired.
- **Webhook.** A long sequence of legal updates must not move the object to
  another database or leave it without one.
- **Metric checks.** Lists, defaults, an early exit, errors of one of many, and
  floating point at the boundary: the gate opens when the documented condition
  holds of every check and only then, except as close to the threshold as rounding
  comes.
- **Version checks.** Pods are listed check by check in a lagging cache while
  rollouts go on: the Job must nevertheless start above every minimum.
- **Bake time.** Truncated timestamps, two clocks either of which may be ahead, Jobs
  without a completion time, delayed adds lost in restarts, one migration's timestamp
  read in the next: Ready comes neither earlier nor later than these explain.

Each of these is listed at its line under `hazards`, with the properties that
would catch it going wrong.

## 2. Modules

The most important behaviour comes first.

1. `DBUpgradeController`: the reconcile loop with its whole environment.
   `DBUpgradeController_proofs` proves its inductive invariant,
   `ControllerSafety_proofs` what is built on it.
2. `UpgradePromise`, what the operator promises the user of one object, deleted and
   created again at will, without Jobs, caches, conflicts or crashes, and
   `ControllerRefinement`, the mapping under which the controller implements it, which
   `ControllerRefinement_proofs` proves. `MCController` instantiates both.
3. `TwoManagers`: two instances of the reconcile, the queue and the informers
   over one API server (`MCTwoManagers`; `TwoManagers_proofs` proves it).
4. `TokenLifetime`: the age of the RDS token from its generation to the container
   that reads it (`MCTokenLifetime`; `TokenLifetime_proofs` proves it).
5. `AdmissionWebhook`: which objects and changes are let in; `MetricCheck`; and
   `MetricGate`, which composes the two: it evaluates only lists that some legal
   sequence of writes has stored (`MCGate`; `MetricGate_proofs` proves all three,
   loops and arithmetic included).
6. `VersionCheck`: the pre-migration gate over rollouts (`MCVersion`;
   `VersionCheck_proofs`).
7. `BakeTime`: the post-migration wait, in real time (`MCBakeTime`; `BakeTime_proofs`).

`DBUpgradeController` contains the two rules of the webhook its properties
depend on (`AdmitsUpdate`: not while Progressing, not to another type) and the
outcomes of the checks as choices that may go wrong a bounded number of times;
`AdmissionWebhook`, `MetricGate`, `VersionCheck` and `BakeTime` look into these.
Its token has a value and no age; `TokenLifetime` gives it one and keeps of the
reconcile only what renews it.

## 3. How the modules correspond to the code

### DBUpgradeController

One object name, any number of incarnations (`uid`) and generations (`gen`).

- `cr`, `jobs`, `secrets` are the API server; `crCache`, `jobCache`,
  `secretCache` the informers. `Lagging` says which kinds are read from the
  cache as it is; the others are read as if the cache were always current, which
  is how one source of trouble is told from another.
- resourceVersions are two Booleans, because only equality is ever tested:
  `crFresh`, the cached copy has the server's version, and `fresh`, the copy the
  reconciler holds does. Every write that changes the object clears both.
- A Job's `phase` is what its status and its pod come to: `pending` (no pod
  yet), `starting` (a pod, counted in `status.active`), `running` (the container
  runs), `complete`, `failed`. `isJobRunning` is `status.active > 0`.
- `pc` is the next call of the reconcile. Actions:

| Action | Code |
|---|---|
| `Fetch`, `FetchNotFound`, `Validate` | `Get` of the object, `validateSecret`, the test of `database.aws` |
| `SecretUpToDate`, `WriteSecret`, `SecretError` | `ensureMigrationSecret` |
| `ListJobsFails`, `WaitForOldJob`, `ReplaceOldJob`, `SyncJobStatus`, `NoJobFound`, `PreCheckFails` | `getJobForDBUpgrade` and the branches after it |
| `DeleteJob` | `Delete` of the old Job |
| `CreateJob`, `JobAlreadyExists`, `CreateJobFails` | `createMigrationJob` |
| `UpdateStatus`, `UpdateStatusFails` | `updateStatus`, the return of `Reconcile` |

  Reads of the cache that follow each other without a write between them are one
  action; each write is an action of its own, and each may fail outright or
  take effect and be answered with an error.
- The environment: users (`CreateDBUpgrade`, `UpdateSpec`, `DeleteDBUpgrade`,
  `RotateSecret`, `RemoveSecret`), Kubernetes (`StartPod`, `StartContainer`,
  `JobSucceeds`, `JobFails`, `CollectJob`, `CollectSecret`, `LingeringPodAdvances`),
  informers and queue (`SyncDBUpgrade`, `SyncJobs`, `SyncSecrets`, `TimerFires`,
  `Resync`), and `Crash`, at any point.
- `Crash` is also a change of leader. The successor is a new process, whose
  informers start with a list of everything (`Relisted`), or a standby that has
  waited for the lease with informers that lag as the dead leader's did.
- With `Lingers`, a Job that is deleted after its pod was created leaves the pod
  behind (`lingering`): deletion is in the background. Such a pod is killed sooner or
  later; until then its init container may end, its container start, and its
  migration get to the end.
- `succeeded`, `database`, `launched`, `overlapped` and `asked` are history: whose Job
  completed, which migration completed last, for which generations a Job was created,
  whether one was ever created while this object had another or while any Job
  or pod was at work (`Beside`), what users asked for.

What is left out: events and log lines, because nothing reads them; the body of
Jobs and Secrets beyond the spec and the URL; the durations of delays.

### UpgradePromise and ControllerRefinement

The user of one object wants a spec (`wanted`), in some generation of some incarnation
of it, or nothing; migrations may be running (`running`, a set), the operator has
records of some (`records`), some are known to be `completed`, a database holds what
was migrated to last, and the user has been told that all is `done` or not. Every
migration is of something the user asked for. While its incarnation is wanted, it
is started at most once for each generation. `Tell` says done only of something
completed and, as long as no migration was ever started beside another one
(`overlapped`), only when nothing runs and the database holds what is wanted. After
that at most the same migration starts again.

`InTurn` makes the promise strict: no migration starts beside another, and none
after `done`. The mapping sets it (`Turns`) where the list of Jobs is current, pods go
with their Job and there is one incarnation, as in `stale_objects`; `stale_caches` and
the theorem `PromiseKept` cover the rest. In the controller, `wanted` is the live
object's incarnation, generation and spec, `running` the owner and spec of each Job
that is pending, starting or running and of each lingering pod, `records` those of
the Jobs there are, `started` is `launched`, `completed` is `succeeded`, and `done`
is `Ready=True` for the current generation. A reconcile of some thirty calls maps to
`Start`, `Abort` (a Job deleted), `Tell` or `Retract`, the Job controller to `Finish` or
`Abort`, every other step to a stutter. A running migration may be aborted: the
controller does not promise to leave it alone (section 5).

### TwoManagers

The variables of `DBUpgradeController` are the first manager's and the API
server's; the second manager is an instance of the same module in which the
caches, the queue and the reconciler are its own. A step of one manager, of a user
or of the cluster leaves the other's state alone, except that its copies of what
was written are no longer current (`FirstLooksOn`, `SecondLooksOn`).

### TokenLifetime

Ages instead of times, and a tick of one minute. The manager generates a token
(`GenerateRDSAuthToken`), writes it (`WriteSecret`) and then acts on the Job; each
of these may fail, the manager may die, events may bring the key back early. The
container reads the Secret when it starts, up to the Job's deadline. Assumed of
the environment, in `Tick`: a reconcile ends within `MaxCall` ticks of its token, a
due key is taken at once, a deadline is enforced, and, while a Job with a deadline
beyond the token's life is pending, renewals are not missed for longer than
`MaxOutage`. A retry after an error comes no later than `Requeue`; the workqueue's
own backoff, which may reach a quarter of an hour after many failures in a row,
counts as an outage.

### The others

`AdmissionWebhook` has one operator for each `validate...` function and one
action for each kind of request. A field is `""` or a value; a pointer is
`None` or a record. `MetricCheck` computes in floating point as the code does. A
float is an integer number of units; `Float` rounds to the nearest one with `Spacing`
doubling from `Significand` on, ties to even; with 2^53 for `Significand` and 2^1074
for `Unit` these are the values of float64 except the infinite ones. `ReadValue` is
`float64(MilliValue())/1000.0`, `MilliValue` rounds to thousandths away from zero,
`AsApproximateFloat64` converts digits and a power of ten separately, `Plus` rounds
each addition. A label selector is a Boolean, whether it parses, and `Answerable`
has the errors for one that does not. `VersionCheck` abstracts an image tag to its
shape, which decides what `extractVersionFromImage` and the semver parser make
of it, and a number. `BakeTime` counts time in ticks, several to a second, so
that the truncation in `metav1.Time` and in `int32(elapsed.Seconds())` is
visible; a migration runs in one step. The operator's clock is `skew` ticks ahead of the
cluster's, or behind if that is negative, so that `time.Since` may be negative as
well. A Job completes with or without a `completionTime`, and `JobCompletedAt` has the
code's three branches: the Job's time, the persisted one, the present.

## 4. Runs

| Run | Question | Bounds | States |
|---|---|---|---|
| `stale_objects` | the copies of the object and of Secrets are old, a call may fail or the manager die, there is no webhook: is the promise kept? | an AWS spec with checks and a self-hosted one, 2 generations, 1 disturbance, a current list of Jobs, no lingering pods | 2.6 million |
| `stale_caches` | what holds if the cache of Jobs lags too and pods outlive their Job, as in a cluster? | 2 specs, 3 generations: change and change back; symmetry | 2.2 million |
| `two_managers` | what of it needs leader election? | 2 managers, 1 generation, caches of the object and of Jobs lag | 550 thousand |
| `update_settles` | does the last spec win, is the lock released? | 2 AWS specs, 2 generations, lags of the object and of Jobs, lingering pods | 210 thousand |
| `recreate_settles` | delete and create again, leftovers of the first incarnation, or one crash or failed call; a spec without `database.aws` | 2 incarnations, 1 disturbance, all lags | 280 thousand |
| `token` | does a container ever start with an expired token? | validity 15, deadlines 10 and 20, requeue 2, outages up to 9 minutes | 620 thousand |
| `gate` | creates, updates, deletes in any order, and metric checks as they are stored and answered | one field changed at a time, each to another value and to empty; two checks of every shape or one of every reduction and operator; up to 2 values, of either sign, around thresholds of either sign; 512 floats to the first spacing, 8192 units to 1 | 34 thousand |
| `rollout` | versions checked one by one during rollouts | 2 apps, 3 pods, 3 versions, 4 kinds of tags | 430 thousand |
| `bake` | the wait, over restarts, resyncs, flapping metrics and delays | 2 ticks a second, 2 seconds, a skew of 2 ticks either way, 2 migrations, 11 ticks | 3.1 million |
| `spec_changes_running`, `ready_mismatch`, `migrations_overlap` | statements of the documentation that the code does not keep (section 5) | as small as shows it | |

What the passing runs show, beyond types:

- `KeepsPromise`: the controller implements `UpgradePromise`. In `stale_caches` all
  copies lag and pods linger; in `stale_objects` the list of Jobs is current and pods
  go with their Job, and the promise is the strict one, in which migrations take turns,
  whatever else is stale, fails or crashes.
- `ReadyUnlessOverlap`: all lags, lingering pods and leftovers of an earlier
  incarnation included, `Ready=True` is wrong about what the database got last only if
  some Job was created beside another one. `ready_mismatch` shows that it then may be.
- `ReadyIsEarned`: `Ready=True` for the current generation implies that a Job of
  this incarnation with this spec completed, under all lags. The status write is
  refused unless the fetched copy is current, and the Job a stale cache shows
  complete did complete.
- `ReadyMatchesDatabase`, `OneJobAtATime`, `DoneStaysDone`: with a current list of Jobs
  and no lingering pods, also that no other migration ran since, that an object never
  has two Jobs, and that a generation's success is not taken back for the want of its
  Job, only by a missing Secret, a post-migration check or a List of Jobs that failed.
- `NoSecondLaunch`: a generation of a living object starts one migration, even
  with a stale list of Jobs and even with two managers: the name stops the second
  one.
- `FailureIsReal`: as long as no call fails, `JobFailed` means that the Job did,
  although another manager, or the same one with an old list, may have created it
  first.
- `QuietIsSettled`, and `BothQuietIsSettled` for two managers: whenever nothing is
  queued, delayed or undelivered, the status is about the current generation and
  final. This is what a missing requeue would break.
- `Settles` and `LockReleased`: the same as liveness, under fairness.
- `ConnectsWithLiveToken`: a Job with the default deadline of 10 minutes is over
  before the token it was created with expires, and needs no further renewal. A
  longer deadline is safe as long as renewals do not fail for longer than what
  is left of the 15 minutes after one requeue and two reconciles. The comment on
  `activeDeadlineSeconds` (`dbupgrade_types.go:326`) speaks of connections that
  are open; this is about opening them.
- `StoredSaysWhere`, `DatabasePinned`: rules stated field by field compose to an
  identity that no sequence of updates changes.
- `VerdictIsRight`: the verdict, computed in floating point through defaults, loops and
  an early exit, is that of a definition by quantifiers in exact arithmetic (some value
  is above, all values are above, the total is) wherever the definition gives the same
  answer for thresholds that are `Rounding(values)` harder and easier to meet. Between
  the two it may be either, and section 5 has an example.
- `ErrorsExplained`: only the API, a target that nobody serves or a label selector
  that does not parse makes the evaluation of a stored list fail.
- `JobStartsAboveMinimum`, `JobWaitsForPods`: in spite of the lag. The latter speaks of
  apps that have been rolled out once; that an app was scaled back to zero between
  check and Create is not noticed, by the code or by the property.
- `BakeIsKept`: no Ready before the bake time is over, but for the second a timestamp
  drops and for a clock that is ahead. `BakeIsNotProlonged`: nor later than a second,
  a retry and the time the clock is behind. `CompletionIsOwn`: what is measured from is
  the Job's own completion, or a time between it and the present that no restart
  moves. The first and the last except a later Job without a `completionTime`, which
  section 5 describes.

Every property has a mutant: a plausible mistake in one of the definitions
(`NoStaleJobs`, `BlockedForever`, `SameAWSExceptPort`, ...) kept in the module
beside the definition it distorts, under which TLC finds the property violated.
Mutants are not part of any specification.

Why the bounds are enough. Two specs show every relation of a Job to the
wanted spec (its own, another); a third generation lets a spec come back, which is
where names that stand for specs could confuse; a third spec adds nothing that two
do not have in another order. Two incarnations show every relation of a leftover
to its object. A disturbance is a crash, a failed or half-failed call, a resync,
a removed Secret, a failed check or a deletion; one of them at every point of
every behaviour covers each fault alone, and two at once are not covered by TLC
(the proofs have no such bound). Two managers run without disturbances and for one
generation: that covers every interleaving of two reconciles of one spec, and the
proofs add disturbances and incarnations, and generations where section 5 leaves
room for them. `MaxTime` in `BakeTime` leaves room for two
migrations with their whole wait, the skew and a restart. The floats of the `gate` run
are coarse, so that rounding shows: a value of 300m reads as 2456 units and the
threshold 0.3 as 2464, and sums of two values cross a spacing; the theorem `Right` is
about any precision. `stale_caches` has two self-hosted specs without checks, which
nothing tells apart, and identifies states that differ by exchanging them and their
Job names (`MCSwap`); it checks no liveness.

Deadlock checking is off where the system may rightly stop: users need not do
anything, and the bounded ones run out.

### Fairness

`FairSpec` assumes weak fairness of the reconcile as a whole, of each informer,
of the delayed adds, of each Job's progress and of the collection of each
orphan. The code and its platform justify each: controller-runtime's worker
takes every queued key and each call returns (client timeouts); watches deliver,
and are listed again when they break; delays end; `activeDeadlineSeconds` and
`backoffLimit: 0` in the Job's spec end every Job one way or the other; the
garbage collector retries. `JobAdvances` of a Job includes failing, so that a pod
whose container never gets its Secret ends by its deadline. Nothing is assumed
of users, and disturbances are finitely many: a check that fails forever, or an
API server that never answers, refutes no promise.

## 5. Where code and documentation part

Shown by a run, as a `finding`:

- *A spec changes while its migration runs* (`spec_changes_running`). The lock
  is written after the Job is created. Between the two, or if the write conflicts
  or the manager dies, the webhook admits a new spec beside the running Job.
- *Ready for a migration that is not the last* (`ready_mismatch`). In the same
  window, a stale cache of Jobs does not show the Job just created for the old
  spec; the Job of the new one is created beside it. If the new one completes
  first, the object is Ready for it while the old spec's migration is what the
  database got last.
- *Migrations overlap* (`migrations_overlap`). Nothing is stale and nothing fails:
  a Job is read as pending, its pod starts, the Delete has no precondition and
  removes the Job in the background, the next reconcile finds none and creates the
  new one, and both pods migrate.

Seen while reading, without a run of its own:

- `Progressing` is cleared while the Job runs: when the operator's Secret is not
  in the cache yet, or stale, `ensureMigrationSecret` fails with AlreadyExists or
  a conflict and the result is `SecretNotFound`, `Progressing=False`
  (`dbupgrade_controller.go:419`; README.md:402 says "Migration in progress" is
  `Progressing=True`). It heals on the next reconcile; until then the spec is
  unlocked.
- `OneJobAtATime` and `DoneStaysDone` are checked without a lag of Jobs. With one, a Job
  may be created beside another (`ready_mismatch`), and a list from before the
  migration was started makes a reconcile report a completed one undone; if the Job
  it wants is gone by then, the same migration starts again. `UpgradePromise` allows that.
- For AWS every reconcile rewrites the Secret, and the event of its own status
  write causes the next one. If that reads the Secret's old copy, its write is
  refused, it reports `SecretNotFound` and takes Ready away, which is an event
  again: with a cache of Secrets that lags without bound this may go on for ever,
  and `Settles` fails for AWS specs (`dbupgrade_controller.go:422`). The call to
  STS between the event and the write makes it unlikely. `update_settles`
  therefore has AWS specs and a current copy of the Secret, `recreate_settles` a
  lagging one and a self-hosted spec, whose Secret is written only when it changes.
- Two managers can undo a report of success: one is Ready, the other fetches the
  fresh object, finds no Job in its older list, gets AlreadyExists and reports
  `JobPending`. `DoneStaysDone` is not claimed of two managers; the next reconcile
  mends it.
- Two managers and two specs. The one that has the new spec deletes the old one's Job
  while the other, which fetched the old spec and found no Job, is about to create
  it, and does: a generation is launched twice. Or the one still acting on the old
  spec deletes the new one's failed Job, which the other then reports from its list.
  `NoSecondLaunch` and `FailureIsReal` are claimed of two managers only while an
  incarnation keeps its first spec (`MaxGen = 1`); with `MaxGen = 2` TLC finds both
  violated.
- The webhook admits an AWS type with a `connection` and no `aws`
  (`dbupgrade_webhook.go:122`), which the controller only ever answers with
  `AWSNotSupported` (`dbupgrade_controller.go:161`). `recreate_settles` has such
  specs, and shows that they come to rest.
- The README's own example (README.md:380, threshold `"0"`) is rejected: a zero
  threshold is taken for a missing one (`dbupgrade_webhook.go:230`).
- Metric values are rounded away from zero to thousandths and divided in float64
  (`metrics.go:180`), the threshold is converted by `AsApproximateFloat64`
  (`metrics.go:123`), although `dbupgrade_types.go:295` asks for one of the two
  "consistently for both metric values and threshold comparisons". A value of 300m fails
  `>= 0.3`, because 0.3 is read as 3 * 0.1, which is 0.30000000000000004; the sum of
  100m and 200m is that number too and passes `> 0.3` when the threshold is written as
  300m. 1.0001 is not `<= 1.0005`. `VerdictIsRight` has `Rounding` and speaks of values
  in whole thousandths for these reasons.
- A label selector that does not parse passes webhook and schema, and fails every
  evaluation (`metrics.go:163-166`, `:215-219`): such an object never becomes Ready.
- A Job that completes without `completionTime` is measured from the persisted
  `jobCompletedAt` (`dbupgrade_controller.go:609`), which is never reset: in a
  later migration that is an earlier one's, and the bake time is skipped. The Job
  controller always writes the time; the tests, which complete Jobs themselves, do
  not.
- A `containerName` that matches no container checks nothing and passes
  (`version.go:168`). `JobStartsAboveMinimum` speaks of the named containers.
- "Block migrations until all pods are running the required version"
  (README.md:199) is a statement about the moment of the check: a rollback, or an
  old pod missing from the cache, between check and Create is not noticed.
  `JobStartsAboveMinimum` holds with forward rollouts only (`ForwardOnly`): no
  container is older than the app's newest, every pod has a container that the check
  names, and nobody moves to a tag without a version, such as `latest`, from one that
  suffices.
- An External target with a Custom source is admitted and never evaluates
  (`Unserved` in `MetricGate`).

## 6. Proofs

Proved for every value of the constants that satisfies the modules' assumptions:
any specs, generations, incarnations and lists, any combination of lags, and any
number of failures, lost answers and crashes.

| Theorem | Property | Hypothesis |
|---|---|---|
| `TypeCorrect` | `TypeOK`, with which goes that no object is both Ready and Progressing | |
| `ReadyIsAlwaysEarned` | `ReadyIsEarned` | |
| `LaunchedOnce` | `NoSecondLaunch` | |
| `QuietSettled` | `QuietIsSettled` | |
| `ReadyMatchesUnlessOverlap` | `ReadyUnlessOverlap` | |
| `PromiseKept` | `KeepsPromise`: every step is one of `UpgradePromise` or a stutter | |
| `EarnedByEither` | `ReadyIsEarned`, with two managers | |
| `BothSettled` | `BothQuietIsSettled` | each lists Jobs from its cache, as the code does |
| `LaunchedByOne` | `NoSecondLaunch`, with two managers | an incarnation keeps its first spec |
| `FailuresAreReal` | `FailureIsReal` | the same |
| `LiveTokens` | `ConnectsWithLiveToken` | |
| `SaysWhere`, `Pinned` | `StoredSaysWhere`, `DatabasePinned` | |
| `ErrorExplained` | `ErrorsExplained` | |
| `Right` | `VerdictIsRight` | |
| `WaitsForPods` | `JobWaitsForPods` | |
| `StartsAboveMinimum` | `JobStartsAboveMinimum` | `ForwardOnly` |
| `BakeTypes`, `OwnCompletion` | `TypeOK` and `CompletionIsOwn` of `BakeTime` | |
| `BakeTimeKept`, `BakeTimeNotProlonged` | `BakeIsKept`, `BakeIsNotProlonged` | |

No theorem about one manager has a hypothesis: caches of Jobs may lag, pods linger and
incarnations leave Jobs behind. What holds only where they do not is checked by
`stale_objects` and is not listed as a theorem: a stale list, a lingering pod or a
leftover Job is what breaks `OneJobAtATime`, `ReadyMatchesDatabase` and `DoneStaysDone`,
and TLC finds each of these when the constant in question is changed. `OneJob` and
`ClaimAlways` are lemmas, for the strict form of the promise (`Turns`). `ready_mismatch`
and `migrations_overlap` show how an overlap comes about; `ReadyMatchesUnlessOverlap`
says that `Ready` is right about the database as long as none did.

Section 5 says what two managers do with two specs, and why versions must go forward:
the hypotheses left are these. In `TwoManagers` a step is an event for the manager
whose step it is; the other one hears of it when its copies are brought up to date,
so `BothSettled` is about managers that have copies of the Jobs.

The assumptions are those the modules declare. `ConstantsAssumption` says what
kind of values the constants are. `HashAssumption` says that different specs have
different Job names; the code cuts SHA-256 to 32 bits, so this is an assumption
about luck, and without it a second spec with the first one's hash would be
called migrated. `SchemaAssumption`, `ValuesAssumption`, `GateAssumption` and
`BakeAssumption` give the inputs the shape that the CRD's schema and the metrics API
give them: thresholds and values, for one, are any integers. `PrecisionAssumption`
asks that a query is answered with at most an eighth as many values as the significand
can count, 2^50 for float64.

### The reconcile loop

`ReadyIsEarned` is not inductive: it says nothing of a result that is still on
its way to the status. `Inv` adds where such a result comes from:

- `VersionsHonest`: equal resourceVersions mean equal objects. It makes the
  accepted status write one about the current incarnation, generation and spec;
- `JobsHonest`, of the server's Jobs and of the cached ones: a Job bears the name
  of its spec, and if it is complete its success is recorded. A stale cache may
  show a Job that is gone, never a success that was not;
- `ResultEarned`: a result that says Ready was computed from such a Job, for the
  fetched object;
- `SpecsKnown` and `observed <= gen`: a spec just changed cannot be covered
  by an old status.

Each action preserves `Inv` by a lemma of its own; `ReturnStep`, `GotoStep`
and `SetPhaseInv` carry what actions have in common. `InitInv`, `NextInv` and
temporal reasoning give the theorem `Invariant`, on which the others build.

- `LaunchedOnce` needs that a generation launched keeps its Job as long as it is
  the object's. A Job is deleted by a reconcile that holds another spec, which
  could be an older copy or a newer one. `Behind` orders the copies: what is
  held is no newer than what is cached, and that no newer than the server's.
  `LaunchesKept` says that none of them is older than what was launched, because
  whoever launched held it, so that only a newer generation deletes the Job, and
  then the old one is no longer in use.
- `QuietSettled` is carried by `Awake`: a status that no key in the queue, no
  delayed add and no pending event will follow is final, and so is a result on its
  way that asks for no requeue (`ResultFinal`). What users and the cluster do is
  an event (`EnvironmentStep`).

### The promise

`ControllerRefinement_proofs` shows first that `Ready` is right unless a Job was created
beside another one. `CopiesInv` collects what holds always: no copy of the object is
newer than the one it was copied from, and whatever is held or launched was asked for
(`LaunchInv`, `AskedKnown`); a claim in the status is only ever seen with the newest
copy (`ClaimIsNewest`); a Job of the object that an old list shows, when the reconcile
is about to create one, is still there (`ListedThere`), because only a reconcile that is
elsewhere deletes Jobs; and each Job belongs to an incarnation that was launched.
`Straight` is what an overlap destroys: at most one Job or pod is at work (`Single`), a
Job of the object that is complete, on the server or in the list the reconcile reads,
was the last to migrate (`LastIn`), and so was whatever a result or the status reports.
`MatchInv` is `CopiesInv` and, unless there was an overlap, `Straight`.

Its induction does not need a case for each action. `Calm` says what every step but a
Create does to Jobs and pods: nothing starts, at most one migration ends, and what
ends is recorded as the last (`AdvancesCalm`, `SucceedsCalm`, `GoesCalm`,
`LingeringCalm`, put together in `CalmStep`); `StraightCalm` shows that such a step
keeps `Straight`. A Create sets `overlapped` or is made when neither Job nor pod is at
work and the object has no other Job, and `StraightCreate` shows that the latter keeps
`Straight` too. A list that hides a completed Job can lead only to a Create that is
refused, because the name is taken, or to one beside that Job, which is an overlap.

The refinement is then one lemma per kind of step (`AskRefined`, `WithdrawRefined`,
`StatusRefined`, `StartRefined`, `AbortRefined`, `FinishRefined`, `DropRefined`,
`AdvanceRefined`, `LingeringRefined`). A Create is a `Start`, because `LaunchesKept`
says that the generation was not launched before; a status write is a `Tell` if it
claims something new, with `MatchInv` for its guard, a `Retract` if it takes a claim
back, and otherwise a stutter; the end of a Job or of its pod is `Finish` or `Abort`,
and a pod that outlives its Job keeps its migration in `running`. For the strict form,
`TurnsInv` adds that under `Turns` the object has one Job (`OneJob`, through
`CreatesFirstJob`), nothing lingers, nothing overlapped, and a status that claims the
current generation has its Job there and complete and no reconcile on its way to a
Delete or a Create (`ClaimInv`, from `ControllerSafety_proofs`). `NextRefined` puts them
together.

### Two managers

`S`, an instance of the proofs under the second manager's variables, proves of its
steps what was proved of the first's (`SecondStep`). What is new is the manager
that looks on. `LooksOnInv` shows that `Inv` survives somebody else's step if what
the two share (`SharedInv`) does; `LooksOnAwake` shows that no wakeup is taken away.
That gives `EarnedByEither` and `BothSettled`. For the other two, `OnceInv` says
that, with one spec to an incarnation, every Job bears the spec that its owner was
given, whatever was launched of the live object has its Job, and nobody is about to
delete one; `OwnFailed` says that a failed Job in either list failed on the server,
and that a result `JobFailed` comes from one.

### Tokens

`ConnectsWithLiveToken` speaks of the moment the container starts; `TokenBounded`
bounds the token of a Job that has not started, by the Job's own age, which is all
a short deadline needs, and by the time to the next renewal: while none was missed,
age and remaining delay together stay within one requeue and one reconcile
(`RenewalDue`); from the first one missed, the age exceeds that by no more than the
outage (`BeforeMissed`). `TickInv` is where both bounds are spent.
`LifetimeAssumption` is the condition: the default deadline and a reconcile fit
into the validity, and so do a requeue, two reconciles and the longest outage.

### Webhook, metrics, versions, bake time

- `MetricGate_proofs`: a stored object is valid (`StoredInv`), hence says where its
  database is, and an update between two valid objects keeps the identity
  (`SameDatabase`). A list comes to what the first check that does not pass
  comes to; that there is a first one takes `WFMin` on the natural numbers. `VerdictIsRight`
  needs what the loops of `reduceValues` come to for lists of any length. The fold that
  stands for a loop is the choice of a recursive function, so `FoldExists` first shows,
  by the least counterexample, that there is a function that keeps every intermediate
  result, and `FoldRuns` that the fold agrees with it step by step; `SpacesExist` and
  `SpacesAgree` do the same for `Spacing`. `FoldLarger` and `FoldSmaller` identify two of
  the loops with the largest and the smallest value. The rest is error analysis:
  rounding to the nearest float is off by half a spacing at most (`FloatError`), a
  reading by one spacing, because it rounds twice (`ReadError`), and each addition of
  the sum by another half (`SumLoop`), all of them spacings of no larger number than
  `Magnitudes` allows, which is where `PrecisionAssumption` is needed; the average
  adds half of one (`SumError`). `Rounding` is the sum of these (`ErrorsAdd`), and
  `CompareClose` says that what is off by no more than the slack compares alike.
  `Induction` is induction over `0..n` for a set of numbers, which needs no operator
  parameter.
- `VersionCheck_proofs`: `GateInv` says that no pod is newer than its app's history
  (`Covered`), and, with forward rollouts, that a pod the cache does not show yet is
  no older than those of its app that it shows (`Rises`). So whatever replaces a pod
  that a check has seen passes it as well, and a check that passed stays passed
  (`Reached`).
- `BakeTime_proofs`: `Truncated` and `InTicks` are the arithmetic of whole seconds.
  `Stamped` says that a completionTime is that of the Job at hand but for the second
  that was cut off, `Own` that whatever was computed or persisted for a Job with a time of
  its own (`Timed`) is measured from it, or lies between its completion and the present;
  `Measured` and `MeasuredOwn` show it of the three branches of `JobCompletedAt`.
  `Kept` says that a success not written yet is true. For the other direction
  `InTime` says that, while the controller is in time, nothing is measured from later
  than the completion, `Fresh` that a result not written yet was evaluated now, and
  `Prompt` that the controller has work to do or will have in time.

### Only model-checked

- `Settles` and `LockReleased`: liveness rests on fairness, hence on ENABLED, which
  is out of the prover's reach.
- `OneJobAtATime`, `ReadyMatchesDatabase` and `DoneStaysDone`, which ask for a current
  list of Jobs and pods that go with their Job.
- The three statements of the documentation that are violated need no proof.

## 7. What is not modelled

- `main.go` beyond the three flags that change the protocol; probes and wiring.
- A standby whose cache is older than the last read of the leader it follows.
- `internal/metrics`: one gauge, set once. Generated deep copies and the scheme.
- Of the RDS client, the AssumeRole call with its session and external ID, and the
  format of URLs. `BuildMySQLConnectionURL` and `CompareVersions` are called by
  nothing.
- Deployment manifests. Of them the models use `failurePolicy: Fail`: no update
  passes without the webhook's verdict.
- Hash collisions and an operator's Secret without data created by somebody else; see
  the notes under `hazards`.
- Foreground deletion of the object, in which the garbage collector removes the Job of
  an object that is still there; infinite floats.

## 8. What comes next

Worth stating and proving next: for two managers over several generations the weaker
statement that a migration is repeated only if its Job was deleted; a bound on the
number of migrations that an overlap can involve; and foreground deletion.

## Running it

    tlc -config MCController_stale_objects.cfg MCController
    for m in *_proofs.tla; do tlapm $m; done

A run's module and configuration are listed in `PROJECT.json`. Each takes at most
about three minutes on two workers.

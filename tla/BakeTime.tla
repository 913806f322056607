------------------------------ MODULE BakeTime ------------------------------
(***************************************************************************)
(* The bake time and the post-migration metrics of one DBUpgrade: what     *)
(* syncJobStatus and runPostChecks do with a Job that completed, against   *)
(* the clock, over restarts, resyncs and one migration after another.      *)
(*                                                                         *)
(* Time is counted in ticks, several to a second: Kubernetes stores whole  *)
(* seconds and runPostChecks truncates.  DBUpgradeController has the rest  *)
(* of the reconcile; here a migration runs in one step.                    *)
(***************************************************************************)
EXTENDS Integers

CONSTANTS
    None,           \* nil
    Second,         \* ticks in a second
    Bake,           \* the largest bakeSeconds
    Retry,          \* seconds to the next evaluation of failed metrics
    Skew,           \* ticks the operator's clock is ahead or behind, at most
    MaxTime,        \* bound: ticks
    MaxMigrations   \* bound: Jobs that complete

ASSUME BakeAssumption ==
    /\ Second \in Nat \ {0} /\ Bake \in Nat /\ Retry \in Nat \ {0}
    /\ Skew \in Nat
    /\ MaxTime \in Nat /\ MaxMigrations \in Nat

VARIABLES
    now,         \* the time
    skew,        \* the ticks by which the operator's clock is ahead, or behind if negative
    job,         \* "none" or "complete"
    completed,   \* history: when the Job really completed
    completion,  \* job.status.completionTime, in seconds, or None
    healthy,     \* the metrics satisfy their thresholds
    since,       \* history: since when they do
    status,      \* the written status: its kind, the second its message shows
                 \* and jobCompletedAt
    result,      \* the result evaluated and not written yet, or None
    queued,      \* the workqueue holds the key
    timer,       \* when the delayed add is due, or None
    migrations,  \* Jobs that completed
    late         \* history: time has passed while the controller had work

clock == <<now, skew, late>>
cluster == <<job, completed, completion, healthy, since, migrations>>
controller == <<status, result, queued, timer>>
vars == <<now, skew, late, job, completed, completion, healthy, since, migrations,
          status, result, queued, timer>>

Kinds == {"none", "bake", "failed", "ready"}
Times == -Skew..(MaxTime + Skew)
Shown == -Skew..Bake
Result == [kind : Kinds \ {"none"}, shown : Shown, jobCompletedAt : Times,
           requeue : 0..(Bake + Skew) \cup {Retry}]

\* nil is no time and no result.
ASSUME NilAssumption == None \notin Int \cup Result

TypeOK ==
    /\ now \in 0..MaxTime /\ skew \in -Skew..Skew /\ late \in BOOLEAN
    /\ job \in {"none", "complete"} /\ migrations \in 0..MaxMigrations
    /\ completed \in 0..MaxTime /\ completion \in {None} \cup Times
    /\ healthy \in BOOLEAN /\ since \in 0..MaxTime
    /\ status \in [kind : Kinds, shown : Shown, jobCompletedAt : {None} \cup Times]
    /\ result \in {None} \cup Result
    /\ queued \in BOOLEAN /\ (timer = None \/ timer \in Nat)

Init ==
    /\ now = 0 /\ skew \in -Skew..Skew /\ late = FALSE
    /\ job = "none" /\ completed = 0 /\ completion = None /\ migrations = 0
    /\ healthy \in BOOLEAN /\ since = 0
    /\ status = [kind |-> "none", shown |-> 0, jobCompletedAt |-> None]
    /\ result = None /\ queued = FALSE /\ timer = None

----------------------------------------------------------------------------
(* Time, the cluster, and the manager's life *)

Due == timer # None /\ now >= timer
Busy == queued \/ result # None \/ Due

Tick ==
    /\ now < MaxTime
    /\ now' = now + 1
    /\ late' = (late \/ Busy)
    /\ UNCHANGED <<skew, cluster, controller>>

\* The event of the completed Job enqueues the key.  The Job controller writes the
\* completionTime along with the condition; whoever else completes a Job may not.
JobCompletes ==
    /\ job = "none" /\ migrations < MaxMigrations
    /\ job' = "complete" /\ migrations' = migrations + 1
    /\ completed' = now /\ completion' \in {None, now \div Second}
    /\ queued' = TRUE
    /\ UNCHANGED <<clock, healthy, since, status, result, timer>>

\* The webhook allows a new spec: a result evaluated before it is dropped on
\* conflict, the first reconcile replaces the Job and writes conditions of its own,
\* and jobCompletedAt stays what it was.
NextMigration ==
    /\ job = "complete" /\ status.kind \in {"failed", "ready"}
    /\ job' = "none"
    /\ status' = [status EXCEPT !.kind = "none", !.shown = 0]
    /\ result' = None /\ queued' = FALSE /\ timer' = None
    /\ UNCHANGED <<clock, completed, completion, healthy, since, migrations>>

MetricsChange ==
    /\ healthy' = ~healthy
    /\ since' = now
    /\ UNCHANGED <<clock, job, completed, completion, migrations, controller>>

Resync ==
    /\ job = "complete" /\ ~queued
    /\ queued' = TRUE
    /\ UNCHANGED <<clock, cluster, status, result, timer>>

\* The manager restarts: what it held in memory is gone, the key is listed anew.
Restart ==
    /\ job = "complete"
    /\ result' = None /\ queued' = TRUE /\ timer' = None
    /\ UNCHANGED <<clock, cluster, status>>

TimerFires ==
    /\ Due
    /\ timer' = None /\ queued' = TRUE
    /\ UNCHANGED <<clock, cluster, status, result>>

----------------------------------------------------------------------------
(* The reconcile of a completed Job *)

\* The Job's own time comes before the persisted one, and that before the present.
\* Mutated form of JobCompletedAt: the persisted one wins.
PersistedCompletedAt ==
    IF status.jobCompletedAt # None THEN status.jobCompletedAt
    ELSE IF completion # None THEN completion ELSE (now + skew) \div Second
JobCompletedAt ==
    IF completion # None THEN completion
    ELSE IF status.jobCompletedAt # None THEN status.jobCompletedAt
    ELSE (now + skew) \div Second

\* int32(time.Since(...).Seconds()), on the operator's clock: truncated toward zero.
\* Mutated form of ElapsedSeconds: rounded up.
Elapsed == now + skew - JobCompletedAt * Second
ElapsedSecondsUp == (Elapsed + Second - 1) \div Second
ElapsedSeconds ==
    IF Elapsed >= 0 THEN Elapsed \div Second ELSE -((-Elapsed) \div Second)

Evaluated(kind, shown, requeue) ==
    [kind |-> kind, shown |-> shown, jobCompletedAt |-> JobCompletedAt,
     requeue |-> requeue]

\* runPostChecks.
\* Mutated forms of PostChecks: the elapsed time is not compared; the wait is not
\* requeued.
PostChecksUnbounded == Evaluated("bake", ElapsedSeconds, Bake - ElapsedSeconds)
PostChecksOnce ==
    IF Bake > 0 /\ ElapsedSeconds < Bake THEN Evaluated("bake", ElapsedSeconds, 0)
    ELSE IF ~healthy THEN Evaluated("failed", 0, Retry)
    ELSE Evaluated("ready", 0, 0)
PostChecks ==
    IF Bake > 0 /\ ElapsedSeconds < Bake
    THEN Evaluated("bake", ElapsedSeconds, Bake - ElapsedSeconds)
    ELSE IF ~healthy THEN Evaluated("failed", 0, Retry)
    ELSE Evaluated("ready", 0, 0)

Evaluate ==
    /\ queued /\ result = None /\ job = "complete"
    /\ queued' = FALSE
    /\ result' = PostChecks
    /\ UNCHANGED <<clock, cluster, status, timer>>

\* updateStatus, and the return of Reconcile: a status that changes is an event of
\* its own, and of two delayed adds the earlier counts.
Earlier(t) == IF timer # None /\ timer < t THEN timer ELSE t

WriteStatus ==
    /\ result # None
    /\ status' = [kind |-> result.kind, shown |-> result.shown,
                  jobCompletedAt |-> result.jobCompletedAt]
    /\ queued' = (queued \/ status' # status)
    /\ timer' = IF result.requeue = 0 THEN timer
                ELSE Earlier(now + result.requeue * Second)
    /\ result' = None
    /\ UNCHANGED <<clock, cluster>>

Next ==
    \/ Tick
    \/ JobCompletes \/ NextMigration \/ MetricsChange
    \/ Resync \/ Restart \/ TimerFires
    \/ Evaluate \/ WriteStatus

Spec == Init /\ [][Next]_vars

----------------------------------------------------------------------------
(* Properties *)

\* How far the operator's clock is ahead, and how far behind.
Ahead == IF skew > 0 THEN skew ELSE 0
Behind == IF skew < 0 THEN -skew ELSE 0

\* The Job at hand has a time of its own.  A later Job without a completionTime gets
\* the time persisted for an earlier one, and with it no bake time.
Timed == completion # None \/ migrations = 1

\* The bake time is kept: no success is written before it is over, but for the
\* fraction of a second that a timestamp drops and for a clock that is ahead.
BakeIsKept ==
    [][status.kind # "ready" /\ status'.kind = "ready" /\ Timed =>
          now + Ahead + Second > completed + Bake * Second]_vars

\* Nor is it prolonged: restarts, resyncs and conflicting delays do not start it
\* over.  A second after it ended on the operator's clock, or a retry after the
\* metrics recovered, the object is Ready, unless the controller was kept from its
\* work.
BakeEnds == completed + (Bake + 1) * Second + Behind
Recovered == since + Retry * Second

BakeIsNotProlonged ==
    ~late /\ job = "complete" /\ healthy /\ now > BakeEnds /\ now > Recovered =>
        status.kind = "ready"

\* What decides on a migration is its own completion, never the previous one's: the
\* time the Job bears or else, over restarts and retries, one between its completion
\* and the present.
CompletionIsOwn ==
    job = "complete" /\ status.kind # "none" /\ Timed =>
        IF completion # None THEN status.jobCompletedAt = completion
        ELSE /\ completed + skew < (status.jobCompletedAt + 1) * Second
             /\ status.jobCompletedAt * Second <= now + skew
=============================================================================

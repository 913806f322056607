--------------------------- MODULE TokenLifetime ---------------------------
(***************************************************************************)
(* The RDS IAM token of internal/aws/rds_auth.go: every reconcile of an    *)
(* AWS database generates one and writes it into the operator's Secret     *)
(* before it looks at the Job; the container that migrates reads the       *)
(* Secret once, when it starts.  A token opens connections for Validity    *)
(* ticks.  A Job has one pod and no retry (backoffLimit 0), so a container *)
(* that starts with an older token has failed the migration for good.      *)
(*                                                                         *)
(* Ages are counted instead of times.  DBUpgradeController has the rest of *)
(* the reconcile; here it takes time, and a retry after an error comes no  *)
(* later than the longest RequeueAfter.                                    *)
(***************************************************************************)
EXTENDS Naturals

CONSTANTS
    None,             \* nothing is due; no token was read
    Validity,         \* ticks a token is good for (15 minutes)
    DefaultDeadline,  \* activeDeadlineSeconds unless spec.runner says otherwise
    Deadlines,        \* values of spec.runner.activeDeadlineSeconds
    Requeue,          \* the longest RequeueAfter before the Job is over
    MaxCall,          \* ticks a reconcile takes at most, once it has a token
    MaxOutage         \* ticks that tokens cannot be renewed, see Tolerable

\* A Job that is over before the token it was created with expires.
Short(d) == d + MaxCall < Validity

ASSUME LifetimeAssumption ==
    /\ Validity \in Nat \ {0} /\ None \notin Nat
    /\ Deadlines \subseteq Nat /\ DefaultDeadline \in Nat
    /\ Requeue \in Nat \ {0} /\ MaxCall \in Nat /\ MaxOutage \in Nat
    /\ Short(DefaultDeadline)
    /\ MaxCall + Requeue + MaxCall + MaxOutage < Validity

VARIABLES
    age,       \* ticks since the Secret's token was generated, at most Validity
    up,        \* the manager runs
    pc,        \* "idle", "secret" with a new token in hand, or "job"
    call,      \* ticks since that token was generated
    wake,      \* ticks until the key is due, or None
    missed,    \* history: a renewal was missed since the last one that succeeded
    outage,    \* history: ticks since then
    phase,     \* of the Job
    deadline,  \* its activeDeadlineSeconds
    jobAge,    \* ticks since it was created
    used,      \* history: the age of the token its container read, or None
    changed    \* the spec is no longer the one the Job was created for

manager == <<up, pc, call, wake>>
renewal == <<age, missed, outage>>
job == <<phase, deadline, jobAge, used>>
vars == <<age, missed, outage, up, pc, call, wake, phase, deadline, jobAge, used, changed>>

Underway == phase \in {"pending", "running"}

TypeOK ==
    /\ age \in 0..Validity /\ missed \in BOOLEAN /\ outage \in 0..MaxOutage
    /\ up \in BOOLEAN /\ pc \in {"idle", "secret", "job"} /\ call \in 0..MaxCall
    /\ wake \in 0..Requeue \cup {None}
    /\ phase \in {"absent", "pending", "running", "over"}
    /\ deadline \in Deadlines \cup {DefaultDeadline} /\ jobAge \in 0..deadline
    /\ used \in 0..Validity \cup {None} /\ changed \in BOOLEAN

\* There is no token yet, which is as good as an old one.
Init ==
    /\ age = Validity /\ missed = FALSE /\ outage = 0
    /\ up = TRUE /\ pc = "idle" /\ call = 0 /\ wake = 0
    /\ phase = "absent" /\ deadline = DefaultDeadline /\ jobAge = 0 /\ used = None
    /\ changed = FALSE

----------------------------------------------------------------------------
(* Time passes unless a reconcile, the rest of one or the end of a Job is  *)
(* due.  A Job with a longer deadline may be pending when its token should *)
(* have been renewed: then renewals must not be missed for long.           *)

Tolerable == missed /\ phase = "pending" /\ ~Short(deadline) => outage < MaxOutage

Grow(n, max) == IF n < max THEN n + 1 ELSE n

Tick ==
    /\ up /\ pc = "idle" => wake # 0
    /\ pc # "idle" => call < MaxCall
    /\ Underway => jobAge < deadline
    /\ Tolerable
    /\ age' = Grow(age, Validity)
    /\ call' = IF pc = "idle" THEN 0 ELSE call + 1
    /\ wake' = IF wake \in {0, None} THEN wake ELSE wake - 1
    /\ outage' = IF missed THEN Grow(outage, MaxOutage) ELSE 0
    /\ jobAge' = IF Underway THEN jobAge + 1 ELSE jobAge
    /\ UNCHANGED <<missed, up, pc, phase, deadline, used, changed>>

----------------------------------------------------------------------------
(* The manager *)

Done == pc' = "idle" /\ call' = 0 /\ UNCHANGED up

\* RequeueAfter, unless an event comes first.
ComesBack == Done /\ wake' \in 1..Requeue

Missed == missed' = TRUE /\ UNCHANGED <<age, outage>>

GenerateRDSAuthToken ==
    /\ up /\ pc = "idle" /\ wake = 0
    /\ pc' = "secret" /\ call' = 0
    /\ UNCHANGED <<up, wake, renewal, job, changed>>

\* AssumeRole fails, or the region, or the client was never set up.
GenerateFails ==
    /\ up /\ pc = "idle" /\ wake = 0
    /\ ComesBack /\ Missed
    /\ UNCHANGED <<job, changed>>

\* ensureMigrationSecret writes the token whatever the Secret holds.
\* Mutated form of TokenWritten: a Secret that has a URL is left alone.
TokenKept == IF age = Validity THEN call ELSE age
TokenWritten == call

WriteSecret ==
    /\ pc = "secret"
    /\ age' = TokenWritten /\ missed' = FALSE /\ outage' = 0
    /\ pc' = "job"
    /\ UNCHANGED <<up, call, wake, job, changed>>

\* The Secret's cached copy was old, or the call failed.
WriteSecretFails ==
    /\ pc = "secret"
    /\ ComesBack /\ Missed
    /\ UNCHANGED <<job, changed>>

\* The Job of an earlier spec runs, the Job of this one is pending or runs, or
\* there is none and a pre-migration check does not pass.
Wait ==
    /\ pc = "job"
    /\ Underway \/ phase = "absent"
    /\ ComesBack
    /\ UNCHANGED <<renewal, job, changed>>

DeleteJob ==
    /\ pc = "job" /\ changed /\ phase \in {"pending", "over"}
    /\ phase' = "absent" /\ jobAge' = 0 /\ used' = None
    /\ ComesBack
    /\ UNCHANGED <<renewal, deadline, changed>>

CreateJob ==
    /\ pc = "job" /\ phase = "absent"
    /\ phase' = "pending" /\ changed' = FALSE
    /\ deadline' \in Deadlines \cup {DefaultDeadline} /\ jobAge' = 0 /\ used' = None
    /\ ComesBack
    /\ UNCHANGED renewal

\* It succeeded or failed: nothing more to do, or post-migration checks to repeat.
ReportJob ==
    /\ pc = "job" /\ phase = "over" /\ ~changed
    /\ ComesBack \/ (Done /\ wake' = None)
    /\ UNCHANGED <<renewal, job, changed>>

ManagerDies ==
    /\ up /\ up' = FALSE
    /\ pc' = "idle" /\ call' = 0 /\ wake' = None
    /\ Missed
    /\ UNCHANGED <<job, changed>>

ManagerStarts ==
    /\ ~up /\ up' = TRUE /\ wake' = 0
    /\ UNCHANGED <<pc, call, renewal, job, changed>>

----------------------------------------------------------------------------
(* Users and the cluster *)

\* An event of the DBUpgrade or of its Job, or the informers' resync.
Event ==
    /\ up /\ wake # 0
    /\ wake' = 0
    /\ UNCHANGED <<up, pc, call, renewal, job, changed>>

ChangeSpec ==
    /\ phase # "absent" /\ ~changed /\ changed' = TRUE
    /\ wake' = IF up THEN 0 ELSE None
    /\ UNCHANGED <<up, pc, call, renewal, job>>

\* Scheduling, image pulls and the init container are over.
StartContainer ==
    /\ phase = "pending"
    /\ phase' = "running" /\ used' = age
    /\ UNCHANGED <<manager, renewal, deadline, jobAge, changed>>

JobEnds ==
    /\ Underway
    /\ phase' = "over"
    /\ UNCHANGED <<manager, renewal, deadline, jobAge, used, changed>>

Next ==
    \/ Tick
    \/ GenerateRDSAuthToken \/ GenerateFails \/ WriteSecret \/ WriteSecretFails
    \/ Wait \/ DeleteJob \/ CreateJob \/ ReportJob
    \/ ManagerDies \/ ManagerStarts
    \/ Event \/ ChangeSpec \/ StartContainer \/ JobEnds

Spec == Init /\ [][Next]_vars

----------------------------------------------------------------------------
(* Properties *)

\* "Can be > 15 minutes even with RDS IAM auth": no container is handed a token
\* that has expired, however late it starts.  A Job with the default deadline needs
\* nobody for that; one with a longer deadline needs the renewals of later reconciles.
ConnectsWithLiveToken == used # None => used < Validity

\* What it rests on: how old the token of a Job that has yet to start can be, while
\* renewals come when they are due and once one has been missed.
RenewalDue ==
    /\ up
    /\ pc = "idle" => wake # None /\ age + wake <= MaxCall + Requeue
    /\ pc = "secret" => age <= MaxCall + Requeue + call

TokenBounded ==
    /\ pc # "idle" => up
    /\ pc = "job" => age = call /\ ~missed
    /\ phase = "pending" =>
          /\ age <= jobAge + MaxCall
          /\ ~missed => RenewalDue
          /\ missed => Short(deadline) \/ age <= MaxCall + Requeue + MaxCall + outage

Inv == TypeOK /\ TokenBounded /\ ConnectsWithLiveToken

=============================================================================

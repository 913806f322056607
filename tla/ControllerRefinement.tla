------------------------ MODULE ControllerRefinement ------------------------
(***************************************************************************)
(* The controller keeps the promise of UpgradePromise.                     *)
(***************************************************************************)
EXTENDS DBUpgradeController

Wanted == IF cr.live THEN <<cr.uid, cr.gen, cr.spec>> ELSE <<cr.uid, 0, NoSpec>>

Migration(job) == <<job.owner, job.spec>>

\* The Jobs that are or will be running, and the pods whose Job is gone.
Running == {Migration(jobs[n]) : n \in Underway} \cup {Migration(job) : job \in lingering}

Records == {Migration(jobs[n]) : n \in {m \in JobNames : jobs[m].phase # "absent"}}

\* Where the Jobs listed are those there are, pods go with their Job and no Job of an
\* earlier incarnation is left, migrations take turns.
Turns == "Job" \notin Lagging /\ ~Lingers /\ MaxUid <= 1

Promise == INSTANCE UpgradePromise WITH
    None       <- NoSpec,
    InTurn     <- Turns,
    wanted     <- Wanted,
    requests   <- asked,
    running    <- Running,
    records    <- Records,
    started    <- launched,
    completed  <- succeeded,
    done       <- cr.live /\ cr.ready /\ cr.observed = cr.gen

KeepsPromise == Promise!Spec

=============================================================================

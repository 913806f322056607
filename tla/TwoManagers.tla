---------------------------- MODULE TwoManagers ----------------------------
(***************************************************************************)
(* Two managers that reconcile the same DBUpgrade, as main.go allows when  *)
(* --leader-elect is not given: each has the informers, the workqueue and  *)
(* the reconcile of DBUpgradeController, whose variables are the first     *)
(* manager's; the API server, the users and the cluster are shared.        *)
(***************************************************************************)
EXTENDS DBUpgradeController

VARIABLES
    crCache2, crFresh2, jobCache2, secretCache2, operFresh2,
    pc2, obj2, fresh2, target2, result2, queued2, timer2

Second == INSTANCE DBUpgradeController WITH
    crCache <- crCache2, crFresh <- crFresh2, jobCache <- jobCache2,
    secretCache <- secretCache2, operFresh <- operFresh2,
    pc <- pc2, obj <- obj2, fresh <- fresh2, target <- target2, result <- result2,
    queued <- queued2, timer <- timer2

vars2 == <<crCache2, crFresh2, jobCache2, secretCache2, operFresh2,
           pc2, obj2, fresh2, target2, result2, queued2, timer2>>

\* What a manager notices of a step that is not its own: its copies of what the step
\* wrote no longer have the server's version.
FirstLooksOn ==
    /\ crFresh' = (crFresh /\ cr' = cr) /\ fresh' = (fresh /\ cr' = cr)
    /\ operFresh' = (operFresh /\ secrets' = secrets)
    /\ UNCHANGED <<crCache, jobCache, secretCache, pc, obj, target, result, queue>>

SecondLooksOn ==
    /\ crFresh2' = (crFresh2 /\ cr' = cr) /\ fresh2' = (fresh2 /\ cr' = cr)
    /\ operFresh2' = (operFresh2 /\ secrets' = secrets)
    /\ UNCHANGED <<crCache2, jobCache2, secretCache2, pc2, obj2, target2, result2,
                   queued2, timer2>>

SecondManager ==
    \/ Second!Reconcile
    \/ Second!SyncDBUpgrade \/ Second!SyncJobs \/ Second!SyncSecrets
    \/ Second!TimerFires \/ Second!Resync \/ Second!Crash

BothInit == Init /\ Second!Init

BothNext ==
    \/ Next /\ SecondLooksOn
    \/ SecondManager /\ FirstLooksOn

BothSpec == BothInit /\ [][BothNext]_<<vars, vars2>>

----------------------------------------------------------------------------
(* What does not depend on there being one manager *)

\* A migration is never reported failed because the other manager was faster: as long
\* as no call fails, JobFailed means that the Job did.
FailureIsReal ==
    cr.live /\ cr.reason = "JobFailed" /\ cr.observed = cr.gen /\ spent = 0
        => jobs[computeSpecHash[cr.spec]].phase = "failed"

\* No wakeup is lost between the two.
BothQuietIsSettled ==
    Quiet /\ Second!Quiet /\ cr.live
        => cr.observed = cr.gen /\ ~cr.progressing /\ Final
=============================================================================

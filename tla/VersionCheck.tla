---------------------------- MODULE VersionCheck ----------------------------
(***************************************************************************)
(* internal/checks/version.go inside runPreChecks: the minimum versions of *)
(* the running pods, looked up check by check in the informer's cache,     *)
(* gate the creation of the migration Job while rollouts go on.            *)
(*                                                                         *)
(* A tag is [shape, version].  Shapes: "semver" (x.y.z with any suffix),   *)
(* "number" (1.2, 20240101: taken for a version), "digits" (7f3a9c: starts *)
(* like one, does not parse), "other" (latest, v1.2, a digest, no tag).    *)
(* Versions are Nat in semver order.                                       *)
(***************************************************************************)
EXTENDS Naturals, Sequences

CONSTANTS
    Pods,         \* names of pods
    AppOf,        \* pod -> the app its labels say
    Templates,    \* what a pod may run: sequences of [name, tag]
    Checks,       \* checks.pre.minPodVersions, in order
    ForwardOnly   \* TRUE when no container older than the app's newest is started

Shapes == {"semver", "number", "digits", "other"}
Absent == <<>>
AnyName == ""
Apps == {AppOf[p] : p \in Pods}

MinPodVersionCheck == [app : STRING, minVersion : Nat, containerName : STRING,
                       strictMode : BOOLEAN]

\* Some container of a pod is its newest.
ASSUME GateAssumption ==
    /\ AppOf \in [Pods -> STRING]
    /\ Absent \notin Templates
    /\ \A t \in Templates :
          /\ \A i \in DOMAIN t : t[i].tag.version \in Nat \ {0}
          /\ \E i \in DOMAIN t : \A j \in DOMAIN t :
                t[j].tag.version <= t[i].tag.version
    /\ Checks \in Seq(MinPodVersionCheck)
    /\ \A i \in DOMAIN Checks : Checks[i].app \in Apps
    /\ ForwardOnly \in BOOLEAN

VARIABLES
    pods,      \* what runs, Absent or a template, by pod
    podCache,  \* the informer's copy
    newest,    \* history: the newest version started, by app
    next       \* the check to make next; past the last one, the Job is created

vars == <<pods, podCache, newest, next>>

----------------------------------------------------------------------------
(* One check *)

\* The version a tag is taken for, by extractVersionFromImage and semver.
Versioned(tag) == tag.shape \in {"semver", "number"}

Listed(running, check) == {p \in Pods : running[p] # Absent /\ AppOf[p] = check.app}

\* Container names are unique in a pod: with containerName, one at most.
Examined(pod, check) ==
    {i \in DOMAIN pod : check.containerName \in {AnyName, pod[i].name}}

\* Forward rollouts: pods have the containers that checks name, and what a strict check
\* cannot read a version from is older than what it asks for.
ASSUME RolloutAssumption ==
    ForwardOnly =>
        \A t \in Templates : \A i \in DOMAIN Checks :
            /\ Examined(t, Checks[i]) # {}
            /\ Checks[i].strictMode =>
                   \A c \in Examined(t, Checks[i]) :
                       Versioned(t[c].tag) \/ t[c].tag.version < Checks[i].minVersion

Tags(running, check) ==
    UNION {{running[p][i].tag : i \in Examined(running[p], check)} :
              p \in Listed(running, check)}

\* Mutated form of failedPods: strictMode defaults to FALSE.
failedPodsLenient(running, check) ==
    {t \in Tags(running, check) : Versioned(t) /\ t.version < check.minVersion}
failedPods(running, check) ==
    {t \in Tags(running, check) :
        IF Versioned(t) THEN t.version < check.minVersion ELSE check.strictMode}

skippedPods(running, check) ==
    {t \in Tags(running, check) : ~Versioned(t) /\ ~check.strictMode}

\* Mutated form of checkSinglePodVersion: no pods, nothing to object to.
checkSinglePodVersionVacuous(running, check) ==
    /\ failedPods(running, check) = {}
    /\ skippedPods(running, check) # {} =>
           skippedPods(running, check) # Tags(running, check)
checkSinglePodVersion(running, check) ==
    /\ Listed(running, check) # {}
    /\ failedPods(running, check) = {}
    /\ skippedPods(running, check) # {} =>
           skippedPods(running, check) # Tags(running, check)

----------------------------------------------------------------------------
Newest(template) ==
    LET versions == {template[i].tag.version : i \in DOMAIN template}
    IN  CHOOSE v \in versions : \A w \in versions : w <= v

Init ==
    /\ pods = [p \in Pods |-> Absent] /\ podCache = pods
    /\ newest = [a \in Apps |-> 0]
    /\ next = 1

\* The Deployments' rollouts.
StartPod(p, template) ==
    /\ pods[p] = Absent
    /\ ForwardOnly => \A i \in DOMAIN template : template[i].tag.version >= newest[AppOf[p]]
    /\ pods' = [pods EXCEPT ![p] = template]
    /\ newest' = [newest EXCEPT ![AppOf[p]] =
                     IF Newest(template) > @ THEN Newest(template) ELSE @]
    /\ UNCHANGED <<podCache, next>>

StopPod(p) ==
    /\ pods[p] # Absent
    /\ pods' = [pods EXCEPT ![p] = Absent]
    /\ UNCHANGED <<podCache, newest, next>>

SyncPods ==
    /\ podCache # pods
    /\ podCache' = pods
    /\ UNCHANGED <<pods, newest, next>>

\* CheckMinPodVersions lists the pods anew for every check; the first that does
\* not pass ends the reconcile, which starts over a minute later.
CheckPasses ==
    /\ next \in DOMAIN Checks
    /\ checkSinglePodVersion(podCache, Checks[next])
    /\ next' = next + 1
    /\ UNCHANGED <<pods, podCache, newest>>

CheckFails ==
    /\ next \in DOMAIN Checks
    /\ ~checkSinglePodVersion(podCache, Checks[next])
    /\ next' = 1
    /\ UNCHANGED <<pods, podCache, newest>>

\* The Job is created, or the manager restarts before it is: the next migration,
\* or the next reconcile, begins with the first check.
CreateJob ==
    /\ next = Len(Checks) + 1
    /\ next' = 1
    /\ UNCHANGED <<pods, podCache, newest>>

Restart ==
    /\ next # 1
    /\ next' = 1
    /\ podCache' = pods
    /\ UNCHANGED <<pods, newest>>

Next ==
    \/ \E p \in Pods : StopPod(p) \/ \E t \in Templates : StartPod(p, t)
    \/ SyncPods
    \/ CheckPasses \/ CheckFails \/ CreateJob \/ Restart

Spec == Init /\ [][Next]_vars

----------------------------------------------------------------------------
(* Properties *)

\* What a pod must run to be no obstacle: nothing older than the minimum and, in
\* strict mode, nothing without a version.
Compliant(running, check) ==
    \A p \in Listed(running, check) : \A i \in Examined(running[p], check) :
        LET tag == running[p][i].tag
        IN  IF Versioned(tag) THEN tag.version >= check.minVersion
                              ELSE ~check.strictMode

\* README: "Block migrations until all pods are running the required version": when
\* the Job is created, the pods running by then are compliant, although they were
\* listed one check after another in a cache that lags.  It takes forward rollouts.
JobStartsAboveMinimum ==
    [][CreateJob => \A i \in DOMAIN Checks : Compliant(pods, Checks[i])]_vars

\* An app that has not been rolled out at all holds the migration back.
JobWaitsForPods ==
    [][CreateJob => \A i \in DOMAIN Checks : newest[Checks[i].app] > 0]_vars
=============================================================================

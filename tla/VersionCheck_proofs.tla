------------------------- MODULE VersionCheck_proofs -------------------------
(***************************************************************************)
(* Proofs about VersionCheck for any pods, apps, templates and lists of    *)
(* checks: what has passed stays passed while rollouts go on.              *)
(***************************************************************************)
EXTENDS VersionCheck, TLAPS

TypeOK ==
  /\ pods \in [Pods -> Templates \cup {Absent}]
  /\ podCache \in [Pods -> Templates \cup {Absent}]
  /\ newest \in [Apps -> Nat]
  /\ next \in 1..(Len(Checks) + 1)

\* Nothing that runs, or is listed as running, is newer than its app's newest.
Covered(running) ==
  \A p \in Pods : running[p] # Absent =>
    \A i \in DOMAIN running[p] : running[p][i].tag.version <= newest[AppOf[p]]

\* A pod the cache does not show yet is no older than any of its app that it shows.
Rises ==
  \A p, q \in Pods :
    /\ pods[p] # Absent /\ podCache[q] # Absent
    /\ AppOf[p] = AppOf[q] /\ pods[p] # podCache[p]
    => \A i \in DOMAIN pods[p], j \in DOMAIN podCache[q] :
          podCache[q][j].tag.version <= pods[p][i].tag.version

\* What remains of a check that passed: its app has been rolled out; with forward
\* rollouts, up to the minimum, and nothing runs that is in the way.
Reached(check) == newest[check.app] >= check.minVersion /\ Compliant(pods, check)

GateInv ==
  /\ TypeOK
  /\ Covered(pods) /\ Covered(podCache)
  /\ \A i \in 1..(next - 1) : newest[Checks[i].app] > 0
  /\ ForwardOnly => Rises /\ \A i \in 1..(next - 1) : Reached(Checks[i])

----------------------------------------------------------------------------

\* The newest version of a template's containers.
LEMMA NewestOf ==
  ASSUME NEW t \in Templates
  PROVE  /\ Newest(t) \in Nat \ {0}
         /\ \A i \in DOMAIN t : t[i].tag.version <= Newest(t)
         /\ t # Absent
  <1> DEFINE versions == {t[i].tag.version : i \in DOMAIN t}
  <1>1. \E v \in versions : \A w \in versions : w <= v
    BY GateAssumption
  <1>2. Newest(t) = CHOOSE v \in versions : \A w \in versions : w <= v
    BY DEF Newest
  <1>3. Newest(t) \in versions /\ \A w \in versions : w <= Newest(t)
    <2> HIDE DEF versions
    <2> QED BY <1>1, <1>2
  <1> QED BY <1>3, GateAssumption

\* The checks and their positions.
LEMMA CheckTypes ==
  /\ Len(Checks) \in Nat /\ DOMAIN Checks = 1..Len(Checks)
  /\ \A i \in DOMAIN Checks : /\ Checks[i].minVersion \in Nat
                              /\ Checks[i].app \in Apps
                              /\ Checks[i].strictMode \in BOOLEAN
  <1>1. Checks \in Seq(MinPodVersionCheck)
    BY GateAssumption
  <1>2. Len(Checks) \in Nat /\ DOMAIN Checks = 1..Len(Checks)
    BY <1>1
  <1>3. \A i \in 1..Len(Checks) : Checks[i] \in MinPodVersionCheck
    BY <1>1
  <1>4. \A i \in DOMAIN Checks : Checks[i].app \in Apps
    BY GateAssumption
  <1>5. \A i \in 1..Len(Checks) : Checks[i].minVersion \in Nat
                                  /\ Checks[i].strictMode \in BOOLEAN
    BY <1>3 DEF MinPodVersionCheck
  <1> QED BY <1>2, <1>4, <1>5

\* A check that passes has seen a pod of its app, hence the app was rolled out.
LEMMA CheckRolled ==
  ASSUME GateInv, NEW n \in DOMAIN Checks, checkSinglePodVersion(podCache, Checks[n])
  PROVE  newest[Checks[n].app] > 0
  <1>1. PICK p \in Listed(podCache, Checks[n]) : TRUE
    BY DEF checkSinglePodVersion
  <1>2. p \in Pods /\ podCache[p] \in Templates /\ AppOf[p] = Checks[n].app
    BY <1>1 DEF Listed, GateInv, TypeOK
  <1>3. PICK i \in DOMAIN podCache[p] : podCache[p][i].tag.version \in Nat \ {0}
    BY <1>2, GateAssumption
  <1>4. podCache[p][i].tag.version <= newest[Checks[n].app]
    BY <1>2, <1>3, NewestOf DEF GateInv, Covered
  <1>5. newest[Checks[n].app] \in Nat
    BY CheckTypes DEF GateInv, TypeOK
  <1> QED BY <1>3, <1>4, <1>5

\* The tags a passing check has seen: one at least is a version that suffices, and none
\* is in the way.
LEMMA CheckSaw ==
  ASSUME ForwardOnly, GateInv, NEW n \in DOMAIN Checks,
         checkSinglePodVersion(podCache, Checks[n])
  PROVE  /\ \E t \in Tags(podCache, Checks[n]) :
               Versioned(t) /\ ~(t.version < Checks[n].minVersion)
         /\ \A t \in Tags(podCache, Checks[n]) :
               IF Versioned(t) THEN ~(t.version < Checks[n].minVersion)
                               ELSE ~Checks[n].strictMode
  <1> DEFINE c == Checks[n]
  <1>1. \A t \in Tags(podCache, c) :
           IF Versioned(t) THEN ~(t.version < c.minVersion) ELSE ~c.strictMode
    BY DEF checkSinglePodVersion, failedPods
  <1>2. Tags(podCache, c) # {}
    <2>1. PICK p \in Listed(podCache, c) : TRUE
      BY DEF checkSinglePodVersion
    <2>2. podCache[p] \in Templates
      BY <2>1 DEF Listed, GateInv, TypeOK
    <2>3. PICK i \in Examined(podCache[p], c) : TRUE
      BY <2>2, RolloutAssumption
    <2>4. podCache[p][i].tag \in Tags(podCache, c)
      BY <2>1, <2>3 DEF Tags
    <2> QED BY <2>4
  <1>3. \E t \in Tags(podCache, c) : Versioned(t)
    <2>1. CASE skippedPods(podCache, c) = {}
      BY <1>1, <1>2, <2>1 DEF skippedPods
    <2>2. CASE skippedPods(podCache, c) # {}
      <3>1. skippedPods(podCache, c) # Tags(podCache, c)
        BY <2>2 DEF checkSinglePodVersion
      <3>2. \E t \in Tags(podCache, c) : t \notin skippedPods(podCache, c)
        BY <3>1 DEF skippedPods
      <3> QED BY <1>1, <3>2 DEF skippedPods
    <2> QED BY <2>1, <2>2
  <1> QED BY <1>1, <1>3

\* A check that passes on the cache has reached its minimum among what really runs.
LEMMA CheckReached ==
  ASSUME ForwardOnly, GateInv, NEW n \in DOMAIN Checks,
         checkSinglePodVersion(podCache, Checks[n])
  PROVE  Reached(Checks[n])
  <1> DEFINE c == Checks[n]
  <1>1. PICK t \in Tags(podCache, c) : Versioned(t) /\ ~(t.version < c.minVersion)
    BY CheckSaw
  <1>2. PICK q \in Listed(podCache, c) :
           \E i \in Examined(podCache[q], c) : t = podCache[q][i].tag
    BY <1>1 DEF Tags
  <1>3. PICK j \in Examined(podCache[q], c) : t = podCache[q][j].tag
    BY <1>2
  <1>4. /\ q \in Pods /\ podCache[q] # Absent /\ podCache[q] \in Templates
        /\ AppOf[q] = c.app /\ j \in DOMAIN podCache[q]
    BY <1>2, <1>3 DEF Listed, Examined, GateInv, TypeOK
  <1>5. t.version \in Nat /\ c.minVersion \in Nat /\ newest[c.app] \in Nat
    BY <1>3, <1>4, GateAssumption, CheckTypes DEF GateInv, TypeOK
  <1>6. t.version <= newest[c.app] /\ c.minVersion <= t.version
    BY <1>1, <1>3, <1>4, <1>5 DEF GateInv, Covered
  <1>7. ASSUME NEW p \in Listed(pods, c), NEW i \in Examined(pods[p], c)
        PROVE  IF Versioned(pods[p][i].tag) THEN pods[p][i].tag.version >= c.minVersion
                                            ELSE ~c.strictMode
    <2>1. /\ p \in Pods /\ pods[p] # Absent /\ pods[p] \in Templates
          /\ AppOf[p] = c.app /\ i \in DOMAIN pods[p]
          /\ pods[p][i].tag.version \in Nat
      BY <1>7, GateAssumption DEF Listed, Examined, GateInv, TypeOK
    <2>2. CASE pods[p] = podCache[p]
      <3>1. p \in Listed(podCache, c)
        BY <2>1, <2>2 DEF Listed
      <3>2. pods[p][i].tag \in Tags(podCache, c)
        BY <1>7, <2>2, <3>1 DEF Tags
      <3> QED BY <1>5, <2>1, <3>2, CheckSaw
    <2>3. CASE pods[p] # podCache[p]
      <3>1. t.version <= pods[p][i].tag.version
        BY <1>3, <1>4, <2>1, <2>3 DEF GateInv, Rises
      <3>2. pods[p][i].tag.version >= c.minVersion
        BY <1>5, <1>6, <2>1, <3>1
      <3>3. ~(pods[p][i].tag.version < c.minVersion)
        BY <1>5, <2>1, <3>2
      <3> QED BY <1>7, <2>1, <3>2, <3>3, RolloutAssumption
    <2> QED BY <2>2, <2>3
  <1>8. Compliant(pods, c)
    BY <1>7 DEF Compliant
  <1> QED BY <1>5, <1>6, <1>8 DEF Reached

----------------------------------------------------------------------------
(* The invariant holds always *)

LEMMA GateInit == Init => GateInv
  <1> SUFFICES ASSUME Init PROVE GateInv
    OBVIOUS
  <1>1. TypeOK
    BY CheckTypes DEF Init, TypeOK
  <1> QED BY <1>1 DEF Init, GateInv, Covered, Rises

\* What a check has reached stays reached when a pod starts that is no older than
\* what its app runs already.
LEMMA StartKeepsReached ==
  ASSUME ForwardOnly, GateInv, NEW p \in Pods, NEW t \in Templates, StartPod(p, t),
         NEW n \in DOMAIN Checks, Reached(Checks[n])
  PROVE  Reached(Checks[n])'
  <1> DEFINE c == Checks[n]
  <1>1. /\ pods \in [Pods -> Templates \cup {Absent}]
        /\ newest \in [Apps -> Nat] /\ AppOf[p] \in Apps
        /\ c.app \in Apps /\ c.minVersion \in Nat
    BY CheckTypes DEF GateInv, TypeOK, Apps
  <1>2. Newest(t) \in Nat
    BY NewestOf
  <1>3. newest'[c.app] >= newest[c.app] /\ newest'[c.app] \in Nat
    BY <1>1, <1>2 DEF StartPod
  <1>4. newest'[c.app] >= c.minVersion
    BY <1>1, <1>3 DEF Reached
  <1>5. ASSUME NEW q \in Listed(pods', c), NEW i \in Examined(pods'[q], c)
        PROVE  IF Versioned(pods'[q][i].tag) THEN pods'[q][i].tag.version >= c.minVersion
                                             ELSE ~c.strictMode
    <2>1. CASE q # p
      <3>1. pods'[q] = pods[q] /\ q \in Listed(pods, c)
        BY <1>1, <1>5, <2>1 DEF StartPod, Listed
      <3> QED BY <1>5, <3>1 DEF Reached, Compliant
    <2>2. CASE q = p
      <3>1. pods'[q] = t /\ AppOf[p] = c.app /\ i \in DOMAIN t
        BY <1>1, <1>5, <2>2 DEF StartPod, Listed, Examined
      <3>2. t[i].tag.version \in Nat /\ t[i].tag.version >= newest[c.app]
        BY <3>1, GateAssumption DEF StartPod
      <3>3. t[i].tag.version >= c.minVersion
        BY <1>1, <3>2 DEF Reached
      <3>4. ~(t[i].tag.version < c.minVersion)
        BY <1>1, <3>2, <3>3
      <3> QED BY <1>5, <3>1, <3>3, <3>4, RolloutAssumption
    <2> QED BY <2>1, <2>2
  <1>6. Compliant(pods', c)
    BY <1>5 DEF Compliant
  <1> QED BY <1>4, <1>6 DEF Reached, Compliant

\* A new pod is covered by what becomes its app's newest version, and no older than
\* what is listed of its app.
LEMMA StartKeeps ==
  ASSUME GateInv, NEW p \in Pods, NEW t \in Templates, StartPod(p, t)
  PROVE  GateInv'
  <1>1. /\ pods \in [Pods -> Templates \cup {Absent}]
        /\ podCache \in [Pods -> Templates \cup {Absent}]
        /\ newest \in [Apps -> Nat] /\ next \in 1..(Len(Checks) + 1)
        /\ AppOf \in [Pods -> Apps]
    BY GateAssumption DEF GateInv, TypeOK, Apps
  <1>2. /\ Newest(t) \in Nat \ {0} /\ t # Absent
        /\ \A i \in DOMAIN t : t[i].tag.version <= Newest(t) /\ t[i].tag.version \in Nat
    BY NewestOf, GateAssumption
  <1>3. /\ pods' = [pods EXCEPT ![p] = t]
        /\ podCache' = podCache /\ next' = next
        /\ newest' \in [Apps -> Nat]
        /\ \A a \in Apps : newest[a] <= newest'[a]
        /\ Newest(t) <= newest'[AppOf[p]]
    BY <1>1, <1>2 DEF StartPod
  <1>4. TypeOK'
    BY <1>1, <1>3 DEF TypeOK
  <1>5. \A q \in Pods : podCache[q] # Absent =>
           \A i \in DOMAIN podCache[q] :
              /\ podCache[q][i].tag.version \in Nat
              /\ podCache[q][i].tag.version <= newest[AppOf[q]]
    BY <1>1, GateAssumption DEF GateInv, Covered
  <1>6. \A q \in Pods : pods[q] # Absent =>
           \A i \in DOMAIN pods[q] :
              /\ pods[q][i].tag.version \in Nat
              /\ pods[q][i].tag.version <= newest[AppOf[q]]
    BY <1>1, GateAssumption DEF GateInv, Covered
  <1>7. Covered(podCache)'
    BY <1>1, <1>3, <1>5 DEF Covered
  <1>8. Covered(pods)'
    <2>1. \A q \in Pods \ {p} : pods'[q] = pods[q]
      BY <1>1, <1>3
    <2>2. pods'[p] = t
      BY <1>1, <1>3
    <2> QED BY <1>1, <1>2, <1>3, <1>6, <2>1, <2>2 DEF Covered
  <1>9. \A i \in 1..(next' - 1) : i \in DOMAIN Checks
    BY <1>1, <1>3, CheckTypes
  <1>10. \A i \in 1..(next' - 1) : newest'[Checks[i].app] > 0
    BY <1>1, <1>3, <1>9, CheckTypes DEF GateInv
  <1>11. ASSUME ForwardOnly
         PROVE  Rises' /\ \A i \in 1..(next' - 1) : Reached(Checks[i])'
    <2>1. \A i \in 1..(next' - 1) : Reached(Checks[i])'
      BY <1>3, <1>9, <1>11, StartKeepsReached DEF GateInv
    <2>2. ASSUME NEW o \in Pods, NEW q \in Pods, pods'[o] # Absent, podCache[q] # Absent,
                 AppOf[o] = AppOf[q], pods'[o] # podCache[o],
                 NEW i \in DOMAIN pods'[o], NEW j \in DOMAIN podCache[q]
          PROVE  podCache[q][j].tag.version <= pods'[o][i].tag.version
      <3>1. CASE o # p
        BY <1>1, <1>3, <1>11, <2>2, <3>1 DEF GateInv, Rises
      <3>2. CASE o = p
        <4>1. pods'[o] = t
          BY <1>1, <1>3, <3>2
        <4>2. t[i].tag.version >= newest[AppOf[q]] /\ t[i].tag.version \in Nat
          BY <1>2, <1>11, <2>2, <3>2, <4>1 DEF StartPod
        <4> QED BY <1>1, <1>5, <2>2, <4>1, <4>2
      <3> QED BY <3>1, <3>2
    <2>3. Rises'
      BY <1>3, <2>2 DEF Rises
    <2> QED BY <2>1, <2>3
  <1> QED BY <1>4, <1>7, <1>8, <1>10, <1>11 DEF GateInv

\* A pod less is in nobody's way.
LEMMA StopKeeps ==
  ASSUME GateInv, NEW p \in Pods, StopPod(p)
  PROVE  GateInv'
  <1>1. /\ pods \in [Pods -> Templates \cup {Absent}]
        /\ pods' = [pods EXCEPT ![p] = Absent]
        /\ podCache' = podCache /\ newest' = newest /\ next' = next
    BY DEF GateInv, TypeOK, StopPod
  <1>2. \A q \in Pods : pods'[q] # Absent => pods'[q] = pods[q]
    BY <1>1
  <1>3. TypeOK'
    BY <1>1 DEF GateInv, TypeOK
  <1>4. Covered(pods)' /\ Covered(podCache)'
    BY <1>1, <1>2 DEF GateInv, Covered
  <1>5. ASSUME NEW c, Compliant(pods, c)
        PROVE  Compliant(pods', c)
    BY <1>2, <1>5 DEF Compliant, Listed
  <1>6. ASSUME NEW c, Reached(c)
        PROVE  Reached(c)'
    BY <1>1, <1>5, <1>6 DEF Reached
  <1>7. Rises => Rises'
    BY <1>1, <1>2 DEF Rises
  <1> QED BY <1>1, <1>3, <1>4, <1>6, <1>7 DEF GateInv

\* A fresh cache shows every pod; a later list of checks begins with nothing passed.
LEMMA SyncKeeps ==
  ASSUME GateInv, podCache' = pods, pods' = pods, newest' = newest, next' \in {1, next}
  PROVE  GateInv'
  <1>1. TypeOK'
    BY CheckTypes DEF GateInv, TypeOK
  <1>2. Covered(pods)' /\ Covered(podCache)'
    BY DEF GateInv, Covered
  <1>3. Rises'
    BY DEF Rises
  <1>4. \A i \in 1..(next' - 1) : i \in 1..(next - 1)
    <2>1. CASE next' = 1
      BY <2>1
    <2>2. CASE next' = next
      BY <2>2
    <2> QED BY <2>1, <2>2
  <1>5. \A i \in 1..(next' - 1) : newest'[Checks[i].app] > 0
    BY <1>4 DEF GateInv
  <1>6. ForwardOnly => \A i \in 1..(next' - 1) : Reached(Checks[i])'
    BY <1>4 DEF GateInv, Reached, Compliant
  <1> QED BY <1>1, <1>2, <1>3, <1>5, <1>6 DEF GateInv

\* A check that passes joins those that have.
LEMMA PassKeeps ==
  ASSUME GateInv, CheckPasses
  PROVE  GateInv'
  <1>1. /\ pods' = pods /\ podCache' = podCache /\ newest' = newest
        /\ next \in DOMAIN Checks /\ next' = next + 1 /\ next \in Nat
        /\ checkSinglePodVersion(podCache, Checks[next])
    BY CheckTypes DEF CheckPasses
  <1>2. TypeOK'
    BY <1>1, CheckTypes DEF GateInv, TypeOK
  <1>3. Covered(pods)' /\ Covered(podCache)' /\ (Rises => Rises')
    BY <1>1 DEF GateInv, Covered, Rises
  <1>4. \A i \in 1..(next' - 1) : i \in 1..(next - 1) \/ i = next
    BY <1>1
  <1>5. \A i \in 1..(next' - 1) : newest'[Checks[i].app] > 0
    BY <1>1, <1>4, CheckRolled DEF GateInv
  <1>6. ForwardOnly => Reached(Checks[next])
    BY <1>1, CheckReached
  <1>7. ForwardOnly => \A i \in 1..(next' - 1) : Reached(Checks[i])'
    BY <1>1, <1>4, <1>6 DEF GateInv, Reached
  <1> QED BY <1>2, <1>3, <1>5, <1>7 DEF GateInv

\* Starting over loses what has passed and nothing else.
LEMMA RestartKeeps ==
  ASSUME GateInv, pods' = pods, podCache' = podCache, newest' = newest,
         next' \in {1, next}
  PROVE  GateInv'
  <1>1. TypeOK'
    BY CheckTypes DEF GateInv, TypeOK
  <1>2. Covered(pods)' /\ Covered(podCache)' /\ (Rises => Rises')
    BY DEF GateInv, Covered, Rises
  <1>3. \A i \in 1..(next' - 1) : i \in 1..(next - 1)
    <2>1. CASE next' = 1
      BY <2>1
    <2>2. CASE next' = next
      BY <2>2
    <2> QED BY <2>1, <2>2
  <1>4. \A i \in 1..(next' - 1) : newest'[Checks[i].app] > 0
    BY <1>3 DEF GateInv
  <1>5. ForwardOnly => \A i \in 1..(next' - 1) : Reached(Checks[i])'
    BY <1>3 DEF GateInv, Reached, Compliant
  <1> QED BY <1>1, <1>2, <1>4, <1>5 DEF GateInv

LEMMA GateStep == GateInv /\ [Next]_vars => GateInv'
  <1> SUFFICES ASSUME GateInv, [Next]_vars PROVE GateInv'
    OBVIOUS
  <1>1. CASE \E p \in Pods : StopPod(p)
    BY <1>1, StopKeeps
  <1>2. CASE \E p \in Pods, t \in Templates : StartPod(p, t)
    BY <1>2, StartKeeps
  <1>3. CASE SyncPods
    BY <1>3, SyncKeeps DEF SyncPods
  <1>4. CASE CheckPasses
    BY <1>4, PassKeeps
  <1>5. CASE CheckFails
    BY <1>5, RestartKeeps DEF CheckFails
  <1>6. CASE CreateJob
    BY <1>6, RestartKeeps DEF CreateJob
  <1>7. CASE Restart
    BY <1>7, SyncKeeps DEF Restart
  <1>8. CASE UNCHANGED vars
    BY <1>8, RestartKeeps DEF vars
  <1> QED BY <1>1, <1>2, <1>3, <1>4, <1>5, <1>6, <1>7, <1>8 DEF Next

LEMMA GateAlways == Spec => []GateInv
  BY GateInit, GateStep, PTL DEF Spec

\* README, checks.pre.minPodVersions: whatever the rollouts do, when the Job is created
\* every app a check names has been rolled out, although it was looked up in a cache.
THEOREM WaitsForPods == Spec => JobWaitsForPods
  <1>1. GateInv /\ CreateJob => \A i \in DOMAIN Checks : newest[Checks[i].app] > 0
    BY CheckTypes DEF GateInv, CreateJob
  <1> QED BY <1>1, GateAlways, PTL DEF JobWaitsForPods

\* "Block migrations until all pods are running the required version": with forward
\* rollouts, the pods that run when the Job is created comply with every check, for any
\* number of checks, pods and apps and any delay of the cache.
THEOREM StartsAboveMinimum ==
  ASSUME ForwardOnly
  PROVE  Spec => JobStartsAboveMinimum
  <1>1. GateInv /\ CreateJob => \A i \in DOMAIN Checks : Compliant(pods, Checks[i])
    BY CheckTypes DEF GateInv, CreateJob, Reached
  <1> QED BY <1>1, GateAlways, PTL DEF JobStartsAboveMinimum
=============================================================================

------------------------ MODULE TokenLifetime_proofs ------------------------
(***************************************************************************)
(* No container starts with an expired token, for every validity, deadline *)
(* and delay the assumption of TokenLifetime allows.  The invariant bounds *)
(* the token of a pending Job twice: by the age of the Job, which is all a *)
(* short deadline needs, and by the time until the next renewal.           *)
(***************************************************************************)
EXTENDS TokenLifetime, TLAPS

\* What the assumption says, in the form the steps use.
LEMMA Parameters ==
  /\ Validity \in Nat /\ Validity > 0 /\ None \notin Nat /\ DefaultDeadline \in Nat
  /\ \A d \in Deadlines \cup {DefaultDeadline} : d \in Nat
  /\ Requeue \in Nat /\ Requeue > 0 /\ MaxCall \in Nat /\ MaxOutage \in Nat
  /\ MaxCall + Requeue + MaxCall + MaxOutage < Validity
  /\ MaxCall < Validity
  BY LifetimeAssumption

\* A bounded counter stays in its range and grows by one at most.
LEMMA GrowBounds ==
  ASSUME NEW max \in Nat, NEW n \in 0..max
  PROVE  /\ Grow(n, max) \in 0..max /\ n <= Grow(n, max) /\ Grow(n, max) <= n + 1
         /\ n < max => Grow(n, max) = n + 1
  BY DEF Grow

\* A tick moves a token towards its renewal: what it gains in age the wait loses.
LEMMA Shift ==
  ASSUME NEW a \in Nat, NEW w \in Nat, NEW b \in Nat, NEW v \in Nat, NEW bound \in Nat,
         a + w <= bound, b <= a + 1, v = w - 1
  PROVE  b + v <= bound
  OBVIOUS

\* Two bounds add up.
LEMMA Add ==
  ASSUME NEW a \in Nat, NEW b \in Nat, NEW c \in Nat, NEW d \in Nat, a <= c, b <= d
  PROVE  a + b <= c + d
  OBVIOUS

\* There is no Job and no token at first.
LEMMA InitInv == Init => Inv
  <1> SUFFICES ASSUME Init PROVE Inv
    OBVIOUS
  <1>1. TypeOK
    <2>1. Validity \in 0..Validity /\ 0 \in 0..MaxOutage /\ 0 \in 0..MaxCall
          /\ 0 \in 0..Requeue /\ 0 \in 0..DefaultDeadline
      BY Parameters
    <2> QED BY <2>1 DEF Init, TypeOK
  <1>2. TokenBounded /\ ConnectsWithLiveToken
    BY DEF Init, TokenBounded, ConnectsWithLiveToken
  <1> QED BY <1>1, <1>2 DEF Inv

\* The two bounds of a token that a starting container reads: the Job is young, or
\* the next renewal was due and no outage lasted.
LEMMA PendingIsLive ==
  ASSUME Inv, phase = "pending"
  PROVE  age < Validity
  <1>1. /\ age \in 0..Validity /\ outage \in 0..MaxOutage /\ call \in 0..MaxCall
        /\ deadline \in Nat /\ jobAge \in 0..deadline
        /\ wake \in 0..Requeue \cup {None}
        /\ pc \in {"idle", "secret", "job"} /\ missed \in BOOLEAN
    BY Parameters DEF Inv, TypeOK
  <1>2. CASE Short(deadline)
    BY <1>1, <1>2, Parameters DEF Inv, TokenBounded, Short
  <1>3. CASE ~Short(deadline) /\ missed
    BY <1>1, <1>3, Parameters DEF Inv, TokenBounded
  <1>4. CASE ~missed
    <2>1. CASE pc = "idle"
      <3>1. wake \in 0..Requeue /\ age + wake <= MaxCall + Requeue
        BY <1>1, <1>4, <2>1 DEF Inv, TokenBounded, RenewalDue
      <3> QED BY <1>1, <3>1, Parameters
    <2>2. CASE pc = "secret"
      BY <1>1, <1>4, <2>2, Parameters DEF Inv, TokenBounded, RenewalDue
    <2>3. CASE pc = "job"
      BY <1>1, <2>3, Parameters DEF Inv, TokenBounded
    <2> QED BY <1>1, <2>1, <2>2, <2>3
  <1> QED BY <1>1, <1>2, <1>3, <1>4

\* The bound that outlasts a missed renewal holds before it is missed.
LEMMA BeforeMissed ==
  ASSUME Inv, phase = "pending"
  PROVE  Short(deadline) \/ age <= MaxCall + Requeue + MaxCall + outage
  <1>1. /\ age \in 0..Validity /\ outage \in 0..MaxOutage /\ call \in 0..MaxCall
        /\ wake \in 0..Requeue \cup {None}
        /\ pc \in {"idle", "secret", "job"} /\ missed \in BOOLEAN
    BY DEF Inv, TypeOK
  <1>2. CASE missed
    BY <1>2 DEF Inv, TokenBounded
  <1>3. CASE ~missed
    <2>1. CASE pc = "idle"
      <3>1. wake \in 0..Requeue /\ age + wake <= MaxCall + Requeue
        BY <1>1, <1>3, <2>1 DEF Inv, TokenBounded, RenewalDue
      <3> QED BY <1>1, <3>1, Parameters
    <2>2. CASE pc = "secret"
      BY <1>1, <1>3, <2>2, Parameters DEF Inv, TokenBounded, RenewalDue
    <2>3. CASE pc = "job"
      BY <1>1, <2>3, Parameters DEF Inv, TokenBounded
    <2> QED BY <1>1, <2>1, <2>2, <2>3
  <1> QED BY <1>1, <1>2, <1>3

\* Time passes: what was due is due a tick earlier, what lasted a tick longer.
LEMMA TickInv ==
  ASSUME Inv, Tick
  PROVE  Inv'
  <1>1. /\ age \in 0..Validity /\ outage \in 0..MaxOutage /\ call \in 0..MaxCall
        /\ deadline \in Nat /\ jobAge \in 0..deadline
        /\ wake \in 0..Requeue \cup {None}
        /\ pc \in {"idle", "secret", "job"} /\ missed \in BOOLEAN
    BY Parameters DEF Inv, TypeOK
  <1>2. /\ age' \in 0..Validity /\ age <= age' /\ age' <= age + 1
        /\ age < Validity => age' = age + 1
    BY <1>1, Parameters, GrowBounds DEF Tick
  <1>3. /\ outage' \in 0..MaxOutage
        /\ missed /\ outage < MaxOutage => outage' = outage + 1
    BY <1>1, Parameters, GrowBounds DEF Tick
  <1>4. /\ call' \in 0..MaxCall
        /\ pc # "idle" => call' = call + 1
    BY <1>1, Parameters DEF Tick
  <1>5. wake' \in 0..Requeue \cup {None}
    BY <1>1, Parameters DEF Tick
  <1>6. /\ jobAge' \in 0..deadline /\ jobAge <= jobAge'
        /\ phase = "pending" => jobAge' = jobAge + 1
    BY <1>1 DEF Tick, Underway
  <1>7. UNCHANGED <<missed, up, pc, phase, deadline, used, changed>>
    BY DEF Tick
  <1>8. TypeOK'
    BY <1>2, <1>3, <1>4, <1>5, <1>6, <1>7 DEF Inv, TypeOK
  <1>9. pc' # "idle" => up'
    BY <1>7 DEF Inv, TokenBounded
  <1>10. pc' = "job" => age' = call' /\ ~missed'
    <2> SUFFICES ASSUME pc = "job" PROVE age' = call' /\ ~missed'
      BY <1>7
    <2>1. age = call /\ ~missed /\ call < MaxCall
      BY DEF Inv, TokenBounded, Tick
    <2>2. age < Validity /\ call' = call + 1
      BY <1>1, <1>4, <2>1, Parameters
    <2>3. age' = age + 1
      BY <1>2, <2>2
    <2> QED BY <1>7, <2>1, <2>2, <2>3
  <1>11. ASSUME phase = "pending"
         PROVE  /\ age' <= jobAge' + MaxCall
                /\ ~missed => RenewalDue'
                /\ missed => Short(deadline) \/ age' <= MaxCall + Requeue + MaxCall + outage'
    <2>1. age' <= jobAge' + MaxCall
      BY <1>1, <1>2, <1>6, <1>11, Parameters DEF Inv, TokenBounded
    <2>2. ASSUME ~missed PROVE RenewalDue'
      <3>1. up /\ RenewalDue
        BY <1>11, <2>2 DEF Inv, TokenBounded, RenewalDue
      <3>2. ASSUME pc = "idle"
            PROVE  wake' # None /\ age' + wake' <= MaxCall + Requeue
        <4>1. wake \in 1..Requeue /\ wake' = wake - 1
          BY <1>1, <3>1, <3>2, Parameters DEF Tick, RenewalDue
        <4>2. age + wake <= MaxCall + Requeue
          BY <3>1, <3>2 DEF RenewalDue
        <4>3. age \in Nat /\ age' \in Nat /\ age' <= age + 1
          BY <1>1, <1>2, Parameters
        <4>4. wake' \in Nat
          BY <4>1
        <4>5. wake' # None
          BY <4>4, Parameters, Zenon
        <4>6. age' + wake' <= MaxCall + Requeue
          <5>1. MaxCall + Requeue \in Nat /\ wake \in Nat
            BY <4>1, Parameters
          <5> QED BY <4>1, <4>2, <4>3, <4>4, <5>1, Shift, Zenon
        <4> QED BY <4>5, <4>6
      <3>3. ASSUME pc = "secret"
            PROVE  age' <= MaxCall + Requeue + call'
        BY <1>1, <1>2, <1>4, <3>1, <3>3, Parameters DEF RenewalDue
      <3> QED BY <1>7, <3>1, <3>2, <3>3 DEF RenewalDue
    <2>3. ASSUME missed, ~Short(deadline)
          PROVE  age' <= MaxCall + Requeue + MaxCall + outage'
      <3>1. outage' = outage + 1
        BY <1>3, <1>11, <2>3 DEF Tick, Tolerable
      <3> QED BY <1>1, <1>2, <1>11, <2>3, <3>1, Parameters DEF Inv, TokenBounded
    <2> QED BY <2>1, <2>2, <2>3
  <1>12. TokenBounded'
    BY <1>7, <1>9, <1>10, <1>11 DEF TokenBounded, Short
  <1> QED BY <1>7, <1>8, <1>12 DEF Inv, ConnectsWithLiveToken

\* A renewal is missed: the outage begins, or goes on.
LEMMA MissedInv ==
  ASSUME Inv, Missed, pc' = "idle", call' = 0, up' \in BOOLEAN,
         wake' \in 0..Requeue \cup {None}, UNCHANGED <<job, changed>>
  PROVE  Inv'
  <1>1. TypeOK'
    <2>1. 0 \in 0..MaxCall
      BY Parameters
    <2>2. UNCHANGED <<age, outage, phase, deadline, jobAge, used, changed>>
      BY DEF Missed, job
    <2>3. missed' \in BOOLEAN
      BY DEF Missed
    <2> QED BY <2>1, <2>2, <2>3 DEF Inv, TypeOK
  <1>2. phase = "pending" => Short(deadline) \/ age <= MaxCall + Requeue + MaxCall + outage
    BY BeforeMissed
  <1>3. TokenBounded'
    BY <1>2 DEF Inv, TokenBounded, Missed, job, Short
  <1> QED BY <1>1, <1>3 DEF Inv, ConnectsWithLiveToken, job

\* The reconcile is over and the token it wrote young.
LEMMA ComesBackInv ==
  ASSUME Inv, pc = "job", ComesBack, UNCHANGED <<renewal, job, changed>>
  PROVE  Inv'
  <1>1. age \in 0..MaxCall /\ ~missed /\ up
    BY DEF Inv, TypeOK, TokenBounded
  <1>2. /\ pc' = "idle" /\ call' = 0 /\ wake' \in 1..Requeue
        /\ UNCHANGED <<up, age, missed, outage, phase, deadline, jobAge, used, changed>>
    BY DEF ComesBack, Done, renewal, job
  <1>3. TypeOK'
    BY <1>2, Parameters DEF Inv, TypeOK
  <1>4. wake' # None /\ age' + wake' <= MaxCall + Requeue
    <2>1. wake' \in Nat
      BY <1>2
    <2>2. wake' # None
      BY <2>1, Parameters, Zenon
    <2>3. age' + wake' <= MaxCall + Requeue
      <3>1. age' \in Nat /\ age' <= MaxCall /\ wake' <= Requeue
        BY <1>1, <1>2, Parameters
      <3>2. MaxCall \in Nat /\ Requeue \in Nat
        BY Parameters
      <3> QED BY <2>1, <3>1, <3>2, Add, Zenon
    <2> QED BY <2>2, <2>3
  <1>5. TokenBounded'
    BY <1>1, <1>2, <1>4 DEF Inv, TokenBounded, RenewalDue
  <1> QED BY <1>2, <1>3, <1>5 DEF Inv, ConnectsWithLiveToken

\* One lemma for each group of actions.  The manager renews the token.
LEMMA RenewalInv ==
  ASSUME Inv, GenerateRDSAuthToken \/ WriteSecret
  PROVE  Inv'
  <1>1. /\ age \in 0..Validity /\ call \in 0..MaxCall /\ wake \in 0..Requeue \cup {None}
        /\ 0 \in 0..MaxCall /\ 0 \in 0..MaxOutage /\ jobAge \in Nat
    BY Parameters DEF Inv, TypeOK
  <1>2. CASE GenerateRDSAuthToken
    <2>1. TypeOK'
      BY <1>1, <1>2 DEF Inv, TypeOK, GenerateRDSAuthToken, renewal, job
    <2>2. phase = "pending" /\ ~missed => age <= MaxCall + Requeue + 0
      <3> SUFFICES ASSUME phase = "pending", ~missed
                   PROVE  age <= MaxCall + Requeue + 0
        OBVIOUS
      <3>1. wake = 0 /\ age + wake <= MaxCall + Requeue
        BY <1>2 DEF Inv, TokenBounded, RenewalDue, GenerateRDSAuthToken
      <3> QED BY <1>1, <3>1, Parameters
    <2>3. TokenBounded'
      BY <1>2, <2>2
         DEF Inv, TokenBounded, RenewalDue, GenerateRDSAuthToken, renewal, job, Short
    <2> QED BY <1>2, <2>1, <2>3
            DEF Inv, ConnectsWithLiveToken, GenerateRDSAuthToken, job
  <1>3. CASE WriteSecret
    <2>1. /\ age' = call /\ missed' = FALSE /\ outage' = 0 /\ pc' = "job" /\ up
          /\ UNCHANGED <<up, call, wake, phase, deadline, jobAge, used, changed>>
      BY <1>3 DEF WriteSecret, TokenWritten, job, Inv, TokenBounded
    <2>2. call \in 0..Validity /\ call <= MaxCall
      BY <1>1, Parameters
    <2>3. call <= jobAge + MaxCall
      BY <1>1, <2>2, Parameters
    <2>4. TypeOK'
      BY <1>1, <2>1, <2>2 DEF Inv, TypeOK
    <2>5. TokenBounded'
      BY <2>1, <2>3 DEF Inv, TokenBounded, RenewalDue
    <2> QED BY <2>1, <2>4, <2>5 DEF Inv, ConnectsWithLiveToken
  <1> QED BY <1>2, <1>3

\* The manager misses a renewal, or dies.
LEMMA MissesInv ==
  ASSUME Inv, GenerateFails \/ WriteSecretFails \/ ManagerDies
  PROVE  Inv'
  <1>1. up \in BOOLEAN /\ FALSE \in BOOLEAN
    BY DEF Inv, TypeOK
  <1>2. CASE GenerateFails \/ WriteSecretFails
    <2>1. pc' = "idle" /\ call' = 0 /\ up' = up /\ wake' \in 1..Requeue
      BY <1>2 DEF GenerateFails, WriteSecretFails, ComesBack, Done
    <2>2. wake' \in 0..Requeue \cup {None}
      BY <2>1, Parameters
    <2> QED BY <1>1, <1>2, <2>1, <2>2, MissedInv DEF GenerateFails, WriteSecretFails
  <1>3. CASE ManagerDies
    BY <1>1, <1>3, MissedInv DEF ManagerDies
  <1> QED BY <1>2, <1>3

\* The reconcile waits for a Job, deletes one, creates one or reports how it ended.
LEMMA JobStepInv ==
  ASSUME Inv, Wait \/ DeleteJob \/ CreateJob \/ ReportJob
  PROVE  Inv'
  <1>1. /\ age \in 0..MaxCall /\ ~missed /\ up /\ pc = "job"
        /\ 0 \in 0..MaxCall /\ \A d \in Deadlines \cup {DefaultDeadline} : 0 \in 0..d
    BY Parameters
       DEF Inv, TypeOK, TokenBounded, Wait, DeleteJob, CreateJob, ReportJob
  <1>2. CASE Wait \/ (ReportJob /\ ComesBack)
    BY <1>1, <1>2, ComesBackInv DEF Wait, ReportJob
  <1>3. CASE ReportJob /\ Done /\ wake' = None
    <2>1. TypeOK'
      BY <1>1, <1>3 DEF Inv, TypeOK, ReportJob, Done, renewal, job
    <2>2. TokenBounded'
      BY <1>1, <1>3 DEF Inv, TokenBounded, ReportJob, Done, renewal, job
    <2> QED BY <1>3, <2>1, <2>2 DEF Inv, ConnectsWithLiveToken, ReportJob, job
  <1>4. CASE DeleteJob \/ CreateJob
    <2>1. /\ pc' = "idle" /\ call' = 0 /\ wake' \in 1..Requeue /\ wake' \in Nat
          /\ UNCHANGED <<up, age, missed, outage>> /\ jobAge' = 0 /\ used' = None
          /\ changed' \in BOOLEAN /\ phase' \in {"absent", "pending"}
          /\ deadline' \in Deadlines \cup {DefaultDeadline}
      <3>1. pc' = "idle" /\ call' = 0 /\ wake' \in 1..Requeue /\ up' = up
        BY <1>4 DEF DeleteJob, CreateJob, ComesBack, Done
      <3>2. wake' \in Nat
        BY <3>1
      <3>3. /\ UNCHANGED <<age, missed, outage>> /\ jobAge' = 0 /\ used' = None
            /\ phase' \in {"absent", "pending"}
        BY <1>4 DEF DeleteJob, CreateJob, renewal
      <3>4. changed' \in BOOLEAN /\ deadline' \in Deadlines \cup {DefaultDeadline}
        BY <1>4 DEF DeleteJob, CreateJob, Inv, TypeOK
      <3> QED BY <3>1, <3>2, <3>3, <3>4
    <2>2. wake' \in 0..Requeue \cup {None}
      BY <2>1
    <2>3. TypeOK'
      BY <1>1, <2>1, <2>2 DEF Inv, TypeOK
    <2>4. wake' # None
      BY <2>1, Parameters, Zenon
    <2>5. age' \in Nat /\ age' <= MaxCall /\ wake' <= Requeue
      BY <1>1, <2>1, Parameters
    <2>6. MaxCall \in Nat /\ Requeue \in Nat /\ 0 + MaxCall = MaxCall
      BY Parameters
    <2>7. age' + wake' <= MaxCall + Requeue
      BY <2>1, <2>5, <2>6, Add, Zenon
    <2>8. TokenBounded'
      BY <1>1, <2>1, <2>4, <2>5, <2>6, <2>7 DEF TokenBounded, RenewalDue
    <2> QED BY <2>1, <2>3, <2>8 DEF Inv, ConnectsWithLiveToken
  <1> QED BY <1>2, <1>3, <1>4 DEF ReportJob

\* The key is due at once.
LEMMA DueInv ==
  ASSUME Inv, ManagerStarts \/ Event \/ ChangeSpec
  PROVE  Inv'
  <1>1. /\ age \in Nat /\ wake \in Nat \cup {None} /\ 0 \in 0..Requeue
        /\ up \in BOOLEAN /\ MaxCall + Requeue \in Nat
    BY Parameters DEF Inv, TypeOK
  <1>2. /\ UNCHANGED <<pc, call, age, missed, outage, phase, deadline, jobAge, used>>
        /\ up' \in BOOLEAN /\ changed' \in BOOLEAN
        /\ wake' \in {0, None} /\ (up' => wake' = 0)
        /\ up => up'
    <2>1. CASE ManagerStarts
      BY <2>1 DEF ManagerStarts, renewal, job, Inv, TypeOK
    <2>2. CASE Event
      BY <2>2 DEF Event, renewal, job, Inv, TypeOK
    <2>3. CASE ChangeSpec
      BY <1>1, <2>3 DEF ChangeSpec, renewal, job
    <2> QED BY <2>1, <2>2, <2>3
  <1>3. TypeOK'
    BY <1>1, <1>2 DEF Inv, TypeOK
  <1>4. 0 # None
    BY Parameters
  <1>5. ASSUME phase = "pending", ~missed, pc = "idle"
        PROVE  age + 0 <= MaxCall + Requeue
    <2>1. wake # None /\ age + wake <= MaxCall + Requeue
      BY <1>5 DEF Inv, TokenBounded, RenewalDue
    <2>2. wake \in Nat
      BY <1>1, <2>1
    <2> QED BY <1>1, <2>1, <2>2
  <1>6. TokenBounded'
    BY <1>2, <1>4, <1>5 DEF Inv, TokenBounded, RenewalDue, Short
  <1> QED BY <1>2, <1>3, <1>6 DEF Inv, ConnectsWithLiveToken

\* The container starts, or the Job is over.
LEMMA PodInv ==
  ASSUME Inv, StartContainer \/ JobEnds
  PROVE  Inv'
  <1>1. TypeOK'
    BY DEF Inv, TypeOK, StartContainer, JobEnds, manager, renewal
  <1>2. TokenBounded'
    BY DEF Inv, TokenBounded, StartContainer, JobEnds, manager, renewal
  <1>3. ConnectsWithLiveToken'
    BY PendingIsLive DEF Inv, ConnectsWithLiveToken, StartContainer, JobEnds
  <1> QED BY <1>1, <1>2, <1>3 DEF Inv

\* Every step, and every stuttering step, preserves the invariant.
LEMMA NextInv == Inv /\ [Next]_vars => Inv'
  <1> SUFFICES ASSUME Inv, [Next]_vars PROVE Inv'
    OBVIOUS
  <1>1. CASE Next
    BY <1>1, TickInv, RenewalInv, MissesInv, JobStepInv, DueInv, PodInv DEF Next
  <1>2. CASE UNCHANGED vars
    BY <1>2 DEF vars, Inv, TypeOK, TokenBounded, RenewalDue, ConnectsWithLiveToken
  <1> QED BY <1>1, <1>2

\* "Can be > 15 minutes even with RDS IAM auth" (createMigrationJob,
\* ensureMigrationSecret): whatever its deadline, a Job's container never reads a token
\* that has expired, unless renewals fail for longer than MaxOutage.
THEOREM LiveTokens == Spec => []ConnectsWithLiveToken
  <1>1. Inv => ConnectsWithLiveToken
    BY DEF Inv
  <1> QED BY InitInv, NextInv, <1>1, PTL DEF Spec
=============================================================================

--------------------------- MODULE BakeTime_proofs ---------------------------
(***************************************************************************)
(* The bake time for every length of it, retry, number of ticks to a       *)
(* second and difference of the clocks: it is kept, it is not prolonged,   *)
(* and it is measured from the migration's own completion.                 *)
(***************************************************************************)
EXTENDS BakeTime, TLAPS

----------------------------------------------------------------------------
(* Seconds and ticks *)

\* What a truncated number of seconds says of the ticks.
LEMMA Truncated ==
  ASSUME NEW t \in Int, NEW s \in Nat \ {0}
  PROVE  /\ t \div s \in Int
         /\ (t \div s) * s \in Int
         /\ (t \div s) * s <= t
         /\ t < (t \div s) * s + s
         /\ t >= 0 => t \div s \in Nat /\ t \div s <= t
         /\ t < 0 => t <= t \div s /\ t \div s <= 0
  <1> DEFINE q == t \div s
  <1>1. q \in Int /\ t % s \in 0..(s - 1) /\ t = s * q + (t % s)
    OBVIOUS
  <1>2. s * q \in Int /\ q * s = s * q
    BY <1>1
  <1>3. q * s <= t /\ t < q * s + s
    <2> DEFINE p == s * q
    <2>1. p \in Int /\ t = p + (t % s) /\ t % s \in 0..(s - 1) /\ q * s = p
      BY <1>1, <1>2
    <2> HIDE DEF p
    <2> QED BY <2>1
  <1>4. ASSUME t >= 0 PROVE q \in Nat /\ q <= t
    <2>1. q >= 0
      <3>1. SUFFICES ASSUME q <= -1 PROVE FALSE
        BY <1>1
      <3>2. q * s <= (-1) * s
        BY <1>1, <3>1
      <3> QED BY <1>2, <1>3, <1>4, <3>2
    <2>2. q <= q * s
      BY <1>1, <2>1
    <2> QED BY <1>1, <1>2, <1>3, <2>1, <2>2
  <1>5. ASSUME t < 0 PROVE t <= q /\ q <= 0
    <2>1. q <= -1
      <3>1. SUFFICES ASSUME q >= 0 PROVE FALSE
        BY <1>1
      <3>2. q * s >= 0
        BY <1>1, <3>1
      <3> QED BY <1>2, <1>3, <1>5, <3>2
    <2>2. ASSUME q < t PROVE FALSE
      <3>1. q + 1 <= t
        BY <1>1, <2>2
      <3>2. (q + 1) * s <= (q + 1)
        BY <1>1, <1>5, <3>1
      <3>3. (q + 1) * s = q * s + s
        BY <1>1
      <3> QED BY <1>1, <1>2, <1>3, <3>1, <3>2, <3>3
    <2> QED BY <1>1, <2>1, <2>2
  <1> QED BY <1>1, <1>2, <1>3, <1>4, <1>5

\* Whole seconds compare as the ticks they take.
LEMMA InTicks ==
  ASSUME NEW m \in Int, NEW n \in Int, NEW s \in Nat \ {0}
  PROVE  /\ m * s \in Int /\ n * s \in Int
         /\ m <= n => m * s <= n * s
         /\ (m + 1) * s = m * s + s
         /\ (n - m) * s = n * s - m * s
         /\ (-m) * s = -(m * s)
         /\ m >= 0 => m * s >= 0
  OBVIOUS

----------------------------------------------------------------------------
(* The inductive invariant *)

\* The Job's time is its own in whole seconds; nothing lies in the future, but for an
\* operator's clock that is ahead.
Stamped ==
  /\ completed <= now /\ since <= now
  /\ completion # None =>
       completion * Second <= completed /\ completed < completion * Second + Second
  /\ status.jobCompletedAt # None => status.jobCompletedAt * Second <= now + Ahead
  /\ result # None => result.jobCompletedAt * Second <= now + Ahead

\* t is the time of the Job at hand.
OwnTime(t) ==
  IF completion # None THEN t = completion
  ELSE completed + skew < (t + 1) * Second /\ t * Second <= now + skew

\* Nothing is evaluated or written of a Job that has not completed, and what is, is of
\* the Job at hand.
Own ==
  /\ job = "none" => status.kind = "none" /\ result = None
  /\ result # None /\ Timed => OwnTime(result.jobCompletedAt)
  /\ status.kind # "none" /\ Timed => OwnTime(status.jobCompletedAt)
  /\ status.kind # "none" => status.jobCompletedAt # None
  /\ migrations = 0 => job = "none" /\ status.jobCompletedAt = None
  /\ migrations = 1 /\ completion = None /\ status.jobCompletedAt # None =>
       OwnTime(status.jobCompletedAt)

\* A success that waits to be written was true when it was evaluated, hence now.
Kept ==
  result # None /\ result.kind = "ready" /\ Timed =>
    now + Ahead + Second > completed + Bake * Second

\* While the controller is in time, no time is later than the completion.
InTime ==
  ~late /\ job = "complete" =>
    /\ status.jobCompletedAt # None => status.jobCompletedAt * Second <= completed + Ahead
    /\ result # None => result.jobCompletedAt * Second <= completed + Ahead

\* While the controller is in time, a result not written yet was evaluated now.
Fresh ==
  ~late /\ result # None =>
    /\ result.kind = "bake" =>
         result.requeue # 0 /\ now + result.requeue * Second <= BakeEnds
    /\ result.kind = "failed" => result.requeue = Retry /\ (healthy => since = now)

\* While the controller is in time, it has work to do, or will have in time.
Prompt ==
  ~late /\ job = "complete" =>
    /\ status.kind = "none" => now = completed /\ (queued \/ result # None)
    /\ status.kind = "bake" =>
         /\ now <= BakeEnds
         /\ queued \/ result # None \/ (timer # None /\ timer <= BakeEnds)
    /\ status.kind = "failed" =>
         /\ healthy => now <= Recovered
         /\ queued \/ result # None
              \/ (timer # None
                    /\ timer <= IF healthy THEN Recovered ELSE now + Retry * Second)

BakeInv == TypeOK /\ Stamped /\ Own /\ Kept /\ InTime /\ Fresh /\ Prompt

----------------------------------------------------------------------------
(* What the invariant says of the numbers *)

\* The lengths of time, in ticks.
LEMMA Lengths ==
  /\ Second \in Nat \ {0} /\ Bake \in Nat /\ Retry \in Nat \ {0} /\ Skew \in Nat
  /\ MaxTime \in Nat /\ MaxMigrations \in Nat
  /\ Bake * Second \in Nat /\ (Bake + 1) * Second = Bake * Second + Second
  /\ Retry * Second \in Nat
  BY BakeAssumption, InTicks

LEMMA Numbers ==
  ASSUME TypeOK
  PROVE  /\ now \in Nat /\ skew \in Int /\ completed \in Nat /\ since \in Nat
         /\ -Skew <= skew /\ skew <= Skew
         /\ Ahead \in Nat /\ Behind \in Nat /\ skew = Ahead - Behind
         /\ Ahead <= Skew /\ Behind <= Skew
         /\ timer # None => timer \in Nat
         /\ result # None => result \in Result /\ result.jobCompletedAt \in Int
         /\ completion # None => completion \in Times /\ completion \in Int
         /\ status.jobCompletedAt # None =>
              status.jobCompletedAt \in Times /\ status.jobCompletedAt \in Int
         /\ BakeEnds = completed + Bake * Second + Second + Behind /\ BakeEnds \in Nat
         /\ Recovered = since + Retry * Second /\ Recovered \in Nat
  <1>1. now \in Nat /\ skew \in Int /\ completed \in Nat /\ since \in Nat
        /\ -Skew <= skew /\ skew <= Skew
    BY Lengths DEF TypeOK
  <1>2. Ahead \in Nat /\ Behind \in Nat /\ skew = Ahead - Behind
        /\ Ahead <= Skew /\ Behind <= Skew
    BY <1>1, Lengths DEF Ahead, Behind
  <1>3. BakeEnds = completed + Bake * Second + Second + Behind /\ BakeEnds \in Nat
    <2> DEFINE b == Bake * Second
    <2>1. b \in Nat /\ BakeEnds = completed + (b + Second) + Behind
      BY Lengths DEF BakeEnds
    <2> HIDE DEF b
    <2>2. BakeEnds = completed + b + Second + Behind /\ BakeEnds \in Nat
      BY <1>1, <1>2, <2>1, Lengths
    <2> QED BY <2>2 DEF b
  <1>4. Recovered = since + Retry * Second /\ Recovered \in Nat
    BY <1>1, Lengths DEF Recovered
  <1>5. \A t \in Times : t \in Int
    BY Lengths DEF Times
  <1>6. result # None => result \in Result /\ result.jobCompletedAt \in Int
    BY <1>5 DEF TypeOK, Result
  <1>7. /\ completion # None => completion \in Times
        /\ status.jobCompletedAt # None => status.jobCompletedAt \in Times
    BY DEF TypeOK
  <1> QED BY <1>1, <1>2, <1>3, <1>4, <1>5, <1>6, <1>7 DEF TypeOK

\* The time that syncJobStatus measures from is not in the operator's future.
LEMMA Measured ==
  ASSUME TypeOK, Stamped
  PROVE  /\ JobCompletedAt \in Times /\ JobCompletedAt \in Int
         /\ JobCompletedAt * Second \in Int
         /\ JobCompletedAt * Second <= now + Ahead
  <1> DEFINE present == (now + skew) \div Second
  <1>1. now + skew \in Int
    BY Numbers
  <1>2. /\ present \in Int /\ present * Second <= now + skew
        /\ now + skew >= 0 => present >= 0 /\ present <= now + skew
        /\ now + skew < 0 => now + skew <= present /\ present <= 0
    BY <1>1, Truncated, Lengths
  <1>3. present \in Times /\ present * Second <= now + Ahead
    <2>1. now <= MaxTime
      BY Lengths DEF TypeOK
    <2>2. present * Second \in Int
      BY <1>2, InTicks, Lengths
    <2> HIDE DEF present
    <2> QED BY <1>2, <2>1, <2>2, Numbers, Lengths DEF Times
  <1>4. completion # None => completion * Second \in Int /\ completion * Second <= now + Ahead
    <2>1. completion # None =>
            completion * Second \in Int /\ completion * Second <= completed /\ completed <= now
      BY Numbers, InTicks, Lengths DEF Stamped
    <2> QED BY <2>1, Numbers
  <1>5. JobCompletedAt \in Times /\ JobCompletedAt * Second <= now + Ahead
    BY <1>3, <1>4, Numbers DEF JobCompletedAt, Stamped
  <1>6. JobCompletedAt \in Int
    BY <1>5, Lengths DEF Times
  <1> QED BY <1>5, <1>6, InTicks, Lengths

\* It is the time of the Job at hand, if that has one of its own.
LEMMA MeasuredOwn ==
  ASSUME TypeOK, Stamped, Own, job = "complete", Timed
  PROVE  OwnTime(JobCompletedAt)
  <1>1. CASE completion # None
    BY <1>1 DEF JobCompletedAt, OwnTime
  <1>2. CASE completion = None /\ status.jobCompletedAt # None
    BY <1>2 DEF JobCompletedAt, OwnTime, Timed, Own
  <1>3. CASE completion = None /\ status.jobCompletedAt = None
    <2> DEFINE present == (now + skew) \div Second
    <2>1. JobCompletedAt = present
      BY <1>3 DEF JobCompletedAt
    <2>0. now + skew \in Int
      BY Numbers
    <2>2. present \in Int /\ present * Second \in Int
          /\ present * Second <= now + skew /\ now + skew < present * Second + Second
      BY <2>0, Truncated, Lengths
    <2>3. (present + 1) * Second = present * Second + Second
      BY <2>2, InTicks, Lengths
    <2> DEFINE p == present * Second
    <2>4. p \in Int /\ p <= now + skew /\ now + skew < p + Second /\ completed <= now
      BY <2>2 DEF Stamped
    <2> HIDE DEF p, present
    <2>5. completed + skew < p + Second
      BY <2>4, Numbers, Lengths
    <2> QED BY <1>3, <2>1, <2>3, <2>4, <2>5 DEF OwnTime, p
  <1> QED BY <1>1, <1>2, <1>3

\* While the controller is in time, it is not later than the completion.
LEMMA MeasuredInTime ==
  ASSUME BakeInv, ~late, job = "complete"
  PROVE  JobCompletedAt * Second <= completed + Ahead
  <1> USE DEF BakeInv
  <1>1. CASE completion # None
    <2>1. completion * Second \in Int /\ completion * Second <= completed
      BY <1>1, Numbers, InTicks, Lengths DEF Stamped
    <2>2. completion * Second <= completed + Ahead
      BY <2>1, Numbers
    <2> QED BY <1>1, <2>2 DEF JobCompletedAt
  <1>2. CASE completion = None /\ status.jobCompletedAt # None
    BY <1>2 DEF JobCompletedAt, InTime
  <1>3. CASE completion = None /\ status.jobCompletedAt = None
    <2> DEFINE present == (now + skew) \div Second
    <2>1. JobCompletedAt = present
      BY <1>3 DEF JobCompletedAt
    <2>0. now + skew \in Int
      BY Numbers
    <2>2. present * Second \in Int /\ present * Second <= now + skew
      BY <2>0, Truncated, Lengths
    <2>3. now = completed
      BY <1>3 DEF Own, Prompt
    <2> HIDE DEF present
    <2>4. present * Second <= completed + Ahead
      BY <2>2, <2>3, Numbers
    <2> QED BY <2>1, <2>4
  <1> QED BY <1>1, <1>2, <1>3

\* The elapsed time is less than a second short, and never too long.
LEMMA ElapsedTime ==
  ASSUME TypeOK, Stamped
  PROVE  /\ Elapsed \in Int /\ Elapsed = now + skew - JobCompletedAt * Second
         /\ ElapsedSeconds \in Int /\ -Skew <= ElapsedSeconds
         /\ ElapsedSeconds * Second \in Int
         /\ Elapsed < ElapsedSeconds * Second + Second
         /\ Elapsed >= 0 => ElapsedSeconds * Second <= Elapsed
         /\ Elapsed < 0 => ElapsedSeconds <= 0
  <1> DEFINE m == JobCompletedAt * Second
  <1>1. m \in Int /\ m <= now + Ahead /\ Elapsed = now + skew - m
    BY Measured DEF Elapsed
  <1> HIDE DEF m
  <1>2. Elapsed \in Int /\ -Skew <= Elapsed
    BY <1>1, Numbers, Lengths
  <1>3. CASE Elapsed >= 0
    <2> DEFINE q == Elapsed \div Second
    <2>1. ElapsedSeconds = q
      BY <1>3 DEF ElapsedSeconds
    <2>2. q \in Nat /\ q * Second \in Int /\ q * Second <= Elapsed
          /\ Elapsed < q * Second + Second
      BY <1>2, <1>3, Truncated, Lengths
    <2> HIDE DEF q
    <2> QED BY <1>1, <1>2, <1>3, <2>1, <2>2, Lengths DEF m
  <1>4. CASE Elapsed < 0
    <2> DEFINE q == (-Elapsed) \div Second
    <2>1. ElapsedSeconds = -q /\ -Elapsed \in Int /\ -Elapsed >= 0
      BY <1>2, <1>4 DEF ElapsedSeconds
    <2>2. q \in Nat /\ q <= -Elapsed /\ q * Second \in Int /\ q * Second <= -Elapsed
      BY <2>1, Truncated, Lengths
    <2>3. (-q) * Second = -(q * Second)
      BY <2>2, InTicks, Lengths
    <2> DEFINE qs == q * Second
    <2> HIDE DEF q
    <2>4. qs \in Int /\ qs <= -Elapsed /\ (-q) * Second = -qs
      BY <2>2, <2>3
    <2> HIDE DEF qs
    <2>5. (-q) * Second \in Int /\ Elapsed < (-q) * Second + Second
      BY <1>2, <2>4, Lengths
    <2>6. -q \in Int /\ -Skew <= -q /\ -q <= 0
      BY <1>2, <2>2, Lengths
    <2> QED BY <1>1, <1>2, <1>4, <2>1, <2>5, <2>6 DEF m
  <1> QED BY <1>2, <1>3, <1>4

\* While the bake time lasts, what is shown and the delay are in their ranges.
LEMMA BakeShown ==
  ASSUME TypeOK, Stamped, ElapsedSeconds < Bake
  PROVE  /\ ElapsedSeconds \in Shown
         /\ Bake - ElapsedSeconds \in 0..(Bake + Skew) /\ Bake - ElapsedSeconds # 0
  BY ElapsedTime, Lengths DEF Shown

\* The rest of it, from now, is over when BakeEnds says.
LEMMA BakeLasts ==
  ASSUME BakeInv, ~late, job = "complete", ElapsedSeconds < Bake
  PROVE  now + (Bake - ElapsedSeconds) * Second <= BakeEnds
  <1> USE DEF BakeInv
  <1> DEFINE b == Bake * Second
             e == ElapsedSeconds * Second
             m == JobCompletedAt * Second
             r == (Bake - ElapsedSeconds) * Second
  <1>1. r = b - e
    BY ElapsedTime, Lengths, InTicks
  <1>2. b \in Nat /\ e \in Int /\ m \in Int /\ m <= completed + Ahead
        /\ now + skew - m < e + Second /\ BakeEnds = completed + b + Second + Behind
    BY ElapsedTime, Measured, MeasuredInTime, Numbers, Lengths
  <1> HIDE DEF b, e, m, r
  <1>3. now + r <= BakeEnds
    BY <1>1, <1>2, Numbers, Lengths
  <1> QED BY <1>3 DEF r

\* When it is over for runPostChecks, it is, but for a second and a clock ahead.
LEMMA BakeOver ==
  ASSUME TypeOK, Stamped, Own, job = "complete", Timed, ~(Bake > 0 /\ ElapsedSeconds < Bake)
  PROVE  now + Ahead + Second > completed + Bake * Second
  <1> DEFINE b == Bake * Second
             e == ElapsedSeconds * Second
             m == JobCompletedAt * Second
  <1>1. CASE Bake = 0
    <2>1. b = 0 /\ completed <= now
      BY <1>1, Lengths DEF Stamped
    <2> HIDE DEF b
    <2>2. now + Ahead + Second > completed + b
      BY <2>1, Numbers, Lengths
    <2> QED BY <2>2 DEF b
  <1>2. CASE Bake > 0
    <2>1. ElapsedSeconds \in Int /\ Bake <= ElapsedSeconds /\ ElapsedSeconds > 0
      BY <1>2, ElapsedTime, Lengths
    <2>2. b <= e
      BY <2>1, Lengths, InTicks
    <2>3. e <= Elapsed /\ Elapsed = now + skew - m
      BY <2>1, ElapsedTime
    <2>4. b \in Nat /\ e \in Int /\ m \in Int /\ b <= now + skew - m
      BY <2>2, <2>3, ElapsedTime, Measured, Lengths, Numbers
    <2>5. CASE completion # None
      <3>1. completed < m + Second
        BY <2>5, MeasuredOwn DEF OwnTime, Stamped
      <3> HIDE DEF b, e, m
      <3>2. now + Ahead + Second > completed + b
        BY <2>4, <3>1, Numbers, Lengths
      <3> QED BY <3>2 DEF b
    <2>6. CASE completion = None
      <3>1. completed + skew < (JobCompletedAt + 1) * Second
        BY <2>6, MeasuredOwn DEF OwnTime
      <3>2. completed + skew < m + Second
        BY <3>1, Measured, InTicks, Lengths
      <3> HIDE DEF b, e, m
      <3>3. now + Ahead + Second > completed + b
        BY <2>4, <3>2, Numbers, Lengths
      <3> QED BY <3>3 DEF b
    <2> QED BY <2>5, <2>6
  <1> QED BY <1>1, <1>2, Lengths

----------------------------------------------------------------------------
(* The invariant holds always *)

LEMMA BakeInit == Init => BakeInv
  <1> SUFFICES ASSUME Init PROVE BakeInv
    OBVIOUS
  <1>1. TypeOK
    <2>1. 0 \in Shown /\ 0 \in 0..MaxTime /\ 0 \in 0..MaxMigrations
      BY Lengths DEF Shown
    <2>2. status \in [kind : Kinds, shown : Shown, jobCompletedAt : {None} \cup Times]
      BY <2>1 DEF Init, Kinds
    <2> QED BY <2>1, <2>2 DEF Init, TypeOK
  <1>2. Stamped
    BY Lengths DEF Init, Stamped
  <1> QED BY <1>1, <1>2 DEF Init, BakeInv, Own, Kept, InTime, Fresh, Prompt

\* Time passes only while the controller is idle, or it is late from then on.
LEMMA TickKeeps ==
  ASSUME BakeInv, Tick
  PROVE  BakeInv'
  <1> USE DEF BakeInv, Tick, cluster, controller
  <1>1. /\ now' = now + 1 /\ now < MaxTime
        /\ UNCHANGED <<skew, job, completed, completion, healthy, since, migrations,
                       status, result, queued, timer>>
        /\ late' \in BOOLEAN
        /\ ~late' => ~late /\ ~queued /\ result = None /\ ~(timer # None /\ now >= timer)
    BY DEF TypeOK, Busy, Due
  <1>2. TypeOK'
    BY <1>1, Lengths DEF TypeOK
  <1>3. Ahead' = Ahead /\ Behind' = Behind /\ Timed' = Timed
    BY <1>1 DEF Ahead, Behind, Timed
  <1>4. Stamped'
    <2>1. ASSUME NEW t \in Int, t * Second <= now + Ahead
          PROVE  t * Second <= now' + Ahead
      <3> DEFINE m == t * Second
      <3>1. m \in Int /\ m <= now + Ahead
        BY <2>1, InTicks, Lengths
      <3> HIDE DEF m
      <3>2. m <= now' + Ahead
        BY <1>1, <3>1, Numbers
      <3> QED BY <3>2 DEF m
    <2>2. completed <= now' /\ since <= now'
      BY <1>1, Numbers DEF Stamped
    <2> QED BY <1>1, <1>3, <2>1, <2>2, Numbers DEF Stamped
  <1>5. Own'
    <2>1. ASSUME NEW t \in Int, OwnTime(t)
          PROVE  OwnTime(t)'
      <3> DEFINE m == t * Second
      <3>1. m \in Int /\ (completion = None => m <= now + skew)
        BY <2>1, InTicks, Lengths DEF OwnTime
      <3> HIDE DEF m
      <3>2. completion = None => m <= now' + skew
        BY <1>1, <3>1, Numbers
      <3> QED BY <1>1, <2>1, <3>2 DEF OwnTime, m
    <2>2. /\ result # None => result.jobCompletedAt \in Int
          /\ status.jobCompletedAt # None => status.jobCompletedAt \in Int
      BY Numbers
    <2>3. /\ result' # None /\ Timed' => OwnTime(result.jobCompletedAt)'
          /\ status'.kind # "none" /\ Timed' => OwnTime(status.jobCompletedAt)'
          /\ migrations' = 1 /\ completion' = None /\ status'.jobCompletedAt # None =>
               OwnTime(status.jobCompletedAt)'
      BY <1>1, <1>3, <2>1, <2>2 DEF Own
    <2> QED BY <1>1, <2>3 DEF Own
  <1>6. Kept'
    <2> DEFINE b == Bake * Second
    <2>1. b \in Nat
      BY Lengths
    <2>2. result # None /\ result.kind = "ready" /\ Timed => now + Ahead + Second > completed + b
      BY DEF Kept
    <2> HIDE DEF b
    <2>3. result # None /\ result.kind = "ready" /\ Timed => now' + Ahead + Second > completed + b
      BY <1>1, <2>1, <2>2, Numbers, Lengths
    <2> QED BY <1>1, <1>3, <2>3 DEF Kept, b
  <1>7. InTime' /\ Fresh'
    BY <1>1, <1>3 DEF InTime, Fresh
  <1>8. BakeEnds' = BakeEnds /\ Recovered' = Recovered
    BY <1>1, <1>3 DEF BakeEnds, Recovered
  <1>9. Prompt'
    <2> DEFINE r == Retry * Second
    <2>1. r \in Nat
      BY Lengths
    <2>2. Prompt => (~late /\ job = "complete" =>
             /\ status.kind = "none" => queued \/ result # None
             /\ status.kind = "bake" =>
                  queued \/ result # None \/ (timer # None /\ timer <= BakeEnds)
             /\ status.kind = "failed" =>
                  \/ queued \/ result # None
                  \/ timer # None /\ timer <= IF healthy THEN Recovered ELSE now + r)
      BY DEF Prompt
    <2> HIDE DEF r
    <2>3. ~late' /\ job = "complete" =>
             /\ status.kind # "none"
             /\ status.kind = "bake" =>
                  now' <= BakeEnds /\ timer # None /\ timer <= BakeEnds
             /\ status.kind = "failed" =>
                  /\ healthy => now' <= Recovered
                  /\ timer # None /\ timer <= IF healthy THEN Recovered ELSE now' + r
      BY <1>1, <2>1, <2>2, Numbers
    <2> QED BY <1>1, <1>8, <2>3 DEF Prompt, r
  <1> QED BY <1>2, <1>4, <1>5, <1>6, <1>7, <1>9

\* A Job that completes now is stamped with this second, or not at all.
LEMMA CompletesKeeps ==
  ASSUME BakeInv, JobCompletes
  PROVE  BakeInv'
  <1> USE DEF BakeInv
  <1>1. /\ job = "none" /\ job' = "complete" /\ migrations < MaxMigrations
        /\ migrations' = migrations + 1 /\ completed' = now
        /\ completion' \in {None, now \div Second} /\ queued' = TRUE
        /\ UNCHANGED <<now, skew, late, healthy, since, status, result, timer>>
        /\ status.kind = "none" /\ result = None
    BY DEF JobCompletes, clock, Own
  <1> DEFINE second == now \div Second
  <1>0. now \in Int /\ now >= 0
    BY Numbers
  <1>2. /\ second \in Nat /\ second <= now
        /\ second * Second <= now /\ now < second * Second + Second
    BY <1>0, Lengths, Truncated
  <1>3. second \in Times
    <2> HIDE DEF second
    <2> QED BY <1>2, Numbers, Lengths DEF TypeOK, Times
  <1>4. completion' = None \/ completion' = second
    BY <1>1
  <1> HIDE DEF second
  <1>5. TypeOK'
    BY <1>1, <1>3, <1>4, Lengths DEF TypeOK
  <1>6. Ahead' = Ahead
    BY <1>1 DEF Ahead
  <1>7. Stamped'
    BY <1>1, <1>2, <1>4, <1>6, Numbers DEF Stamped
  <1>8. migrations \in Nat /\ migrations' \in Nat
    BY <1>1, Lengths DEF TypeOK
  <1>9. migrations' = 1 => status.jobCompletedAt = None
    BY <1>1, <1>8 DEF Own
  <1>10. Own'
    BY <1>1, <1>8, <1>9 DEF Own
  <1>11. InTime'
    BY <1>1, <1>6 DEF InTime, Stamped
  <1> QED BY <1>1, <1>5, <1>7, <1>10, <1>11 DEF Kept, Fresh, Prompt

LEMMA MigrationKeeps ==
  ASSUME BakeInv, NextMigration
  PROVE  BakeInv'
  <1> USE DEF BakeInv
  <1>1. /\ job = "complete" /\ job' = "none"
        /\ status' = [status EXCEPT !.kind = "none", !.shown = 0]
        /\ result' = None /\ queued' = FALSE /\ timer' = None
        /\ UNCHANGED <<now, skew, late, completed, completion, healthy, since, migrations>>
    BY DEF NextMigration, clock
  <1>2. /\ status' \in [kind : Kinds, shown : Shown, jobCompletedAt : {None} \cup Times]
        /\ status'.kind = "none" /\ status'.jobCompletedAt = status.jobCompletedAt
    <2>1. 0 \in Shown /\ "none" \in Kinds
      BY Lengths DEF Shown, Kinds
    <2>2. status \in [kind : Kinds, shown : Shown, jobCompletedAt : {None} \cup Times]
      BY DEF TypeOK
    <2> QED BY <1>1, <2>1, <2>2
  <1>3. TypeOK'
    BY <1>1, <1>2 DEF TypeOK
  <1>4. Ahead' = Ahead
    BY <1>1 DEF Ahead
  <1>5. Stamped'
    BY <1>1, <1>2, <1>4 DEF Stamped
  <1>6. Own'
    BY <1>1, <1>2 DEF Own, OwnTime
  <1> QED BY <1>1, <1>2, <1>3, <1>5, <1>6 DEF Kept, InTime, Fresh, Prompt

\* Metrics that change now have been as they are since now.
LEMMA MetricsKeep ==
  ASSUME BakeInv, MetricsChange
  PROVE  BakeInv'
  <1> USE DEF BakeInv
  <1>1. /\ healthy' = ~healthy /\ since' = now
        /\ UNCHANGED <<now, skew, late, job, completed, completion, migrations,
                       status, result, queued, timer>>
    BY DEF MetricsChange, clock, controller
  <1>2. TypeOK'
    BY <1>1 DEF TypeOK
  <1>3. Ahead' = Ahead /\ Behind' = Behind /\ Timed' = Timed
    BY <1>1 DEF Ahead, Behind, Timed
  <1>4. BakeEnds' = BakeEnds /\ Recovered' = now + Retry * Second
    BY <1>1, <1>3 DEF BakeEnds, Recovered
  <1>6. Stamped'
    BY <1>1, <1>3, Numbers DEF Stamped
  <1>7. Own' /\ Kept'
    BY <1>1, <1>3 DEF Own, OwnTime, Kept
  <1>8. InTime' /\ Fresh'
    BY <1>1, <1>3, <1>4 DEF InTime, Fresh
  <1>5. Prompt'
    <2> DEFINE r == Retry * Second
    <2>1. r \in Nat /\ Recovered = since + r /\ Recovered' = now + r /\ since <= now
      BY <1>4, Lengths, Numbers DEF Stamped
    <2>2. Prompt => (~late /\ job = "complete" =>
             /\ status.kind = "none" => now = completed /\ (queued \/ result # None)
             /\ status.kind = "bake" =>
                  /\ now <= BakeEnds
                  /\ queued \/ result # None \/ (timer # None /\ timer <= BakeEnds)
             /\ status.kind = "failed" =>
                  \/ queued \/ result # None
                  \/ timer # None /\ timer <= IF healthy THEN Recovered ELSE now + r)
      BY DEF Prompt
    <2> HIDE DEF r
    <2>3. ~late /\ job = "complete" /\ status.kind = "failed" =>
             /\ now <= now + r
             /\ queued \/ result # None \/ (timer # None /\ timer <= now + r)
      BY <2>1, <2>2, Numbers
    <2> QED BY <1>1, <1>4, <2>1, <2>2, <2>3 DEF Prompt, r
  <1> QED BY <1>2, <1>5, <1>6, <1>7, <1>8

\* The key is queued, whatever becomes of the timer and of a result in memory.
LEMMA QueuedKeeps ==
  ASSUME BakeInv, UNCHANGED <<clock, cluster, status>>, queued' = TRUE,
         result' \in {None, result}, timer' \in {None, timer}
  PROVE  BakeInv'
  <1> USE DEF BakeInv
  <1>1. UNCHANGED <<now, skew, late, job, completed, completion, healthy, since,
                    migrations, status>>
    BY DEF clock, cluster
  <1>2. result' = None \/ result' = result
    OBVIOUS
  <1>3. timer' = None \/ timer' = timer
    OBVIOUS
  <1>4. TypeOK'
    BY <1>1, <1>2, <1>3 DEF TypeOK
  <1>5. /\ Ahead' = Ahead /\ Timed' = Timed
        /\ BakeEnds' = BakeEnds /\ Recovered' = Recovered
    BY <1>1 DEF Ahead, Behind, Timed, BakeEnds, Recovered
  <1>6. Stamped' /\ InTime'
    BY <1>1, <1>2, <1>5 DEF Stamped, InTime
  <1>7. Own' /\ Kept'
    BY <1>1, <1>2, <1>5 DEF Own, OwnTime, Kept
  <1>8. Fresh' /\ Prompt'
    BY <1>1, <1>2, <1>5 DEF Fresh, Prompt
  <1> QED BY <1>4, <1>6, <1>7, <1>8

\* A result is evaluated: what it says holds now.
LEMMA EvaluateKeeps ==
  ASSUME BakeInv, Evaluate
  PROVE  BakeInv'
  <1> USE DEF BakeInv
  <1>1. /\ job = "complete" /\ queued' = FALSE /\ result' = PostChecks /\ result = None
        /\ UNCHANGED <<now, skew, late, job, completed, completion, healthy, since,
                       migrations, status, timer>>
    BY DEF Evaluate, clock, cluster
  <1>2. JobCompletedAt \in Times /\ JobCompletedAt * Second <= now + Ahead
    BY Measured
  <1>3. result' \in Result
    <2>1. CASE Bake > 0 /\ ElapsedSeconds < Bake
      <3>1. ElapsedSeconds \in Shown /\ Bake - ElapsedSeconds \in 0..(Bake + Skew)
        BY <2>1, BakeShown
      <3> QED BY <1>1, <1>2, <2>1, <3>1 DEF PostChecks, Evaluated, Result, Kinds
    <2>2. CASE ~(Bake > 0 /\ ElapsedSeconds < Bake)
      <3>1. 0 \in Shown /\ 0 \in 0..(Bake + Skew)
        BY Lengths DEF Shown
      <3> QED BY <1>1, <1>2, <2>2, <3>1 DEF PostChecks, Evaluated, Result, Kinds
    <2> QED BY <2>1, <2>2
  <1>4. result' # None
    BY <1>3, NilAssumption
  <1>5. TypeOK'
    BY <1>1, <1>3 DEF TypeOK
  <1>6. Ahead' = Ahead /\ Timed' = Timed /\ BakeEnds' = BakeEnds /\ Recovered' = Recovered
    BY <1>1 DEF Ahead, Behind, Timed, BakeEnds, Recovered
  <1>7. result'.jobCompletedAt = JobCompletedAt
    BY <1>1 DEF PostChecks, Evaluated
  <1>8. Stamped'
    BY <1>1, <1>2, <1>6, <1>7 DEF Stamped
  <1>9. Own'
    <2>1. Timed => OwnTime(JobCompletedAt)
      BY <1>1, MeasuredOwn
    <2> QED BY <1>1, <1>6, <1>7, <2>1 DEF Own, OwnTime
  <1>10. Kept'
    <2>1. result'.kind = "ready" => ~(Bake > 0 /\ ElapsedSeconds < Bake)
      BY <1>1 DEF PostChecks, Evaluated
    <2> QED BY <1>1, <1>6, <2>1, BakeOver DEF Kept
  <1>11. InTime'
    BY <1>1, <1>6, <1>7, MeasuredInTime DEF InTime
  <1>12. Fresh'
    <2>1. /\ result'.kind = "bake" => ElapsedSeconds < Bake
               /\ result'.requeue = Bake - ElapsedSeconds
          /\ result'.kind = "failed" => result'.requeue = Retry /\ ~healthy
      BY <1>1 DEF PostChecks, Evaluated
    <2> QED BY <1>1, <1>6, <2>1, BakeLasts, BakeShown DEF Fresh
  <1>13. Prompt'
    BY <1>1, <1>4, <1>6 DEF Prompt
  <1> QED BY <1>5, <1>8, <1>9, <1>10, <1>11, <1>12, <1>13

\* The result is written, and the key returns when it says, or before.
LEMMA WriteKeeps ==
  ASSUME BakeInv, WriteStatus
  PROVE  BakeInv'
  <1> USE DEF BakeInv
  <1> DEFINE r == result.requeue * Second
             due == now + r
  <1>1. /\ result # None /\ result' = None /\ job = "complete"
        /\ status' = [kind |-> result.kind, shown |-> result.shown,
                      jobCompletedAt |-> result.jobCompletedAt]
        /\ timer' = IF result.requeue = 0 THEN timer ELSE Earlier(due)
        /\ queued' = (queued \/ status' # status)
        /\ UNCHANGED <<now, skew, late, job, completed, completion, healthy, since,
                       migrations>>
    BY DEF WriteStatus, clock, cluster, Own, TypeOK
  <1>2. result \in Result /\ result.requeue \in Nat /\ due \in Nat /\ due # None
    <2>1. result \in Result
      BY <1>1, Numbers
    <2>2. result.requeue \in Nat
      BY <2>1, Lengths DEF Result
    <2>3. r \in Nat
      BY <2>2, Lengths, InTicks
    <2> QED BY <2>1, <2>2, <2>3, Numbers, NilAssumption
  <1>3. /\ timer' = None \/ timer' \in Nat
        /\ result.requeue # 0 => timer' # None /\ timer' \in Nat /\ timer' <= due
    <2> HIDE DEF due
    <2>1. timer # None => timer \in Nat
      BY Numbers
    <2> QED BY <1>1, <1>2, <2>1 DEF Earlier
  <1>4. TypeOK'
    <2>1. status' \in [kind : Kinds, shown : Shown, jobCompletedAt : {None} \cup Times]
      BY <1>1, <1>2 DEF Result
    <2>2. queued' \in BOOLEAN
      BY <1>1 DEF TypeOK
    <2> QED BY <1>1, <1>3, <2>1, <2>2 DEF TypeOK
  <1>11. /\ Ahead' = Ahead /\ Behind' = Behind /\ Timed' = Timed
         /\ status'.jobCompletedAt = result.jobCompletedAt /\ result.jobCompletedAt # None
    <2>1. result.jobCompletedAt # None
      BY <1>1, Numbers, NilAssumption
    <2> QED BY <1>1, <2>1 DEF Ahead, Behind, Timed
  <1>5. Stamped' /\ InTime'
    BY <1>1, <1>11 DEF Stamped, InTime
  <1>12. Own'
    <2>1. migrations = 1 => Timed
      BY DEF Timed
    <2>2. migrations # 0
      BY <1>1 DEF Own
    <2> QED BY <1>1, <1>11, <2>1, <2>2 DEF Own, OwnTime
  <1>13. Kept' /\ Fresh'
    BY <1>1 DEF Kept, Fresh
  <1>6. result.kind \in {"bake", "failed", "ready"} /\ status'.kind = result.kind
    BY <1>1, <1>2 DEF Result, Kinds
  <1>7. BakeEnds' = BakeEnds /\ Recovered' = Recovered
    BY <1>1, <1>11 DEF BakeEnds, Recovered
  <1>8. ASSUME ~late, result.kind = "bake"
        PROVE  now <= BakeEnds /\ timer' # None /\ timer' <= BakeEnds
    <2>1. result.requeue # 0 /\ due <= BakeEnds
      BY <1>1, <1>8 DEF Fresh
    <2>2. r \in Nat
      BY <1>2, Lengths, InTicks
    <2> HIDE DEF r
    <2> QED BY <1>2, <1>3, <2>1, <2>2, Numbers
  <1>9. ASSUME ~late, result.kind = "failed"
        PROVE  /\ healthy => now <= Recovered
               /\ timer' # None
               /\ timer' <= IF healthy THEN Recovered ELSE now + Retry * Second
    <2>1. result.requeue = Retry /\ (healthy => since = now)
      BY <1>1, <1>9 DEF Fresh
    <2>2. due = now + Retry * Second /\ timer' # None /\ timer' <= due
      BY <1>3, <2>1, Lengths
    <2>3. healthy => Recovered = now + Retry * Second
      BY <2>1, Numbers
    <2>4. now <= now + Retry * Second
      BY Lengths, Numbers
    <2> QED BY <2>2, <2>3, <2>4
  <1>10. Prompt'
    BY <1>1, <1>6, <1>7, <1>8, <1>9 DEF Prompt
  <1> QED BY <1>4, <1>5, <1>10, <1>12, <1>13

LEMMA BakeStep == BakeInv /\ [Next]_vars => BakeInv'
  <1> SUFFICES ASSUME BakeInv, [Next]_vars PROVE BakeInv'
    OBVIOUS
  <1>1. CASE Tick
    BY <1>1, TickKeeps
  <1>2. CASE JobCompletes
    BY <1>2, CompletesKeeps
  <1>3. CASE NextMigration
    BY <1>3, MigrationKeeps
  <1>4. CASE MetricsChange
    BY <1>4, MetricsKeep
  <1>5. CASE Resync
    BY <1>5, QueuedKeeps DEF Resync
  <1>6. CASE Restart
    BY <1>6, QueuedKeeps DEF Restart
  <1>7. CASE TimerFires
    BY <1>7, QueuedKeeps DEF TimerFires
  <1>8. CASE Evaluate
    BY <1>8, EvaluateKeeps
  <1>9. CASE WriteStatus
    BY <1>9, WriteKeeps
  <1>10. CASE UNCHANGED vars
    BY <1>10 DEF BakeInv, vars, TypeOK, Stamped, Own, OwnTime, Kept, InTime, Fresh, Prompt,
       BakeEnds, Recovered, Ahead, Behind, Timed
  <1> QED BY <1>1, <1>2, <1>3, <1>4, <1>5, <1>6, <1>7, <1>8, <1>9, <1>10 DEF Next

LEMMA BakeAlways == Spec => []BakeInv
  BY BakeInit, BakeStep, PTL DEF Spec

----------------------------------------------------------------------------
(* Theorems *)

\* Times, results and the workqueue's delays stay in their ranges: what runPostChecks
\* shows as elapsed is not more than the bake time, nor less than the clocks' difference,
\* and its requeue is never negative, however far the two clocks are apart.
THEOREM BakeTypes == Spec => []TypeOK
  BY BakeAlways, PTL DEF BakeInv

\* The condition of a migration is never decided by an earlier one's completion, which
\* status.jobCompletedAt still holds when the next Job runs, as long as the Job bears its
\* own time or is the first; and without one, the time first written is kept.
THEOREM OwnCompletion == Spec => []CompletionIsOwn
  <1>1. BakeInv => CompletionIsOwn
    BY DEF BakeInv, Own, OwnTime, CompletionIsOwn
  <1> QED BY <1>1, BakeAlways, PTL

\* Ready is never written before the bake time is over, but for the second that
\* a timestamp drops and a clock that is ahead: a result held over a delay, a resync or
\* a restart does not become wrong.
THEOREM BakeTimeKept == Spec => BakeIsKept
  <1>1. ASSUME BakeInv, [Next]_vars, status.kind # "ready", status'.kind = "ready", Timed
        PROVE  now + Ahead + Second > completed + Bake * Second
    <2>1. CASE WriteStatus
      BY <1>1, <2>1 DEF WriteStatus, BakeInv, Kept
    <2>2. CASE NextMigration
      BY <1>1, <2>2 DEF NextMigration, BakeInv, TypeOK
    <2>3. CASE ~WriteStatus /\ ~NextMigration
      BY <1>1, <2>3 DEF Next, vars, Tick, JobCompletes, MetricsChange, Resync, Restart,
         TimerFires, Evaluate, cluster, controller
    <2> QED BY <2>1, <2>2, <2>3
  <1>2. BakeInv /\ [Next]_vars =>
          (status.kind # "ready" /\ status'.kind = "ready" /\ Timed =>
             now + Ahead + Second > completed + Bake * Second)
    BY <1>1
  <1> QED BY <1>2, BakeAlways, PTL DEF Spec, BakeIsKept

\* A second after the bake time ended on the operator's clock, ahead or behind, or a retry
\* after the metrics recovered, Ready is written, whatever resyncs, restarts and delays
\* came between, unless the controller was kept from its work.
THEOREM BakeTimeNotProlonged == Spec => []BakeIsNotProlonged
  <1>1. ASSUME BakeInv, ~late, job = "complete", healthy, now > BakeEnds, now > Recovered
        PROVE  status.kind = "ready"
    <2>1. status.kind \in {"none", "bake", "failed", "ready"}
      BY <1>1 DEF BakeInv, TypeOK, Kinds
    <2>2. TypeOK
      BY <1>1 DEF BakeInv
    <2>3. BakeEnds = completed + Bake * Second + Second + Behind
      BY <2>2, Numbers
    <2>4. now # completed
      <3> DEFINE b == Bake * Second
      <3>1. b \in Nat /\ BakeEnds = completed + b + Second + Behind /\ now > BakeEnds
        BY <1>1, <2>3, Lengths
      <3> HIDE DEF b
      <3> QED BY <2>2, <3>1, Numbers, Lengths
    <2>5. ~(now <= BakeEnds) /\ ~(now <= Recovered)
      BY <1>1, <2>2, Numbers
    <2> QED BY <1>1, <2>1, <2>4, <2>5 DEF BakeInv, Prompt
  <1>2. BakeInv => BakeIsNotProlonged
    BY <1>1 DEF BakeIsNotProlonged
  <1> QED BY <1>2, BakeAlways, PTL
=============================================================================

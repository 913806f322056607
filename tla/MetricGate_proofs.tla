-------------------------- MODULE MetricGate_proofs --------------------------
(***************************************************************************)
(* What the webhook guarantees of every stored object, for any specs that  *)
(* the CRD's schema lets through, and what the metric checks then come to, *)
(* for any number of checks and of values.                                 *)
(***************************************************************************)
EXTENDS MetricGate, WellFoundedInduction, TLAPS

----------------------------------------------------------------------------
(* Stored objects are valid *)

StoredInv == spec # None => spec \in Submitted /\ validateDBUpgrade(spec)

LEMMA StoredStep ==
  ASSUME StoredInv, [Next]_vars
  PROVE  StoredInv'
  <1>1. CASE \E s \in Submitted : ValidateCreate(s) \/ ValidateUpdate(s)
    BY <1>1 DEF ValidateCreate, ValidateUpdate, StoredInv
  <1>2. CASE ValidateDelete
    BY <1>2 DEF ValidateDelete, StoredInv
  <1>3. CASE spec' = spec
    BY <1>3 DEF StoredInv
  <1> QED BY <1>1, <1>2, <1>3 DEF Next, WriteStatus, vars

\* A verdict, while it stands, is about the stored checks.
GateInv ==
  /\ StoredInv
  /\ verdict # NoVerdict => /\ spec # None
                            /\ answers \in [DOMAIN spec.metrics -> Answers]
                            /\ verdict = CheckMetrics(spec.metrics, answers)

\* The gate adds nothing to what the webhook stores.
LEMMA GateStep ==
  ASSUME GateInv, [GateNext]_gateVars
  PROVE  GateInv'
  <1>1. CASE Stored
    BY <1>1, StoredStep DEF Stored, GateInv
  <1>2. CASE Evaluate
    BY <1>2 DEF Evaluate, vars, GateInv, StoredInv
  <1>3. CASE UNCHANGED gateVars
    BY <1>3 DEF gateVars, GateInv, StoredInv
  <1> QED BY <1>1, <1>2, <1>3 DEF GateNext

LEMMA GateAlways == GateSpec => []GateInv
  <1>1. GateInit => GateInv
    BY DEF GateInit, Init, GateInv, StoredInv, NoVerdict
  <1>2. GateInv /\ [GateNext]_gateVars => GateInv'
    BY GateStep
  <1> QED BY <1>1, <1>2, PTL DEF GateSpec

----------------------------------------------------------------------------
(* The database *)

\* An object that the webhook admitted says where its database is.
LEMMA ValidSaysWhere ==
  ASSUME NEW s \in Submitted, validateDatabase(s.database)
  PROVE  /\ \/ HasConnection(s.database)
            \/ /\ s.database.aws # None
               /\ Empty \notin {s.database.aws[f] : f \in RequiredAWSFields}
         /\ s.database.type = "selfHosted" =>
               HasConnection(s.database) /\ s.database.aws = None
         /\ s.database.connection # None => HasConnection(s.database)
  <1> DEFINE d == s.database
  <1>1. d.type \in {"selfHosted", "awsRds", "awsAurora"}
    BY SchemaAssumption DEF Types
  <1>2. d.connection # None => HasConnection(d)
    BY DEF validateDatabase, ValidConnection, HasConnection
  <1>3. d.aws # None /\ d.type # "selfHosted" =>
           Empty \notin {d.aws[f] : f \in RequiredAWSFields}
    BY <1>1 DEF validateDatabase, ValidAWS, AWSTypes
  <1> QED BY <1>1, <1>2, <1>3 DEF validateDatabase, AWSTypes

\* Updates that validateImmutableFields allows keep the database: every field of aws,
\* and the reference to the connection's Secret.
LEMMA SameDatabase ==
  ASSUME NEW s \in Submitted, NEW t \in Submitted,
         validateDatabase(s.database), validateDatabase(t.database),
         validateImmutableFields(s.database, t.database)
  PROVE  Identity(t.database) = Identity(s.database)
  <1> DEFINE c == s.database
             d == t.database
  <1>1. d.type = c.type /\ HasConnection(c) = HasConnection(d) /\ SameAWS(c, d)
    BY DEF validateImmutableFields
  <1>2. CASE c.aws # None
    <2>1. d.aws # None /\ \A f \in AWSFields : c.aws[f] = d.aws[f]
      BY <1>1, <1>2 DEF SameAWS
    <2>2. c.aws \in [AWSFields -> STRING] /\ d.aws \in [AWSFields -> STRING]
      BY <1>2, <2>1, SchemaAssumption
    <2>3. c.aws = d.aws
      BY <2>1, <2>2
    <2> QED BY <1>1, <1>2, <2>1, <2>3 DEF Identity
  <1>3. CASE c.aws = None
    <2>1. d.aws = None
      BY <1>1, <1>3 DEF SameAWS
    <2>2. HasConnection(c) /\ HasConnection(d)
      BY <1>3, <2>1, ValidSaysWhere
    <2>3. /\ c.connection.urlSecretRef.name = d.connection.urlSecretRef.name
          /\ c.connection.urlSecretRef.key = d.connection.urlSecretRef.key
      BY <2>2 DEF validateImmutableFields
    <2>4. /\ c.connection.urlSecretRef \in [name : STRING, key : STRING]
          /\ d.connection.urlSecretRef \in [name : STRING, key : STRING]
      BY <2>2, SchemaAssumption DEF HasConnection
    <2>5. c.connection.urlSecretRef = d.connection.urlSecretRef
      BY <2>3, <2>4
    <2> QED BY <1>1, <1>3, <2>1, <2>5 DEF Identity
  <1> QED BY <1>2, <1>3

\* Every stored object says how to reach its database, in exactly the way its type calls
\* for: the reconcile never finds an object without one.
THEOREM SaysWhere == GateSpec => []StoredSaysWhere
  <1>1. GateInv => StoredSaysWhere
    BY ValidSaysWhere DEF GateInv, StoredInv, validateDBUpgrade, StoredSaysWhere
  <1> QED BY <1>1, GateAlways, PTL

\* Whatever updates the webhook lets through, one after another, an object stays with the
\* database it was created for.
THEOREM Pinned == GateSpec => DatabasePinned
  <1>1. ASSUME GateInv, [GateNext]_gateVars, spec # None, spec' # None
        PROVE  Identity(spec'.database) = Identity(spec.database)
    <2>1. CASE \E s \in Submitted : ValidateUpdate(s)
      <3>1. PICK s \in Submitted : ValidateUpdate(s)
        BY <2>1
      <3> QED BY <1>1, <3>1, SameDatabase
              DEF ValidateUpdate, GateInv, StoredInv, validateDBUpgrade
    <2>2. CASE spec' = spec
      BY <2>2
    <2> QED BY <1>1, <2>1, <2>2 DEF GateNext, Stored, Next, ValidateCreate, ValidateDelete,
            WriteStatus, Evaluate, gateVars, vars
  <1>2. GateInv /\ [GateNext]_gateVars =>
          (spec # None /\ spec' # None => Identity(spec'.database) = Identity(spec.database))
    BY <1>1
  <1> QED BY <1>2, GateAlways, PTL DEF GateSpec, DatabasePinned

----------------------------------------------------------------------------
(* Induction, and the loops of reduceValues *)

\* A non-empty set of natural numbers has a least element.
LEMMA LeastElement ==
  ASSUME NEW T, T \subseteq Nat, T # {}
  PROVE  \E i \in T : \A j \in T : i <= j
  <1>1. \E i \in T : \A j \in T : ~(<<j, i>> \in OpToRel(<, Nat))
    BY WFMin, NatLessThanWellFounded
  <1>2. PICK i \in T : \A j \in T : ~(<<j, i>> \in OpToRel(<, Nat))
    BY <1>1
  <1>3. \A j \in T : ~(j < i)
    BY <1>2 DEF OpToRel
  <1> QED BY <1>3

\* What holds of 0 and passes on to the next number holds up to n.
LEMMA Induction ==
  ASSUME NEW n \in Nat, NEW S, 0 \in S,
         \A k \in 0..(n - 1) : k \in S => k + 1 \in S
  PROVE  \A k \in 0..n : k \in S
  <1> DEFINE T == {k \in 0..n : k \notin S}
  <1> SUFFICES ASSUME T # {} PROVE FALSE
    OBVIOUS
  <1>1. T \subseteq Nat
    OBVIOUS
  <1>2. PICK i \in T : \A j \in T : i <= j
    <2> HIDE DEF T
    <2> QED BY <1>1, LeastElement
  <1>3. i \in 1..n /\ i - 1 \in 0..(n - 1) /\ i - 1 \notin T /\ (i - 1) + 1 = i
    BY <1>2
  <1> QED BY <1>2, <1>3

\* The largest of some numbers up to n.
LEMMA MaxOf ==
  ASSUME NEW n \in Nat, NEW s \in SUBSET (1..n), s # {}
  PROVE  Max(s) \in s /\ \A j \in s : j <= Max(s)
  <1> DEFINE T == {m \in Nat : \A j \in s : j <= m}
  <1>1. T \subseteq Nat /\ n \in T
    OBVIOUS
  <1>2. PICK m \in T : \A j \in T : m <= j
    <2> HIDE DEF T
    <2> QED BY <1>1, LeastElement
  <1>3. m \in s
    <2> SUFFICES ASSUME m \notin s PROVE FALSE
      OBVIOUS
    <2>1. \A j \in s : j \in Nat /\ j <= m - 1
      BY <1>2
    <2>2. PICK j \in s : TRUE
      OBVIOUS
    <2>3. m \in Nat /\ j \in 1..n /\ j <= m - 1
      BY <1>2, <2>1
    <2>4. m - 1 \in Nat
      BY <2>3
    <2>5. m - 1 \in T
      BY <2>1, <2>4
    <2> QED BY <1>2, <2>3, <2>5
  <1>4. \E x \in s : \A y \in s : x >= y
    BY <1>2, <1>3
  <1>5. Max(s) \in s /\ \A y \in s : Max(s) >= y
    BY <1>4 DEF Max
  <1> QED BY <1>5

LEMMA MaxIs ==
  ASSUME NEW n \in Nat, NEW s \in SUBSET (1..n), NEW m, m \in s,
         \A j \in s : j <= m
  PROVE  Max(s) = m
  <1> DEFINE x == Max(s)
  <1>1. x \in s /\ m <= x /\ x <= m
    BY MaxOf
  <1>2. x \in 1..n /\ m \in 1..n
    BY <1>1
  <1> HIDE DEF x
  <1>3. x = m
    BY <1>1, <1>2
  <1> QED BY <1>3 DEF x

\* The function behind FoldLeft: it takes the elements of a set of indices from the
\* smallest to the largest.
Folds(g, n, op, base, values) ==
  /\ g \in [SUBSET (1..n) -> Int]
  /\ \A s \in SUBSET (1..n) :
        g[s] = IF s = {} THEN base ELSE op[<<g[s \ {Max(s)}], values[Max(s)]>>]

LEMMA FoldExists ==
  ASSUME NEW n \in Nat, NEW values \in [1..n -> Int], NEW base \in Int,
         NEW op \in [Int \X Int -> Int]
  PROVE  \E g : Folds(g, n, op, base, values)
  <1> DEFINE S == {k \in 0..n : \E g : Folds(g, k, op, base, values)}
  <1>1. 0 \in S
    <2> DEFINE g == [s \in SUBSET (1..0) |-> base]
    <2>1. \A s \in SUBSET (1..0) : s = {}
      OBVIOUS
    <2>2. Folds(g, 0, op, base, values)
      BY <2>1 DEF Folds
    <2> QED BY <2>2
  <1>2. ASSUME NEW k \in 0..(n - 1), k \in S PROVE k + 1 \in S
    <2>1. PICK g : Folds(g, k, op, base, values)
      BY <1>2
    <2> DEFINE l == k + 1
               h == [s \in SUBSET (1..l) |->
                       IF l \in s THEN op[<<g[s \ {l}], values[l]>>] ELSE g[s]]
    <2>2. l \in 1..n /\ values[l] \in Int
      OBVIOUS
    <2>3. \A s \in SUBSET (1..l) : s \ {l} \in SUBSET (1..k)
      OBVIOUS
    <2>4. \A s \in SUBSET (1..l) : l \notin s => s \in SUBSET (1..k)
      OBVIOUS
    <2>5. h \in [SUBSET (1..l) -> Int]
      BY <2>1, <2>2, <2>3, <2>4 DEF Folds
    <2>6. ASSUME NEW s \in SUBSET (1..l)
          PROVE  h[s] = IF s = {} THEN base
                        ELSE op[<<h[s \ {Max(s)}], values[Max(s)]>>]
      <3>1. CASE l \in s
        <4>1. Max(s) = l
          <5>1. l \in Nat /\ \A j \in s : j <= l
            OBVIOUS
          <5> HIDE DEF l
          <5> QED BY <3>1, <5>1, MaxIs
        <4>2. h[s \ {l}] = g[s \ {l}]
          OBVIOUS
        <4> QED BY <3>1, <4>1, <4>2
      <3>2. CASE l \notin s
        <4>1. h[s] = g[s] /\ s \in SUBSET (1..k)
          BY <2>4, <3>2
        <4>2. h[s \ {Max(s)}] = g[s \ {Max(s)}]
          BY <3>2
        <4> HIDE DEF h
        <4> QED BY <2>1, <4>1, <4>2 DEF Folds
      <3> QED BY <3>1, <3>2
    <2>7. Folds(h, l, op, base, values)
      BY <2>5, <2>6 DEF Folds
    <2> QED BY <2>7
  <1>3. \A k \in 0..n : k \in S
    <2> HIDE DEF S
    <2> QED BY <1>1, <1>2, Induction
  <1> QED BY <1>3

\* The largest of the first indices.
LEMMA Indices ==
  ASSUME NEW n \in Nat, NEW k \in 0..(n - 1)
  PROVE  /\ 1..(k + 1) \in SUBSET (1..n) /\ 1..(k + 1) # {}
         /\ Max(1..(k + 1)) = k + 1
         /\ (1..(k + 1)) \ {k + 1} = 1..k
  <1>1. 1..(k + 1) \in SUBSET (1..n) /\ k + 1 \in 1..(k + 1)
        /\ \A j \in 1..(k + 1) : j <= k + 1
    OBVIOUS
  <1>2. Max(1..(k + 1)) = k + 1
    BY <1>1, MaxIs
  <1>3. (1..(k + 1)) \ {k + 1} = 1..k
    OBVIOUS
  <1> QED BY <1>1, <1>2, <1>3

\* The same of a function of which only that is known.
Follows(f, n, op, base, values) ==
  /\ f[{}] = base
  /\ \A s \in SUBSET (1..n) :
        s # {} /\ f[s \ {Max(s)}] \in Int =>
           f[s] = op[<<f[s \ {Max(s)}], values[Max(s)]>>]

\* A loop over values from base that ends in result.
Loop(r, n, op, base, values, end) ==
  /\ r \in [0..n -> Int] /\ r[0] = base /\ r[n] = end
  /\ \A k \in 0..(n - 1) : r[k + 1] = op[<<r[k], values[k + 1]>>]

LEMMA FoldRuns ==
  ASSUME NEW n \in Nat, NEW values \in [1..n -> Int], NEW base \in Int,
         NEW op \in [Int \X Int -> Int], NEW f, Follows(f, n, op, base, values)
  PROVE  \E r : Loop(r, n, op, base, values, f[1..n])
  <1> DEFINE S == {k \in 0..n : f[1..k] \in Int}
  <1>1. f[1..0] = base
    <2>1. 1..0 = {}
      OBVIOUS
    <2> QED BY <2>1 DEF Follows
  <1>2. ASSUME NEW k \in 0..(n - 1), f[1..k] \in Int
        PROVE  /\ f[1..(k + 1)] = op[<<f[1..k], values[k + 1]>>]
               /\ f[1..(k + 1)] \in Int
    <2>1. f[1..(k + 1)] = op[<<f[1..k], values[k + 1]>>]
      BY <1>2, Indices DEF Follows
    <2>2. values[k + 1] \in Int
      OBVIOUS
    <2> QED BY <1>2, <2>1, <2>2
  <1>3. \A k \in 0..n : k \in S
    <2>1. 0 \in S
      BY <1>1
    <2>2. ASSUME NEW k \in 0..(n - 1), k \in S PROVE k + 1 \in S
      <3>1. k + 1 \in 0..n /\ f[1..k] \in Int
        BY <2>2
      <3> QED BY <1>2, <3>1
    <2> HIDE DEF S
    <2> QED BY <2>1, <2>2, Induction
  <1>4. \A k \in 0..n : f[1..k] \in Int
    BY <1>3
  <1> DEFINE r == [k \in 0..n |-> f[1..k]]
  <1>5. r \in [0..n -> Int] /\ r[0] = base /\ r[n] = f[1..n]
    BY <1>1, <1>4
  <1>6. \A k \in 0..(n - 1) : r[k + 1] = op[<<r[k], values[k + 1]>>]
    BY <1>2, <1>4
  <1> HIDE DEF r
  <1>7. Loop(r, n, op, base, values, f[1..n])
    BY <1>5, <1>6 DEF Loop
  <1> QED BY <1>7

\* The loop of a maximum.
LEMMA FoldLarger ==
  ASSUME NEW seq \in Seq(Int), NEW base \in Int
  PROVE  \E r \in [0..Len(seq) -> Int] :
            /\ r[0] = base /\ r[Len(seq)] = FoldLeft(Larger, base, seq)
            /\ \A k \in 0..(Len(seq) - 1) : r[k + 1] = Larger(r[k], seq[k + 1])
  <1> DEFINE n == Len(seq)
             op == [p \in Int \X Int |-> Larger(p[1], p[2])]
             P(g) == g = [s \in SUBSET DOMAIN seq |->
                            IF s = {} THEN base ELSE Larger(g[s \ {Max(s)}], seq[Max(s)])]
             f == CHOOSE g : P(g)
  <1>1. n \in Nat /\ DOMAIN seq = 1..n /\ seq \in [1..n -> Int] /\ op \in [Int \X Int -> Int]
    BY DEF Larger
  <1>2. \A s \in SUBSET (1..n) : s # {} =>
           seq[Max(s)] \in Int /\ s \ {Max(s)} \in SUBSET (1..n)
    BY <1>1, MaxOf
  <1>3. \A a, b \in Int : op[<<a, b>>] = Larger(a, b)
    OBVIOUS
  <1> HIDE DEF op
  <1>4. \E g : P(g)
    <2>1. PICK g : Folds(g, n, op, base, seq)
      BY <1>1, FoldExists
    <2>2. g = [s \in SUBSET (1..n) |-> g[s]]
      BY <2>1 DEF Folds
    <2>3. P(g)
      BY <1>1, <1>2, <1>3, <2>1, <2>2 DEF Folds
    <2> QED BY <2>3
  <1>5. FoldLeft(Larger, base, seq) = f[1..n]
    BY <1>1 DEF FoldLeft, MapThenFoldSet
  <1>6. P(f)
    <2> HIDE DEF P
    <2> QED BY <1>4
  <1> HIDE DEF f
  <1>7. ASSUME NEW s \in SUBSET (1..n)
        PROVE  f[s] = IF s = {} THEN base ELSE Larger(f[s \ {Max(s)}], seq[Max(s)])
    BY <1>1, <1>6
  <1> HIDE DEF P
  <1>8. Follows(f, n, op, base, seq)
    BY <1>2, <1>3, <1>7 DEF Follows
  <1>9. PICK r : Loop(r, n, op, base, seq, f[1..n])
    BY <1>1, <1>8, FoldRuns
  <1>10. ASSUME NEW k \in 0..(n - 1)
         PROVE  r[k] \in Int /\ seq[k + 1] \in Int
    <2>1. k \in 0..n /\ k + 1 \in 1..n
      BY <1>1
    <2> QED BY <1>1, <1>9, <2>1 DEF Loop
  <1> QED BY <1>3, <1>5, <1>9, <1>10 DEF Loop

\* The loop of a minimum.
LEMMA FoldSmaller ==
  ASSUME NEW seq \in Seq(Int), NEW base \in Int
  PROVE  \E r \in [0..Len(seq) -> Int] :
            /\ r[0] = base /\ r[Len(seq)] = FoldLeft(Smaller, base, seq)
            /\ \A k \in 0..(Len(seq) - 1) : r[k + 1] = Smaller(r[k], seq[k + 1])
  <1> DEFINE n == Len(seq)
             op == [p \in Int \X Int |-> Smaller(p[1], p[2])]
             P(g) == g = [s \in SUBSET DOMAIN seq |->
                            IF s = {} THEN base ELSE Smaller(g[s \ {Max(s)}], seq[Max(s)])]
             f == CHOOSE g : P(g)
  <1>1. n \in Nat /\ DOMAIN seq = 1..n /\ seq \in [1..n -> Int] /\ op \in [Int \X Int -> Int]
    BY DEF Smaller
  <1>2. \A s \in SUBSET (1..n) : s # {} =>
           seq[Max(s)] \in Int /\ s \ {Max(s)} \in SUBSET (1..n)
    BY <1>1, MaxOf
  <1>3. \A a, b \in Int : op[<<a, b>>] = Smaller(a, b)
    OBVIOUS
  <1> HIDE DEF op
  <1>4. \E g : P(g)
    <2>1. PICK g : Folds(g, n, op, base, seq)
      BY <1>1, FoldExists
    <2>2. g = [s \in SUBSET (1..n) |-> g[s]]
      BY <2>1 DEF Folds
    <2>3. P(g)
      BY <1>1, <1>2, <1>3, <2>1, <2>2 DEF Folds
    <2> QED BY <2>3
  <1>5. FoldLeft(Smaller, base, seq) = f[1..n]
    BY <1>1 DEF FoldLeft, MapThenFoldSet
  <1>6. P(f)
    <2> HIDE DEF P
    <2> QED BY <1>4
  <1> HIDE DEF f
  <1>7. ASSUME NEW s \in SUBSET (1..n)
        PROVE  f[s] = IF s = {} THEN base ELSE Smaller(f[s \ {Max(s)}], seq[Max(s)])
    BY <1>1, <1>6
  <1> HIDE DEF P
  <1>8. Follows(f, n, op, base, seq)
    BY <1>2, <1>3, <1>7 DEF Follows
  <1>9. PICK r : Loop(r, n, op, base, seq, f[1..n])
    BY <1>1, <1>8, FoldRuns
  <1>10. ASSUME NEW k \in 0..(n - 1)
         PROVE  r[k] \in Int /\ seq[k + 1] \in Int
    <2>1. k \in 0..n /\ k + 1 \in 1..n
      BY <1>1
    <2> QED BY <1>1, <1>9, <2>1 DEF Loop
  <1> QED BY <1>3, <1>5, <1>9, <1>10 DEF Loop

----------------------------------------------------------------------------
(* Floating point *)

\* Products keep the order.
LEMMA Products ==
  ASSUME NEW a \in Int, NEW b \in Int, NEW c \in Nat \ {0}
  PROVE  /\ c * a \in Int /\ c * b \in Int
         /\ a <= b <=> c * a <= c * b
         /\ a < b <=> c * a < c * b
  <1>1. a <= b => c * a <= c * b
    OBVIOUS
  <1>2. a < b => c * a < c * b
    OBVIOUS
  <1>3. b <= a => c * b <= c * a
    OBVIOUS
  <1>4. b < a => c * b < c * a
    OBVIOUS
  <1>5. c * a \in Int /\ c * b \in Int
    OBVIOUS
  <1> QED BY <1>1, <1>2, <1>3, <1>4, <1>5

LEMMA Half ==
  ASSUME NEW m \in Nat, m > 0
  PROVE  /\ m \div 2 \in Nat /\ m \div 2 < m
         /\ 2 * (m \div 2) <= m /\ m < 2 * (m \div 2) + 2
  OBVIOUS

\* g is what Spacing says of the magnitudes up to n.
Spaces(g, n) ==
  /\ g \in [0..n -> Nat \ {0}]
  /\ \A m \in 0..n : g[m] = IF m < Significand THEN 1 ELSE 2 * g[m \div 2]

LEMMA SpacesExist ==
  ASSUME NEW n \in Nat
  PROVE  \E g : Spaces(g, n)
  <1> DEFINE S == {k \in 0..n : \E g : Spaces(g, k)}
  <1>1. 0 \in S
    <2> DEFINE g == [m \in 0..0 |-> 1]
    <2>1. Spaces(g, 0)
      BY FloatAssumption DEF Spaces
    <2> QED BY <2>1
  <1>2. ASSUME NEW k \in 0..(n - 1), k \in S PROVE k + 1 \in S
    <2>1. PICK g : Spaces(g, k)
      BY <1>2
    <2> DEFINE l == k + 1
               h == [m \in 0..l |-> IF m <= k THEN g[m]
                                    ELSE IF l < Significand THEN 1 ELSE 2 * g[l \div 2]]
    <2>2. l \div 2 \in 0..k /\ l \in Nat /\ l > 0
      BY Half
    <2>3. \A m \in 0..k : g[m] \in Nat \ {0} /\ h[m] = g[m]
      BY <2>1 DEF Spaces
    <2>4. \A m \in 0..l : m \in 0..k \/ m = l
      OBVIOUS
    <2>5. h[l] = IF l < Significand THEN 1 ELSE 2 * g[l \div 2]
      OBVIOUS
    <2>6. h \in [0..l -> Nat \ {0}]
      <3> HIDE DEF h, l
      <3>0. g[l \div 2] \in Nat \ {0}
        BY <2>2, <2>3, Zenon
      <3>1. h[l] \in Nat \ {0}
        BY <2>5, <3>0
      <3>2. \A m \in 0..l : h[m] \in Nat \ {0}
        BY <2>3, <2>4, <3>1, Zenon
      <3> QED BY <3>2 DEF h
    <2>7. ASSUME NEW m \in 0..k
          PROVE  h[m] = IF m < Significand THEN 1 ELSE 2 * h[m \div 2]
      <3>1. h[m] = g[m] /\ g[m] = IF m < Significand THEN 1 ELSE 2 * g[m \div 2]
        BY <2>1, <2>3 DEF Spaces
      <3>2. m \div 2 \in 0..k
        BY Half
      <3>3. h[m \div 2] = g[m \div 2]
        BY <2>3, <3>2
      <3> QED BY <3>1, <3>3
    <2>8. h[l] = IF l < Significand THEN 1 ELSE 2 * h[l \div 2]
      BY <2>2, <2>3, <2>5
    <2> HIDE DEF h, l
    <2>9. Spaces(h, l)
      BY <2>4, <2>6, <2>7, <2>8 DEF Spaces
    <2> QED BY <2>9 DEF l
  <1>3. \A k \in 0..n : k \in S
    <2> HIDE DEF S
    <2> QED BY <1>1, <1>2, Induction
  <1> QED BY <1>3

LEMMA SpacesAgree ==
  ASSUME NEW n \in Nat, NEW m \in Nat, NEW g, NEW h, Spaces(g, n), Spaces(h, m),
         NEW i \in 0..n, i <= m
  PROVE  g[i] = h[i]
  <1> DEFINE T == {j \in 0..n : j <= m /\ g[j] # h[j]}
  <1> SUFFICES ASSUME T # {} PROVE FALSE
    OBVIOUS
  <1>1. T \subseteq Nat
    OBVIOUS
  <1>2. PICK j \in T : \A k \in T : j <= k
    <2> HIDE DEF T
    <2> QED BY <1>1, LeastElement
  <1>3. j \in 0..n /\ j \in 0..m /\ g[j] # h[j]
    BY <1>2
  <1>4. /\ g[j] = IF j < Significand THEN 1 ELSE 2 * g[j \div 2]
        /\ h[j] = IF j < Significand THEN 1 ELSE 2 * h[j \div 2]
    BY <1>3 DEF Spaces
  <1>5. ~(j < Significand) /\ g[j \div 2] # h[j \div 2]
    BY <1>3, <1>4
  <1>6. j > 0 /\ j \in Nat
    BY <1>3, <1>5, FloatAssumption
  <1>7. j \div 2 \in 0..n /\ j \div 2 <= m /\ j \div 2 < j
    BY <1>3, <1>6, Half
  <1>8. j \div 2 \in T
    BY <1>5, <1>7
  <1> QED BY <1>2, <1>6, <1>7, <1>8, Half

\* Spacing is a function, and positive.
LEMMA SpacingIs ==
  /\ Spacing \in [Nat -> Nat \ {0}]
  /\ \A m \in Nat : Spacing[m] = IF m < Significand THEN 1 ELSE 2 * Spacing[m \div 2]
  <1> DEFINE P(f) == f = [m \in Nat |-> IF m < Significand THEN 1 ELSE 2 * f[m \div 2]]
             up(n) == CHOOSE g : Spaces(g, n)
             f == [m \in Nat |-> up(m)[m]]
  <1>1. \A n \in Nat : Spaces(up(n), n)
    BY SpacesExist
  <1> HIDE DEF up
  <1>2. ASSUME NEW m \in Nat
        PROVE  /\ f[m] = IF m < Significand THEN 1 ELSE 2 * f[m \div 2]
               /\ f[m] \in Nat \ {0}
    <2>1. Spaces(up(m), m) /\ m \in 0..m
      BY <1>1
    <2>2. up(m)[m] \in Nat \ {0}
          /\ up(m)[m] = IF m < Significand THEN 1 ELSE 2 * up(m)[m \div 2]
      BY <2>1 DEF Spaces
    <2>3. ASSUME ~(m < Significand) PROVE up(m)[m \div 2] = f[m \div 2]
      <3>1. m \div 2 \in Nat /\ m \div 2 \in 0..m /\ m \div 2 <= m
        BY <2>3, FloatAssumption, Half
      <3>2. Spaces(up(m \div 2), m \div 2) /\ m \div 2 \in 0..(m \div 2)
        BY <1>1, <3>1
      <3>3. up(m)[m \div 2] = up(m \div 2)[m \div 2]
        BY <2>1, <3>1, <3>2, SpacesAgree
      <3> QED BY <3>1, <3>3
    <2> QED BY <2>2, <2>3
  <1>3. P(f)
    <2> HIDE DEF f
    <2>1. f = [m \in Nat |-> f[m]]
      BY DEF f
    <2> QED BY <1>2, <2>1
  <1>4. Spacing = CHOOSE g : P(g)
    BY DEF Spacing
  <1>5. P(Spacing)
    <2> HIDE DEF P, f
    <2> QED BY <1>3, <1>4
  <1>6. \A m \in Nat : Spacing[m] = IF m < Significand THEN 1 ELSE 2 * Spacing[m \div 2]
    BY <1>5
  <1>8. Spacing = [m \in Nat |-> Spacing[m]]
    BY <1>5
  <1> HIDE DEF P, f
  <1> DEFINE T == {m \in Nat : Spacing[m] \notin Nat \ {0}}
  <1>7. T = {}
    <2> SUFFICES ASSUME T # {} PROVE FALSE
      OBVIOUS
    <2>1. T \subseteq Nat
      OBVIOUS
    <2>2. PICK j \in T : \A k \in T : j <= k
      <3> HIDE DEF T
      <3> QED BY <2>1, LeastElement
    <2>3. j \in Nat /\ Spacing[j] \notin Nat \ {0}
      BY <2>2, Zenon
    <2>4. CASE j < Significand
      <3>1. Spacing[j] = 1
        BY <1>6, <2>3, <2>4, Zenon
      <3> QED BY <2>3, <3>1
    <2>5. CASE ~(j < Significand)
      <3> DEFINE h == j \div 2
      <3>1. Spacing[j] = 2 * Spacing[h]
        BY <1>6, <2>3, <2>5, Zenon
      <3>2. h \in Nat /\ h < j
        BY <2>3, <2>5, FloatAssumption, Half
      <3>3. ~(j <= h)
        BY <2>3, <3>2
      <3> HIDE DEF h
      <3>4. h \notin T
        BY <2>2, <3>3, Zenon
      <3>5. Spacing[h] \in Nat \ {0}
        BY <3>2, <3>4, Zenon
      <3>6. 2 * Spacing[h] \in Nat \ {0}
        BY <3>5
      <3> QED BY <2>3, <3>1, <3>6, Zenon
    <2> QED BY <2>4, <2>5
  <1>9. \A m \in Nat : Spacing[m] \in Nat \ {0}
    BY <1>7
  <1> QED BY <1>6, <1>8, <1>9

\* The spacing grows with the magnitude, in proportion to it.
LEMMA SpacingBounds ==
  ASSUME NEW m \in Nat
  PROVE  /\ Significand * Spacing[m] \in Nat
         /\ m < Significand * Spacing[m]
         /\ Spacing[m] = 1 \/ Significand * Spacing[m] <= 2 * m
  <1> DEFINE big(k) == Significand * Spacing[k]
             T == {k \in Nat : ~(k < big(k) /\ (Spacing[k] = 1 \/ big(k) <= 2 * k))}
  <1>1. \A k \in Nat : big(k) \in Nat
    BY SpacingIs, FloatAssumption
  <1>2. T = {}
    <2> SUFFICES ASSUME T # {} PROVE FALSE
      OBVIOUS
    <2>1. T \subseteq Nat
      OBVIOUS
    <2>2. PICK j \in T : \A k \in T : j <= k
      <3> HIDE DEF T
      <3> QED BY <2>1, LeastElement
    <2>3. j \in Nat /\ Spacing[j] = IF j < Significand THEN 1 ELSE 2 * Spacing[j \div 2]
      BY <2>2, SpacingIs
    <2>4. CASE j < Significand
      <3>1. Spacing[j] = 1 /\ big(j) = Significand
        BY <2>3, <2>4, FloatAssumption
      <3> QED BY <2>2, <2>4, <3>1
    <2>5. CASE ~(j < Significand)
      <3> DEFINE h == j \div 2
      <3>1. h \in Nat /\ h < j /\ 2 * h <= j /\ j < 2 * h + 2
        BY <2>3, <2>5, FloatAssumption, Half
      <3>2. h \notin T
        BY <2>2, <2>3, <3>1
      <3>3. h < big(h) /\ (Spacing[h] = 1 \/ big(h) <= 2 * h)
        BY <3>1, <3>2
      <3>4. Spacing[h] \in Nat \ {0} /\ Spacing[j] = 2 * Spacing[h]
        BY <2>3, <2>5, <3>1, SpacingIs
      <3>5. big(j) = 2 * big(h)
        BY <3>4, FloatAssumption
      <3>6. Spacing[h] = 1 => big(h) = Significand
        BY FloatAssumption
      <3>7. big(h) \in Nat /\ Significand \in Nat
        BY <1>1, <3>1, FloatAssumption
      <3>8. j < big(j) /\ big(j) <= 2 * j
        <4> HIDE DEF h, big
        <4> QED BY <2>3, <2>5, <3>1, <3>3, <3>5, <3>6, <3>7
      <3> QED BY <2>2, <3>8
    <2> QED BY <2>4, <2>5
  <1>3. m \notin T
    BY <1>2
  <1> QED BY <1>1, <1>3

LEMMA SpacingGrows ==
  ASSUME NEW m \in Nat, NEW k \in Nat, m <= k
  PROVE  Spacing[m] <= Spacing[k]
  <1> DEFINE T == {j \in Nat : \E i \in Nat : i <= j /\ ~(Spacing[i] <= Spacing[j])}
  <1>1. T = {}
    <2> SUFFICES ASSUME T # {} PROVE FALSE
      OBVIOUS
    <2>1. T \subseteq Nat
      OBVIOUS
    <2>2. PICK j \in T : \A i \in T : j <= i
      <3> HIDE DEF T
      <3> QED BY <2>1, LeastElement
    <2>3. PICK i \in Nat : i <= j /\ ~(Spacing[i] <= Spacing[j])
      BY <2>2
    <2>4. /\ Spacing[i] = IF i < Significand THEN 1 ELSE 2 * Spacing[i \div 2]
          /\ Spacing[j] = IF j < Significand THEN 1 ELSE 2 * Spacing[j \div 2]
          /\ Spacing[j] \in Nat \ {0} /\ j \in Nat
      BY <2>2, <2>3, SpacingIs
    <2>5. ~(i < Significand)
      BY <2>3, <2>4
    <2>6. ~(j < Significand) /\ j > 0 /\ i > 0
      BY <2>3, <2>4, <2>5, FloatAssumption
    <2>7. j \div 2 \in Nat /\ j \div 2 < j /\ i \div 2 \in Nat /\ i \div 2 <= j \div 2
      BY <2>3, <2>4, <2>6, Half
    <2>8. j \div 2 \notin T
      BY <2>2, <2>4, <2>7
    <2>9. Spacing[i \div 2] <= Spacing[j \div 2]
      BY <2>7, <2>8
    <2>10. Spacing[i \div 2] \in Nat /\ Spacing[j \div 2] \in Nat
      BY <2>7, SpacingIs
    <2> QED BY <2>3, <2>4, <2>5, <2>6, <2>9, <2>10
  <1>2. k \notin T
    BY <1>1
  <1> QED BY <1>2

\* Rounding to an integer errs by half a unit at most.
LEMMA NearestError ==
  ASSUME NEW n \in Int, NEW d \in Nat \ {0}
  PROVE  /\ Nearest(n, d) \in Int
         /\ 2 * (d * Nearest(n, d) - n) <= d
         /\ 2 * (n - d * Nearest(n, d)) <= d
  <1> DEFINE q == n \div d
             r == n % d
  <1>1. q \in Int /\ r \in 0..(d - 1) /\ n = d * q + r
    OBVIOUS
  <1>2. d * (q + 1) = d * q + d /\ d * q \in Int
    BY <1>1
  <1>3. \/ Nearest(n, d) = q + 1 /\ 2 * r >= d
        \/ Nearest(n, d) = q /\ 2 * r <= d
    <2>1. Nearest(n, d) = IF 2 * r > d \/ (2 * r = d /\ q % 2 = 1) THEN q + 1 ELSE q
      BY DEF Nearest
    <2>2. r \in Int
      BY <1>1
    <2> HIDE DEF q, r
    <2> QED BY <2>1, <2>2
  <1> DEFINE dq == d * q
  <1>4. dq \in Int /\ n = dq + r /\ r \in Int /\ r <= d - 1 /\ 0 <= r
        /\ \/ d * Nearest(n, d) = dq + d /\ 2 * r >= d
           \/ d * Nearest(n, d) = dq /\ 2 * r <= d
    BY <1>1, <1>2, <1>3
  <1>5. Nearest(n, d) \in Int
    BY <1>1, <1>3
  <1> HIDE DEF dq, q, r
  <1>6. 2 * (d * Nearest(n, d) - n) <= d /\ 2 * (n - d * Nearest(n, d)) <= d
    BY <1>4
  <1> QED BY <1>5, <1>6

LEMMA AbsType ==
  ASSUME NEW n \in Int
  PROVE  Abs(n) \in Nat /\ n <= Abs(n) /\ -n <= Abs(n)
  BY DEF Abs

LEMMA Quotient ==
  ASSUME NEW n \in Nat, NEW d \in Nat \ {0}
  PROVE  n \div d \in Nat /\ d * (n \div d) <= n /\ n < d * (n \div d) + d /\ n \div d <= n
  <1> DEFINE q == n \div d
  <1>1. q \in Int /\ n % d \in 0..(d - 1) /\ n = d * q + (n % d)
    OBVIOUS
  <1>2. q >= 0
    <2> SUFFICES ASSUME q <= -1 PROVE FALSE
      BY <1>1
    <2>1. d * q <= d * (-1)
      BY <1>1
    <2> QED BY <1>1, <2>1
  <1>3. d * q \in Int /\ d * q <= n /\ n < d * q + d
    <2> DEFINE p == d * q
    <2>1. p \in Int /\ n = p + (n % d) /\ n % d \in 0..(d - 1)
      BY <1>1
    <2> HIDE DEF p
    <2>2. p <= n /\ n < p + d
      BY <2>1
    <2> QED BY <2>1, <2>2 DEF p
  <1>4. q <= d * q
    BY <1>1, <1>2
  <1> QED BY <1>1, <1>2, <1>3, <1>4

\* Rounding to a float errs by half a spacing at most.
LEMMA FloatError ==
  ASSUME NEW n \in Int, NEW d \in Nat \ {0}, NEW s \in Nat, Spacing[Abs(n) \div d] <= s
  PROVE  /\ Float(n, d) \in Int /\ d * Float(n, d) \in Int
         /\ 2 * (d * Float(n, d) - n) <= d * s
         /\ 2 * (n - d * Float(n, d)) <= d * s
  <1> DEFINE step == Spacing[Abs(n) \div d]
             k == Nearest(n, d * step)
  <1>1. step \in Nat \ {0}
    BY AbsType, Quotient, SpacingIs
  <1> HIDE DEF step
  <1>2. d * step \in Nat \ {0}
    BY <1>1
  <1>3. k \in Int /\ 2 * ((d * step) * k - n) <= d * step /\ 2 * (n - (d * step) * k) <= d * step
    BY <1>2, NearestError
  <1>4. Float(n, d) = step * k
    BY DEF Float, step
  <1> HIDE DEF k
  <1>5. d * (step * k) = (d * step) * k /\ step * k \in Int /\ (d * step) * k \in Int
    BY <1>1, <1>2, <1>3
  <1>6. d * step <= d * s
    BY <1>1, Products DEF step
  <1>7. d * s \in Int
    OBVIOUS
  <1> DEFINE p == (d * step) * k
             u == d * step
             w == d * s
  <1>8. p \in Int /\ u \in Int /\ w \in Int /\ u <= w /\ 2 * (p - n) <= u /\ 2 * (n - p) <= u
        /\ d * Float(n, d) = p
    BY <1>2, <1>3, <1>4, <1>5, <1>6, <1>7
  <1> HIDE DEF p, u, w
  <1>9. 2 * (d * Float(n, d) - n) <= w /\ 2 * (n - d * Float(n, d)) <= w
    BY <1>8
  <1> QED BY <1>4, <1>5, <1>8, <1>9 DEF w

LEMMA FloatType ==
  ASSUME NEW n \in Int, NEW d \in Nat \ {0}
  PROVE  Float(n, d) \in Int
  <1> DEFINE s == Spacing[Abs(n) \div d]
  <1>1. s \in Nat /\ s <= s
    BY AbsType, Quotient, SpacingIs
  <1> QED BY <1>1, FloatError

----------------------------------------------------------------------------
(* How far rounding goes *)

\* The magnitude of a value in thousandths, in units.
Magnitude(v) == Abs(v * Unit) \div 1000 + 1

\* A bound of all sums that occur, for values whose magnitudes add up to t.
Room(t, n) == 2 * t + 4 * n

\* Spacings are small enough for n of them, twice, to leave room.
LEMMA RoomForRounding ==
  ASSUME NEW t \in Nat, NEW n \in Nat, 8 * n <= Significand,
         NEW s, s = Spacing[Room(t, n)]
  PROVE  /\ s \in Nat \ {0} /\ n * s \in Nat
         /\ Room(t, n) \in Nat /\ t + 2 * (n * s) <= Room(t, n)
         /\ Room(t, n) < Significand * s
         /\ 2 * t <= Room(t, n)
  <1> DEFINE b == Room(t, n)
             big == Significand * s
             ns == n * s
  <1>1. b \in Nat /\ b = 2 * t + 4 * n
    BY DEF Room
  <1>2. /\ s \in Nat \ {0} /\ big \in Nat /\ b < big
        /\ s = 1 \/ big <= 2 * b
    BY <1>1, SpacingIs, SpacingBounds
  <1>3. (8 * n) * s <= big /\ (8 * n) * s = 8 * ns /\ ns \in Nat
    BY <1>2, FloatAssumption
  <1>4. s = 1 => ns = n
    OBVIOUS
  <1> HIDE DEF b, big, ns
  <1>5. t + 2 * ns <= b
    <2>1. CASE s = 1
      BY <1>1, <1>4, <2>1
    <2>2. CASE big <= 2 * b
      BY <1>1, <1>2, <1>3, <2>2
    <2> QED BY <1>2, <2>1, <2>2
  <1>6. 2 * t <= b
    BY <1>1
  <1> QED BY <1>1, <1>2, <1>3, <1>5, <1>6 DEF b, big, ns

\* a thousandths of units are read to a spacing.
LEMMA ThousandthError ==
  ASSUME NEW a \in Int, NEW t \in Nat, Abs(a) \div 1000 + 1 <= t, NEW n \in Nat \ {0},
         8 * n <= Significand, NEW s, s = Spacing[Room(t, n)],
         NEW x, x = Float(Float(a, 1), 1000)
  PROVE  /\ x \in Int
         /\ 1000 * x - a <= 1000 * s /\ a - 1000 * x <= 1000 * s
         /\ a <= 1000 * t /\ -a <= 1000 * t
  <1> DEFINE m == Abs(a)
             f == Float(a, 1)
             b == Room(t, n)
             big == Significand * s
             one == Spacing[m]
             q == m \div 1000
             bigone == Significand * one
  <1>2. /\ s \in Nat \ {0} /\ b \in Nat /\ 2 * t <= b /\ b < big /\ b = 2 * t + 4 * n
    BY RoomForRounding DEF Room
  <1>3. m \in Nat /\ a <= m /\ -a <= m
    BY AbsType
  <1>4. q \in Nat /\ m < 1000 * q + 1000 /\ q + 1 <= t
    BY <1>3, Quotient
  <1>5. /\ one \in Nat \ {0} /\ bigone \in Nat
        /\ (one = 1 \/ bigone <= 2 * m)
    BY <1>3, SpacingIs, SpacingBounds
  <1>6. m <= 1000 * t
    <2> HIDE DEF m, q
    <2> QED BY <1>3, <1>4
  <1>7. big \in Int /\ 1000 * big = Significand * (1000 * s)
    BY <1>2, FloatAssumption
  <1>8. one <= bigone
    <2>1. 1 * one <= Significand * one
      BY <1>5, FloatAssumption
    <2> QED BY <1>5, <2>1
  <1>9. one <= 1000 * s
    <2>1. CASE one = 1
      BY <1>2, <2>1
    <2>2. CASE bigone <= 2 * m
      <3>1. bigone < 1000 * big
        <4> HIDE DEF big, bigone, m, b, one
        <4> QED BY <1>2, <1>3, <1>5, <1>6, <1>7, <2>2
      <3>2. Significand * one < Significand * (1000 * s)
        BY <1>7, <3>1
      <3>3. one < 1000 * s
        <4>1. one \in Int /\ 1000 * s \in Int /\ Significand \in Nat \ {0}
          BY <1>2, <1>5, FloatAssumption
        <4> DEFINE z == 1000 * s
        <4> HIDE DEF one, z
        <4> QED BY <3>2, <4>1, Products DEF z
      <3> QED BY <1>2, <1>5, <3>3
    <2> QED BY <1>5, <2>1, <2>2
  <1>10. f \in Int /\ 2 * (f - a) <= one /\ 2 * (a - f) <= one
    <2>1. m \div 1 = m
      BY <1>3
    <2>2. Spacing[Abs(a) \div 1] <= one
      BY <1>5, <2>1
    <2> HIDE DEF one
    <2>3. f \in Int /\ 2 * (1 * f - a) <= 1 * one /\ 2 * (a - 1 * f) <= 1 * one
      BY <1>5, <2>2, FloatError
    <2> HIDE DEF f
    <2> QED BY <1>5, <2>3
  <1>11. f <= 1000 * b /\ -f <= 1000 * b
    <2> HIDE DEF m, f, one, b, bigone
    <2> QED BY <1>2, <1>3, <1>5, <1>6, <1>8, <1>10
  <1>12. Abs(f) \in Nat /\ Abs(f) <= 1000 * b
    <2> HIDE DEF f, b
    <2> QED BY <1>10, <1>11 DEF Abs
  <1>13. Abs(f) \div 1000 \in Nat /\ Abs(f) \div 1000 <= b
    <2> HIDE DEF f, b
    <2>1. Abs(f) \div 1000 \in Nat /\ 1000 * (Abs(f) \div 1000) <= Abs(f)
      BY <1>12, Quotient
    <2> QED BY <1>2, <1>12, <2>1
  <1>14. Spacing[Abs(f) \div 1000] <= s
    BY <1>2, <1>13, SpacingGrows
  <1>15. x \in Int /\ 2 * (1000 * x - f) <= 1000 * s /\ 2 * (f - 1000 * x) <= 1000 * s
    <2> HIDE DEF f
    <2> QED BY <1>2, <1>10, <1>14, FloatError DEF f
  <1> HIDE DEF m, f, one, b, q
  <1>16. 1000 * x - a <= 1000 * s /\ a - 1000 * x <= 1000 * s
    BY <1>2, <1>5, <1>9, <1>10, <1>15
  <1> QED BY <1>3, <1>6, <1>15, <1>16

\* x is v as it is read, next to n values whose magnitudes add up to t.
ReadTo(v, x, t, n, s) ==
  /\ v \in Int /\ t \in Nat /\ Magnitude(v) <= t /\ n \in Nat \ {0} /\ 8 * n <= Significand
  /\ s = Spacing[Room(t, n)] /\ x = Float(Float(v * Unit, 1), 1000)

\* A value is read to a spacing.
LEMMA ReadError ==
  ASSUME NEW v, NEW x, NEW t, NEW n, NEW s, ReadTo(v, x, t, n, s)
  PROVE  /\ x \in Int
         /\ 1000 * x - Unit * v <= 1000 * s /\ Unit * v - 1000 * x <= 1000 * s
         /\ Unit * v <= 1000 * t /\ -(Unit * v) <= 1000 * t
  <1> DEFINE a == v * Unit
  <1>1. a \in Int /\ a = Unit * v
    BY FloatAssumption DEF ReadTo
  <1>2. Abs(a) \div 1000 + 1 <= t
    BY DEF Magnitude, ReadTo
  <1> HIDE DEF a
  <1>3. x = Float(Float(a, 1), 1000)
    BY DEF a, ReadTo
  <1>4. t \in Nat /\ n \in Nat \ {0} /\ 8 * n <= Significand /\ s = Spacing[Room(t, n)]
    BY DEF ReadTo
  <1> QED BY <1>1, <1>2, <1>3, <1>4, ThousandthError

\* The loop of an exact sum.
LEMMA FoldAdd ==
  ASSUME NEW seq \in Seq(Int), NEW base \in Int
  PROVE  \E r \in [0..Len(seq) -> Int] :
            /\ r[0] = base /\ r[Len(seq)] = FoldLeft(Add, base, seq)
            /\ \A k \in 0..(Len(seq) - 1) : r[k + 1] = Add(r[k], seq[k + 1])
  <1> DEFINE n == Len(seq)
             op == [p \in Int \X Int |-> Add(p[1], p[2])]
             P(g) == g = [s \in SUBSET DOMAIN seq |->
                            IF s = {} THEN base ELSE Add(g[s \ {Max(s)}], seq[Max(s)])]
             f == CHOOSE g : P(g)
  <1>1. n \in Nat /\ DOMAIN seq = 1..n /\ seq \in [1..n -> Int] /\ op \in [Int \X Int -> Int]
    BY DEF Add
  <1>2. \A s \in SUBSET (1..n) : s # {} =>
           seq[Max(s)] \in Int /\ s \ {Max(s)} \in SUBSET (1..n)
    BY <1>1, MaxOf
  <1>3. \A a, b \in Int : op[<<a, b>>] = Add(a, b)
    OBVIOUS
  <1> HIDE DEF op
  <1>4. \E g : P(g)
    <2>1. PICK g : Folds(g, n, op, base, seq)
      BY <1>1, FoldExists
    <2>2. g = [s \in SUBSET (1..n) |-> g[s]]
      BY <2>1 DEF Folds
    <2>3. P(g)
      BY <1>1, <1>2, <1>3, <2>1, <2>2 DEF Folds
    <2> QED BY <2>3
  <1>5. FoldLeft(Add, base, seq) = f[1..n]
    BY <1>1 DEF FoldLeft, MapThenFoldSet
  <1>6. P(f)
    <2> HIDE DEF P
    <2> QED BY <1>4
  <1> HIDE DEF f
  <1>7. ASSUME NEW s \in SUBSET (1..n)
        PROVE  f[s] = IF s = {} THEN base ELSE Add(f[s \ {Max(s)}], seq[Max(s)])
    BY <1>1, <1>6
  <1> HIDE DEF P
  <1>8. Follows(f, n, op, base, seq)
    BY <1>2, <1>3, <1>7 DEF Follows
  <1>9. PICK r : Loop(r, n, op, base, seq, f[1..n])
    BY <1>1, <1>8, FoldRuns
  <1>10. ASSUME NEW k \in 0..(n - 1)
         PROVE  r[k] \in Int /\ seq[k + 1] \in Int
    <2>1. k \in 0..n /\ k + 1 \in 1..n
      BY <1>1
    <2> QED BY <1>1, <1>9, <2>1 DEF Loop
  <1> QED BY <1>3, <1>5, <1>9, <1>10 DEF Loop

\* The loop of a sum of floats.
LEMMA FoldPlus ==
  ASSUME NEW seq \in Seq(Int), NEW base \in Int
  PROVE  \E r \in [0..Len(seq) -> Int] :
            /\ r[0] = base /\ r[Len(seq)] = FoldLeft(Plus, base, seq)
            /\ \A k \in 0..(Len(seq) - 1) : r[k + 1] = Plus(r[k], seq[k + 1])
  <1> DEFINE n == Len(seq)
             op == [p \in Int \X Int |-> Plus(p[1], p[2])]
             P(g) == g = [s \in SUBSET DOMAIN seq |->
                            IF s = {} THEN base ELSE Plus(g[s \ {Max(s)}], seq[Max(s)])]
             f == CHOOSE g : P(g)
  <1>1. n \in Nat /\ DOMAIN seq = 1..n /\ seq \in [1..n -> Int] /\ op \in [Int \X Int -> Int]
    <2>1. ASSUME NEW x \in Int, NEW y \in Int PROVE Plus(x, y) \in Int
      BY FloatType DEF Plus
    <2>2. \A p \in Int \X Int : Plus(p[1], p[2]) \in Int
      BY <2>1
    <2>3. op \in [Int \X Int -> Int]
      BY <2>2
    <2> QED BY <2>3
  <1>2. \A s \in SUBSET (1..n) : s # {} =>
           seq[Max(s)] \in Int /\ s \ {Max(s)} \in SUBSET (1..n)
    BY <1>1, MaxOf
  <1>3. \A a, b \in Int : op[<<a, b>>] = Plus(a, b)
    OBVIOUS
  <1> HIDE DEF op
  <1>4. \E g : P(g)
    <2>1. PICK g : Folds(g, n, op, base, seq)
      BY <1>1, FoldExists
    <2>2. g = [s \in SUBSET (1..n) |-> g[s]]
      BY <2>1 DEF Folds
    <2>3. P(g)
      BY <1>1, <1>2, <1>3, <2>1, <2>2 DEF Folds
    <2> QED BY <2>3
  <1>5. FoldLeft(Plus, base, seq) = f[1..n]
    BY <1>1 DEF FoldLeft, MapThenFoldSet
  <1>6. P(f)
    <2> HIDE DEF P
    <2> QED BY <1>4
  <1> HIDE DEF f
  <1>7. ASSUME NEW s \in SUBSET (1..n)
        PROVE  f[s] = IF s = {} THEN base ELSE Plus(f[s \ {Max(s)}], seq[Max(s)])
    BY <1>1, <1>6
  <1> HIDE DEF P
  <1>8. Follows(f, n, op, base, seq)
    BY <1>2, <1>3, <1>7 DEF Follows
  <1>9. PICK r : Loop(r, n, op, base, seq, f[1..n])
    BY <1>1, <1>8, FoldRuns
  <1>10. ASSUME NEW k \in 0..(n - 1)
         PROVE  r[k] \in Int /\ seq[k + 1] \in Int
    <2>1. k \in 0..n /\ k + 1 \in 1..n
      BY <1>1
    <2> QED BY <1>1, <1>9, <2>1 DEF Loop
  <1> QED BY <1>3, <1>5, <1>9, <1>10 DEF Loop

\* t is the running sum of the magnitudes of v, q that of v, r that of the floats w.
Sums(v, w, t, q, r) ==
  /\ t \in [0..Len(v) -> Int] /\ q \in [0..Len(v) -> Int] /\ r \in [0..Len(v) -> Int]
  /\ t[0] = 0 /\ q[0] = 0 /\ r[0] = 0
  /\ \A k \in 0..(Len(v) - 1) :
        /\ t[k + 1] = t[k] + Magnitude(v[k + 1])
        /\ q[k + 1] = q[k] + v[k + 1]
        /\ r[k + 1] = Float(r[k] + w[k + 1], 1)

LEMMA SumsExist ==
  ASSUME NEW v \in Seq(Int), NEW w \in Seq(Int), Len(w) = Len(v)
  PROVE  \E t, q, r : /\ Sums(v, w, t, q, r)
                      /\ t[Len(v)] = Magnitudes(v) /\ q[Len(v)] = Total(v)
                      /\ r[Len(v)] = FoldLeft(Plus, 0, w)
  <1>1. PICK z \in Int : z = 0
    OBVIOUS
  <1> DEFINE n == Len(v)
             m == [i \in DOMAIN v |-> Abs(v[i] * Unit) \div 1000 + 1]
             a == FoldLeft(Add, z, m)
             b == FoldLeft(Add, z, v)
             c == FoldLeft(Plus, z, w)
  <1>2. m \in Seq(Int) /\ Len(m) = n /\ n \in Nat
        /\ \A i \in 1..n : m[i] = Magnitude(v[i]) /\ v[i] \in Int /\ w[i] \in Int
    <2>1. n \in Nat /\ DOMAIN v = 1..n /\ \A i \in 1..n : v[i] \in Int /\ w[i] \in Int
      OBVIOUS
    <2>2. \A i \in 1..n : v[i] * Unit \in Int
      BY <2>1, FloatAssumption
    <2>3. \A i \in 1..n : Abs(v[i] * Unit) \in Nat
      BY <2>2, AbsType
    <2>4. \A i \in 1..n : Abs(v[i] * Unit) \div 1000 + 1 \in Int
      BY <2>3
    <2>5. m \in [1..n -> Int] /\ \A i \in 1..n : m[i] = Magnitude(v[i])
      BY <2>1, <2>4 DEF Magnitude
    <2> HIDE DEF m, n
    <2> QED BY <2>1, <2>5
  <1>3. \E f \in [0..Len(m) -> Int] :
            /\ f[0] = z /\ f[Len(m)] = a
            /\ \A k \in 0..(Len(m) - 1) : f[k + 1] = Add(f[k], m[k + 1])
    <2> HIDE DEF m
    <2> QED BY <1>2, FoldAdd, Zenon
  <1>4. \E f \in [0..Len(v) -> Int] :
            /\ f[0] = z /\ f[Len(v)] = b
            /\ \A k \in 0..(Len(v) - 1) : f[k + 1] = Add(f[k], v[k + 1])
    BY FoldAdd, Zenon
  <1>5. \E f \in [0..Len(w) -> Int] :
            /\ f[0] = z /\ f[Len(w)] = c
            /\ \A k \in 0..(Len(w) - 1) : f[k + 1] = Plus(f[k], w[k + 1])
    BY FoldPlus, Zenon
  <1>6. a = Magnitudes(v) /\ b = Total(v) /\ c = FoldLeft(Plus, 0, w)
    BY <1>1, Zenon DEF Magnitudes, Total
  <1> HIDE DEF a, b, c, m, n
  <1>7. PICK t \in [0..n -> Int] :
            /\ t[0] = z /\ t[n] = a
            /\ \A k \in 0..(n - 1) : t[k + 1] = Add(t[k], m[k + 1])
    BY <1>2, <1>3
  <1>8. PICK q \in [0..n -> Int] :
            /\ q[0] = z /\ q[n] = b
            /\ \A k \in 0..(n - 1) : q[k + 1] = Add(q[k], v[k + 1])
    BY <1>4 DEF n
  <1>9. PICK r \in [0..n -> Int] :
            /\ r[0] = z /\ r[n] = c
            /\ \A k \in 0..(n - 1) : r[k + 1] = Plus(r[k], w[k + 1])
    BY <1>5 DEF n
  <1>10. ASSUME NEW k \in 0..(n - 1)
         PROVE  /\ t[k + 1] = t[k] + Magnitude(v[k + 1])
                /\ q[k + 1] = q[k] + v[k + 1]
                /\ r[k + 1] = Float(r[k] + w[k + 1], 1)
    <2>1. k + 1 \in 1..n
      BY <1>2
    <2> QED BY <1>2, <1>7, <1>8, <1>9, <2>1 DEF Add, Plus
  <1>11. Sums(v, w, t, q, r)
    BY <1>1, <1>7, <1>8, <1>9, <1>10 DEF Sums, n
  <1> QED BY <1>6, <1>7, <1>8, <1>9, <1>11 DEF n

\* A sum that is close to a small one is small.
Fits(sum, U, m, e, b) ==
  /\ sum \in Int /\ U \in Int /\ m \in Nat /\ e \in Nat /\ b \in Nat
  /\ U <= 1000 * m /\ -U <= 1000 * m /\ m + 2 * e <= b
  /\ 2 * (1000 * sum - U) <= 3000 * e /\ 2 * (U - 1000 * sum) <= 3000 * e

LEMMA SumFits ==
  ASSUME NEW sum, NEW U, NEW m, NEW e, NEW b, Fits(sum, U, m, e, b)
  PROVE  sum <= b /\ -sum <= b
  BY DEF Fits

\* What is known of the sum r before the step, and of the reading w of the next value, with
\* Q and V for the exact sum and the exact value in thousandths of units, t and g for the
\* magnitudes summed up and the value's.
StepFrom(Q, V, r, w, t, g, s, lost, e, m, b) ==
  /\ Q \in Int /\ V \in Int /\ r \in Int /\ w \in Int /\ t \in Int /\ g \in Int
  /\ s \in Nat \ {0} /\ lost \in Nat /\ e \in Nat /\ m \in Nat /\ b \in Nat
  /\ Spacing[b] = s /\ t + g <= m /\ lost + s <= e /\ m + 2 * e <= b
  /\ Q <= 1000 * t /\ -Q <= 1000 * t /\ V <= 1000 * g /\ -V <= 1000 * g
  /\ 2 * (1000 * r - Q) <= 3000 * lost /\ 2 * (Q - 1000 * r) <= 3000 * lost
  /\ 1000 * w - V <= 1000 * s /\ V - 1000 * w <= 1000 * s

\* One step of the sum: half a spacing is lost in the addition, one when the value was read.
LEMMA StepError ==
  ASSUME NEW Q, NEW V, NEW r, NEW w, NEW t, NEW g, NEW s, NEW lost, NEW e, NEW m, NEW b,
         StepFrom(Q, V, r, w, t, g, s, lost, e, m, b)
  PROVE  LET f == Float(r + w, 1)
         IN  /\ f \in Int
             /\ Q + V <= 1000 * (t + g) /\ -(Q + V) <= 1000 * (t + g)
             /\ 2 * (1000 * f - (Q + V)) <= 3000 * (lost + s)
             /\ 2 * ((Q + V) - 1000 * f) <= 3000 * (lost + s)
  <1> DEFINE p == r + w
             f == Float(p, 1)
  <1>0. /\ Q \in Int /\ V \in Int /\ s \in Nat /\ lost \in Nat /\ b \in Nat /\ Spacing[b] = s
        /\ Q + V <= 1000 * (t + g) /\ -(Q + V) <= 1000 * (t + g)
    BY DEF StepFrom
  <1>1. p \in Int /\ p <= b /\ -p <= b
    BY DEF StepFrom
  <1>2. /\ 2 * (1000 * p - (Q + V)) <= 3000 * lost + 2000 * s
        /\ 2 * ((Q + V) - 1000 * p) <= 3000 * lost + 2000 * s
    BY DEF StepFrom
  <1> HIDE DEF p
  <1>3. Abs(p) \in Nat /\ Abs(p) <= b /\ Abs(p) \div 1 = Abs(p)
    BY <1>0, <1>1 DEF Abs
  <1>4. Spacing[Abs(p) \div 1] <= s
    BY <1>0, <1>3, SpacingGrows
  <1>5. f \in Int /\ 2 * (1 * f - p) <= 1 * s /\ 2 * (p - 1 * f) <= 1 * s
    BY <1>0, <1>1, <1>4, FloatError
  <1> HIDE DEF f
  <1>6. /\ 2 * (1000 * f - (Q + V)) <= 3000 * (lost + s)
        /\ 2 * ((Q + V) - 1000 * f) <= 3000 * (lost + s)
    BY <1>0, <1>1, <1>2, <1>5
  <1> QED BY <1>0, <1>5, <1>6 DEF f, p

\* The API's values, as the code reads them.
Read(v, w) ==
  Len(w) = Len(v) /\ \A i \in 1..Len(v) : w[i] = Float(Float(v[i] * Unit, 1), 1000)

\* The magnitudes add up.
LEMMA MagnitudesGrow ==
  ASSUME NEW v \in Seq(Int), NEW w, NEW t, NEW q, NEW r, Sums(v, w, t, q, r),
         t[Len(v)] = Magnitudes(v)
  PROVE  /\ Magnitudes(v) \in Nat
         /\ \A k \in 0..Len(v) : t[k] \in Nat /\ t[k] <= Magnitudes(v)
         /\ \A i \in 1..Len(v) : Magnitude(v[i]) \in Nat /\ Magnitude(v[i]) <= Magnitudes(v)
  <1> DEFINE n == Len(v)
             S == {k \in 0..n : \A j \in 0..k : 0 <= t[j] /\ t[j] <= t[k]}
  <1>1. n \in Nat /\ \A i \in 1..n : v[i] \in Int
    OBVIOUS
  <1>2. ASSUME NEW i \in 1..n PROVE Magnitude(v[i]) \in Nat
    <2>1. v[i] * Unit \in Int
      BY <1>1, FloatAssumption
    <2>2. Abs(v[i] * Unit) \in Nat
      BY <2>1, AbsType
    <2>3. Abs(v[i] * Unit) \div 1000 \in Nat
      BY <2>2, Quotient
    <2> QED BY <2>3 DEF Magnitude
  <1>3. /\ t[0] = 0 /\ \A k \in 0..n : t[k] \in Int
        /\ \A k \in 0..(n - 1) : t[k + 1] = t[k] + Magnitude(v[k + 1])
    BY DEF Sums
  <1> HIDE DEF n
  <1>4. 0 \in S
    BY <1>1, <1>3
  <1>5. ASSUME NEW k \in 0..(n - 1), k \in S PROVE k + 1 \in S
    <2>1. k + 1 \in 1..n /\ k + 1 \in 0..n /\ k \in 0..n /\ k \in 0..k
      BY <1>1
    <2>2. /\ t[k] \in Int /\ t[k + 1] \in Int /\ 0 <= t[k] /\ t[k] <= t[k + 1]
      BY <1>2, <1>3, <1>5, <2>1
    <2>3. ASSUME NEW j \in 0..(k + 1) PROVE 0 <= t[j] /\ t[j] <= t[k + 1]
      <3>1. CASE j \in 0..k
        <4>1. 0 <= t[j] /\ t[j] <= t[k]
          BY <1>5, <3>1
        <4>2. t[j] \in Int
          BY <1>1, <1>3, <2>1, <3>1
        <4> QED BY <2>2, <4>1, <4>2
      <3>2. CASE j = k + 1
        BY <2>2, <3>2
      <3> QED BY <2>1, <3>1, <3>2
    <2> QED BY <2>1, <2>3
  <1>6. \A k \in 0..n : k \in S
    <2> HIDE DEF S
    <2> QED BY <1>1, <1>4, <1>5, Induction
  <1>7. \A j \in 0..n : t[j] \in Nat /\ t[j] <= t[n]
    BY <1>1, <1>3, <1>6
  <1>8. ASSUME NEW i \in 1..n PROVE Magnitude(v[i]) <= t[n]
    <2> DEFINE k == i - 1
    <2>1. k \in 0..(n - 1) /\ k \in 0..n /\ k + 1 = i /\ i \in 0..n
      BY <1>1
    <2> HIDE DEF k
    <2>2. t[i] = t[k] + Magnitude(v[i])
      BY <1>3, <2>1
    <2>3. t[k] \in Nat /\ t[i] \in Nat /\ t[i] <= t[n] /\ t[n] \in Nat
      BY <1>1, <1>7, <2>1
    <2> QED BY <1>2, <2>2, <2>3
  <1> QED BY <1>1, <1>2, <1>7, <1>8 DEF n

\* The sum, with x and y for the exact sums and values in thousandths of units, g for the
\* magnitudes of the values, and lost for the readings' errors so far.
SumRuns(n, s, t, x, r, lost, y, w, g) ==
  /\ t \in [0..n -> Int] /\ x \in [0..n -> Int] /\ r \in [0..n -> Int]
  /\ lost \in [0..n -> Int] /\ y \in [1..n -> Int] /\ w \in [1..n -> Int]
  /\ g \in [1..n -> Int]
  /\ t[0] = 0 /\ x[0] = 0 /\ r[0] = 0 /\ lost[0] = 0
  /\ \A k \in 0..(n - 1) : /\ t[k + 1] = t[k] + g[k + 1]
                           /\ x[k + 1] = x[k] + y[k + 1]
                           /\ r[k + 1] = Float(r[k] + w[k + 1], 1)
                           /\ lost[k + 1] = lost[k] + s

\* Its bounds: what the sums stay below, how large a value is and how far its reading is.
SumBounds(n, m, s, e, b, t, lost, y, w, g) ==
  /\ n \in Nat /\ m \in Nat /\ s \in Nat \ {0} /\ e \in Nat /\ b \in Nat
  /\ Spacing[b] = s /\ m + 2 * e <= b
  /\ \A k \in 0..n : t[k] <= m /\ 0 <= lost[k] /\ lost[k] <= e
  /\ \A i \in 1..n : /\ y[i] <= 1000 * g[i] /\ -y[i] <= 1000 * g[i]
                     /\ 1000 * w[i] - y[i] <= 1000 * s
                     /\ y[i] - 1000 * w[i] <= 1000 * s

Summing(n, m, s, e, b, t, x, r, lost, y, w, g) ==
  SumRuns(n, s, t, x, r, lost, y, w, g) /\ SumBounds(n, m, s, e, b, t, lost, y, w, g)

LEMMA SumLoop ==
  ASSUME NEW n, NEW m, NEW s, NEW e, NEW b,
         NEW t, NEW x, NEW r, NEW lost, NEW y, NEW w, NEW g,
         Summing(n, m, s, e, b, t, x, r, lost, y, w, g)
  PROVE  /\ x[n] <= 1000 * m /\ -x[n] <= 1000 * m
         /\ 2 * (1000 * r[n] - x[n]) <= 3000 * lost[n]
         /\ 2 * (x[n] - 1000 * r[n]) <= 3000 * lost[n]
  <1> DEFINE Fine(k) == /\ x[k] <= 1000 * t[k] /\ -x[k] <= 1000 * t[k]
                        /\ 2 * (1000 * r[k] - x[k]) <= 3000 * lost[k]
                        /\ 2 * (x[k] - 1000 * r[k]) <= 3000 * lost[k]
             S == {k \in 0..n : Fine(k)}
  <1>0. /\ SumRuns(n, s, t, x, r, lost, y, w, g)
        /\ SumBounds(n, m, s, e, b, t, lost, y, w, g)
        /\ n \in Nat /\ m \in Nat /\ s \in Nat \ {0} /\ e \in Nat /\ b \in Nat
    BY DEF Summing, SumBounds
  <1>1. 0 \in S
    <2>1. t[0] = 0 /\ x[0] = 0 /\ r[0] = 0 /\ lost[0] = 0
      BY <1>0 DEF SumRuns
    <2> QED BY <1>0, <2>1
  <1>2. ASSUME NEW k \in 0..(n - 1), k \in S PROVE k + 1 \in S
    <2> DEFINE i == k + 1
    <2>1. i \in 1..n /\ i \in 0..n /\ k \in 0..n
      BY <1>0
    <2>2. /\ t[i] = t[k] + g[i] /\ x[i] = x[k] + y[i]
          /\ r[i] = Float(r[k] + w[i], 1) /\ lost[i] = lost[k] + s
      BY <1>0 DEF SumRuns
    <2> HIDE DEF i
    <2>3. /\ y[i] \in Int /\ w[i] \in Int /\ g[i] \in Int
          /\ t[k] \in Int /\ x[k] \in Int /\ r[k] \in Int /\ lost[k] \in Int
      BY <1>0, <2>1 DEF SumRuns
    <2>4. t[i] <= m /\ lost[i] <= e /\ 0 <= lost[k]
      BY <1>0, <2>1 DEF SumBounds
    <2>5. /\ y[i] <= 1000 * g[i] /\ -y[i] <= 1000 * g[i]
          /\ 1000 * w[i] - y[i] <= 1000 * s /\ y[i] - 1000 * w[i] <= 1000 * s
      BY <1>0, <2>1 DEF SumBounds
    <2>6. Fine(k)
      BY <1>2
    <2>7. lost[k] \in Nat /\ t[k] + g[i] <= m /\ lost[k] + s <= e
      BY <1>0, <2>2, <2>3, <2>4
    <2>a. Spacing[b] = s /\ m + 2 * e <= b
      BY <1>0 DEF SumBounds
    <2>8. StepFrom(x[k], y[i], r[k], w[i], t[k], g[i], s, lost[k], e, m, b)
      BY <2>3, <2>5, <2>6, <2>7, <2>a, <1>0 DEF StepFrom
    <2>9. Fine(i)
      <3> DEFINE f == Float(r[k] + w[i], 1)
      <3>1. /\ x[k] + y[i] <= 1000 * (t[k] + g[i]) /\ -(x[k] + y[i]) <= 1000 * (t[k] + g[i])
            /\ 2 * (1000 * f - (x[k] + y[i])) <= 3000 * (lost[k] + s)
            /\ 2 * ((x[k] + y[i]) - 1000 * f) <= 3000 * (lost[k] + s)
        BY <2>8, StepError
      <3> QED BY <2>2, <3>1
    <2> HIDE DEF Fine
    <2> QED BY <2>1, <2>9 DEF i
  <1>3. \A k \in 0..n : k \in S
    <2> HIDE DEF S
    <2> QED BY <1>0, <1>1, <1>2, Induction
  <1>4. Fine(n)
    BY <1>0, <1>3
  <1>5. t[n] <= m /\ t[n] \in Int /\ x[n] \in Int
    <2>1. n \in 0..n
      BY <1>0
    <2> QED BY <1>0, <2>1 DEF SumBounds, SumRuns
  <1> HIDE DEF S
  <1> QED BY <1>0, <1>4, <1>5

\* The exact sum q of v scaled to thousandths of units.
Scaling(n, s, v, w, t, q, r) ==
  /\ n \in Nat /\ s \in Nat \ {0}
  /\ t \in [0..n -> Int] /\ q \in [0..n -> Int] /\ r \in [0..n -> Int]
  /\ \A i \in 1..n : v[i] \in Int /\ w[i] \in Int /\ Magnitude(v[i]) \in Int
  /\ t[0] = 0 /\ q[0] = 0 /\ r[0] = 0
  /\ \A k \in 0..(n - 1) : /\ t[k + 1] = t[k] + Magnitude(v[k + 1])
                           /\ q[k + 1] = q[k] + v[k + 1]
                           /\ r[k + 1] = Float(r[k] + w[k + 1], 1)

LEMMA SumScaled ==
  ASSUME NEW n, NEW s, NEW v, NEW w, NEW t, NEW q, NEW r, Scaling(n, s, v, w, t, q, r)
  PROVE  SumRuns(n, s, t, [k \in 0..n |-> Unit * q[k]], r, [k \in 0..n |-> k * s],
                 [i \in 1..n |-> Unit * v[i]], [i \in 1..n |-> w[i]],
                 [i \in 1..n |-> Magnitude(v[i])])
  <1> DEFINE x == [k \in 0..n |-> Unit * q[k]]
             y == [i \in 1..n |-> Unit * v[i]]
             g == [i \in 1..n |-> Magnitude(v[i])]
             lost == [k \in 0..n |-> k * s]
             u == [i \in 1..n |-> w[i]]
  <1>1. /\ n \in Nat /\ s \in Nat \ {0} /\ Unit \in Int
        /\ t \in [0..n -> Int] /\ q \in [0..n -> Int] /\ r \in [0..n -> Int]
        /\ \A i \in 1..n : v[i] \in Int /\ w[i] \in Int /\ Magnitude(v[i]) \in Int
    BY FloatAssumption DEF Scaling
  <1>2. /\ x \in [0..n -> Int] /\ y \in [1..n -> Int] /\ g \in [1..n -> Int]
        /\ lost \in [0..n -> Int] /\ u \in [1..n -> Int]
    <2>1. ASSUME NEW k \in 0..n PROVE Unit * q[k] \in Int /\ k * s \in Int
      <3>1. q[k] \in Int /\ k \in Int /\ s \in Int /\ Unit \in Int
        BY <1>1
      <3> QED BY <3>1
    <2>2. \A i \in 1..n : Unit * v[i] \in Int
      BY <1>1
    <2> QED BY <1>1, <2>1, <2>2
  <1>3. t[0] = 0 /\ x[0] = 0 /\ r[0] = 0 /\ lost[0] = 0
    <2>1. 0 \in 0..n /\ Unit * 0 = 0 /\ 0 * s = 0
      BY <1>1
    <2>2. t[0] = 0 /\ q[0] = 0 /\ r[0] = 0
      BY DEF Scaling
    <2> QED BY <2>1, <2>2
  <1>4. ASSUME NEW k \in 0..(n - 1)
        PROVE  /\ t[k + 1] = t[k] + g[k + 1]
               /\ x[k + 1] = x[k] + y[k + 1]
               /\ r[k + 1] = Float(r[k] + u[k + 1], 1)
               /\ lost[k + 1] = lost[k] + s
    <2>1. k + 1 \in 1..n /\ k + 1 \in 0..n /\ k \in 0..n /\ k \in Int
      BY <1>1
    <2>2. q[k] \in Int /\ v[k + 1] \in Int /\ s \in Int /\ Unit \in Int
      BY <1>1, <2>1
    <2>3. Unit * (q[k] + v[k + 1]) = Unit * q[k] + Unit * v[k + 1] /\ (k + 1) * s = k * s + s
      BY <2>1, <2>2
    <2>4. x[k + 1] = Unit * q[k + 1] /\ x[k] = Unit * q[k] /\ y[k + 1] = Unit * v[k + 1]
          /\ lost[k + 1] = (k + 1) * s /\ lost[k] = k * s
          /\ g[k + 1] = Magnitude(v[k + 1]) /\ u[k + 1] = w[k + 1]
      BY <2>1, Zenon
    <2>5. /\ t[k + 1] = t[k] + Magnitude(v[k + 1])
          /\ q[k + 1] = q[k] + v[k + 1]
          /\ r[k + 1] = Float(r[k] + w[k + 1], 1)
      BY DEF Scaling
    <2> HIDE DEF x, y, g, u, lost
    <2> QED BY <2>3, <2>4, <2>5
  <1> HIDE DEF x, y, g, u, lost
  <1>5. SumRuns(n, s, t, x, r, lost, y, u, g)
    BY <1>1, <1>2, <1>3, <1>4 DEF SumRuns
  <1> QED BY <1>5 DEF x, y, g, u, lost

\* f, which stands for a in thousandths of units, is off by a spacing s of reading; by the
\* errors e of a sum; g, n of which stand for f, by what a division loses.
ReadOff(f, a, s) ==
  f \in Int /\ a \in Int /\ 1000 * f - a <= 1000 * s /\ a - 1000 * f <= 1000 * s
SumOff(f, a, e) ==
  f \in Int /\ a \in Int /\ 2 * (1000 * f - a) <= 3000 * e /\ 2 * (a - 1000 * f) <= 3000 * e
AverageOff(g, f, n, e) ==
  g \in Int /\ n * g \in Int /\ 2 * (n * g - f) <= e /\ 2 * (f - n * g) <= e

\* How far a reading, the sum and the average of the readings are from the exact ones.
LEMMA SumError ==
  ASSUME NEW v \in Seq(Int), v # <<>>, NEW w \in Seq(Int), Read(v, w),
         NEW n, n = Len(v), 8 * n <= Significand,
         NEW s, s = Spacing[Room(Magnitudes(v), n)],
         NEW total, total = Total(v), NEW sum, sum = FoldLeft(Plus, 0, w)
  PROVE  /\ s \in Nat \ {0} /\ n * s \in Nat /\ total \in Int /\ sum \in Int
         /\ \A i \in 1..n : ReadOff(w[i], Unit * v[i], s)
         /\ SumOff(sum, Unit * total, n * s)
         /\ AverageOff(Float(sum, n), sum, n, n * s)
  <1> DEFINE m == Magnitudes(v)
             b == Room(m, n)
             e == n * s
  <1>1. PICK t, q, r : /\ Sums(v, w, t, q, r)
                       /\ t[n] = m /\ q[n] = total /\ r[n] = sum
    <2>1. /\ Len(w) = Len(v) /\ n = Len(v)
      BY DEF Read
    <2>2. PICK t, q, r : /\ Sums(v, w, t, q, r)
                         /\ t[Len(v)] = Magnitudes(v) /\ q[Len(v)] = Total(v)
                         /\ r[Len(v)] = FoldLeft(Plus, 0, w)
      BY <2>1, SumsExist
    <2> QED BY <2>1, <2>2, Zenon
  <1>2. n \in Nat \ {0} /\ \A i \in 1..n : v[i] \in Int /\ w[i] \in Int
    BY DEF Read
  <1>3. /\ m \in Nat
        /\ \A k \in 0..n : t[k] \in Nat /\ t[k] <= m
        /\ \A i \in 1..n : Magnitude(v[i]) \in Nat /\ Magnitude(v[i]) <= m
    BY <1>1, MagnitudesGrow DEF m
  <1> HIDE DEF m
  <1>4. s = Spacing[b] /\ 8 * n <= Significand
    BY DEF m
  <1>5. /\ s \in Nat \ {0} /\ e \in Nat /\ b \in Nat /\ m + 2 * e <= b
    BY <1>2, <1>3, <1>4, RoomForRounding
  <1>7. ASSUME NEW i \in 1..n
        PROVE  /\ 1000 * w[i] - Unit * v[i] <= 1000 * s
               /\ Unit * v[i] - 1000 * w[i] <= 1000 * s
    <2>1. w[i] = Float(Float(v[i] * Unit, 1), 1000) /\ v[i] \in Int /\ Magnitude(v[i]) <= m
      BY <1>2, <1>3 DEF Read
    <2> HIDE DEF e, b
    <2>2. n \in Nat \ {0} /\ 8 * n <= Significand /\ s = Spacing[Room(m, n)] /\ m \in Nat
      BY <1>2, <1>3, <1>4 DEF b
    <2>3. ReadTo(v[i], w[i], m, n, s)
      BY <2>1, <2>2 DEF ReadTo
    <2> QED BY <2>3, ReadError
  <1>8. ASSUME NEW i \in 1..n
        PROVE  Unit * v[i] <= 1000 * Magnitude(v[i]) /\ -(Unit * v[i]) <= 1000 * Magnitude(v[i])
    <2> DEFINE a == v[i] * Unit
    <2>1. a \in Int /\ a = Unit * v[i] /\ Magnitude(v[i]) = Abs(a) \div 1000 + 1
      BY <1>2, FloatAssumption DEF Magnitude
    <2> HIDE DEF a
    <2> DEFINE d == Abs(a) \div 1000
    <2>2. Abs(a) \in Nat /\ a <= Abs(a) /\ -a <= Abs(a)
      BY <2>1, AbsType, ZenonT(60)
    <2>3. d \in Nat /\ Abs(a) < 1000 * d + 1000
      BY <2>2, Quotient
    <2> HIDE DEF d
    <2>4. a <= 1000 * (d + 1) /\ -a <= 1000 * (d + 1)
      BY <2>1, <2>2, <2>3
    <2> QED BY <2>1, <2>4 DEF d
  <1> DEFINE x == [k \in 0..n |-> Unit * q[k]]
             y == [i \in 1..n |-> Unit * v[i]]
             g == [i \in 1..n |-> Magnitude(v[i])]
             lost == [k \in 0..n |-> k * s]
             u == [i \in 1..n |-> w[i]]
             U == Unit * total
  <1>9. /\ t \in [0..n -> Int] /\ q \in [0..n -> Int] /\ r \in [0..n -> Int]
        /\ t[0] = 0 /\ q[0] = 0 /\ r[0] = 0
        /\ \A k \in 0..(n - 1) : /\ t[k + 1] = t[k] + Magnitude(v[k + 1])
                                 /\ q[k + 1] = q[k] + v[k + 1]
                                 /\ r[k + 1] = Float(r[k] + w[k + 1], 1)
    BY <1>1 DEF Sums
  <1>10. SumRuns(n, s, t, x, r, lost, y, u, g)
    <2>1. Scaling(n, s, v, w, t, q, r)
      <3>1. /\ n \in Nat /\ s \in Nat \ {0}
            /\ \A i \in 1..n : v[i] \in Int /\ w[i] \in Int /\ Magnitude(v[i]) \in Int
        BY <1>2, <1>3, <1>5
      <3> QED BY <1>9, <3>1, Zenon DEF Scaling
    <2> QED BY <2>1, SumScaled, ZenonT(60)
  <1>11. lost[n] = e /\ x[n] = U
    <2>1. n \in 0..n
      BY <1>2
    <2> QED BY <1>1, <2>1
  <1>13. ASSUME NEW k \in 0..n PROVE t[k] <= m /\ 0 <= lost[k] /\ lost[k] <= e
    <2>1. k \in Nat /\ k <= n /\ k \in Int /\ n \in Int
      BY <1>2
    <2>2. s * k <= s * n /\ s * 0 <= s * k
      BY <1>5, <2>1, SMTT(30)
    <2>3. s * k = k * s /\ s * n = e /\ s * 0 = 0
      BY <1>2, <1>5, <2>1, SMTT(30)
    <2> QED BY <1>3, <2>2, <2>3
  <1>14. ASSUME NEW i \in 1..n
         PROVE  /\ y[i] <= 1000 * g[i] /\ -y[i] <= 1000 * g[i]
                /\ 1000 * u[i] - y[i] <= 1000 * s /\ y[i] - 1000 * u[i] <= 1000 * s
    BY <1>7, <1>8
  <1> HIDE DEF x, y, g, u, lost, U, e, b
  <1>15. /\ U <= 1000 * m /\ -U <= 1000 * m
         /\ 2 * (1000 * sum - U) <= 3000 * e /\ 2 * (U - 1000 * sum) <= 3000 * e
    <2>a. SumBounds(n, m, s, e, b, t, lost, y, u, g)
      <3>1. m \in Nat /\ n \in Nat
        BY <1>2, <1>3
      <3> QED BY <1>4, <1>5, <1>13, <1>14, <3>1 DEF SumBounds
    <2>b. Summing(n, m, s, e, b, t, x, r, lost, y, u, g)
      BY <1>10, <2>a DEF Summing
    <2>1. /\ x[n] <= 1000 * m /\ -x[n] <= 1000 * m
          /\ 2 * (1000 * r[n] - x[n]) <= 3000 * lost[n]
          /\ 2 * (x[n] - 1000 * r[n]) <= 3000 * lost[n]
      BY <2>b, SumLoop
    <2> QED BY <1>1, <1>11, <2>1
  <1>16. total \in Int /\ sum \in Int
    <2>1. n \in 0..n
      BY <1>2
    <2> QED BY <1>1, <1>9, <2>1
  <1>17. U \in Int
    BY <1>16, FloatAssumption DEF U
  <1>18. sum <= b /\ -sum <= b
    <2>1. m \in Nat /\ e \in Nat /\ b \in Nat
      BY <1>3, <1>5
    <2>2. m + 2 * e <= b
      BY <1>5
    <2>3. Fits(sum, U, m, e, b)
      BY <1>15, <1>16, <1>17, <2>1, <2>2 DEF Fits
    <2> QED BY <2>3, SumFits, Zenon
  <1>19. Abs(sum) \in Nat /\ Abs(sum) <= b
    BY <1>16, <1>18 DEF Abs
  <1>20. Abs(sum) \div n \in Nat /\ Abs(sum) \div n <= b
    <2>1. Abs(sum) \div n \in Nat /\ Abs(sum) \div n <= Abs(sum)
      BY <1>2, <1>19, Quotient
    <2> QED BY <1>5, <1>19, <2>1
  <1>21. Spacing[Abs(sum) \div n] <= s
    BY <1>4, <1>5, <1>20, SpacingGrows
  <1>22. /\ Float(sum, n) \in Int /\ n * Float(sum, n) \in Int
         /\ 2 * (n * Float(sum, n) - sum) <= n * s /\ 2 * (sum - n * Float(sum, n)) <= n * s
    BY <1>2, <1>5, <1>16, <1>21, FloatError
  <1>23. e = n * s
    BY DEF e
  <1>24. s \in Nat \ {0} /\ n * s \in Nat
    BY <1>5, <1>23
  <1>25. /\ 2 * (1000 * sum - Unit * total) <= 3000 * (n * s)
         /\ 2 * (Unit * total - 1000 * sum) <= 3000 * (n * s)
    BY <1>15, <1>23 DEF U
  <1>26. ASSUME NEW i \in 1..n PROVE ReadOff(w[i], Unit * v[i], s)
    <2>1. w[i] \in Int /\ Unit * v[i] \in Int
      BY <1>2, FloatAssumption
    <2> QED BY <1>7, <2>1 DEF ReadOff
  <1>27. SumOff(sum, Unit * total, n * s)
    BY <1>16, <1>17, <1>25, Zenon DEF SumOff, U
  <1>28. AverageOff(Float(sum, n), sum, n, n * s)
    BY <1>22, Zenon DEF AverageOff
  <1> QED BY <1>16, <1>24, <1>26, <1>27, <1>28

----------------------------------------------------------------------------
(* What the loops come to *)

\* The loop of a maximum ends with the largest of the values.
LEMMA LargestOf ==
  ASSUME NEW v \in Seq(Int), v # <<>>
  PROVE  LET m == FoldLeft(Larger, Head(v), Tail(v))
         IN  (\E i \in 1..Len(v) : v[i] = m) /\ \A i \in 1..Len(v) : v[i] <= m
  <1> DEFINE seq == Tail(v)
             n == Len(seq)
             m == FoldLeft(Larger, Head(v), Tail(v))
  <1>1. /\ seq \in Seq(Int) /\ n \in Nat /\ Len(v) = n + 1 /\ Head(v) = v[1]
        /\ v[1] \in Int /\ \A k \in 1..n : seq[k] = v[k + 1] /\ v[k + 1] \in Int
    OBVIOUS
  <1>f. \E r \in [0..n -> Int] :
            /\ r[0] = Head(v) /\ r[n] = m
            /\ \A k \in 0..(n - 1) : r[k + 1] = Larger(r[k], seq[k + 1])
    BY <1>1, FoldLarger, ZenonT(60)
  <1> HIDE DEF m
  <1>2. PICK r \in [0..n -> Int] :
            /\ r[0] = v[1] /\ r[n] = m
            /\ \A k \in 0..(n - 1) : r[k + 1] = Larger(r[k], seq[k + 1])
    BY <1>1, <1>f
  <1> DEFINE S == {k \in 0..n : /\ \E i \in 1..(k + 1) : v[i] = r[k]
                                /\ \A i \in 1..(k + 1) : v[i] <= r[k]}
  <1> HIDE DEF seq, n
  <1>3. 0 \in S
    BY <1>1, <1>2
  <1>4. ASSUME NEW k \in 0..(n - 1), k \in S PROVE k + 1 \in S
    <2>1. k \in 0..n /\ k + 1 \in 0..n /\ k + 1 \in 1..n /\ r[k] \in Int
      BY <1>1, <1>2
    <2>2. r[k + 1] = Larger(r[k], v[(k + 1) + 1]) /\ v[(k + 1) + 1] \in Int
      BY <1>1, <1>2, <2>1
    <2>3. PICK i \in 1..(k + 1) : v[i] = r[k]
      BY <1>4
    <2>4. \A j \in 1..(k + 1) : v[j] <= r[k]
      BY <1>4
    <2>5. r[k] <= r[k + 1] /\ v[(k + 1) + 1] <= r[k + 1]
          /\ (r[k + 1] = r[k] \/ r[k + 1] = v[(k + 1) + 1])
      BY <2>1, <2>2 DEF Larger
    <2>6. i \in 1..((k + 1) + 1) /\ (k + 1) + 1 \in 1..((k + 1) + 1)
      BY <2>1
    <2>7. \E j \in 1..((k + 1) + 1) : v[j] = r[k + 1]
      BY <2>3, <2>5, <2>6
    <2>8. ASSUME NEW j \in 1..((k + 1) + 1) PROVE v[j] <= r[k + 1]
      <3>1. CASE j \in 1..(k + 1)
        <4>1. v[j] <= r[k] /\ v[j] \in Int /\ r[k + 1] \in Int
          BY <1>1, <1>2, <2>1, <2>4, <3>1, SMTT(30)
        <4> QED BY <2>1, <2>5, <4>1
      <3>2. CASE j = (k + 1) + 1
        BY <2>5, <3>2
      <3> QED BY <2>1, <3>1, <3>2
    <2> QED BY <2>1, <2>7, <2>8
  <1>5. \A k \in 0..n : k \in S
    <2> HIDE DEF S
    <2> QED BY <1>1, <1>3, <1>4, Induction
  <1>6. n \in S
    BY <1>1, <1>5
  <1>7. (\E i \in 1..Len(v) : v[i] = m) /\ \A i \in 1..Len(v) : v[i] <= m
    BY <1>1, <1>2, <1>6 DEF S
  <1> QED BY <1>7 DEF m

\* The loop of a minimum ends with the smallest of the values.
LEMMA SmallestOf ==
  ASSUME NEW v \in Seq(Int), v # <<>>
  PROVE  LET m == FoldLeft(Smaller, Head(v), Tail(v))
         IN  (\E i \in 1..Len(v) : v[i] = m) /\ \A i \in 1..Len(v) : m <= v[i]
  <1> DEFINE seq == Tail(v)
             n == Len(seq)
             m == FoldLeft(Smaller, Head(v), Tail(v))
  <1>1. /\ seq \in Seq(Int) /\ n \in Nat /\ Len(v) = n + 1 /\ Head(v) = v[1]
        /\ v[1] \in Int /\ \A k \in 1..n : seq[k] = v[k + 1] /\ v[k + 1] \in Int
    OBVIOUS
  <1>f. \E r \in [0..n -> Int] :
            /\ r[0] = Head(v) /\ r[n] = m
            /\ \A k \in 0..(n - 1) : r[k + 1] = Smaller(r[k], seq[k + 1])
    BY <1>1, FoldSmaller, ZenonT(60)
  <1> HIDE DEF m
  <1>2. PICK r \in [0..n -> Int] :
            /\ r[0] = v[1] /\ r[n] = m
            /\ \A k \in 0..(n - 1) : r[k + 1] = Smaller(r[k], seq[k + 1])
    BY <1>1, <1>f
  <1> DEFINE S == {k \in 0..n : /\ \E i \in 1..(k + 1) : v[i] = r[k]
                                /\ \A i \in 1..(k + 1) : r[k] <= v[i]}
  <1> HIDE DEF seq, n
  <1>3. 0 \in S
    BY <1>1, <1>2
  <1>4. ASSUME NEW k \in 0..(n - 1), k \in S PROVE k + 1 \in S
    <2>1. k \in 0..n /\ k + 1 \in 0..n /\ k + 1 \in 1..n /\ r[k] \in Int
      BY <1>1, <1>2
    <2>2. r[k + 1] = Smaller(r[k], v[(k + 1) + 1]) /\ v[(k + 1) + 1] \in Int
      BY <1>1, <1>2, <2>1
    <2>3. PICK i \in 1..(k + 1) : v[i] = r[k]
      BY <1>4
    <2>4. \A j \in 1..(k + 1) : r[k] <= v[j]
      BY <1>4
    <2>5. r[k + 1] <= r[k] /\ r[k + 1] <= v[(k + 1) + 1]
          /\ (r[k + 1] = r[k] \/ r[k + 1] = v[(k + 1) + 1])
      BY <2>1, <2>2 DEF Smaller
    <2>6. i \in 1..((k + 1) + 1) /\ (k + 1) + 1 \in 1..((k + 1) + 1)
      BY <2>1
    <2>7. \E j \in 1..((k + 1) + 1) : v[j] = r[k + 1]
      BY <2>3, <2>5, <2>6
    <2>8. ASSUME NEW j \in 1..((k + 1) + 1) PROVE r[k + 1] <= v[j]
      <3>1. CASE j \in 1..(k + 1)
        <4>1. r[k] <= v[j] /\ v[j] \in Int /\ r[k + 1] \in Int
          BY <1>1, <1>2, <2>1, <2>4, <3>1, SMTT(30)
        <4> QED BY <2>1, <2>5, <4>1
      <3>2. CASE j = (k + 1) + 1
        BY <2>5, <3>2
      <3> QED BY <2>1, <3>1, <3>2
    <2> QED BY <2>1, <2>7, <2>8
  <1>5. \A k \in 0..n : k \in S
    <2> HIDE DEF S
    <2> QED BY <1>1, <1>3, <1>4, Induction
  <1>6. n \in S
    BY <1>1, <1>5
  <1>7. (\E i \in 1..Len(v) : v[i] = m) /\ \A i \in 1..Len(v) : m <= v[i]
    BY <1>1, <1>2, <1>6 DEF S
  <1> QED BY <1>7 DEF m

\* Above a threshold, more is no worse; below one, less is.
LEMMA CompareMonotone ==
  ASSUME NEW a \in Int, NEW b \in Int, a <= b, NEW t \in Int, NEW operator
  PROVE  /\ operator \in {">", ">="} =>
              (compareThreshold(a, t, operator) => compareThreshold(b, t, operator))
         /\ operator \notin {">", ">="} =>
              (compareThreshold(b, t, operator) => compareThreshold(a, t, operator))
  BY DEF compareThreshold

----------------------------------------------------------------------------
(* How far a verdict is from the exact one *)

\* f, c of which stand for a, is within e of that.
Close(f, a, c, e) ==
  /\ f \in Int /\ a \in Int /\ c \in Nat \ {0} /\ e \in Nat
  /\ 1000 * (c * f) - a <= 1000 * (e * c) /\ a - 1000 * (c * f) <= 1000 * (e * c)

\* What satisfies the threshold by more than the error satisfies it with the error, and
\* the other way round.
LEMMA CompareClose ==
  ASSUME NEW f, NEW a, NEW c, NEW e, Close(f, a, c, e), NEW x \in Int, NEW operator
  PROVE  LET above == operator \in {">", ">="}
             hard == x + IF above THEN e ELSE -e
             easy == x + IF above THEN -e ELSE e
         IN  /\ hard \in Int /\ easy \in Int
             /\ compareThreshold(a, 1000 * hard * c, operator)
                   => compareThreshold(f, x, operator)
             /\ compareThreshold(f, x, operator)
                   => compareThreshold(a, 1000 * easy * c, operator)
  <1> DEFINE above == operator \in {">", ">="}
             hard == x + IF above THEN e ELSE -e
             easy == x + IF above THEN -e ELSE e
             F == c * f
             X == c * x
             E == e * c
  <1>1. /\ f \in Int /\ a \in Int /\ c \in Nat \ {0} /\ e \in Nat
        /\ 1000 * F - a <= 1000 * E /\ a - 1000 * F <= 1000 * E
    BY DEF Close
  <1>2. F \in Int /\ X \in Int /\ E \in Int
    BY <1>1
  <1>3. /\ f <= x <=> F <= X
        /\ f < x <=> F < X
        /\ x <= f <=> X <= F
        /\ x < f <=> X < F
    BY <1>1, Products
  <1>4. (1000 * (x + e)) * c = 1000 * X + 1000 * E
    BY <1>1
  <1>5. (1000 * (x + (-e))) * c = 1000 * X - 1000 * E
    BY <1>1
  <1>6. hard \in Int /\ easy \in Int
    BY <1>1
  <1> DEFINE h == 1000 * hard * c
             g == 1000 * easy * c
  <1>7. /\ above => h = 1000 * X + 1000 * E /\ g = 1000 * X - 1000 * E
        /\ ~above => h = 1000 * X - 1000 * E /\ g = 1000 * X + 1000 * E
    <2>1. above => hard = x + e /\ easy = x + (-e)
      OBVIOUS
    <2>2. ~above => hard = x + (-e) /\ easy = x + e
      OBVIOUS
    <2> HIDE DEF hard, easy, above, X, E
    <2> QED BY <1>4, <1>5, <2>1, <2>2
  <1> HIDE DEF F, X, E, hard, easy, h, g
  <1>8. h \in Int /\ g \in Int
    BY <1>1, <1>2, <1>7
  <1>9. /\ above => (a > h => F > X) /\ (a >= h => F >= X)
                    /\ (F > X => a > g) /\ (F >= X => a >= g)
        /\ ~above => (a < h => F < X) /\ (a <= h => F <= X)
                     /\ (F < X => a < g) /\ (F <= X => a <= g)
    <2> HIDE DEF above
    <2> QED BY <1>1, <1>2, <1>7, <1>8
  <1>10. /\ F > X <=> f > x
         /\ F >= X <=> f >= x
         /\ F < X <=> f < x
         /\ F <= X <=> f <= x
    BY <1>1, <1>2, <1>3
  <1>11. /\ compareThreshold(a, h, operator) => compareThreshold(f, x, operator)
         /\ compareThreshold(f, x, operator) => compareThreshold(a, g, operator)
    BY <1>9, <1>10 DEF compareThreshold
  <1> QED BY <1>6, <1>11 DEF hard, easy, h, g

\* The largest of some numbers satisfies a threshold when one of them does, or all.
LEMMA LargestSatisfies ==
  ASSUME NEW w \in Seq(Int), NEW m, \E i \in 1..Len(w) : w[i] = m,
         \A i \in 1..Len(w) : w[i] <= m, NEW x \in Int, NEW operator
  PROVE  /\ m \in Int
         /\ compareThreshold(m, x, operator) <=>
              IF operator \in {">", ">="}
              THEN \E i \in 1..Len(w) : compareThreshold(w[i], x, operator)
              ELSE \A i \in 1..Len(w) : compareThreshold(w[i], x, operator)
  <1>1. \A i \in 1..Len(w) : w[i] \in Int
    OBVIOUS
  <1>2. PICK k \in 1..Len(w) : w[k] = m
    OBVIOUS
  <1>3. m \in Int
    BY <1>1, <1>2
  <1>4. CASE operator \in {">", ">="}
    <2>1. \A i \in 1..Len(w) : compareThreshold(w[i], x, operator)
                                 => compareThreshold(m, x, operator)
      BY <1>1, <1>3, <1>4, CompareMonotone
    <2> QED BY <1>2, <1>3, <1>4, <2>1
  <1>5. CASE operator \notin {">", ">="}
    <2>1. \A i \in 1..Len(w) : compareThreshold(m, x, operator)
                                 => compareThreshold(w[i], x, operator)
      BY <1>1, <1>3, <1>5, CompareMonotone
    <2> QED BY <1>2, <1>3, <1>5, <2>1
  <1> QED BY <1>4, <1>5

\* So does the smallest.
LEMMA SmallestSatisfies ==
  ASSUME NEW w \in Seq(Int), NEW m, \E i \in 1..Len(w) : w[i] = m,
         \A i \in 1..Len(w) : m <= w[i], NEW x \in Int, NEW operator
  PROVE  /\ m \in Int
         /\ compareThreshold(m, x, operator) <=>
              IF operator \in {">", ">="}
              THEN \A i \in 1..Len(w) : compareThreshold(w[i], x, operator)
              ELSE \E i \in 1..Len(w) : compareThreshold(w[i], x, operator)
  <1>1. \A i \in 1..Len(w) : w[i] \in Int
    OBVIOUS
  <1>2. PICK k \in 1..Len(w) : w[k] = m
    OBVIOUS
  <1>3. m \in Int
    BY <1>1, <1>2
  <1>4. CASE operator \in {">", ">="}
    <2>1. \A i \in 1..Len(w) : compareThreshold(m, x, operator)
                                 => compareThreshold(w[i], x, operator)
      BY <1>1, <1>3, <1>4, CompareMonotone
    <2> QED BY <1>2, <1>3, <1>4, <2>1
  <1>5. CASE operator \notin {">", ">="}
    <2>1. \A i \in 1..Len(w) : compareThreshold(w[i], x, operator)
                                 => compareThreshold(m, x, operator)
      BY <1>1, <1>3, <1>5, CompareMonotone
    <2> QED BY <1>2, <1>3, <1>5, <2>1
  <1> QED BY <1>4, <1>5

\* Each of these errors is within R = 2 * n * s.
LEMMA ErrorsAdd ==
  ASSUME NEW n \in Nat \ {0}, NEW s \in Nat \ {0}, NEW e \in Nat, e = n * s, NEW R, R = 2 * e
  PROVE  /\ R \in Nat
         /\ \A f, a : ReadOff(f, a, s) => Close(f, a, 1, R)
         /\ \A f, a : SumOff(f, a, e) => Close(f, a, 1, R)
         /\ \A f, a, g : SumOff(f, a, e) /\ AverageOff(g, f, n, e) => Close(g, a, n, R)
  <1>1. s <= e
    <2>1. s * 1 <= s * n
      BY Products
    <2> QED BY <2>1
  <1>2. R \in Nat /\ R <= R * n
    <2>1. R \in Nat
      OBVIOUS
    <2>2. R * 1 <= R * n
      BY <2>1
    <2> QED BY <2>1, <2>2
  <1>3. ASSUME NEW f, NEW a, ReadOff(f, a, s) \/ SumOff(f, a, e)
        PROVE  Close(f, a, 1, R)
    BY <1>1, <1>2, <1>3 DEF Close, ReadOff, SumOff
  <1>4. ASSUME NEW f, NEW a, NEW g, SumOff(f, a, e), AverageOff(g, f, n, e)
        PROVE  Close(g, a, n, R)
    <2> DEFINE Rn == R * n
               h == n * g
    <2>1. Rn \in Int /\ R <= Rn
      BY <1>2
    <2>2. /\ f \in Int /\ a \in Int /\ g \in Int /\ h \in Int
          /\ 2 * (h - f) <= e /\ 2 * (f - h) <= e
          /\ 2 * (1000 * f - a) <= 3000 * e /\ 2 * (a - 1000 * f) <= 3000 * e
      BY <1>4 DEF SumOff, AverageOff
    <2> HIDE DEF Rn, h
    <2>3. 1000 * h - a <= 1000 * Rn /\ a - 1000 * h <= 1000 * Rn
      BY <1>2, <2>1, <2>2
    <2> QED BY <1>2, <2>2, <2>3 DEF Close, Rn, h
  <1> QED BY <1>2, <1>3, <1>4

\* All that rounding may come to: what the code computes is that close to the exact.
LEMMA ErrorsClose ==
  ASSUME NEW v \in Seq(Int), v # <<>>, NEW w \in Seq(Int), Read(v, w),
         NEW n, n = Len(v), 8 * n <= Significand, NEW R, R = Rounding(v),
         NEW total, total = Total(v), NEW sum, sum = FoldLeft(Plus, 0, w)
  PROVE  /\ R \in Nat /\ n \in Nat \ {0} /\ total \in Int /\ sum \in Int
         /\ \A i \in 1..n : Close(w[i], Unit * v[i], 1, R)
         /\ Close(sum, Unit * total, 1, R)
         /\ Close(Float(sum, n), Unit * total, n, R)
  <1>1. PICK s : s = Spacing[Room(Magnitudes(v), n)]
    OBVIOUS
  <1>2. /\ s \in Nat \ {0} /\ n * s \in Nat /\ total \in Int /\ sum \in Int
        /\ \A i \in 1..n : ReadOff(w[i], Unit * v[i], s)
        /\ SumOff(sum, Unit * total, n * s)
        /\ AverageOff(Float(sum, n), sum, n, n * s)
    BY <1>1, SumError
  <1>3. n \in Nat \ {0}
    OBVIOUS
  <1>4. R = 2 * (n * s)
    <2>1. R = 2 * n * s
      BY <1>1 DEF Rounding, Room
    <2> QED BY <1>2, <1>3, <2>1
  <1>5. /\ R \in Nat
        /\ \A f, a : ReadOff(f, a, s) => Close(f, a, 1, R)
        /\ \A f, a : SumOff(f, a, n * s) => Close(f, a, 1, R)
        /\ \A f, a, g : SumOff(f, a, n * s) /\ AverageOff(g, f, n, n * s) => Close(g, a, n, R)
    BY <1>2, <1>3, <1>4, ErrorsAdd
  <1> QED BY <1>2, <1>3, <1>5, Zenon

\* What the loops come to, compared with the threshold, is what the API documents, but for
\* what rounding may come to.
LEMMA ReducedRight ==
  ASSUME NEW check, AsApproximateFloat64(check.threshold) \in Int,
         NEW v \in Seq(Int), v # <<>>, NEW w \in Seq(Int), Read(v, w), 8 * Len(v) <= Significand
  PROVE  LET holds == compareThreshold(reduceValues(w, check.reduce),
                                       AsApproximateFloat64(check.threshold), check.operator)
         IN  /\ Satisfies(check, v, Harder(check, 1 * Rounding(v))) => holds
             /\ holds => Satisfies(check, v, Harder(check, (-1) * Rounding(v)))
  <1>1. PICK n, R, total, sum, x :
           /\ n = Len(v) /\ R = Rounding(v) /\ total = Total(v)
           /\ sum = FoldLeft(Plus, 0, w) /\ x = AsApproximateFloat64(check.threshold)
    OBVIOUS
  <1> DEFINE reduced == reduceValues(w, check.reduce)
             op == check.operator
             above == op \in {">", ">="}
             hard == x + IF above THEN R ELSE -R
             easy == x + IF above THEN -R ELSE R
             Code(f) == compareThreshold(f, x, op)
             Holds(limit, value, count) == compareThreshold(Unit * value, 1000 * limit * count, op)
             Sat(limit) ==
               CASE check.reduce = "Min" -> IF above THEN \A i \in 1..n : Holds(limit, v[i], 1)
                                            ELSE \E i \in 1..n : Holds(limit, v[i], 1)
                 [] check.reduce = "Sum" -> Holds(limit, total, 1)
                 [] check.reduce = "Avg" -> Holds(limit, total, n)
                 [] OTHER -> IF above THEN \E i \in 1..n : Holds(limit, v[i], 1)
                             ELSE \A i \in 1..n : Holds(limit, v[i], 1)
  <1>2. /\ R \in Nat /\ n \in Nat \ {0} /\ total \in Int /\ sum \in Int /\ x \in Int
        /\ \A i \in 1..n : Close(w[i], Unit * v[i], 1, R)
        /\ Close(sum, Unit * total, 1, R)
        /\ Close(Float(sum, n), Unit * total, n, R)
    BY <1>1, ErrorsClose
  <1>3. /\ Harder(check, 1 * Rounding(v)) = hard
        /\ Harder(check, (-1) * Rounding(v)) = easy
    <2>1. 1 * R = R /\ (-1) * R = -R /\ -(1 * R) = -R /\ -((-1) * R) = R
      BY <1>2
    <2> QED BY <1>1, <2>1 DEF Harder
  <1>4. \A limit : Satisfies(check, v, limit) <=> Sat(limit)
    <2>1. DOMAIN v = 1..n /\ Len(v) = n /\ v # <<>>
      BY <1>1
    <2> QED BY <1>1, <2>1 DEF Satisfies
  <1>5. ASSUME NEW f, NEW value, NEW count, Close(f, Unit * value, count, R)
        PROVE  (Holds(hard, value, count) => Code(f)) /\ (Code(f) => Holds(easy, value, count))
    <2>1. x \in Int
      BY <1>2
    <2> QED BY <1>5, <2>1, CompareClose
  <1>6. n = Len(w) /\ w # <<>>
    BY <1>1, <1>2 DEF Read
  <1> HIDE DEF Holds, Code, hard, easy
  <1>7. /\ \A i \in 1..n : Holds(hard, v[i], 1) => Code(w[i])
        /\ \A i \in 1..n : Code(w[i]) => Holds(easy, v[i], 1)
    BY <1>2, <1>5
  <1>8. (Sat(hard) => Code(reduced)) /\ (Code(reduced) => Sat(easy))
    <2>1. CASE check.reduce = "Min"
      <3> DEFINE m == FoldLeft(Smaller, Head(w), Tail(w))
      <3>1. (\E i \in 1..n : w[i] = m) /\ \A i \in 1..n : m <= w[i]
        BY <1>6, SmallestOf
      <3>2. reduced = m
        BY <2>1 DEF reduceValues
      <3> HIDE DEF m, reduced
      <3>3. Code(m) <=> IF above THEN \A i \in 1..n : Code(w[i]) ELSE \E i \in 1..n : Code(w[i])
        BY <1>2, <1>6, <3>1, SmallestSatisfies DEF Code
      <3> QED BY <1>7, <2>1, <3>2, <3>3
    <2>2. CASE check.reduce = "Sum"
      <3>1. reduced = sum
        BY <1>1, <2>2, Zenon DEF reduceValues
      <3>2. (Holds(hard, total, 1) => Code(sum)) /\ (Code(sum) => Holds(easy, total, 1))
        BY <1>2, <1>5
      <3> HIDE DEF reduced
      <3> QED BY <2>2, <3>1, <3>2
    <2>3. CASE check.reduce = "Avg"
      <3>1. reduced = Float(sum, n)
        BY <1>1, <1>6, <2>3, Zenon DEF reduceValues
      <3>2. /\ Holds(hard, total, n) => Code(Float(sum, n))
            /\ Code(Float(sum, n)) => Holds(easy, total, n)
        BY <1>2, <1>5
      <3> HIDE DEF reduced
      <3> QED BY <2>3, <3>1, <3>2
    <2>4. CASE check.reduce \notin {"Min", "Sum", "Avg"}
      <3> DEFINE m == FoldLeft(Larger, Head(w), Tail(w))
      <3>1. (\E i \in 1..n : w[i] = m) /\ \A i \in 1..n : w[i] <= m
        BY <1>6, LargestOf
      <3>2. reduced = m
        BY <2>4 DEF reduceValues
      <3> HIDE DEF m, reduced
      <3>3. Code(m) <=> IF above THEN \E i \in 1..n : Code(w[i]) ELSE \A i \in 1..n : Code(w[i])
        BY <1>2, <1>6, <3>1, LargestSatisfies DEF Code
      <3> QED BY <1>7, <2>4, <3>2, <3>3
    <2> QED BY <2>1, <2>2, <2>3, <2>4
  <1> HIDE DEF Sat, reduced
  <1> QED BY <1>1, <1>3, <1>4, <1>8 DEF Code, reduced

----------------------------------------------------------------------------
(* The metric checks *)

\* One check: an error is a check nobody serves, or an answer that did not come.
LEMMA SingleError ==
  ASSUME NEW check, NEW samples, checkSingleMetric(check, samples) = "error"
  PROVE  ~Answerable(check) \/ samples = NoAnswer
  BY DEF checkSingleMetric

\* What the webhook admits is served, but for what Unserved says.
LEMMA AdmittedIsServed ==
  ASSUME NEW check, check.type \in {"Pods", "Object", "External"}, validateMetricCheck(check)
  PROVE  Unserved(check) <=> ~Answerable(check)
  BY DEF validateMetricCheck, Answerable, Unserved

\* What is read is numbers, whatever the answer.
LEMMA ReadingsType ==
  ASSUME NEW samples \in Seq(Int)
  PROVE  LET v == [i \in DOMAIN samples |-> MilliValue(samples[i])]
             w == [i \in DOMAIN samples |-> ReadValue(samples[i])]
         IN  /\ v \in Seq(Int) /\ w \in Seq(Int) /\ Read(v, w)
             /\ Len(v) = Len(samples)
  <1> DEFINE n == Len(samples)
             v == [i \in DOMAIN samples |-> MilliValue(samples[i])]
             w == [i \in DOMAIN samples |-> ReadValue(samples[i])]
  <1>1. n \in Nat /\ DOMAIN samples = 1..n /\ \A i \in 1..n : samples[i] \in Int
    OBVIOUS
  <1>2. \A i \in 1..n : MilliValue(samples[i]) \in Int
    BY <1>1 DEF MilliValue
  <1>3. ASSUME NEW i \in 1..n PROVE ReadValue(samples[i]) \in Int
    <2> DEFINE m == MilliValue(samples[i])
    <2>1. m * Unit \in Int
      BY <1>2, FloatAssumption
    <2> HIDE DEF m
    <2>2. Float(m * Unit, 1) \in Int
      BY <2>1, FloatType
    <2>3. Float(Float(m * Unit, 1), 1000) \in Int
      BY <2>2, FloatType
    <2> QED BY <2>3 DEF ReadValue, m
  <1>4. v \in [1..n -> Int] /\ w \in [1..n -> Int]
    BY <1>1, <1>2, <1>3
  <1>5. \A i \in 1..n : v[i] = MilliValue(samples[i]) /\ w[i] = ReadValue(samples[i])
    BY <1>1
  <1> HIDE DEF v, w, n
  <1>6. v \in Seq(Int) /\ w \in Seq(Int) /\ Len(v) = n /\ Len(w) = n
    BY <1>1, <1>4
  <1>7. \A i \in 1..n : w[i] = Float(Float(v[i] * Unit, 1), 1000)
    BY <1>5 DEF ReadValue
  <1>8. Read(v, w)
    BY <1>6, <1>7 DEF Read
  <1> QED BY <1>6, <1>8 DEF v, w, n

LEMMA ThresholdType ==
  ASSUME NEW q \in [base : Int, parts : Nat \ {0}]
  PROVE  AsApproximateFloat64(q) \in Int
  <1> DEFINE base == Float(q.base * Unit, 1)
             part == Float(Unit, q.parts)
  <1>1. q.base * Unit \in Int /\ q.parts \in Nat \ {0} /\ Unit \in Nat \ {0}
    BY FloatAssumption
  <1>2. base \in Int /\ part \in Int
    BY <1>1, FloatType
  <1> HIDE DEF base, part
  <1>3. base * part \in Int
    BY <1>2
  <1>4. Float(base * part, Unit) \in Int
    BY <1>1, <1>3, FloatType
  <1> QED BY <1>2, <1>4 DEF AsApproximateFloat64, base, part

\* One check passes when it is answered and the documented reduction of the answer
\* satisfies its threshold with all that rounding may come to, and only when it satisfies
\* it but for that.
LEMMA CheckRight ==
  ASSUME NEW check, check.threshold \in [base : Int, parts : Nat \ {0}],
         NEW samples \in Seq(Int), samples # NoAnswer, 8 * Len(samples) <= Significand
  PROVE  LET v == [j \in DOMAIN samples |-> MilliValue(samples[j])]
             outcome == checkSingleMetric(check, samples)
         IN  /\ Answerable(check) /\ Satisfies(check, v, Harder(check, 1 * Rounding(v)))
                  => outcome = "passed"
             /\ outcome = "passed" =>
                  Answerable(check) /\ Satisfies(check, v, Harder(check, (-1) * Rounding(v)))
  <1> DEFINE v == [j \in DOMAIN samples |-> MilliValue(samples[j])]
             w == [j \in DOMAIN samples |-> ReadValue(samples[j])]
             holds == compareThreshold(reduceValues(w, check.reduce),
                                       AsApproximateFloat64(check.threshold), check.operator)
  <1>1. /\ v \in Seq(Int) /\ w \in Seq(Int) /\ Read(v, w) /\ Len(v) = Len(samples)
    BY ReadingsType
  <1>2. CASE samples = <<>>
    <2>1. v = <<>>
      BY <1>1, <1>2
    <2>2. checkSingleMetric(check, samples) # "passed"
      BY <1>2 DEF checkSingleMetric
    <2>3. \A limit : ~Satisfies(check, v, limit)
      BY <2>1 DEF Satisfies
    <2> QED BY <2>2, <2>3
  <1>3. CASE samples # <<>>
    <2>1. checkSingleMetric(check, samples) =
            IF ~Answerable(check) THEN "error" ELSE IF holds THEN "passed" ELSE "failed"
      BY <1>3 DEF checkSingleMetric
    <2>2. v # <<>>
      BY <1>1, <1>3
    <2>3. AsApproximateFloat64(check.threshold) \in Int
      BY ThresholdType
    <2> HIDE DEF v, w
    <2>4. /\ Satisfies(check, v, Harder(check, 1 * Rounding(v))) => holds
          /\ holds => Satisfies(check, v, Harder(check, (-1) * Rounding(v)))
      BY <1>1, <2>2, <2>3, ReducedRight
    <2> HIDE DEF holds
    <2> QED BY <2>1, <2>4 DEF v
  <1> QED BY <1>2, <1>3

\* Of the checks that do not pass, if any, there is a first one, and the list comes to
\* what that one comes to.
LEMMA VerdictOf ==
  ASSUME NEW checks, NEW given, DOMAIN checks \subseteq Nat
  PROVE  /\ CheckMetrics(checks, given) = "passed" <=>
              \A i \in DOMAIN checks : checkSingleMetric(checks[i], given[i]) = "passed"
         /\ CheckMetrics(checks, given) = "error" =>
              \E i \in DOMAIN checks : checkSingleMetric(checks[i], given[i]) = "error"
  <1> DEFINE outcome(i) == checkSingleMetric(checks[i], given[i])
             stops == {i \in DOMAIN checks : outcome(i) # "passed"}
             first == CHOOSE i \in stops : \A j \in stops : i <= j
  <1>1. CheckMetrics(checks, given) = IF stops = {} THEN "passed" ELSE outcome(first)
    BY DEF CheckMetrics
  <1>2. ASSUME stops # {} PROVE first \in stops
    <2>1. stops \subseteq Nat
      OBVIOUS
    <2> HIDE DEF stops
    <2> QED BY <1>2, <2>1, LeastElement
  <1> HIDE DEF first
  <1>3. CASE stops = {}
    <2>1. \A i \in DOMAIN checks : outcome(i) = "passed"
      BY <1>3
    <2> QED BY <1>1, <1>3, <2>1
  <1>4. CASE stops # {}
    <2>1. first \in DOMAIN checks /\ outcome(first) # "passed"
      BY <1>2, <1>4
    <2>2. CheckMetrics(checks, given) = outcome(first)
      BY <1>1, <1>4
    <2> HIDE DEF stops
    <2> QED BY <2>1, <2>2
  <1> QED BY <1>3, <1>4

\* A list of checks that the webhook admitted fails to evaluate only because the metrics
\* API does, because one of its targets is of the kind nobody serves, or because one of
\* its selectors does not parse.
THEOREM ErrorExplained == GateSpec => []ErrorsExplained
  <1>1. ASSUME GateInv, verdict = "error"
        PROVE  \E i \in DOMAIN spec.metrics :
                 answers[i] = NoAnswer \/ Unserved(spec.metrics[i])
    <2>1. spec \in Submitted /\ validateDBUpgrade(spec)
          /\ CheckMetrics(spec.metrics, answers) = "error"
      BY <1>1 DEF GateInv, StoredInv, NoVerdict
    <2>2. DOMAIN spec.metrics \subseteq Nat
      BY <2>1, SchemaAssumption
    <2>3. PICK i \in DOMAIN spec.metrics :
             checkSingleMetric(spec.metrics[i], answers[i]) = "error"
      BY <2>1, <2>2, VerdictOf
    <2>4. spec.metrics[i].type \in {"Pods", "Object", "External"}
          /\ validateMetricCheck(spec.metrics[i])
      BY <2>1, SchemaAssumption DEF validateDBUpgrade, validateMetrics
    <2> QED BY <2>3, <2>4, SingleError, AdmittedIsServed
  <1>2. GateInv => ErrorsExplained
    BY <1>1 DEF ErrorsExplained
  <1> QED BY <1>2, GateAlways, PTL

\* The answers are nothing, or lists of numbers that are not too long.
LEMMA AnswersType ==
  ASSUME NEW a \in Answers, a # NoAnswer
  PROVE  a \in Seq(Int) /\ 8 * Len(a) <= Significand
  <1>1. ASSUME NEW n \in 0..MaxSamples, NEW f \in [1..n -> Values]
        PROVE  f \in Seq(Int) /\ Len(f) <= MaxSamples
    <2>1. n \in Nat /\ n <= MaxSamples
      BY ValuesAssumption
    <2>2. \A k \in 1..n : f[k] \in Int
      BY ValuesAssumption
    <2>3. f \in [1..n -> Int]
      BY <2>2
    <2> QED BY <2>1, <2>3
  <1>2. PICK n \in 0..MaxSamples : a \in [1..n -> Values]
    BY ValuesAssumption DEF Answers, BoundedSeq, SeqOf
  <1>3. a \in Seq(Int) /\ Len(a) <= MaxSamples
    BY <1>1, <1>2
  <1>4. Len(a) \in Nat /\ MaxSamples \in Nat /\ Significand \in Nat
    BY <1>3, ValuesAssumption, FloatAssumption
  <1> QED BY <1>3, <1>4, PrecisionAssumption

\* The gate's verdict is that of the documented reductions, computed without rounding, but
\* where the two are closer than rounding can tell: whatever the values, the length of the
\* answers and of the list, and however fine the floats.
THEOREM Right == GateSpec => []VerdictIsRight
  <1> DEFINE outcome(i) == checkSingleMetric(spec.metrics[i], answers[i])
  <1>1. ASSUME GateInv, verdict # NoVerdict
        PROVE  /\ (\A i \in DOMAIN spec.metrics : Meets(i, 1)) => verdict = "passed"
               /\ verdict = "passed" => \A i \in DOMAIN spec.metrics : Meets(i, -1)
    <2>1. /\ spec \in Submitted /\ validateDBUpgrade(spec)
          /\ answers \in [DOMAIN spec.metrics -> Answers]
          /\ verdict = CheckMetrics(spec.metrics, answers)
      BY <1>1 DEF GateInv, StoredInv
    <2>2. DOMAIN spec.metrics \subseteq Nat
      BY <2>1, SchemaAssumption
    <2>3. ASSUME NEW i \in DOMAIN spec.metrics
          PROVE  /\ Meets(i, 1) => outcome(i) = "passed"
                 /\ outcome(i) = "passed" => Meets(i, -1)
      <3> DEFINE check == spec.metrics[i]
                 samples == answers[i]
                 v == [j \in DOMAIN samples |-> MilliValue(samples[j])]
      <3>1. /\ check.type \in {"Pods", "Object", "External"}
            /\ check.threshold \in [base : Int, parts : Nat \ {0}]
            /\ validateMetricCheck(check)
        BY <2>1, SchemaAssumption DEF validateDBUpgrade, validateMetrics
      <3>2. Unserved(check) <=> ~Answerable(check)
        BY <3>1, AdmittedIsServed
      <3>3. CASE samples = NoAnswer
        <4>1. outcome(i) = "error"
          BY <3>3 DEF checkSingleMetric
        <4> QED BY <3>3, <4>1 DEF Meets
      <3>4. CASE samples # NoAnswer
        <4>1. samples \in Seq(Int) /\ 8 * Len(samples) <= Significand
          BY <2>1, <3>4, AnswersType
        <4>2. /\ Meets(i, 1) <=> /\ ~Unserved(check)
                                 /\ Satisfies(check, v, Harder(check, 1 * Rounding(v)))
              /\ Meets(i, -1) <=> /\ ~Unserved(check)
                                  /\ Satisfies(check, v, Harder(check, (-1) * Rounding(v)))
          BY <3>4 DEF Meets
        <4> HIDE DEF check, samples
        <4>3. /\ Answerable(check) /\ Satisfies(check, v, Harder(check, 1 * Rounding(v)))
                   => checkSingleMetric(check, samples) = "passed"
              /\ checkSingleMetric(check, samples) = "passed" =>
                   Answerable(check) /\ Satisfies(check, v, Harder(check, (-1) * Rounding(v)))
          BY <3>1, <3>4, <4>1, CheckRight
        <4> HIDE DEF v
        <4> QED BY <3>2, <4>2, <4>3 DEF check, samples
      <3> QED BY <3>3, <3>4
    <2>4. verdict = "passed" <=> \A i \in DOMAIN spec.metrics : outcome(i) = "passed"
      BY <2>1, <2>2, VerdictOf
    <2> HIDE DEF outcome
    <2> QED BY <2>3, <2>4
  <1>2. GateInv => VerdictIsRight
    BY <1>1 DEF VerdictIsRight
  <1> QED BY <1>2, GateAlways, PTL
=============================================================================

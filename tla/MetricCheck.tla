---------------------------- MODULE MetricCheck ----------------------------
(***************************************************************************)
(* internal/checks/metrics.go: how one metric check is evaluated, in       *)
(* floating point.  What the metrics API answers to a query is a sequence  *)
(* of values in millionths, or NoAnswer when it fails.                     *)
(*                                                                         *)
(* A float is an integer: the number of units it stands for.  With 2^53    *)
(* for Significand and 2^1074 for Unit these are the floats of float64     *)
(* but for the infinite ones.                                              *)
(***************************************************************************)
EXTENDS Integers, Sequences, SequencesExt

CONSTANTS
    NoAnswer,
    Significand,   \* the floats from 0 on that are one unit apart
    Unit           \* units to 1

ASSUME FloatAssumption == Significand \in Nat \ {0} /\ Unit \in Nat \ {0}

Operators == {">", ">=", "<", "<="}
Reductions == {"Max", "Min", "Sum", "Avg", ""}
Sources == {"Custom", "External", ""}

----------------------------------------------------------------------------
(* Floating point *)

Abs(n) == IF n >= 0 THEN n ELSE -n

\* The distance of floats of magnitude m: twice as many units have it twice as large.
Spacing[m \in Nat] == IF m < Significand THEN 1 ELSE 2 * Spacing[m \div 2]

\* The integer nearest to n / d, the even one of two.
Nearest(n, d) ==
    LET q == n \div d
        r == n % d
    IN  IF 2 * r > d \/ (2 * r = d /\ q % 2 = 1) THEN q + 1 ELSE q

\* The float nearest to n / d units.
Float(n, d) ==
    LET step == Spacing[Abs(n) \div d] IN step * Nearest(n, d * step)

\* resource.Quantity.MilliValue rounds to thousandths, away from zero.
MilliValue(v) == IF v >= 0 THEN (v + 999) \div 1000 ELSE -((999 - v) \div 1000)

\* float64(value.MilliValue()) / 1000.0
ReadValue(v) == Float(Float(MilliValue(v) * Unit, 1), 1000)

\* resource.Quantity.AsApproximateFloat64: the digits, times the power of ten, of which
\* q.parts make 1.
AsApproximateFloat64(q) ==
    LET base == Float(q.base * Unit, 1)
    IN  IF q.parts = 1 THEN base ELSE Float(base * Float(Unit, q.parts), Unit)

----------------------------------------------------------------------------
(* One check *)

\* Which checks reach the metrics API: a Custom source (the default) serves Pods
\* and Object targets, an External one ignores the target but for its own selector.
Answerable(check) ==
    IF check.source = "External" THEN check.external => check.selector
    ELSE \/ check.type = "Pods" /\ check.pods /\ check.selector
         \/ check.type = "Object" /\ check.object

\* The loops of reduceValues, over a non-empty sequence.
Larger(a, b) == IF b > a THEN b ELSE a
Smaller(a, b) == IF b < a THEN b ELSE a
Plus(a, b) == Float(a + b, 1)

\* Mutated form of reduceValues: an empty reduce is a sum.
reduceValuesSum(values, reduce) ==
    CASE reduce = "Min" -> FoldLeft(Smaller, Head(values), Tail(values))
      [] reduce \in {"Sum", ""} -> FoldLeft(Plus, 0, values)
      [] reduce = "Avg" -> Float(FoldLeft(Plus, 0, values), Len(values))
      [] OTHER -> FoldLeft(Larger, Head(values), Tail(values))
reduceValues(values, reduce) ==
    CASE reduce = "Min" -> FoldLeft(Smaller, Head(values), Tail(values))
      [] reduce = "Sum" -> FoldLeft(Plus, 0, values)
      [] reduce = "Avg" -> Float(FoldLeft(Plus, 0, values), Len(values))
      [] OTHER -> FoldLeft(Larger, Head(values), Tail(values))

compareThreshold(value, threshold, operator) ==
    \/ operator = ">" /\ value > threshold
    \/ operator = ">=" /\ value >= threshold
    \/ operator = "<" /\ value < threshold
    \/ operator = "<=" /\ value <= threshold

checkSingleMetric(check, samples) ==
    IF ~Answerable(check) \/ samples = NoAnswer THEN "error"
    ELSE IF samples = <<>> THEN "failed"
    ELSE LET values == [i \in DOMAIN samples |-> ReadValue(samples[i])]
         IN  IF compareThreshold(reduceValues(values, check.reduce),
                                 AsApproximateFloat64(check.threshold), check.operator)
             THEN "passed" ELSE "failed"

\* The first check that does not pass decides; the later ones are not evaluated.
CheckMetrics(checks, answers) ==
    LET outcome(i) == checkSingleMetric(checks[i], answers[i])
        stops == {i \in DOMAIN checks : outcome(i) # "passed"}
    IN  IF stops = {} THEN "passed"
        ELSE outcome(CHOOSE i \in stops : \A j \in stops : i <= j)

----------------------------------------------------------------------------
(* What the API documents: the reduction of the metric's values, compared  *)
(* with the threshold; here in whole thousandths, without rounding, and    *)
(* with a limit in units                                                   *)

Add(a, b) == a + b
Total(values) == FoldLeft(Add, 0, values)

Satisfies(check, values, limit) ==
    LET holds(value, count) ==
            compareThreshold(Unit * value, 1000 * limit * count, check.operator)
        some == \E i \in DOMAIN values : holds(values[i], 1)
        all  == \A i \in DOMAIN values : holds(values[i], 1)
        above == check.operator \in {">", ">="}
    IN  /\ values # <<>>
        /\ CASE check.reduce = "Min" -> IF above THEN all ELSE some
             [] check.reduce = "Sum" -> holds(Total(values), 1)
             [] check.reduce = "Avg" -> holds(Total(values), Len(values))
             [] OTHER -> IF above THEN some ELSE all

\* As much as rounding may come to, in units: a bound of the sum of the magnitudes, and
\* two spacings of twice that for each value.
Magnitudes(values) ==
    FoldLeft(Add, 0, [i \in DOMAIN values |-> Abs(values[i] * Unit) \div 1000 + 1])
Rounding(values) ==
    2 * Len(values) * Spacing[2 * Magnitudes(values) + 4 * Len(values)]

\* The threshold, made harder to meet by slack units.
Harder(check, slack) ==
    AsApproximateFloat64(check.threshold)
        + IF check.operator \in {">", ">="} THEN slack ELSE -slack
============================================================================

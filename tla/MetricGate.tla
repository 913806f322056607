----------------------------- MODULE MetricGate -----------------------------
(***************************************************************************)
(* The post-migration metric checks of a stored object: the webhook        *)
(* decides which lists of checks are stored, metrics.go what they come to. *)
(***************************************************************************)
EXTENDS AdmissionWebhook, MetricCheck

CONSTANTS
    Values,      \* the values a metric may have, in millionths
    MaxSamples   \* bound: values answered to one query

ASSUME ValuesAssumption == Values \subseteq Int /\ MaxSamples \in Nat

\* Rounding does not add up to the size of the values.
ASSUME PrecisionAssumption == 8 * MaxSamples <= Significand

VARIABLES
    answers,     \* what the metrics API answered, check by check
    verdict      \* what the evaluation of the stored checks came to

gateVars == <<spec, progressing, answers, verdict>>

NoVerdict == "none"
Answers == BoundedSeq(Values, MaxSamples) \cup {NoAnswer}

GateInit == Init /\ answers = <<>> /\ verdict = NoVerdict

\* The webhook's side; a write of the object makes the last verdict moot.
Stored == Next /\ answers' = <<>> /\ verdict' = NoVerdict

\* runPostChecks on the checks in force, each of them answered separately.
Evaluate ==
    /\ spec # None /\ verdict = NoVerdict
    /\ answers' \in [DOMAIN spec.metrics -> Answers]
    /\ verdict' = CheckMetrics(spec.metrics, answers')
    /\ UNCHANGED vars

GateNext == Stored \/ Evaluate

GateSpec == GateInit /\ [][GateNext]_gateVars

----------------------------------------------------------------------------
(* Properties *)

\* What the webhook lets through and metrics.go does not serve: one kind of target, and
\* a label selector that does not parse.
Unserved(check) ==
    \/ check.type = "External" /\ check.source # "External"
    \/ /\ ~check.selector
       /\ IF check.source = "External" THEN check.external ELSE check.type = "Pods"

\* The stored check i was answered, and the documented reduction of the values, in whole
\* thousandths and computed without rounding, satisfies its threshold with slack times
\* what rounding may come to.
Meets(i, slack) ==
    LET check == spec.metrics[i]
        values == [j \in DOMAIN answers[i] |-> MilliValue(answers[i][j])]
    IN  /\ ~Unserved(check) /\ answers[i] # NoAnswer
        /\ Satisfies(check, values, Harder(check, slack * Rounding(values)))

\* Through the defaults, the loops, the early exit and all that is rounded on the way, the
\* gate opens when every stored check meets its threshold, and only then: its verdict is
\* that of exact arithmetic but where the two are closer than rounding can tell.
VerdictIsRight ==
    verdict # NoVerdict =>
        /\ (\A i \in DOMAIN spec.metrics : Meets(i, 1)) => verdict = "passed"
        /\ verdict = "passed" => \A i \in DOMAIN spec.metrics : Meets(i, -1)

\* A list the webhook admitted fails to evaluate only because the metrics API does
\* or because one of its checks is not served.
ErrorsExplained ==
    verdict = "error" =>
        \E i \in DOMAIN spec.metrics :
            answers[i] = NoAnswer \/ Unserved(spec.metrics[i])
=============================================================================

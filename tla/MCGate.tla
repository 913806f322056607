------------------------------- MODULE MCGate -------------------------------
EXTENDS MetricGate

(* Databases: everything that differs from the base in at most one field *)

BaseAWS == [f \in AWSFields |-> "x"]
BaseRef == [name |-> "n1", key |-> "k1"]

MCAWSConfigs ==
    {None, BaseAWS} \cup {[BaseAWS EXCEPT ![f] = v] : f \in AWSFields, v \in {"y", Empty}}

MCConnections ==
    {None, [urlSecretRef |-> None], [urlSecretRef |-> BaseRef]}
    \cup {[urlSecretRef |-> [BaseRef EXCEPT !.name = v]] : v \in {"n2", Empty}}
    \cup {[urlSecretRef |-> [BaseRef EXCEPT !.key = v]] : v \in {"k2", Empty}}

BaseDatabase == [type |-> "selfHosted", connection |-> [urlSecretRef |-> BaseRef],
                 aws |-> None]

(* Metric checks *)

\* Three tenths once rounded to thousandths, and values on either side of zero.
MCValues == {-1400000, 299500, 1400000}

Tenths(n) == [base |-> n, parts |-> 10]

Target(type, pods, object, source) ==
    [type |-> type, pods |-> pods, object |-> object, external |-> FALSE,
     selector |-> TRUE, source |-> source, reduce |-> "", operator |-> ">",
     threshold |-> Tenths(3)]

\* A check the webhook admits, of each type; the last two are not served.
MCFirst ==
    {Target("Pods", TRUE, FALSE, ""), Target("Object", FALSE, TRUE, "Custom"),
     Target("External", FALSE, FALSE, "External"), Target("External", FALSE, FALSE, ""),
     [Target("Pods", TRUE, FALSE, "") EXCEPT !.selector = FALSE]}

\* Every shape of target, and a threshold of zero.
MCTargets ==
    [type : {"Pods", "Object", "External"}, pods : BOOLEAN,
     object : BOOLEAN, external : BOOLEAN, selector : BOOLEAN, source : {"", "External"},
     reduce : {""}, operator : {">"}, threshold : {Tenths(3)}]
    \cup {[Target("Pods", TRUE, FALSE, "") EXCEPT !.threshold = Tenths(0)]}

\* One well-formed target, every reduction and operator.
MCReductions ==
    [type : {"Pods"}, pods : {TRUE}, object : {FALSE}, external : {FALSE},
     selector : {TRUE}, source : {"Custom"}, reduce : Reductions, operator : Operators,
     threshold : {Tenths(3), Tenths(15), Tenths(-15), [base |-> 1, parts |-> 1]}]

\* Lists of two checks of all shapes, and of one check of all kinds.
MCLists ==
    {<<>>} \cup {<<m, n>> : m \in MCFirst, n \in MCTargets}
    \cup {<<m>> : m \in MCReductions}

MCSubmitted ==
    SpecOf(Database(MCConnections, MCAWSConfigs), {<<>>}, {"i1"})
    \cup SpecOf({BaseDatabase}, MCLists, {"i2"})
=============================================================================

-------------------------- MODULE AdmissionWebhook --------------------------
(***************************************************************************)
(* api/v1alpha1/dbupgrade_webhook.go: what the validating webhook lets     *)
(* into the API server over the life of one DBUpgrade, as creates, updates *)
(* and status writes follow each other.                                    *)
(*                                                                         *)
(* Optional structs are the model value None or a record; a string field   *)
(* is abstracted to whether it is empty and to a value to be told apart.   *)
(* checks is the list of post-migration metric checks, semver whether the  *)
(* minimum versions of the pre-migration checks parse.                     *)
(***************************************************************************)
EXTENDS Integers, Sequences

CONSTANTS
    None,       \* a nil pointer
    Submitted   \* the specs users submit and the CRD schema lets through

Empty == ""
Types == {"selfHosted", "awsRds", "awsAurora"}
AWSTypes == {"awsRds", "awsAurora"}
AWSFields == {"roleArn", "region", "host", "port", "dbName", "username"}

\* What users submit: a database with its optional structs, a list of metric checks,
\* versions that parse or not, an image.
Database(Connections, AWSConfigs) ==
    [type : Types, connection : Connections, aws : AWSConfigs]
SpecOf(Databases, Metrics, Images) ==
    [database : Databases, metrics : Metrics, semver : BOOLEAN, image : Images]

\* The CRD's enumerations and structs, which the API server checks before the webhook.
ASSUME SchemaAssumption ==
    \A s \in Submitted :
        /\ s.database.type \in Types
        /\ s.database.aws \in {None} \cup [AWSFields -> STRING]
        /\ s.database.connection # None =>
               s.database.connection.urlSecretRef \in {None} \cup [name : STRING, key : STRING]
        /\ DOMAIN s.metrics = 1..Len(s.metrics) /\ Len(s.metrics) \in Nat
        /\ \A i \in DOMAIN s.metrics :
               /\ s.metrics[i].type \in {"Pods", "Object", "External"}
               /\ s.metrics[i].threshold \in [base : Int, parts : Nat \ {0}]

VARIABLES
    spec,         \* the stored spec, None when the object does not exist
    progressing   \* its Progressing condition is True

vars == <<spec, progressing>>

----------------------------------------------------------------------------
(* Validation of one object *)

RequiredAWSFields == AWSFields \ {"port"}

ValidAWS(aws) == \A f \in RequiredAWSFields : aws[f] # Empty

ValidConnection(c) ==
    c.urlSecretRef # None /\ c.urlSecretRef.name # Empty /\ c.urlSecretRef.key # Empty

\* Mutated form of validateDatabase: nothing has to say where the database is.
validateDatabaseLax(d) ==
    /\ d.type = "selfHosted" => d.aws = None
    /\ d.aws # None => ValidAWS(d.aws)
    /\ d.connection # None => ValidConnection(d.connection)
validateDatabase(d) ==
    /\ d.type \in AWSTypes => /\ d.aws # None \/ d.connection # None
                              /\ d.aws # None => ValidAWS(d.aws)
    /\ d.type = "selfHosted" => d.connection # None /\ d.aws = None
    /\ d.connection # None => ValidConnection(d.connection)

\* Target sub-structs are present or not; External may come with or without one.
validateMetricCheck(m) ==
    /\ m.type = "Pods" => m.pods /\ ~m.object /\ ~m.external
    /\ m.type = "Object" => m.object /\ ~m.pods /\ ~m.external
    /\ m.type = "External" => ~m.pods /\ ~m.object
    /\ m.threshold.base # 0

\* Mutated form of validateMetrics: only the first check is looked at.
validateFirstMetric(metrics) == metrics # <<>> => validateMetricCheck(Head(metrics))
validateMetrics(metrics) == \A i \in DOMAIN metrics : validateMetricCheck(metrics[i])

validateMinPodVersions(s) == s.semver

validateDBUpgrade(s) ==
    /\ validateDatabase(s.database)
    /\ validateMinPodVersions(s)
    /\ validateMetrics(s.metrics)

----------------------------------------------------------------------------
(* Validation of an update *)

validateNotProgressing(old, new) == old = new \/ ~progressing

HasConnection(d) == d.connection # None /\ d.connection.urlSecretRef # None

\* Mutated form of SameAWS: the port is forgotten.
SameAWSExceptPort(old, new) ==
    /\ (old.aws # None) = (new.aws # None)
    /\ old.aws # None => \A f \in AWSFields \ {"port"} : old.aws[f] = new.aws[f]
SameAWS(old, new) ==
    /\ (old.aws # None) = (new.aws # None)
    /\ old.aws # None => \A f \in AWSFields : old.aws[f] = new.aws[f]

validateImmutableFields(old, new) ==
    /\ new.type = old.type
    /\ HasConnection(old) = HasConnection(new)
    /\ HasConnection(old) => /\ old.connection.urlSecretRef.name = new.connection.urlSecretRef.name
                             /\ old.connection.urlSecretRef.key = new.connection.urlSecretRef.key
    /\ SameAWS(old, new)

----------------------------------------------------------------------------
Init == spec = None /\ progressing = FALSE

ValidateCreate(s) ==
    /\ spec = None
    /\ validateDBUpgrade(s)
    /\ spec' = s
    /\ UNCHANGED progressing

ValidateUpdate(s) ==
    /\ spec # None
    /\ validateNotProgressing(spec, s)
    /\ validateImmutableFields(spec.database, s.database)
    /\ validateDBUpgrade(s)
    /\ spec' = s
    /\ UNCHANGED progressing

ValidateDelete ==
    /\ spec # None
    /\ spec' = None /\ progressing' = FALSE

\* The controller's status writes; status is a subresource the webhook is not
\* registered for.
WriteStatus ==
    /\ spec # None
    /\ progressing' = ~progressing
    /\ UNCHANGED spec

Next ==
    \/ \E s \in Submitted : ValidateCreate(s) \/ ValidateUpdate(s)
    \/ ValidateDelete
    \/ WriteStatus

Spec == Init /\ [][Next]_vars

----------------------------------------------------------------------------
(* Properties *)

\* The database behind an object, as the controller would use it.
Identity(d) ==
    IF d.aws # None THEN [type |-> d.type, aws |-> d.aws]
    ELSE [type |-> d.type, ref |-> d.connection.urlSecretRef]

\* Whatever legal updates follow each other, an object never moves to another
\* database.
DatabasePinned ==
    [][spec # None /\ spec' # None => Identity(spec'.database) = Identity(spec.database)]_vars

\* Every stored object says how to reach its database, in exactly the way its
\* type calls for when the type is selfHosted.
StoredSaysWhere ==
    spec # None =>
        LET d == spec.database IN
          /\ \/ HasConnection(d)
             \/ d.aws # None /\ Empty \notin {d.aws[f] : f \in RequiredAWSFields}
          /\ d.type = "selfHosted" => HasConnection(d) /\ d.aws = None

============================================================================

----------------------------- MODULE MCVersion ------------------------------
EXTENDS VersionCheck, TLC

\* Two apps, the first with two pods.
MCAppOf == "p1" :> "api" @@ "p2" :> "api" @@ "p3" :> "web"

C(name, shape, version) ==
    [name |-> name, tag |-> [shape |-> shape, version |-> version]]

\* The app alone, in all shapes of tags that end up a version or not, and beside a
\* proxy with a version of its own.
MCTemplates ==
    {<<C("app", "semver", v)>> : v \in 1..3}
    \cup {<<C("app", "number", 2)>>, <<C("app", "digits", 1)>>}
    \cup {<<C("app", "semver", v), C("proxy", "semver", w)>> : v, w \in 1..2}

MinVersion(app, v, name, strict) ==
    [app |-> app, minVersion |-> v, containerName |-> name, strictMode |-> strict]

\* A strict check of all containers, then a lenient one of a named container.
MCChecks ==
    <<MinVersion("api", 2, AnyName, TRUE), MinVersion("web", 2, "app", FALSE)>>
=============================================================================

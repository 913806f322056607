---------------------------- MODULE MCController ----------------------------
EXTENDS ControllerRefinement, TLC

CONSTANTS s1, s2, j1, j2

MCHash == (s1 :> j1) @@ (s2 :> j2)
\* Specs of one kind change places together with the names of their Jobs.
MCSwap == {p \in Permutations({s1, s2, j1, j2}) :
             \A s \in Specs : p[s] \in Specs /\ p[MCHash[s]] = MCHash[p[s]]}
MCSelfHosted == [s \in Specs |-> "selfHosted"]
MCAWS == [s \in Specs |-> "aws"]
MCBoth == (s1 :> "aws") @@ (s2 :> "selfHosted")
MCIncomplete == (s1 :> "selfHosted") @@ (s2 :> "awsNoConfig")
=============================================================================

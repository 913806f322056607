--------------------------- MODULE MCTwoManagers ----------------------------
EXTENDS TwoManagers, TLC

CONSTANT s1

MCHash == s1 :> "j1"
MCSelfHosted == s1 :> "selfHosted"
=============================================================================

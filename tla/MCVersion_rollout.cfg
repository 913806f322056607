SPECIFICATION Spec
CONSTANTS
  Pods = {"p1", "p2", "p3"}
  AppOf <- MCAppOf
  Templates <- MCTemplates
  Checks <- MCChecks
  ForwardOnly = TRUE
PROPERTY JobStartsAboveMinimum
PROPERTY JobWaitsForPods

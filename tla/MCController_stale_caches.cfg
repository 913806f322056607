SPECIFICATION Spec
CONSTANTS
  s1 = s1
  s2 = s2
  j1 = j1
  j2 = j2
  NoSpec = NoSpec
  Specs = {s1, s2}
  JobNames = {j1, j2}
  computeSpecHash <- MCHash
  DatabaseOf <- MCSelfHosted
  PreChecked = {}
  PostChecked = {}
  Urls = {"u1"}
  WebhookEnabled = FALSE
  Lagging = {"DBUpgrade", "Job", "Secret"}
  Lingers = TRUE
  MaxGen = 3
  MaxUid = 1
  MaxDisturbances = 0
INVARIANT TypeOK
INVARIANT ReadyIsEarned
INVARIANT QuietIsSettled
INVARIANT ReadyUnlessOverlap
PROPERTY NoSecondLaunch
PROPERTY KeepsPromise
SYMMETRY MCSwap
CHECK_DEADLOCK FALSE

SPECIFICATION BothSpec
CONSTANTS
  s1 = s1
  NoSpec = NoSpec
  Specs = {s1}
  JobNames = {"j1"}
  computeSpecHash <- MCHash
  DatabaseOf <- MCSelfHosted
  PreChecked = {}
  PostChecked = {}
  Urls = {"u1"}
  WebhookEnabled = TRUE
  Lagging = {"DBUpgrade", "Job"}
  Lingers = FALSE
  MaxGen = 1
  MaxUid = 1
  MaxDisturbances = 0
INVARIANT FailureIsReal
INVARIANT BothQuietIsSettled
PROPERTY NoSecondLaunch
CHECK_DEADLOCK FALSE

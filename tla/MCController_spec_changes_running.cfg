SPECIFICATION Spec
CONSTANTS
  s1 = s1
  s2 = s2
  j1 = j1
  j2 = j2
  NoSpec = NoSpec
  Specs = {s1, s2}
  JobNames = {j1, j2}
  computeSpecHash <- MCHash
  DatabaseOf <- MCSelfHosted
  PreChecked = {}
  PostChecked = {}
  Urls = {"u1"}
  WebhookEnabled = TRUE
  Lagging = {}
  Lingers = FALSE
  MaxGen = 2
  MaxUid = 1
  MaxDisturbances = 0
PROPERTY SpecFixedWhileRunning
CHECK_DEADLOCK FALSE

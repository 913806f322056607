SPECIFICATION FairSpec
CONSTANTS
  s1 = s1
  s2 = s2
  j1 = j1
  j2 = j2
  NoSpec = NoSpec
  Specs = {s1, s2}
  JobNames = {j1, j2}
  computeSpecHash <- MCHash
  DatabaseOf <- MCIncomplete
  PreChecked = {}
  PostChecked = {}
  Urls = {"u1"}
  WebhookEnabled = TRUE
  Lagging = {"DBUpgrade", "Job", "Secret"}
  Lingers = FALSE
  MaxGen = 1
  MaxUid = 2
  MaxDisturbances = 1
INVARIANT ReadyIsEarned
INVARIANT ReadyUnlessOverlap
PROPERTY NoSecondLaunch
PROPERTY Settles
PROPERTY LockReleased
CHECK_DEADLOCK FALSE

SPECIFICATION Spec
CONSTANTS
  s1 = s1
  s2 = s2
  j1 = j1
  j2 = j2
  NoSpec = NoSpec
  Specs = {s1, s2}
  JobNames = {j1, j2}
  computeSpecHash <- MCHash
  DatabaseOf <- MCBoth
  PreChecked = {s1}
  PostChecked = {s1}
  Urls = {"u1"}
  WebhookEnabled = FALSE
  Lagging = {"DBUpgrade", "Secret"}
  Lingers = FALSE
  MaxGen = 2
  MaxUid = 1
  MaxDisturbances = 1
INVARIANT ReadyMatchesDatabase
INVARIANT OneJobAtATime
INVARIANT QuietIsSettled
PROPERTY NoSecondLaunch
PROPERTY DoneStaysDone
PROPERTY KeepsPromise
CHECK_DEADLOCK FALSE

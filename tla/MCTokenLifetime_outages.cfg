SPECIFICATION Spec
CONSTANTS
  None = None
  Validity = 15
  DefaultDeadline = 10
  Deadlines = {20}
  Requeue = 2
  MaxCall = 1
  MaxOutage = 9
INVARIANT ConnectsWithLiveToken

SPECIFICATION Spec
CONSTANTS
  None = None
  Second = 2
  Bake = 2
  Retry = 2
  Skew = 2
  MaxTime = 11
  MaxMigrations = 2
INVARIANT TypeOK
INVARIANT BakeIsNotProlonged
INVARIANT CompletionIsOwn
PROPERTY BakeIsKept
CHECK_DEADLOCK FALSE

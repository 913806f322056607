SPECIFICATION GateSpec
CONSTANTS
  None = None
  NoAnswer = NoAnswer
  Submitted <- MCSubmitted
  Values <- MCValues
  MaxSamples = 2
  Significand = 512
  Unit = 8192
INVARIANT StoredSaysWhere
INVARIANT ErrorsExplained
INVARIANT VerdictIsRight
PROPERTY DatabasePinned

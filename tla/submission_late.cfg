SPECIFICATION SafetySpec
CONSTANTS
  Attempts = 3
  Roundtrips = 2
  None = None
  MaxCalls = 3
  MaxChanges = 3
INVARIANTS
  SuccessAlwaysReal
CHECK_DEADLOCK FALSE

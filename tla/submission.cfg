SPECIFICATION Spec
CONSTANTS
  Attempts = 3
  Roundtrips = 2
  None = None
  MaxCalls = 3
  MaxChanges = 3
INVARIANTS
  TypeOK
  SuccessIsReal
  FailureIsReal
  AtMostOnce
PROPERTIES
  CallsReturn
CHECK_DEADLOCK FALSE

SPECIFICATION Spec
CONSTANTS
  Procs = {p1, p2}
  Updates = {u1, u2, u3}
  NoProc = NoProc
  NoUpdate = NoUpdate
  MaxCrashes = 2
INVARIANTS
  TypeOK
  NeverTorn
  SavedStays
PROPERTIES
  AtomicUpdates
  UpdatesEnd
CHECK_DEADLOCK FALSE

SPECIFICATION Spec
CONSTANTS
  Procs = {p1, p2}
  NoProc = NoProc
  desk = desk
  sofa = sofa
  home = home
  reserved = reserved
  wide = wide
  narrow = narrow
  flat = flat
  inner = inner
  Names = {desk, sofa}
  Setups = {home, reserved}
  ReservedSetups = {reserved}
  Layouts = {wide, narrow}
  Paths = {flat, inner}
  Nested = {inner}
  Content <- MCContent
  OldStores <- MCOldStores
  OldDefaults <- MCOldDefaults
  NoValue = NoValue
  NoTask = NoTask
  Tasks <- MCTasks
  MaxRuns = 3
  MaxDeaths = 1
INVARIANTS
  TypeOK
  NothingLost
  UsersHaveTheLastWord
  DefaultsKept
  FailsOnlyForCause
PROPERTIES
  RunsEnd
CHECK_DEADLOCK FALSE

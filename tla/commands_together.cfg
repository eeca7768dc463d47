SPECIFICATION Spec
CONSTANTS
  Connectors <- MCConnectors
  Texts <- MCTexts
  NoValue = NoValue
  Modes <- MCModes
  Xforms <- MCXforms
  DefaultXform = "1x"
  ProfileNames <- MCNames
  Rank <- MCRank
  InternalConnectors = {"eDP-1"}
  InternalTexts = {}
  Preferred <- MCPreferred
  LogicalWidth <- MCLogical
  Procs = {"a", "b"}
  CommandLines <- TogetherLines
  Setups <- DockSetups
  Stores <- MCStores
  States <- NewStates
  MaxCommands = 2
  MaxChanges = 1
INVARIANTS
  TypeOK
  AppliedIsRecorded
PROPERTIES
  ImplicitDefaultIsOnly
  OthersUntouched
CHECK_DEADLOCK FALSE

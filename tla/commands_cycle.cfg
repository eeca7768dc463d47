SPECIFICATION Spec
CONSTANTS
  Connectors <- MCConnectors
  Texts <- MCTexts
  NoValue = NoValue
  Modes <- MCModes
  Xforms <- MCXforms
  DefaultXform = "1x"
  ProfileNames <- MCNames
  Rank <- MCRank
  InternalConnectors = {"eDP-1"}
  InternalTexts = {}
  Preferred <- MCPreferred
  LogicalWidth <- MCLogical
  Procs = {"a"}
  CommandLines <- CycleLines
  Setups <- DockSetups
  Stores <- MCStores
  States <- NewStates
  MaxCommands = 1
  MaxChanges = 1
PROPERTIES
  CycleReachesAll

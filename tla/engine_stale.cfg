SPECIFICATION Spec
CONSTANTS
  Connectors <- MCConnectors
  Texts = {}
  NoValue = NoValue
  Modes <- MCModes
  Xforms <- MCXforms
  DefaultXform <- One
  ProfileNames <- MCNames
  Rank <- MCRank
  InternalConnectors = {"eDP-1"}
  InternalTexts = {}
  PipeSize = 1
  MaxDescendants = 1
  Environments <- MCEnvironments
  MutterSetups <- MCMutterSetups
  KScreenSetups <- MCKScreenSetups
  SetPresets <- MCPresets
  Profiles <- MCProfiles
  PreHooks = 2
  LaterHooks = 1
  MaxDisturbances = 1
INVARIANT
  StaleIsTopologyChanged
CHECK_DEADLOCK FALSE

SPECIFICATION Spec
CONSTANTS
  Connectors <- MCConnectors
  Texts <- MCTexts
  NoValue = NoValue
  Modes <- MCModes
  Xforms <- MCXforms
  DefaultXform = "1x"
  ProfileNames <- MCNames
  Rank <- MCRank
  InternalConnectors = {"eDP-1"}
  InternalTexts = {}
  Preferred <- MCPreferred
  LogicalWidth <- MCLogical
  Procs = {"a"}
  CommandLines <- SequenceLines
  Setups <- WeakSetups
  Stores <- MCStores
  States <- KnownStates
  MaxCommands = 2
  MaxChanges = 2
INVARIANTS
  SavedComesBack
  DefaultIsFollowed
CHECK_DEADLOCK FALSE

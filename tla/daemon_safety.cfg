SPECIFICATION SafetySpec
CONSTANTS
  Connectors <- MCConnectors
  Texts <- MCTexts
  NoValue = NoValue
  Modes <- MCModes
  Xforms <- MCXforms
  DefaultXform = "1x"
  ProfileNames <- MCNames
  Rank <- MCRank
  InternalConnectors = {"eDP-1"}
  InternalTexts = {}
  MaxRetries = 2
  StableSamples = 2
  Preferred <- MCPreferred
  NoHooks = FALSE
  Setups <- DockSetups
  Stores <- DockStores
  EditPresets = {"builtin"}
  MaxChanges = 2
  MaxEdits = 1
  MaxCrashes = 1
INVARIANTS
  TypeOK
  RememberedSound
  PolicyFollowsChange
  AppliedLayoutHolds
  NextPassAgrees
PROPERTIES
  KnownNeverForgets

SPECIFICATION Spec
CONSTANTS
  Connectors <- MCConnectors
  Texts <- MCTexts
  NoValue = NoValue
  Modes <- MCModes
  Xforms <- MCXforms
  DefaultXform = "1x"
  ProfileNames <- MCNames
  Rank <- MCRank
  InternalConnectors = {"eDP-1"}
  InternalTexts = {}
  MaxRetries = 2
  StableSamples = 2
  Preferred <- MCPreferred
  NoHooks = FALSE
  Setups <- DarkSetups
  Stores <- DarkStores
  EditPresets = {"builtin"}
  MaxChanges = 2
  MaxEdits = 0
  MaxCrashes = 1
PROPERTIES
  EventuallyQuiet

SPECIFICATION Spec
CONSTANTS
  Connectors <- MCConnectors
  Texts <- MCTexts
  NoValue = NoValue
  Modes <- MCModes
  Xforms <- MCXforms
  DefaultXform = "1x"
  ProfileNames <- MCNames
  Rank <- MCRank
  InternalConnectors = {"eDP-1"}
  InternalTexts = {}
  LogicalWidth <- MCLogical
  Preferred <- MCPreferred
  Displays <- MCDisplays
  Reports <- MCReports
  Offers <- MCOffers
  Drives <- MCDrives
  Cablings <- MCCablings
  Spots <- MCSpots
  SetPresets <- MCPresets
  MaxReplugs = 1
INVARIANTS
  GreedyFindsMatching
  SetSettles
  PresetRecognised
PROPERTIES
  SetRestores
CHECK_DEADLOCK FALSE

SPECIFICATION GeneratorsSpec
CONSTANTS
  MaxReadouts = 2
  Scale = 20
  DreamConfigurations <- BwecConfigurations
  DreamReadouts <- BwecReadouts
  CaenConfigurations = {}
  CaenReadouts <- MCCaenReadouts
  VmmConfigurations = {}
  VmmPackets <- MCVmmPackets
  Programs = {}
  DrawnCoords = {}
  DrawnBytes = {}
  DrawnSlopes = {}
  DrawnDirections = {}
  DrawnPixels = {}
  AmplitudeScale = 100
PROPERTY ConfiguredModulesAccepted
CHECK_DEADLOCK FALSE

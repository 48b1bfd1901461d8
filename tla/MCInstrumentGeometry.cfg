SPECIFICATION GeneratorsSpec
CONSTANTS
  MaxReadouts = 2
  Scale = 20
  DreamConfigurations <- MCDreamConfigurations
  DreamReadouts <- MCDreamReadouts
  CaenConfigurations <- MCCaenConfigurations
  CaenReadouts <- MCCaenReadouts
  VmmConfigurations <- MCVmmConfigurations
  VmmPackets <- MCVmmPackets
  Programs <- MCPrograms
  DrawnCoords = {0, 5, 7, 60, 64, 639}
  DrawnBytes = {0, 44, 64, 130, 190, 255}
  DrawnSlopes <- MCSlopes
  DrawnDirections <- MCDirections
  DrawnPixels <- MCPixels
  AmplitudeScale = 45
INVARIANTS ReadoutsAccounted PixelsInPart PlacesApart StreamsApart GeneratedSeen
CHECK_DEADLOCK FALSE

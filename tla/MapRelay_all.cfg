\* Two clients, two sessions of an uploaded or the default map.
CONSTANTS
  MAX_PLAYERS = 2
  DefaultMaps = 1
  Fights = {2}
  MaxSteps = 1
  MaxPress = 2
  UpBound = 1
  DownBound = 1
  MaxBlocks = 1
  MaxObjects = 1
  MaxEnemies = 1
  MaxStarts = 1
SPECIFICATION FairSpec
CHECK_DEADLOCK FALSE
INVARIANTS
  TypeOK
  OnTheWire
  DefaultMapWhole
PROPERTIES
  MapsSettle
  GuiReturns

\* Two players, one of whom runs to an enemy and back.
CONSTANTS
  MAX_PLAYERS = 2
  Xs <- Coordinates
  Ys <- Coordinates
  Start <- StartPlace
  Places <- Corners
  Danger <- EnemyPlaces
  Movers = {1}
  UpBound = 1
  DownBound = 1
  MaxBlocks = 1
  MaxObjects = 1
  MaxEnemies = 1
  MaxStarts = 1
SPECIFICATION FairSpec
CHECK_DEADLOCK FALSE
INVARIANTS
  TypeOK
  OnTheWire
PROPERTY StandsStill

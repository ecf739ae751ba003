\* A careful user draws two blocks, puts an enemy and an object, and uploads.
CONSTANTS
  Size = 1
  Speed = 1
  Clicks = {0, 2, 5}
  MaxBlocks = 2
  MaxObjects = 1
  MaxEnemies = 1
  MaxPress = 4
SPECIFICATION CarefulSpec
CHECK_DEADLOCK FALSE
INVARIANTS
  TypeOK
  NearestIsNearest
  
PROPERTIES
  FinishedStay
  WalksOnItsBlock

\* A patient host, players who drop out, reads that return two packets.
CONSTANTS
  MAX_PLAYERS = 2
  LastMap = 2
  Overlap = {}
  Loops = {t1}
  Runners = {1}
  Quitters = {0, 1}
  MaxPress = 2
  MaxRead = 2
  UpBound = 2
  DownBound = 1
SPECIFICATION PatientSpec
CHECK_DEADLOCK FALSE
INVARIANTS
  TypeOK
  StageInRange
  StageSync

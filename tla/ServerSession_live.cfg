\* Two sessions, one after the other, each won at the boss; the host may leave early.
CONSTANTS
  MAX_PLAYERS = 2
  LastMap = 0
  Overlap = {}
  Loops = {t1}
  Runners = {}
  Quitters = {0}
  MaxPress = 2
  MaxRead = 1
  UpBound = 2
  DownBound = 1
SPECIFICATION FairPatientSpec
CHECK_DEADLOCK FALSE
PROPERTIES
  StartReachesAll
  

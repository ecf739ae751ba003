\* Violation: one touch clears two stages whose flags overlap.
CONSTANTS
  MAX_PLAYERS = 2
  LastMap = 3
  Overlap <- MapOverlap
  Loops = {t1}
  Runners = {1}
  Quitters = {0}
  MaxPress = 1
  MaxRead = 1
  UpBound = 2
  DownBound = 1
SPECIFICATION PatientSpec
CHECK_DEADLOCK FALSE
INVARIANT NoStaleClear

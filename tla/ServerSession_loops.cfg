\* Violation: a second game loop is launched beside the first.
CONSTANTS
  MAX_PLAYERS = 2
  LastMap = 1
  Overlap = {}
  Loops = {t1, t2}
  Runners = {1}
  Quitters = {0}
  MaxPress = 2
  MaxRead = 1
  UpBound = 2
  DownBound = 1
SPECIFICATION Spec
CHECK_DEADLOCK FALSE
INVARIANT OneGameLoop

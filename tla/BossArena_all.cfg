\* One fight, with every sequence of coin tosses and slams.
CONSTANTS
  BossX = 22
  BossLife = 3
  HalfWidth <- MCHalfWidth
  Interval <- MCInterval
  FirstAttack = 6
  MapBlocks <- MCMapBlocks
  MapEnemys <- MCMapEnemys
  BlockCap = 12
  EnemyCap = 12
  MAX_PLAYERS = 2
  Overkill = 1
  Idle = 24
SPECIFICATION Spec
INVARIANTS TypeOK BlocksApart ArraysSuffice PlatformExists AlwaysABlock
CHECK_DEADLOCK FALSE

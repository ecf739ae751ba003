\* Two clients, two slots and the game loop: rosters are repaired.
CONSTANTS
  Conns = {c1, c2}
  MAX_PLAYERS = 2
  NoSock = NoSock
  ChanBound = 2
SPECIFICATION FairSpec
CHECK_DEADLOCK FALSE
PROPERTY RosterRepaired

\* Violation: rosters in a lobby that clients leave while others join.
CONSTANTS
  Conns = {c1, c2, c3}
  MAX_PLAYERS = 2
  NoSock = NoSock
  ChanBound = 2
SPECIFICATION LobbySpec
CHECK_DEADLOCK FALSE
INVARIANT LobbyRosterSynchronised

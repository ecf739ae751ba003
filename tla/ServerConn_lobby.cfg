\* The lobby before the first game: three clients compete for two slots, and
\* there is room for every packet.
CONSTANTS
  Conns = {c1, c2, c3}
  MAX_PLAYERS = 2
  NoSock = NoSock
  ChanBound = 3
SPECIFICATION FairLobby
CHECK_DEADLOCK FALSE
INVARIANTS
  TypeOK
  AcceptIntoFreeSlot
  ReaderOwnsSocket
  NeverToldOfItself
  LobbyRosterExact
PROPERTIES
  ImplementsTable
  ServedOrFull

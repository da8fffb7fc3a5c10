SPECIFICATION FairSpec
CONSTANTS
  Workers = {w1, w2}
  Capacity = 2
  MaxConnections = 4
  NoConnection = NoConnection
INVARIANTS
  SocketOwnedOnce
  FreedUnused
PROPERTIES
  RingIsLine
  ConnectionsClose
  StopCompletes
  QueueExpires

SPECIFICATION ServerSpec
CONSTANTS
  Connections = {1, 2, 3}
  Games = {g1, g2}
  Scenes <- SmallScenes
INVARIANTS
  SafeStaysSafe
  SocketsAreAccounted
  NothingAfterRedis
PROPERTIES
  ShutdownEnds
CHECK_DEADLOCK FALSE

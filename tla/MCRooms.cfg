SPECIFICATION RoomsSpec
CONSTANTS
  p1 = p1
  p2 = p2
  a1 = a1
  a2 = a2
  b1 = b1
  k1 = k1
  Player = {p1, p2}
  Connection = {a1, a2, b1}
  First = {a1, b1}
  Owner <- OwnerOf
  Room = {1, 2}
  Code = {k1}
  CodeOf <- OneCode
  NoRoom = NoRoom
  NoCode = NoCode
  NoClient = NoClient
  RoomSize = 2
INVARIANTS
  MembershipAgrees
  PresenceAgrees
  GamesFollowRooms
PROPERTIES
  KeepsRegister
CHECK_DEADLOCK FALSE

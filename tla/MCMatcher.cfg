SPECIFICATION MCSpec
CONSTANTS
  Players = {p1, p2, p3}
  Links <- TwoLinks
  MaxAttempts = 2
  BotsEnabled = TRUE
  Operations = {"drain", "close"}
  OtherRooms = TRUE
INVARIANTS
  EverythingHasAnOwner
  NobodyIsLeftWaiting
PROPERTIES
  CancellationHolds
  DrainedStaysQuiet
SYMMETRY Alike
CHECK_DEADLOCK FALSE

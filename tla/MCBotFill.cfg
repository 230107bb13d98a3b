SPECIFICATION MCSpec
CONSTANTS
  Players = {p1, p2}
  Links <- OneLink
  MaxAttempts = 2
  BotsEnabled = TRUE
  Operations = {}
  OtherRooms = FALSE
INVARIANT BotFillIsArmed
CHECK_DEADLOCK FALSE

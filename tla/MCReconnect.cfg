SPECIFICATION ReconnectSpec
CONSTANTS
  Connection = {1, 2, 3}
  Devices <- SmallDevices
INVARIANTS
  TokensAreKept
  CommandersAreAlone
  RevokeIsFinal
PROPERTIES
  SpentForGood
CHECK_DEADLOCK FALSE

SPECIFICATION DeliverySpec
CONSTANTS
  Rank <- SmallRank
  Deck <- SmallDeck
  HandSize = 2
  Deals <- SmallDeals
  RandomSeats = {0}
  MaxRedeals = 2
  Me = 1
  Devices = {"terminal", "web", "bot"}
  MaxConnections = 2
  MaxMissed = 1
  MaxThoughts = 2
INVARIANTS
  WebAgrees
  TerminalShowsGame
  BotSeesItsTurn
PROPERTIES
  WatermarkNeverGoesBack
CHECK_DEADLOCK FALSE

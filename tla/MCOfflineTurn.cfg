SPECIFICATION SessionSpec
CONSTANTS
  Rank <- MCRank
  Deck <- MCDeck
  HandSize = 1
  RandomSeats = {0}
  MaxRedeals = 1
  Deals <- MCDeals
  Bots = {2}
  Flaky = {0, 1}
  MaxPending = 2
  MaxCommands = 2
  Takeover = FALSE
  StopMayBeLate = FALSE
CHECK_DEADLOCK FALSE
INVARIANT OfflineTurnIsBounded

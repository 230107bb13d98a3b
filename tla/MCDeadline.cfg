SPECIFICATION SessionSpec
CONSTANTS
  Rank <- MCRank
  Deck <- MCDeck
  HandSize = 1
  RandomSeats = {0}
  MaxRedeals = 1
  Deals <- MCDeals
  Bots = {1}
  Flaky = {0}
  MaxPending = 2
  MaxCommands = 2
  Takeover = FALSE
  StopMayBeLate = FALSE
CHECK_DEADLOCK FALSE
INVARIANT DeadlineIsAbsolute

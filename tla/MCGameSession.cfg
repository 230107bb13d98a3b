SPECIFICATION FairSessionSpec
CONSTANTS
  Rank <- MCRank
  Deck <- MCDeck
  HandSize = 1
  RandomSeats = {0}
  MaxRedeals = 1
  Deals <- MCDeals
  Bots = {1}
  Flaky = {0}
  MaxPending = 1
  MaxCommands = 1
  Takeover = TRUE
  StopMayBeLate = FALSE
CHECK_DEADLOCK FALSE
INVARIANTS
  TurnHasDriver
  LeaseReleasedOnceSettled
PROPERTIES
  SessionGetsOver
  PlaysLandlord
  MovesAreForThisTurn
  RetiredForGood

SPECIFICATION AuctionFairSpec
CONSTANTS
  Rank <- PlayRank
  Deck <- PlayDeck
  HandSize = 3
  Deals <- PlayDeals
  RandomSeats = {0, 1}
  MaxRedeals = 2
CHECK_DEADLOCK FALSE
INVARIANTS
  RoundShape
  CardsConserved
  TimeoutMoveAccepted
  SettlementIsFair
  AuctionIsFair
  LandlordAgrees
PROPERTIES
  GameEnds

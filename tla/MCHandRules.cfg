SPECIFICATION Spec
CONSTANTS
  Rank <- MCRank
  Deck <- MCDeck
CHECK_DEADLOCK FALSE
INVARIANTS
  RulesAreSound
  ResponsesAreRight

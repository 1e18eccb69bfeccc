SPECIFICATION Spec
CONSTANTS
  Deck <- AceDeck
  InitBalance = 5
  MaxRounds = 1
INVARIANT AceUnlessOver21

SPECIFICATION Spec
CONSTANTS
  Deck <- TinyDeck
  InitBalance = 5
  MaxRounds = 2
INVARIANTS TableOK RoundPays DrawsByRule StatusTellsPayout

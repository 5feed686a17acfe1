SPECIFICATION Spec
CONSTANTS
  Features = {}
  Vocabularies <- MCVocabularies
  MaxTokens = 6
  Alphabet <- MCAlphabet
  MaxLetters = 6
  MaxSymbols = 6
INVARIANT AcceptedIffWellFormed
INVARIANT WarningsAreRight
INVARIANT ExpressionsParseRight
INVARIANT LinesAreRight
CHECK_DEADLOCK FALSE

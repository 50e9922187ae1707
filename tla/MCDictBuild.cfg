CONSTANTS
  NumBytes = 6
  Base85 <- MCBase85
  MaxCodeLength = 3
  FreqBits = 4
  Frequencies <- MCFrequencies
  Corpora <- MCCorpora
  DefaultBook <- MCDefaultBook
  MaxRuns = 2
SPECIFICATION Spec
INVARIANTS
  TypeOK
  CodeSpaceIsFull
  LengthsAreOptimal
  DeepTreesTakeLongTexts
  LoadedBookWasBuilt
  ExitTellsTheFile
  BuiltBookIsUsable
PROPERTIES
  IsHuffmansAlgorithm

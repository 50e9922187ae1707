CONSTANTS
  NumBytes = 5
  Base85 <- MCBase85
  MaxCodeLength = 3
  WordBits = 3
  GroupBits = 2
  MaxGroups = 2
  NibbleBits = 2
  ByteBits = 4
  Books <- MCBooks
  Texts <- MCTexts
  Headers <- MCHeaders
  ForeignStreams <- MCForeignStreams
  ForeignCounts <- MCForeignCounts
SPECIFICATION Spec
INVARIANT EveryCodebookDecodes

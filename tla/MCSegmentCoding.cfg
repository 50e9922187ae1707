CONSTANTS
  WordBits = 8
  GroupBits = 2
  MaxGroups = 4
  NibbleBits = 2
  ByteBits = 6
  Digits <- MCDigits
  Lowers <- MCLowers
  Uppers <- MCUppers
  Syms <- MCSyms
  Others <- MCOthers
  LowerOf <- MCLowerOf
  HexVal <- MCHexVal
  HexUpper <- MCHexUpper
  HexBits = 3
  Utf8 <- MCUtf8
  Numeral <- MCNumeral
  PortText <- MCPortText
  PortBits = 1
  HttpPort = 0
  HttpsPort = 1
  Octets <- MCOctets
  MaxSymbols = 3
  MaxValueBits = 31
  HuffCode <- MCHuffCode
  Pieces <- MCPieces
  MaxPieces = 4
  Trails <- MCTrails
  Heads <- MCHeads
  MaxForeign = 11
SPECIFICATION CodingSpec
INVARIANTS
  SegmentRoundTrip
  ChosenFormIsSmallest
  ForeignSegmentIsWritable
CHECK_DEADLOCK FALSE

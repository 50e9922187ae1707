CONSTANTS
  Digits <- MCDigits
  Lowers <- MCLowers
  Uppers <- MCUppers
  Syms <- MCSyms
  Others <- MCOthers
  LowerOf <- MCLowerOf
  HexVal <- MCHexVal
  HexUpper <- MCHexUpper
  HexBits = 1
  Utf8 <- MCUtf8
  Numeral <- MCNumeral
  PortText <- MCPortText
  PortBits = 2
  HttpPort = 1
  HttpsPort = 2
  Octets <- MCOctets
  Openings <- MCOpenings
  Typed <- MCTyped
  MaxTyped = 3
  Blanks <- MCBlanks
SPECIFICATION ParsingSpec
INVARIANTS
  DisplayIsNormalForm
  DisplayParsesBack
  FieldsHoldNoDelimiter
  CorpusKeepsTheResource
CHECK_DEADLOCK FALSE

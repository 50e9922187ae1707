CONSTANTS
  WordBits = 16
  GroupBits = 3
  MaxGroups = 6
  NibbleBits = 2
  ByteBits = 6
  HexBits = 3
  PortBits = 3
  HttpPort = 1
  HttpsPort = 2
  Digits <- MCDigits
  Lowers <- MCLowers
  Uppers <- MCUppers
  Syms <- MCSyms
  Others <- MCOthers
  LowerOf <- MCLowerOf
  HexVal <- MCHexVal
  HexUpper <- MCHexUpper
  Utf8 <- MCUtf8
  Numeral <- MCNumeral
  PortText <- MCPortText
  Octets <- MCOctets
  HuffCode <- MCHuffCode
  ShortPorts <- MCShortPorts
  Tlds <- MCTlds
  Hosts <- MCHosts
  PathTokens <- MCPathTokens
  QueryKeys <- MCQueryKeys
  QueryValues <- MCQueryValues
  TldBits = 1
  HostBits = 1
  PathBits = 1
  KeyBits = 1
  ValueBits = 1
  MaxValueBits = 31
  DigitBits = 4
  MaxSymbols = 5
  MaxSegments = 3
  MaxHostTld = 5
  MaxPayload = 40
  Texts <- MCSampleTexts
  Fates = {"flipped"}
  Rounds = 1
  Streams = {}
SPECIFICATION Spec
INVARIANT FlipIsNoticed

CONSTANTS
  WordBits = 5
  GroupBits = 2
  MaxGroups = 3
  NibbleBits = 2
  ByteBits = 8
  MaxCalls = 3
  MaxForeign = 12
  Calls <- MCCalls
SPECIFICATION Spec
INVARIANTS
  TypeOK
  ReadsWhatWasWritten
  OnlyPaddingLeft
  ForeignCountsFitTheWord
  WriterVarintIsShortest
PROPERTY RefusedCallAddsNothing
CHECK_DEADLOCK FALSE

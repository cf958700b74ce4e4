SPECIFICATION ConsoleSpec
CONSTANTS
  NUL = NUL
  NULL = NULL
  NO = NO
  WORD = 64
  Call <- MCCall
  Number <- MCNumber
  Width <- MCWidth
  String <- MCString
  BUF = 8
  ARGS = 3
  ROW = 4
  PAGE = 8
  DEFAULT_END = 16
  Line <- MCLine
  Firmware <- MCFirmware
  LoadMsg <- MCLoadMsg
INVARIANTS
  StaysInBuffer
  BufferHoldsText
  NumbersReadBack
  SerialDelivers
  TokensAreFields
  LoopsCover
  StraysExplained
PROPERTIES
  PrintkReturns
  
\* The kernel halts.
CHECK_DEADLOCK FALSE

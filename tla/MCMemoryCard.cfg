SPECIFICATION MCSpec
CONSTANTS
  Slots = {0}
  Byte = {0, 1, 2, 3}
  Xor <- MCXor
  Access = 1
  CmdRead = 1
  CmdWrite = 2
  CmdGetId = 3
  AddrBytes = {0, 1}
  DataBytes = {1}
  AddrBase = 4
  SectorSize = 2
  NumSectors = 2
  IdLength = 2
  Formatted <- MCFormatted
INVARIANTS ExchangeIsFaithful FileHoldsSaved
PROPERTIES OnlyWholeWrites GoodMeansStored

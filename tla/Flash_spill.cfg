CONSTANTS
  ByteMax = 15
  MAGIC = 10
  Sector = 20
  Keys = {1, 2}
  Values <- MCPairs
  BitAnd <- MCAnd
  BitXor <- MCXor
  MaxCalls = 5
  MaxCuts = 0
  AddrMax = 23
  Base <- MCBase
  SectorSize <- MCSize
  PRIMARY = 2
  SECONDARY = 3
  Bits = {1}
  MaxLen = 4
  Parts = {"store"}
SPECIFICATION MCSpec
INVARIANT ReadsBack
CHECK_DEADLOCK FALSE

CONSTANTS
  ByteMax = 7
  MAGIC = 5
  Sector = 8
  Keys = {1}
  Values <- MCPairs
  BitAnd <- MCAnd
  BitXor <- MCXor
  MaxCalls = 4
  MaxCuts = 0
  AddrMax = 23
  Base <- MCBase
  SectorSize <- MCSize
  PRIMARY = 2
  SECONDARY = 3
  Bits = {1}
  MaxLen = 4
  Parts = {"store"}
SPECIFICATION MCSpec
PROPERTY CallsReturn
CHECK_DEADLOCK FALSE

CONSTANTS
  ByteMax = 15
  MAGIC = 10
  Sector = 16
  Keys = {1, 2}
  Values <- MCPairs
  BitAnd <- MCAnd
  BitXor <- MCXor
  MaxCalls = 4
  MaxCuts = 1
  AddrMax = 23
  Base <- MCBase
  SectorSize <- MCSize
  PRIMARY = 2
  SECONDARY = 3
  Bits = {1}
  MaxLen = 4
  Parts = {"store", "raw"}
SPECIFICATION MCSpec
INVARIANTS ReadsBack ProgramExact
PROPERTIES CallsReturn CutInAppend Confined
CHECK_DEADLOCK FALSE

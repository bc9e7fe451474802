CONSTANTS
  Tx = {"t1", "t2"}
  Rx = {"r1"}
  Buses = {"i1", "i2"}
  Streams = {"s0", "s1", "s2", "s3", "s4"}
  Default <- DefaultBinding
  Options <- Overrides
  Watched = {"s0", "s3"}
  StopBus = "i1"
  XferLen = 2
  MaxRead = 5
  MaxSent = 12
  Word = 16
  Ms = 3
  Periods = {0, 1, 2, 3}
  Waits = {0, 1, 2, 4, 5, 6}
  MaxAge = 20
  Clk = 63
  Chips <- MCChips
  EeMax = 7
  KV_MAGIC = 5
  KV_SIZE = 20
  EeKeys = {2, 3}
  EeValues <- TwoValues
  ByteXor <- ExclusiveOr
  MaxEeCalls = 4
  MaxEeCuts = 2
  Parts = {"uart_dma", "i2c_dma", "i2c", "sd", "time", "dividers", "eeprom"}
SPECIFICATION MCSpec
CHECK_DEADLOCK FALSE
INVARIANTS
  OwnWire
  NotCut
  IndexExact
  ReadExact
  OkIsDone
  CardFreed
  DelayLasts
  TimeoutLasts
  PeriodFits
PROPERTIES
  CallbackComes
  GivesUpRightly
  ImplementsStore

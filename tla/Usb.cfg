CONSTANTS
  RingSize = 3
  Packet = 2
  MaxByte = 3
  MaxReset = 1
  PacketSize = 2
  TxChunk = 4
  WriteLens = {4, 5}
  MaxPacket = 4
  Replies = {1, 4, 7}
  Codings = {"9600 7E2"}
SPECIFICATION MCSpec
CHECK_DEADLOCK FALSE
INVARIANTS InOrder FlowControl BusyIsLive OneInFlight WriteBoundary ConnectedIsTrue CodingWasAsked ReplyEnds
PROPERTY Reopens

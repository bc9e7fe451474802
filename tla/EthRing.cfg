CONSTANTS
  Frames = {"a", "b"}
  RX = 2
  TX = 2
  Stops = TRUE
SPECIFICATION MCSpec
INVARIANT CallbackDrains
PROPERTIES Implements Transmitted PolledDelivered

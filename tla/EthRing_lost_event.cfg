CONSTANTS
  Frames = {"a", "b"}
  RX = 2
  TX = 2
  Stops = FALSE
SPECIFICATION MCSpec
PROPERTIES CallbackDelivered

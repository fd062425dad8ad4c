SPECIFICATION Spec
CONSTANTS
  Commands = {"Simple", "SetMode", "Read", "Stop"}
  WaitsForAnswer = FALSE
  DiscPresent = TRUE
  Masks <- AllInts
  AckValues = {1, 7}
  MaxLba = 2
  PregapLba = 0
  DiscMaxLba = 1
  FifoLen = 1
  IrqDelay = 1
  DeferredDelay = 2
  HandshakeDelay = 1
  PendingDelays = {3}
  SeekDelay = 8
  ReadDelay1X = 7
  ReadDelay2X = 6
  FirstSectorFactor = 2
INVARIANTS  BusyUntilDelivered SecondNotStranded StreamAlive FifoIsAnnounced

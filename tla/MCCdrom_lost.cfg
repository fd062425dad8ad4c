SPECIFICATION Spec
CONSTANTS
  Commands = {"Simple", "Read"}
  WaitsForAnswer = TRUE
  DiscPresent = TRUE
  Masks <- AllInts
  AckValues = {7}
  MaxLba = 2
  PregapLba = 0
  DiscMaxLba = 1
  FifoLen = 1
  IrqDelay = 1
  DeferredDelay = 2
  HandshakeDelay = 1
  PendingDelays = {3}
  SeekDelay = 4
  ReadDelay1X = 6
  ReadDelay2X = 6
  FirstSectorFactor = 2
PROPERTY FirstResponseDelivered

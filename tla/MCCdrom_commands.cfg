SPECIFICATION FairSpec
CONSTANTS
  Commands = {"Simple", "Getloc", "Setloc", "Play", "Read", "TwoPart", "Stop", "Init", "Seek"}
  WaitsForAnswer = TRUE
  DiscPresent = FALSE
  Masks <- AllInts
  AckValues = {7}
  MaxLba = 1
  PregapLba = 0
  DiscMaxLba = 1
  FifoLen = 1
  IrqDelay = 1
  DeferredDelay = 2
  HandshakeDelay = 1
  PendingDelays = {3}
  SeekDelay = 7
  ReadDelay1X = 6
  ReadDelay2X = 6
  FirstSectorFactor = 2
PROPERTIES SecondAfterFirst SecondArrives

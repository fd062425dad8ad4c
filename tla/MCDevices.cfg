SPECIFICATION DeviceSpec
CONSTANTS
  Ports = {0, 1}
  Loaded = {1}
  PadLens = {3, 5}
  Irqs = {0, 2}
  CdIrq = 2
  MaxBudget = 2
  Counters = {0, 1, 2}
  Modes <- SomeModes
  Values = {3, 6}
  Targets = {0, 3}
  Top = 7
  W = 32
  Divider = 2
  Dotclocks = {3, 4}
  Den = 2
  Cps = 2
  Vis = 1
  Lines = 2
  VblLine = 1
  MaxElapsed = 15
  MaxLate = 1
INVARIANTS QuietWhenDeselected CardIsFresh OneIrqPerAck PadAnswerInRange
  ChainsAreExact 
PROPERTIES EnabledIsTaken  EnabledIrqFires

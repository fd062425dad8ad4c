SPECIFICATION FairSpec
CONSTANTS
  EventCount = 2
  MaxCycle = 4
  MaxAhead = 3
  Blocks <- LiveBlocks
  Kind <- LiveKind
  ExcVector = "vector"
  HBlankEvent = 0
  DmaEvent = 1
  IdleBudget = 2
  Overshoot = 1
  CycleCount = 1
  MaxCounter = 0
  CounterCap = 4
  Two32 = 8
  Two64 = 16

PROPERTY EventsAreServed

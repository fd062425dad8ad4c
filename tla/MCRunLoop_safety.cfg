SPECIFICATION Spec
CONSTANTS
  EventCount = 3
  MaxCycle = 4
  MaxAhead = 2
  Blocks <- SafetyBlocks
  Kind <- SafetyKind
  ExcVector = "vector"
  HBlankEvent = 1
  DmaEvent = 2
  IdleBudget = 2
  Overshoot = 1
  CycleCount = 1
  MaxCounter = 1
  CounterCap = 4
  Two32 = 8
  Two64 = 16
INVARIANTS CacheExact ServedInOneTick HBlankArmed
PROPERTY LeapsStopAtEvents

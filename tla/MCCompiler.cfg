SPECIFICATION CompilerSpec
CONSTANTS
  Parts = {"cache", "generator", "scan"}
  Pcs = {1, 2, 3}
  PageOf <- ThreePages
  Links <- ChainOfLinks
  Versions = {1, 2}
  CodeRoom = 2
  Gens = 2
  Epochs = 2
  WriteKinds = {"const", "bus", "var"}
  MaxCodeWrites = 2
  Pinned = {1}
  Sp = 1
  Slotted = {2}
  Plain = {3}
  V = 3
  Ram = {0}
  Io = 1
  IoVals = {2}
  Shown = {}
  Instructions <- SomeInstructions
  MaxContinuations = 1
  MaxInsns = 3
  Programs <- SomePrograms
  ScanRegs = {1, 2}
  MaxBack = 2
  GtePipeline = 5
INVARIANTS  BeliefsTrue Agrees 
PROPERTIES SuspectsAreChecked 
CHECK_DEADLOCK FALSE

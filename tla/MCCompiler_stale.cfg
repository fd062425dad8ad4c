SPECIFICATION CompilerSpec
CONSTANTS
  Parts = {"cache"}
  Pcs = {1, 2, 3}
  PageOf <- ThreePages
  Links <- ChainOfLinks
  Versions = {1, 2}
  CodeRoom = 5
  Gens = 8
  Epochs = 8
  WriteKinds = {"const"}
  MaxCodeWrites = 4
  Pinned = {1}
  Sp = 1
  Slotted = {2}
  Plain = {3}
  V = 3
  Ram = {0}
  Io = 1
  IoVals = {2}
  Shown = {}
  Instructions <- SomeInstructions
  MaxContinuations = 1
  MaxInsns = 3
  Programs <- SomePrograms
  ScanRegs = {1, 2}
  MaxBack = 2
  GtePipeline = 5
PROPERTY NoStaleStart
CHECK_DEADLOCK FALSE

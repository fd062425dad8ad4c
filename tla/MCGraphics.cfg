SPECIFICATION GraphicsSpec
CONSTANTS
  Stages = {"stream", "texture", "gs"}
  GpuCommands <- SomeCommands
  GpuPages = {0, 1}
  FullW = 4
  FullH = 3
  MaxPackets = 2
  GpuShown = {}
  VramBlocks = {1, 2}
  TexSlots = {"p4", "p8"}
  SlotRows <- TwoRows
  SlotPage <- OnePage
  TexRegions <- SomeRegions
  TexCopies <- SomeCopies
  PackWords = 2
  MaxGen = 2
  TexShown = {}
  GsSlots = {"p4", "p8", "d"}
  HwSlots = {"p4", "p8"}
  GsPage <- TwoPages
  Cluts = {"c1", "c2"}
  WrittenCluts = {"c1"}
  GsPrims <- SomePrims
  DrawModes <- TwoModes
  BatchMax = 2
  BatchSubs = 2
  GsShown = {}
INVARIANTS    DrawnAsCommanded

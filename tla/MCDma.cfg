SPECIFICATION FairSpec
CONSTANTS
  Channels = {2, 4, 6}
  Gpu = 2
  Spu = 4
  Otc = 6
  ChannelSets <- SomeSets
  SpuDelays = {1, 3}
  MaxAhead = 2
INVARIANTS PendingIffScheduled MasterFlagExact FallbackNotLate
PROPERTIES RiseIsSignalled PendingCompletes

CONSTANTS
  NumStreams = 2
  NumEntries = 3
  Tags <- MCTags
  Triggers = {80}
  Counts = {0, 1, 5}
  BucketOf <- MCBucketOf
  SidBound = 3
  TabBound = 3
  Clients = {"any", "sendHello", "tadma_prog"}
  Configs <- MCConfigs
  Pads = {0, 1}
SPECIFICATION CSpec
INVARIANTS IndicesInRange SameTagSameRing ConfigInForce FittingConfigAccepted

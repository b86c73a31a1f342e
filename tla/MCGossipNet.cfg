SPECIFICATION FairSpec
CONSTANTS
  a = a
  b = b
  c = c
  Nodes = {a, b, c}
  BootstrapPeers <- Ring
  MaxTimestamp = 2
  MaxFaults = 1
CHECK_DEADLOCK FALSE
INVARIANTS TypeOK RecordsFollowBootstrap
PROPERTIES Discovery FloodEnds

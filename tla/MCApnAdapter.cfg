SPECIFICATION FairSpec
CONSTANTS
  d1 = d1
  d2 = d2
  g1 = g1
  g2 = g2
  Devices <- MCDevices
  Callers <- MCCallers
  Drives <- MCDrives
  Capacity = 1
  Wrap = 2
  NoSession = NoSession
INVARIANTS TypeOK LogAccountedFor
PROPERTIES TerminationLogged ImplementsFeed

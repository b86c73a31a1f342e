SPECIFICATION Spec
CONSTANTS
  Candidate = 5
  MaxExits = 2
  Servers <- MCServers
  Own = 0
  Jurisdictions = {a, b}
  NoJurisdiction = NoJurisdiction
  Networks <- MCNetworks
  MinHops = 3
  MaxHops = 5
  MinNetworkSize = 3
  MinJurisdictions = 3
  PoolSize = 3
SYMMETRY Symmetry
CHECK_DEADLOCK FALSE
INVARIANTS TypeOK CircuitWellFormed RelaxedOnlyWhenForced FailsForWantOfExit

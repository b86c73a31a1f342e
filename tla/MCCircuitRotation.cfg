SPECIFICATION FairSpec
CONSTANTS
  a = a
  b = b
  c = c
  ka = ka
  kb = kb
  bad = bad
  none = none
  WGKeys = {ka, kb, bad, none}
  InvalidKeys = {bad}
  ShortKeys = {none}
  Configured = {ka, kb}
  Devices = {d1, d2}
  Tokens = {1, 2, 3, 4, 5}
  Servers = {a, b, c}
  AddressOf <- MCAddressOf
  HopSets <- MCHopSets
  NoCircuit = NoCircuit
  MaxFailures = 1
  MaxExpiries = 2
  MaxSessions = 2
CHECK_DEADLOCK FALSE
INVARIANTS TypeOK IndexConsistent OldCircuitGone
PROPERTY DueCircuitReplaced

SPECIFICATION Spec
CONSTANTS
  a = a
  b = b
  c = c
  ka = ka
  kb = kb
  bad = bad
  none = none
  WGKeys = {ka, kb, bad, none}
  InvalidKeys = {}
  ShortKeys = {}
  Configured = {}
  Devices = {d1}
  Tokens = {1, 2, 3, 4, 5}
  Servers = {a, b, c}
  AddressOf <- DocumentedAddressOf
  HopSets <- MCHopSets
  NoCircuit = NoCircuit
  MaxFailures = 0
  MaxExpiries = 2
  MaxSessions = 2
CHECK_DEADLOCK FALSE
PROPERTY PeersAddedWithCircuit

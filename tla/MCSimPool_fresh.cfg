SPECIFICATION FreshSpec
CONSTANTS
  SIMs = {s1, s2, s3, s4}
  Tokens = {t1, t2}
  NoSession = NoSession
  NoSIM = NoSIM
  MinActiveCount = 2
  ActiveShare = 1
  DrainSlots = {1}
  MaxOutages = 2
SYMMETRY Symmetry
INVARIANTS SessionOwnsSIM NoLeakedSIM
PROPERTIES ImplementsLease RotationRefills

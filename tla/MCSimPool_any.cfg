SPECIFICATION Spec
CONSTANTS
  SIMs = {s1, s2, s3, s4}
  Tokens = {t1}
  NoSession = NoSession
  NoSIM = NoSIM
  MinActiveCount = 2
  ActiveShare = 1
  DrainSlots = {1, 2}
  MaxOutages = 1
SYMMETRY Symmetry
INVARIANTS TypeOK SessionOwnsSIM ActiveFloor BusySIMIsActive

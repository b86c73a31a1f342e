SPECIFICATION Spec
CONSTANTS
  SIMs = {s1, s2, s3}
  Tokens = {t1}
  NoSession = NoSession
  NoSIM = NoSIM
  MinActiveCount = 2
  ActiveShare = 1
  DrainSlots = {1}
  MaxOutages = 1
SYMMETRY Symmetry
INVARIANT FailedSIMExcluded

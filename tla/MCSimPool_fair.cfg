SPECIFICATION FairSpec
CONSTANTS
  SIMs = {s1, s2}
  Tokens = {t1, t2}
  NoSession = NoSession
  NoSIM = NoSIM
  MinActiveCount = 1
  ActiveShare = 1
  DrainSlots = {1}
  MaxOutages = 2
PROPERTIES UnavailableRecovers ExhaustionEnds

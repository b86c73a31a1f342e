SPECIFICATION Spec
CONSTANTS
  Servers = {self, a}
  Self = self
  Handlers = {h1, h2}
  TicksPerSecond = 2
  LivenessTimeout = 1
  RecordExpiry = 2
  MaxCheckGap = 2
  MaxTime = 6
SYMMETRY Symmetry
INVARIANTS TypeOK ForwardedOnce ListedIsLive
PROPERTY NoResurrection

SPECIFICATION FairSpec
CONSTANTS
  Call = {c1}
  Frame <- MCFrame
  MaxFrames = 2
  SegMax = 2
  Secret = {k1, k2}
  None = None
  MaxCrashes = 1
  MaxTaps = 1
  MaxDrops = 1
INVARIANTS TypeOK MessagesPlay ClosedOnce
PROPERTIES SpokenIsStored LimitEndsTheCall MessageIsShown
CHECK_DEADLOCK FALSE

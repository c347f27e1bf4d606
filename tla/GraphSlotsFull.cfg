SPECIFICATION FairSpec
CONSTANTS
  Callers = {c1}
  Syncs = {s1}
  Rotations = {g1}
  SyncKinds = {"full"}
  MaxHigh = 2
  MaxLow = 1
  MaxTotal = 3
  SlowPages = FALSE
PROPERTIES SyncEnds

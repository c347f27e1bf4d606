SPECIFICATION Spec
CONSTANTS
  Callers = {c1, c2, c3}
  Syncs = {s1}
  Rotations = {g1, g2}
  SyncKinds = {"light", "full"}
  MaxHigh = 2
  MaxLow = 1
  MaxTotal = 3
  SlowPages = TRUE
INVARIANTS Counted Limits HighWaitsForHigh
PROPERTIES LowYields

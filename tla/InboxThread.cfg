SPECIFICATION MCSpec
CHECK_DEADLOCK FALSE
SYMMETRY Symmetry
CONSTANTS
  a = a
  b = b
  h = h
  g = g
  s = s
  y = y
  u1 = u1
  u2 = u2
  Texts = {t1, t2}
  MaxMsgs = 3
  MaxRows = 4
  Hooks = {h1}
  Senders = {s1, s2}
  Syncs = {}
  Staff = {}
  StaffLabels = {L1, L2}
  StatusLabels = {F1}
  Window = 3
  Words <- AnyWords
  Does = {"customer", "send"}
  Faults = {"reorder"}
INVARIANTS OneRowPerMessage RepliesTold EachInOrder EachSeenInOrder ClaimKept
PROPERTY StatusKept

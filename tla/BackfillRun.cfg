SPECIFICATION MCSpec
CONSTANTS
  u1 = u1
  u2 = u2
  r1 = r1
  j1 = j1
  p1 = p1
  p2 = p2
  t1 = t1
  NoJob = NoJob
  NoPage = NoPage
  Worker = Worker
  Users = {u1, u2}
  Tenants = {t1}
  TenantOf <- OneTenant
  Ops <- StartOrPause
  Jobs = {j1}
  Pages = {p1, p2}
  Instances = {"worker", "inline"}
  Inline = {}
  MaxQueue = 1
  Redis = TRUE
  Faults = {"page error", "push error", "restart"}
INVARIANTS SavedWasScanned CompletedCoversAll
PROPERTIES RunReturns

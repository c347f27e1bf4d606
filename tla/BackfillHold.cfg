SPECIFICATION MCSpec
CONSTANTS
  u1 = u1
  u2 = u2
  r1 = r1
  j1 = j1
  p1 = p1
  p2 = p2
  t1 = t1
  NoJob = NoJob
  NoPage = NoPage
  Worker = Worker
  Users = {u1}
  Tenants = {t1}
  TenantOf <- OneTenant
  Ops <- StartPause
  Jobs = {j1}
  Pages = {p1, p2}
  Instances = {"worker"}
  Inline = {}
  MaxQueue = 2
  Redis = TRUE
  Faults = {}
PROPERTIES PauseHolds

SPECIFICATION Spec
CONSTANTS
  u1 = u1
  u2 = u2
  j1 = j1
  j2 = j2
  j3 = j3
  t1 = t1
  t2 = t2
  NoJob = NoJob
  Cron = Cron
  Worker = Worker
  Jobs = {j1, j2}
  Users = {u1}
  Tenants = {t1}
  TenantOf <- OneTenant
  Ops <- OnlyAskAndForce
  CronPages = 1
  Concurrency = 1
  MaxConv = 0
  Faults = {}
SYMMETRY JobSymmetry
INVARIANTS OneActivePerTenant

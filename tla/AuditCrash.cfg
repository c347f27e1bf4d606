SPECIFICATION Spec
CONSTANTS
  u1 = u1
  u2 = u2
  j1 = j1
  j2 = j2
  j3 = j3
  t1 = t1
  t2 = t2
  NoJob = NoJob
  Cron = Cron
  Worker = Worker
  Jobs = {j1, j2}
  Users = {u1}
  Tenants = {t1}
  TenantOf <- OneTenant
  Ops <- OnlyAskAndPoll
  CronPages = 1
  Concurrency = 1
  MaxConv = 0
  Faults = {"aging", "boot error", "crash api", "crash worker", "loop error", "redis api", "run error"}
SYMMETRY JobSymmetry
INVARIANTS RunningHasRunner
PROPERTIES NoRevivalAfterRun

SPECIFICATION FairSpec
CONSTANTS
  u1 = u1
  u2 = u2
  j1 = j1
  j2 = j2
  j3 = j3
  t1 = t1
  t2 = t2
  NoJob = NoJob
  Cron = Cron
  Worker = Worker
  Jobs = {j1}
  Users = {u1, u2}
  Tenants = {t1}
  TenantOf <- OneTenant
  Ops <- AskAndPause
  CronPages = 0
  Concurrency = 2
  MaxConv = 2
  Faults = {"run error", "redis api"}
INVARIANTS OneRunner DoneMeansAllScored PausedOnlyWhenAsked
PROPERTIES QueuedLeaves RunEnds

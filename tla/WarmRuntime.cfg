\* Three calls for at most two models, room for one warm process, one restart for
\* each runtime and one process that dies by itself.
SPECIFICATION LiveSpec
CONSTANTS
  t1 = t1
  t2 = t2
  t3 = t3
  m1 = m1
  m2 = m2
  Threads = {t1, t2, t3}
  Models = {m1, m2}
  Workloads <- MCWorkloads
  MaxModels = 1
  MaxRestarts = 1
  MaxDeaths = 1
  None = None
INVARIANTS
  PoolIsSound
  LockHoldersGoOn
PROPERTIES
  ServerSpec
  EveryCallEnds
\* All calls answered is the end.
CHECK_DEADLOCK FALSE

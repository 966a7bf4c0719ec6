\* Three threads of one process, one of another, one universal request.
SPECIFICATION LiveSpec
CONSTANTS
  p1 = p1
  p2 = p2
  r1 = r1
  r2 = r2
  r3 = r3
  r4 = r4
  r5 = r5
  Procs = {p1, p2}
  Reqs = {r1, r2, r3, r4, r5}
  ProcOf <- ThreeAndOne
  Universal = {r5}
  MaxTimeouts = 1
  MaxFailures = 1
  MaxOutages = 1
  MaxExpiries = 1
  None = None
INVARIANTS
  LockHeldByActor
  OneLeaderPerProcess
  FallbackAfterItsLeader
PROPERTIES
  EveryRequestEnds
\* When every request was answered nothing is left to do.
CHECK_DEADLOCK FALSE

\* One deployment, two faults, a lock that one build outlives, and fairness.
SPECIFICATION LiveSpec
CONSTANTS
  Deps = {d1}
  v1 = v1
  Versions = {v1}
  VersionOf <- OneVersion
  Handlers = {h1}
  Workers = {w1, w2}
  MaxRetries = 1
  MaxFaults = 2
  MaxSlow = 1
  None = None
INVARIANTS
  TypeOK
  OneBuildAtATime
PROPERTIES
  SettlesWithoutFaults
  BuildingResolves
  LockIsReleased
\* A deployment that ended, with nobody left to ask for it, is the end.
CHECK_DEADLOCK FALSE

\* Two requests at a time, no crash: every interleaving of handlers, workers and reaper.
SPECIFICATION Spec
CONSTANTS
  Deps = {d1, d2}
  v1 = v1
  Versions = {v1}
  VersionOf <- OneVersion
  Handlers = {h1, h2}
  Workers = {w1, w2}
  MaxRetries = 1
  MaxFaults = 0
  MaxSlow = 0
  None = None
SYMMETRY Symmetry
INVARIANTS
  AtMostOneActive
  UnfinishedHasOwner
  RunningLosesEnvToOthersOnly
PROPERTIES
  LifecycleSpec
\* The client may stop sending requests.
CHECK_DEADLOCK FALSE

\* One deployment, one client request, one worker, no fault, no retry.
SPECIFICATION Spec
CONSTANTS
  Deps = {d1}
  v1 = v1
  Versions = {v1}
  VersionOf <- OneVersion
  Handlers = {h1}
  Workers = {w1}
  MaxRetries = 0
  MaxFaults = 0
  MaxSlow = 0
  None = None
PROPERTIES
  CleanupKeepsTerminal
CHECK_DEADLOCK FALSE

\* Two requests whose downloads overlap, no crash.
SPECIFICATION Spec
CONSTANTS
  Reqs = {r1, r2}
  Files = {yaml, weights}
  Manifest = yaml
  MaxBuilds = 1
  MaxPredictions = 1
  MaxCrashes = 0
  Old = Old
  None = None
INVARIANTS
  MarkedIsComplete
CHECK_DEADLOCK FALSE

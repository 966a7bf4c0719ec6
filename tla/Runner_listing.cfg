\* One request, whose download lists less than the bundle.
SPECIFICATION Spec
CONSTANTS
  Reqs = {r1}
  Files = {yaml, weights}
  Manifest = yaml
  MaxBuilds = 1
  MaxPredictions = 1
  MaxCrashes = 0
  Old = Old
  None = None
INVARIANTS
  ReusedIsWhole
CHECK_DEADLOCK FALSE

\* Two uploads of a version, one of which fails, and a third request.
SPECIFICATION Spec
CONSTANTS
  m1 = m1
  m2 = m2
  r1 = r1
  r2 = r2
  r3 = r3
  f1 = f1
  f2 = f2
  d1 = d1
  Models = {m1, m2}
  Seeded = {m1}
  Seed = Seed
  Reqs = {r1, r2, r3}
  Files = {f1, f2}
  Deps = {d1}
  MaxNumber = 3
  MaxFailures = 1
  MaxOutages = 1
  MaxCrashes = 1
  None = None
PROPERTIES
  CleanupKeepsOthers
CHECK_DEADLOCK FALSE

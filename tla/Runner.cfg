\* Three requests of any kind, one crash, marks that age; a bundle of two files, any of
\* which the bucket may fail to list.
SPECIFICATION Spec
CONSTANTS
  Reqs = {r1, r2, r3}
  Files = {yaml, weights}
  Manifest = yaml
  MaxBuilds = 1
  MaxPredictions = 1
  MaxCrashes = 1
  Old = Old
  None = None
SYMMETRY Symmetry
VIEW View
INVARIANTS
  SlotsMatchHolders
  SoloDownloadsAreWhole
  BuildsDontInterfere
  NobodyWaitsForever
PROPERTIES
  RequestsMoveOn
  PublishedWhole
\* All requests answered is the end.
CHECK_DEADLOCK FALSE

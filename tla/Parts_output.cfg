\* A command that goes on writing after its budget is full.
SPECIFICATION Spec
CONSTANTS
  InputSize = 6
  PipeSize = 2
  OutputCap = 2
  MaxOutput = 4
  yaml = yaml
  dotYaml = dotYaml
  code = code
  codeWeights = codeWeights
  outside = outside
  Paths <- MCPaths
  Parent <- MCParent
  Normal <- MCNormal
  Yaml = yaml
  Archives <- MCArchives
  Manifests <- MCManifests
  MaxEntries = 2
  MaxEntry = 2
  MaxTotal = 3
  MaxRatio = 2
  Rejected = Rejected
  Top = Top
  LogKinds <- MCLogKinds
  MaxLogs = 3
  SampleSize = 2
  Null = Null
  Requests = {r1, r2, r3}
  Universal = {k1}
  OfModel = {k2}
  Users = {u1, u2}
  Models = {m1}
  Nobody = Nobody
INVARIANTS
  OutputIsCapped
\* A command, an upload and a request end.
CHECK_DEADLOCK FALSE

\* A retry reads the run, the run is cancelled, the retry commits.
CONSTANTS
  a = a
  b = b
  c = c
  d = d
  r1 = r1
  r2 = r2
  x = x
  w = w
  NoStep = NoStep
  Steps = {a, b}
  Deps <- ApartDeps
  Runs = {r1}
  RunOf <- OneRun
  Scopes = {x}
  ScopeOf <- OneScope
  Group <- PairGroups
  GpuSteps = {}
  JobIds = {1, 2}
  Reconcilers = {w}
  MaxAttempts = 1
  MaxStranded = 1
  MaxActive = 3
  Outcomes = {"ok", "permanent"}
  Faults <- RetryCancelFaults
SPECIFICATION Spec
INVARIANTS
  StoppedRunIsQuiet
CHECK_DEADLOCK FALSE

\* Cancels, supersedes and a manual retry against two runs.
CONSTANTS
  a = a
  b = b
  c = c
  d = d
  r1 = r1
  r2 = r2
  x = x
  w = w
  NoStep = NoStep
  Steps = {a, b, c}
  Deps <- TwoRunDeps
  Runs = {r1, r2}
  RunOf <- TwoRuns
  Scopes = {x}
  ScopeOf <- OneScope
  Group <- OwnGroups
  GpuSteps = {}
  JobIds = {1, 2, 3}
  Reconcilers = {w}
  MaxAttempts = 1
  MaxStranded = 1
  MaxActive = 3
  Outcomes = {"ok", "transient"}
  Faults <- RequestFaults
SPECIFICATION Spec
INVARIANTS
  DepsBeforeRun
  QueuedHasJob
PROPERTIES
  CanceledStaysCanceled
CHECK_DEADLOCK FALSE

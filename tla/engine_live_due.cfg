\* One step and one fault of every kind but a request.
CONSTANTS
  a = a
  b = b
  c = c
  d = d
  r1 = r1
  r2 = r2
  x = x
  w = w
  NoStep = NoStep
  Steps = {a}
  Deps <- SoloDeps
  Runs = {r1}
  RunOf <- OneRun
  Scopes = {x}
  ScopeOf <- OneScope
  Group <- OneGroup
  GpuSteps = {}
  JobIds = {1, 2}
  Reconcilers = {w}
  MaxAttempts = 2
  MaxStranded = 4
  MaxActive = 3
  Outcomes = {"ok", "permanent", "transient"}
  Faults <- DueFaults
SPECIFICATION FairSpec
PROPERTIES
  DueStepsFinish
CHECK_DEADLOCK FALSE

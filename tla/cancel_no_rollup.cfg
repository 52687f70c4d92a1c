\* The last open step of a run is cancelled.
CONSTANTS
  a = a
  b = b
  c = c
  d = d
  r1 = r1
  r2 = r2
  x = x
  w = w
  NoStep = NoStep
  Steps = {a}
  Deps <- SoloDeps
  Runs = {r1}
  RunOf <- OneRun
  Scopes = {x}
  ScopeOf <- OneScope
  Group <- OneGroup
  GpuSteps = {}
  JobIds = {1, 2}
  Reconcilers = {w}
  MaxAttempts = 2
  MaxStranded = 1
  MaxActive = 3
  Outcomes = {"ok"}
  Faults <- CancelFaults
SPECIFICATION FairSpec
PROPERTIES
  TerminalRunRollsUp
CHECK_DEADLOCK FALSE

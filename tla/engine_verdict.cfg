\* Cancels, crashes and failures, no retry: what the mark of a run says.
CONSTANTS
  a = a
  b = b
  c = c
  d = d
  r1 = r1
  r2 = r2
  x = x
  w = w
  NoStep = NoStep
  Steps = {a, b, c}
  Deps <- FreeDeps
  Runs = {r1, r2}
  RunOf <- TwoRuns
  Scopes = {x}
  ScopeOf <- OneScope
  Group <- OwnGroups
  GpuSteps = {}
  JobIds = {1, 2, 3}
  Reconcilers = {w}
  MaxAttempts = 1
  MaxStranded = 1
  MaxActive = 2
  Outcomes = {"ok", "permanent"}
  Faults <- VerdictFaults
SPECIFICATION Spec
INVARIANTS
  RunVerdictSound
  StoppedRunIsQuiet
  QuotaRespected
CHECK_DEADLOCK FALSE

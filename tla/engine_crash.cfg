\* A crash, a stalled heartbeat and a failed or lost write while two steps, one
\* of which may run out of GPU memory, are joined by a third.
CONSTANTS
  a = a
  b = b
  c = c
  d = d
  r1 = r1
  r2 = r2
  x = x
  w = w
  NoStep = NoStep
  Steps = {a, b, c}
  Deps <- JoinDeps
  Runs = {r1}
  RunOf <- OneRun
  Scopes = {x}
  ScopeOf <- OneScope
  Group <- OwnGroups
  GpuSteps = {a}
  JobIds = {1, 2}
  Reconcilers = {w}
  MaxAttempts = 2
  MaxStranded = 1
  MaxActive = 3
  Outcomes = {"ok", "oom"}
  Faults <- CrashFaults
SPECIFICATION Spec
INVARIANTS
  TypeOK
  FencedOwnership
  FanInSound
PROPERTIES
  ImplementsLifecycle
CHECK_DEADLOCK FALSE

\* A broken lock connection, a failing call, a crash, a gpu_oom and an unload
\* job with two workers.
CONSTANTS
  p1 = p1
  p2 = p2
  j1 = j1
  j2 = j2
  j3 = j3
  j4 = j4
  m1 = m1
  m2 = m2
  b1 = b1
  b2 = b2
  None = None
  Procs = {p1, p2}
  Jobs = {j1, j2, j4}
  Models = {m1, m2}
  Backends = {b1, b2}
  Target <- OneEach
  BackendOf <- OwnBackends
  MaxSnoozes = 1
  Faults <- SlotFaults
SPECIFICATION SlotSpec
INVARIANTS
  TypeOK
  SlotSafe

  
CHECK_DEADLOCK FALSE

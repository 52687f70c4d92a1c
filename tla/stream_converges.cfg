\* A lost LISTEN connection and a lost NOTIFY on streams that end.
CONSTANTS
  a = a
  Steps = {a}
  MaxVersion = 3
  QueueSize = 1
  OutSize = 1
  Faults <- StreamFaults
SPECIFICATION LifetimeSpec
PROPERTIES
  ViewConverges
CHECK_DEADLOCK FALSE

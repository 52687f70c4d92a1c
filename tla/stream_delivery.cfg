\* A slow client, a transition queue of one, events out of order, a lost NOTIFY.
CONSTANTS
  a = a
  Steps = {a}
  MaxVersion = 4
  QueueSize = 1
  OutSize = 1
  Faults <- PublishFaults
SPECIFICATION DeliverySpec
INVARIANTS
  StreamSafe
PROPERTIES
  EventsNeverRollBack
  NoTransitionLost
CHECK_DEADLOCK FALSE

SPECIFICATION Spec
CONSTANTS
  k1 = k1
  k2 = k2
  poll = poll
  Keyboards = {k1}
  Polling = poll
  Window = 0
  QueueCapacity = 2
  MaxWire = 2
  Faults = {"focus"}
INVARIANTS
  FocusResetsBinding
CHECK_DEADLOCK FALSE

SPECIFICATION FairSpec
CONSTANTS
  k1 = k1
  k2 = k2
  poll = poll
  Keyboards = {k1, k2}
  Polling = poll
  Window = 1
  QueueCapacity = 1
  MaxWire = 2
  Faults = {"focus", "pump", "pause"}
INVARIANTS
  TypeOK
  TrackerConsistent
  NotStuckDown
  NoPressForgotten
PROPERTIES
  MirrorsCannotBypass
  LetGoInTheEnd
CHECK_DEADLOCK FALSE

SPECIFICATION FairSpec
CONSTANTS
  old = old
  new = new
  NoKey = none
  Keys = {old, new}
  Capacity = 1
  Attempts = 3
  MaxPlays = 2
  MaxLaunches = 2
INVARIANTS
  TypeOK
  GuestPlaysStayLocal
  NoOldKey
  StatusTruthful
PROPERTIES
  OldKeyStaysGone
  UploadsSettle
CHECK_DEADLOCK FALSE

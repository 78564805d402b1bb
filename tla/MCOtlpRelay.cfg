CONSTANTS
  Exports = {e1, e2, e3}
  ChanCap = 1
  MaxAttempts = 2
SPECIFICATION FairSpec
INVARIANTS AcceptedAccounted SnapshotsAddUp
PROPERTIES Returns
CHECK_DEADLOCK FALSE

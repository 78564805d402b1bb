CONSTANTS
  rpc = rpc  logs = logs
  Kinds = {rpc, logs}
  DrainOrder <- TwoKinds
  OutCap = 1
  BufCap = 2
  MaxAttempts = 2
  Outcomes = {"acked", "unacked"}
  MaxItems <- Uneven
SPECIFICATION FairSpec
INVARIANTS TypeOK Accounted InOrder
PROPERTIES ImplementsFifo Returns Settles
CHECK_DEADLOCK FALSE

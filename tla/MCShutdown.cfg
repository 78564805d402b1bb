CONSTANTS
  rpc = rpc  logs = logs
  Kinds = {rpc}
  DrainOrder <- OneKind
  OutCap = 1
  BufCap = 2
  MaxAttempts = 2
  Outcomes = {"acked"}
  MaxItems <- Uneven
SPECIFICATION Spec
INVARIANTS ShutdownSendsBuffered
CHECK_DEADLOCK FALSE

\* Overlapping requests of one address over time: bans, sweeps, the limiter.
CONSTANTS
  v1 = v1  v2 = v2  good = good  other = other  bad = bad
  Reqs = {r1, r2, r3, r4, r5}
  IPs = {ip1}
  Tokens = {good, bad}
  Configs <- MCOneConfig
  Payloads <- MCAuthCheckOnly
  BanThreshold = 2
  BanDuration = 1
  MaxInFlight = 2
  MaxTime = 4
  Rps = 1
  Burst = 1
SPECIFICATION Spec
SYMMETRY ReqSymmetry
INVARIANTS BanJustified FailuresBounded GuessesBounded RecordsFreshAtCleanup RateBound
PROPERTIES ForgetsOnlyStaleOrAccepted
CHECK_DEADLOCK FALSE

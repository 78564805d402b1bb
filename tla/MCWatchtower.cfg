\* The whole request path: reloads, the limiter, payloads of two kinds and the probe of
\* auth_check.
CONSTANTS
  v1 = v1  v2 = v2  good = good  other = other  bad = bad
  Reqs = {r1, r2}
  IPs = {ip1}
  Tokens = {good, other}
  Configs <- MCConfigs
  Payloads <- MCPayloads
  BanThreshold = 1
  BanDuration = 1
  MaxInFlight = 2
  MaxTime = 1
  Rps = 1
  Burst = 1
SPECIFICATION Spec
SYMMETRY ReqSymmetry
INVARIANTS AuthTypeOK ServedUnderLoadedConfig StoredAsPermitted AckedIsStored CountsMatchAnswers
CHECK_DEADLOCK FALSE

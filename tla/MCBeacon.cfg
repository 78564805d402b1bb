\* Two sentinels at once, one of them perhaps not authorized; a channel of one,
\* so that it can be full when the listener is closed; time for a forced
\* augmentation.
CONSTANTS
  Conns = {c1, c2}
  PeerKeys = {k1, k2}
  AuthorizedKeys = {k1}
  ResultsCap = 1
  Bodies <- SomeBodies
  SentryKeys = {"sentry_status"}
  ForceInterval = 1
  MaxTime = 1
SPECIFICATION FairSpec
INVARIANTS Transparent AugmentsWhenDue
PROPERTIES BeaconReturns
CHECK_DEADLOCK FALSE

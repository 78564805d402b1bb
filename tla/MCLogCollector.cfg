\* Two lines, read up to twice, a channel of two and batches of two: filtering, both flushes,
\* one reconnection that reads lines again, cancellation anywhere.
CONSTANTS
  Kinds = {"blank", "oversized", "raw", "debug", "error"}
  MinLevel = 1
  BatchSize = 2
  ChanCap = 2
  Lookback = 1
  MaxLines = 2
  MaxConnects = 2
  MaxStreamEnds = 1
  MaxTime = 2
SPECIFICATION FairSpec
INVARIANTS LinesInOrder
PROPERTIES LinesEmitted RunReturns
CHECK_DEADLOCK FALSE

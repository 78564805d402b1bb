\* Two payloads, of one validator or two, posted in any order up to two ticks
\* late; lookback and clock-skew windows shorter than the run.
CONSTANTS
  Word = 8
  Validators = {1, 2}
  RpcAnswers <- Answers
  MetricsData <- Metrics
  Batches <- TwoLines
  Lookback = 2
  PastSkew = 2
  FutureSkew = 1
  MaxPayloads = 2
  MaxTime = 2
SPECIFICATION Spec
INVARIANTS OnlineAsPolled SetNeverPartial WorkingSetBounded PushOrdered
CHECK_DEADLOCK FALSE

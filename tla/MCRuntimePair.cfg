SPECIFICATION Spec
CONSTANTS
  NumBlocks = 2
  NumTimers = 1
  NumSignals = 1
  Producer <- PairProducer
  Consumers <- PairConsumers
  Values = {0}
  NoValue = NoValue
  r1 = r1
  r2 = r2
  Revisions = {r1, r2}
  SourceBytes <- SourceSizes
  MaxBlockTimers = 1
  MaxTotalTimers = 1
  MaxBlockState = 0
  MaxTotalState = 0
  MaxTotalSource = 3
  MaxCascade = 3
  MaxRate = 2
  Window = 2
  FailureThreshold = 2
  HasTimeBudget = TRUE
  MaxTime = 2
  Remembered = 3
  MaxAfter = 1
INVARIANTS PendingTimersAreLive SuspensionMatchesCause RateRespected

SPECIFICATION FairSpec
CONSTANTS
  NumBlocks = 3
  NumTimers = 0
  NumSignals = 2
  Producer <- DiamondProducer
  Consumers <- DiamondConsumers
  Values = {0, 1}
  NoValue = NoValue
  r1 = r1
  r2 = r2
  Revisions = {r1}
  SourceBytes <- SourceSizes
  MaxBlockTimers = 0
  MaxTotalTimers = 0
  MaxBlockState = 1
  MaxTotalState = 0
  MaxTotalSource = 3
  MaxCascade = 4
  MaxRate = 2
  Window = 1
  FailureThreshold = 2
  HasTimeBudget = FALSE
  MaxTime = 0
  Remembered = 0
  MaxAfter = 0
INVARIANTS ConsumersHoldSignalValue CascadeFits
PROPERTY CascadeReturns

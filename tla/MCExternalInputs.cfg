CONSTANTS
  max = max
  min = min
  PollValues = {max, min}
  PollOrder <- MCPollOrder
  Values = {v1, v2}
  Requests = {r1}
  every = 2
  timeout = 1
  stale_after = 3
  HTTP_RETRY_DELAYS <- MCDelays
  external_input_queue = 2
  MaxDenied = 1
SPECIFICATION Spec
INVARIANTS HeldValueIsFresh CardMatchesInput ValidInputHasRun
PROPERTY SilentSourceGoesStale
CHECK_DEADLOCK FALSE

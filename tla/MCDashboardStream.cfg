CONSTANTS
  diagnostic_journal = 1
  JOURNAL_CAPACITY = 2
  WireCapacity = 2
  MaxRevision = 5
  MaxRestarts = 1
  MaxFaults = 2
SPECIFICATION Spec
INVARIANTS NoSilentGap ResyncIsUnderWay ViewMatchesCursor
PROPERTY EventuallyCurrent
CHECK_DEADLOCK FALSE

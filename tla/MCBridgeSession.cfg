SPECIFICATION FairSpec
CONSTANTS
    LaneCapacity = 3
    PendingLimit = 2
    MaxTelegrams = 2
    MaxWrites = 3
    MaxEffects = 2
INVARIANTS WritesAccountedFor TelegramsInOrder
PROPERTIES FailureEndsSession WritesSettle
CHECK_DEADLOCK FALSE

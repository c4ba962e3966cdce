SPECIFICATION Spec
CONSTANTS
    ScheduleKeys = {1, 2, 3}
    Blocks = {1, 2}
    BlockOf <- MCBlockOf
    Switched <- MCSwitched
    Occurrences <- MCOccurrences
    Utc = {0, 1, 2, 3, 4}
    NoTime = NoTime
    ReenableSamples = {0, 1, 2, 3, 4}
    MaxDelivered = 4
INVARIANTS DeliveredOnceInOrder MissedStaysMissed
PROPERTY NoOccurrenceSkipped

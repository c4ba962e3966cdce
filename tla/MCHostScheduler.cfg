SPECIFICATION HostFairSpec
CONSTANTS
    ScheduleKeys = {s}
    s = s
    Blocks = {"b"}
    BlockOf <- TheBlock
    Switched <- AllSwitched
    Occurrences <- TwoOccurrences
    Utc <- UtcTimes
    ReenableSamples = {}
    NoTime = NoTime
    MaxDelivered = 3
    Timers = {t1, t2}
    t1 = t1
    t2 = t2
    MaxAfter = 1
    MaxNow = 5
    Cap = 2
    Day = 4
    Word = 8
    Batch = 2
INVARIANT NoDeadlineOverslept
PROPERTY SchedulesGetTheirPoll
CHECK_DEADLOCK FALSE

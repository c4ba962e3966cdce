SPECIFICATION Spec
CONSTANTS
    Blocks = {b1, b2}
    Sources = {"a", "big"}
    RejectedSources = {"big"}
    Shapes = {"x", "y"}
    Clients = {c1, c2}
    ActivationQueue = 2
    MaxSaves = 2
    MaxRestarts = 1
    NewEntries <- MCNewEntries
    InitialFile <- MCInitialFile
INVARIANTS
    RevisionNamesOneLogic
    NoRestartMeansRunning
    AcknowledgedSaveStays
    SimulationRunsNamedRevision
PROPERTIES
    NoUnseenOverwrite
    EveryRequestAnswered
CHECK_DEADLOCK FALSE

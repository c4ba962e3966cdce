SPECIFICATION Spec
CONSTANTS
    Inputs = {"switch", "dimmer"}
    Dpt <- MCDpt
    Timers = {"delay", "other"}
    Keys = {"mode", "extra"}
    StateValues = {"up", "same", "old", "new"}
    Outputs = {"lamp"}
    Sources = {"follow", "strict", "broken"}
    Unloadable = {"broken"}
    Draws <- MCDraws
    Handler <- MCHandler
    MaxState = 1
    MaxTimers = 1
    Blocks = {"b"}
    StoredRevision <- MCStored
    FirstSource <- MCFirst
    Clients = {c1, c2}
    Threshold = 2
    MaxRevision = 3
    MaxTime = 2
SYMMETRY ClientSymmetry
INVARIANTS
    ProjectionReplays
    DraftPredictsActivation
    TokensNameContent
    DocumentMatchesRuntime

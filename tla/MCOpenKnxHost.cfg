SPECIFICATION Spec
CONSTANTS
    Timers = {t1}
    Sources = {s0, s1, s2}
    BuiltIn = s0
    Unloadable = {s2}
    MaxEffects = 2
    MaxAfter = 1
    Threshold = 1
    Items <- MCItems
    NoItem = NoItem
    Capacity = 2
    Word = 4
    OutputCapacity = 1
    EffectCapacity = 1
    Slice = 1
    Grace = 1
    Dynamic = 1
    Fanout = 2
    MaxMillis = 1
    MaxTelegrams = 2
    MaxEdits = 2
INVARIANTS
    LoopOwnsRuntime
    RefusedOnlyIfOvertaken
PROPERTIES
    InputQueueIsFifo
    EveryCommandServed

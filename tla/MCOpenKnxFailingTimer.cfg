SPECIFICATION Spec
CONSTANTS
    Timers = {t1}
    Sources = {s0, s1}
    BuiltIn = s0
    Unloadable = {}
    MaxEffects = 1
    MaxAfter = 1
    Threshold = 2
    Items <- MCItems
    NoItem = NoItem
    Capacity = 1
    Word = 2
    OutputCapacity = 1
    EffectCapacity = 1
    Slice = 1
    Grace = 0
    Dynamic = 1
    Fanout = 1
    MaxMillis = 1
    MaxTelegrams = 1
    MaxEdits = 1
INVARIANT
    RepeatedFailuresSuspend

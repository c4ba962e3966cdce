SPECIFICATION StoreSpec
CONSTANTS
    Documents = {d1, d2, malformed, oversized}
    Unfit = {oversized}
    Malformed = {malformed}
    Missing = Missing
    Torn = Torn
INVARIANTS
    FailedCallKeepsDocument
    StoredAndRunningAgree
PROPERTY
    StoreIsAtomic

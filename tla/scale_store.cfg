\* Two workloads, two names, and a clock that moves three times.
SPECIFICATION Spec
CONSTANTS
    k1 = k1
    k2 = k2
    n1 = n1
    n2 = n2
    None = None
    Keys <- TwoKeys
    Actions <- ScaleActions
    Names <- TwoNames
    MaxTime = 4
INVARIANTS
    TypeOK
    EntriesWait
PROPERTIES
    ImplementsWaits

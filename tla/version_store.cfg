\* Two objects, three numbers and two strings that are none.
SPECIFICATION Spec
CONSTANTS
    o1 = o1
    o2 = o2
    empty = empty
    garbled = garbled
    None = None
    Objects <- TwoObjects
    Numbers <- ThreeVersions
    Unparsable <- NotNumbers
    MaxTime = 3
INVARIANTS
    TypeOK
    NewestIsAwaited
    WaitsOwnTime

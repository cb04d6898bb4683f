\* A created pod that is gone before the informer lists it.
SPECIFICATION Spec
CONSTANTS
    n1 = n1
    n2 = n2
    n3 = n3
    n4 = n4
    r1 = r1
    r2 = r2
    r3 = r3
    None = None
    Names <- FourNames
    Revs <- TwoRevs
    MaxSurge <- One
    MaxUnavailable <- Zero
    ReplicaChoices = {1}
    Disturbances = {"evict", "relist"}
    Budget = 2
    MaxLag = 2
    InPlace <- AllInPlace
    InitReplicas = 1
    InitRev = r1
    InitCount = 0
SYMMETRY FourNamesSymmetry
INVARIANTS
    DeletedPodsAreReplaced

\* The first pods of a new Inplaceu, with a fault or a change of replicas.
SPECIFICATION Spec
CONSTANTS
    n1 = n1
    n2 = n2
    n3 = n3
    n4 = n4
    r1 = r1
    r2 = r2
    r3 = r3
    None = None
    Names <- ThreeNames
    Revs <- TwoRevs
    MaxSurge <- One
    MaxUnavailable <- Zero
    ReplicaChoices = {1, 2}
    Disturbances = {"evict", "crash", "apierr", "scale", "relist"}
    Budget = 1
    MaxLag = 1
    InPlace <- AllInPlace
    InitReplicas = 2
    InitRev = r1
    InitCount = 0
SYMMETRY ThreeNamesSymmetry
INVARIANTS
    CreationInvariant
    CreateCovered

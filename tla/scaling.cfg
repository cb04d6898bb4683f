\* Two of: a change of spec.replicas, a pod marked for deletion; a surge of one.
SPECIFICATION Spec
CONSTANTS
    n1 = n1
    n2 = n2
    n3 = n3
    n4 = n4
    r1 = r1
    r2 = r2
    r3 = r3
    None = None
    Names <- FourNames
    Revs <- TwoRevs
    MaxSurge <- One
    MaxUnavailable <- Zero
    ReplicaChoices = {1}
    Disturbances = {"scale", "label"}
    Budget = 2
    MaxLag = 1
    InPlace <- AllInPlace
    InitReplicas = 3
    InitRev = r1
    InitCount = 3
SYMMETRY FourNamesSymmetry
INVARIANTS
    TypeOK
    DeletionInvariant
PROPERTIES
    ScaleInStopsAtReplicas
    DeletionKeepsRunning

\* maxUnavailable and pods that run without being ready.
SPECIFICATION Spec
CONSTANTS
    n1 = n1
    n2 = n2
    n3 = n3
    n4 = n4
    r1 = r1
    r2 = r2
    r3 = r3
    None = None
    Names <- FourNames
    Revs <- TwoRevs
    MaxSurge <- Zero
    MaxUnavailable <- One
    ReplicaChoices = {1, 2}
    Disturbances = {"template", "unready"}
    Budget = 2
    MaxLag = 1
    InPlace <- AllInPlace
    InitReplicas = 2
    InitRev = r1
    InitCount = 2
SYMMETRY FourNamesSymmetry
PROPERTIES
    UpdateKeepsReady

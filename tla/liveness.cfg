\* The pods converge after a disturbance.
SPECIFICATION FairSpec
CONSTANTS
    n1 = n1
    n2 = n2
    n3 = n3
    n4 = n4
    r1 = r1
    r2 = r2
    r3 = r3
    None = None
    Names <- ThreeNames
    Revs <- TwoRevs
    MaxSurge <- Zero
    MaxUnavailable <- One
    ReplicaChoices = {1, 2}
    Disturbances = {"template", "scale", "evict", "crash", "apierr", "label", "fail", "timeout"}
    Budget = 1
    MaxLag = 1
    InPlace <- NoneInPlace
    InitReplicas = 1
    InitRev = r1
    InitCount = 1
PROPERTIES
    EventuallyConverged

\* A new template or a marked pod, 25% of surge and unavailable: r2 in place, r3 by recreating.
SPECIFICATION Spec
CONSTANTS
    n1 = n1
    n2 = n2
    n3 = n3
    n4 = n4
    r1 = r1
    r2 = r2
    r3 = r3
    None = None
    Names <- FourNames
    Revs <- ThreeRevs
    MaxSurge <- Quarter
    MaxUnavailable <- Quarter
    ReplicaChoices = {1, 2}
    Disturbances = {"template", "label"}
    Budget = 1
    MaxLag = 1
    InPlace <- ImageOnly
    InitReplicas = 2
    InitRev = r1
    InitCount = 2
SYMMETRY FourNamesSymmetry
INVARIANTS
    SurgeBound
PROPERTIES
    NoRepeatedUpdate
    ImplementsScaler

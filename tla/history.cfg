\* Three templates of which two collide, one old revision kept, and any three disturbances.
SPECIFICATION Spec
CONSTANTS
    c1 = c1
    c2 = c2
    p1 = p1
    x = x
    y = y
    z = z
    w = w
    None = None
    Pods <- OnePod
    Containers <- TwoContainers
    Images <- TwoImages
    Templates <- ThreeTemplates
    Names <- FourNames
    Age <- InOrder
    HashName <- Colliding
    MaxCollisions = 1
    Limit = 1
    InitTemplate <- A
    Disturbances = {"template", "evict", "apierr", "timeout", "crash", "failover", "stale"}
    Budget = 3
CHECK_DEADLOCK FALSE
INVARIANTS
    TypeOK
    LabelsTellContents
    StatusNamesTemplate
    UpdateRevisionIsLatest
PROPERTIES
    RollbackIsKept
    LiveRevisionsAreKept

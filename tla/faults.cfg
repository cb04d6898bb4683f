\* Two of: lost or marked pods, a crash, calls that fail or only seem to, a new template,
\* a list of revisions that is behind.
SPECIFICATION Spec
CONSTANTS
    n1 = n1
    n2 = n2
    n3 = n3
    n4 = n4
    r1 = r1
    r2 = r2
    r3 = r3
    None = None
    Names <- ThreeNames
    Revs <- TwoRevs
    MaxSurge <- Zero
    MaxUnavailable <- Quarter
    ReplicaChoices = {1}
    Disturbances = {"evict", "crash", "apierr", "timeout", "template", "unready", "fail", "label", "stale"}
    Budget = 2
    MaxLag = 1
    InPlace <- AllInPlace
    InitReplicas = 1
    InitRev = r1
    InitCount = 1
SYMMETRY ThreeNamesSymmetry
INVARIANTS
    NoLostWakeup
    StatusAccurate
    UpdateInvariant
    WakeupInvariant
PROPERTIES
    NoRepeatedUpdate

\* The deletion of a pod that a user made an orphan is awaited for good.
SPECIFICATION Spec
CONSTANTS
    A = A
    B = B
    p1 = p1
    p2 = p2
    None = None
    Foreign = Foreign
    Owners <- AandB
    Pods <- TwoPods
    Labels <- TwoLabels
    Matches <- Overlapping
    TemplateLabel <- OwnLabel
    InitPods <- OneOfTwo
    Disturbances = {"orphan", "scalein"}
    Budget = 2
CHECK_DEADLOCK FALSE
INVARIANTS
    NobodyWaits

\* A pod without controller gets an owner, and nobody adopts it.
SPECIFICATION Spec
CONSTANTS
    A = A
    B = B
    p1 = p1
    p2 = p2
    None = None
    Foreign = Foreign
    Owners <- AandB
    Pods <- TwoPods
    Labels <- TwoLabels
    Matches <- Overlapping
    TemplateLabel <- OwnLabel
    InitPods <- OneOfTwo
    Disturbances = {"orphan", "link"}
    Budget = 2
CHECK_DEADLOCK FALSE
INVARIANTS
    OwnedPodsAreAdopted

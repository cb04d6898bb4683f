\* The orphan a user makes is not adopted.
SPECIFICATION Spec
CONSTANTS
    A = A
    B = B
    p1 = p1
    p2 = p2
    None = None
    Foreign = Foreign
    Owners <- AandB
    Pods <- TwoPods
    Labels <- TwoLabels
    Matches <- Overlapping
    TemplateLabel <- OwnLabel
    InitPods <- OneEach
    Disturbances = {"orphan"}
    Budget = 2
CHECK_DEADLOCK FALSE
INVARIANTS
    OrphansAreAdopted

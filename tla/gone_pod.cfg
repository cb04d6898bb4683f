\* A pod to be released is gone.
SPECIFICATION Spec
CONSTANTS
    A = A
    B = B
    p1 = p1
    p2 = p2
    None = None
    Foreign = Foreign
    Owners <- AandB
    Pods <- TwoPods
    Labels <- TwoLabels
    Matches <- Overlapping
    TemplateLabel <- OwnLabel
    InitPods <- OneOfTwo
    Disturbances = {"label", "evict"}
    Budget = 2
CHECK_DEADLOCK FALSE
PROPERTIES
    GonePodsAreIgnored

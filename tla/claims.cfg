\* Two Inplaceus that select the same pods: passes claim, create and delete pods
\* while labels and controllers change, pods are lost and Inplaceus deleted.
SPECIFICATION Spec
CONSTANTS
    A = A
    B = B
    p1 = p1
    p2 = p2
    None = None
    Foreign = Foreign
    Owners <- AandB
    Pods <- TwoPods
    Labels <- TwoLabels
    Matches <- Overlapping
    TemplateLabel <- OwnLabel
    InitPods <- Shared
    Disturbances = {"label", "foreign", "evict", "end", "remove", "scalein", "scaleout", "apierr", "timeout", "crash"}
    Budget = 3
CHECK_DEADLOCK FALSE
INVARIANTS
    TypeOK
    PodsMatch
    OwnedPodsAreAdopted
    NobodyWaits
PROPERTIES
    NoStealing
    DeletesOwnPods

\* Ownership settles under the fairness of the worker, informers and kubelets.
SPECIFICATION FairSpec
CONSTANTS
    A = A
    B = B
    p1 = p1
    p2 = p2
    None = None
    Foreign = Foreign
    Owners <- AandB
    Pods <- TwoPods
    Labels <- TwoLabels
    Matches <- Overlapping
    TemplateLabel <- OwnLabel
    InitPods <- Shared
    Disturbances = {"label", "orphan", "demote", "link", "foreign", "evict", "end", "remove", "apierr"}
    Budget = 2
CHECK_DEADLOCK FALSE
PROPERTIES
    EventuallySettled

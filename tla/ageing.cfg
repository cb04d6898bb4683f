\* Pods on two nodes become ready while the clock runs; a scale in, deletions and
\* restarts of pods, failing calls and a restart of the controller.
SPECIFICATION Spec
CONSTANTS
    n1 = n1
    n2 = n2
    n3 = n3
    a = a
    b = b
    None = None
    Revision = Revision
    Names <- ThreeNames
    Nodes <- TwoNodes
    InitPods <- TwoAndOne
    MinReadySeconds = 1
    MaxSurge <- Zero
    MaxUnavailable <- One
    MaxReplicas = 3
    Disturbances = {"restart", "unready", "lose", "mark", "scale", "apierr", "crash"}
    MaxTime = 3
    Budget = 1
SYMMETRY Symmetric
CHECK_DEADLOCK FALSE
INVARIANTS
    TypeOK
    AvailableIsFollowedUp
PROPERTIES
    NodesStayBalanced
    LongestReadyStay

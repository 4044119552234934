SPECIFICATION Spec
CONSTANTS
    nullptr = nullptr
    Node = {n1, n2}
    PdKey = {"pd-1"}
    MrKey = {}
    CqKey = {"cq-1"}
    QpKey = {"qp-1"}
    MrName = {}
    QpName = {"qp-a"}
    Handle <- MCHandle
    Faults <- MCFaults
    MaxLaunch = 2
CHECK_DEADLOCK FALSE
INVARIANTS
    TypeOK
    StaleOnlyIfOwnerEnded
PROPERTIES
    ConnectedOnce
    ImplementsRendezvous
SYMMETRY MCSymmetry

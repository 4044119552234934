SPECIFICATION Spec
CONSTANTS
    nullptr = nullptr
    Node = {n1, n2}
    PdKey = {"pd-1"}
    MrKey = {}
    CqKey = {"cq-1"}
    QpKey = {"qp-1", "qp-2"}
    MrName = {}
    QpName = {"qp-a"}
    Handle <- MCHandle
    Faults = {}
    MaxLaunch = 1
CHECK_DEADLOCK FALSE
PROPERTIES
    FetchedIsRegistered

SPECIFICATION LocalSpec
CONSTANTS
    nullptr = nullptr
    Node = {n1}
    PdKey = {"pd-1"}
    MrKey = {"mr-1"}
    CqKey = {"cq-1", "cq-2"}
    QpKey = {"qp-1"}
    Handle <- MCHandle
    Faults <- MCFaults
    MaxLaunch = 2
CHECK_DEADLOCK FALSE
INVARIANT RegisteredCqIsCreated

SPECIFICATION TestSpec
CONSTANTS
    nullptr = nullptr
    n0 = n0
    n1 = n1
    Node <- MCNode
    writer = n0
    PdKey = {"pd"}
    MrKey = {"mr"}
    CqKey = {"cq-1", "cq-2"}
    QpKey = {"qp"}
    MrName <- MCMrName
    QpName <- MCQpName
    mr_name <- MCmr_name
    qp_name <- MCqp_name
    Handle <- OneLaunch
    Faults = {"ibv_poll_cq"}
    MaxLaunch = 1
    max_send_wr = 1
    cq_depth = 1
CHECK_DEADLOCK FALSE
INVARIANTS
    TrueMeansWritten

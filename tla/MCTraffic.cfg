SPECIFICATION Spec
CONSTANTS
    nullptr = nullptr
    a = a
    b = b
    Node <- MCNode
    Handle = {1, 2, 3, 4, 5, 6, 7, 8}
    Pair <- MCPair
    Sender <- MCSender
    send_cq <- MCsend_cq
    recv_cq <- MCrecv_cq
    peer <- MCpeer
    payload <- MCpayload
    target <- MCtarget
    Inline <- MCInline
    Gone <- MCGone
    Setup <- MCSetup
    Faults = {"link", "ibv_poll_cq"}
    max_send_wr = 2
    cq_depth = 2
    MaxPost <- MCMaxPost
    MaxBlind <- MCMaxBlind
CHECK_DEADLOCK FALSE
INVARIANTS
    TrafficTypeOK
    YesIsBacked
    AllYesMeansAllWritten
    SizedNeverOverruns
PROPERTIES
    ImplementsChannel
    EveryPostAnswered

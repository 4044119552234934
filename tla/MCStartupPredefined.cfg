SPECIFICATION Spec
CONSTANTS
    Setup <- MCSetup
    qp_type = "rc"
CHECK_DEADLOCK FALSE
INVARIANTS
    PredefinedSuffice

SPECIFICATION Spec
CONSTANTS
    limit <- MClimit
    PidMod = 2
    Published <- MCPublished
    Junk = {0, 7}
INVARIANTS
    WireTypeOK
    RoundTrip
    BrokenNameReadsNull

SPECIFICATION Spec
CONSTANTS
    v = v
    w = w
    p0 = p0
    p1 = p1
    Containers <- Two
    Cpus <- TwoCpus
    Limits <- NoLimits
    Asked <- NoneAsked
    DefaultMem = 1
    Huge = 9
    BareSet = FALSE
    Faults <- NoFaults
SYMMETRY Symmetric
INVARIANTS PinsHold PoolIsCommon

SPECIFICATION Spec
CONSTANTS
    v = v
    w = w
    p0 = p0
    p1 = p1
    Containers <- One
    Cpus <- OneCpu
    Limits <- TwoLimits
    Asked <- AllAsked
    DefaultMem = 1
    Huge = 9
    BareSet = FALSE
    Faults <- AllFaults
INVARIANTS TypeOK ThresholdCovers RoomForMemory
PROPERTY ThresholdNeverSinks

SPECIFICATION Spec
CONSTANTS
    c1 = c1
    c2 = c2
    h1 = h1
    h2 = h2
    NoHolder = NoHolder
    Callers <- MCCallers
    Holders <- TwoHolders
    Faults <- AllFaults
INVARIANTS TypeOK EntryIsWatched WaitIsAnswered LeftOnlyByRace
PROPERTIES RunningStaysKnown CleanupEnds
CHECK_DEADLOCK FALSE

SPECIFICATION FairSpec
CONSTANTS
    Ids = {p}
    Owner = p
    CriSandbox = FALSE
    IoKinds <- IoBoth
    Clients = {a, b}
    Requests = {"Create", "Start", "Delete", "Pause", "Resume", "Kill", "Signal", "Wait", "Read", "Shutdown"}
    Slots = 1
    Lives = 1
    Starts = 1
    Fixed = {"relock", "map", "ec"}
    Free = free
    Listener = listener
PROPERTIES LockReleased WaitersEnd WaitReturns

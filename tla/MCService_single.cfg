SPECIFICATION Spec
CONSTANTS
    Ids = {p}
    Owner = p
    CriSandbox = FALSE
    IoKinds <- IoAll
    Clients = {a, b}
    Requests = {"Create", "Start", "Delete", "Pause", "Resume", "Kill", "Signal", "CloseIO", "Wait", "Read", "Shutdown"}
    Slots = 1
    Lives = 1
    Starts = 2
    Fixed = {"relock", "map", "ec"}
    Free = free
    Listener = listener
INVARIANTS TypeOK StoppedIsSignalled ExitAfterStart
SYMMETRY Symmetry
CHECK_DEADLOCK FALSE

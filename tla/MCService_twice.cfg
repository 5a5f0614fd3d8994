SPECIFICATION Spec
CONSTANTS
    Ids = {p}
    Owner = p
    CriSandbox = FALSE
    IoKinds <- IoBoth
    Clients = {a}
    Requests = {"Create", "Start", "Kill", "Read"}
    Slots = 1
    Lives = 1
    Starts = 1
    Fixed = {"relock", "map", "ec"}
    Free = free
    Listener = listener
INVARIANT StreamsCloseOnce

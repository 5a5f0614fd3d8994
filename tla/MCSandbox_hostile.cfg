SPECIFICATION FairSpec
CONSTANTS
    Containers = {p, w}
    Infra = {p}
    Owner = p
    Faults = {"micad", "tear", "net", "pin", "firmware", "recreate"}
    Pinning = TRUE
    Static = FALSE
INVARIANT DiskNeverUnderstates Recoverable
PROPERTIES CleanupReleasesClient TransitionsLegal StartCompletes OperationsEnd

SPECIFICATION Spec
CONSTANTS
    Containers = {p, w}
    Infra = {p}
    Owner = p
    Faults = {"micad", "store", "tear", "net"}
    Pinning = FALSE
    Static = TRUE
INVARIANT RegisteredIsConfigured
PROPERTIES DeleteReleasesClient StopLeavesNoClient

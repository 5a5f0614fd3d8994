SPECIFICATION Spec
CONSTANTS
    Containers = {p, v, w}
    Infra = {p}
    Owner = p
    Faults = {"tear", "net", "pin", "firmware"}
    Pinning = TRUE
    Static = FALSE
SYMMETRY Symmetry
INVARIANTS TypeOK StateMatchesClient

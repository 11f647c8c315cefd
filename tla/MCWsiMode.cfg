SPECIFICATION ContextSpec
CONSTANTS
    Owner = owner
    Presenters = {p1}
    Executors = {e1}
    MaxContexts = 1
    ModesListed = FALSE
    SurfaceMade = TRUE
CHECK_DEADLOCK FALSE
INVARIANTS
    LeaseKeepsContext

SPECIFICATION ContextSpec
CONSTANTS
    Owner = owner
    Presenters = {p1}
    Executors = {e1}
    MaxContexts = 1
    ModesListed = TRUE
    SurfaceMade = FALSE
CHECK_DEADLOCK FALSE
INVARIANTS
    DestroyedOnce

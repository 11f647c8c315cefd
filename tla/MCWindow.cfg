SPECIFICATION SumSpec
CONSTANTS
    owner = owner  p1 = p1  p2 = p2  e1 = e1
    Owner = owner
    Presenters <- TwoPresenters
    Executors = {e1}
    MaxContexts = 2
    ModesListed = TRUE
    SurfaceMade = TRUE
    ImageCounts = {2}
    MaxFrames = 2  MaxGeneration = 2  MaxAcquires = 3  MaxOpens = 1
INVARIANTS
    SlotsAgree
    LivesAsLeased
PROPERTIES
    KeepsLeases
    OthersKeepLeases
    ShownExactly
CHECK_DEADLOCK FALSE

SPECIFICATION SumSpec
CONSTANTS
    t1 = t1  t2 = t2  long = long  short = short
    FrameUs = 4  ClassUs <- Halved  PrefetchUs = 2  MaxEpoch = 3
    Tabs <- TwoTabs  LastGeneration = 4  Retains = {TRUE}
    Readers <- TwoTabs  Records <- TwoRecords  Length <- Lengths  Window = 2
    LookAheads = {1, 2}  MaxEntries = 1
SYMMETRY Alike
INVARIANTS
    TabAgrees
    RunsAreSafe
    ServicesReachTabs
    ReadsTheRest
    DrawnAsPut
PROPERTIES
    TabStaysAway
    OthersAreSound
CHECK_DEADLOCK FALSE

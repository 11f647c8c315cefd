SPECIFICATION SumSpec
CONSTANTS
    c1 = c1  c2 = c2  c3 = c3
    s1 = s1  s2 = s2  o1 = o1  o2 = o2  w1 = w1  w2 = w2
    Clients <- ThreeClients
    Sessions <- OneSession
    Openings <- TwoOpenings
    Threads <- TwoThreads
    Callers <- TwoCallers
    MaxEpoch = 2
    Still = {0}
    Windows = {1}
    Charges = {1, 3}
    MaxReady = 2
    MaxQueue = 2
    Full = 8
    CriticalEnter = 1
    ElevatedEnter = 4
    Headroom = 2
    StallFloors = {0}
    LowSignals = {FALSE}
    PlatformLevels = {0, 1, 2}
    Interval <- TickIntervals
INVARIANTS
    IdleMeansServed
    NothingForgotten
    CountersExact
PROPERTIES
    PrefetchKeepsPromise
    EverythingServed
    CallsAreAnswered
    PressureIsSteady
CHECK_DEADLOCK FALSE

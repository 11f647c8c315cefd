SPECIFICATION PressureSpec
CONSTANTS
    Full = 8  CriticalEnter = 1  ElevatedEnter = 4  Headroom = 2
    StallFloors = {0}  LowSignals = {FALSE}  PlatformLevels = {0, 2}
    Interval <- TickIntervals
INVARIANTS
    ProcessHeard

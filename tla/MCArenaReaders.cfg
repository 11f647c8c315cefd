SPECIFICATION ArenaSpec
CONSTANTS
    Readers = {"r1", "r2"}
    NumRecords = 3
    PerBlock = 2
    Heights = {1, 2}
    MaxGeneration = 1
    Faults = {}
INVARIANTS
    HeightsAgree
CHECK_DEADLOCK FALSE

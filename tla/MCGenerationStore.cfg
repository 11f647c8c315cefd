SPECIFICATION SumSpec
CONSTANTS
    a = a  b = b
    NoContent = NoContent  Damaged = Damaged
    Contents = {a, b}
    Generations = {1, 2}
    Retains = {1, 2}
    MaxRecords = 6
    MaxFaults = 0
    Readers = {"r1"}  NumRecords = 3  PerBlock = 2  Heights = {1, 2}
    MaxGeneration = 2  Faults = {"publication", "height"}
INVARIANTS
    FilesAgree
PROPERTIES
    ImplementsRegister
    KeepsItsPromises
    OthersKeepPromises
CHECK_DEADLOCK FALSE

SPECIFICATION SumSpec
CONSTANTS
    t1 = t1  t2 = t2  t3 = t3  one = one  two = two
    Threads <- ThreeThreads
    Keys <- Pair
    Contents = {"large", "small"}
    Size <- FontSizes
    Limit = 4
    MaxEntries = 1
    LookupCompares = FALSE
    Calls = 2
    Classes <- Pair
    Most = 3  VerificationInterval = 2  MaxOps = 4  Injections = 1
    Texts <- Pages
    Estimates <- Guesses
    Columns = {2, 3}
    LineHeight = 2  Padding = 3  Stride = 2  IoWindow = 2
    ViewHeight = 5  Overscan = 1  MaxFragments = 3
    IndexBudget = 6  WindowBudget = 6
    Scrolls = {4, 9, 15}
    Unreadable = {0, 2}
    MaxCalls = 3
SYMMETRY Alike
INVARIANTS
    FontsSharedRightly
    RetentionExact
    LedgersExact
PROPERTIES
    CachesAreTrue
    LinesAsScanned
CHECK_DEADLOCK FALSE

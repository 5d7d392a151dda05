SPECIFICATION Spec
CONSTANTS
    l1 = l1
    l2 = l2
    c2 = c2
    c3 = c3
    b1 = b1
    b2 = b2
    NoAddr = NoAddr
    MaxThreads = 3
    Locks <- TwoLocks
    Mutexes <- OneLock
    TidWords <- TwoTidWords
    Bits <- TwoBits
    Keys <- MixedKeys
    NsPerUs = 2
    KtimeMax = 3
    Sleeps <- OneSleep
    Timed <- Pair
    Flavours <- EarlyOrLate
    MaxClock = 1
SYMMETRY Symmetry
INVARIANTS
    QueuesAgree
    NoInternalError
    NobodyWaitsForTheDead
PROPERTIES
    LeavesForAReason
CHECK_DEADLOCK FALSE

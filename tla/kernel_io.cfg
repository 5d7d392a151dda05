SPECIFICATION Spec
CHECK_DEADLOCK FALSE
CONSTANTS
    Node <- MCNode
    Thread = {1, 2}
    Threads <- MCThreads
    Programs <- MCPrograms
    Hosts <- MCHosts
    Bounds <- MCBounds
    InitialBudget = 3
    LinkLimit = 2
    PageBytes = 2
    MaxGrowth = 2
    PipeCapacity = 3
    PipeAtomic = 2
    FirstPort = 10
    PortCount = 3
    MaxUdp = 2
INVARIANTS
    IoStateValid
    ObjectsKeepTheirNames
    MappingsExact
    StreamsIntact
    GrantedMeansDone

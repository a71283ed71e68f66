CONSTANTS
    l1 = l1
    l2 = l2
    h1 = h1
    h2 = h2
    w1 = w1
    w2 = w2
    Readers <- AllReaders
    OpenFile <- TwoFiles
    ListFiles = {"list"}
    Writers = {w1, w2}
    Texts <- Written
    Garbage <- StackBytes
    TaskList <- Tasks
    ProcMaxSize = 4
    KbufSize = 7
    MinInt <- Lowest
    MaxInt = 19
    MaxFaults = 1
    MaxHides = 4
    Crowds <- Groups
SPECIFICATION Spec
CHECK_DEADLOCK FALSE
INVARIANTS DeliveredOnce WriteExact

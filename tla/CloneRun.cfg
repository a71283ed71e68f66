\* Every kind of clone, two callers, limits that the second child meets.
CONSTANTS
    Caller = {c1, c2}
    Calls <- AllKinds
    MaxThreads = 3
    Nproc = 4
    Privileged = FALSE
SPECIFICATION FairSpec
INVARIANTS
    VforkFrameAlive
    NoTrace
    LimitsBounded
    FlagsHonoured
PROPERTY
    VforkReturns

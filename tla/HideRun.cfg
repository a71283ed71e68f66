\* The hiding calls against the readers of /proc, in every workload.
CONSTANTS
    c1 = c1
    c2 = c2
    Caller = {c1, c2}
    Pid = {1, 2, 3}
    Workloads <- AllWorkloads
    Uid = {0}
    BinName <- TwoNames
    OnValue = {0, 1}
    FlagValue = {0, 1}
    HidePid = 2
    Ptrace <- AllButTwo
    MaxUsage = 3
SPECIFICATION Spec
INVARIANTS
    CacheClosed
    NoPrematureFree
    ReaddirHonoursHide
    ReaddirComplete
    WalksExact
PROPERTIES
    ForkVisible
\* A caller that hits a NULL or stale pointer stops for good.
CHECK_DEADLOCK FALSE

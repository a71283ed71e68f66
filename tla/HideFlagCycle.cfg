\* One caller: hide, flag off, lookup, flag on, lookup.
CONSTANTS
    c1 = c1
    c2 = c2
    Caller = {c1}
    Pid = {1, 2}
    Workloads <- OneByOne
    Uid = {0}
    BinName <- TwoNames
    OnValue = {0, 1}
    FlagValue = {0, 1}
    HidePid = 0
    Ptrace <- MayPtraceAll
    MaxUsage = 3
SPECIFICATION Spec
INVARIANT
    LookupHonoursHide
\* A caller that hits a NULL or stale pointer stops for good.
CHECK_DEADLOCK FALSE

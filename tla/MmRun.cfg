\* Shared and copied mms, exec of privileged programs, a reader in /proc.
CONSTANTS
    Task = {t1, t2, t3}
    Boot = t1
    Mixes <- MCMixes
    Mm = {m1, m2, m3}
    File = {f1, f2}
    Reader = {r1}
    Vma = {0, 1}
    DontCopy = {1}
    None = None
SPECIFICATION FairSpec
INVARIANTS
    MmCounted
    MmSafe
    AccessHonoured
PROPERTIES
    MappingsStable
    MemoryReturned
\* When every process has exited nothing is left to happen.
CHECK_DEADLOCK FALSE

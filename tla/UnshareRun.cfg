\* Three tasks that share and unshare, and a reader of /proc/<pid>/cwd.
CONSTANTS
    t1 = t1
    t2 = t2
    Task = {t0, t1, t2}
    Reader = {r1}
    Fs = {1, 2, 3}
    Files = {1, 2, 3}
    Boot = t0
    None = None
    Workloads <- AllWorkloads
SYMMETRY Alike
SPECIFICATION Spec
INVARIANTS
    CountsExact
    LinkReadsLive
    UnshareKeepsPromise

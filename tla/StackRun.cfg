\* Two tasks made and ended beside a third, a reader, and two CPUs.
CONSTANTS
    Task = {t0, t1, t2}
    Reader = {r1}
    Cpu = {c1, c2}
    Area = {a1, a2, a3}
    Boot = t0
    None = None
    Blank = Blank
    Pages = 2
    NrCached = 2
SYMMETRY Alike
SPECIFICATION Spec
INVARIANTS
    ChargesExact
    TraceHonoured
PROPERTIES
    StacksAreExclusive

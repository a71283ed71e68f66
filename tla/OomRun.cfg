\* Clones that share an mm, vfork, exec and exit against two writers.
CONSTANTS
    Proc = {i, p, q}
    Boot = {i}
    GlobalInit = {i}
    Mm = {m1, m2}
    Writer = {root, user}
    Target = {p, q}
    Capable = {root}
    Score <- MCScore
    Legacy <- MCLegacy
    None = None
SPECIFICATION Spec
INVARIANTS
    ScoresAgree
    PinnedMm
    LegacyScale
PROPERTY
    FloorHolds

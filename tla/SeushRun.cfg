\* Pipelines, lists and redirections, until descriptors run out.
CONSTANTS
    Lines <- SmallLines
    MaxFd = 20
    Capacity = 2
    Pipe = {k1, k2, k3, k4, k5, k6, k7, k8}
    MaxChild = 3
    MaxFails = 2
SPECIFICATION FairSpec
INVARIANTS
    StdinRestored
    ChildrenInOrder
    PipelineDelivers
PROPERTY
    LineEnds

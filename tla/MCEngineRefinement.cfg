SPECIFICATION Spec
CONSTANTS
    Jobs = {j1, j2, j3, j4, j5}
    NoJob = NoJob
    Slots = 2
    QueueDepth = 1
    MaxSteps = 1
    Groups = {g}
    NoKey = NoKey
SYMMETRY JobSymmetry
CHECK_DEADLOCK FALSE
INVARIANT BacklogBounded
PROPERTY ImplementsService

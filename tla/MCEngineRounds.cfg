SPECIFICATION Spec
CONSTANTS
    Jobs = {j1, j2, j3}
    NoJob = NoJob
    Slots = 2
    QueueDepth = 1
    MaxSteps = 3
    Groups = {g}
    NoKey = NoKey
SYMMETRY JobSymmetry
CHECK_DEADLOCK FALSE
INVARIANT TypeOK
INVARIANT DepthExact
INVARIANT OnePlace
INVARIANT PublicViewExact
INVARIANT Lockstep
INVARIANT CancelWithinOneStep
PROPERTY AdmissionFIFO

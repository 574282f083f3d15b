SPECIFICATION Spec
CONSTANTS
    Jobs = {j1, j2, j3}
    NoJob = NoJob
    Slots = 1
    QueueDepth = 1
    MaxSteps = 2
    Groups = {}
    NoKey = NoKey
CHECK_DEADLOCK FALSE
PROPERTIES
    ExclusiveFinishes
    StreamFinishes
    ShutdownCompletes

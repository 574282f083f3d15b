SPECIFICATION Spec
CONSTANTS
    Sessions = {s1, s2, s3}
    Nobody = Nobody
    Tokens = {t1}
    Slots = 2
    MaxPos = 4
    MaxTokens = 4
    PageTokens = 2
    CapacityPages = 4
SYMMETRY Symmetry
CHECK_DEADLOCK FALSE
INVARIANT NoInconsistency
INVARIANT CapacitySuffices

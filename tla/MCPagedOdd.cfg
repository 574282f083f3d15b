SPECIFICATION Spec
CONSTANTS
    Sessions = {s1, s2}
    Nobody = Nobody
    Tokens = {t1, t2}
    Slots = 2
    MaxPos = 3
    MaxTokens = 4
    PageTokens = 2
    CapacityPages = 3
SYMMETRY Symmetry
CHECK_DEADLOCK FALSE
INVARIANT PagesExact
INVARIANT RowsExact

\* One stream with up to four tokens, or two with up to two; a channel of one event.
SPECIFICATION Spec
CONSTANTS
    s1 = s1
    s2 = s2
    a = a
    b = b
    Loads <- AllLoads
    Tokens <- Texts
    Cap = 1
    None = None
CHECK_DEADLOCK FALSE
INVARIANT DeliveredWhole
INVARIANT NeverTakenBack
INVARIANT EndingIsTrue
PROPERTY AnsweredMeansStopped
PROPERTY StreamsEnd

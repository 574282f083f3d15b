\* Three startups, two ports; a startup gives up at the second poll.
SPECIFICATION Spec
CONSTANTS
    MaxStarts = 3
    Ports = {p1, p2}
    Sites <- AllSites
    MaxPolls = 2
    Splash = Splash
    None = None
CHECK_DEADLOCK FALSE
INVARIANT NoStrayEngine
INVARIANT StaysStopped
INVARIANT WindowShowsInstalled
PROPERTY StartupEnds

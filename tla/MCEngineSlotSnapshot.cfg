SPECIFICATION SnapshotSpec
CONSTANTS
    Tasks = {1, 2}
    MaxClock = 2
    MaxUnits = 1
INVARIANT SnapshotSound

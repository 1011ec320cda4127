CONSTANTS
    BufferSize = 2
    MaxEvents = 4
    MaxTimeouts = 0
    MaxBreaks = 2
    Clients = {c1, c2}
    Commands = {"Updated", "Opened", "Deleted"}
    MaxFailures = 0
SPECIFICATION FairSpec
INVARIANTS
    Converges
PROPERTIES
    ImplementsReplayedLog
    DeletedForGood
CHECK_DEADLOCK FALSE

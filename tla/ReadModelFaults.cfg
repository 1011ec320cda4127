CONSTANTS
    BufferSize = 2
    MaxEvents = 3
    MaxTimeouts = 1
    MaxBreaks = 1
    Clients = {c1}
    Commands = {"Updated", "Opened", "Closed", "Deleted", "Viewed"}
    MaxFailures = 1
SPECIFICATION FairSpec
INVARIANTS
    NothingLost
    ParkedForAReason
    NeverStuck
PROPERTIES
    EventuallyAnswered
CHECK_DEADLOCK FALSE

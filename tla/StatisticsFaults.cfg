CONSTANTS
    BufferSize = 2
    MaxEvents = 3
    MaxTimeouts = 1
    MaxBreaks = 1
    Ads = {a1, a2}
    MaxFailures = 1
SPECIFICATION FairSpec
INVARIANTS
    CountedOnce
    CountIsComplete
PROPERTIES
    CountedInTheEnd
CHECK_DEADLOCK FALSE

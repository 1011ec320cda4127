CONSTANTS
    BufferSize = 2
    MaxEvents = 3
    MaxTimeouts = 0
    MaxBreaks = 0
    Ads = {a1}
    MaxFailures = 0
SPECIFICATION Spec
INVARIANTS
    SkippedIsNotParked
CHECK_DEADLOCK FALSE

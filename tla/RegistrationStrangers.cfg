SPECIFICATION Spec
CONSTANTS
    BufferSize = 2
    MaxEvents = 2
    MaxTimeouts = 0
    MaxBreaks = 0
    MaxFailures = 0
    Users = {u1, u2}
    Advertisers = {u1, u2}
    Seeded = {}
INVARIANT OnlyPublishersCreateAds
CHECK_DEADLOCK FALSE

SPECIFICATION FairSpec
CONSTANTS
    BufferSize = 2
    MaxEvents = 3
    MaxTimeouts = 1
    MaxBreaks = 1
    MaxFailures = 1
    Users = {u1, u2, admin}
    Advertisers = {u1}
    Seeded = {admin}
INVARIANTS
    OnePublisherPerUser
    ProfileConverges
    AcknowledgedMeansPublisher
    AdReachesItsOwner
PROPERTIES
    OrphansStay
    BecomesPublisher
CHECK_DEADLOCK FALSE

SPECIFICATION FairSpec
CONSTANTS
    TakeSnapshotAfterEventsCount = 2
    c1 = c1
    c2 = c2
    c3 = c3
    Clients <- TwoClients
    Batches = {1, 3}
    AllowSnapshotting = TRUE
    AllowMemorySnapshots = TRUE
    MaxEvents = 7
    MaxFaults = 2
INVARIANTS
    FailedSaveIsCovered
    MemoryBacked
PROPERTIES
    SnapshotEventually
    ImplementsAggregateStore

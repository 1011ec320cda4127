SPECIFICATION Spec
CONSTANTS
    TakeSnapshotAfterEventsCount = 2
    c1 = c1
    c2 = c2
    c3 = c3
    Clients <- ThreeClients
    Batches = {1}
    AllowSnapshotting = TRUE
    AllowMemorySnapshots = FALSE
    MaxEvents = 5
    MaxFaults = 0
SYMMETRY ClientSymmetry
INVARIANTS
    SnapshotsFaithful
    LoadsFaithful
    SettledSnapshotIsLatest

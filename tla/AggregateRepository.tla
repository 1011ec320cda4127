------------------------ MODULE AggregateRepository ------------------------
(***************************************************************************)
(* EventStoreAggregateRepository over MongoMemorySnapshotStore, for one     *)
(* aggregate, as the Publishers and Identity services run them: concurrent  *)
(* HTTP requests of one process, each of them LoadAsync, a method of the    *)
(* aggregate, SaveAsync (or only the load, for a query).  Each await on the *)
(* event store, on MongoDB or on the in-memory database is a step of its    *)
(* own; the code between two awaits belongs to the step before it.          *)
(*                                                                          *)
(* The stream is abstracted to its length, a snapshot to the aggregate in   *)
(* its payload.  MongoDB and the in-memory database are sets of snapshots:  *)
(* two equal documents of the MongoDB collection, which has no unique key,  *)
(* are one element.                                                         *)
(***************************************************************************)
EXTENDS Aggregate, FiniteSets

CONSTANTS
    Clients,               \* the concurrent requests
    Batches,               \* numbers of events one save may carry
    AllowSnapshotting,     \* _allowSnapshotting
    AllowMemorySnapshots,  \* _allowMemorySnapshots
    MaxEvents,             \* bound: events in the stream
    MaxFaults              \* bound: failed calls and crashes

ASSUME ConstantsAssumption ==
    /\ Batches \subseteq Nat \ {0}
    /\ AllowSnapshotting \in BOOLEAN
    /\ AllowMemorySnapshots \in BOOLEAN
    /\ MaxEvents \in Nat
    /\ MaxFaults \in Nat

VARIABLES
    stream,    \* number of events in the stream; event n is the (n+1)-th
    memory,    \* snapshots in the process's in-memory database
    mongo,     \* snapshots in the MongoDB collection
    pc,        \* pc[c]: the call request c awaits next
    purpose,   \* purpose[c]: what the snapshot c looks up, or reads, is for
    agg,       \* agg[c]: the aggregate c works on
    latest,    \* latest[c]: latestEventNumber of the slice LoadAsync read
    next,      \* next[c]: nextSnapshotVersion of the save
    from,      \* history: length of the stream when c's load began
    outcome,   \* outcome[c]: how the last request of c ended
    faults     \* failed calls and crashes so far

vars == <<stream, memory, mongo, pc, purpose, agg, latest, next, from, outcome,
          faults>>

stores == <<stream, memory, mongo>>

Locations == {"idle", "ready", "memory", "mongo", "forward",
              "insertMongo", "insertMemory"}

\* LoadAsync looks for the last snapshot, SaveAsync for the old one, Save of
\* the store for one of the version it is about to insert.
Purposes == {"none", "load", "old", "exists"}

Outcomes == {"none", "answered", "saved", "loadFailed", "saveFailed"}

TypeOK ==
    /\ stream \in 0..MaxEvents
    /\ memory \subseteq Aggregates
    /\ mongo \subseteq Aggregates
    /\ pc \in [Clients -> Locations]
    /\ purpose \in [Clients -> Purposes]
    /\ agg \in [Clients -> Aggregates]
    /\ latest \in [Clients -> 0..MaxEvents]
    /\ next \in [Clients -> 0..MaxEvents]
    /\ from \in [Clients -> 0..MaxEvents]
    /\ outcome \in [Clients -> Outcomes]
    /\ faults \in 0..MaxFaults

Init ==
    /\ stream = 0
    /\ memory = {}
    /\ mongo = {}
    /\ pc = [c \in Clients |-> "idle"]
    /\ purpose = [c \in Clients |-> "none"]
    /\ agg = [c \in Clients |-> NewAggregate]
    /\ latest = [c \in Clients |-> 0]
    /\ next = [c \in Clients |-> 0]
    /\ from = [c \in Clients |-> 0]
    /\ outcome = [c \in Clients |-> "none"]
    /\ faults = 0

-----------------------------------------------------------------------------
(* Steps of control shared by the actions.                                  *)

\* The requests in R end.
FinishAll(R, how) ==
    /\ pc' = [c \in Clients |-> IF c \in R THEN "idle" ELSE pc[c]]
    /\ purpose' = [c \in Clients |-> IF c \in R THEN "none" ELSE purpose[c]]
    /\ agg' = [c \in Clients |-> IF c \in R THEN NewAggregate ELSE agg[c]]
    /\ latest' = [c \in Clients |-> IF c \in R THEN 0 ELSE latest[c]]
    /\ from' = [c \in Clients |-> IF c \in R THEN 0 ELSE from[c]]
    /\ outcome' = [c \in Clients |-> IF c \in R THEN how ELSE outcome[c]]

Finish(c, how) == FinishAll({c}, how)

\* LoadAsync returns aggregate to its caller.
Return(c, aggregate) ==
    /\ pc' = [pc EXCEPT ![c] = "ready"]
    /\ purpose' = [purpose EXCEPT ![c] = "none"]
    /\ agg' = [agg EXCEPT ![c] = aggregate]
    /\ latest' = [latest EXCEPT ![c] = 0]
    /\ UNCHANGED <<next, from, outcome>>

\* GetByVersionOrLast is called: the in-memory database is asked first.
StartLookup(c, why, aggregate) ==
    /\ pc' = [pc EXCEPT ![c] = IF AllowMemorySnapshots THEN "memory" ELSE "mongo"]
    /\ purpose' = [purpose EXCEPT ![c] = why]
    /\ agg' = [agg EXCEPT ![c] = aggregate]

\* The events after those aggregate has applied are to be read.
ReadForward(c, aggregate) ==
    /\ pc' = [pc EXCEPT ![c] = "forward"]
    /\ agg' = [agg EXCEPT ![c] = aggregate]
    /\ UNCHANGED <<purpose, latest, next, from, outcome>>

-----------------------------------------------------------------------------
(* LoadAsync                                                                *)

\* A handler constructs its aggregate and does not load it: Create of a book
\* ad, Register, the first round of the test console.
Construct(c) ==
    /\ pc[c] = "idle"
    /\ pc' = [pc EXCEPT ![c] = "ready"]
    /\ next' = [next EXCEPT ![c] = 0]
    /\ outcome' = [outcome EXCEPT ![c] = "none"]
    /\ UNCHANGED <<stores, purpose, agg, latest, from, faults>>

\* Enumerating a stream that does not exist throws: the request fails, and
\* neither `return aggregate` nor the controllers' test for an empty
\* aggregate is reached.
LoadMissingStream(c) ==
    /\ pc[c] = "idle"
    /\ stream = 0
    /\ next' = [next EXCEPT ![c] = 0]
    /\ Finish(c, "loadFailed")
    /\ UNCHANGED <<stores, faults>>

\* The first read of LoadAsync: everything when snapshots are off; otherwise
\* the last events, which are the whole stream when it is short.
LoadLatest(c) ==
    LET slice == EventsBackwards(stream, TakeSnapshotAfterEventsCount)
        full == Len(slice) = TakeSnapshotAfterEventsCount
        all == IF AllowSnapshotting
               THEN Load(NewAggregate, Reverse(slice))
               ELSE LoadAggregate(NewAggregate, EventsBetween(0, stream))
    IN  /\ pc[c] = "idle"
        /\ stream > 0
        /\ from' = [from EXCEPT ![c] = stream]
        /\ next' = [next EXCEPT ![c] = 0]
        /\ outcome' = [outcome EXCEPT ![c] = "none"]
        /\ \/ /\ AllowSnapshotting /\ full
              /\ StartLookup(c, "load", NewAggregate)
              /\ latest' = [latest EXCEPT ![c] = stream]
           \/ /\ ~(AllowSnapshotting /\ full)
              /\ pc' = [pc EXCEPT ![c] = "ready"]
              /\ agg' = [agg EXCEPT ![c] = all]
              /\ UNCHANGED <<purpose, latest>>
        /\ UNCHANGED <<stores, faults>>

\* Variant of LoadFromSnapshot: the slice is taken to complete any snapshot.
LoadFromAnySnapshot(c, snapshot) ==
    LET count == latest[c] % TakeSnapshotAfterEventsCount
        slice == EventsBackwards(latest[c], TakeSnapshotAfterEventsCount)
    IN  Return(c, Load(snapshot, Reverse(SubSeq(slice, 1, count))))

\* LoadAsync has found snapshot: it is the result, or the newest events of
\* the slice complete it, or the events after it are read.
LoadFromSnapshot(c, snapshot) ==
    LET count == latest[c] % TakeSnapshotAfterEventsCount
        slice == EventsBackwards(latest[c], TakeSnapshotAfterEventsCount)
        unapplied == Reverse(SubSeq(slice, 1, count))
    IN  \/ /\ count = 0
           /\ snapshot.Version = latest[c]
           /\ Return(c, snapshot)
        \/ /\ count # 0
           /\ snapshot.Version + 1 = Head(unapplied) + 1
           /\ Return(c, Load(snapshot, unapplied))
        \/ /\ IF count = 0 THEN snapshot.Version # latest[c]
                           ELSE snapshot.Version + 1 # Head(unapplied) + 1
           /\ ReadForward(c, snapshot)

-----------------------------------------------------------------------------
(* SaveAsync                                                                *)

\* Variant of CompletesInterval: the events are counted from Version + 1.
CompletesIntervalLate(aggregate, length) ==
    /\ AllowSnapshotting
    /\ PositionAfter(aggregate) + 1 < LastMultiple(length)
    /\ LastMultiple(length) <= length

\* Whether a save that found aggregate and leaves a stream of length events
\* has to see to a snapshot: an interval was completed since the load.
CompletesInterval(aggregate, length) ==
    /\ AllowSnapshotting
    /\ PositionAfter(aggregate) < LastMultiple(length)
    /\ LastMultiple(length) <= length

\* The events of the request are appended after whatever the stream holds by
\* now: StreamState.Any, not the version the request has loaded.
AppendToStream(c, k) ==
    LET lastEventVersion == stream + k
    IN  /\ pc[c] = "ready"
        /\ lastEventVersion <= MaxEvents
        /\ stream' = lastEventVersion
        /\ \/ /\ CompletesInterval(agg[c], lastEventVersion)
              /\ next' = [next EXCEPT ![c] = LastMultiple(lastEventVersion)]
              /\ from' = [from EXCEPT ![c] = 0]
              /\ StartLookup(c, "old", NewAggregate)
              /\ UNCHANGED <<latest, outcome>>
           \/ /\ ~CompletesInterval(agg[c], lastEventVersion)
              /\ Finish(c, "saved")
              /\ UNCHANGED next
        /\ UNCHANGED <<memory, mongo, faults>>

\* A query, a command its checks reject, or a save without changes.
EndWithoutChanges(c) ==
    /\ pc[c] = "ready"
    /\ Finish(c, "answered")
    /\ UNCHANGED <<stores, next, faults>>

\* Variant of ExtendSnapshot: the comparison is turned round.
ExtendNewerSnapshot(c, snapshot) ==
    \/ snapshot.Version = next[c] /\ Finish(c, "saved") /\ UNCHANGED next
    \/ snapshot.Version > next[c] /\ ReadForward(c, snapshot)
    \/ snapshot.Version < next[c] /\ Finish(c, "saveFailed") /\ UNCHANGED next

\* SaveAsync has found the old snapshot.  Requests that overtake each other
\* may find one that is newer than the one they are to take: they ask the
\* client for a negative number of events, which throws.
ExtendSnapshot(c, snapshot) ==
    \/ /\ snapshot.Version = next[c]
       /\ Finish(c, "saved")
       /\ UNCHANGED next
    \/ /\ snapshot.Version < next[c]
       /\ ReadForward(c, snapshot)
    \/ /\ snapshot.Version > next[c]
       /\ Finish(c, "saveFailed")
       /\ UNCHANGED next

-----------------------------------------------------------------------------
(* MongoMemorySnapshotStore.GetByVersionOrLast                              *)

\* Variant of Matching: the version asked for is not part of the filter.
MatchingAnyVersion(c, store) == store

\* The snapshots of a store that answer the lookup of c.
Matching(c, store) ==
    IF purpose[c] = "exists"
    THEN {s \in store : s.Version = agg[c].Version}
    ELSE store

\* OrderByDescending(Version), then the first.
Newest(snapshots) ==
    {s \in snapshots : \A t \in snapshots : t.Version <= s.Version}

SnapshotFound(c, snapshot) ==
    \/ purpose[c] = "load" /\ LoadFromSnapshot(c, snapshot)
    \/ purpose[c] = "old" /\ ExtendSnapshot(c, snapshot)
    \/ purpose[c] = "exists" /\ Finish(c, "saved") /\ UNCHANGED next

\* No snapshot at all: everything is read.  None of this version: insert it.
SnapshotMissing(c) ==
    \/ /\ purpose[c] \in {"load", "old"}
       /\ ReadForward(c, NewAggregate)
    \/ /\ purpose[c] = "exists"
       /\ pc' = [pc EXCEPT ![c] = "insertMongo"]
       /\ UNCHANGED <<purpose, agg, latest, next, from, outcome>>

LookupMemory(c) ==
    /\ pc[c] = "memory"
    /\ \/ \E s \in Newest(Matching(c, memory)) : SnapshotFound(c, s)
       \/ /\ Matching(c, memory) = {}
          /\ pc' = [pc EXCEPT ![c] = "mongo"]
          /\ UNCHANGED <<purpose, agg, latest, next, from, outcome>>
    /\ UNCHANGED <<stores, faults>>

LookupMongo(c) ==
    /\ pc[c] = "mongo"
    /\ \/ \E s \in Newest(Matching(c, mongo)) : SnapshotFound(c, s)
       \/ Matching(c, mongo) = {} /\ SnapshotMissing(c)
    /\ UNCHANGED <<stores, faults>>

-----------------------------------------------------------------------------
(* LoadAggregateAsync                                                       *)

\* Variant of Unread: takeCount is not passed on.
UnreadToTheEnd(c) == EventsBetween(PositionAfter(agg[c]), stream)

\* The events a forward read for c returns: for a load all the stream holds
\* by now, for a snapshot nextSnapshotVersion - Version of them at most.
Unread(c) ==
    LET to == IF purpose[c] = "old" /\ next[c] < stream THEN next[c] ELSE stream
    IN  EventsBetween(PositionAfter(agg[c]), to)

ForwardRead(c) ==
    LET aggregate == LoadAggregate(agg[c], Unread(c))
    IN  /\ pc[c] = "forward"
        /\ \/ purpose[c] = "load" /\ Return(c, aggregate)
           \/ /\ purpose[c] = "old"
              /\ StartLookup(c, "exists", aggregate)
              /\ UNCHANGED <<latest, next, from, outcome>>
        /\ UNCHANGED <<stores, faults>>

-----------------------------------------------------------------------------
(* MongoMemorySnapshotStore.Save, after its lookup                          *)

\* Variant of InsertMongo: the insert is started, never awaited, and lost.
InsertMongoForgotten(c) ==
    /\ pc[c] = "insertMongo"
    /\ pc' = [pc EXCEPT ![c] = "insertMemory"]
    /\ UNCHANGED <<stores, purpose, agg, latest, next, from, outcome, faults>>

InsertMongo(c) ==
    /\ pc[c] = "insertMongo"
    /\ mongo' = mongo \cup {agg[c]}
    /\ \/ /\ AllowMemorySnapshots
          /\ pc' = [pc EXCEPT ![c] = "insertMemory"]
          /\ UNCHANGED <<purpose, agg, latest, from, outcome>>
       \/ ~AllowMemorySnapshots /\ Finish(c, "saved")
    /\ UNCHANGED <<stream, memory, next, faults>>

\* The key of the in-memory table is (AggregateKey, Version): the second of
\* two requests that insert the same version fails.
InsertMemory(c) ==
    /\ pc[c] = "insertMemory"
    /\ \/ /\ \A s \in memory : s.Version # agg[c].Version
          /\ memory' = memory \cup {agg[c]}
          /\ Finish(c, "saved")
       \/ /\ \E s \in memory : s.Version = agg[c].Version
          /\ UNCHANGED memory
          /\ Finish(c, "saveFailed")
    /\ UNCHANGED <<stream, mongo, next, faults>>

-----------------------------------------------------------------------------
(* Failures of the servers and of the process                               *)

\* The call c awaits throws, without an effect on the server.
CallFails(c) ==
    /\ faults < MaxFaults
    /\ faults' = faults + 1
    /\ pc[c] \in Locations \ {"idle", "memory", "insertMemory"}
    /\ Finish(c, IF purpose[c] = "load" THEN "loadFailed" ELSE "saveFailed")
    /\ UNCHANGED <<stores, next>>

\* The call throws, but its effect on the server is there.
ReplyLost(c) ==
    /\ faults < MaxFaults
    /\ faults' = faults + 1
    /\ \/ /\ pc[c] = "ready"
          /\ \E k \in Batches : stream + k <= MaxEvents /\ stream' = stream + k
          /\ UNCHANGED mongo
       \/ /\ pc[c] = "insertMongo"
          /\ mongo' = mongo \cup {agg[c]}
          /\ UNCHANGED stream
    /\ Finish(c, "saveFailed")
    /\ UNCHANGED <<memory, next>>

\* The process stops and is started again: its requests and its in-memory
\* database are gone.
Restart ==
    /\ faults < MaxFaults
    /\ faults' = faults + 1
    /\ memory' = {}
    /\ FinishAll(Clients, "none")
    /\ UNCHANGED <<stream, mongo, next>>

-----------------------------------------------------------------------------

\* The steps by which the server goes on with a request it has begun.
Continue(c) ==
    \/ \E k \in Batches : AppendToStream(c, k)
    \/ EndWithoutChanges(c)
    \/ LookupMemory(c)
    \/ LookupMongo(c)
    \/ ForwardRead(c)
    \/ InsertMongo(c)
    \/ InsertMemory(c)

Next ==
    \/ \E c \in Clients :
          \/ Construct(c)
          \/ LoadMissingStream(c)
          \/ LoadLatest(c)
          \/ Continue(c)
          \/ CallFails(c)
          \/ ReplyLost(c)
    \/ Restart

Spec == Init /\ [][Next]_vars

\* No user has to send a request, but the server does not stop in the middle
\* of one: ASP.NET resumes each request when what it awaits has completed.
FairSpec == Spec /\ \A c \in Clients : WF_vars(Continue(c))
-----------------------------------------------------------------------------
(* Properties                                                               *)

\* A snapshot is the result of exactly the first Version events of the
\* stream, and Version is a completed interval.
FaithfulSnapshot(s) ==
    /\ s.Version \in 1..stream
    /\ s.Version % TakeSnapshotAfterEventsCount = 0
    /\ IsFoldOfItsVersion(s)

\* However loads and saves overlap, SaveAsync stores no snapshot, in either
\* database, that has an event twice, lacks one, or is ahead of the stream.
SnapshotsFaithful == \A s \in memory \cup mongo : FaithfulSnapshot(s)

\* Whatever way LoadAsync takes - the short slice, a snapshot completed by
\* the slice, a snapshot and a forward read, everything - the aggregate it
\* returns is the result of the first Version events, and is no older than
\* the stream was when the load began: a request reads its own writes and
\* those of every save that ended before it.
LoadsFaithful ==
    \A c \in Clients : pc[c] = "ready" =>
        /\ IsFoldOfItsVersion(agg[c])
        /\ PositionAfter(agg[c]) \in from[c]..stream

\* The in-memory database, which is asked first, never holds a snapshot that
\* MongoDB does not hold: after a restart nothing that was served before is
\* lost.
MemoryBacked == memory \subseteq mongo

\* What holds of a request between its awaits, and makes the two properties
\* above inductive: its aggregate never has an event out of place; the slice
\* of a load is no older than the load; the snapshot a save is to take ends a
\* completed interval that its forward read still has to reach; and what is
\* about to be inserted is a faithful snapshot, already in MongoDB when it is
\* the turn of the in-memory database.
RequestInv(c) ==
    /\ IsFoldOfItsVersion(agg[c])
    /\ PositionAfter(agg[c]) <= stream
    /\ from[c] <= stream
    /\ pc[c] \in {"idle", "ready"} => purpose[c] = "none"
    /\ pc[c] = "idle" => agg[c] = NewAggregate /\ from[c] = 0
    /\ pc[c] = "ready" => from[c] <= PositionAfter(agg[c])
    /\ purpose[c] = "load" => latest[c] \in 1..stream /\ from[c] <= latest[c]
    /\ purpose[c] = "old" =>
          /\ next[c] \in 1..stream
          /\ next[c] % TakeSnapshotAfterEventsCount = 0
          /\ pc[c] = "forward" => PositionAfter(agg[c]) < next[c]
    /\ purpose[c] = "exists" =>
          /\ FaithfulSnapshot(agg[c])
          /\ agg[c].Version = next[c]
    /\ pc[c] \in {"insertMongo", "insertMemory"} => purpose[c] = "exists"
    /\ pc[c] = "insertMemory" => agg[c] \in mongo

\* The inductive invariant of the specification.
IInv ==
    /\ TypeOK
    /\ SnapshotsFaithful
    /\ MemoryBacked
    /\ \A c \in Clients : RequestInv(c)

\* A save that has an interval's snapshot to see to.
SeesToSnapshot(c) == purpose[c] \in {"old", "exists"}

\* When no save is under way and no call has failed, the last completed
\* interval has its snapshot in MongoDB, so a load never reads more than an
\* interval of events after it: not even saves that take different turns in
\* the two databases leave an interval out.
SettledSnapshotIsLatest ==
    ( /\ AllowSnapshotting
      /\ faults = 0
      /\ stream >= TakeSnapshotAfterEventsCount
      /\ \A c \in Clients : ~SeesToSnapshot(c) )
    => \E s \in mongo : s.Version >= LastMultiple(stream)

\* A save can fail with every server up: a second insert of the same key into
\* the in-memory database, an old snapshot that has overtaken the save.  It
\* has then appended its events, and the snapshot it was to take, or a later
\* one, is there already.
FailedSaveIsCovered ==
    \A c \in Clients : (outcome[c] = "saveFailed" /\ faults = 0) =>
        /\ next[c] # 0
        /\ \E s \in mongo : s.Version >= next[c]

\* The calls a request may still await, by the call it awaits next and by what
\* that is for.
Remaining == [idle |-> 0, insertMemory |-> 1, insertMongo |-> 2, forward |-> 3,
              mongo |-> 4, memory |-> 5, ready |-> 9]

Later == [none |-> 0, exists |-> 0, old |-> 3, load |-> 7]

StepsLeft(c) == Remaining[pc[c]] + Later[purpose[c]]

\* However requests overtake each other, none is sent back to a call it has made:
\* each call it awaits brings it nearer to its end, and no other request or fault
\* makes its way longer, so it ends after a dozen calls at most.
RequestsGetOn ==
    [][ \A c \in Clients :
          /\ Continue(c) => StepsLeft(c)' < StepsLeft(c)
          /\ pc[c] # "idle" => StepsLeft(c)' <= StepsLeft(c) ]_vars

\* Each interval the stream completes gets a snapshot, or a later one, unless
\* a call fails or the process stops.
SnapshotEventually ==
    AllowSnapshotting =>
        \A m \in 1..MaxEvents : m % TakeSnapshotAfterEventsCount = 0 =>
            (stream >= m ~> faults > 0 \/ \E s \in mongo : s.Version >= m)

\* What a request is doing, and the events its handler sees applied, when
\* nothing is known of snapshots and slices.
PhaseOf(c) ==
    IF pc[c] = "idle" THEN "none"
    ELSE IF pc[c] = "ready" THEN "loaded"
    ELSE IF purpose[c] = "load" THEN "loading"
    ELSE "saving"

AppliedOf(c) == IF pc[c] = "ready" THEN agg[c].applied ELSE <<>>

\* The repository implements the store without snapshots: for the handlers,
\* snapshots change nothing but how much is read.
Abstract == INSTANCE AggregateStore WITH
    phase <- [c \in Clients |-> PhaseOf(c)],
    state <- [c \in Clients |-> AppliedOf(c)]

ImplementsAggregateStore == Abstract!Spec
=============================================================================

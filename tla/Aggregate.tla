------------------------------ MODULE Aggregate ------------------------------
(***************************************************************************)
(* The event-sourced aggregate: BooksRentalSystem.EventSourcing/Aggregates/ *)
(* Aggregate.cs and the two places that rebuild one from stored events.     *)
(*                                                                          *)
(* An event is its event number, 0 for the first event of a stream.  What   *)
(* When does to the fields of a BookAdAggregate or a UserAggregate is       *)
(* abstracted to the sequence of the event numbers When was called with,    *)
(* in order: an event applied twice, left out or out of its place gives a   *)
(* different sequence, whichever fields the events touch (ViewsNumber++ is  *)
(* not idempotent, OnBookAdUpdated does not commute).                       *)
(***************************************************************************)
EXTENDS Integers, SequencesExt

CONSTANT
    TakeSnapshotAfterEventsCount  \* 100 in the code

ASSUME IntervalAssumption == TakeSnapshotAfterEventsCount \in Nat \ {0}

Aggregates == [Version : Nat \cup {-1}, applied : Seq(Nat)]

\* new TAggregate { Id = aggregateId }
NewAggregate == [Version |-> -1, applied |-> <<>>]

\* The position of the first event an aggregate has not applied yet; it is
\* also the Version SaveAsync compares, with -1 read as 0.
PositionAfter(aggregate) ==
    IF aggregate.Version = -1 THEN 0 ELSE aggregate.Version

\* The events a forward read returns: numbers from, ..., to - 1.
EventsBetween(from, to) == [i \in 1..(to - from) |-> from + i - 1]

\* The events a backward read from the end of a stream of length events
\* returns: at most count of them, the newest first.
EventsBackwards(length, count) ==
    [i \in 1..(IF length < count THEN length ELSE count) |-> length - i]

\* Aggregate.Load: When for every event of the history, and Version becomes
\* the number of the last one plus one.
Load(aggregate, history) ==
    IF history = <<>>
    THEN aggregate
    ELSE [Version |-> Last(history) + 1, applied |-> aggregate.applied \o history]

\* LoadAggregateAsync after its read: nothing to apply, an early return when
\* the first event read ends an interval the aggregate already stands at, or
\* the events applied.
LoadAggregate(aggregate, events) ==
    IF /\ events # <<>>
       /\ (Head(events) + 1) % TakeSnapshotAfterEventsCount = 0
       /\ aggregate.Version = Head(events) + 1
    THEN aggregate
    ELSE Load(aggregate, events)

\* What every load and every snapshot promises: the aggregate at version v is
\* the result of the first v events, each once and in order.
IsFoldOfItsVersion(aggregate) ==
    aggregate.applied = EventsBetween(0, PositionAfter(aggregate))

\* The last multiple of the snapshot interval in a stream of length events.
LastMultiple(length) == length - (length % TakeSnapshotAfterEventsCount)
=============================================================================

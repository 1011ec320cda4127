-------------------------- MODULE BookAdStatistics --------------------------
(***************************************************************************)
(* The Statistics service: its BookAdsHostedService handles the events of   *)
(* all book ads behind a persistent subscription of its own, counts the ads *)
(* that were created, and remembers each in ProcessedBookAds in the same    *)
(* transaction, so that an event that comes again is not counted again.     *)
(* Its host starts the subscription before Configure migrates the database  *)
(* and seeds the row that holds the count.                                  *)
(***************************************************************************)
EXTENDS PersistentSubscription

CONSTANTS
    Ads,         \* the book ads
    MaxFailures  \* bound: exceptions of the database

ASSUME StatisticsAssumption == MaxFailures \in Nat

VARIABLES
    seeded,     \* the database is migrated and has its Statistics row
    total,      \* TotalBookAds
    processed,  \* ProcessedBookAds
    failures    \* exceptions of the database so far

statisticsVars == <<seeded, total, processed, failures>>

vars == <<log, subscriptionVars, statisticsVars>>

Types == {"BookAdCreatedEvent", "BookAdUpdatedEvent", "BookAdViewedEvent",
          "BookAdAvailabilityChangedEvent", "BookAdDeletedEvent"}

TypeOK ==
    /\ SubscriptionTypeOK
    /\ log \in Seq([type : Types, ad : Ads])
    /\ seeded \in BOOLEAN
    /\ total \in 0..MaxEvents
    /\ processed \subseteq Ads
    /\ failures \in 0..MaxFailures

Init ==
    /\ SubscriptionInit
    /\ seeded = FALSE
    /\ total = 0
    /\ processed = {}
    /\ failures = 0

CreatedAds == {log[p].ad : p \in {q \in 1..Len(log) : log[q].type = "BookAdCreatedEvent"}}

-----------------------------------------------------------------------------
(* Which handler an event goes to (ProcessEventAsync)                       *)

\* NameHelper.GetAggregateName drops "Aggregate" from the name of the type,
\* and the name of a stream begins with the result.
AggregateTypeName == "BookAdAggregate"
StreamName == "BookAd"

\* The handler that skips events is registered under the type argument of its
\* base class.
SkipHandlerKey == AggregateTypeName

SkippedEventTypes == {"BookAdUpdatedEvent", "BookAdAvailabilityChangedEvent",
                      "BookAdDeletedEvent"}

Descriptors == {"BookAdCreatedEvent", SkipHandlerKey}

\* An event without a handler is skipped if the handler found under the name
\* of its stream lists its type.
Skips(type) == StreamName \in Descriptors /\ type \in SkippedEventTypes

-----------------------------------------------------------------------------

\* A request of the Publishers service: an ad is created once, and then viewed,
\* updated, opened, closed, deleted.
Request ==
    /\ \E ad \in Ads, type \in Types :
          /\ (type = "BookAdCreatedEvent") <=> ad \notin CreatedAds
          /\ AppendToLog([type |-> type, ad |-> ad])
    /\ UNCHANGED statisticsVars

\* Configure: the web server of the host starts after its hosted services.
Seed ==
    /\ ~seeded
    /\ seeded' = TRUE
    /\ UNCHANGED <<log, subscriptionVars, total, processed, failures>>

\* Variant of OnCreated: the count is not under the test for a duplicate.
OnCreatedAgain(p) ==
    /\ log[p].type = "BookAdCreatedEvent"
    /\ seeded
    /\ Handled(p, TRUE)
    /\ total' = total + 1
    /\ processed' = processed \cup {log[p].ad}
    /\ UNCHANGED <<seeded, failures>>

\* Without its table, or its row, the handler throws.
OnCreated(p) ==
    /\ log[p].type = "BookAdCreatedEvent"
    /\ Handled(p, seeded)
    /\ IF seeded /\ log[p].ad \notin processed
       THEN total' = total + 1 /\ processed' = processed \cup {log[p].ad}
       ELSE UNCHANGED <<total, processed>>
    /\ UNCHANGED <<seeded, failures>>

OnOther(p) ==
    /\ log[p].type \notin Descriptors
    /\ Handled(p, Skips(log[p].type))
    /\ UNCHANGED statisticsVars

Handle == queue # <<>> /\ (OnCreated(Head(queue)) \/ OnOther(Head(queue)))

\* SaveChanges, or a query before it, throws: nothing is saved.
DatabaseFails ==
    /\ failures < MaxFailures
    /\ failures' = failures + 1
    /\ queue # <<>>
    /\ log[Head(queue)].type = "BookAdCreatedEvent"
    /\ Handled(Head(queue), FALSE)
    /\ UNCHANGED <<seeded, total, processed>>

Deliver ==
    /\ SendNext \/ SendAgain \/ Answer
    /\ UNCHANGED statisticsVars

Next ==
    \/ Request
    \/ Seed
    \/ Handle
    \/ DatabaseFails
    \/ Deliver
    \/ Faults /\ UNCHANGED statisticsVars

Spec == Init /\ [][Next]_vars

\* The server sends, the client handles, and Configure follows.
FairSpec == Spec /\ WF_vars(Deliver) /\ WF_vars(Handle) /\ WF_vars(Seed)

-----------------------------------------------------------------------------
(* Properties                                                               *)

\* However often events are sent, and wherever the service crashes, each ad is
\* counted once.
CountedOnce == total = Cardinality(processed)

\* When every event is answered, an ad that is not counted has its creation in
\* the parked stream, where it can be found: no answer and no fault loses it.
CountIsComplete ==
    Quiet =>
        \A p \in 1..Len(log) :
            (log[p].type = "BookAdCreatedEvent" /\ log[p].ad \notin processed)
            => p \in parked

\* An ad is counted in the end unless its creation is parked, whatever breaks.
CountedInTheEnd ==
    \A ad \in Ads : (ad \in CreatedAds) ~>
        \/ ad \in processed
        \/ \E p \in parked : log[p].ad = ad /\ log[p].type = "BookAdCreatedEvent"

\* DefaultBookAdEventHandler lists updates, changes of availability and
\* deletions as skipped: such an event is acknowledged and not parked.
SkippedIsNotParked == \A p \in parked : log[p].type \notin SkippedEventTypes
=============================================================================

----------------------- MODULE BookAdStatisticsProofs -----------------------
(***************************************************************************)
(* For any number of ads, events, faults and failures: the Statistics       *)
(* service counts each ad once, and an ad it does not count has its         *)
(* creation in the parked stream.                                           *)
(***************************************************************************)
EXTENDS BookAdStatistics, PersistentSubscriptionProofs, FiniteSetTheorems

Event == [type : Types, ad : Ads]

IsCreation(p) == log[p].type = "BookAdCreatedEvent"

StateInv ==
    /\ DeliveryInv
    /\ log \in Seq(Event)
    /\ seeded \in BOOLEAN
    /\ failures \in 0..MaxFailures
    /\ processed \subseteq CreatedAds

\* The count is of ads that were created, so it is no more than the events.
CountInv ==
    /\ IsFiniteSet(CreatedAds)
    /\ Cardinality(CreatedAds) <= Len(log)
    /\ total = Cardinality(processed)

\* A creation is acknowledged only when its ad is counted, by this handling
\* of it or by an earlier one.
HandledInv ==
    /\ \A p \in settled : IsCreation(p) => log[p].ad \in processed
    /\ answer.ack /\ IsCreation(answer.event) => log[answer.event].ad \in processed

IInv == StateInv /\ CountInv /\ HandledInv

-----------------------------------------------------------------------------

\* The subscription is new and nothing is counted.
LEMMA InitialState == Init => IInv
<1> SUFFICES ASSUME Init PROVE IInv
  OBVIOUS
<1>1. DeliveryInv
  BY DeliveryInit DEF Init
<1>2. log = <<>> /\ settled = {} /\ answer = NoAnswer /\ Len(log) = 0
  BY DEF Init, SubscriptionInit
<1>3. CreatedAds = {}
  BY <1>2 DEF CreatedAds
<1>4. StateInv
  <2>1. log \in Seq(Event)
    BY <1>2
  <2>2. failures \in 0..MaxFailures
    BY StatisticsAssumption DEF Init
  <2> QED
    BY <1>1, <2>1, <2>2 DEF Init, StateInv
<1>5. CountInv
  BY <1>2, <1>3, FS_EmptySet DEF Init, CountInv
<1> QED
  BY <1>2, <1>4, <1>5 DEF IInv, HandledInv, NoAnswer

\* A step of the subscription: an acknowledged answer is settled, and a fault
\* drops the answer.
LEMMA DeliveryPreserves ==
    ASSUME IInv, DeliveryInv',
           UNCHANGED <<log, seeded, total, processed, failures>>,
           answer' \in {answer, NoAnswer},
           \A p \in settled' : p \in settled \/ (answer.ack /\ p = answer.event)
    PROVE  IInv'
<1>1. CreatedAds' = CreatedAds
  BY DEF CreatedAds
<1>2. StateInv' /\ CountInv'
  BY <1>1 DEF IInv, StateInv, CountInv
<1>3. HandledInv'
  BY DEF IInv, HandledInv, IsCreation, NoAnswer
<1> QED
  BY <1>2, <1>3 DEF IInv

\* An event that is appended is not handled yet, and creates one ad at most.
LEMMA RequestPreserves ==
    ASSUME IInv, Request
    PROVE  IInv'
<1>1. PICK e \in Event : AppendToLog(e)
  BY DEF Request, Event
<1>2. DeliveryInv' /\ log' \in Seq(Event)
  BY <1>1, DeliveryAppend DEF IInv, StateInv
<1>3. /\ UNCHANGED <<settled, answer, seeded, total, processed, failures>>
      /\ Len(log) \in Nat /\ Len(log') = Len(log) + 1
      /\ log'[Len(log) + 1] = e
      /\ \A p \in 1..Len(log) : log'[p] = log[p]
  BY <1>1
  DEF Request, AppendToLog, subscriptionVars, statisticsVars, IInv, StateInv
<1>4. CreatedAds \subseteq CreatedAds' /\ CreatedAds' \subseteq CreatedAds \cup {e.ad}
  <2>1. \A p \in 1..Len(log') : p \in 1..Len(log) \/ p = Len(log) + 1
    BY <1>3
  <2>2. 1..Len(log) \subseteq 1..Len(log')
    BY <1>3
  <2> QED
    BY <1>3, <2>1, <2>2 DEF CreatedAds
<1>5. CountInv'
  <2>1. /\ IsFiniteSet(CreatedAds \cup {e.ad})
        /\ Cardinality(CreatedAds \cup {e.ad}) <= Cardinality(CreatedAds) + 1
        /\ Cardinality(CreatedAds) \in Nat
    <3>1. IsFiniteSet(CreatedAds)
      BY DEF IInv, CountInv
    <3>2. Cardinality(CreatedAds) \in Nat
      BY <3>1, FS_CardinalityType
    <3> QED
      BY <3>1, <3>2, FS_AddElement
  <2>2. /\ IsFiniteSet(CreatedAds')
        /\ Cardinality(CreatedAds') <= Cardinality(CreatedAds \cup {e.ad})
    BY <1>4, <2>1, FS_Subset
  <2>3. Cardinality(CreatedAds') \in Nat /\ Cardinality(CreatedAds \cup {e.ad}) \in Nat
    BY <2>1, <2>2, FS_CardinalityType
  <2>4. Cardinality(CreatedAds)' <= Len(log)'
    BY <1>3, <2>1, <2>2, <2>3 DEF IInv, CountInv
  <2> QED
    BY <1>3, <2>2, <2>4 DEF IInv, CountInv
<1>6. HandledInv'
  <2>1. settled \subseteq 1..Len(log) /\ (answer.ack => answer.event \in 1..Len(log))
    BY DEF IInv, StateInv, DeliveryInv, Logged, NoAnswer
  <2> QED
    BY <1>3, <2>1 DEF IInv, HandledInv, IsCreation
<1> QED
  BY <1>2, <1>3, <1>4, <1>5, <1>6 DEF IInv, StateInv

\* An event that the handler refuses, or that is no creation.
LEMMA RefusedPreserves ==
    ASSUME IInv, NEW p, NEW ack \in BOOLEAN, Handled(p, ack),
           ack => ~IsCreation(p), UNCHANGED <<seeded, total, processed>>,
           failures' \in 0..MaxFailures
    PROVE  IInv'
<1>1. DeliveryInv'
  BY DeliveryHandled DEF IInv, StateInv
<1>2. UNCHANGED <<log, settled>> /\ answer' = [event |-> p, ack |-> ack]
  BY DEF Handled
<1>3. CreatedAds' = CreatedAds
  BY <1>2 DEF CreatedAds
<1>4. HandledInv'
  BY <1>2 DEF IInv, HandledInv, IsCreation
<1> QED
  BY <1>1, <1>2, <1>3, <1>4 DEF IInv, StateInv, CountInv

\* A creation: counted, found among those processed, or refused.
LEMMA OnCreatedPreserves ==
    ASSUME IInv, NEW p, OnCreated(p)
    PROVE  IInv'
<1>1. Handled(p, seeded) /\ IsCreation(p) /\ UNCHANGED <<seeded, failures>>
      /\ failures \in 0..MaxFailures /\ seeded \in BOOLEAN
  BY DEF OnCreated, IsCreation, IInv, StateInv
<1>2. CASE ~seeded
  BY <1>1, <1>2, RefusedPreserves DEF OnCreated
<1>3. CASE seeded
  <2>1. DeliveryInv' /\ p \in Logged
    BY <1>1, DeliveryHandled DEF IInv, StateInv
  <2>2. /\ UNCHANGED <<log, settled>> /\ answer'.event = p
        /\ processed' = processed \cup {log[p].ad}
        /\ total' = IF log[p].ad \in processed THEN total ELSE total + 1
    BY <1>1, <1>3 DEF Handled, OnCreated
  <2>3. CreatedAds' = CreatedAds /\ log[p].ad \in CreatedAds
    BY <1>1, <2>1, <2>2 DEF CreatedAds, Logged, IsCreation
  <2>4. IsFiniteSet(processed)
    BY FS_Subset DEF IInv, StateInv, CountInv
  <2>5. total' = Cardinality(processed')
    BY <2>2, <2>4, FS_AddElement DEF IInv, CountInv
  <2>6. HandledInv'
    BY <2>2 DEF IInv, HandledInv, IsCreation
  <2> QED
    BY <1>1, <2>1, <2>2, <2>3, <2>5, <2>6 DEF IInv, StateInv, CountInv
<1> QED
  BY <1>1, <1>2, <1>3

-----------------------------------------------------------------------------
(* The theorems.                                                            *)

\* IInv is inductive, however often events are sent and handled.
THEOREM Invariance == Spec => []IInv
<1>1. IInv /\ [Next]_vars => IInv'
  <2> SUFFICES ASSUME IInv, [Next]_vars
               PROVE  IInv'
    OBVIOUS
  <2>1. CASE Request
    BY <2>1, RequestPreserves
  <2>2. CASE Seed
    <3>1. DeliveryInv'
      BY <2>2, DeliveryStutter DEF Seed, IInv, StateInv
    <3>2. CreatedAds' = CreatedAds
      BY <2>2 DEF Seed, CreatedAds
    <3> QED
      BY <2>2, <3>1, <3>2
      DEF Seed, IInv, StateInv, CountInv, HandledInv, IsCreation, subscriptionVars
  <2>3. CASE Handle
    <3>1. CASE OnCreated(Head(queue))
      BY <3>1, OnCreatedPreserves
    <3>2. CASE OnOther(Head(queue))
      BY <3>2, RefusedPreserves
      DEF OnOther, Skips, Descriptors, IsCreation, statisticsVars, IInv, StateInv
    <3> QED
      BY <2>3, <3>1, <3>2 DEF Handle
  <2>4. CASE DatabaseFails
    <3>1. failures' \in 0..MaxFailures
      BY <2>4, StatisticsAssumption DEF DatabaseFails, IInv, StateInv
    <3> QED
      BY <2>4, <3>1, RefusedPreserves DEF DatabaseFails
  <2>5. CASE Deliver
    <3>1. CASE SendNext \/ SendAgain
      BY <2>5, <3>1, DeliverySend, DeliveryPreserves
      DEF Deliver, SendNext, SendAgain, statisticsVars, IInv, StateInv
    <3>2. CASE Answer
      BY <2>5, <3>2, DeliveryAnswer, DeliveryPreserves
      DEF Deliver, Answer, statisticsVars, IInv, StateInv
    <3> QED
      BY <2>5, <3>1, <3>2 DEF Deliver
  <2>6. CASE Faults /\ UNCHANGED statisticsVars
    <3>1. DeliveryInv'
      BY <2>6, DeliveryFaults DEF IInv, StateInv
    <3> QED
      BY <2>6, <3>1, DeliveryPreserves
      DEF Faults, TimeOut, Disconnect, ServerRestart, statisticsVars
  <2>7. CASE UNCHANGED vars
    BY <2>7, DeliveryStutter, DeliveryPreserves
    DEF vars, subscriptionVars, statisticsVars, IInv, StateInv
  <2> QED
    BY <2>1, <2>2, <2>3, <2>4, <2>5, <2>6, <2>7 DEF Next
<1> QED
  BY <1>1, InitialState, PTL DEF Spec

\* Type correctness; the count is bounded by the events of the log.
THEOREM TypeCorrect == Spec => []TypeOK
<1>1. IInv => TypeOK
  <2> SUFFICES ASSUME IInv PROVE TypeOK
    OBVIOUS
  <2>1. /\ IsFiniteSet(processed) /\ IsFiniteSet(CreatedAds)
        /\ Cardinality(processed) <= Cardinality(CreatedAds)
    BY FS_Subset DEF IInv, StateInv, CountInv
  <2>2. Cardinality(processed) \in Nat /\ Cardinality(CreatedAds) \in Nat
    BY <2>1, FS_CardinalityType
  <2>3. Len(log) \in Nat /\ Len(log) <= MaxEvents
    BY DEF IInv, StateInv, DeliveryInv, SubscriptionTypeOK
  <2>4. total \in 0..MaxEvents
    BY <2>1, <2>2, <2>3, SubscriptionAssumption DEF IInv, CountInv
  <2>5. CreatedAds \subseteq Ads
    <3>1. \A p \in 1..Len(log) : log[p] \in Event
      BY DEF IInv, StateInv
    <3>2. \A p \in 1..Len(log) : log[p].ad \in Ads
      BY <3>1 DEF Event
    <3> QED
      BY <3>2 DEF CreatedAds
  <2> QED
    BY <2>4, <2>5 DEF TypeOK, IInv, StateInv, DeliveryInv, Event
<1> QED
  BY <1>1, Invariance, PTL

\* A creation that comes again, after a late answer, a lost connection, a crash
\* or a restart of the event store, is not counted again.
THEOREM AdsAreCountedOnce == Spec => []CountedOnce
<1>1. IInv => CountedOnce
  BY DEF IInv, CountInv, CountedOnce
<1> QED
  BY <1>1, Invariance, PTL

\* When every event is answered, an ad that is not counted has its creation in
\* the parked stream.
THEOREM CountsAreComplete == Spec => []CountIsComplete
<1>1. IInv => CountIsComplete
  <2> SUFFICES ASSUME IInv, Quiet, NEW p \in 1..Len(log),
                      log[p].type = "BookAdCreatedEvent", log[p].ad \notin processed
               PROVE  p \in parked
    BY DEF CountIsComplete
  <2>1. p \in settled \cup parked
    BY DEF IInv, StateInv, DeliveryInv, NothingLost, Quiet
  <2> QED
    BY <2>1 DEF IInv, HandledInv, IsCreation
<1> QED
  BY <1>1, Invariance, PTL

-----------------------------------------------------------------------------
(* The subscription behind the handlers.                                    *)

\* A request appends one event, and the rest is done to the subscription.
LEMMA SubscriptionSteps ==
    ASSUME IInv, [Next]_vars
    PROVE  SubscriptionNext(Event)
<1>1. CASE Request
  BY <1>1 DEF Request, Event, SubscriptionNext
<1>2. CASE Handle
  <2>1. \E p, ack : Handled(p, ack)
    BY <1>2 DEF Handle, OnCreated, OnOther
  <2> QED
    BY <2>1 DEF SubscriptionNext
<1> QED
  BY <1>1, <1>2
  DEF Next, Seed, DatabaseFails, Deliver, SubscriptionNext, vars, subscriptionVars

\* An event that is not answered is with the client, and as long as no answer is
\* late the events are handled in order.
LEMMA ClientInvariance == Spec => [](WithClient /\ InOrder)
<1>1. Init => WithClient /\ InOrder
  BY ClientInit DEF Init
<1>2. IInv /\ WithClient /\ InOrder /\ [Next]_vars => WithClient' /\ InOrder'
  BY SubscriptionSteps, ClientPreserved, OrderPreserved DEF IInv, StateInv
<1> QED
  BY <1>1, <1>2, Invariance, PTL DEF Spec

\* Events that Statistics refuses do not fill its buffer: its subscription has
\* always something to send, to handle or to answer, or is at rest.
THEOREM NeverComesToAHalt == Spec => []NeverStuck
<1>1. IInv /\ WithClient => NeverStuck
  BY CanAlwaysGoOn DEF IInv, StateInv
<1> QED
  BY <1>1, Invariance, ClientInvariance, PTL

\* A creation that cannot be counted is parked and not tried again and again:
\* each handling brings the subscription nearer to rest.
THEOREM ComesNearerToRest == Spec => WorkShrinks
<1>1. IInv /\ [Next]_vars =>
          [ \/ UNCHANGED subscriptionVars
            \/ Work' < Work
            \/ timeouts' > timeouts
            \/ breaks' > breaks ]_<<log, subscriptionVars>>
  BY SubscriptionSteps, WorkLeft DEF IInv, StateInv
<1> QED
  BY <1>1, Invariance, PTL DEF Spec, WorkShrinks

\* Until an answer is late Statistics has the events in order, each when the one
\* before is answered, and starts over only behind what was answered.
THEOREM HandlersReplayTheLog == Spec => ImplementsReplayedLog
<1>1. Init => Replayed!Init
  BY ReplayInit DEF Init
<1>2. IInv /\ IInv' /\ InOrder /\ [Next]_vars =>
          [timeouts' = 0 => Replayed!Next \/ UNCHANGED Replayed!vars]_<<log, subscriptionVars>>
  BY SubscriptionSteps, ReplayStep DEF IInv, StateInv
<1> QED
  BY <1>1, <1>2, Invariance, ClientInvariance, PTL DEF Spec, ImplementsReplayedLog
=============================================================================

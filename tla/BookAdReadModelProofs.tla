----------------------- MODULE BookAdReadModelProofs -----------------------
(***************************************************************************)
(* For any number of requests, events, faults and failures: no event of an  *)
(* ad is lost between the server and the handlers, none is parked without a *)
(* reason while the database is up, and the row comes back to what the      *)
(* events say however often they are replayed.                              *)
(***************************************************************************)
EXTENDS BookAdReadModel, PersistentSubscriptionProofs

Event == [type : Types, valid : BOOLEAN]

StateInv ==
    /\ DeliveryInv
    /\ log \in Seq(Event)
    /\ row \in [data : 0..MaxEvents, available : BOOLEAN]
    /\ row # NoRow => row.data \in Positions
    /\ request \in [Clients -> CommandTypes \cup {"none"}]
    /\ failures \in 0..MaxFailures
    /\ log # <<>> => log[1].type = "Created"
    /\ log = <<>> => \A c \in Clients : request[c] = "none"

Reason(p) ==
    \/ log[p].type = "Viewed"
    \/ ~log[p].valid
    \/ ~log[1].valid
    \/ Deleted

\* An event is refused for a reason.
RefusedInv ==
    failures = 0 =>
        /\ \A p \in parked : Reason(p)
        /\ answer # NoAnswer /\ ~answer.ack => Reason(answer.event)

\* The ad is to have a row, and has none yet.
Awaited ==
    /\ failures = 0
    /\ log # <<>> /\ log[1].valid /\ ~Deleted
    /\ row = NoRow

\* Then its creation was not handled, and is ahead of its other events.
AwaitedInv ==
    Awaited =>
        /\ 1 \notin settled
        /\ answer.event # 1
        /\ 1 > sent \/ 1 \in retry \/ \E k \in 1..Len(queue) : queue[k] = 1
        /\ \A k \in 1..Len(queue) : \E j \in 1..k : queue[j] = 1

IInv == StateInv /\ RefusedInv /\ AwaitedInv

-----------------------------------------------------------------------------

THEOREM InitialState == Init => IInv
<1> SUFFICES ASSUME Init PROVE IInv
  OBVIOUS
<1>1. DeliveryInv
  BY DeliveryInit DEF Init
<1>2. log = <<>> /\ parked = {} /\ answer = NoAnswer
  BY DEF Init, SubscriptionInit
<1>3. StateInv
  BY <1>1, <1>2, ReadModelAssumption, SubscriptionAssumption
  DEF Init, StateInv, NoRow
<1> QED
  BY <1>2, <1>3 DEF IInv, RefusedInv, AwaitedInv, Awaited

\* A request that was let through, or a step that does nothing.
LEMMA RequestPreserves ==
    ASSUME IInv, UNCHANGED <<log, subscriptionVars, row, failures>>,
           request' \in [Clients -> CommandTypes \cup {"none"}],
           request' = request \/ log # <<>>
    PROVE  IInv'
<1>1. DeliveryInv'
  BY DeliveryStutter DEF IInv, StateInv
<1>2. StateInv'
  BY <1>1 DEF IInv, StateInv
<1>3. RefusedInv'
  BY DEF IInv, RefusedInv, Reason, Deleted, Is, subscriptionVars, NoAnswer
<1>4. AwaitedInv'
  BY DEF IInv, AwaitedInv, Awaited, Deleted, Is, subscriptionVars
<1> QED
  BY <1>2, <1>3, <1>4 DEF IInv

\* An event is appended: the first is a creation, the others are not.
LEMMA AppendPreserves ==
    ASSUME IInv, NEW e \in Event, AppendToLog(e),
           log = <<>> => e.type = "Created",
           UNCHANGED <<row, failures>>,
           request' \in [Clients -> CommandTypes \cup {"none"}]
    PROVE  IInv'
<1>1. DeliveryInv' /\ log' \in Seq(Event)
  BY DeliveryAppend DEF IInv, StateInv
<1>2. UNCHANGED <<sent, retry, inflight, parked, queue, answer, settled>>
  BY DEF AppendToLog, subscriptionVars
<1>3. /\ Len(log) \in Nat
      /\ Len(log') = Len(log) + 1
      /\ log'[Len(log) + 1] = e
      /\ \A p \in Logged : log'[p] = log[p]
      /\ log = <<>> <=> Len(log) = 0
      /\ log' # <<>>
  BY DEF AppendToLog, IInv, StateInv, Logged
<1>4. log # <<>> => log'[1] = log[1]
  BY <1>3 DEF Logged
<1>5. StateInv'
  BY <1>1, <1>3, <1>4 DEF IInv, StateInv
<1>6. Deleted => Deleted'
  BY <1>3 DEF Deleted, Is, Logged
<1>7. RefusedInv'
  <2>1. parked \subseteq Logged /\ (answer # NoAnswer => answer.event \in Logged)
    BY DEF IInv, StateInv, DeliveryInv
  <2>2. \A p \in Logged : Reason(p) => Reason(p)'
    <3>1. Logged # {} => log # <<>>
      BY <1>3 DEF Logged
    <3> QED
      BY <1>3, <1>4, <1>6, <3>1 DEF Reason
  <2> QED
    BY <1>2, <2>1, <2>2 DEF IInv, RefusedInv, NoAnswer
<1>8. AwaitedInv'
  <2>1. CASE log = <<>>
    <3>1. /\ sent = 0 /\ queue = <<>> /\ settled = {}
          /\ answer = NoAnswer
      <4>1. Logged = {} /\ sent = 0
        BY <1>3, <2>1 DEF Logged, IInv, StateInv, DeliveryInv, SubscriptionTypeOK
      <4> QED
        BY <4>1 DEF IInv, StateInv, DeliveryInv
    <3> QED
      BY <1>2, <3>1 DEF AwaitedInv, NoAnswer
  <2>2. CASE log # <<>>
    <3>1. Awaited' => Awaited
      BY <1>4, <1>6, <2>2 DEF Awaited
    <3> QED
      BY <1>2, <3>1 DEF IInv, AwaitedInv
  <2> QED
    BY <2>1, <2>2
<1> QED
  BY <1>5, <1>7, <1>8 DEF IInv

-----------------------------------------------------------------------------
(* Delivery.                                                                *)

\* What a step of the subscription cannot disturb.
LEMMA DeliveryFrame ==
    ASSUME IInv, DeliveryInv', UNCHANGED <<log, row, request, failures>>
    PROVE  StateInv' /\ (Awaited' <=> Awaited) /\ (\A p : Reason(p)' <=> Reason(p))
<1>1. StateInv'
  BY DEF IInv, StateInv
<1>2. Deleted' <=> Deleted
  BY DEF Deleted, Is
<1>3. Awaited' <=> Awaited
  BY <1>2 DEF Awaited
<1>4. \A p : Reason(p)' <=> Reason(p)
  BY <1>2 DEF Reason
<1> QED
  BY <1>1, <1>3, <1>4

\* The creation is the first to be sent, and the first to be sent again.
LEMMA SendPreserves ==
    ASSUME IInv, SendNext \/ SendAgain, UNCHANGED <<row, request, failures>>
    PROVE  IInv'
<1>1. UNCHANGED <<log, parked, answer, settled>>
  BY DEF SendNext, SendAgain
<1>2. DeliveryInv'
  BY DeliverySend DEF IInv, StateInv
<1>3. StateInv' /\ (Awaited' <=> Awaited) /\ (\A p : Reason(p)' <=> Reason(p))
  BY <1>1, <1>2, DeliveryFrame
<1>4. PICK p \in Logged :
          /\ queue' = Append(queue, p)
          /\ \/ sent' = sent + 1 /\ p = sent + 1 /\ retry' = retry /\ retry = {}
             \/ sent' = sent /\ retry' = retry \ {p} /\ p \in retry
          /\ \A q \in retry : p <= q
  <2>1. CASE SendNext
    <3>1. sent + 1 \in Logged
      BY <2>1 DEF SendNext, Logged, IInv, StateInv, DeliveryInv, SubscriptionTypeOK
    <3> QED
      BY <2>1, <3>1 DEF SendNext, Send
  <2>2. CASE SendAgain
    <3>1. PICK p \in retry :
              /\ \A q \in retry : p <= q
              /\ retry' = retry \ {p}
              /\ Send(p)
              /\ sent' = sent
      BY <2>2 DEF SendAgain
    <3>2. p \in Logged
      BY DEF Logged, IInv, StateInv, DeliveryInv, SubscriptionTypeOK
    <3> QED
      BY <3>1, <3>2 DEF Send
  <2> QED
    BY <2>1, <2>2
<1>5. /\ Len(queue') = Len(queue) + 1
      /\ Len(queue) \in Nat
      /\ queue'[Len(queue) + 1] = p
      /\ \A k \in 1..Len(queue) : queue'[k] = queue[k]
  BY <1>4 DEF IInv, StateInv, DeliveryInv
<1>6. RefusedInv'
  BY <1>1, <1>3 DEF IInv, RefusedInv, NoAnswer
<1>7. AwaitedInv'
  <2> SUFFICES ASSUME Awaited
               PROVE  /\ 1 > sent' \/ 1 \in retry' \/ \E k \in 1..Len(queue') : queue'[k] = 1
                      /\ \A k \in 1..Len(queue') : \E j \in 1..k : queue'[j] = 1
    BY <1>1, <1>3 DEF IInv, AwaitedInv
  <2>1. \/ 1 > sent \/ 1 \in retry
        \/ \E k \in 1..Len(queue) : queue[k] = 1
    BY DEF IInv, AwaitedInv
  <2>2. (1 > sent \/ 1 \in retry) => p = 1
    BY <1>4
    DEF IInv, StateInv, DeliveryInv, SubscriptionTypeOK, Logged, Positions
  <2>3. \E k \in 1..Len(queue') : queue'[k] = 1
    BY <1>5, <2>1, <2>2
  <2>4. ASSUME NEW k \in 1..Len(queue')
        PROVE  \E j \in 1..k : queue'[j] = 1
    <3>1. CASE k \in 1..Len(queue)
      <4>1. PICK j \in 1..k : queue[j] = 1
        BY <3>1 DEF IInv, AwaitedInv
      <4> QED
        BY <1>5, <3>1, <4>1
    <3>2. CASE k = Len(queue) + 1
      BY <1>5, <2>3, <3>2
    <3> QED
      BY <1>5, <3>1, <3>2
  <2> QED
    BY <2>3, <2>4
<1> QED
  BY <1>3, <1>6, <1>7 DEF IInv

\* An event is parked because its handler refused it, for a reason.
LEMMA AnswerPreserves ==
    ASSUME IInv, Answer, UNCHANGED <<row, request, failures>>
    PROVE  IInv'
<1>1. UNCHANGED <<log, sent, retry, queue>> /\ answer # NoAnswer /\ answer' = NoAnswer
  BY DEF Answer
<1>2. DeliveryInv'
  BY DeliveryAnswer DEF IInv, StateInv
<1>3. StateInv' /\ (Awaited' <=> Awaited) /\ (\A p : Reason(p)' <=> Reason(p))
  BY <1>1, <1>2, DeliveryFrame
<1>4. RefusedInv'
  BY <1>1, <1>3 DEF IInv, RefusedInv, Answer, NoAnswer
<1>5. AwaitedInv'
  BY <1>1, <1>3 DEF IInv, AwaitedInv, Answer, NoAnswer
<1> QED
  BY <1>3, <1>4, <1>5 DEF IInv

\* While the creation is awaited, a fault that empties the queue finds it among
\* what was not answered.
LEMMA FaultsPreserve ==
    ASSUME IInv, Faults, UNCHANGED <<row, request, failures>>
    PROVE  IInv'
<1>1. UNCHANGED <<log, parked, settled>>
  BY DEF Faults, TimeOut, Disconnect, ServerRestart
<1>2. DeliveryInv'
  BY DeliveryFaults DEF IInv, StateInv
<1>3. StateInv' /\ (Awaited' <=> Awaited) /\ (\A p : Reason(p)' <=> Reason(p))
  BY <1>1, <1>2, DeliveryFrame
<1>4. answer' = answer \/ answer' = NoAnswer
  BY DEF Faults, TimeOut, Disconnect, ServerRestart
<1>5. RefusedInv'
  BY <1>1, <1>3, <1>4 DEF IInv, RefusedInv, NoAnswer
<1>6. AwaitedInv'
  <2> SUFFICES ASSUME Awaited
               PROVE  /\ 1 > sent' \/ 1 \in retry' \/ \E k \in 1..Len(queue') : queue'[k] = 1
                      /\ \A k \in 1..Len(queue') : \E j \in 1..k : queue'[j] = 1
    BY <1>1, <1>3, <1>4 DEF IInv, AwaitedInv, NoAnswer
  <2>1. CASE \E p \in Positions : TimeOut(p)
    BY <2>1 DEF TimeOut, IInv, AwaitedInv
  <2>2. CASE Disconnect \/ ServerRestart
    <3>1. queue' = <<>>
      BY <2>2 DEF Disconnect, ServerRestart
    <3>2. 1 \in Logged
      BY DEF Awaited, IInv, StateInv, Logged
    <3>3. ~Reason(1)
      BY DEF Awaited, Reason, IInv, StateInv
    <3>4. 1 \notin settled \cup parked
      BY <3>3 DEF Awaited, IInv, AwaitedInv, RefusedInv
    <3>5. 1 > sent \/ 1 \in retry \cup inflight
      BY <3>2, <3>4 DEF IInv, StateInv, DeliveryInv, NothingLost, Logged
    <3>6. CASE Disconnect
      BY <3>1, <3>5, <3>6 DEF Disconnect
    <3>7. CASE ServerRestart
      BY <3>1, <3>5, <3>7
      DEF ServerRestart, IInv, StateInv, DeliveryInv, SubscriptionTypeOK
    <3> QED
      BY <2>2, <3>6, <3>7
  <2> QED
    BY <2>1, <2>2 DEF Faults
<1> QED
  BY <1>3, <1>5, <1>6 DEF IInv

-----------------------------------------------------------------------------
(* The handlers.                                                            *)

\* What the handler of an event makes of the row and of the answer: without a
\* reason nothing is refused, but for want of the row; a row stays until it is
\* deleted; and the creation makes one.
LEMMA HandlerEffect ==
    ASSUME IInv, NEW p \in Logged,
           \/ OnCreated(p) \/ OnUpdated(p) \/ OnAvailabilityChanged(p)
           \/ OnDeleted(p) \/ OnViewed(p)
    PROVE  \E ack \in BOOLEAN :
              /\ Handled(p, ack)
              /\ row' \in [data : 0..MaxEvents, available : BOOLEAN]
              /\ row' # NoRow => row'.data \in Positions
              /\ row # NoRow => row' # NoRow \/ Deleted
              /\ log[p].type = "Created" /\ log[p].valid => row' # NoRow
              /\ ~ack => \/ log[p].type = "Viewed" \/ ~log[p].valid
                         \/ row = NoRow /\ log[p].type # "Created"
<1>1. log[p] \in Event /\ p \in Positions /\ p \in 0..MaxEvents /\ 0 \notin Positions
  BY SubscriptionAssumption
  DEF IInv, StateInv, DeliveryInv, SubscriptionTypeOK, Logged, Positions
<1>2. /\ row \in [data : 0..MaxEvents, available : BOOLEAN]
      /\ row # NoRow => row.data \in Positions
  BY DEF IInv, StateInv
<1>3. NoRow \in [data : 0..MaxEvents, available : BOOLEAN]
  BY SubscriptionAssumption DEF NoRow
<1>4. CASE OnCreated(p)
  <2> DEFINE new == [data |-> p, available |-> FALSE]
  <2>1. /\ new \in [data : 0..MaxEvents, available : BOOLEAN]
        /\ new.data \in Positions /\ new # NoRow
    BY <1>1 DEF NoRow
  <2>2. CASE ~log[p].valid
    BY <1>2, <1>4, <2>2 DEF OnCreated
  <2>3. CASE log[p].valid
    <3>1. Handled(p, TRUE) /\ row' = IF row = NoRow THEN new ELSE row
      BY <1>4, <2>3 DEF OnCreated
    <3> QED
      BY <1>2, <2>1, <3>1
  <2> QED
    BY <2>2, <2>3
<1>5. CASE OnUpdated(p)
  <2>1. log[p].type = "Updated"
    BY <1>5 DEF OnUpdated
  <2>2. CASE ~log[p].valid \/ row = NoRow
    BY <1>2, <1>5, <2>1, <2>2 DEF OnUpdated
  <2>3. CASE log[p].valid /\ row # NoRow
    <3>1. Handled(p, TRUE) /\ row' = [row EXCEPT !.data = p]
      BY <1>5, <2>3 DEF OnUpdated
    <3>2. /\ row' \in [data : 0..MaxEvents, available : BOOLEAN]
          /\ row'.data = p
      BY <1>1, <1>2, <3>1
    <3>3. row' # NoRow
      BY <1>1, <3>2 DEF NoRow
    <3> QED
      BY <1>1, <2>1, <3>1, <3>2, <3>3
  <2> QED
    BY <2>2, <2>3
<1>6. CASE OnAvailabilityChanged(p)
  <2>1. log[p].type # "Created"
    BY <1>6 DEF OnAvailabilityChanged
  <2>2. CASE row = NoRow
    BY <1>2, <1>6, <2>1, <2>2 DEF OnAvailabilityChanged
  <2>3. CASE row # NoRow
    <3>1. /\ Handled(p, TRUE)
          /\ row' = [row EXCEPT !.available = (log[p].type = "Opened")]
      BY <1>6, <2>3 DEF OnAvailabilityChanged
    <3>2. /\ row' \in [data : 0..MaxEvents, available : BOOLEAN]
          /\ row'.data = row.data
      BY <1>2, <3>1
    <3>3. row' # NoRow
      BY <1>1, <1>2, <2>3, <3>2 DEF NoRow
    <3> QED
      BY <1>2, <2>1, <2>3, <3>1, <3>2, <3>3
  <2> QED
    BY <2>2, <2>3
<1>7. CASE OnDeleted(p)
  <2>1. log[p].type = "Deleted" /\ Handled(p, TRUE) /\ row' = NoRow
    BY <1>7 DEF OnDeleted
  <2>2. Deleted
    BY <2>1 DEF Deleted, Is, Logged
  <2> QED
    BY <1>3, <2>1, <2>2
<1>8. CASE OnViewed(p)
  BY <1>2, <1>8 DEF OnViewed
<1> QED
  BY <1>4, <1>5, <1>6, <1>7, <1>8

\* The event at the head of the queue is handled.
LEMMA HandlePreserves ==
    ASSUME IInv, Handle
    PROVE  IInv'
<1>1. PICK p :
          /\ queue # <<>> /\ p = Head(queue)
          /\ \/ OnCreated(p) \/ OnUpdated(p) \/ OnAvailabilityChanged(p)
             \/ OnDeleted(p) \/ OnViewed(p)
          /\ UNCHANGED <<request, failures>>
  BY DEF Handle
<1>2. p \in Logged
  BY <1>1 DEF IInv, StateInv, DeliveryInv
<1>3. PICK ack \in BOOLEAN :
          /\ Handled(p, ack)
          /\ row' \in [data : 0..MaxEvents, available : BOOLEAN]
          /\ row' # NoRow => row'.data \in Positions
          /\ row # NoRow => row' # NoRow \/ Deleted
          /\ log[p].type = "Created" /\ log[p].valid => row' # NoRow
          /\ ~ack => \/ log[p].type = "Viewed" \/ ~log[p].valid
                     \/ row = NoRow /\ log[p].type # "Created"
  BY <1>1, <1>2, HandlerEffect
<1>4. DeliveryInv'
  BY <1>3, DeliveryHandled DEF IInv, StateInv
<1>5. /\ queue' = Tail(queue) /\ answer' = [event |-> p, ack |-> ack]
      /\ UNCHANGED <<log, sent, retry, inflight, parked, settled>>
  BY <1>3 DEF Handled
<1>6. /\ Len(queue) \in Nat \ {0}
      /\ p = queue[1]
      /\ Len(queue') = Len(queue) - 1
      /\ \A k \in 1..Len(queue') : queue'[k] = queue[k + 1]
  BY <1>1, <1>5 DEF IInv, StateInv, DeliveryInv
<1>7. StateInv'
  BY <1>1, <1>3, <1>4, <1>5 DEF IInv, StateInv
<1>8. (Deleted' <=> Deleted) /\ (\A q : Reason(q)' <=> Reason(q))
  BY <1>5 DEF Reason, Deleted, Is
<1>9. log # <<>>
  BY <1>2 DEF Logged, IInv, StateInv
<1>10. Awaited => p = 1
  BY <1>6 DEF IInv, AwaitedInv
<1>11. RefusedInv'
  <2>1. ASSUME failures = 0, ~ack
        PROVE  Reason(p)
    <3>1. CASE log[p].type = "Viewed" \/ ~log[p].valid
      BY <3>1 DEF Reason
    <3>2. CASE row = NoRow /\ log[p].type # "Created"
      <4>1. p # 1
        BY <1>9, <3>2 DEF IInv, StateInv
      <4>2. ~Awaited
        BY <1>10, <4>1
      <4> QED
        BY <1>9, <2>1, <3>2, <4>2 DEF Awaited, Reason
    <3> QED
      BY <1>3, <2>1, <3>1, <3>2
  <2> QED
    BY <1>1, <1>5, <1>8, <2>1 DEF IInv, RefusedInv
<1>12. ~Awaited'
  <2> SUFFICES ASSUME Awaited' PROVE FALSE
    OBVIOUS
  <2>1. Awaited
    BY <1>1, <1>3, <1>5, <1>8 DEF Awaited
  <2>2. p = 1 /\ log[1].type = "Created" /\ log[1].valid
    BY <1>9, <1>10, <2>1 DEF Awaited, IInv, StateInv
  <2> QED
    BY <1>3, <2>2 DEF Awaited
<1> QED
  BY <1>7, <1>11, <1>12 DEF IInv, AwaitedInv

\* Once the database has thrown, only delivery matters.
LEMMA DatabaseFailsPreserves ==
    ASSUME IInv, DatabaseFails
    PROVE  IInv'
<1>1. /\ failures < MaxFailures /\ failures' = failures + 1
      /\ Handled(Head(queue), FALSE)
      /\ UNCHANGED <<row, request>>
  BY DEF DatabaseFails
<1>2. DeliveryInv' /\ log' = log
  BY <1>1, DeliveryHandled DEF IInv, StateInv, Handled
<1>3. failures' \in 0..MaxFailures /\ failures' # 0
  BY <1>1, ReadModelAssumption DEF IInv, StateInv
<1>4. StateInv'
  BY <1>1, <1>2, <1>3 DEF IInv, StateInv
<1> QED
  BY <1>3, <1>4 DEF IInv, RefusedInv, AwaitedInv, Awaited

-----------------------------------------------------------------------------

\* Every step preserves the invariant.
LEMMA NextPreserves ==
    ASSUME IInv, [Next]_vars
    PROVE  IInv'
<1> USE ReadModelAssumption
<1>1. CASE Create
  <2>1. PICK valid \in BOOLEAN : AppendToLog([type |-> "Created", valid |-> valid])
    BY <1>1 DEF Create
  <2>2. [type |-> "Created", valid |-> valid] \in Event
    BY DEF Event, Types
  <2> QED
    BY <1>1, <2>1, <2>2, AppendPreserves DEF Create, IInv, StateInv
<1>2. ASSUME NEW c \in Clients, NEW t \in Commands, BeginRequest(c, t)
      PROVE  IInv'
  <2>1. request' \in [Clients -> CommandTypes \cup {"none"}]
    BY <1>2 DEF BeginRequest, IInv, StateInv
  <2> QED
    BY <1>2, <2>1, RequestPreserves DEF BeginRequest
<1>3. ASSUME NEW c \in Clients, EndRequest(c)
      PROVE  IInv'
  <2>1. request[c] \in CommandTypes
    BY <1>3 DEF EndRequest, IInv, StateInv
  <2>2. PICK valid \in BOOLEAN : AppendToLog([type |-> request[c], valid |-> valid])
    BY <1>3 DEF EndRequest
  <2>3. [type |-> request[c], valid |-> valid] \in Event
    BY <2>1 DEF Event, Types
  <2>4. request' \in [Clients -> CommandTypes \cup {"none"}]
    BY <1>3 DEF EndRequest, IInv, StateInv
  <2>5. log # <<>>
    BY <1>3 DEF EndRequest, IInv, StateInv
  <2> QED
    BY <1>3, <2>2, <2>3, <2>4, <2>5, AppendPreserves DEF EndRequest
<1>4. CASE Handle \/ DatabaseFails
  BY <1>4, HandlePreserves, DatabaseFailsPreserves
<1>5. CASE Deliver
  BY <1>5, SendPreserves, AnswerPreserves DEF Deliver
<1>6. CASE Faults /\ UNCHANGED <<row, request, failures>>
  BY <1>6, FaultsPreserve
<1>7. CASE UNCHANGED vars
  BY <1>7, RequestPreserves DEF vars, IInv, StateInv
<1> QED
  BY <1>1, <1>2, <1>3, <1>4, <1>5, <1>6, <1>7 DEF Next

\* The invariant of the proofs.
THEOREM Invariance == Spec => []IInv
BY InitialState, NextPreserves, PTL DEF Spec

\* Type correctness.
THEOREM TypeCorrect == Spec => []TypeOK
<1>1. IInv => TypeOK
  BY DEF IInv, StateInv, DeliveryInv, TypeOK, Event
<1> QED
  BY <1>1, Invariance, PTL

\* No event of an ad is lost between the server and the handlers.
THEOREM NothingIsLost == Spec => []NothingLost
<1>1. IInv => NothingLost
  BY DEF IInv, StateInv, DeliveryInv
<1> QED
  BY <1>1, Invariance, PTL

\* While the database is up every parked event is a view, or refers to what is
\* not there, or is of an ad that could not be created or is deleted.
THEOREM NothingIsParkedWithoutReason == Spec => []ParkedForAReason
<1>1. IInv => ParkedForAReason
  BY DEF IInv, RefusedInv, Reason, ParkedForAReason, Is
<1> QED
  BY <1>1, Invariance, PTL

-----------------------------------------------------------------------------
(* The row comes back to what the events say.                               *)

\* The events that decide on the data, and on the availability, of the row.
Kept(p) == Is(p, {"Created", "Updated"}) /\ log[p].valid
Turned(p) == Is(p, {"Opened", "Closed"})

KeptEvents == {p \in Logged : Kept(p)}
TurnedEvents == {p \in Logged : Turned(p)}

Accepted == log # <<>> /\ log[1].valid

\* What a row is that stands for the first h events, as far as the events after
\* them, some of them maybe for the second time, will not change it.
Stands(r, h) ==
    /\ ~Accepted => r = NoRow
    /\ (\E d \in 1..h : Is(d, {"Deleted"})) => r = NoRow
    /\ r # NoRow => r.data \in KeptEvents
    /\ Accepted /\ ~Deleted =>
          /\ h >= 1 => r # NoRow
          /\ \A p \in 1..h : LastOf(p, KeptEvents) => r.data = p
          /\ \A p \in 1..h : LastOf(p, TurnedEvents) =>
                r.available = Is(p, {"Opened"})
          /\ TurnedEvents = {} => ~r.available

\* An ad is created once.
CreatedFirst == \A p \in Logged : Is(p, {"Created"}) => p = 1

\* As long as no answer is late and the database does not throw, the handlers
\* have had the events up to some h, from the first on, and maybe more before.
ReplayInv ==
    (timeouts = 0 /\ failures = 0) => \E h \in Nat : Ordered(h) /\ Stands(row, h)

\* A row that stands for h events stands for fewer.
LEMMA StandsForFewer ==
    ASSUME NEW r, NEW h \in Nat, NEW g \in 0..h, Stands(r, h)
    PROVE  Stands(r, g)
<1>1. 1..g \subseteq 1..h /\ (g >= 1 => h >= 1)
  OBVIOUS
<1> QED
  BY <1>1 DEF Stands

\* What a row stands for depends on it and on the log.
LEMMA StandsStable ==
    ASSUME NEW h \in Nat, Stands(row', h), log' = log
    PROVE  Stands(row, h)'
  BY DEF Stands, Accepted, Deleted, KeptEvents, TurnedEvents, Kept, Turned,
     Logged, LastOf, Is

\* Create is the first request for an ad, and no other appends a creation.
LEMMA CreatedOnce ==
    ASSUME IInv, CreatedFirst, NEW e \in Event, AppendToLog(e),
           e.type = "Created" <=> log = <<>>
    PROVE  CreatedFirst'
<1>1. log' = Append(log, e) /\ log \in Seq(Event)
  BY DEF AppendToLog, IInv, StateInv
<1>2. \A p \in Logged : Is(p, {"Created"}) => p = 1
  BY DEF CreatedFirst
<1>3. /\ Len(log) \in Nat /\ Logged' = Logged \cup {Len(log) + 1}
      /\ \A p \in Logged : log'[p] = log[p]
      /\ log'[Len(log) + 1] = e
      /\ log = <<>> <=> Len(log) = 0
  BY <1>1 DEF Logged
<1>4. \A p \in Logged' : log'[p].type = "Created" => p = 1
  BY <1>2, <1>3 DEF Is
<1> QED
  BY <1>4 DEF CreatedFirst, Is

\* An event that is appended is the last of its kind, and still to be handled.
LEMMA StandsAppend ==
    ASSUME IInv, NEW h \in Nat, Ordered(h), Stands(row, h),
           NEW e \in Event, AppendToLog(e), row' = row
    PROVE  Stands(row, h)'
<1>1. /\ log \in Seq(Event) /\ Len(log) \in Nat /\ log' = Append(log, e)
      /\ sent <= Len(log) /\ sent \in Nat
  BY DEF AppendToLog, IInv, StateInv, DeliveryInv, SubscriptionTypeOK
<1>2. /\ Len(log') = Len(log) + 1
      /\ log'[Len(log) + 1] = e /\ log' # <<>>
      /\ \A p \in Logged : log'[p] = log[p]
      /\ log = <<>> <=> Len(log) = 0
  BY <1>1 DEF Logged
<1>3. h <= Len(log)
  BY <1>1 DEF Ordered
<1>4. Logged' = Logged \cup {Len(log) + 1} /\ 1..h \subseteq Logged
  BY <1>1, <1>2, <1>3 DEF Logged
<1>5. KeptEvents \subseteq KeptEvents' /\ TurnedEvents \subseteq TurnedEvents'
  BY <1>2, <1>4 DEF KeptEvents, TurnedEvents, Kept, Turned, Is
<1>6. CASE log = <<>>
  <2>1. row = NoRow /\ h = 0
    BY <1>2, <1>3, <1>6 DEF Stands, Accepted
  <2> QED
    BY <2>1 DEF Stands, NoRow
<1>7. CASE log # <<>>
  <2>1. 1 \in Logged /\ (Accepted' <=> Accepted)
    BY <1>1, <1>2, <1>7 DEF Accepted, Logged
  <2>2. Deleted => Deleted'
    BY <1>2, <1>4 DEF Deleted, Logged, Is
  <2>3. \A d \in 1..h : Is(d, {"Deleted"})' <=> Is(d, {"Deleted"})
    BY <1>2, <1>4 DEF Is
  <2>4. \A p \in 1..h :
            /\ LastOf(p, KeptEvents') => LastOf(p, KeptEvents)
            /\ LastOf(p, TurnedEvents') => LastOf(p, TurnedEvents)
    BY <1>2, <1>4, <1>5 DEF LastOf, KeptEvents, TurnedEvents, Kept, Turned, Is
  <2>5. \A p \in 1..h : Is(p, {"Opened"})' = Is(p, {"Opened"})
    BY <1>2, <1>4 DEF Is
  <2>6. TurnedEvents' = {} => TurnedEvents = {}
    BY <1>5
  <2>7. /\ ~Accepted => row = NoRow
        /\ (\E d \in 1..h : Is(d, {"Deleted"})) => row = NoRow
        /\ row # NoRow => row.data \in KeptEvents
    BY DEF Stands
  <2>8. ASSUME Accepted, ~Deleted
        PROVE  /\ h >= 1 => row # NoRow
               /\ \A p \in 1..h : LastOf(p, KeptEvents) => row.data = p
               /\ \A p \in 1..h : LastOf(p, TurnedEvents) =>
                     row.available = Is(p, {"Opened"})
               /\ TurnedEvents = {} => ~row.available
    BY <2>8 DEF Stands
  <2>9. ASSUME Accepted', ~Deleted'
        PROVE  /\ h >= 1 => row' # NoRow
               /\ \A p \in 1..h : LastOf(p, KeptEvents') => row'.data = p
               /\ \A p \in 1..h : LastOf(p, TurnedEvents') =>
                     row'.available = Is(p, {"Opened"})'
               /\ TurnedEvents' = {} => ~row'.available
    BY <2>1, <2>2, <2>4, <2>5, <2>6, <2>8, <2>9
  <2> QED
    BY <1>5, <2>1, <2>3, <2>7, <2>9 DEF Stands, NoRow
<1> QED
  BY <1>6, <1>7

\* What the handler does for the event after the first h.
LEMMA StandsHandled ==
    ASSUME IInv, CreatedFirst, NEW h \in Nat, Stands(row, h),
           NEW p \in Logged, p = h + 1,
           \/ OnCreated(p) \/ OnUpdated(p) \/ OnAvailabilityChanged(p)
           \/ OnDeleted(p) \/ OnViewed(p)
    PROVE  Stands(row', p)
<1>1. 1..p = 1..h \cup {p} /\ KeptEvents \subseteq Nat \ {0} /\ p >= 1
  BY DEF KeptEvents, Logged
<1>2. log # <<>> /\ log[1].type = "Created" /\ (Accepted <=> log[1].valid)
  BY DEF IInv, StateInv, Logged, Accepted
<1>3. row \in [data : 0..MaxEvents, available : BOOLEAN]
  BY DEF IInv, StateInv
<1>4. log[p].type # "Created" => h >= 1
  BY <1>2
<1>5. /\ ~Accepted => row = NoRow
      /\ (\E d \in 1..h : Is(d, {"Deleted"})) => row = NoRow
      /\ row # NoRow => row.data \in KeptEvents
  BY DEF Stands
<1>6. ASSUME Accepted, ~Deleted
      PROVE  /\ h >= 1 => row # NoRow
             /\ \A q \in 1..h : LastOf(q, KeptEvents) => row.data = q
             /\ \A q \in 1..h : LastOf(q, TurnedEvents) =>
                   row.available = Is(q, {"Opened"})
             /\ TurnedEvents = {} => ~row.available
  BY <1>6 DEF Stands
\* The event changes nothing, and is not one that should have.
<1>7. ASSUME row' = row, ~Is(p, {"Deleted"}),
             Accepted /\ ~Deleted => h >= 1 /\ p \notin KeptEvents \cup TurnedEvents
      PROVE  Stands(row', p)
  <2>1. /\ ~LastOf(p, KeptEvents) \/ ~Accepted \/ Deleted
        /\ ~LastOf(p, TurnedEvents) \/ ~Accepted \/ Deleted
    BY <1>7 DEF LastOf
  <2> QED
    BY <1>1, <1>5, <1>6, <1>7, <2>1 DEF Stands
<1>8. CASE OnCreated(p)
  <2>1. p = 1 /\ h = 0 /\ ~Is(p, {"Deleted"}) /\ p \notin TurnedEvents
    BY <1>8 DEF CreatedFirst, OnCreated, Is, TurnedEvents, Turned
  <2>2. CASE ~log[p].valid /\ row' = row
    BY <1>2, <1>7, <2>1, <2>2
  <2>3. CASE /\ log[p].valid
             /\ row' = IF row = NoRow THEN [data |-> p, available |-> FALSE] ELSE row
    <3>1. Accepted /\ p \in KeptEvents
      BY <1>2, <1>8, <2>1, <2>3 DEF OnCreated, KeptEvents, Kept, Is
    <3>2. row' # NoRow /\ row'.data \in KeptEvents
      BY <1>1, <1>5, <2>3, <3>1 DEF NoRow
    <3>3. LastOf(p, KeptEvents) => row'.data = p
      <4>1. row'.data \in Nat \ {0} /\ (LastOf(p, KeptEvents) => row'.data <= p)
        BY <1>1, <3>2 DEF LastOf
      <4> QED
        BY <2>1, <4>1
    <3>4. ~Deleted /\ TurnedEvents = {} => ~row'.available
      BY <1>6, <2>3, <3>1
    <3>5. ~LastOf(p, TurnedEvents) /\ 1..p = {p}
      BY <1>1, <2>1 DEF LastOf
    <3> QED
      BY <2>1, <3>1, <3>2, <3>3, <3>4, <3>5 DEF Stands
  <2> QED
    BY <1>8, <2>2, <2>3 DEF OnCreated
<1>9. CASE OnUpdated(p)
  <2>1. ~Is(p, {"Deleted"}) /\ p \notin TurnedEvents /\ h >= 1
        /\ (p \in KeptEvents <=> log[p].valid)
    BY <1>4, <1>9 DEF OnUpdated, Is, TurnedEvents, Turned, KeptEvents, Kept
  <2>2. CASE row' = row /\ (~log[p].valid \/ row = NoRow)
    BY <1>6, <1>7, <2>1, <2>2
  <2>3. CASE log[p].valid /\ row # NoRow /\ row' = [row EXCEPT !.data = p]
    <3>1. row'.data = p /\ row'.available = row.available /\ row' # NoRow
      BY <1>1, <1>3, <2>3 DEF NoRow
    <3>2. /\ \A q \in 1..h : ~LastOf(q, KeptEvents)
          /\ ~LastOf(p, TurnedEvents)
      BY <2>1, <2>3 DEF LastOf
    <3> QED
      BY <1>1, <1>5, <1>6, <2>1, <2>3, <3>1, <3>2 DEF Stands
  <2> QED
    BY <1>9, <2>2, <2>3 DEF OnUpdated
<1>10. CASE OnAvailabilityChanged(p)
  <2>1. ~Is(p, {"Deleted"}) /\ p \in TurnedEvents /\ h >= 1 /\ p \notin KeptEvents
    BY <1>4, <1>10
    DEF OnAvailabilityChanged, Is, TurnedEvents, Turned, KeptEvents, Kept
  <2>2. CASE row' = row /\ row = NoRow
    <3>1. ~Accepted \/ Deleted
      BY <1>6, <2>1, <2>2
    <3> QED
      BY <1>1, <2>2, <3>1 DEF Stands
  <2>3. CASE row # NoRow /\ row' = [row EXCEPT !.available = (log[p].type = "Opened")]
    <3>1. row'.data = row.data /\ row'.available = (log[p].type = "Opened")
      BY <1>3, <2>3
    <3>2. row' # NoRow /\ row'.data \in KeptEvents
      BY <1>1, <1>5, <2>3, <3>1 DEF NoRow
    <3>3. /\ \A q \in 1..h : ~LastOf(q, TurnedEvents)
          /\ ~LastOf(p, KeptEvents) /\ TurnedEvents # {}
      BY <2>1 DEF LastOf
    <3>4. row'.available = Is(p, {"Opened"})
      BY <3>1 DEF Is
    <3> QED
      BY <1>1, <1>5, <1>6, <2>1, <2>3, <3>1, <3>2, <3>3, <3>4 DEF Stands
  <2> QED
    BY <1>10, <2>2, <2>3 DEF OnAvailabilityChanged
<1>11. CASE OnDeleted(p)
  <2>1. row' = NoRow /\ Deleted
    BY <1>11 DEF OnDeleted, Deleted, Is, Logged
  <2> QED
    BY <2>1 DEF Stands
<1>12. CASE OnViewed(p)
  BY <1>4, <1>7, <1>12
  DEF OnViewed, Is, TurnedEvents, Turned, KeptEvents, Kept
<1> QED
  BY <1>8, <1>9, <1>10, <1>11, <1>12

\* Every step preserves it: a fault makes a replay start over, at an event that
\* the row stands for already.
LEMMA ReplayPreserved ==
    ASSUME IInv, CreatedFirst, ReplayInv, [Next]_vars
    PROVE  CreatedFirst' /\ ReplayInv'
<1>1. log' = log => CreatedFirst'
  BY DEF CreatedFirst, Logged, Is
<1>2. DeliveryInv /\ timeouts \in Nat /\ failures \in Nat
  BY SubscriptionAssumption, ReadModelAssumption
  DEF IInv, StateInv, DeliveryInv, SubscriptionTypeOK
<1>3. ASSUME NEW e \in Event, AppendToLog(e), UNCHANGED <<row, failures>>,
             e.type = "Created" <=> log = <<>>
      PROVE  CreatedFirst' /\ ReplayInv'
  <2>1. UNCHANGED subscriptionVars /\ timeouts' = timeouts
    BY <1>3 DEF AppendToLog, subscriptionVars
  <2>2. CreatedFirst'
    BY <1>3, CreatedOnce
  <2>3. ASSUME timeouts' = 0, failures' = 0
        PROVE  \E h \in Nat : Ordered(h)' /\ Stands(row, h)'
    <3>1. PICK h \in Nat : Ordered(h) /\ Stands(row, h)
      BY <1>3, <2>1, <2>3 DEF ReplayInv
    <3> QED
      BY <1>3, <2>1, <3>1, OrderStutter, StandsAppend
  <2> QED
    BY <2>2, <2>3 DEF ReplayInv
<1>4. CASE Create
  <2>1. PICK valid \in BOOLEAN : AppendToLog([type |-> "Created", valid |-> valid])
    BY <1>4 DEF Create
  <2>2. [type |-> "Created", valid |-> valid] \in Event
    BY DEF Event, Types
  <2> QED
    BY <1>3, <1>4, <2>1, <2>2 DEF Create
<1>5. ASSUME NEW c \in Clients, EndRequest(c)
      PROVE  CreatedFirst' /\ ReplayInv'
  <2>1. request[c] \in CommandTypes /\ log # <<>>
    BY <1>5 DEF EndRequest, IInv, StateInv
  <2>2. PICK valid \in BOOLEAN : AppendToLog([type |-> request[c], valid |-> valid])
    BY <1>5 DEF EndRequest
  <2>3. [type |-> request[c], valid |-> valid] \in Event /\ request[c] # "Created"
    BY <2>1 DEF Event, Types, CommandTypes
  <2> QED
    BY <1>3, <1>5, <2>1, <2>2, <2>3 DEF EndRequest
<1>6. CASE UNCHANGED <<log, subscriptionVars, row, failures>>
  <2>1. timeouts' = timeouts /\ log' = log
    BY <1>6 DEF subscriptionVars
  <2> QED
    BY <1>1, <1>6, <2>1, OrderStutter, StandsStable DEF ReplayInv
<1>7. CASE Handle
  <2>1. PICK p : /\ queue # <<>> /\ p = Head(queue)
                 /\ \/ OnCreated(p) \/ OnUpdated(p) \/ OnAvailabilityChanged(p)
                    \/ OnDeleted(p) \/ OnViewed(p)
                 /\ failures' = failures
    BY <1>7 DEF Handle
  <2>2. p \in Logged
    BY <2>1 DEF IInv, StateInv, DeliveryInv
  <2>3. PICK ack \in BOOLEAN : Handled(p, ack)
    BY <2>1, <2>2, HandlerEffect
  <2>4. log' = log /\ timeouts' = timeouts
    BY <2>3 DEF Handled
  <2>5. ASSUME timeouts' = 0, failures' = 0
        PROVE  \E h \in Nat : Ordered(h)' /\ Stands(row, h)'
    <3>1. PICK h \in Nat : Ordered(h) /\ Stands(row, h)
      BY <2>1, <2>4, <2>5 DEF ReplayInv
    <3>2. p = h + 1 /\ Ordered(p)' /\ p \in Nat
      BY <1>2, <2>3, <3>1, OrderHandled
    <3>3. Stands(row', p)
      BY <2>1, <2>2, <3>1, <3>2, StandsHandled
    <3>4. Stands(row, p)'
      BY <2>4, <3>2, <3>3, StandsStable
    <3> QED
      BY <3>2, <3>4
  <2> QED
    BY <1>1, <2>4, <2>5 DEF ReplayInv
<1>8. CASE DatabaseFails
  <2>1. log' = log /\ failures' = failures + 1
    BY <1>8 DEF DatabaseFails, Handled
  <2> QED
    BY <1>1, <1>2, <2>1 DEF ReplayInv
<1>9. CASE Deliver
  <2>1. UNCHANGED <<log, timeouts, row, failures>>
    BY <1>9 DEF Deliver, SendNext, SendAgain, Answer
  <2>2. \A h \in Nat : Ordered(h) => Ordered(h)'
    BY <1>2, <1>9, OrderSend, OrderAnswer DEF Deliver
  <2>3. \A h \in Nat : Stands(row, h) => Stands(row, h)'
    BY <2>1, StandsStable
  <2> QED
    BY <1>1, <2>1, <2>2, <2>3 DEF ReplayInv
<1>10. CASE Faults /\ UNCHANGED <<row, request, failures>>
  <2>1. log' = log /\ (timeouts' = 0 => timeouts = 0)
    BY <1>2, <1>10 DEF Faults, TimeOut, Disconnect, ServerRestart
  <2>2. ASSUME timeouts' = 0, failures' = 0
        PROVE  \E h \in Nat : Ordered(h)' /\ Stands(row, h)'
    <3>1. PICK h \in Nat : Ordered(h) /\ Stands(row, h)
      BY <1>10, <2>1, <2>2 DEF ReplayInv
    <3>2. PICK g \in 0..h : Ordered(g)'
      BY <1>2, <1>10, <2>2, <3>1, OrderFaults
    <3>3. Stands(row', g)
      BY <1>10, <3>1, StandsForFewer
    <3>4. Stands(row, g)' /\ g \in Nat
      BY <2>1, <3>3, StandsStable
    <3> QED
      BY <3>2, <3>4
  <2> QED
    BY <1>1, <2>1, <2>2 DEF ReplayInv
<1> QED
  BY <1>4, <1>5, <1>6, <1>7, <1>8, <1>9, <1>10 DEF Next, BeginRequest, vars

\* A row that stands for all events is the one they come to.
LEMMA StandsForAll ==
    ASSUME IInv, Stands(row, Len(log))
    PROVE  row = Expected
<1>1. /\ Len(log) \in Nat /\ log \in Seq(Event)
      /\ row \in [data : 0..MaxEvents, available : BOOLEAN]
      /\ log # <<>> => log[1].type = "Created"
  BY DEF IInv, StateInv, DeliveryInv
<1>2. CASE ~Accepted \/ Deleted
  BY <1>2 DEF Stands, Accepted, Deleted, Expected
<1>3. CASE Accepted /\ ~Deleted
  <2> DEFINE last(S) == CHOOSE p \in S : \A q \in S : q <= p
  <2>1. 1 \in Logged /\ 1 \in KeptEvents
    BY <1>1, <1>3 DEF Accepted, KeptEvents, Kept, Is, Logged
  <2>2. row # NoRow /\ (TurnedEvents = {} => ~row.available)
        /\ (\A p \in Logged : LastOf(p, KeptEvents) => row.data = p)
        /\ (\A p \in Logged : LastOf(p, TurnedEvents) =>
                row.available = Is(p, {"Opened"}))
    BY <1>1, <1>3, <2>1 DEF Stands, Logged
  <2>3. ASSUME NEW S, S \subseteq Logged, S # {}
        PROVE  last(S) \in Logged /\ LastOf(last(S), S)
    BY <1>1, <2>3, LastExists DEF Logged, LastOf
  <2>4. KeptEvents \subseteq Logged /\ TurnedEvents \subseteq Logged
    BY DEF KeptEvents, TurnedEvents
  <2>5. row.data = last(KeptEvents)
    BY <2>1, <2>2, <2>3, <2>4
  <2>6. row.available = (TurnedEvents # {} /\ Is(last(TurnedEvents), {"Opened"}))
    <3>1. CASE TurnedEvents = {}
      BY <1>1, <2>2, <3>1
    <3>2. CASE TurnedEvents # {}
      <4>1. row.available = Is(last(TurnedEvents), {"Opened"})
        BY <2>2, <2>3, <2>4, <3>2
      <4> HIDE DEF last
      <4> QED
        BY <3>2, <4>1 DEF Is
    <3> QED
      BY <3>1, <3>2
  <2>7. row = [data |-> row.data, available |-> row.available]
    BY <1>1
  <2>8. Expected = [data |-> last(KeptEvents),
                    available |-> TurnedEvents # {}
                                  /\ Is(last(TurnedEvents), {"Opened"})]
    BY <1>3 DEF Expected, Accepted, Deleted, KeptEvents, TurnedEvents, Kept, Turned, Logged
  <2> HIDE DEF last
  <2> QED
    BY <2>5, <2>6, <2>7, <2>8
<1> QED
  BY <1>2, <1>3

\* Once every event is answered, however often it was sent, the row is what the
\* events say, unless an answer was late or the database threw.
THEOREM RowConverges == Spec => []Converges
<1>1. Init => CreatedFirst /\ ReplayInv
  <2> SUFFICES ASSUME Init PROVE CreatedFirst /\ ReplayInv
    OBVIOUS
  <2>1. SubscriptionInit /\ log = <<>> /\ Logged = {} /\ row = NoRow
    BY DEF Init, SubscriptionInit, Logged
  <2>2. Stands(row, 0) /\ Ordered(0)
    BY <2>1, OrderInit DEF Stands, Accepted, NoRow
  <2> QED
    BY <2>1, <2>2 DEF CreatedFirst, ReplayInv
<1>2. IInv /\ CreatedFirst /\ ReplayInv /\ [Next]_vars => CreatedFirst' /\ ReplayInv'
  BY ReplayPreserved
<1>3. IInv /\ ReplayInv => Converges
  <2> SUFFICES ASSUME IInv, ReplayInv, Quiet, timeouts = 0, failures = 0
               PROVE  row = Expected
    BY DEF Converges
  <2>1. PICK h \in Nat : Ordered(h) /\ Stands(row, h)
    BY DEF ReplayInv
  <2>2. h = Len(log)
    BY <2>1, OrderQuiet DEF IInv, StateInv
  <2> QED
    BY <2>1, <2>2, StandsForAll
<1> QED
  BY <1>1, <1>2, <1>3, Invariance, PTL DEF Spec

-----------------------------------------------------------------------------
(* The subscription behind the handlers.                                    *)

\* A request appends one event, and the rest is done to the subscription.
LEMMA SubscriptionSteps ==
    ASSUME IInv, [Next]_vars
    PROVE  SubscriptionNext(Event)
<1>1. CASE Create
  BY <1>1 DEF Create, Event, Types, SubscriptionNext
<1>2. ASSUME NEW c \in Clients, NEW t \in Commands, BeginRequest(c, t)
      PROVE  SubscriptionNext(Event)
  BY <1>2 DEF BeginRequest, SubscriptionNext
<1>3. ASSUME NEW c \in Clients, EndRequest(c)
      PROVE  SubscriptionNext(Event)
  <2>1. request[c] \in CommandTypes
    BY <1>3 DEF EndRequest, IInv, StateInv
  <2>2. PICK valid \in BOOLEAN : AppendToLog([type |-> request[c], valid |-> valid])
    BY <1>3 DEF EndRequest
  <2>3. [type |-> request[c], valid |-> valid] \in Event
    BY <2>1 DEF Event, Types
  <2> QED
    BY <2>2, <2>3 DEF SubscriptionNext
<1>4. CASE Handle
  <2>1. PICK p : \/ OnCreated(p) \/ OnUpdated(p) \/ OnAvailabilityChanged(p)
                 \/ OnDeleted(p) \/ OnViewed(p)
    BY <1>4 DEF Handle
  <2>2. Handled(p, TRUE) \/ Handled(p, FALSE)
    BY <2>1
    DEF OnCreated, OnUpdated, OnAvailabilityChanged, OnDeleted, OnViewed
  <2> QED
    BY <2>2 DEF SubscriptionNext
<1> QED
  BY <1>1, <1>2, <1>3, <1>4
  DEF Next, DatabaseFails, Deliver, SubscriptionNext, vars, subscriptionVars

\* An event that is not answered is with the client, and as long as no answer is
\* late the events are handled in order.
LEMMA ClientInvariance == Spec => [](WithClient /\ InOrder)
<1>1. Init => WithClient /\ InOrder
  BY ClientInit DEF Init
<1>2. IInv /\ WithClient /\ InOrder /\ [Next]_vars => WithClient' /\ InOrder'
  BY SubscriptionSteps, ClientPreserved, OrderPreserved DEF IInv, StateInv
<1> QED
  BY <1>1, <1>2, Invariance, PTL DEF Spec

\* Whatever is lost, late or refused, the read model's subscription never holds
\* its full buffer of unanswered events without one being with the client.
THEOREM NeverComesToAHalt == Spec => []NeverStuck
<1>1. IInv /\ WithClient => NeverStuck
  BY CanAlwaysGoOn DEF IInv, StateInv
<1> QED
  BY <1>1, Invariance, ClientInvariance, PTL

\* Only a request, a late answer or a break makes work for the subscription:
\* between them it rests after finitely many steps, at most Work of them.
THEOREM ComesNearerToRest == Spec => WorkShrinks
<1>1. IInv /\ [Next]_vars =>
          [ \/ UNCHANGED subscriptionVars
            \/ Work' < Work
            \/ timeouts' > timeouts
            \/ breaks' > breaks ]_<<log, subscriptionVars>>
  BY SubscriptionSteps, WorkLeft DEF IInv, StateInv
<1> QED
  BY <1>1, Invariance, PTL DEF Spec, WorkShrinks

\* Until an answer is late the handlers have the ad's events in order, each when
\* the one before is answered, and start over only behind what was answered.
THEOREM HandlersReplayTheLog == Spec => ImplementsReplayedLog
<1>1. Init => Replayed!Init
  BY ReplayInit DEF Init
<1>2. IInv /\ IInv' /\ InOrder /\ [Next]_vars =>
          [timeouts' = 0 => Replayed!Next \/ UNCHANGED Replayed!vars]_<<log, subscriptionVars>>
  BY SubscriptionSteps, ReplayStep DEF IInv, StateInv
<1> QED
  BY <1>1, <1>2, Invariance, ClientInvariance, PTL DEF Spec, ImplementsReplayedLog

\* What is left of EventuallyAnswered without its fairness: at rest every event
\* is acknowledged or parked.
THEOREM EveryEventIsAnsweredAtRest ==
    Spec => [](Quiet => \A p \in 1..Len(log) : p \in settled \cup parked)
<1>1. IInv => (Quiet => \A p \in 1..Len(log) : p \in settled \cup parked)
  BY DEF IInv, StateInv, DeliveryInv, NothingLost, Quiet
<1> QED
  BY <1>1, Invariance, PTL

\* What is left of DeletedForGood without its fairness: at rest no row is left of
\* an ad that was deleted, whatever was appended after its deletion and however
\* often the events before it were replayed.
THEOREM NoDeletedAdAtRest ==
    Spec => [](Quiet /\ Deleted /\ timeouts = 0 /\ failures = 0 => row = NoRow)
<1>1. Converges => (Quiet /\ Deleted /\ timeouts = 0 /\ failures = 0 => row = NoRow)
  BY DEF Converges, Expected
<1> QED
  BY <1>1, RowConverges, PTL
=============================================================================

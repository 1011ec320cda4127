---------------------- MODULE PersistentSubscriptionProofs ----------------------
(***************************************************************************)
(* What the steps of a persistent subscription preserve, whatever the       *)
(* handlers behind it do: every event a service knows of is in the log, no  *)
(* event gets lost, the subscription can always go on and comes nearer to   *)
(* rest with every step, and the handlers have the events in order as long  *)
(* as no answer is late.  The proofs of the modules that extend             *)
(* PersistentSubscription cite these lemmas.                                *)
(***************************************************************************)
EXTENDS PersistentSubscription, FiniteSetTheorems, WellFoundedInduction, TLAPS

\* Positions of the log, as opposed to those the log may grow to.
Logged == 1..Len(log)

\* Only events of the log are sent, handled and answered.
DeliveryInv ==
    /\ SubscriptionTypeOK
    /\ Len(log) \in Nat
    /\ sent <= Len(log)
    /\ retry \cup inflight \subseteq 1..sent
    /\ parked \subseteq Logged
    /\ settled \subseteq Logged
    /\ queue \in Seq(Logged)
    /\ answer # NoAnswer => answer.event \in Logged
    /\ NothingLost

\* A new subscription has lost nothing.
LEMMA DeliveryInit ==
    ASSUME SubscriptionInit
    PROVE  DeliveryInv
<1>1. Len(log) = 0
  BY DEF SubscriptionInit
<1>2. SubscriptionTypeOK
  BY <1>1, SubscriptionAssumption
  DEF SubscriptionInit, SubscriptionTypeOK, NoAnswer, Positions
<1> QED
  BY <1>1, <1>2 DEF SubscriptionInit, DeliveryInv, NothingLost, Logged, NoAnswer

\* A step that leaves the log and the subscription alone.
LEMMA DeliveryStutter ==
    ASSUME DeliveryInv, UNCHANGED <<log, subscriptionVars>>
    PROVE  DeliveryInv'
BY DEF DeliveryInv, SubscriptionTypeOK, NothingLost, Logged, Positions,
       NoAnswer, subscriptionVars

\* An event that is appended is still to be sent.
LEMMA DeliveryAppend ==
    ASSUME DeliveryInv, NEW S, log \in Seq(S), NEW e \in S, AppendToLog(e)
    PROVE  DeliveryInv' /\ log' \in Seq(S)
<1>1. log' = Append(log, e) /\ UNCHANGED subscriptionVars /\ Len(log) < MaxEvents
  BY DEF AppendToLog
<1>2. log' \in Seq(S) /\ Len(log') = Len(log) + 1
  BY <1>1
<1>3. Logged \subseteq Logged'
  BY <1>2 DEF Logged, DeliveryInv
<1>4. queue' \in Seq(Logged')
  BY <1>1, <1>3 DEF DeliveryInv, subscriptionVars
<1>5. SubscriptionTypeOK'
  BY <1>1, <1>2, SubscriptionAssumption
  DEF DeliveryInv, SubscriptionTypeOK, subscriptionVars, Positions
<1>6. NothingLost'
  BY <1>1, <1>2
  DEF DeliveryInv, NothingLost, SubscriptionTypeOK, subscriptionVars, Logged
<1> QED
  BY <1>1, <1>2, <1>3, <1>4, <1>5, <1>6
  DEF DeliveryInv, subscriptionVars, SubscriptionTypeOK, NoAnswer

\* An event that is sent goes from what is to be sent to what is not answered.
LEMMA DeliverySend ==
    ASSUME DeliveryInv, SendNext \/ SendAgain
    PROVE  DeliveryInv'
<1>1. PICK p \in Logged :
          /\ inflight' = inflight \cup {p}
          /\ queue' = Append(queue, p)
          /\ \/ sent' = sent + 1 /\ p = sent + 1 /\ retry' = retry
             \/ sent' = sent /\ retry' = retry \ {p} /\ p \in retry
  <2>1. CASE SendNext
    <3>1. sent + 1 \in Logged
      BY <2>1 DEF SendNext, Logged, DeliveryInv, SubscriptionTypeOK
    <3> QED
      BY <2>1, <3>1 DEF SendNext, Send
  <2>2. CASE SendAgain
    BY <2>2 DEF SendAgain, Send, DeliveryInv, SubscriptionTypeOK, Logged
  <2> QED
    BY <2>1, <2>2
<1>2. UNCHANGED <<log, parked, answer, settled, timeouts, breaks>>
  BY DEF SendNext, SendAgain
<1>3. queue' \in Seq(Logged')
  BY <1>1, <1>2 DEF DeliveryInv, Logged
<1>4. Logged \subseteq Positions
  BY SubscriptionAssumption DEF DeliveryInv, SubscriptionTypeOK, Logged, Positions
<1>5. SubscriptionTypeOK'
  <2>1. queue' \in Seq(Positions)
    BY <1>1, <1>4 DEF DeliveryInv, SubscriptionTypeOK
  <2>2. sent' \in 0..MaxEvents
    BY <1>1, SubscriptionAssumption
    DEF DeliveryInv, SubscriptionTypeOK, Logged
  <2> QED
    BY <1>1, <1>2, <1>4, <2>1, <2>2 DEF DeliveryInv, SubscriptionTypeOK, Positions
<1>6. NothingLost'
  BY <1>1, <1>2 DEF DeliveryInv, NothingLost, SubscriptionTypeOK, Logged
<1> QED
  BY <1>1, <1>2, <1>3, <1>5, <1>6
  DEF DeliveryInv, SubscriptionTypeOK, Logged, NoAnswer

\* A handler that returns or throws has its event answered next.
LEMMA DeliveryHandled ==
    ASSUME DeliveryInv, NEW p, NEW ack \in BOOLEAN, Handled(p, ack)
    PROVE  DeliveryInv' /\ p \in Logged
<1>1. /\ queue # <<>> /\ p = Head(queue) /\ queue' = Tail(queue)
      /\ answer' = [event |-> p, ack |-> ack]
      /\ UNCHANGED <<log, sent, retry, inflight, parked, settled, timeouts, breaks>>
  BY DEF Handled
<1>2. p \in Logged /\ queue' \in Seq(Logged)
  BY <1>1 DEF DeliveryInv
<1>3. p \in Positions /\ queue' \in Seq(Positions)
  BY <1>1 DEF DeliveryInv, SubscriptionTypeOK
<1>4. SubscriptionTypeOK'
  BY <1>1, <1>3, SubscriptionAssumption
  DEF DeliveryInv, SubscriptionTypeOK, Positions
<1>5. NothingLost'
  BY <1>1 DEF DeliveryInv, NothingLost
<1> QED
  BY <1>1, <1>2, <1>4, <1>5 DEF DeliveryInv, Logged, NoAnswer

\* An answer takes an event to those acknowledged or to those parked, unless
\* it is to be sent again already.
LEMMA DeliveryAnswer ==
    ASSUME DeliveryInv, Answer
    PROVE  DeliveryInv'
<1>1. answer # NoAnswer /\ answer.event \in Logged
  BY DEF Answer, DeliveryInv
<1>2. /\ answer' = NoAnswer /\ inflight' = inflight \ {answer.event}
      /\ UNCHANGED <<log, sent, retry, queue, timeouts, breaks>>
  BY DEF Answer
<1>3. /\ parked \subseteq parked' /\ parked' \subseteq parked \cup {answer.event}
      /\ settled \subseteq settled' /\ settled' \subseteq settled \cup {answer.event}
      /\ answer.event \in inflight => answer.event \in parked' \cup settled'
  BY DEF Answer
<1>4. Logged \subseteq Positions
  BY SubscriptionAssumption DEF DeliveryInv, SubscriptionTypeOK, Logged, Positions
<1>5. NoAnswer \in [event : 0..MaxEvents, ack : BOOLEAN]
  BY SubscriptionAssumption DEF NoAnswer
<1>6. SubscriptionTypeOK'
  BY <1>1, <1>2, <1>3, <1>4, <1>5 DEF DeliveryInv, SubscriptionTypeOK, Positions
<1>7. NothingLost'
  BY <1>1, <1>2, <1>3 DEF DeliveryInv, NothingLost
<1> QED
  BY <1>1, <1>2, <1>3, <1>6, <1>7 DEF DeliveryInv, Logged

\* What was sent and not answered is sent again after a fault.
LEMMA DeliveryFaults ==
    ASSUME DeliveryInv, Faults
    PROVE  DeliveryInv'
<1> USE SubscriptionAssumption
<1>1. CASE \E p \in Positions : TimeOut(p)
  <2>1. PICK p \in Positions : TimeOut(p)
    BY <1>1
  <2>2. SubscriptionTypeOK'
    BY <2>1 DEF TimeOut, DeliveryInv, SubscriptionTypeOK, Positions
  <2>3. NothingLost'
    BY <2>1 DEF TimeOut, DeliveryInv, NothingLost
  <2> QED
    BY <2>1, <2>2, <2>3 DEF TimeOut, DeliveryInv, Logged, NoAnswer
<1>2. NoAnswer \in [event : 0..MaxEvents, ack : BOOLEAN]
  BY DEF NoAnswer
<1>3. <<>> \in Seq(Positions) /\ <<>> \in Seq(Logged)
  OBVIOUS
<1>4. CASE Disconnect
  <2>1. SubscriptionTypeOK'
    BY <1>2, <1>3, <1>4 DEF Disconnect, DeliveryInv, SubscriptionTypeOK, Positions
  <2>2. NothingLost'
    BY <1>4 DEF Disconnect, DeliveryInv, NothingLost
  <2> QED
    BY <1>3, <1>4, <2>1, <2>2 DEF Disconnect, DeliveryInv, Logged
<1>5. CASE ServerRestart
  <2>1. PICK checkpoint \in 0..sent :
            /\ \A p \in retry \cup inflight : checkpoint < p
            /\ sent' = checkpoint
    BY <1>5 DEF ServerRestart
  <2>2. SubscriptionTypeOK'
    BY <1>2, <1>3, <1>5, <2>1
    DEF ServerRestart, DeliveryInv, SubscriptionTypeOK, Positions
  <2>3. NothingLost'
    <3> SUFFICES ASSUME NEW p \in 1..Len(log)
                 PROVE  p \in settled \cup parked \/ p > sent'
      BY <1>5 DEF ServerRestart, NothingLost
    <3> QED
      BY <2>1 DEF DeliveryInv, NothingLost, SubscriptionTypeOK
  <2> QED
    BY <1>3, <1>5, <2>1, <2>2, <2>3
    DEF ServerRestart, DeliveryInv, SubscriptionTypeOK, Logged
<1> QED
  BY <1>1, <1>4, <1>5 DEF Faults

-----------------------------------------------------------------------------
(* The order of delivery, as long as no answer is late.                     *)

\* The events not handled since they were last sent are those after h, and
\* they come to the handler in order.
Ordered(h) ==
    /\ h \in 0..sent
    /\ h + Len(queue) <= sent
    /\ \A k \in 1..Len(queue) : queue[k] = h + k
    /\ retry = (h + Len(queue) + 1)..sent
    /\ answer # NoAnswer => answer.event = h
    /\ inflight = (IF answer = NoAnswer THEN h + 1 ELSE h)..(h + Len(queue))

\* Nothing was sent yet.
LEMMA OrderInit ==
    ASSUME SubscriptionInit
    PROVE  Ordered(0)
<1>1. sent = 0 /\ Len(queue) = 0 /\ queue = <<>> /\ retry = {} /\ inflight = {}
      /\ answer = NoAnswer
  BY DEF SubscriptionInit
<1> QED
  BY <1>1 DEF Ordered

\* A request appends behind what is to be sent.
LEMMA OrderStutter ==
    ASSUME NEW h, Ordered(h), UNCHANGED subscriptionVars
    PROVE  Ordered(h)'
  BY DEF Ordered, subscriptionVars, NoAnswer

\* What is sent is next in line.
LEMMA OrderSend ==
    ASSUME DeliveryInv, NEW h, Ordered(h), SendNext \/ SendAgain
    PROVE  Ordered(h)'
<1> DEFINE p == h + Len(queue) + 1
<1>1. /\ h \in Nat /\ sent \in Nat /\ Len(queue) \in Nat
      /\ queue \in Seq(Positions) /\ h <= sent
  BY DEF Ordered, DeliveryInv, SubscriptionTypeOK
<1>2. /\ inflight' = inflight \cup {p} /\ queue' = Append(queue, p)
      /\ p <= sent' /\ sent <= sent' /\ answer' = answer
      /\ retry' = (p + 1)..sent'
  <2>1. CASE SendNext
    <3>1. retry = {} /\ sent' = sent + 1 /\ Send(sent + 1) /\ retry' = retry
          /\ answer' = answer
      BY <2>1 DEF SendNext
    <3>2. h + Len(queue) = sent
      BY <1>1, <3>1 DEF Ordered
    <3> QED
      BY <1>1, <3>1, <3>2 DEF Send
  <2>2. CASE SendAgain
    <3>1. PICK q \in retry : /\ \A r \in retry : q <= r
                             /\ retry' = retry \ {q} /\ Send(q)
                             /\ sent' = sent /\ answer' = answer
      BY <2>2 DEF SendAgain
    <3>2. q = p /\ p <= sent
      BY <1>1, <3>1 DEF Ordered
    <3>3. retry' = (p + 1)..sent
      BY <1>1, <3>1, <3>2 DEF Ordered
    <3> QED
      BY <1>1, <3>1, <3>2, <3>3 DEF Send
  <2> QED
    BY <2>1, <2>2
<1>3. /\ Len(queue') = Len(queue) + 1
      /\ \A k \in 1..Len(queue') : queue'[k] = h + k
  <2>1. /\ Len(queue') = Len(queue) + 1 /\ queue'[Len(queue) + 1] = p
        /\ \A k \in 1..Len(queue) : queue'[k] = queue[k]
    BY <1>1, <1>2
  <2>2. \A k \in 1..Len(queue) : queue[k] = h + k
    BY DEF Ordered
  <2>3. ASSUME NEW k \in 1..Len(queue')
        PROVE  queue'[k] = h + k
    <3>1. k \in 1..Len(queue) \/ k = Len(queue) + 1
      BY <1>1, <2>1
    <3> QED
      BY <1>1, <2>1, <2>2, <3>1
  <2> QED
    BY <2>1, <2>3
<1>4. inflight' = (IF answer' = NoAnswer THEN h + 1 ELSE h)..(h + Len(queue'))
  <2> DEFINE first == IF answer = NoAnswer THEN h + 1 ELSE h
  <2>1. inflight = first..(h + Len(queue)) /\ first \in {h, h + 1}
    BY DEF Ordered
  <2> HIDE DEF first
  <2>2. inflight' = first..p
    BY <1>1, <1>2, <2>1
  <2> QED
    BY <1>1, <1>2, <1>3, <2>2 DEF first
<1>5. h + Len(queue') = p
  BY <1>1, <1>3
<1>6. (answer # NoAnswer => answer.event = h) /\ h \in 0..sent'
  BY <1>1, <1>2, DeliverySend
  DEF Ordered, DeliveryInv, SubscriptionTypeOK
<1> HIDE DEF p
<1> QED
  BY <1>2, <1>3, <1>4, <1>5, <1>6 DEF Ordered, NoAnswer

\* The handler has the events in order.
LEMMA OrderHandled ==
    ASSUME DeliveryInv, NEW h, Ordered(h), NEW p, NEW ack, Handled(p, ack)
    PROVE  p = h + 1 /\ Ordered(h + 1)'
<1>1. /\ h \in Nat /\ sent \in Nat /\ Len(queue) \in Nat /\ queue \in Seq(Positions)
  BY DEF Ordered, DeliveryInv, SubscriptionTypeOK
<1>2. /\ answer = NoAnswer /\ queue # <<>> /\ p = Head(queue)
      /\ queue' = Tail(queue) /\ answer' = [event |-> p, ack |-> ack]
      /\ UNCHANGED <<sent, retry, inflight>>
  BY DEF Handled
<1>3. /\ Len(queue) > 0 /\ p = queue[1]
      /\ Len(queue') = Len(queue) - 1
      /\ \A k \in 1..Len(queue') : queue'[k] = queue[k + 1]
  BY <1>1, <1>2
<1>4. p = h + 1
  BY <1>1, <1>3 DEF Ordered
<1>5. answer' # NoAnswer /\ answer'.event = h + 1
  BY <1>1, <1>2, <1>4 DEF NoAnswer
<1>6. \A k \in 1..Len(queue') : queue'[k] = h + 1 + k
  BY <1>1, <1>3 DEF Ordered
<1> QED
  BY <1>1, <1>2, <1>3, <1>4, <1>5, <1>6 DEF Ordered, NoAnswer

\* The answer is for the event handled last.
LEMMA OrderAnswer ==
    ASSUME DeliveryInv, NEW h, Ordered(h), Answer
    PROVE  Ordered(h)'
<1>1. /\ h \in Nat /\ sent \in Nat /\ Len(queue) \in Nat
  BY DEF Ordered, DeliveryInv, SubscriptionTypeOK
<1>2. /\ answer # NoAnswer /\ answer' = NoAnswer
      /\ inflight' = inflight \ {answer.event}
      /\ UNCHANGED <<sent, retry, queue>>
  BY DEF Answer
<1>3. inflight' = (h + 1)..(h + Len(queue))
  BY <1>1, <1>2 DEF Ordered
<1> QED
  BY <1>1, <1>2, <1>3 DEF Ordered, NoAnswer

\* After a fault the handler starts over at an event it has had before, or at
\* the next one.
LEMMA OrderFaults ==
    ASSUME DeliveryInv, NEW h, Ordered(h), Faults, timeouts' = 0
    PROVE  \E g \in 0..h : Ordered(g)'
<1>1. /\ h \in Nat /\ sent \in Nat /\ Len(queue) \in Nat /\ timeouts \in Nat
      /\ h <= sent /\ h + Len(queue) <= sent
      /\ answer # NoAnswer => h \in 1..sent
  BY SubscriptionAssumption
  DEF Ordered, DeliveryInv, SubscriptionTypeOK, Logged
<1>2. ~(\E p \in Positions : TimeOut(p))
  BY <1>1 DEF TimeOut
<1>3. CASE Disconnect
  <2>1. PICK g \in 0..h : g = IF answer = NoAnswer THEN h ELSE h - 1
    BY <1>1
  <2>2. /\ queue' = <<>> /\ answer' = NoAnswer /\ inflight' = {}
        /\ retry' = retry \cup inflight /\ sent' = sent /\ Len(queue') = 0
    BY <1>3 DEF Disconnect
  <2>3. retry' = (g + 1)..sent
    BY <1>1, <2>1, <2>2 DEF Ordered
  <2> QED
    BY <1>1, <2>2, <2>3 DEF Ordered, NoAnswer
<1>4. CASE ServerRestart
  <2>1. PICK g \in 0..sent : sent' = g /\ \A p \in retry \cup inflight : g < p
    BY <1>4 DEF ServerRestart
  <2>2. /\ queue' = <<>> /\ answer' = NoAnswer /\ inflight' = {} /\ retry' = {}
        /\ Len(queue') = 0
    BY <1>4 DEF ServerRestart
  <2>3. g <= h
    <3>1. h < sent => h + 1 \in retry \cup inflight
      BY <1>1 DEF Ordered
    <3> QED
      BY <1>1, <2>1, <3>1
  <2>4. Ordered(g)'
    BY <1>1, <2>1, <2>2 DEF Ordered, NoAnswer
  <2> QED
    BY <1>1, <2>1, <2>3, <2>4
<1> QED
  BY <1>2, <1>3, <1>4 DEF Faults

\* When every event is answered, every event was handled.
LEMMA OrderQuiet ==
    ASSUME DeliveryInv, NEW h, Ordered(h), Quiet
    PROVE  h = Len(log)
<1>1. h \in Nat /\ sent \in Nat /\ Len(queue) = 0 /\ h <= sent
  BY DEF Ordered, DeliveryInv, SubscriptionTypeOK, Quiet
<1>2. (h + 1)..sent = {}
  BY <1>1 DEF Ordered, Quiet
<1> QED
  BY <1>1, <1>2 DEF Quiet

-----------------------------------------------------------------------------
(* Every step of a module that extends PersistentSubscription.              *)

\* What the modules that extend PersistentSubscription do with it in one step.
SubscriptionNext(S) ==
    \/ \E e \in S : AppendToLog(e)
    \/ SendNext \/ SendAgain
    \/ \E p, ack : Handled(p, ack)
    \/ Answer
    \/ Faults
    \/ UNCHANGED <<log, subscriptionVars>>

\* An event that is not answered is in the client's buffer or with EventAppeared.
WithClient ==
    \A p \in inflight :
        \/ \E k \in 1..Len(queue) : queue[k] = p
        \/ answer # NoAnswer /\ answer.event = p

\* As long as no answer was late, some number of events were handled in order.
InOrder == timeouts = 0 => \E h \in Nat : Ordered(h)

\* Nothing is sent yet.
LEMMA ClientInit ==
    ASSUME SubscriptionInit
    PROVE  WithClient /\ InOrder
BY OrderInit DEF SubscriptionInit, WithClient, InOrder

\* An event that is sent is put into the client's buffer, and leaves it for
\* EventAppeared; an answer takes it from the events that wait for one.
LEMMA ClientPreserved ==
    ASSUME DeliveryInv, WithClient, NEW S, SubscriptionNext(S)
    PROVE  WithClient'
<1>1. queue \in Seq(Positions) /\ Len(queue) \in Nat
  BY DEF DeliveryInv, SubscriptionTypeOK
<1>2. ASSUME NEW e \in S, AppendToLog(e)
      PROVE  WithClient'
  BY <1>2 DEF AppendToLog, subscriptionVars, WithClient, NoAnswer
<1>3. CASE SendNext \/ SendAgain
  <2>1. PICK p :
            /\ p \in Positions
            /\ inflight' = inflight \cup {p} /\ queue' = Append(queue, p)
            /\ answer' = answer
    <3>1. sent < Len(log) => sent + 1 \in Positions
      BY SubscriptionAssumption DEF DeliveryInv, SubscriptionTypeOK, Positions
    <3> QED
      BY <1>3, <3>1
      DEF SendNext, SendAgain, Send, DeliveryInv, SubscriptionTypeOK
  <2>2. /\ Len(queue') = Len(queue) + 1 /\ queue'[Len(queue')] = p
        /\ \A k \in 1..Len(queue) : queue'[k] = queue[k]
    BY <1>1, <2>1
  <2>3. Len(queue') \in 1..Len(queue') /\ 1..Len(queue) \subseteq 1..Len(queue')
    BY <1>1, <2>2
  <2>4. ASSUME NEW q \in inflight, NEW k \in 1..Len(queue), queue[k] = q
        PROVE  \E j \in 1..Len(queue') : queue'[j] = q
    BY <2>2, <2>3, <2>4
  <2> QED
    BY <2>1, <2>2, <2>3, <2>4 DEF WithClient, NoAnswer
<1>4. ASSUME NEW p, NEW ack, Handled(p, ack)
      PROVE  WithClient'
  <2>1. /\ answer = NoAnswer /\ queue # <<>> /\ p = Head(queue)
        /\ queue' = Tail(queue) /\ answer' = [event |-> p, ack |-> ack]
        /\ inflight' = inflight
    BY <1>4 DEF Handled
  <2>2. /\ Len(queue) > 0 /\ p = queue[1] /\ Len(queue') = Len(queue) - 1
        /\ \A k \in 1..Len(queue') : queue'[k] = queue[k + 1]
        /\ p \in Positions
    BY <1>1, <2>1
  <2>3. answer' # NoAnswer /\ answer'.event = p
    BY <2>1, <2>2 DEF NoAnswer, Positions
  <2>4. ASSUME NEW k \in 1..Len(queue), queue[k] # p
        PROVE  \E j \in 1..Len(queue') : queue'[j] = queue[k]
    <3>1. k - 1 \in 1..Len(queue') /\ (k - 1) + 1 = k
      BY <1>1, <2>2, <2>4
    <3>2. queue'[k - 1] = queue[k]
      BY <2>2, <3>1
    <3> QED
      BY <3>1, <3>2
  <2> QED
    BY <2>1, <2>3, <2>4 DEF WithClient, NoAnswer
<1>5. CASE Answer
  <2>1. inflight' = inflight \ {answer.event} /\ queue' = queue
    BY <1>5 DEF Answer
  <2> QED
    BY <2>1 DEF WithClient
<1>6. CASE Faults
  <2>1. \/ inflight' = {}
        \/ inflight' \subseteq inflight /\ UNCHANGED <<queue, answer>>
    BY <1>6 DEF Faults, TimeOut, Disconnect, ServerRestart
  <2> QED
    BY <2>1 DEF WithClient, NoAnswer
<1>7. CASE UNCHANGED <<log, subscriptionVars>>
  BY <1>7 DEF subscriptionVars, WithClient, NoAnswer
<1> QED
  BY <1>2, <1>3, <1>4, <1>5, <1>6, <1>7 DEF SubscriptionNext

\* Late answers are counted.
LEMMA TimeoutsGrow ==
    ASSUME DeliveryInv, NEW S, SubscriptionNext(S), timeouts' = 0
    PROVE  timeouts = 0
BY SubscriptionAssumption
DEF SubscriptionNext, AppendToLog, SendNext, SendAgain, Handled, Answer, Faults,
    TimeOut, Disconnect, ServerRestart, subscriptionVars, DeliveryInv,
    SubscriptionTypeOK

\* No step but a late answer takes the events out of their order.
LEMMA OrderPreserved ==
    ASSUME DeliveryInv, InOrder, NEW S, SubscriptionNext(S)
    PROVE  InOrder'
<1> SUFFICES ASSUME timeouts' = 0
             PROVE  \E h \in Nat : Ordered(h)'
  BY DEF InOrder
<1>1. timeouts = 0
  BY TimeoutsGrow
<1>2. PICK h \in Nat : Ordered(h)
  BY <1>1 DEF InOrder
<1>3. CASE (\E e \in S : AppendToLog(e)) \/ UNCHANGED <<log, subscriptionVars>>
  BY <1>2, <1>3, OrderStutter DEF AppendToLog
<1>4. ASSUME NEW p, NEW ack, Handled(p, ack)
      PROVE  \E g \in Nat : Ordered(g)'
  BY <1>2, <1>4, OrderHandled
<1>5. CASE Faults
  <2>1. PICK g \in 0..h : Ordered(g)'
    BY <1>2, <1>5, OrderFaults
  <2> QED
    BY <2>1
<1> QED
  BY <1>2, <1>3, <1>4, <1>5, OrderSend, OrderAnswer DEF SubscriptionNext

\* What the client has is handled and answered, so the server can always send.
LEMMA CanAlwaysGoOn ==
    ASSUME DeliveryInv, WithClient
    PROVE  NeverStuck
<1> SUFFICES ASSUME ~CanGoOn
             PROVE  Quiet
  BY DEF NeverStuck
<1>1. answer = NoAnswer /\ queue = <<>>
  BY DEF CanGoOn
<1>2. inflight = {}
  BY <1>1 DEF WithClient
<1>3. Cardinality(inflight) < BufferSize
  BY <1>2, FS_EmptySet, SubscriptionAssumption
<1>4. retry = {} /\ ~(sent < Len(log))
  BY <1>3 DEF CanGoOn
<1>5. sent = Len(log)
  BY <1>4 DEF DeliveryInv, SubscriptionTypeOK
<1> QED
  BY <1>1, <1>2, <1>4, <1>5 DEF Quiet

\* What is to be sent again are finitely many events.
LEMMA RetryIsFinite ==
    ASSUME DeliveryInv
    PROVE  /\ IsFiniteSet(retry) /\ Cardinality(retry) \in Nat
           /\ \A p \in retry : Cardinality(retry \ {p}) = Cardinality(retry) - 1
<1>1. retry \subseteq 1..sent /\ sent \in Nat
  BY DEF DeliveryInv, SubscriptionTypeOK
<1>2. IsFiniteSet(1..sent)
  BY <1>1, FS_Interval
<1>3. IsFiniteSet(retry)
  BY <1>1, <1>2, FS_Subset
<1> QED
  BY <1>3, FS_CardinalityType, FS_RemoveElement

\* An event is sent (3 less to do, of which 2 are left to the client), handled
\* or answered; only faults make more to do.
LEMMA WorkLeft ==
    ASSUME DeliveryInv, NEW S, SubscriptionNext(S)
    PROVE  \/ UNCHANGED subscriptionVars
           \/ Work' < Work
           \/ timeouts' > timeouts
           \/ breaks' > breaks
<1>1. /\ sent \in Nat /\ Len(log) \in Nat /\ sent <= Len(log)
      /\ queue \in Seq(Positions) /\ Len(queue) \in Nat
      /\ timeouts \in Nat /\ breaks \in Nat
  BY SubscriptionAssumption DEF DeliveryInv, SubscriptionTypeOK
<1>2. Cardinality(retry) \in Nat
  BY RetryIsFinite
<1>3. CASE SendNext
  <2>1. /\ sent' = sent + 1 /\ retry' = retry /\ Len(queue') = Len(queue) + 1
        /\ answer' = answer /\ log' = log
    BY <1>1, <1>3 DEF SendNext, Send
  <2> QED
    BY <1>1, <1>2, <2>1 DEF Work, NoAnswer
<1>4. CASE SendAgain
  <2>1. PICK p \in retry : retry' = retry \ {p} /\ Send(p)
                           /\ UNCHANGED <<log, sent, answer>>
    BY <1>4 DEF SendAgain
  <2>2. Len(queue') = Len(queue) + 1 /\ Cardinality(retry') = Cardinality(retry) - 1
    BY <1>1, <2>1, RetryIsFinite DEF Send
  <2> QED
    BY <1>1, <1>2, <2>1, <2>2 DEF Work, NoAnswer
<1>5. ASSUME NEW p, NEW ack, Handled(p, ack)
      PROVE  Work' < Work
  <2>1. /\ answer = NoAnswer /\ answer' # NoAnswer /\ UNCHANGED <<log, sent, retry>>
    <3>1. answer'.event = p /\ p \in Positions
      BY <1>1, <1>5 DEF Handled
    <3> QED
      BY <1>5, <3>1 DEF Handled, NoAnswer, Positions
  <2>2. Len(queue') = Len(queue) - 1 /\ Len(queue) > 0
    BY <1>1, <1>5 DEF Handled
  <2> QED
    BY <1>1, <1>2, <2>1, <2>2 DEF Work, NoAnswer
<1>6. CASE Answer
  <2>1. answer # NoAnswer /\ answer' = NoAnswer /\ UNCHANGED <<log, sent, retry, queue>>
    BY <1>6 DEF Answer
  <2> QED
    BY <1>1, <1>2, <2>1 DEF Work, NoAnswer
<1>7. CASE Faults
  BY <1>1, <1>7 DEF Faults, TimeOut, Disconnect, ServerRestart
<1> QED
  BY <1>3, <1>4, <1>5, <1>6, <1>7 DEF SubscriptionNext, AppendToLog

\* The handlers have had h events, each of which was answered, but maybe the
\* last.
HandledInOrder(h) ==
    /\ HandledUpTo = h
    /\ h \in 0..Len(log)
    /\ \A p \in 1..h : p \in settled \cup parked \/ (p = h /\ answer # NoAnswer)

\* Behind the events that were handled come those in the client's buffer, and
\* then those to be sent again: the rest of what was sent was handled and
\* answered.
LEMMA OrderCounts == \A h : DeliveryInv /\ Ordered(h) => HandledInOrder(h)
<1> SUFFICES ASSUME DeliveryInv, NEW h, Ordered(h)
             PROVE  HandledInOrder(h)
  OBVIOUS
<1>1. /\ h \in Nat /\ sent \in Nat /\ Len(log) \in Nat /\ sent <= Len(log)
      /\ Len(queue) \in Nat /\ h + Len(queue) <= sent /\ h <= sent
      /\ retry = (h + Len(queue) + 1)..sent
  BY DEF Ordered, DeliveryInv, SubscriptionTypeOK
<1>2. Cardinality(retry) = sent - h - Len(queue)
  <2> DEFINE a == h + Len(queue) + 1
  <2>1. a \in Int /\ sent \in Int /\ retry = a..sent
    BY <1>1
  <2> HIDE DEF a
  <2>2. Cardinality(retry) = IF a > sent THEN 0 ELSE sent - a + 1
    BY <2>1, FS_Interval
  <2> QED
    BY <1>1, <2>2 DEF a
<1>3. HandledUpTo = h
  BY <1>1, <1>2 DEF HandledUpTo
<1>4. ASSUME NEW p \in 1..h, ~(p = h /\ answer # NoAnswer)
      PROVE  p \in settled \cup parked
  <2>1. p \in 1..Len(log) /\ ~(p > sent) /\ p \notin retry /\ p \notin inflight
    BY <1>1, <1>4 DEF Ordered
  <2> QED
    BY <2>1 DEF DeliveryInv, NothingLost
<1> QED
  BY <1>1, <1>3, <1>4 DEF HandledInOrder

\* The same of the next state.
LEMMA OrderCountsNext == (\A h : DeliveryInv /\ Ordered(h) => HandledInOrder(h))'
BY OrderCounts, PTL

\* Before anything is appended, nothing is handled.
LEMMA ReplayInit ==
    ASSUME SubscriptionInit
    PROVE  Replayed!Init
<1>1. HandledUpTo = 0
  BY FS_EmptySet DEF SubscriptionInit, HandledUpTo
<1> QED
  BY <1>1 DEF SubscriptionInit, Replayed!Init

\* Sending is none of ReplayedLog's business; every other step is one of its
\* steps, and a fault starts over at the first event that is not answered.
LEMMA ReplayStep ==
    ASSUME DeliveryInv, DeliveryInv', InOrder, timeouts' = 0,
           NEW S, log \in Seq(S), SubscriptionNext(S)
    PROVE  Replayed!Next \/ UNCHANGED Replayed!vars
<1> DEFINE Answered == settled \cup parked
<1>1. PICK h \in Nat : Ordered(h)
  <2>1. timeouts = 0
    BY TimeoutsGrow
  <2> QED
    BY <2>1 DEF InOrder
<1>2. /\ HandledUpTo = h /\ h \in 0..Len(log) /\ Len(log) \in Nat
      /\ \A p \in 1..h : p \in Answered \/ (p = h /\ answer # NoAnswer)
  BY <1>1, OrderCounts DEF DeliveryInv, HandledInOrder
<1>3. ASSUME NEW g, Ordered(g)'
      PROVE  HandledUpTo' = g
             /\ \A p \in 1..g : p \in Answered' \/ (p = g /\ answer' # NoAnswer)
  BY <1>3, OrderCountsNext DEF HandledInOrder
<1>4. ASSUME NEW e \in S, AppendToLog(e)
      PROVE  Replayed!Grow
  <2>1. log' = Append(log, e) /\ UNCHANGED subscriptionVars
    BY <1>4 DEF AppendToLog
  <2>2. HandledUpTo' = HandledUpTo
    BY <2>1 DEF HandledUpTo, subscriptionVars
  <2>3. Len(log') = Len(log) + 1 /\ \A p \in 1..Len(log) : log'[p] = log[p]
    BY <2>1
  <2> QED
    BY <2>1, <2>2, <2>3 DEF Replayed!Grow, subscriptionVars
<1>5. CASE SendNext \/ SendAgain
  <2>1. Ordered(h)' /\ UNCHANGED <<log, settled, parked>>
    BY <1>1, <1>5, OrderSend DEF SendNext, SendAgain
  <2> QED
    BY <1>2, <1>3, <2>1 DEF Replayed!vars
<1>6. ASSUME NEW p, NEW ack, Handled(p, ack)
      PROVE  Replayed!Handle
  <2>1. Ordered(h + 1)' /\ UNCHANGED <<log, settled, parked>> /\ answer = NoAnswer
    BY <1>1, <1>6, OrderHandled DEF Handled
  <2>2. HandledUpTo' = h + 1 /\ Replayed!AnsweredUpTo(HandledUpTo)
    BY <1>2, <1>3, <2>1 DEF Replayed!AnsweredUpTo
  <2>3. h < Len(log)
    <3>1. queue # <<>> /\ queue \in Seq(Positions) /\ sent <= Len(log) /\ sent \in Nat
      BY <1>6 DEF Handled, DeliveryInv, SubscriptionTypeOK
    <3>2. Len(queue) > 0 /\ Len(queue) \in Nat /\ h + Len(queue) <= sent
      BY <1>1, <3>1 DEF Ordered
    <3> QED
      BY <1>2, <3>1, <3>2
  <2> QED
    BY <1>2, <2>1, <2>2, <2>3 DEF Replayed!Handle
<1>7. CASE Answer
  <2>1. /\ Ordered(h)' /\ answer # NoAnswer /\ log' = log
    BY <1>1, <1>7, OrderAnswer DEF Answer
  <2>2. answer.event = h /\ h > 0 /\ h \in inflight
    <3>1. answer.event = h /\ h \in Logged
      BY <1>1, <2>1 DEF Ordered, DeliveryInv
    <3>2. inflight = h..(h + Len(queue)) /\ Len(queue) \in Nat
      BY <1>1, <2>1 DEF Ordered, DeliveryInv, SubscriptionTypeOK
    <3> QED
      BY <1>2, <3>1, <3>2 DEF Logged
  <2>3. Answered' = Answered \cup {h}
    BY <1>7, <2>2 DEF Answer
  <2> QED
    BY <1>2, <1>3, <2>1, <2>2, <2>3 DEF Replayed!Settle, Replayed!Next
<1>8. CASE Faults
  <2>1. PICK g \in 0..h : Ordered(g)'
    BY <1>1, <1>8, OrderFaults
  <2>2. answer' = NoAnswer /\ UNCHANGED <<log, settled, parked>>
    BY <1>8, SubscriptionAssumption
    DEF Faults, TimeOut, Disconnect, ServerRestart, DeliveryInv, SubscriptionTypeOK
  <2>3. HandledUpTo' = g /\ \A q \in 1..g : q \in Answered
    BY <1>3, <2>1, <2>2
  <2> QED
    BY <1>2, <2>1, <2>2, <2>3
    DEF Replayed!StartOver, Replayed!AnsweredUpTo, Replayed!Next
<1>9. CASE UNCHANGED <<log, subscriptionVars>>
  BY <1>9 DEF Replayed!vars, HandledUpTo, subscriptionVars
<1> QED
  BY <1>4, <1>5, <1>6, <1>7, <1>8, <1>9 DEF SubscriptionNext, Replayed!Next
-----------------------------------------------------------------------------
(* The last of the events that decide on something.                         *)

LastOf(p, S) == p \in S /\ \A q \in S : q <= p

\* A set of positions that is not empty has a last one.
LEMMA LastExists ==
    ASSUME NEW n \in Nat, NEW S, S \subseteq 1..n, S # {}
    PROVE  \E p \in S : LastOf(p, S)
<1> DEFINE T == {k \in Nat : \E p \in S : k = n - p}
           R == OpToRel(<, Nat)
<1>1. PICK p \in S : TRUE
  OBVIOUS
<1>2. n - p \in T
  BY <1>1
<1>3. PICK k \in T : \A j \in T : <<j, k>> \notin R
  <2>1. T \subseteq Nat /\ T # {}
    BY <1>2
  <2> HIDE DEF T
  <2> QED
    BY <2>1, WFMin, NatLessThanWellFounded
<1>4. \A j \in T : ~ (j < k)
  BY <1>3 DEF OpToRel
<1>5. PICK last \in S : k = n - last
  BY <1>3
<1>6. ASSUME NEW q \in S PROVE q <= last
  <2>1. n - q \in T
    BY <1>6
  <2>2. ~ (n - q < n - last) /\ q \in Int /\ last \in Int
    BY <1>4, <1>5, <1>6, <2>1
  <2> HIDE DEF T, R
  <2> QED
    BY <2>2
<1> QED
  BY <1>5, <1>6 DEF LastOf
=============================================================================

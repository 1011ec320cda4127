----------------------- MODULE UserRegistrationProofs -----------------------
(***************************************************************************)
(* For any number of users, events, faults and failures: a user has one     *)
(* publisher, ads reach their owners, no update of a user is forgotten      *)
(* while the database is up, profiles come back to what the events say      *)
(* however often they are replayed, and an interrupted registration stays   *)
(* as it is.                                                                *)
(***************************************************************************)
EXTENDS UserRegistration, PersistentSubscriptionProofs, FiniteSetTheorems

Event == [type : {"Created", "Updated"}, user : Users]

Row == [user : Users, profile : Positions]

StateInv ==
    /\ DeliveryInv
    /\ log \in Seq(Event)
    /\ accounts \subseteq Users
    /\ registering \subseteq accounts
    /\ publishers \in Seq(Row)
    /\ ad \in Ads \cup {NoAd}
    /\ failures \in 0..MaxFailures

\* What OnePublisherPerUser says, without counting.
RowInv ==
    \A i, j \in 1..Len(publishers) :
        publishers[i].user = publishers[j].user => i = j

\* The id an ad was created with is its user's, and stays so.
AdInv ==
    ad \in Ads =>
        /\ ad.publisher # NoPublisher =>
               /\ ad.publisher \in 1..Len(publishers)
               /\ publishers[ad.publisher].user = ad.user
        /\ ad.state = "shown" => ad.publisher # NoPublisher
        /\ ad.state = "parked" =>
              ~ad.category \/ ad.failed \/ ad.publisher = NoPublisher

\* The creation of a user is ahead of the user's other events.
StreamInv ==
    \A p \in Logged : \E c \in 1..p :
        log[c].type = "Created" /\ log[c].user = log[p].user

HasRow(p) == \E i \in 1..Len(publishers) : publishers[i].user = log[p].user

\* A creation whose user is not in the read model.
Waits(c) == log[c].type = "Created" /\ ~HasRow(c)

Queued(p) == \E k \in 1..Len(queue) : queue[k] = p

\* While the database is up nothing is parked, and whoever's event was handled
\* has a row.
HandledInv ==
    failures = 0 =>
        /\ parked = {}
        /\ answer # NoAnswer => answer.ack /\ HasRow(answer.event)
        /\ \A p \in settled : HasRow(p)

\* ... a creation that waits is still to be sent, or in the client's buffer,
WaitingInv ==
    failures = 0 =>
        \A c \in Logged : Waits(c) => c > sent \/ c \in retry \/ Queued(c)

\* ... where it is ahead of the user's later events.
OrderInv ==
    failures = 0 =>
        \A k \in 1..Len(queue) : \A c \in 1..queue[k] :
            Waits(c) /\ log[c].user = log[queue[k]].user =>
                \E j \in 1..k : queue[j] = c

IInv ==
    /\ StateInv
    /\ RowInv
    /\ AdInv
    /\ StreamInv
    /\ HandledInv
    /\ WaitingInv
    /\ OrderInv

-----------------------------------------------------------------------------

THEOREM InitialState == Init => IInv
<1> SUFFICES ASSUME Init PROVE IInv
  OBVIOUS
<1>1. DeliveryInv
  BY DeliveryInit DEF Init
<1>2. log = <<>> /\ queue = <<>> /\ answer = NoAnswer /\ settled = {} /\ parked = {}
  BY DEF Init, SubscriptionInit
<1>3. StateInv
  BY <1>1, <1>2, RegistrationAssumption DEF Init, StateInv
<1> QED
  BY <1>2, <1>3
  DEF Init, IInv, RowInv, AdInv, Ads, NoAd, StreamInv, HandledInv, WaitingInv,
      OrderInv, Logged

\* A step that leaves the log, the subscription and the publishers alone.
LEMMA DeliveryUntouched ==
    ASSUME IInv, UNCHANGED <<log, subscriptionVars, publishers, failures>>
    PROVE  /\ DeliveryInv'
           /\ RowInv' /\ StreamInv' /\ HandledInv' /\ WaitingInv' /\ OrderInv'
<1>1. DeliveryInv'
  BY DeliveryStutter DEF IInv, StateInv
<1>2. RowInv' /\ StreamInv'
  BY DEF IInv, RowInv, StreamInv, Logged
<1>3. HandledInv'
  BY DEF IInv, HandledInv, HasRow, subscriptionVars, NoAnswer
<1>4. WaitingInv'
  BY DEF IInv, WaitingInv, Waits, Queued, HasRow, Logged, subscriptionVars
<1>5. OrderInv'
  BY DEF IInv, OrderInv, Waits, HasRow, subscriptionVars
<1> QED
  BY <1>1, <1>2, <1>3, <1>4, <1>5

\* The accounts are nobody else's business.
LEMMA AccountsPreserve ==
    ASSUME IInv, NEW u \in Users, Register(u) \/ RegistrationFails(u)
    PROVE  IInv'
<1>1. UNCHANGED <<log, subscriptionVars, publishers, ad, failures>>
  BY DEF Register, RegistrationFails
<1>2. accounts' \subseteq Users /\ registering' \subseteq accounts'
  BY DEF IInv, StateInv, Register, RegistrationFails
<1>3. StateInv'
  BY <1>1, <1>2, DeliveryUntouched DEF IInv, StateInv
<1>4. AdInv'
  BY <1>1 DEF IInv, AdInv
<1> QED
  BY <1>1, <1>3, <1>4, DeliveryUntouched DEF IInv

\* The id that GetIdByUser returns is of the user's row.
LEMMA GetIdByUserFinds ==
    ASSUME StateInv, NEW u, GetIdByUser(u) # NoPublisher
    PROVE  /\ GetIdByUser(u) \in 1..Len(publishers)
           /\ publishers[GetIdByUser(u)].user = u
<1>1. Rows(u) # {} /\ GetIdByUser(u) \in Rows(u)
  BY DEF GetIdByUser, FindByUser
<1> QED
  BY <1>1 DEF Rows

\* The requests about the ad.
LEMMA AdPreserves ==
    ASSUME IInv,
           (\E u \in Users : AskPublisher(u)) \/ CreateAd \/ ProjectAd \/ AdFails
    PROVE  IInv'
<1>1. UNCHANGED <<log, subscriptionVars, identityVars, publishers, failures>>
  BY DEF AskPublisher, CreateAd, ProjectAd, AdFails
<1>2. ad' \in Ads /\ AdInv'
  <2>1. CASE \E u \in Users : AskPublisher(u)
    <3>1. PICK u \in Users, category \in BOOLEAN :
              ad' = [state |-> "asked", user |-> u, publisher |-> GetIdByUser(u),
                     category |-> category, failed |-> FALSE]
      BY <2>1 DEF AskPublisher
    <3>2. GetIdByUser(u) # NoPublisher =>
              /\ GetIdByUser(u) \in 1..Len(publishers)
              /\ publishers[GetIdByUser(u)].user = u
      BY GetIdByUserFinds DEF IInv
    <3>3. GetIdByUser(u) \in Nat
      BY <3>2 DEF NoPublisher
    <3> QED
      BY <1>1, <3>1, <3>2, <3>3 DEF Ads, AdInv
  <2>2. CASE CreateAd
    <3>1. ad \in Ads /\ ad' = [ad EXCEPT !.state = "created"]
      BY <2>2 DEF CreateAd, IInv, StateInv, NoAd
    <3> QED
      BY <1>1, <3>1 DEF IInv, Ads, AdInv
  <2>3. CASE ProjectAd
    <3>1. ad \in Ads
      BY <2>3 DEF ProjectAd, IInv, StateInv, NoAd
    <3>2. RefersToPublisher <=> ad.publisher # NoPublisher
      BY <3>1 DEF IInv, StateInv, AdInv, NoPublisher, RefersToPublisher
    <3>3. CASE ad.category /\ RefersToPublisher
      <4>1. ad' = [ad EXCEPT !.state = "shown"]
        BY <2>3, <3>3 DEF ProjectAd
      <4> QED
        BY <1>1, <3>1, <3>2, <3>3, <4>1 DEF IInv, Ads, AdInv
    <3>4. CASE ~(ad.category /\ RefersToPublisher)
      <4>1. ad' = [ad EXCEPT !.state = "parked"]
        BY <2>3, <3>4 DEF ProjectAd
      <4> QED
        BY <1>1, <3>1, <3>2, <3>4, <4>1 DEF IInv, Ads, AdInv
    <3> QED
      BY <3>3, <3>4
  <2>4. CASE AdFails
    <3>1. ad \in Ads /\ ad' = [ad EXCEPT !.state = "parked", !.failed = TRUE]
      BY <2>4 DEF AdFails, IInv, StateInv, NoAd
    <3> QED
      BY <1>1, <3>1 DEF IInv, Ads, AdInv
  <2> QED
    BY <2>1, <2>2, <2>3, <2>4
<1>3. StateInv'
  BY <1>1, <1>2, DeliveryUntouched DEF IInv, StateInv, identityVars
<1> QED
  BY <1>1, <1>2, <1>3, DeliveryUntouched DEF IInv

\* A user's creation, or a later event of a user with a stream, is appended.
LEMMA StreamPreserves ==
    ASSUME IInv, NEW u \in Users, SaveUser(u) \/ EditUser(u)
    PROVE  IInv'
<1>1. PICK e \in Event :
          /\ AppendToLog(e) /\ e.user = u
          /\ e.type = "Created" \/ Events(u) # {}
  BY DEF SaveUser, EditUser, CreateUser, UpdateUser, Event
<1>2. UNCHANGED <<accounts, publishers, ad, failures>>
  BY DEF SaveUser, EditUser, identityVars
<1>3. DeliveryInv' /\ log' \in Seq(Event)
  BY <1>1, DeliveryAppend DEF IInv, StateInv
<1>4. UNCHANGED <<sent, retry, inflight, parked, queue, answer, settled>>
  BY <1>1 DEF AppendToLog, subscriptionVars
<1>5. /\ Len(log) \in Nat
      /\ Len(log') = Len(log) + 1
      /\ log'[Len(log) + 1] = e
      /\ \A p \in Logged : log'[p] = log[p]
  BY <1>1 DEF AppendToLog, IInv, StateInv, Logged
<1>6. Logged' = Logged \cup {Len(log) + 1}
  BY <1>5 DEF Logged
<1>7. StateInv'
  <2>1. registering' \subseteq accounts'
    BY <1>2 DEF SaveUser, EditUser, identityVars, IInv, StateInv
  <2> QED
    BY <1>2, <1>3, <2>1 DEF IInv, StateInv
<1>8. RowInv' /\ AdInv'
  BY <1>2 DEF IInv, RowInv, AdInv
<1>9. StreamInv'
  <2>1. \A p \in Logged : \E c \in 1..p :
            log'[c].type = "Created" /\ log'[c].user = log'[p].user
    BY <1>5 DEF IInv, StreamInv, Logged
  <2>2. \E c \in 1..Len(log) + 1 :
            log'[c].type = "Created" /\ log'[c].user = log'[Len(log) + 1].user
    <3>1. CASE e.type = "Created"
      BY <1>5, <3>1
    <3>2. CASE Events(u) # {}
      <4>1. PICK p \in Logged : log[p].user = u
        BY <3>2 DEF Events, Logged
      <4> QED
        BY <1>1, <1>5, <2>1, <4>1 DEF Logged
    <3> QED
      BY <1>1, <3>1, <3>2
  <2> QED
    BY <1>6, <2>1, <2>2 DEF StreamInv
<1>10. \A p \in Logged : HasRow(p)' <=> HasRow(p)
  BY <1>2, <1>5 DEF HasRow
<1>11. \A c \in Logged : Waits(c)' <=> Waits(c)
  BY <1>5, <1>10 DEF Waits
<1>12. HandledInv'
  BY <1>2, <1>4, <1>10 DEF IInv, StateInv, DeliveryInv, HandledInv, NoAnswer
<1>13. WaitingInv'
  <2>1. Len(log) + 1 > sent
    BY <1>5 DEF IInv, StateInv, DeliveryInv, SubscriptionTypeOK
  <2> QED
    BY <1>2, <1>4, <1>6, <1>11, <2>1 DEF IInv, WaitingInv, Queued
<1>14. OrderInv'
  <2>1. \A k \in 1..Len(queue) : queue[k] \in Logged /\ 1..queue[k] \subseteq Logged
    BY <1>5 DEF IInv, StateInv, DeliveryInv, Logged
  <2> QED
    BY <1>2, <1>4, <1>5, <1>11, <2>1 DEF IInv, OrderInv
<1> QED
  BY <1>7, <1>8, <1>9, <1>12, <1>13, <1>14 DEF IInv

-----------------------------------------------------------------------------
(* Delivery.  The handlers' table, the log and the accounts stay as they are. *)

\* What a step of the subscription cannot disturb.
LEMMA DeliveryFrame ==
    ASSUME IInv, DeliveryInv', UNCHANGED <<log, identityVars, publishers, ad, failures>>
    PROVE  /\ StateInv' /\ RowInv' /\ AdInv' /\ StreamInv'
           /\ \A p : (HasRow(p)' <=> HasRow(p)) /\ (Waits(p)' <=> Waits(p))
<1>1. StateInv'
  BY DEF IInv, StateInv, identityVars
<1>2. RowInv' /\ AdInv' /\ StreamInv'
  BY DEF IInv, RowInv, AdInv, StreamInv, Logged
<1> QED
  BY <1>1, <1>2 DEF HasRow, Waits

\* An event that is sent, for the first time or again, finds the creations
\* before it in the queue or handled: they were sent, and are not to be sent
\* again.
LEMMA SendPreserves ==
    ASSUME IInv, SendNext \/ SendAgain,
           UNCHANGED <<identityVars, publishers, ad, failures>>
    PROVE  IInv'
<1>1. UNCHANGED <<log, parked, answer, settled>>
  BY DEF SendNext, SendAgain
<1>2. DeliveryInv'
  BY DeliverySend DEF IInv, StateInv
<1>3. /\ StateInv' /\ RowInv' /\ AdInv' /\ StreamInv'
      /\ \A p : (HasRow(p)' <=> HasRow(p)) /\ (Waits(p)' <=> Waits(p))
  BY <1>1, <1>2, DeliveryFrame
<1>4. PICK p \in Logged :
          /\ queue' = Append(queue, p)
          /\ \/ sent' = sent + 1 /\ p = sent + 1 /\ retry' = retry /\ retry = {}
             \/ sent' = sent /\ retry' = retry \ {p} /\ p \in retry
          /\ \A q \in retry : p <= q
  <2>1. CASE SendNext
    <3>1. sent + 1 \in Logged
      BY <2>1 DEF SendNext, Logged, IInv, StateInv, DeliveryInv, SubscriptionTypeOK
    <3> QED
      BY <2>1, <3>1 DEF SendNext, Send
  <2>2. CASE SendAgain
    <3>1. PICK p \in retry :
              /\ \A q \in retry : p <= q
              /\ retry' = retry \ {p}
              /\ Send(p)
              /\ sent' = sent
      BY <2>2 DEF SendAgain
    <3>2. p \in Logged
      BY DEF Logged, IInv, StateInv, DeliveryInv, SubscriptionTypeOK
    <3> QED
      BY <3>1, <3>2 DEF Send
  <2> QED
    BY <2>1, <2>2
<1>5. /\ Len(queue') = Len(queue) + 1
      /\ Len(queue) \in Nat
      /\ queue'[Len(queue) + 1] = p
      /\ \A k \in 1..Len(queue) : queue'[k] = queue[k]
  BY <1>4 DEF IInv, StateInv, DeliveryInv
<1>6. \A c : Queued(c) \/ c = p => Queued(c)'
  BY <1>5 DEF Queued
<1>7. \A c \in 1..p : c # p => c <= sent /\ c \notin retry
  BY <1>4 DEF IInv, StateInv, DeliveryInv, SubscriptionTypeOK, Logged
<1>8. HandledInv'
  BY <1>1, <1>3 DEF IInv, HandledInv, NoAnswer
<1>9. WaitingInv'
  <2>1. \A c \in Logged : c > sent \/ c \in retry => c = p \/ c > sent' \/ c \in retry'
    BY <1>4 DEF IInv, StateInv, DeliveryInv, SubscriptionTypeOK, Logged
  <2> QED
    BY <1>1, <1>3, <1>6, <2>1 DEF IInv, WaitingInv, Logged
<1>10. OrderInv'
  <2> SUFFICES ASSUME failures = 0,
                      NEW k \in 1..Len(queue'), NEW c \in 1..queue'[k],
                      Waits(c), log[c].user = log[queue'[k]].user
               PROVE  \E j \in 1..k : queue'[j] = c
    BY <1>1, <1>3 DEF OrderInv
  <2>1. CASE k \in 1..Len(queue)
    <3>1. PICK j \in 1..k : queue[j] = c
      BY <1>5, <2>1 DEF IInv, OrderInv
    <3> QED
      BY <1>5, <2>1, <3>1
  <2>2. CASE k = Len(queue) + 1
    <3>1. queue'[k] = p
      BY <1>5, <2>2
    <3>2. CASE c = p
      BY <2>2, <3>1, <3>2, <1>5
    <3>3. CASE c # p
      <4>1. c <= sent /\ c \notin retry /\ c \in Logged
        BY <1>7, <3>1, <3>3 DEF Logged
      <4>2. Queued(c)
        BY <4>1 DEF IInv, WaitingInv, StateInv, DeliveryInv, SubscriptionTypeOK, Logged
      <4> QED
        BY <1>5, <2>2, <4>2 DEF Queued
    <3> QED
      BY <3>2, <3>3
  <2> QED
    BY <1>5, <2>1, <2>2
<1> QED
  BY <1>3, <1>8, <1>9, <1>10 DEF IInv

\* An answer tells the server what the handler has done.
LEMMA AnswerPreserves ==
    ASSUME IInv, Answer, UNCHANGED <<identityVars, publishers, ad, failures>>
    PROVE  IInv'
<1>1. UNCHANGED <<log, sent, retry, queue>> /\ answer # NoAnswer /\ answer' = NoAnswer
  BY DEF Answer
<1>2. DeliveryInv'
  BY DeliveryAnswer DEF IInv, StateInv
<1>3. /\ StateInv' /\ RowInv' /\ AdInv' /\ StreamInv'
      /\ \A p : (HasRow(p)' <=> HasRow(p)) /\ (Waits(p)' <=> Waits(p))
  BY <1>1, <1>2, DeliveryFrame
<1>4. HandledInv'
  BY <1>1, <1>3 DEF IInv, HandledInv, Answer, NoAnswer
<1>5. WaitingInv'
  BY <1>1, <1>3 DEF IInv, WaitingInv, Queued, Logged
<1>6. OrderInv'
  BY <1>1, <1>3 DEF IInv, OrderInv
<1> QED
  BY <1>3, <1>4, <1>5, <1>6 DEF IInv

\* A creation that waits was not acknowledged, nor parked, so the server sends
\* it again after a fault that empties the queue.
LEMMA FaultsPreserve ==
    ASSUME IInv, Faults, UNCHANGED <<identityVars, publishers, ad, failures>>
    PROVE  IInv'
<1>1. UNCHANGED <<log, parked, settled>>
  BY DEF Faults, TimeOut, Disconnect, ServerRestart
<1>2. DeliveryInv'
  BY DeliveryFaults DEF IInv, StateInv
<1>3. /\ StateInv' /\ RowInv' /\ AdInv' /\ StreamInv'
      /\ \A p : (HasRow(p)' <=> HasRow(p)) /\ (Waits(p)' <=> Waits(p))
  BY <1>1, <1>2, DeliveryFrame
<1>4. answer' = answer \/ answer' = NoAnswer
  BY DEF Faults, TimeOut, Disconnect, ServerRestart
<1>5. HandledInv'
  BY <1>1, <1>3, <1>4 DEF IInv, HandledInv, NoAnswer
<1>6. CASE \E p \in Positions : TimeOut(p)
  <2>1. UNCHANGED <<sent, queue>> /\ retry \subseteq retry'
    BY <1>6 DEF TimeOut
  <2>2. WaitingInv'
    BY <1>1, <1>3, <2>1 DEF IInv, WaitingInv, Queued, Logged
  <2>3. OrderInv'
    BY <1>1, <1>3, <2>1 DEF IInv, OrderInv
  <2> QED
    BY <1>3, <1>5, <2>2, <2>3 DEF IInv
<1>7. CASE Disconnect \/ ServerRestart
  <2>1. queue' = <<>>
    BY <1>7 DEF Disconnect, ServerRestart
  <2>2. ASSUME failures = 0, NEW c \in Logged, Waits(c)
        PROVE  c > sent \/ c \in retry \cup inflight
    <3>1. c \notin settled \cup parked
      BY <2>2 DEF IInv, HandledInv, Waits
    <3> QED
      BY <3>1 DEF IInv, StateInv, DeliveryInv, NothingLost, Logged
  <2>3. \A c \in Logged : c > sent \/ c \in retry \cup inflight =>
                              c > sent' \/ c \in retry'
    <3>1. CASE Disconnect
      BY <3>1 DEF Disconnect
    <3>2. CASE ServerRestart
      BY <3>2 DEF ServerRestart, IInv, StateInv, DeliveryInv, SubscriptionTypeOK, Logged
    <3> QED
      BY <1>7, <3>1, <3>2
  <2>4. WaitingInv'
    BY <1>1, <1>3, <2>2, <2>3 DEF WaitingInv, Logged
  <2>5. OrderInv'
    BY <2>1 DEF OrderInv
  <2> QED
    BY <1>3, <1>5, <2>4, <2>5 DEF IInv
<1> QED
  BY <1>6, <1>7 DEF Faults

-----------------------------------------------------------------------------
(* The handlers.                                                            *)

\* The row a user has, if any.
LEMMA FindByUserFinds ==
    ASSUME StateInv, NEW u
    PROVE  /\ FindByUser(u) \in Nat
           /\ FindByUser(u) # NoPublisher => FindByUser(u) \in Rows(u)
           /\ Rows(u) # {} <=> \E i \in 1..Len(publishers) : publishers[i].user = u
<1>1. Rows(u) # {} => FindByUser(u) \in Rows(u)
  BY DEF FindByUser
<1> QED
  BY <1>1 DEF Rows, FindByUser, NoPublisher

\* A handler keeps every row with its user, adds at most one, and only for a
\* user who has none; afterwards a creation's user has one.
LEMMA HandlerEffect ==
    ASSUME IInv, NEW p \in Logged, OnUserCreated(p) \/ OnUserUpdated(p)
    PROVE  /\ publishers' \in Seq(Row)
           /\ Len(publishers) \in Nat
           /\ Len(publishers') \in {Len(publishers), Len(publishers) + 1}
           /\ \A i \in 1..Len(publishers) : publishers'[i].user = publishers[i].user
           /\ Len(publishers') = Len(publishers) + 1 =>
                  /\ publishers'[Len(publishers) + 1].user = log[p].user
                  /\ ~HasRow(p)
           /\ log[p].type = "Created" =>
                  \E i \in 1..Len(publishers') : publishers'[i].user = log[p].user
<1>1. log[p] \in Event /\ p \in Positions /\ Len(publishers) \in Nat
  BY SubscriptionAssumption
  DEF IInv, StateInv, DeliveryInv, SubscriptionTypeOK, Logged, Positions
<1>2. Rows(log[p].user) # {} <=> HasRow(p)
  BY FindByUserFinds DEF IInv, HasRow
<1>3. CASE OnUserCreated(p)
  <2>1. CASE HasRow(p)
    <3>1. publishers' = publishers
      BY <1>2, <1>3, <2>1 DEF OnUserCreated
    <3>2. publishers \in Seq(Row)
      BY DEF IInv, StateInv
    <3> QED
      BY <1>1, <2>1, <3>1, <3>2 DEF HasRow
  <2>2. CASE ~HasRow(p)
    <3> DEFINE row == [user |-> log[p].user, profile |-> p]
    <3>1. publishers' = Append(publishers, row)
      BY <1>2, <1>3, <2>2 DEF OnUserCreated
    <3>2. row \in Row
      BY <1>1 DEF Event, Row
    <3>3. /\ publishers' \in Seq(Row)
          /\ Len(publishers') = Len(publishers) + 1
          /\ publishers'[Len(publishers) + 1] = row
          /\ \A i \in 1..Len(publishers) : publishers'[i] = publishers[i]
      BY <3>1, <3>2, <1>1 DEF IInv, StateInv
    <3>4. publishers'[Len(publishers) + 1].user = log[p].user
      BY <3>3
    <3> QED
      BY <1>1, <2>2, <3>3, <3>4
  <2> QED
    BY <2>1, <2>2
<1>4. CASE OnUserUpdated(p)
  <2>1. publishers' =
            [i \in 1..Len(publishers) |->
                IF i = FindByUser(log[p].user)
                THEN [publishers[i] EXCEPT !.profile = p] ELSE publishers[i]]
    BY <1>4 DEF OnUserUpdated, IInv, StateInv
  <2>2. \A i \in 1..Len(publishers) :
            /\ publishers[i] \in Row
            /\ [publishers[i] EXCEPT !.profile = p] \in Row
            /\ [publishers[i] EXCEPT !.profile = p].user = publishers[i].user
    <3>1. \A i \in 1..Len(publishers) : publishers[i] \in Row
      BY DEF IInv, StateInv
    <3>2. \A r \in Row : /\ [r EXCEPT !.profile = p] \in Row
                         /\ [r EXCEPT !.profile = p].user = r.user
      BY <1>1 DEF Row
    <3> QED
      BY <3>1, <3>2
  <2>3. publishers' \in [1..Len(publishers) -> Row]
    BY <2>1, <2>2
  <2>4. publishers' \in Seq(Row) /\ Len(publishers') = Len(publishers)
    BY <1>1, <2>3
  <2>5. \A i \in 1..Len(publishers) : publishers'[i].user = publishers[i].user
    BY <2>1, <2>2
  <2>6. log[p].type # "Created"
    BY <1>4 DEF OnUserUpdated
  <2> QED
    BY <1>1, <2>4, <2>5, <2>6
<1> QED
  BY <1>3, <1>4

\* The event at the head of the queue is handled.
LEMMA HandlePreserves ==
    ASSUME IInv, Handle
    PROVE  IInv'
<1>1. PICK p :
          /\ queue # <<>> /\ p = Head(queue)
          /\ OnUserCreated(p) \/ OnUserUpdated(p)
          /\ UNCHANGED <<identityVars, ad, failures>>
  BY DEF Handle
<1> DEFINE m == Len(publishers)
<1>2. Handled(p, TRUE)
  BY <1>1 DEF OnUserCreated, OnUserUpdated
<1>3. DeliveryInv' /\ p \in Logged
  BY <1>2, DeliveryHandled DEF IInv, StateInv
<1>4. /\ publishers' \in Seq(Row)
      /\ m \in Nat
      /\ Len(publishers') \in {m, m + 1}
      /\ \A i \in 1..m : publishers'[i].user = publishers[i].user
      /\ Len(publishers') = m + 1 =>
             publishers'[m + 1].user = log[p].user /\ ~HasRow(p)
      /\ log[p].type = "Created" =>
             \E i \in 1..Len(publishers') : publishers'[i].user = log[p].user
  BY <1>1, <1>3, HandlerEffect
<1>5. /\ queue' = Tail(queue) /\ answer' = [event |-> p, ack |-> TRUE]
      /\ UNCHANGED <<log, sent, retry, inflight, parked, settled>>
  BY <1>2 DEF Handled
<1>6. /\ Len(queue) \in Nat \ {0}
      /\ p = queue[1]
      /\ Len(queue') = Len(queue) - 1
      /\ \A k \in 1..Len(queue') : queue'[k] = queue[k + 1]
  BY <1>1, <1>5 DEF IInv, StateInv, DeliveryInv
<1>7. StateInv'
  BY <1>1, <1>3, <1>4, <1>5 DEF IInv, StateInv, identityVars
<1>8. RowInv'
  BY <1>4 DEF IInv, RowInv, HasRow
<1>9. AdInv'
  BY <1>1, <1>4 DEF IInv, AdInv
<1>10. StreamInv'
  BY <1>5 DEF IInv, StreamInv, Logged
<1>11. \A c : HasRow(c) => HasRow(c)'
  BY <1>4, <1>5 DEF HasRow
<1>12. \A c : Waits(c)' => Waits(c)
  BY <1>5, <1>11 DEF Waits
<1>13. ASSUME failures = 0
       PROVE  HasRow(p)'
  <2>1. CASE log[p].type = "Created"
    BY <1>4, <1>5, <2>1 DEF HasRow
  <2>2. CASE log[p].type # "Created"
    <3>1. PICK c \in 1..p : log[c].type = "Created" /\ log[c].user = log[p].user
      BY <1>3 DEF IInv, StreamInv
    <3>2. ~Waits(c)
      <4>1. SUFFICES ASSUME Waits(c) PROVE FALSE
        OBVIOUS
      <4>2. \E j \in 1..1 : queue[j] = c
        BY <1>6, <1>13, <3>1, <4>1 DEF IInv, OrderInv
      <4> QED
        BY <1>6, <2>2, <3>1, <4>2
    <3>3. HasRow(c)
      BY <3>1, <3>2 DEF Waits
    <3> QED
      BY <1>11, <3>1, <3>3, <1>5 DEF HasRow
  <2> QED
    BY <2>1, <2>2
<1>14. HandledInv'
  BY <1>1, <1>5, <1>11, <1>13 DEF IInv, HandledInv
<1>15. \A c : failures = 0 /\ Waits(c)' => log[c].user # log[p].user
  BY <1>13, <1>5 DEF Waits, HasRow
<1>16. WaitingInv'
  <2> SUFFICES ASSUME failures = 0, NEW c \in Logged, Waits(c)'
               PROVE  c > sent \/ c \in retry \/ Queued(c)'
    BY <1>1, <1>5 DEF WaitingInv, Logged
  <2>1. CASE Queued(c)
    <3>1. PICK k \in 1..Len(queue) : queue[k] = c
      BY <2>1 DEF Queued
    <3>2. k # 1
      BY <1>6, <1>15, <3>1
    <3>3. k - 1 \in 1..Len(queue') /\ queue'[k - 1] = c
      BY <1>6, <3>1, <3>2
    <3> QED
      BY <3>3 DEF Queued
  <2> QED
    BY <1>12, <2>1 DEF IInv, WaitingInv
<1>17. OrderInv'
  <2> SUFFICES ASSUME failures = 0,
                      NEW k \in 1..Len(queue'), NEW c \in 1..queue'[k],
                      Waits(c)', log[c].user = log[queue'[k]].user
               PROVE  \E j \in 1..k : queue'[j] = c
    BY <1>1, <1>5 DEF OrderInv
  <2>1. k + 1 \in 1..Len(queue) /\ queue'[k] = queue[k + 1]
    BY <1>6
  <2>2. PICK j \in 1..(k + 1) : queue[j] = c
    BY <1>12, <2>1 DEF IInv, OrderInv
  <2>3. j # 1
    BY <1>6, <1>15, <2>2
  <2>4. j - 1 \in 1..k /\ queue'[j - 1] = c
    BY <1>6, <2>1, <2>2, <2>3
  <2> QED
    BY <2>4
<1> QED
  BY <1>7, <1>8, <1>9, <1>10, <1>14, <1>16, <1>17 DEF IInv

\* Once the database has thrown, only the rows that are there matter.
LEMMA DatabaseFailsPreserves ==
    ASSUME IInv, DatabaseFails
    PROVE  IInv'
<1>1. /\ failures < MaxFailures /\ failures' = failures + 1
      /\ Handled(Head(queue), FALSE)
      /\ UNCHANGED <<identityVars, publishers, ad>>
  BY DEF DatabaseFails
<1>2. DeliveryInv' /\ log' = log
  BY <1>1, DeliveryHandled DEF IInv, StateInv, Handled
<1>3. failures' \in 0..MaxFailures /\ failures' # 0
  BY <1>1, RegistrationAssumption DEF IInv, StateInv
<1>4. StateInv'
  BY <1>1, <1>2, <1>3 DEF IInv, StateInv, identityVars
<1>5. RowInv' /\ AdInv' /\ StreamInv'
  BY <1>1, <1>2 DEF IInv, RowInv, AdInv, StreamInv, Logged
<1> QED
  BY <1>3, <1>4, <1>5 DEF IInv, HandledInv, WaitingInv, OrderInv

-----------------------------------------------------------------------------

\* Every step preserves the invariant.
LEMMA NextPreserves ==
    ASSUME IInv, [Next]_vars
    PROVE  IInv'
<1>1. ASSUME NEW u \in Users, Register(u) \/ SaveUser(u) \/ RegistrationFails(u)
      PROVE  IInv'
  BY <1>1, AccountsPreserve, StreamPreserves
<1>2. ASSUME NEW u \in Users, EditUser(u) \/ AskPublisher(u)
      PROVE  IInv'
  BY <1>2, StreamPreserves, AdPreserves
<1>3. CASE CreateAd \/ ProjectAd \/ AdFails
  BY <1>3, AdPreserves
<1>4. CASE Handle \/ DatabaseFails
  BY <1>4, HandlePreserves, DatabaseFailsPreserves
<1>5. CASE Deliver
  BY <1>5, SendPreserves, AnswerPreserves DEF Deliver
<1>6. CASE Faults /\ UNCHANGED <<identityVars, publishers, ad, failures>>
  BY <1>6, FaultsPreserve
<1>7. CASE UNCHANGED vars
  <2>1. UNCHANGED <<log, subscriptionVars, identityVars, publishers, ad, failures>>
    BY <1>7 DEF vars
  <2> QED
    BY <2>1, DeliveryUntouched DEF IInv, StateInv, AdInv, identityVars
<1> QED
  BY <1>1, <1>2, <1>3, <1>4, <1>5, <1>6, <1>7, RegistrationAssumption DEF Next

\* The invariant of the proofs.
THEOREM Invariance == Spec => []IInv
BY InitialState, NextPreserves, PTL DEF Spec

\* Type correctness.
THEOREM TypeCorrect == Spec => []TypeOK
<1>1. IInv => TypeOK
  BY DEF IInv, StateInv, DeliveryInv, TypeOK, Event, Row
<1> QED
  BY <1>1, Invariance, PTL

\* Whatever is delivered again, a user has one row in the table of publishers.
THEOREM OnePublisher == Spec => []OnePublisherPerUser
<1>1. ASSUME IInv, NEW u \in Users
      PROVE  Cardinality(Rows(u)) <= 1
  <2>1. \A i, j \in Rows(u) : i = j
    BY <1>1 DEF IInv, RowInv, Rows
  <2>2. CASE Rows(u) = {}
    BY <2>2, FS_EmptySet
  <2>3. CASE Rows(u) # {}
    <3>1. PICK i : Rows(u) = {i}
      BY <2>1, <2>3
    <3> QED
      BY <3>1, FS_Singleton
  <2> QED
    BY <2>2, <2>3
<1>2. IInv => OnePublisherPerUser
  BY <1>1 DEF OnePublisherPerUser
<1> QED
  BY <1>2, Invariance, PTL

\* No update of a user is acknowledged and forgotten while the database is up.
THEOREM NoUpdateIsForgotten == Spec => []AcknowledgedMeansPublisher
<1>1. IInv => AcknowledgedMeansPublisher
  BY DEF IInv, HandledInv, AcknowledgedMeansPublisher, HasRow, Rows
<1> QED
  BY <1>1, Invariance, PTL

\* An ad is shown with its user's publisher; one that is parked has no category or
\* no publisher, or the database threw.
THEOREM AdsReachTheirOwners == Spec => []AdReachesItsOwner
<1>1. IInv => AdReachesItsOwner
  <2> SUFFICES ASSUME IInv PROVE AdReachesItsOwner
    OBVIOUS
  <2>1. CASE ad = NoAd
    BY <2>1 DEF NoAd, AdReachesItsOwner
  <2>2. CASE ad \in Ads
    BY <2>2 DEF IInv, AdInv, AdReachesItsOwner
  <2> QED
    BY <2>1, <2>2 DEF IInv, StateInv
<1> QED
  BY <1>1, Invariance, PTL

\* Nothing repairs a registration that was interrupted.
THEOREM OrphansStayOrphans == Spec => OrphansStay
<1>1. ASSUME IInv, [Next]_vars, NEW u \in Users, Orphaned(u)
      PROVE  Orphaned(u)'
  <2>1. CASE UNCHANGED <<log, accounts, registering>>
    BY <1>1, <2>1 DEF Orphaned, Events
  <2>2. CASE \E v \in Users : Register(v) \/ RegistrationFails(v)
    BY <1>1, <2>2 DEF Orphaned, Events, Register, RegistrationFails
  <2>3. ASSUME NEW v \in Users, SaveUser(v) \/ EditUser(v)
        PROVE  Orphaned(u)'
    <3>1. v # u
      BY <1>1, <2>3 DEF Orphaned, SaveUser, EditUser
    <3>2. PICK e \in Event : log' = Append(log, e) /\ e.user = v
      BY <2>3
      DEF SaveUser, EditUser, CreateUser, UpdateUser, AppendToLog, Event
    <3>3. /\ Len(log') = Len(log) + 1 /\ Len(log) \in Nat
          /\ log'[Len(log) + 1] = e
          /\ \A p \in 1..Len(log) : log'[p] = log[p]
      BY <1>1, <3>2 DEF IInv, StateInv
    <3>4. Events(u)' = {}
      BY <1>1, <3>1, <3>2, <3>3 DEF Orphaned, Events
    <3>5. accounts' = accounts /\ registering' \subseteq registering
      BY <2>3 DEF SaveUser, EditUser, identityVars
    <3> QED
      BY <1>1, <3>4, <3>5 DEF Orphaned
  <2>4. CASE \E v \in Users : AskPublisher(v)
    BY <2>1, <2>4 DEF AskPublisher, identityVars
  <2>5. CASE CreateAd \/ ProjectAd \/ AdFails
    BY <2>1, <2>5 DEF CreateAd, ProjectAd, AdFails, identityVars
  <2>6. CASE Handle \/ DatabaseFails
    BY <2>1, <2>6
    DEF Handle, DatabaseFails, OnUserCreated, OnUserUpdated, Handled, identityVars
  <2>7. CASE Deliver
    BY <2>1, <2>7 DEF Deliver, SendNext, SendAgain, Answer, identityVars
  <2>8. CASE Faults /\ UNCHANGED <<identityVars, publishers, ad, failures>>
    BY <2>1, <2>8 DEF Faults, TimeOut, Disconnect, ServerRestart, identityVars
  <2>9. CASE UNCHANGED vars
    BY <2>1, <2>9 DEF vars, identityVars
  <2> QED
    BY <1>1, <2>2, <2>3, <2>4, <2>5, <2>6, <2>7, <2>8, <2>9, RegistrationAssumption
    DEF Next
<1>2. IInv /\ [Next]_vars => [\A u \in Users : Orphaned(u) => Orphaned(u)']_vars
  BY <1>1
<1> QED
  BY <1>2, Invariance, PTL DEF Spec, OrphansStay

-----------------------------------------------------------------------------
(* The profiles come back to what the events say.                           *)

LastOfUser(p) == \A q \in Logged : log[q].user = log[p].user => q <= p

\* Rows in which the first h events have had their effect, as far as the events
\* after them, some of them maybe for the second time, will not change it.
Profiled(rows, h) ==
    /\ \A i \in 1..Len(rows) :
          /\ rows[i].profile \in Logged
          /\ log[rows[i].profile].user = rows[i].user
    /\ \A p \in 1..h : \E i \in 1..Len(rows) :
          /\ rows[i].user = log[p].user
          /\ LastOfUser(p) => rows[i].profile = p

\* A user has one creation, the first of the user's events: the name is taken
\* from the registration on, and the stream is not there before its end.
AccountInv ==
    /\ \A p \in Logged : log[p].user \in accounts \ registering
    /\ \A c, p \in Logged :
          log[c].type = "Created" /\ log[c].user = log[p].user => c <= p

\* As long as no answer is late and the database does not throw, the handlers
\* have had the events up to some h, from the first on, and maybe more before.
ReplayInv ==
    (timeouts = 0 /\ failures = 0) =>
        \E h \in Nat : Ordered(h) /\ Profiled(publishers, h)

\* What the first h events have done, fewer have done.
LEMMA ProfiledForFewer ==
    ASSUME NEW rows, NEW h \in Nat, NEW g \in 0..h, Profiled(rows, h)
    PROVE  Profiled(rows, g)
<1>1. 1..g \subseteq 1..h
  OBVIOUS
<1> QED
  BY <1>1 DEF Profiled

\* Only the rows and the log matter.
LEMMA ProfiledStable ==
    ASSUME NEW h \in Nat, Profiled(publishers', h), log' = log
    PROVE  Profiled(publishers, h)'
  BY DEF Profiled, LastOfUser, Logged

\* A request appends to the stream of its user.
LEMMA StreamAppends ==
    ASSUME IInv, AccountInv, NEW u \in Users, SaveUser(u) \/ EditUser(u)
    PROVE  /\ AccountInv'
           /\ \A h \in Nat : Ordered(h) /\ Profiled(publishers, h) =>
                 Ordered(h)' /\ Profiled(publishers, h)'
<1>1. PICK e \in Event :
          /\ AppendToLog(e) /\ e.user = u
          /\ e.type = "Created" => u \in registering /\ registering' = registering \ {u}
          /\ e.type # "Created" => Events(u) # {} /\ registering' = registering
  BY DEF SaveUser, EditUser, CreateUser, UpdateUser, Event, identityVars
<1>2. accounts' = accounts /\ publishers' = publishers /\ UNCHANGED subscriptionVars
  BY <1>1 DEF SaveUser, EditUser, identityVars, AppendToLog
<1>3. log' = Append(log, e) /\ log \in Seq(Event)
  BY <1>1 DEF AppendToLog, IInv, StateInv
<1>4. /\ Len(log) \in Nat /\ Len(log') = Len(log) + 1
      /\ Logged' = Logged \cup {Len(log) + 1}
      /\ \A p \in Logged : p < Len(log) + 1 /\ log'[p] = log[p]
      /\ log'[Len(log) + 1] = e
  BY <1>3 DEF Logged
<1>5. u \in accounts /\ u \notin registering'
  BY <1>1 DEF AccountInv, Events, Logged, IInv, StateInv
<1>6. \A p \in Logged' : log'[p].user \in accounts' \ registering'
  BY <1>1, <1>2, <1>4, <1>5 DEF AccountInv
<1>7. ASSUME NEW c \in Logged', NEW p \in Logged',
             log'[c].type = "Created", log'[c].user = log'[p].user
      PROVE  c <= p
  <2>1. CASE c \in Logged /\ p \in Logged
    BY <1>4, <1>7, <2>1 DEF AccountInv
  <2>2. CASE p = Len(log) + 1
    <3>1. c \in 1..(Len(log) + 1)
      BY <1>3, <1>7 DEF Logged
    <3> QED
      BY <1>4, <2>2, <3>1
  <2>3. CASE c = Len(log) + 1 /\ p \in Logged
    BY <1>1, <1>4, <1>7, <2>3 DEF AccountInv
  <2> QED
    BY <1>4, <2>1, <2>2, <2>3
<1>8. AccountInv'
  BY <1>6, <1>7 DEF AccountInv
<1>9. ASSUME NEW h \in Nat, Ordered(h), Profiled(publishers, h)
      PROVE  Ordered(h)' /\ Profiled(publishers, h)'
  <2>1. Ordered(h)'
    BY <1>2, <1>9, OrderStutter
  <2>2. 1..h \subseteq Logged
    BY <1>9 DEF Ordered, IInv, StateInv, DeliveryInv, SubscriptionTypeOK, Logged
  <2>3. ASSUME NEW i \in 1..Len(publishers)
        PROVE  /\ publishers[i].profile \in Logged'
               /\ log'[publishers[i].profile].user = publishers[i].user
    BY <1>4, <1>9 DEF Profiled
  <2>4. ASSUME NEW p \in 1..h
        PROVE  \E i \in 1..Len(publishers) :
                  /\ publishers[i].user = log'[p].user
                  /\ (\A q \in Logged' : log'[q].user = log'[p].user => q <= p)
                     => publishers[i].profile = p
    <3>1. p \in Logged /\ log'[p] = log[p]
      BY <1>4, <2>2
    <3>2. PICK i \in 1..Len(publishers) :
              /\ publishers[i].user = log[p].user
              /\ LastOfUser(p) => publishers[i].profile = p
      BY <1>9 DEF Profiled
    <3>3. (\A q \in Logged' : log'[q].user = log'[p].user => q <= p) => LastOfUser(p)
      BY <1>4, <3>1 DEF LastOfUser
    <3> QED
      BY <3>1, <3>2, <3>3
  <2> QED
    BY <1>2, <2>1, <2>3, <2>4 DEF Profiled, LastOfUser
<1> QED
  BY <1>8, <1>9

\* What the handler does for the event after the first h.
LEMMA ProfiledHandled ==
    ASSUME IInv, AccountInv, NEW h \in Nat, Profiled(publishers, h),
           NEW p \in Logged, p = h + 1, OnUserCreated(p) \/ OnUserUpdated(p)
    PROVE  Profiled(publishers', p)
<1> DEFINE u == log[p].user
           m == Len(publishers)
<1>1. /\ 1..p = 1..h \cup {p} /\ 1..p \subseteq Logged /\ p \in Nat
      /\ publishers \in Seq(Row) /\ m \in Nat
  BY DEF Logged, IInv, StateInv, DeliveryInv
<1>2. /\ \A i \in 1..m : /\ publishers[i].profile \in Logged
                         /\ log[publishers[i].profile].user = publishers[i].user
      /\ \A q \in 1..h : \E i \in 1..m :
            /\ publishers[i].user = log[q].user
            /\ LastOfUser(q) => publishers[i].profile = q
  BY DEF Profiled
<1>3. \A q \in 1..h : LastOfUser(q) => log[q].user # u
  BY <1>1 DEF LastOfUser
<1>4. Rows(u) # {} <=> \E i \in 1..m : publishers[i].user = u
  BY FindByUserFinds DEF IInv
<1>5. CASE OnUserCreated(p)
  <2>1. CASE Rows(u) = {}
    <3> DEFINE row == [user |-> u, profile |-> p]
    <3>1. publishers' = Append(publishers, row)
      BY <1>5, <2>1 DEF OnUserCreated
    <3>2. row \in Row /\ row.user = u /\ row.profile = p
      <4>1. log[p] \in Event /\ p \in Positions
        BY SubscriptionAssumption
        DEF Positions, Logged, IInv, StateInv, DeliveryInv, SubscriptionTypeOK
      <4> QED
        BY <4>1 DEF Row, Event
    <3> HIDE DEF row
    <3>3. /\ Len(publishers') = m + 1 /\ publishers'[m + 1] = row
          /\ \A i \in 1..m : publishers'[i] = publishers[i]
      BY <1>1, <3>1, <3>2
    <3>4. ASSUME NEW i \in 1..Len(publishers')
          PROVE  /\ publishers'[i].profile \in Logged
                 /\ log[publishers'[i].profile].user = publishers'[i].user
      <4>1. i \in 1..m \/ i = m + 1
        BY <1>1, <3>3
      <4>2. CASE i \in 1..m
        BY <1>2, <3>3, <4>2
      <4>3. CASE i = m + 1
        BY <3>2, <3>3, <4>3
      <4> QED
        BY <4>1, <4>2, <4>3
    <3>5. ASSUME NEW q \in 1..p
          PROVE  \E i \in 1..Len(publishers') :
                    /\ publishers'[i].user = log[q].user
                    /\ LastOfUser(q) => publishers'[i].profile = q
      <4>1. CASE q = p
        BY <1>1, <3>2, <3>3, <4>1
      <4>2. CASE q \in 1..h
        BY <1>1, <1>2, <3>3, <4>2
      <4> QED
        BY <1>1, <4>1, <4>2
    <3> QED
      BY <3>4, <3>5 DEF Profiled
  <2>2. CASE Rows(u) # {}
    <3>1. publishers' = publishers
      BY <1>5, <2>2 DEF OnUserCreated
    <3>2. PICK i \in 1..m : publishers[i].user = u
      BY <1>4, <2>2
    <3>3. LastOfUser(p) => publishers[i].profile = p
      <4>1. log[p].type = "Created"
        BY <1>5 DEF OnUserCreated
      <4>2. p <= publishers[i].profile
        BY <1>2, <3>2, <4>1 DEF AccountInv
      <4>3. LastOfUser(p) => publishers[i].profile <= p
        BY <1>2, <3>2 DEF LastOfUser
      <4>4. publishers[i].profile \in Nat
        BY <1>2 DEF Logged
      <4> QED
        BY <1>1, <4>2, <4>3, <4>4
    <3> QED
      BY <1>1, <1>2, <3>1, <3>2, <3>3 DEF Profiled
  <2> QED
    BY <2>1, <2>2
<1>6. CASE OnUserUpdated(p)
  <2> DEFINE f == FindByUser(u)
  <2>1. publishers' =
            [i \in 1..m |-> IF i = f
                            THEN [publishers[i] EXCEPT !.profile = p] ELSE publishers[i]]
    BY <1>1, <1>6 DEF OnUserUpdated
  <2>2. \A r \in Row : /\ [r EXCEPT !.profile = p].user = r.user
                       /\ [r EXCEPT !.profile = p].profile = p
    BY DEF Row
  <2>3. PICK c \in 1..p : log[c].type = "Created" /\ log[c].user = u
    BY DEF IInv, StreamInv
  <2>4. c \in 1..h
    BY <1>1, <1>6, <2>3 DEF OnUserUpdated
  <2>5. f \in 1..m /\ publishers[f].user = u
    <3>1. Rows(u) # {}
      BY <1>2, <1>4, <2>3, <2>4
    <3> QED
      BY <3>1 DEF FindByUser, Rows
  <2> HIDE DEF f
  <2>6. /\ Len(publishers') = m
        /\ publishers'[f].user = u /\ publishers'[f].profile = p
        /\ \A i \in 1..m : i # f => publishers'[i] = publishers[i]
    <3>1. publishers[f] \in Row
      BY <1>1, <2>5
    <3>2. /\ publishers'[f] = [publishers[f] EXCEPT !.profile = p]
          /\ \A i \in 1..m : i # f => publishers'[i] = publishers[i]
      BY <2>1, <2>5
    <3>3. Len(publishers') = m
      BY <1>1, <2>1
    <3>4. publishers'[f].user = u /\ publishers'[f].profile = p
      BY <2>2, <2>5, <3>1, <3>2
    <3> QED
      BY <3>2, <3>3, <3>4
  <2>7. \A i \in 1..m : /\ publishers'[i].profile \in Logged
                        /\ log[publishers'[i].profile].user = publishers'[i].user
    BY <1>2, <2>6
  <2>8. ASSUME NEW q \in 1..p
        PROVE  \E i \in 1..m : /\ publishers'[i].user = log[q].user
                               /\ LastOfUser(q) => publishers'[i].profile = q
    <3>1. CASE log[q].user = u
      BY <1>1, <1>3, <2>5, <2>6, <2>8, <3>1
    <3>2. CASE log[q].user # u
      <4>1. q \in 1..h
        BY <1>1, <3>2
      <4>2. PICK i \in 1..m : /\ publishers[i].user = log[q].user
                              /\ LastOfUser(q) => publishers[i].profile = q
        BY <1>2, <4>1
      <4>3. i # f
        BY <2>5, <3>2, <4>2
      <4> QED
        BY <2>6, <4>2, <4>3
    <3> QED
      BY <3>1, <3>2
  <2> QED
    BY <2>6, <2>7, <2>8 DEF Profiled
<1> QED
  BY <1>5, <1>6

\* Every step preserves it: a fault makes a replay start over, at an event that
\* has had its effect already.
LEMMA ReplayPreserved ==
    ASSUME IInv, AccountInv, ReplayInv, [Next]_vars
    PROVE  AccountInv' /\ ReplayInv'
<1>1. log' = log /\ accounts \subseteq accounts' /\ registering' \subseteq registering
      => AccountInv'
  BY DEF AccountInv, Logged
<1>2. DeliveryInv /\ timeouts \in Nat /\ failures \in Nat
  BY SubscriptionAssumption, RegistrationAssumption
  DEF IInv, StateInv, DeliveryInv, SubscriptionTypeOK
<1>3. ASSUME log' = log, timeouts' = 0 => timeouts = 0, failures' = failures,
             \A h \in Nat : timeouts' = 0 /\ Ordered(h) /\ Profiled(publishers, h) =>
                \E g \in Nat : Ordered(g)' /\ Profiled(publishers', g)
      PROVE  ReplayInv'
  <2> SUFFICES ASSUME timeouts' = 0, failures' = 0
               PROVE  \E g \in Nat : Ordered(g)' /\ Profiled(publishers, g)'
    BY DEF ReplayInv
  <2>1. PICK h \in Nat : Ordered(h) /\ Profiled(publishers, h)
    BY <1>3 DEF ReplayInv
  <2>2. PICK g \in Nat : Ordered(g)' /\ Profiled(publishers', g)
    BY <1>3, <2>1
  <2> QED
    BY <1>3, <2>2, ProfiledStable
<1>4. ASSUME UNCHANGED <<log, subscriptionVars, publishers, failures>>
      PROVE  ReplayInv'
  <2>1. timeouts' = timeouts
    BY <1>4 DEF subscriptionVars
  <2>2. \A h \in Nat : Ordered(h) /\ Profiled(publishers, h) =>
            Ordered(h)' /\ Profiled(publishers', h)
    BY <1>4, OrderStutter
  <2> QED
    BY <1>3, <1>4, <2>1, <2>2
<1>5. ASSUME NEW u \in Users, Register(u)
      PROVE  AccountInv' /\ ReplayInv'
  <2>1. UNCHANGED <<log, subscriptionVars, publishers, failures>>
    BY <1>5 DEF Register
  <2>2. \A p \in Logged : log[p].user # u
    BY <1>5 DEF Register, AccountInv
  <2>3. AccountInv'
    BY <1>5, <2>1, <2>2 DEF Register, AccountInv, Logged
  <2> QED
    BY <1>4, <2>1, <2>3
<1>6. ASSUME NEW u \in Users, RegistrationFails(u) \/ AskPublisher(u)
      PROVE  AccountInv' /\ ReplayInv'
  BY <1>1, <1>4, <1>6 DEF RegistrationFails, AskPublisher, identityVars
<1>7. CASE CreateAd \/ ProjectAd \/ AdFails \/ UNCHANGED vars
  BY <1>1, <1>4, <1>7 DEF CreateAd, ProjectAd, AdFails, vars, identityVars
<1>8. ASSUME NEW u \in Users, SaveUser(u) \/ EditUser(u)
      PROVE  AccountInv' /\ ReplayInv'
  <2>1. timeouts' = timeouts /\ failures' = failures
    BY <1>8
    DEF SaveUser, EditUser, CreateUser, UpdateUser, AppendToLog, subscriptionVars
  <2> QED
    BY <1>8, <2>1, StreamAppends DEF ReplayInv
<1>9. CASE Handle
  <2>1. PICK p : /\ queue # <<>> /\ p = Head(queue)
                 /\ OnUserCreated(p) \/ OnUserUpdated(p)
                 /\ UNCHANGED <<identityVars, failures>>
    BY <1>9 DEF Handle
  <2>2. Handled(p, TRUE) /\ p \in Logged
    <3>1. Handled(p, TRUE)
      BY <2>1 DEF OnUserCreated, OnUserUpdated
    <3> QED
      BY <1>2, <3>1, DeliveryHandled
  <2>3. UNCHANGED <<log, timeouts, accounts, registering>>
    BY <2>1, <2>2 DEF Handled, identityVars
  <2>4. ASSUME NEW h \in Nat, Ordered(h), Profiled(publishers, h)
        PROVE  \E g \in Nat : Ordered(g)' /\ Profiled(publishers', g)
    <3>1. p = h + 1 /\ Ordered(h + 1)'
      BY <1>2, <2>2, <2>4, OrderHandled
    <3>2. Profiled(publishers', h + 1)
      BY <2>1, <2>2, <2>4, <3>1, ProfiledHandled
    <3> QED
      BY <3>1, <3>2
  <2> QED
    BY <1>1, <1>3, <2>1, <2>3, <2>4
<1>10. CASE DatabaseFails
  <2>1. UNCHANGED <<log, accounts, registering>> /\ failures' = failures + 1
    BY <1>10 DEF DatabaseFails, Handled, identityVars
  <2> QED
    BY <1>1, <1>2, <2>1 DEF ReplayInv
<1>11. CASE Deliver
  <2>1. UNCHANGED <<log, timeouts, failures, publishers, accounts, registering>>
    BY <1>11 DEF Deliver, SendNext, SendAgain, Answer, identityVars
  <2>2. \A h \in Nat : Ordered(h) => Ordered(h)'
    BY <1>2, <1>11, OrderSend, OrderAnswer DEF Deliver
  <2> QED
    BY <1>1, <1>3, <2>1, <2>2
<1>12. CASE Faults /\ UNCHANGED <<identityVars, publishers, ad, failures>>
  <2>1. /\ UNCHANGED <<log, accounts, registering>>
        /\ timeouts' = 0 => timeouts = 0
    BY <1>2, <1>12 DEF Faults, TimeOut, Disconnect, ServerRestart, identityVars
  <2>2. ASSUME NEW h \in Nat, timeouts' = 0, Ordered(h), Profiled(publishers, h)
        PROVE  \E g \in Nat : Ordered(g)' /\ Profiled(publishers', g)
    <3>1. PICK g \in 0..h : Ordered(g)'
      BY <1>2, <1>12, <2>2, OrderFaults
    <3>2. Profiled(publishers', g)
      BY <1>12, <2>2, ProfiledForFewer
    <3> QED
      BY <3>1, <3>2
  <2> QED
    BY <1>1, <1>3, <1>12, <2>1, <2>2
<1> QED
  BY <1>5, <1>6, <1>7, <1>8, <1>9, <1>10, <1>11, <1>12,
     RegistrationAssumption
  DEF Next

\* Once every event is answered, however often it was sent, a publisher's
\* profile is that of the user's latest event, unless an answer was late or the
\* database threw.
THEOREM ProfilesConverge == Spec => []ProfileConverges
<1>1. Init => AccountInv /\ ReplayInv
  <2> SUFFICES ASSUME Init PROVE AccountInv /\ ReplayInv
    OBVIOUS
  <2>1. SubscriptionInit /\ Logged = {} /\ publishers = <<>>
    BY DEF Init, SubscriptionInit, Logged
  <2>2. Profiled(publishers, 0) /\ Ordered(0)
    BY <2>1, OrderInit DEF Profiled
  <2> QED
    BY <2>1, <2>2 DEF AccountInv, ReplayInv
<1>2. IInv /\ AccountInv /\ ReplayInv /\ [Next]_vars => AccountInv' /\ ReplayInv'
  BY ReplayPreserved
<1>3. IInv /\ ReplayInv => ProfileConverges
  <2> SUFFICES ASSUME IInv, ReplayInv, Quiet, timeouts = 0, failures = 0,
                      NEW u \in Users, NEW p \in Events(u),
                      \A q \in Events(u) : q <= p
               PROVE  \E i \in Rows(u) : publishers[i].profile = p
    BY DEF ProfileConverges
  <2>1. PICK h \in Nat : Ordered(h) /\ Profiled(publishers, h)
    BY DEF ReplayInv
  <2>2. h = Len(log)
    BY <2>1, OrderQuiet DEF IInv, StateInv
  <2>3. p \in 1..h /\ log[p].user = u /\ LastOfUser(p)
    BY <2>2 DEF Events, LastOfUser, Logged
  <2> QED
    BY <2>1, <2>3 DEF Profiled, Rows
<1> QED
  BY <1>1, <1>2, <1>3, Invariance, PTL DEF Spec

-----------------------------------------------------------------------------
(* The subscription behind the handlers.                                    *)

\* A registration or an edit appends one event, and the rest is done to the
\* subscription.
LEMMA SubscriptionSteps ==
    ASSUME IInv, [Next]_vars
    PROVE  SubscriptionNext(Event)
<1>1. ASSUME NEW u \in Users, SaveUser(u) \/ EditUser(u)
      PROVE  SubscriptionNext(Event)
  BY <1>1
  DEF SaveUser, EditUser, CreateUser, UpdateUser, Event, SubscriptionNext
<1>2. ASSUME NEW u \in Users, Register(u) \/ RegistrationFails(u) \/ AskPublisher(u)
      PROVE  SubscriptionNext(Event)
  BY <1>2 DEF Register, RegistrationFails, AskPublisher, SubscriptionNext
<1>3. CASE Handle
  <2>1. \E p : Handled(p, TRUE)
    BY <1>3 DEF Handle, OnUserCreated, OnUserUpdated
  <2> QED
    BY <2>1 DEF SubscriptionNext
<1> QED
  BY <1>1, <1>2, <1>3, RegistrationAssumption
  DEF Next, CreateAd, ProjectAd, AdFails, DatabaseFails, Deliver, SubscriptionNext, vars,
      subscriptionVars

\* An event that is not answered is with the client, and as long as no answer is
\* late the events are handled in order.
LEMMA ClientInvariance == Spec => [](WithClient /\ InOrder)
<1>1. Init => WithClient /\ InOrder
  BY ClientInit DEF Init
<1>2. IInv /\ WithClient /\ InOrder /\ [Next]_vars => WithClient' /\ InOrder'
  BY SubscriptionSteps, ClientPreserved, OrderPreserved DEF IInv, StateInv
<1> QED
  BY <1>1, <1>2, Invariance, PTL DEF Spec

\* Events of users that the database refuses do not fill the buffer: the
\* subscription has always something to send, to handle or to answer, or rests.
THEOREM NeverComesToAHalt == Spec => []NeverStuck
<1>1. IInv /\ WithClient => NeverStuck
  BY CanAlwaysGoOn DEF IInv, StateInv
<1> QED
  BY <1>1, Invariance, ClientInvariance, PTL

\* An event of a user is handled once for each time it is sent: each handling
\* brings the subscription nearer to rest.
THEOREM ComesNearerToRest == Spec => WorkShrinks
<1>1. IInv /\ [Next]_vars =>
          [ \/ UNCHANGED subscriptionVars
            \/ Work' < Work
            \/ timeouts' > timeouts
            \/ breaks' > breaks ]_<<log, subscriptionVars>>
  BY SubscriptionSteps, WorkLeft DEF IInv, StateInv
<1> QED
  BY <1>1, Invariance, PTL DEF Spec, WorkShrinks

\* Until an answer is late the handlers have the users' events in order, each
\* when the one before is answered, and start over only behind what was answered.
THEOREM HandlersReplayTheLog == Spec => ImplementsReplayedLog
<1>1. Init => Replayed!Init
  BY ReplayInit DEF Init
<1>2. IInv /\ IInv' /\ InOrder /\ [Next]_vars =>
          [timeouts' = 0 => Replayed!Next \/ UNCHANGED Replayed!vars]_<<log, subscriptionVars>>
  BY SubscriptionSteps, ReplayStep DEF IInv, StateInv
<1> QED
  BY <1>1, <1>2, Invariance, ClientInvariance, PTL DEF Spec, ImplementsReplayedLog

\* What is left of BecomesPublisher without its fairness: at rest every user with
\* a stream is a publisher, late answers or not, while the database is up.
THEOREM EveryUserIsAPublisherAtRest ==
    Spec => [](Quiet /\ failures = 0 => \A u \in Users : Events(u) # {} => Rows(u) # {})
<1>1. IInv => (Quiet /\ failures = 0 => \A u \in Users : Events(u) # {} => Rows(u) # {})
  <2> SUFFICES ASSUME IInv, Quiet, failures = 0, NEW u \in Users, NEW p \in Events(u)
               PROVE  Rows(u) # {}
    OBVIOUS
  <2>1. p \in Logged /\ log[p].user = u
    BY DEF Events, Logged
  <2>2. p \in settled
    BY <2>1
    DEF IInv, StateInv, DeliveryInv, NothingLost, HandledInv, Quiet, Logged
  <2> QED
    BY <2>1, <2>2 DEF IInv, HandledInv, HasRow, Rows
<1> QED
  BY <1>1, Invariance, PTL
=============================================================================

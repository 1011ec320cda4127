----------------------- MODULE PersistentSubscription -----------------------
(***************************************************************************)
(* How the events of a category stream ($ce-BookAd, $ce-User) reach the     *)
(* handlers of one service: a persistent subscription of the event store,   *)
(* the client with its buffer, and EventAppeared, which awaits the handler  *)
(* of an event and answers with an Ack, or with a Nack that parks the event *)
(* when the handler threw.  The handlers are in the modules that extend     *)
(* this one: each of their actions is conjoined with Handled.               *)
(*                                                                          *)
(* An event is known by its position in the log.  The subscription is the   *)
(* event store's, as the services use it: at least once, in order unless    *)
(* an event is sent again.  That the client comes back after a connection   *)
(* is lost is the subject of SubscriptionLifecycle and taken for granted    *)
(* here.                                                                    *)
(***************************************************************************)
EXTENDS Naturals, Sequences, FiniteSets

CONSTANTS
    BufferSize,   \* SubscriptionBufferSize: events sent and not answered
    MaxEvents,    \* bound: events in the log
    MaxTimeouts,  \* bound: events sent again because the answer is late
    MaxBreaks     \* bound: lost connections, crashes and server restarts

ASSUME SubscriptionAssumption ==
    /\ BufferSize \in Nat \ {0}
    /\ MaxEvents \in Nat
    /\ MaxTimeouts \in Nat
    /\ MaxBreaks \in Nat

VARIABLES
    log,       \* the events of the category stream
    sent,      \* the server has sent the events up to this position
    retry,     \* events the server is to send again
    inflight,  \* events sent, not answered in time so far
    parked,    \* events in the parked stream: nobody reads it
    queue,     \* events the client has received and not handled
    answer,    \* the answer EventAppeared is about to send
    settled,   \* history: events whose Ack has reached the server
    timeouts,  \* late answers so far
    breaks     \* lost connections, crashes and server restarts so far

subscriptionVars ==
    <<sent, retry, inflight, parked, queue, answer, settled, timeouts, breaks>>

Positions == 1..MaxEvents

NoAnswer == [event |-> 0, ack |-> FALSE]

SubscriptionTypeOK ==
    /\ Len(log) <= MaxEvents
    /\ sent \in 0..MaxEvents
    /\ retry \subseteq Positions
    /\ inflight \subseteq Positions
    /\ parked \subseteq Positions
    /\ queue \in Seq(Positions)
    /\ answer \in [event : 0..MaxEvents, ack : BOOLEAN]
    /\ settled \subseteq Positions
    /\ timeouts \in 0..MaxTimeouts
    /\ breaks \in 0..MaxBreaks

SubscriptionInit ==
    /\ log = <<>>
    /\ sent = 0
    /\ retry = {}
    /\ inflight = {}
    /\ parked = {}
    /\ queue = <<>>
    /\ answer = NoAnswer
    /\ settled = {}
    /\ timeouts = 0
    /\ breaks = 0

-----------------------------------------------------------------------------

\* An aggregate's event is appended to its stream, and linked to the category.
AppendToLog(event) ==
    /\ Len(log) < MaxEvents
    /\ log' = Append(log, event)
    /\ UNCHANGED subscriptionVars

Send(p) ==
    /\ Cardinality(inflight) < BufferSize
    /\ inflight' = inflight \cup {p}
    /\ queue' = Append(queue, p)

\* The next event for the first time, when no event is to be sent again.
SendNext ==
    /\ retry = {}
    /\ sent < Len(log)
    /\ sent' = sent + 1
    /\ Send(sent + 1)
    /\ UNCHANGED <<log, retry, parked, answer, settled, timeouts, breaks>>

\* The first of the events to be sent again.
SendAgain ==
    \E p \in retry :
        /\ \A q \in retry : p <= q
        /\ retry' = retry \ {p}
        /\ Send(p)
        /\ UNCHANGED <<log, sent, parked, answer, settled, timeouts, breaks>>

\* Variant of Handled: the handler of the next event does not wait until the one
\* before is answered.
HandledUnawaited(p, ack) ==
    /\ queue # <<>>
    /\ p = Head(queue)
    /\ queue' = Tail(queue)
    /\ answer' = [event |-> p, ack |-> ack]
    /\ UNCHANGED <<log, sent, retry, inflight, parked, settled, timeouts, breaks>>

\* The handler of the first event in the client's buffer has returned, or has
\* thrown.  The client calls EventAppeared for one event at a time.
Handled(p, ack) ==
    /\ answer = NoAnswer
    /\ queue # <<>>
    /\ p = Head(queue)
    /\ queue' = Tail(queue)
    /\ answer' = [event |-> p, ack |-> ack]
    /\ UNCHANGED <<log, sent, retry, inflight, parked, settled, timeouts, breaks>>

\* Variant of Answer: an event whose handler threw is not answered.
AnswerOnlyAck ==
    /\ answer # NoAnswer
    /\ answer' = NoAnswer
    /\ inflight' = IF answer.ack THEN inflight \ {answer.event} ELSE inflight
    /\ settled' = IF answer.ack THEN settled \cup {answer.event} ELSE settled
    /\ UNCHANGED <<log, sent, retry, parked, queue, timeouts, breaks>>

\* Variant of Answer: the events a handler throws for are dropped.
AnswerWithSkip ==
    /\ answer # NoAnswer
    /\ answer' = NoAnswer
    /\ inflight' = inflight \ {answer.event}
    /\ settled' = IF answer.ack THEN settled \cup {answer.event} ELSE settled
    /\ UNCHANGED <<log, sent, retry, parked, queue, timeouts, breaks>>

\* Variant of Answer: the server is asked to send such an event again.
AnswerWithRetry ==
    /\ answer # NoAnswer
    /\ answer' = NoAnswer
    /\ inflight' = inflight \ {answer.event}
    /\ settled' = IF answer.ack THEN settled \cup {answer.event} ELSE settled
    /\ retry' = IF answer.ack THEN retry ELSE retry \cup {answer.event}
    /\ UNCHANGED <<log, sent, parked, queue, timeouts, breaks>>

\* The answer reaches the server, which ignores it for an event that it is to
\* send again already.
Answer ==
    /\ answer # NoAnswer
    /\ answer' = NoAnswer
    /\ inflight' = inflight \ {answer.event}
    /\ \/ /\ answer.ack
          /\ settled' = settled \cup {answer.event}
          /\ UNCHANGED parked
       \/ /\ ~answer.ack
          /\ parked' = IF answer.event \in inflight
                       THEN parked \cup {answer.event} ELSE parked
          /\ UNCHANGED settled
    /\ UNCHANGED <<log, sent, retry, queue, timeouts, breaks>>

\* No answer for the message timeout: the event is sent again, while it may
\* still be in the client's buffer or with its handler.
TimeOut(p) ==
    /\ p \in inflight
    /\ timeouts < MaxTimeouts
    /\ timeouts' = timeouts + 1
    /\ inflight' = inflight \ {p}
    /\ retry' = retry \cup {p}
    /\ UNCHANGED <<log, sent, parked, queue, answer, settled, breaks>>

\* The connection is lost, or the service crashes or is restarted: what was
\* sent and not answered is sent again on the next connection.
Disconnect ==
    /\ breaks < MaxBreaks
    /\ breaks' = breaks + 1
    /\ queue' = <<>>
    /\ answer' = NoAnswer
    /\ inflight' = {}
    /\ retry' = retry \cup inflight
    /\ UNCHANGED <<log, sent, parked, settled, timeouts>>

\* The event store restarts from the checkpoint of the subscription, which is
\* behind every event not answered, and maybe behind some that were.
ServerRestart ==
    /\ breaks < MaxBreaks
    /\ breaks' = breaks + 1
    /\ \E checkpoint \in 0..sent :
          /\ \A p \in retry \cup inflight : checkpoint < p
          /\ sent' = checkpoint
    /\ queue' = <<>>
    /\ answer' = NoAnswer
    /\ inflight' = {}
    /\ retry' = {}
    /\ UNCHANGED <<log, parked, settled, timeouts>>

Faults == (\E p \in Positions : TimeOut(p)) \/ Disconnect \/ ServerRestart

-----------------------------------------------------------------------------

\* Every event was answered.
Quiet ==
    /\ sent = Len(log)
    /\ retry = {}
    /\ inflight = {}
    /\ queue = <<>>
    /\ answer = NoAnswer

\* Whatever fails, an event is handled and acknowledged, or in the parked
\* stream, or it will be sent: none gets lost between the server and a handler.
NothingLost ==
    \A p \in 1..Len(log) :
        p \in settled \cup parked \cup retry \cup inflight \/ p > sent

\* What the server, the client or EventAppeared can do without being asked: an
\* answer is given, an event is handled, or one is sent, for which the server
\* wants less than BufferSize events to be unanswered.
CanGoOn ==
    \/ answer # NoAnswer
    \/ queue # <<>>
    \/ Cardinality(inflight) < BufferSize /\ (retry # {} \/ sent < Len(log))

\* A subscription that has something to do can go on: whatever is lost, late or
\* refused, it never comes to hold BufferSize events of which none is with the
\* client any more, so that nothing is sent and nothing answered.
NeverStuck == Quiet \/ CanGoOn

\* The steps the subscription is away from rest: an event is sent, handled and
\* answered.
Work ==
    3 * (Len(log) - sent + Cardinality(retry)) + 2 * Len(queue)
        + (IF answer = NoAnswer THEN 0 ELSE 1)

\* Every step of the server, the client and the handlers brings the subscription
\* nearer to rest: only a late answer or a break makes work again, so an event
\* that cannot be handled is not handled over and over.
WorkShrinks ==
    [][ \/ UNCHANGED subscriptionVars
        \/ Work' < Work
        \/ timeouts' > timeouts
        \/ breaks' > breaks ]_<<log, subscriptionVars>>

\* The handlers have had the events up to this one since they last started over,
\* as long as no answer was late.
HandledUpTo == sent - Len(queue) - Cardinality(retry)

Replayed == INSTANCE ReplayedLog
    WITH handled <- HandledUpTo, answered <- settled \cup parked

\* Until an answer is late, a service behind the subscription can take it for
\* what ReplayedLog says: events in order, one at a time, and from time to time
\* once more from an event before.
ImplementsReplayedLog ==
    /\ Replayed!Init
    /\ [][timeouts' = 0 => Replayed!Next \/ UNCHANGED Replayed!vars]_<<log, subscriptionVars>>
=============================================================================

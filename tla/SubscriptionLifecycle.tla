----------------------- MODULE SubscriptionLifecycle -----------------------
(***************************************************************************)
(* EventStoreSubscriptionHostedService: how a service that handles events   *)
(* (Publishers.Projections, Statistics, Notifications) connects to its      *)
(* persistent subscription when its host starts, replaces a connection that *)
(* is dropped, and disconnects when its host stops.                         *)
(*                                                                          *)
(* StartAsync and each SubscriptionDropped callback of the client run       *)
(* concurrently: a connection can drop as soon as the server has confirmed  *)
(* it, before the code that awaits it has stored it.  A call of             *)
(* SubscribeToStreamAsync, and the connection it opens, is a number; the    *)
(* array _persistentSubscriptions is a function from indices, 0 for an      *)
(* element that is default.  An element that StartAsync could not fill is   *)
(* 0 as well: the code leaves it out of the array, which moves the later    *)
(* ones up, and an index says nothing but which element is which.           *)
(***************************************************************************)
EXTENDS Naturals

CONSTANTS
    ConnectionCount,  \* ConnectionCount, 1 in the code
    RetryCount,       \* retryCreateSubscriptionCount, 10 in the code
    MaxCalls          \* bound: calls of SubscribeToStreamAsync

ASSUME ConstantsAssumption ==
    /\ ConnectionCount \in Nat \ {0}
    /\ RetryCount \in Nat \ {0}
    /\ MaxCalls \in Nat
    /\ ConnectionCount <= MaxCalls

VARIABLES
    server,     \* whether the event store can be subscribed to
    pc,         \* the hosted service
    current,    \* the connection StartAsync awaits, when it is starting
    retries,    \* retryCreateSubscriptionCount
    logged,     \* history: failures logged in a row with the server up
    calls,      \* number of calls of SubscribeToStreamAsync so far
    sub,        \* sub[s]: the connection of call s
    slot,       \* slot[s]: index in the array call s is made for
    replacing,  \* calls that a SubscriptionDropped callback awaits
    slots       \* _persistentSubscriptions

vars == <<server, pc, current, retries, logged, calls, sub, slot, replacing, slots>>

Calls == 1..MaxCalls
Slots == 1..ConnectionCount

\* "calling": not answered by the server.  "lost": dropped by the server or
\* the network, with its callback, which the client runs once the handler of
\* the connection is through, still to come.  "replaced" and "ignored": the
\* callback found the connection in the array, or did not.  "closed": disposed
\* of.
States == {"none", "calling", "failed", "open", "lost", "replaced", "ignored",
           "closed"}

TypeOK ==
    /\ server \in {"up", "down"}
    /\ pc \in {"new", "starting", "running", "stopped"}
    /\ current \in Slots
    /\ retries \in 1..RetryCount
    /\ logged \in Nat
    /\ calls \in 0..MaxCalls
    /\ sub \in [Calls -> States]
    /\ slot \in [Calls -> 0..ConnectionCount]
    /\ replacing \subseteq Calls
    /\ slots \in [Slots -> 0..MaxCalls]

Init ==
    /\ server \in {"up", "down"}
    /\ pc = "new"
    /\ current = 1
    /\ retries = RetryCount
    /\ logged = 0
    /\ calls = 0
    /\ sub = [s \in Calls |-> "none"]
    /\ slot = [s \in Calls |-> 0]
    /\ replacing = {}
    /\ slots = [i \in Slots |-> 0]

-----------------------------------------------------------------------------
(* The event store and its client                                           *)

\* The connection of call s is confirmed: its events are handled from now on.
Confirm(s) ==
    /\ sub[s] = "calling"
    /\ server = "up"
    /\ sub' = [sub EXCEPT ![s] = "open"]
    /\ UNCHANGED <<server, pc, current, retries, logged, calls, slot, replacing, slots>>

\* Call s throws: in the callback that awaits it nothing catches the
\* exception, and the element stays default.
Refuse(s) ==
    /\ sub[s] = "calling"
    /\ server = "down"
    /\ sub' = [sub EXCEPT ![s] = "failed"]
    /\ replacing' = replacing \ {s}
    /\ UNCHANGED <<server, pc, current, retries, logged, calls, slot, slots>>

\* One connection breaks, or the client gives up on it because EventAppeared
\* threw (an Ack or a Nack that fails).
Drop(s) ==
    /\ sub[s] = "open"
    /\ sub' = [sub EXCEPT ![s] = "lost"]
    /\ UNCHANGED <<server, pc, current, retries, logged, calls, slot, replacing, slots>>

ServerDown ==
    /\ server = "up"
    /\ server' = "down"
    /\ sub' = [s \in Calls |-> IF sub[s] = "open" THEN "lost" ELSE sub[s]]
    /\ logged' = 0
    /\ UNCHANGED <<pc, current, retries, calls, slot, replacing, slots>>

ServerUp ==
    /\ server = "down"
    /\ server' = "up"
    /\ UNCHANGED <<pc, current, retries, logged, calls, sub, slot, replacing, slots>>

-----------------------------------------------------------------------------
(* StartAsync, StopAsync                                                    *)

\* SubscribeAsync makes all its calls before it awaits the first.
Start ==
    /\ pc = "new"
    /\ pc' = "starting"
    /\ calls' = ConnectionCount
    /\ sub' = [s \in Calls |-> IF s \in Slots THEN "calling" ELSE "none"]
    /\ slot' = [s \in Calls |-> IF s \in Slots THEN s ELSE 0]
    /\ UNCHANGED <<server, current, retries, logged, replacing, slots>>

\* The loop is through with the current connection: it turns to the next one,
\* or the connections it has become the array and StartAsync returns.
Advance ==
    /\ logged' = 0
    /\ retries' = RetryCount
    /\ \/ /\ current < ConnectionCount
          /\ current' = current + 1
          /\ UNCHANGED <<pc, slots>>
       \/ /\ current = ConnectionCount
          /\ slots' = [i \in Slots |-> IF sub[i] = "failed" THEN 0 ELSE i]
          /\ pc' = "running"
          /\ UNCHANGED current

AwaitSucceeds ==
    /\ pc = "starting"
    /\ sub[current] \notin {"calling", "failed"}
    /\ Advance
    /\ UNCHANGED <<server, calls, sub, slot, replacing>>

\* Variant of Retry: retryCreateSubscriptionCount is not decremented.
RetryForever ==
    /\ retries > 1
    /\ UNCHANGED <<pc, current, retries, logged, slots>>

\* The catch block of the loop: a delay, and the same task is awaited again.
Retry ==
    /\ retries > 1
    /\ retries' = retries - 1
    /\ logged' = IF server = "up" THEN logged + 1 ELSE 0
    /\ UNCHANGED <<pc, current, slots>>

\* Variant of GiveUp: the last failure is thrown, and StartAsync, which
\* catches it, subscribes all over again.
GiveUpByThrowing ==
    /\ retries = 1
    /\ calls + ConnectionCount <= MaxCalls
    /\ calls' = calls + ConnectionCount
    /\ sub' = [s \in Calls |->
                  IF s > calls /\ s <= calls + ConnectionCount THEN "calling" ELSE sub[s]]
    /\ slot' = [s \in Calls |->
                   IF s > calls /\ s <= calls + ConnectionCount THEN s - calls ELSE slot[s]]
    /\ Advance

\* The last failure only ends the loop: the array will lack the connection.
GiveUp ==
    /\ retries = 1
    /\ Advance
    /\ UNCHANGED <<calls, sub, slot>>

AwaitFails ==
    /\ pc = "starting"
    /\ sub[current] = "failed"
    /\ \/ Retry /\ UNCHANGED <<calls, sub, slot>>
       \/ GiveUp
    /\ UNCHANGED <<server, replacing>>

\* Variant of Stop: the callback takes Disposed for one more loss.
StopAndReplace ==
    /\ pc = "running"
    /\ pc' = "stopped"
    /\ \E i \in Slots :
          /\ slots[i] # 0 /\ sub[slots[i]] = "open" /\ calls < MaxCalls
          /\ calls' = calls + 1
          /\ sub' = [sub EXCEPT ![slots[i]] = "closed", ![calls + 1] = "calling"]
          /\ slot' = [slot EXCEPT ![calls + 1] = i]
          /\ replacing' = replacing \cup {calls + 1}
    /\ UNCHANGED <<server, current, retries, logged, slots>>

\* Dispose ends a connection; its callback returns at once, for the reason is
\* Disposed.  Elements that are default, or were dropped before, are left.
Stop ==
    /\ pc = "running"
    /\ pc' = "stopped"
    /\ sub' = [s \in Calls |-> IF sub[s] = "open" /\ slots[slot[s]] = s
                               THEN "closed" ELSE sub[s]]
    /\ UNCHANGED <<server, current, retries, logged, calls, slot, replacing, slots>>

-----------------------------------------------------------------------------
(* SubscriptionDropped                                                      *)

Stored(s) == \E i \in Slots : slots[i] = s

\* Variant of Replace: the index is not tested, the element of the dropped
\* connection is where it was to be stored.
ReplaceAlways(s) ==
    /\ sub[s] = "lost"
    /\ calls < MaxCalls
    /\ calls' = calls + 1
    /\ sub' = [sub EXCEPT ![s] = "replaced", ![calls + 1] = "calling"]
    /\ slot' = [slot EXCEPT ![calls + 1] = slot[s]]
    /\ replacing' = replacing \cup {calls + 1}
    /\ slots' = [slots EXCEPT ![slot[s]] = 0]
    /\ UNCHANGED <<server, pc, current, retries, logged>>

\* The callback finds the connection in the array, clears its element and
\* subscribes again, once.
Replace(s) ==
    /\ sub[s] = "lost"
    /\ Stored(s)
    /\ calls < MaxCalls
    /\ calls' = calls + 1
    /\ sub' = [sub EXCEPT ![s] = "replaced", ![calls + 1] = "calling"]
    /\ slot' = [slot EXCEPT ![calls + 1] = slot[s]]
    /\ replacing' = replacing \cup {calls + 1}
    /\ slots' = [slots EXCEPT ![slot[s]] = 0]
    /\ UNCHANGED <<server, pc, current, retries, logged>>

\* The callback runs before the connection is stored: Array.IndexOf throws,
\* for there is no array, or returns -1.  Nothing is subscribed.
Ignore(s) ==
    /\ sub[s] = "lost"
    /\ ~Stored(s)
    /\ sub' = [sub EXCEPT ![s] = "ignored"]
    /\ UNCHANGED <<server, pc, current, retries, logged, calls, slot, replacing, slots>>

\* Variant of Store: the new connection is not kept.
StoreNothing(s) ==
    /\ s \in replacing
    /\ sub[s] # "calling"
    /\ replacing' = replacing \ {s}
    /\ UNCHANGED <<server, pc, current, retries, logged, calls, sub, slot, slots>>

\* The callback stores the connection it has awaited, which may have been
\* dropped in the meantime.
Store(s) ==
    /\ s \in replacing
    /\ sub[s] # "calling"
    /\ replacing' = replacing \ {s}
    /\ slots' = [slots EXCEPT ![slot[s]] = s]
    /\ UNCHANGED <<server, pc, current, retries, logged, calls, sub, slot>>

-----------------------------------------------------------------------------

Answer(s) == Confirm(s) \/ Refuse(s)
Callback(s) == Replace(s) \/ Ignore(s) \/ Store(s)

Next ==
    \/ Start
    \/ AwaitSucceeds
    \/ AwaitFails
    \/ Stop
    \/ \E s \in Calls : Confirm(s) \/ Refuse(s) \/ Drop(s) \/ Callback(s)
    \/ ServerDown
    \/ ServerUp

Spec == Init /\ [][Next]_vars

\* The host awaits StartAsync, the client ends every call (gRPC gives up on a
\* server that does not answer) and runs every callback.
FairSpec ==
    /\ Spec
    /\ WF_vars(AwaitSucceeds)
    /\ WF_vars(AwaitFails)
    /\ \A s \in Calls : WF_vars(Answer(s)) /\ WF_vars(Callback(s))

-----------------------------------------------------------------------------
(* Properties                                                               *)

\* Connections whose events are, or are about to be, handled: the handler of
\* a connection may still run until its callback does.
Active(s) == sub[s] \in {"calling", "open", "lost"}

\* However losses, replacements and the start overlap, an element of the array
\* never has two connections: with ConnectionCount 1 the handlers of a group
\* run one event at a time in a process, which they rely on to test for
\* duplicates.
OneConsumerPerSlot ==
    \A s, t \in Calls : (Active(s) /\ Active(t) /\ slot[s] = slot[t]) => s = t

\* An open connection is in the array, or some code awaits it that will put it
\* there: none is left behind that StopAsync cannot find.
NoLeak ==
    \A s \in Calls : (sub[s] = "open" /\ pc # "stopped") =>
        pc = "starting" \/ s \in replacing \/ slots[slot[s]] = s

\* Nobody subscribes again unless a connection was lost: the calls after those
\* of StartAsync are one for each loss that a callback answered, so a
\* connection that StopAsync has closed stays closed.
CallsAnswerLosses ==
    \A s \in Calls : (s > ConnectionCount /\ sub[s] # "none") =>
        \E t \in Calls : t < s /\ slot[t] = slot[s] /\ sub[t] = "replaced"

Connected(i) == slots[i] # 0 /\ sub[slots[i]] = "open"

\* What may cost a service a connection for good: a call that failed, in
\* StartAsync or in a callback, or a connection dropped before it was stored.
\* Nothing else does: when all callbacks have run, every other element has an
\* open connection.
LossExplained ==
    \A i \in Slots :
        ( /\ pc = "running"
          /\ \A s \in Calls : slot[s] = i =>
                /\ sub[s] \notin {"calling", "lost", "failed", "ignored"}
                /\ s \notin replacing )
        => Connected(i)

\* What the code keeps to between its awaits, and makes the properties above
\* inductive: calls are numbered as they are made, those of StartAsync first;
\* an element holds a connection that was opened for it and has not been
\* replaced; a callback that awaits a call has left its element default, and
\* is the only one to fill it; every call is awaited until it is answered;
\* and each element has a call that accounts for it.
CallInv ==
    \A s \in Calls :
        /\ sub[s] = "none" <=> s > calls
        /\ sub[s] # "none" => slot[s] \in Slots
        /\ s <= ConnectionCount /\ sub[s] # "none" => slot[s] = s
        /\ sub[s] = "calling" => pc = "starting" \/ s \in replacing

StartInv ==
    /\ pc = "new" => calls = 0 /\ current = 1
    /\ pc # "new" => ConnectionCount <= calls
    /\ pc = "starting" =>
          /\ calls = ConnectionCount
          /\ \A s \in Slots :
                /\ sub[s] \in {"calling", "failed", "open", "lost", "ignored"}
                /\ s < current => sub[s] # "calling"
    /\ pc \in {"new", "starting"} => slots = [i \in Slots |-> 0]

SlotInv ==
    \A i \in Slots : slots[i] # 0 =>
        /\ slot[slots[i]] = i
        /\ sub[slots[i]] \in {"open", "lost", "ignored", "closed"}

ReplacingInv ==
    \A s \in replacing :
        /\ s > ConnectionCount
        /\ sub[s] \in {"calling", "open", "lost", "ignored"}
        /\ slots[slot[s]] = 0
        /\ \A t \in replacing : slot[s] = slot[t] => s = t

AccountInv ==
    pc = "running" => \A i \in Slots :
        Connected(i) \/ \E s \in Calls :
            /\ slot[s] = i
            /\ sub[s] \in {"calling", "lost", "failed", "ignored"} \/ s \in replacing

\* The inductive invariant of the specification.
IInv ==
    /\ TypeOK
    /\ CallInv
    /\ StartInv
    /\ SlotInv
    /\ ReplacingInv
    /\ AccountInv
    /\ OneConsumerPerSlot
    /\ NoLeak
    /\ CallsAnswerLosses

\* How often StartAsync may still await: retryCreateSubscriptionCount times for
\* each connection it has not come to, and what is left for the current one.
Patience == (ConnectionCount - current) * RetryCount + retries

\* Whatever the server and the callbacks do meanwhile, each await uses up some of
\* it, so StartAsync returns after ConnectionCount * RetryCount awaits at most.
StartIsBounded ==
    [][ AwaitSucceeds \/ AwaitFails => pc' = "running" \/ Patience' < Patience ]_vars

Has(i, state) == \E s \in Calls : slot[s] = i /\ sub[s] = state

Link(i) ==
    CASE pc = "new" -> "none"
      [] pc # "new" /\ Has(i, "calling") -> "connecting"
      [] pc # "new" /\ Has(i, "open") -> "connected"
      [] pc # "new" /\ Has(i, "lost") -> "broken"
      [] OTHER -> "gone"

Consumers == INSTANCE ConnectionSlots WITH link <- [i \in Slots |-> Link(i)]

\* The event store sees one consumer for each element of the array, however
\* losses, callbacks, the start and the stop overlap; one that was refused,
\* ignored or closed does not come back before the service is started again.
ImplementsConnectionSlots == Consumers!Spec

\* StartAsync returns whether the server is up or not: it does not hold up the
\* other hosted services, nor the web server, of its host.
StartReturns == pc = "starting" ~> pc \in {"running", "stopped"}

\* A connection that is lost while it is in the array is replaced by an open
\* one, unless a call fails or the new one is dropped before it is stored.
\* (MaxCalls bounds the number of losses.)
Resubscribed ==
    \A i \in Slots : (slots[i] # 0 /\ sub[slots[i]] = "lost") ~>
        \/ Connected(i)
        \/ \E s \in Calls : slot[s] = i /\ sub[s] \in {"failed", "ignored"}
        \/ pc = "stopped"
        \/ calls = MaxCalls

\* "Fail subscribe ... Retry {iteration} of ..." promises attempts: StartAsync
\* does not go on without its connections if it has logged two failures in a
\* row, and more, while the server could be subscribed to.
SurvivesOutage ==
    [][ (pc = "starting" /\ pc' = "running" /\ logged >= 2) => slots'[current] # 0 ]_vars
=============================================================================

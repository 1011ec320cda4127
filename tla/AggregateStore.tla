--------------------------- MODULE AggregateStore ---------------------------
(***************************************************************************)
(* What IEventStoreAggregateRepository promises the command handlers, with  *)
(* no snapshots, caches or slices in it: a stream of events that saves      *)
(* append to, and loads that return the result of the first v events of the *)
(* stream, for a v between its length when the load began and its length    *)
(* when the load ends.  A save appends without looking at what was appended *)
(* since the load: the promise has no optimistic concurrency in it, as      *)
(* SaveAsync appends with StreamState.Any.  Any request may end without a   *)
(* result at any time, and an event may be appended by a save that then     *)
(* fails.                                                                   *)
(***************************************************************************)
EXTENDS Naturals, Sequences

CONSTANTS Clients, Batches, MaxEvents

VARIABLES
    stream,  \* number of events in the aggregate's stream
    phase,   \* phase[c]: what request c is doing
    from,    \* from[c]: length of the stream when c began to load
    state    \* state[c]: the numbers of the events applied to c's aggregate

vars == <<stream, phase, from, state>>

Phases == {"none", "loading", "loaded", "saving"}

Init ==
    /\ stream = 0
    /\ phase = [c \in Clients |-> "none"]
    /\ from = [c \in Clients |-> 0]
    /\ state = [c \in Clients |-> <<>>]

FirstEvents(v) == [i \in 1..v |-> i - 1]

\* A request starts from an aggregate it has just constructed.
Construct(c) ==
    /\ phase[c] = "none"
    /\ phase' = [phase EXCEPT ![c] = "loaded"]
    /\ UNCHANGED <<stream, from, state>>

BeginLoad(c) ==
    /\ phase[c] = "none"
    /\ stream > 0
    /\ phase' = [phase EXCEPT ![c] = "loading"]
    /\ from' = [from EXCEPT ![c] = stream]
    /\ UNCHANGED <<stream, state>>

EndLoad(c) ==
    /\ phase[c] = "loading"
    /\ phase' = [phase EXCEPT ![c] = "loaded"]
    /\ \E v \in from[c]..stream : state' = [state EXCEPT ![c] = FirstEvents(v)]
    /\ UNCHANGED <<stream, from>>

\* A load that takes one read of the stream.
LoadAtOnce(c) ==
    /\ phase[c] = "none"
    /\ stream > 0
    /\ phase' = [phase EXCEPT ![c] = "loaded"]
    /\ from' = [from EXCEPT ![c] = stream]
    /\ state' = [state EXCEPT ![c] = FirstEvents(stream)]
    /\ UNCHANGED stream

\* The requests in R are over, answered or not.
Forget(R) ==
    /\ phase' = [c \in Clients |-> IF c \in R THEN "none" ELSE phase[c]]
    /\ from' = [c \in Clients |-> IF c \in R THEN 0 ELSE from[c]]
    /\ state' = [c \in Clients |-> IF c \in R THEN <<>> ELSE state[c]]

\* The events of a save reach the stream, all at once and only once; the
\* request may have more to do.
Commit(c) ==
    /\ phase[c] = "loaded"
    /\ \E k \in Batches : stream + k <= MaxEvents /\ stream' = stream + k
    /\ \/ Forget({c})
       \/ /\ phase' = [phase EXCEPT ![c] = "saving"]
          /\ from' = [from EXCEPT ![c] = 0]
          /\ state' = [state EXCEPT ![c] = <<>>]

End(R) ==
    /\ Forget(R)
    /\ UNCHANGED stream

Next ==
    \/ \E c \in Clients :
          \/ Construct(c)
          \/ BeginLoad(c)
          \/ EndLoad(c)
          \/ LoadAtOnce(c)
          \/ Commit(c)
          \/ End({c})
    \/ End(Clients)

Spec == Init /\ [][Next]_vars
=============================================================================

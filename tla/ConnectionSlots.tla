-------------------------- MODULE ConnectionSlots --------------------------
(***************************************************************************)
(* What the hosted service makes of the elements of its array of            *)
(* connections, seen from the event store: one consumer for each, which may *)
(* break and be replaced any number of times, and is gone for good once it  *)
(* was refused, forgotten or closed.  There are no calls, no callbacks and  *)
(* no array in it.                                                          *)
(***************************************************************************)
CONSTANT Slots  \* the elements of the array

VARIABLE link   \* link[i]: the consumer of element i

Links == {"none", "connecting", "connected", "broken", "gone"}

Init == link = [i \in Slots |-> "none"]

Turn(i, from, to) == link[i] = from /\ link' = [link EXCEPT ![i] = to]

\* All consumers connect at once.
Start ==
    /\ \A i \in Slots : link[i] = "none"
    /\ link' = [i \in Slots |-> "connecting"]

Connect(i) == Turn(i, "connecting", "connected")

Refuse(i) == Turn(i, "connecting", "gone")

\* Connections break one by one, or together when the server is down.
Break(S) ==
    /\ \A i \in S : link[i] = "connected"
    /\ link' = [i \in Slots |-> IF i \in S THEN "broken" ELSE link[i]]

Replace(i) == Turn(i, "broken", "connecting")

Forget(i) == Turn(i, "broken", "gone")

\* Connections are closed when the service stops.
Close(S) ==
    /\ \A i \in S : link[i] = "connected"
    /\ link' = [i \in Slots |-> IF i \in S THEN "gone" ELSE link[i]]

Next ==
    \/ Start
    \/ \E i \in Slots : Connect(i) \/ Refuse(i) \/ Replace(i) \/ Forget(i)
    \/ \E S \in SUBSET Slots : Break(S) \/ Close(S)

Spec == Init /\ [][Next]_link
=============================================================================

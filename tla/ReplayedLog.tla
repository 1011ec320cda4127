---------------------------- MODULE ReplayedLog ----------------------------
(***************************************************************************)
(* What the handlers of a service are promised by its persistent            *)
(* subscription and by EventAppeared, as long as no answer is late: the     *)
(* events of the category stream in their order, each only when the one     *)
(* before is answered.  From time to time they start over at an earlier     *)
(* event, but never behind one that is not answered.  There is no server,   *)
(* no connection and no buffer in it.                                       *)
(***************************************************************************)
EXTENDS Naturals, Sequences

VARIABLES
    log,      \* the events of the category stream
    handled,  \* number of events handled since the handlers last started over
    answered  \* events answered so far, whether acknowledged or parked

vars == <<log, handled, answered>>

Init ==
    /\ log = <<>>
    /\ handled = 0
    /\ answered = {}

\* An event comes, behind those that are there.
Grow ==
    /\ Len(log') = Len(log) + 1
    /\ \A p \in 1..Len(log) : log'[p] = log[p]
    /\ UNCHANGED <<handled, answered>>

\* Every event up to the p-th is answered.
AnsweredUpTo(p) == \A q \in 1..p : q \in answered

Handle ==
    /\ handled < Len(log)
    /\ AnsweredUpTo(handled)
    /\ handled' = handled + 1
    /\ UNCHANGED <<log, answered>>

\* The answer to the event that was handled last arrives.
Settle ==
    /\ handled > 0
    /\ answered' = answered \cup {handled}
    /\ UNCHANGED <<log, handled>>

StartOver ==
    /\ \E p \in 0..handled : AnsweredUpTo(p) /\ handled' = p
    /\ UNCHANGED <<log, answered>>

Next == Grow \/ Handle \/ Settle \/ StartOver

Spec == Init /\ [][Next]_vars
=============================================================================

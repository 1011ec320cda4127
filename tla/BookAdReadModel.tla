-------------------------- MODULE BookAdReadModel --------------------------
(***************************************************************************)
(* One book ad from the requests to the read model: the BookAdsController   *)
(* of the Publishers service, whose commands are checked against the read   *)
(* model and append events to the ad's stream; and the BookAdsHostedService *)
(* of Publishers.Projections, whose handlers keep the ad's row of that read *)
(* model, behind a persistent subscription.                                 *)
(*                                                                          *)
(* An event is abstracted to its type and to whether what it refers to (the *)
(* category, the publisher) is there; the payload of a row to the position  *)
(* of the event it comes from.                                              *)
(***************************************************************************)
EXTENDS PersistentSubscription

CONSTANTS
    Clients,     \* concurrent requests
    Commands,    \* types of the events requests append after the first
    MaxFailures  \* bound: exceptions of the read model's database

CommandTypes == {"Updated", "Opened", "Closed", "Deleted", "Viewed"}

ASSUME ReadModelAssumption ==
    /\ Commands \subseteq CommandTypes
    /\ MaxFailures \in Nat

VARIABLES
    row,      \* the ad's row in the read model
    request,  \* request[c]: the event c will append, once it was let through
    failures  \* exceptions of the database so far

vars == <<log, subscriptionVars, row, request, failures>>

NoRow == [data |-> 0, available |-> FALSE]

Types == {"Created"} \cup CommandTypes

TypeOK ==
    /\ SubscriptionTypeOK
    /\ log \in Seq([type : Types, valid : BOOLEAN])
    /\ row \in [data : 0..MaxEvents, available : BOOLEAN]
    /\ request \in [Clients -> CommandTypes \cup {"none"}]
    /\ failures \in 0..MaxFailures

Init ==
    /\ SubscriptionInit
    /\ row = NoRow
    /\ request = [c \in Clients |-> "none"]
    /\ failures = 0

-----------------------------------------------------------------------------
(* BookAdsController                                                        *)

\* Create: nobody checks the category of the input, nor that the user's
\* publisher has reached the read model.
Create ==
    /\ log = <<>>
    /\ \E valid \in BOOLEAN : AppendToLog([type |-> "Created", valid |-> valid])
    /\ UNCHANGED <<row, request, failures>>

\* Edit, Delete and ChangeAvailability ask the read model whether the ad is
\* the user's; ViewBook only loads the ad.
BeginRequest(c, type) ==
    /\ request[c] = "none"
    /\ log # <<>>
    /\ type = "Viewed" \/ row # NoRow
    /\ request' = [request EXCEPT ![c] = type]
    /\ UNCHANGED <<log, subscriptionVars, row, failures>>

\* The command is applied and saved.  No command looks at IsDeleted, and the
\* answer of the read model may be out of date by now.
EndRequest(c) ==
    /\ request[c] # "none"
    /\ request' = [request EXCEPT ![c] = "none"]
    /\ \E valid \in BOOLEAN :
          /\ request[c] # "Updated" => valid
          /\ AppendToLog([type |-> request[c], valid |-> valid])
    /\ UNCHANGED <<row, failures>>

-----------------------------------------------------------------------------
(* The event handlers of Publishers.Projections                             *)

\* Variant of OnCreated: an ad that is there already makes the handler throw.
OnCreatedOnce(p) ==
    /\ log[p].type = "Created"
    /\ \/ /\ ~log[p].valid \/ row # NoRow
          /\ Handled(p, FALSE)
          /\ UNCHANGED row
       \/ /\ log[p].valid /\ row = NoRow
          /\ Handled(p, TRUE)
          /\ row' = [data |-> p, available |-> FALSE]

\* The category, or the publisher, is missing: the handler or SaveChanges
\* throws.  An ad that is there already is left as it is.
OnCreated(p) ==
    /\ log[p].type = "Created"
    /\ \/ /\ ~log[p].valid
          /\ Handled(p, FALSE)
          /\ UNCHANGED row
       \/ /\ log[p].valid
          /\ Handled(p, TRUE)
          /\ row' = IF row = NoRow THEN [data |-> p, available |-> FALSE] ELSE row

\* Variant of OnUpdated: an ad that is not there is added.
OnUpdatedUpsert(p) ==
    /\ log[p].type = "Updated"
    /\ \/ /\ ~log[p].valid
          /\ Handled(p, FALSE)
          /\ UNCHANGED row
       \/ /\ log[p].valid
          /\ Handled(p, TRUE)
          /\ row' = [row EXCEPT !.data = p]

\* An ad that is not there makes the handler throw.
OnUpdated(p) ==
    /\ log[p].type = "Updated"
    /\ \/ /\ ~log[p].valid \/ row = NoRow
          /\ Handled(p, FALSE)
          /\ UNCHANGED row
       \/ /\ log[p].valid /\ row # NoRow
          /\ Handled(p, TRUE)
          /\ row' = [row EXCEPT !.data = p]

OnAvailabilityChanged(p) ==
    /\ log[p].type \in {"Opened", "Closed"}
    /\ \/ /\ row = NoRow
          /\ Handled(p, FALSE)
          /\ UNCHANGED row
       \/ /\ row # NoRow
          /\ Handled(p, TRUE)
          /\ row' = [row EXCEPT !.available = (log[p].type = "Opened")]

OnDeleted(p) ==
    /\ log[p].type = "Deleted"
    /\ Handled(p, TRUE)
    /\ row' = NoRow

\* No handler and no skip handler for the event: it is parked.
OnViewed(p) ==
    /\ log[p].type = "Viewed"
    /\ Handled(p, FALSE)
    /\ UNCHANGED row

Handle ==
    /\ queue # <<>>
    /\ LET p == Head(queue)
       IN  \/ OnCreated(p)
           \/ OnUpdated(p)
           \/ OnAvailabilityChanged(p)
           \/ OnDeleted(p)
           \/ OnViewed(p)
    /\ UNCHANGED <<request, failures>>

\* The database throws: nothing was saved, and the event is parked like any
\* other whose handler throws.
DatabaseFails ==
    /\ failures < MaxFailures
    /\ failures' = failures + 1
    /\ queue # <<>> /\ Handled(Head(queue), FALSE)
    /\ UNCHANGED <<row, request>>

-----------------------------------------------------------------------------

Deliver ==
    /\ SendNext \/ SendAgain \/ Answer
    /\ UNCHANGED <<row, request, failures>>

Next ==
    \/ Create
    \/ \E c \in Clients : (\E t \in Commands : BeginRequest(c, t)) \/ EndRequest(c)
    \/ Handle
    \/ DatabaseFails
    \/ Deliver
    \/ Faults /\ UNCHANGED <<row, request, failures>>

Spec == Init /\ [][Next]_vars

\* The server sends what it has to send and the client handles what it has
\* received; nobody has to make a request, and nothing has to fail.
FairSpec == Spec /\ WF_vars(Deliver) /\ WF_vars(Handle)

-----------------------------------------------------------------------------
(* Properties                                                               *)

Is(p, types) == log[p].type \in types

Deleted == \E p \in 1..Len(log) : Is(p, {"Deleted"})

\* The row an ad comes to when each of its events is handled once, in order,
\* and those that cannot be handled are passed over.
Expected ==
    LET kept == {p \in 1..Len(log) : Is(p, {"Created", "Updated"}) /\ log[p].valid}
        turned == {p \in 1..Len(log) : Is(p, {"Opened", "Closed"})}
        last(S) == CHOOSE p \in S : \A q \in S : q <= p
    IN  IF log = <<>> \/ ~log[1].valid \/ Deleted
        THEN NoRow
        ELSE [data |-> last(kept),
              available |-> turned # {} /\ Is(last(turned), {"Opened"})]

\* However often connections, the service and the event store break off and
\* events are handled again, and whatever requests overtake each other, the
\* read model comes back to what the ad's events say, unless an event is sent
\* again behind later ones (a message timeout) or the database throws.
Converges ==
    (Quiet /\ timeouts = 0 /\ failures = 0) => row = Expected

\* Which events are parked though the database is up: views, which nothing
\* handles; events that refer to what is not there; and events of an ad that
\* has no row, for its creation was parked or it is deleted.
ParkedForAReason ==
    failures = 0 =>
        \A p \in parked :
            \/ Is(p, {"Viewed"})
            \/ ~log[p].valid
            \/ ~log[1].valid
            \/ Deleted

\* Once a deletion is in the ad's stream the row goes, and does not stay when a
\* replay brings it back: the ad is not found, whatever requests that had been
\* let through before append after the deletion.
DeletedForGood ==
    [](Deleted => <>[](row = NoRow \/ failures > 0 \/ timeouts > 0))

\* Every event that is appended is acknowledged or parked in the end: the
\* handling never stops at an event that cannot be handled.
EventuallyAnswered ==
    \A p \in Positions : (p <= Len(log)) ~> (p \in settled \cup parked)
=============================================================================

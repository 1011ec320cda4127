-------------------------- MODULE UserRegistration --------------------------
(***************************************************************************)
(* How a visitor becomes a publisher: IdentityService writes an account to  *)
(* the users' database and then the first event of the user's stream;       *)
(* Publishers.Projections turns the users' events into rows of publishers,  *)
(* behind a persistent subscription; and BookAdsController creates an ad    *)
(* with the id that GetIdByUser finds among them.                           *)
(*                                                                          *)
(* A user is the user name, which the users' database keeps unique.  An     *)
(* event is its type and its user; the profile in a row is the position of  *)
(* the event it comes from; the id of a publisher is its place in the       *)
(* table, whose rows nothing removes.  What befalls an ad after its         *)
(* creation is in BookAdReadModel: here one ad is followed until it is in   *)
(* the read model, or its creation is parked.  That event is in a category  *)
(* of its own, behind another subscription, of which only this much is      *)
(* here: it is handled in the end or not, and may be handled again.         *)
(***************************************************************************)
EXTENDS PersistentSubscription

CONSTANTS
    Users,
    Seeded,      \* users whose accounts IdentityDataSeeder makes
    Advertisers, \* bound: users who may ask for the ad
    MaxFailures  \* bound: exceptions of the read model's database

ASSUME RegistrationAssumption ==
    /\ Seeded \subseteq Users
    /\ Advertisers \subseteq Users
    /\ MaxFailures \in Nat

VARIABLES
    accounts,    \* the users' database of the Identity service
    registering, \* users with an account whose first event is to be saved
    publishers,  \* table of the read model
    ad,          \* an ad, from the request to the read model
    failures     \* exceptions of the read model's database for events of users

identityVars == <<accounts, registering>>

vars == <<log, subscriptionVars, identityVars, publishers, ad, failures>>

\* default(int): the id GetIdByUser finds for a user without a row.
NoPublisher == 0

NoAd == [state |-> "none"]

\* category: whether the category of the ad exists; failed: whether the database
\* has thrown while the creation was handled (history).
Ads == [state : {"asked", "created", "shown", "parked"},
        user : Users, publisher : Nat, category : BOOLEAN, failed : BOOLEAN]

TypeOK ==
    /\ SubscriptionTypeOK
    /\ log \in Seq([type : {"Created", "Updated"}, user : Users])
    /\ accounts \subseteq Users
    /\ registering \subseteq accounts
    /\ publishers \in Seq([user : Users, profile : Positions])
    /\ ad \in Ads \cup {NoAd}
    /\ failures \in 0..MaxFailures

\* The seeders: accounts without a stream, and no publishers.
Init ==
    /\ SubscriptionInit
    /\ accounts = Seeded
    /\ registering = {}
    /\ publishers = <<>>
    /\ ad = NoAd
    /\ failures = 0

Events(u) == {p \in 1..Len(log) : log[p].user = u}

Rows(u) == {i \in 1..Len(publishers) : publishers[i].user = u}

\* Variant of FindByUser: the user is not compared.
FindAny(u) == IF publishers = <<>> THEN NoPublisher ELSE 1

\* FirstOrDefault of the user's rows.
FindByUser(u) ==
    IF Rows(u) = {} THEN NoPublisher ELSE CHOOSE i \in Rows(u) : TRUE

GetIdByUser(u) == FindByUser(u)

-----------------------------------------------------------------------------
(* IdentityService                                                          *)

\* The commands of UserAggregate.  Their events are all that it has to say.
CreateUser(u) == AppendToLog([type |-> "Created", user |-> u])

UpdateUser(u) == AppendToLog([type |-> "Updated", user |-> u])

\* Variant of Register: a name that is taken is no obstacle.
RegisterAnyway(u) ==
    /\ u \notin registering
    /\ accounts' = accounts \cup {u}
    /\ registering' = registering \cup {u}
    /\ UNCHANGED <<log, subscriptionVars, publishers, ad, failures>>

\* CreateAsync refuses a name that is taken.
Register(u) ==
    /\ u \notin accounts
    /\ accounts' = accounts \cup {u}
    /\ registering' = registering \cup {u}
    /\ UNCHANGED <<log, subscriptionVars, publishers, ad, failures>>

\* SaveAsync appends, whether or not its answer comes back.
SaveUser(u) ==
    /\ u \in registering
    /\ registering' = registering \ {u}
    /\ CreateUser(u)
    /\ UNCHANGED <<accounts, publishers, ad, failures>>

\* SaveAsync throws, or the service crashes before it: the account stays.
RegistrationFails(u) ==
    /\ u \in registering
    /\ registering' = registering \ {u}
    /\ UNCHANGED <<log, subscriptionVars, accounts, publishers, ad, failures>>

\* Variant of EditUser: a user without a stream is given one.
EditAnyUser(u) ==
    /\ u \in accounts
    /\ UpdateUser(u)
    /\ UNCHANGED <<identityVars, publishers, ad, failures>>

\* LoadAsync throws for a user without a stream.
EditUser(u) ==
    /\ Events(u) # {}
    /\ UpdateUser(u)
    /\ UNCHANGED <<identityVars, publishers, ad, failures>>

-----------------------------------------------------------------------------
(* The handlers of Publishers.Projections                                   *)

\* Variant of OnUserCreated: no test whether the row is there.
OnUserCreatedAgain(p) ==
    /\ log[p].type = "Created"
    /\ Handled(p, TRUE)
    /\ publishers' = Append(publishers, [user |-> log[p].user, profile |-> p])

\* Variant of OnUserCreated: the test is whether there is any publisher.
OnFirstUserCreated(p) ==
    /\ log[p].type = "Created"
    /\ Handled(p, TRUE)
    /\ publishers' =
           IF publishers = <<>>
           THEN Append(publishers, [user |-> log[p].user, profile |-> p])
           ELSE publishers

OnUserCreated(p) ==
    /\ log[p].type = "Created"
    /\ Handled(p, TRUE)
    /\ publishers' =
           IF Rows(log[p].user) = {}
           THEN Append(publishers, [user |-> log[p].user, profile |-> p])
           ELSE publishers

\* Variant of OnUserUpdated: only the row of the first publisher is found.
OnFirstUpdated(p) ==
    /\ log[p].type = "Updated"
    /\ Handled(p, TRUE)
    /\ publishers' =
           [i \in DOMAIN publishers |->
               IF i = 1 THEN [publishers[i] EXCEPT !.profile = p] ELSE publishers[i]]

\* A row that is not there is passed over, and the event acknowledged.
OnUserUpdated(p) ==
    /\ log[p].type = "Updated"
    /\ Handled(p, TRUE)
    /\ publishers' =
           [i \in DOMAIN publishers |->
               IF i = FindByUser(log[p].user)
               THEN [publishers[i] EXCEPT !.profile = p] ELSE publishers[i]]

Handle ==
    /\ queue # <<>>
    /\ OnUserCreated(Head(queue)) \/ OnUserUpdated(Head(queue))
    /\ UNCHANGED <<identityVars, ad, failures>>

\* The database throws while an event of a user is handled: it is parked.
DatabaseFails ==
    /\ failures < MaxFailures
    /\ failures' = failures + 1
    /\ queue # <<>> /\ Handled(Head(queue), FALSE)
    /\ UNCHANGED <<identityVars, publishers, ad>>

-----------------------------------------------------------------------------
(* The ad                                                                   *)

\* Create awaits GetIdByUser.  Whoever has an account can log in, and nobody
\* looks whether there is such a category.
AskPublisher(u) ==
    /\ ad = NoAd
    /\ u \in accounts
    /\ \E category \in BOOLEAN :
          ad' = [state |-> "asked", user |-> u, publisher |-> GetIdByUser(u),
                 category |-> category, failed |-> FALSE]
    /\ UNCHANGED <<log, subscriptionVars, identityVars, publishers, failures>>

\* The aggregate is saved: its creation is in the category of the ads.
CreateAd ==
    /\ ad.state = "asked"
    /\ ad' = [ad EXCEPT !.state = "created"]
    /\ UNCHANGED <<log, subscriptionVars, identityVars, publishers, failures>>

\* The foreign key of an ad, which is required.
RefersToPublisher == ad.publisher \in DOMAIN publishers

\* The creation is handled, or handled again when its answer was lost: the
\* handler throws for a category that is not there, and SaveChanges for a
\* publisher that is not, which parks the event.  An ad that is there already is
\* left as it is.
ProjectAd ==
    /\ ad.state \in {"created", "parked"}
    /\ ad' = [ad EXCEPT !.state =
                 IF ad.category /\ RefersToPublisher THEN "shown" ELSE "parked"]
    /\ UNCHANGED <<log, subscriptionVars, identityVars, publishers, failures>>

\* The database throws while the creation is handled: it is parked.
AdFails ==
    /\ ad.state \in {"created", "parked"}
    /\ ad' = [ad EXCEPT !.state = "parked", !.failed = TRUE]
    /\ UNCHANGED <<log, subscriptionVars, identityVars, publishers, failures>>

-----------------------------------------------------------------------------

Deliver ==
    /\ SendNext \/ SendAgain \/ Answer
    /\ UNCHANGED <<identityVars, publishers, ad, failures>>

Next ==
    \/ \E u \in Users : Register(u) \/ SaveUser(u) \/ RegistrationFails(u)
    \/ \E u \in Users : EditUser(u)
    \/ \E u \in Advertisers : AskPublisher(u)
    \/ CreateAd
    \/ ProjectAd
    \/ AdFails
    \/ Handle
    \/ DatabaseFails
    \/ Deliver
    \/ Faults /\ UNCHANGED <<identityVars, publishers, ad, failures>>

Spec == Init /\ [][Next]_vars

\* The server sends what it has to send and the client handles what it has
\* received; nobody has to make a request, and nothing has to fail.
FairSpec == Spec /\ WF_vars(Deliver) /\ WF_vars(Handle)

-----------------------------------------------------------------------------
(* Properties                                                               *)

\* The table of publishers has no unique index on the user, and GetIdByUser
\* takes any row of it: whatever is delivered again, a user has one row.
OnePublisherPerUser == \A u \in Users : Cardinality(Rows(u)) <= 1

\* When every event was answered, a user's row holds the profile of the
\* latest event, unless an event was sent again behind later ones (a message
\* timeout) or the database threw.
ProfileConverges ==
    (Quiet /\ timeouts = 0 /\ failures = 0) =>
        \A u \in Users :
            \A p \in Events(u) :
                (\A q \in Events(u) : q <= p) =>
                    \E i \in Rows(u) : publishers[i].profile = p

\* An update of a user without a row is acknowledged and forgotten.  That costs
\* nothing while the database is up: no update gets ahead of the creation, so
\* the user of every acknowledged event is a publisher.
AcknowledgedMeansPublisher ==
    failures = 0 => \A p \in settled : Rows(log[p].user) # {}

\* An ad in the read model belongs to the user who asked for it.  A parked one
\* has a reason that can be named: its category does not exist, the database
\* threw, or its user's row was not there at the time of the request, for which
\* no later replay makes up; an id that was found goes on to refer to its row.
AdReachesItsOwner ==
    /\ ad.state = "shown" => publishers[ad.publisher].user = ad.user
    /\ ad.state = "parked" =>
          ~ad.category \/ ad.failed \/ ad.publisher = NoPublisher

Orphaned(u) == u \in accounts /\ u \notin registering /\ Events(u) = {}

\* A registration that was interrupted between the two databases stays so: the
\* name is taken, the stream cannot be loaded, and no request repairs it.
OrphansStay == [][\A u \in Users : Orphaned(u) => Orphaned(u)']_vars

\* A user whose creation is in the stream becomes a publisher, unless the
\* database throws.
BecomesPublisher ==
    \A u \in Users : (Events(u) # {}) ~> (Rows(u) # {} \/ failures > 0)

\* GetIdByUser: "This user is not a publisher." is thrown for a user without a
\* row, so an ad is created by publishers only.
OnlyPublishersCreateAds ==
    ad.state = "created" => \E i \in Rows(ad.user) : ad.publisher = i
=============================================================================

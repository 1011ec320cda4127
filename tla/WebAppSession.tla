--------------------------- MODULE WebAppSession ---------------------------
(***************************************************************************)
(* Who is logged in, in the tabs of one browser that show the Angular       *)
(* application.  The tabs share the browser's localStorage, which holds the *)
(* token every request is sent with and the id the profile page works with. *)
(* What a tab copies from there, when it is loaded or shows a page, nobody  *)
(* updates: the navigation bar, the connection to the hub of notifications, *)
(* and the id of the profile.                                               *)
(*                                                                          *)
(* Each callback of a tab is one step, with what it writes to localStorage  *)
(* and the navigation it starts: the modules of all routes are part of the  *)
(* bundle.  A reload is a step of its own: the page goes on running until   *)
(* the browser has done it, and then its requests are abandoned.            *)
(* The services are abstracted to whether they accept a request.            *)
(***************************************************************************)
EXTENDS Naturals, FiniteSets

CONSTANTS
    Tabs,
    Users,
    None,        \* no token, no id, no user
    MaxPending   \* bound: requests of all tabs that await their answers

ASSUME UsersAssumption == None \notin Users

ASSUME BoundsAssumption == MaxPending \in Nat

\* "Mine" stands for the three pages behind the guard, "Books" for the home page
\* and those of books that are not.
Pages == {"Books", "Mine", "Login", "Register", "Profile"}

VARIABLES
    token,        \* localStorage: the token's user
    publisherId,  \* localStorage: the user of the id
    page,         \* per tab: the component the router shows
    navbar,       \* per tab: NavbarComponent.token
    connection,   \* per tab: the user under whom the hub has it in its group
    profile,      \* per tab: ProfileComponent.id
    form,         \* per tab: ProfileComponent has its user, and shows the forms
    requests,     \* requests sent and not answered
    due,          \* per tab: a reload was called and is yet to come
    foreign       \* history, per tab: since it was loaded, another tab wrote
                  \* to localStorage

storageVars == <<token, publisherId>>
tabVars == <<page, navbar, connection, profile, form, due>>

vars == <<storageVars, tabVars, requests, foreign>>

ProfileKinds == {"editPublisher", "changePassword"}

Requests ==
    [tab : Tabs, kind : ProfileKinds \cup {"enter", "getPublisher"},
     user : Users \cup {None}]

TypeOK ==
    /\ token \in Users \cup {None}
    /\ publisherId \in Users \cup {None}
    /\ page \in [Tabs -> Pages]
    /\ navbar \in [Tabs -> Users \cup {None}]
    /\ connection \in [Tabs -> Users \cup {None}]
    /\ profile \in [Tabs -> Users \cup {None}]
    /\ form \in [Tabs -> BOOLEAN]
    /\ requests \subseteq Requests
    /\ due \in [Tabs -> BOOLEAN]
    /\ foreign \in [Tabs -> BOOLEAN]

\* The tabs show the home page; an earlier visit may have left a user logged in,
\* or logged out.
Init ==
    /\ publisherId \in Users \cup {None}
    /\ token \in {None, publisherId}
    /\ page = [t \in Tabs |-> "Books"]
    /\ navbar = [t \in Tabs |-> token]
    /\ connection \in [Tabs -> {token, None}]
    /\ profile = [t \in Tabs |-> None]
    /\ form = [t \in Tabs |-> FALSE]
    /\ requests = {}
    /\ due = [t \in Tabs |-> FALSE]
    /\ foreign = [t \in Tabs |-> FALSE]

-----------------------------------------------------------------------------
(* Navigation                                                               *)

\* Where the router ends when it is sent to p while k is stored: AuthGuardService
\* sends those who have no token to the login page, whose constructor sends those
\* who have one to the books.
Landing(p, k) ==
    CASE p = "Mine" /\ k = None -> "Login"
      [] p = "Login" /\ k # None -> "Books"
      [] OTHER -> p

\* LoginComponent.ngOnInit removes the token.  Whether it runs, when the constructor
\* has sent the user on, is up to the scheduling of the framework.
TokensLeft(p, k) == IF p = "Login" THEN {k, None} ELSE {k}

\* Tab t goes to p with k as the token and id as the publisher's id, while rs are
\* under way.  ProfileComponent.ngOnInit reads the id and fetches the user.
\* The answer to the fetch of a component that is gone nobody sees.
Navigate(t, p, k, id, rs) ==
    /\ page' = [page EXCEPT ![t] = Landing(p, k)]
    /\ token' \in TokensLeft(p, k)
    /\ publisherId' = id
    /\ profile' = [profile EXCEPT ![t] = IF p = "Profile" THEN id ELSE None]
    /\ form' = [form EXCEPT ![t] = FALSE]
    /\ requests' = {r \in rs : r.tab = t => r.kind # "getPublisher"} \cup
                       {r \in {[tab |-> t, kind |-> "getPublisher", user |-> id]} : p = "Profile"}
    /\ Cardinality(requests') <= MaxPending

\* What the others do not learn of; own is whether t itself missed something.
Observe(t, own) ==
    foreign' = [u \in Tabs |->
        IF u = t THEN own
        ELSE foreign[u] \/ <<token', publisherId'>> # storageVars]

\* Tab t is loaded at the url of p.  NavbarComponent.ngOnInit comes before the
\* router, and NotificationsService.subscribe makes the one attempt to connect;
\* the requests of the page that was there are abandoned.
Load(t, p) ==
    /\ navbar' = [navbar EXCEPT ![t] = token]
    /\ \E c \in {token, None} : connection' = [connection EXCEPT ![t] = c]
    /\ due' = [due EXCEPT ![t] = FALSE]
    /\ Navigate(t, p, token, publisherId, {r \in requests : r.tab # t})
    /\ Observe(t, FALSE)

\* The user opens a url or reloads the page, or window.location.reload takes effect,
\* on the url it was called on or on the one the router has set since.
Open(t) == \E p \in Pages : Load(t, p)

\* The links of the navigation bar, and that from the login page to the other.
Route(t, p) ==
    /\ p # page[t]
    /\ \/ p = "Books"
       \/ p \in {"Mine", "Profile"} /\ navbar[t] # None
       \/ p = "Login" /\ navbar[t] = None
       \/ p = "Register" /\ page[t] = "Login"
    /\ Navigate(t, p, token, publisherId, requests)
    /\ Observe(t, foreign[t])
    /\ UNCHANGED <<navbar, connection, due>>

\* NavbarComponent.logout: the id stays, and so does the connection.
Logout(t) ==
    /\ navbar[t] # None
    /\ navbar' = [navbar EXCEPT ![t] = None]
    /\ Navigate(t, "Login", None, publisherId, requests)
    /\ Observe(t, foreign[t])
    /\ UNCHANGED <<connection, due>>

-----------------------------------------------------------------------------
(* The forms                                                                *)

Send(t, kind, u) ==
    /\ requests' = requests \cup {[tab |-> t, kind |-> kind, user |-> u]}
    /\ Cardinality(requests') <= MaxPending
    /\ UNCHANGED <<storageVars, tabVars, foreign>>

\* LoginComponent.login.
SubmitLogin(t, u) == page[t] = "Login" /\ Send(t, "enter", u)

\* RegisterComponent.login.
SubmitRegistration(t, u) == page[t] = "Register" /\ Send(t, "enter", u)

\* ProfileComponent.editProfile.
EditProfile(t) == form[t] /\ Send(t, "editPublisher", profile[t])

\* ProfileComponent.changePassword.
ChangePassword(t) == form[t] /\ Send(t, "changePassword", profile[t])

-----------------------------------------------------------------------------
(* The answers                                                              *)

\* Variant of Enter: no reload.
EnterInPlace(r) ==
    /\ r.kind = "enter"
    /\ Navigate(r.tab, "Books", r.user, r.user, requests \ {r})
    /\ Observe(r.tab, foreign[r.tab])
    /\ UNCHANGED <<navbar, connection, due>>

\* Variant of Enter: the id is stored once and for all.
EnterKeepingId(r) ==
    /\ r.kind = "enter"
    /\ Navigate(r.tab, "Books", r.user, IF publisherId = None THEN r.user ELSE publisherId,
                requests \ {r})
    /\ due' = [due EXCEPT ![r.tab] = TRUE]
    /\ Observe(r.tab, foreign[r.tab])
    /\ UNCHANGED <<navbar, connection>>

\* The subscriptions of LoginComponent.login and RegisterComponent.login, wherever
\* the user is by now: id and token are stored, the home page shown and reloaded.
Enter(r) ==
    /\ r.kind = "enter"
    /\ Navigate(r.tab, "Books", r.user, r.user, requests \ {r})
    /\ due' = [due EXCEPT ![r.tab] = TRUE]
    /\ Observe(r.tab, foreign[r.tab])
    /\ UNCHANGED <<navbar, connection>>

\* ProfileComponent.fetchUser.
FetchedUser(r) ==
    /\ r.kind = "getPublisher"
    /\ r.user # None
    /\ form' = [form EXCEPT ![r.tab] = TRUE]
    /\ requests' = requests \ {r}
    /\ UNCHANGED <<storageVars, page, navbar, connection, profile, due, foreign>>

\* The subscription of ProfileComponent.editProfile.
ProfileEdited(r) ==
    /\ r.kind = "editPublisher"
    /\ Navigate(r.tab, "Books", token, publisherId, requests \ {r})
    /\ Observe(r.tab, foreign[r.tab])
    /\ UNCHANGED <<navbar, connection, due>>

\* Variant of PasswordChanged: the page is neither left nor reloaded.
PasswordChangedInPlace(r) ==
    /\ r.kind = "changePassword"
    /\ token' = None
    /\ publisherId' = None
    /\ requests' = requests \ {r}
    /\ Observe(r.tab, foreign[r.tab])
    /\ UNCHANGED tabVars

\* The subscription of ProfileComponent.changePassword: localStorage is cleared,
\* the reload called, and the router sent to the login page.
PasswordChanged(r) ==
    /\ r.kind = "changePassword"
    /\ due' = [due EXCEPT ![r.tab] = TRUE]
    /\ Navigate(r.tab, "Login", None, None, requests \ {r})
    /\ Observe(r.tab, foreign[r.tab])
    /\ UNCHANGED <<navbar, connection>>

\* A request is refused, or gets no answer: no component handles an error, and the
\* token stays, even if it is what was refused.
Failed(r) ==
    /\ requests' = requests \ {r}
    /\ UNCHANGED <<storageVars, tabVars, foreign>>

\* The hub connection is lost, and NotificationsHub takes it out of the group:
\* nobody makes another one.
Disconnect(t) ==
    /\ connection[t] # None
    /\ connection' = [connection EXCEPT ![t] = None]
    /\ UNCHANGED <<storageVars, page, navbar, profile, form, due, requests, foreign>>

Step(t) ==
    \/ Open(t)
    \/ \E p \in Pages : Route(t, p)
    \/ Logout(t)
    \/ \E u \in Users : SubmitLogin(t, u) \/ SubmitRegistration(t, u)
    \/ EditProfile(t)
    \/ ChangePassword(t)
    \/ Disconnect(t)

Answer(r) ==
    \/ Enter(r)
    \/ FetchedUser(r)
    \/ ProfileEdited(r)
    \/ PasswordChanged(r)
    \/ Failed(r)

Next == (\E t \in Tabs : Step(t)) \/ (\E r \in requests : Answer(r))

Spec == Init /\ [][Next]_vars

-----------------------------------------------------------------------------
(* Properties                                                               *)

\* Who has a token has the id that goes with it, whichever tabs have logged in,
\* logged out and changed passwords in whatever order: the profile page, which
\* takes the id from localStorage, is that of the user who is logged in.
TokenMeansId == token # None => publisherId = token

\* A tab that has missed nothing, with no reload to come, works for one user: the
\* one whose token its requests are sent with is the one its navigation bar was
\* made for, the one the hub knows its connection by, and the one whose profile
\* it shows.
OneUserPerTab ==
    \A t \in Tabs : (token # None /\ ~foreign[t] /\ ~due[t]) =>
        /\ navbar[t] = token
        /\ connection[t] \in {token, None}
        /\ page[t] = "Profile" => profile[t] = token

\* The answer to a change of password clears localStorage, even if it comes late:
\* in a tab that has missed nothing, with no reload to come, that is no other
\* user's session.
ClearsOwnSession ==
    \A r \in requests :
        (r.kind \in ProfileKinds /\ ~foreign[r.tab] /\ ~due[r.tab]) =>
            token \in {None, r.user}

\* Nobody stays on a page behind the guard without a token, unless another tab
\* took the token away: every way to lose it leads off the page.
GuardedMeansToken ==
    \A t \in Tabs : (page[t] = "Mine" /\ ~foreign[t]) => token # None
=============================================================================

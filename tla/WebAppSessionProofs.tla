------------------------ MODULE WebAppSessionProofs ------------------------
(***************************************************************************)
(* The invariants of WebAppSession, for any number of tabs, users and       *)
(* requests under way.                                                      *)
(***************************************************************************)
EXTENDS WebAppSession, TLAPS

\* The forms of the profile page, and the request that brings them, are only
\* there while the page is.
FormsOnProfile ==
    /\ \A t \in Tabs : form[t] => page[t] = "Profile"
    /\ \A r \in requests : r.kind = "getPublisher" => page[r.tab] = "Profile"

IInv ==
    /\ TypeOK
    /\ TokenMeansId
    /\ OneUserPerTab
    /\ ClearsOwnSession
    /\ GuardedMeansToken
    /\ FormsOnProfile

Invariants ==
    /\ TokenMeansId
    /\ OneUserPerTab
    /\ ClearsOwnSession
    /\ GuardedMeansToken
    /\ FormsOnProfile

LEMMA InitInvariant == Init => IInv
<1> SUFFICES ASSUME Init PROVE IInv
    OBVIOUS
<1>1. TypeOK
    BY UsersAssumption DEF Init, TypeOK, Pages
<1>2. Invariants
    BY DEF Init, Invariants, TokenMeansId, OneUserPerTab, ClearsOwnSession,
           GuardedMeansToken, FormsOnProfile
<1> QED
    BY <1>1, <1>2 DEF IInv, Invariants

\* What a navigation of tab t comes to: the token stays what it was to be, or is
\* removed; nobody lands behind the guard without one; a profile is that of the id;
\* the other tabs show what they showed.
LEMMA NavigateLands ==
    ASSUME TypeOK, NEW t \in Tabs, NEW p \in Pages, NEW k \in Users \cup {None},
           NEW id \in Users \cup {None}, NEW rs \in SUBSET requests, Navigate(t, p, k, id, rs)
    PROVE  /\ token' \in {k, None}
           /\ publisherId' = id
           /\ page' \in [Tabs -> Pages]
           /\ profile' \in [Tabs -> Users \cup {None}]
           /\ form' \in [Tabs -> BOOLEAN]
           /\ requests' \subseteq Requests
           /\ page'[t] = "Mine" => token' # None
           /\ page'[t] = "Profile" => profile'[t] = id
           /\ form'[t] = FALSE
           /\ \A q \in Tabs \ {t} :
                 page'[q] = page[q] /\ profile'[q] = profile[q] /\ form'[q] = form[q]
           /\ \A r \in requests' :
                 \/ r \in rs /\ (r.tab = t => r.kind # "getPublisher")
                 \/ r.tab = t /\ r.kind = "getPublisher" /\ page'[t] = "Profile"
<1>1. token' \in {k, None} /\ publisherId' = id
    BY DEF Navigate, TokensLeft
<1>2. page' = [page EXCEPT ![t] = Landing(p, k)] /\ Landing(p, k) \in Pages
    BY DEF Navigate, Landing, Pages
<1>3. page' \in [Tabs -> Pages] /\ page'[t] = Landing(p, k)
      /\ \A q \in Tabs \ {t} : page'[q] = page[q]
    BY <1>2 DEF TypeOK
<1>4. /\ profile' \in [Tabs -> Users \cup {None}]
      /\ profile'[t] = IF p = "Profile" THEN id ELSE None
      /\ \A q \in Tabs \ {t} : profile'[q] = profile[q]
    BY DEF Navigate, TypeOK
<1>5. /\ form' \in [Tabs -> BOOLEAN]
      /\ form'[t] = FALSE
      /\ \A q \in Tabs \ {t} : form'[q] = form[q]
    BY DEF Navigate, TypeOK
<1>6. page'[t] = "Mine" => token' # None
    BY <1>3 DEF Navigate, Landing, TokensLeft, Pages
<1>7. page'[t] = "Profile" <=> p = "Profile"
    BY <1>3 DEF Landing, Pages
<1>8. \A r \in requests' :
         \/ r \in rs /\ (r.tab = t => r.kind # "getPublisher")
         \/ /\ r = [tab |-> t, kind |-> "getPublisher", user |-> id]
            /\ p = "Profile"
    BY DEF Navigate
<1>9. requests' \subseteq Requests
    BY <1>8 DEF TypeOK, Requests, ProfileKinds
<1> QED
    BY <1>1, <1>3, <1>4, <1>5, <1>6, <1>7, <1>8, <1>9

\* Tab t navigates: it is enough to look at what t itself knows afterwards.  A tab
\* that did not notice a change of localStorage is foreign to it from then on.
LEMMA NavigationKeeps ==
    ASSUME IInv, NEW t \in Tabs, NEW p \in Pages, NEW k \in Users \cup {None},
           NEW id \in Users \cup {None}, NEW rs \in SUBSET requests, NEW own \in BOOLEAN,
           Navigate(t, p, k, id, rs), Observe(t, own),
           k # None => id = k,
           navbar' \in [Tabs -> Users \cup {None}],
           connection' \in [Tabs -> Users \cup {None}],
           due' \in [Tabs -> BOOLEAN],
           \A q \in Tabs \ {t} :
              navbar'[q] = navbar[q] /\ connection'[q] = connection[q] /\ due'[q] = due[q],
           (~own /\ ~due'[t]) =>
              /\ k # None => navbar'[t] = k /\ connection'[t] \in {k, None}
              /\ \A r \in rs : (r.tab = t /\ r.kind \in ProfileKinds) => k \in {None, r.user}
    PROVE  IInv'
<1>1. TypeOK /\ TokenMeansId /\ OneUserPerTab /\ ClearsOwnSession /\ GuardedMeansToken
      /\ FormsOnProfile
    BY DEF IInv
<1>2. /\ token' \in {k, None}
      /\ publisherId' = id
      /\ page' \in [Tabs -> Pages]
      /\ profile' \in [Tabs -> Users \cup {None}]
      /\ form' \in [Tabs -> BOOLEAN]
      /\ requests' \subseteq Requests
      /\ page'[t] = "Mine" => token' # None
      /\ page'[t] = "Profile" => profile'[t] = id
      /\ form'[t] = FALSE
      /\ \A q \in Tabs \ {t} :
            page'[q] = page[q] /\ profile'[q] = profile[q] /\ form'[q] = form[q]
      /\ \A r \in requests' :
            \/ r \in rs /\ (r.tab = t => r.kind # "getPublisher")
            \/ r.tab = t /\ r.kind = "getPublisher" /\ page'[t] = "Profile"
    BY <1>1, NavigateLands
<1>3. /\ foreign' \in [Tabs -> BOOLEAN]
      /\ foreign'[t] = own
      /\ \A q \in Tabs \ {t} : ~foreign'[q] =>
            ~foreign[q] /\ token' = token /\ publisherId' = publisherId
    BY <1>1 DEF Observe, storageVars, TypeOK
<1>4. TypeOK'
    BY <1>2, <1>3 DEF TypeOK
<1>5. TokenMeansId'
    BY <1>2 DEF TokenMeansId
<1>6. OneUserPerTab'
  <2> SUFFICES ASSUME NEW q \in Tabs, token' # None, ~foreign'[q], ~due'[q]
               PROVE  /\ navbar'[q] = token'
                      /\ connection'[q] \in {token', None}
                      /\ page'[q] = "Profile" => profile'[q] = token'
    BY DEF OneUserPerTab
  <2>1. CASE q = t
    BY <2>1, <1>2, <1>3
  <2>2. CASE q # t
    BY <2>2, <1>1, <1>2, <1>3 DEF OneUserPerTab
  <2> QED
    BY <2>1, <2>2
<1>7. ClearsOwnSession'
  <2> SUFFICES ASSUME NEW r \in requests', r.kind \in ProfileKinds, ~foreign'[r.tab],
                      ~due'[r.tab]
               PROVE  token' \in {None, r.user}
    BY DEF ClearsOwnSession
  <2>1. r \in rs /\ r \in requests
    BY <1>2 DEF ProfileKinds
  <2>2. r.tab \in Tabs
    BY <2>1, <1>1 DEF TypeOK, Requests
  <2>3. CASE r.tab = t
    BY <2>1, <2>3, <1>2, <1>3
  <2>4. CASE r.tab # t
    BY <2>1, <2>2, <2>4, <1>1, <1>3 DEF ClearsOwnSession
  <2> QED
    BY <2>3, <2>4
<1>8. GuardedMeansToken'
    BY <1>1, <1>2, <1>3 DEF GuardedMeansToken
<1>9. FormsOnProfile'
  <2>1. \A q \in Tabs : form'[q] => page'[q] = "Profile"
    BY <1>1, <1>2 DEF FormsOnProfile
  <2>2. ASSUME NEW r \in requests', r.kind = "getPublisher"
        PROVE  page'[r.tab] = "Profile"
    <3>1. r.tab \in Tabs
      BY <1>2 DEF Requests
    <3> QED
      BY <2>2, <3>1, <1>1, <1>2 DEF FormsOnProfile
  <2> QED
    BY <2>1, <2>2 DEF FormsOnProfile
<1> QED
    BY <1>4, <1>5, <1>6, <1>7, <1>8, <1>9 DEF IInv

LEMMA LoadKeeps ==
    ASSUME IInv, NEW t \in Tabs, NEW p \in Pages, Load(t, p) PROVE IInv'
<1> DEFINE rs == {r \in requests : r.tab # t}
<1>1. TypeOK /\ TokenMeansId
    BY DEF IInv
<1>2. PICK c \in {token, None} : connection' = [connection EXCEPT ![t] = c]
    BY DEF Load
<1>3. /\ navbar' \in [Tabs -> Users \cup {None}] /\ navbar'[t] = token
      /\ connection' \in [Tabs -> Users \cup {None}] /\ connection'[t] \in {token, None}
      /\ due' \in [Tabs -> BOOLEAN]
      /\ \A q \in Tabs \ {t} :
            navbar'[q] = navbar[q] /\ connection'[q] = connection[q] /\ due'[q] = due[q]
    BY <1>1, <1>2 DEF Load, TypeOK
<1>4. Navigate(t, p, token, publisherId, rs) /\ Observe(t, FALSE)
    BY DEF Load
<1>5. /\ token \in Users \cup {None} /\ publisherId \in Users \cup {None}
      /\ token # None => publisherId = token
    BY <1>1 DEF TypeOK, TokenMeansId
<1>6. rs \in SUBSET requests /\ \A r \in rs : r.tab # t
    OBVIOUS
<1> HIDE DEF rs
<1> QED
    BY <1>3, <1>4, <1>5, <1>6, NavigationKeeps

\* A link, a logout and the answers that navigate leave the tab's copies as they
\* were: only the token it takes along may differ.
LEMMA RouteKeeps ==
    ASSUME IInv, NEW t \in Tabs, NEW p \in Pages, NEW rs \in SUBSET requests,
           Navigate(t, p, token, publisherId, rs), Observe(t, foreign[t]),
           UNCHANGED <<navbar, connection, due>>
    PROVE  IInv'
<1>1. TypeOK /\ TokenMeansId /\ OneUserPerTab /\ ClearsOwnSession
    BY DEF IInv
<1>2. /\ navbar' \in [Tabs -> Users \cup {None}]
      /\ connection' \in [Tabs -> Users \cup {None}]
      /\ due' \in [Tabs -> BOOLEAN]
      /\ \A q \in Tabs \ {t} :
            navbar'[q] = navbar[q] /\ connection'[q] = connection[q] /\ due'[q] = due[q]
      /\ foreign[t] \in BOOLEAN
    BY <1>1 DEF TypeOK
<1>3. /\ token \in Users \cup {None} /\ publisherId \in Users \cup {None}
      /\ token # None => publisherId = token
    BY <1>1 DEF TypeOK, TokenMeansId
<1>4. (~foreign[t] /\ ~due'[t]) =>
         /\ token # None => navbar'[t] = token /\ connection'[t] \in {token, None}
         /\ \A r \in rs : (r.tab = t /\ r.kind \in ProfileKinds) => token \in {None, r.user}
    BY <1>1 DEF OneUserPerTab, ClearsOwnSession
<1> QED
    BY <1>2, <1>3, <1>4, NavigationKeeps

LEMMA LogoutKeeps ==
    ASSUME IInv, NEW t \in Tabs, Logout(t) PROVE IInv'
<1>1. TypeOK
    BY DEF IInv
<1>2. /\ navbar' \in [Tabs -> Users \cup {None}]
      /\ connection' \in [Tabs -> Users \cup {None}]
      /\ due' \in [Tabs -> BOOLEAN]
      /\ \A q \in Tabs \ {t} :
            navbar'[q] = navbar[q] /\ connection'[q] = connection[q] /\ due'[q] = due[q]
      /\ foreign[t] \in BOOLEAN /\ publisherId \in Users \cup {None}
    BY <1>1 DEF Logout, TypeOK
<1>3. Navigate(t, "Login", None, publisherId, requests) /\ Observe(t, foreign[t])
    BY DEF Logout
<1> QED
    BY <1>2, <1>3, NavigationKeeps DEF Pages

\* Both answers leave a reload due, until which nothing is claimed of the tab.
LEMMA ReloadingKeeps ==
    ASSUME IInv, NEW t \in Tabs, NEW p \in Pages, NEW k \in Users \cup {None},
           NEW rs \in SUBSET requests,
           Navigate(t, p, k, k, rs), Observe(t, foreign[t]),
           due' = [due EXCEPT ![t] = TRUE], UNCHANGED <<navbar, connection>>
    PROVE  IInv'
<1>1. TypeOK
    BY DEF IInv
<1>2. /\ navbar' \in [Tabs -> Users \cup {None}]
      /\ connection' \in [Tabs -> Users \cup {None}]
      /\ due' \in [Tabs -> BOOLEAN] /\ due'[t]
      /\ \A q \in Tabs \ {t} :
            navbar'[q] = navbar[q] /\ connection'[q] = connection[q] /\ due'[q] = due[q]
      /\ foreign[t] \in BOOLEAN
    BY <1>1 DEF TypeOK
<1> QED
    BY <1>2, NavigationKeeps

\* A request that the profile page sends is for the user it shows.
LEMMA SendKeeps ==
    ASSUME IInv, NEW t \in Tabs, NEW kind \in ProfileKinds \cup {"enter"},
           NEW u \in Users \cup {None}, Send(t, kind, u),
           kind \in ProfileKinds => form[t] /\ u = profile[t]
    PROVE  IInv'
<1>1. TypeOK /\ TokenMeansId /\ OneUserPerTab /\ ClearsOwnSession /\ GuardedMeansToken
      /\ FormsOnProfile
    BY DEF IInv
<1>2. UNCHANGED <<token, publisherId, page, navbar, connection, profile, form, due, foreign>>
    BY DEF Send, storageVars, tabVars
<1> DEFINE new == [tab |-> t, kind |-> kind, user |-> u]
<1>3. requests' = requests \cup {new} /\ new \in Requests
    BY DEF Send, Requests
<1>4. TypeOK' /\ TokenMeansId' /\ OneUserPerTab' /\ GuardedMeansToken'
    BY <1>1, <1>2, <1>3 DEF TypeOK, TokenMeansId, OneUserPerTab, GuardedMeansToken
<1>5. ClearsOwnSession'
  <2>1. (kind \in ProfileKinds /\ ~foreign[t] /\ ~due[t]) => token \in {None, u}
    BY <1>1 DEF FormsOnProfile, OneUserPerTab
  <2> QED
    BY <1>1, <1>2, <1>3, <2>1 DEF ClearsOwnSession
<1>6. FormsOnProfile'
    BY <1>1, <1>2, <1>3 DEF FormsOnProfile, ProfileKinds
<1> QED
    BY <1>4, <1>5, <1>6 DEF IInv

LEMMA FetchedUserKeeps ==
    ASSUME IInv, NEW r \in requests, FetchedUser(r) PROVE IInv'
<1>1. TypeOK /\ TokenMeansId /\ OneUserPerTab /\ ClearsOwnSession /\ GuardedMeansToken
      /\ FormsOnProfile
    BY DEF IInv
<1>2. /\ UNCHANGED <<token, publisherId, page, navbar, connection, profile, due, foreign>>
      /\ requests' = requests \ {r}
      /\ form' = [form EXCEPT ![r.tab] = TRUE]
      /\ page[r.tab] = "Profile"
    BY <1>1 DEF FetchedUser, storageVars, FormsOnProfile
<1>3. TypeOK' /\ TokenMeansId' /\ OneUserPerTab' /\ GuardedMeansToken'
    BY <1>1, <1>2 DEF TypeOK, TokenMeansId, OneUserPerTab, GuardedMeansToken
<1>4. ClearsOwnSession' /\ FormsOnProfile'
    BY <1>1, <1>2 DEF TypeOK, ClearsOwnSession, FormsOnProfile
<1> QED
    BY <1>3, <1>4 DEF IInv

LEMMA NextInvariant == IInv /\ [Next]_vars => IInv'
<1> SUFFICES ASSUME IInv, [Next]_vars PROVE IInv'
    OBVIOUS
<1>1. TypeOK /\ TokenMeansId /\ OneUserPerTab /\ ClearsOwnSession /\ GuardedMeansToken
      /\ FormsOnProfile
    BY DEF IInv
<1>2. ASSUME NEW t \in Tabs, Step(t) PROVE IInv'
  <2>1. CASE Open(t)
    BY <2>1, LoadKeeps DEF Open
  <2>2. CASE \E p \in Pages : Route(t, p)
    <3>1. PICK p \in Pages : Route(t, p)
      BY <2>2
    <3> QED
      BY <3>1, RouteKeeps DEF Route
  <2>3. CASE Logout(t)
    BY <2>3, LogoutKeeps
  <2>4. CASE \E u \in Users : SubmitLogin(t, u) \/ SubmitRegistration(t, u)
    BY <2>4, SendKeeps DEF SubmitLogin, SubmitRegistration, ProfileKinds
  <2>5. CASE EditProfile(t) \/ ChangePassword(t)
    <3>1. profile[t] \in Users \cup {None}
      BY <1>1 DEF TypeOK
    <3> QED
      BY <2>5, <3>1, SendKeeps DEF EditProfile, ChangePassword, ProfileKinds
  <2>6. CASE Disconnect(t)
    <3>1. /\ UNCHANGED <<token, publisherId, page, navbar, profile, form, due, requests, foreign>>
          /\ connection' = [connection EXCEPT ![t] = None]
      BY <2>6 DEF Disconnect, storageVars
    <3>2. TypeOK' /\ TokenMeansId' /\ GuardedMeansToken' /\ ClearsOwnSession' /\ FormsOnProfile'
      BY <1>1, <3>1
      DEF TypeOK, TokenMeansId, GuardedMeansToken, ClearsOwnSession, FormsOnProfile
    <3>3. OneUserPerTab'
      BY <1>1, <3>1 DEF TypeOK, OneUserPerTab
    <3> QED
      BY <3>2, <3>3 DEF IInv
  <2> QED
    BY <1>2, <2>1, <2>2, <2>3, <2>4, <2>5, <2>6 DEF Step
<1>3. ASSUME NEW r \in requests, Answer(r) PROVE IInv'
  <2>1. r.tab \in Tabs /\ r.user \in Users \cup {None}
    BY <1>1 DEF TypeOK, Requests
  <2>2. requests \ {r} \in SUBSET requests
    OBVIOUS
  <2>3. CASE Enter(r)
    BY <2>1, <2>2, <2>3, ReloadingKeeps DEF Enter, Pages
  <2>4. CASE FetchedUser(r)
    BY <2>4, FetchedUserKeeps
  <2>5. CASE ProfileEdited(r)
    BY <2>1, <2>2, <2>5, RouteKeeps DEF ProfileEdited, Pages
  <2>6. CASE PasswordChanged(r)
    BY <2>1, <2>2, <2>6, ReloadingKeeps DEF PasswordChanged, Pages
  <2>7. CASE Failed(r)
    <3>1. /\ UNCHANGED <<token, publisherId, page, navbar, connection, profile, form, due, foreign>>
          /\ requests' = requests \ {r}
      BY <2>7 DEF Failed, storageVars, tabVars
    <3>2. TypeOK' /\ TokenMeansId' /\ OneUserPerTab' /\ GuardedMeansToken'
      BY <1>1, <3>1 DEF TypeOK, TokenMeansId, OneUserPerTab, GuardedMeansToken
    <3>3. ClearsOwnSession' /\ FormsOnProfile'
      BY <1>1, <3>1 DEF ClearsOwnSession, FormsOnProfile
    <3> QED
      BY <3>2, <3>3 DEF IInv
  <2> QED
    BY <1>3, <2>3, <2>4, <2>5, <2>6, <2>7 DEF Answer
<1>4. CASE UNCHANGED vars
  <2>1. UNCHANGED <<token, publisherId, page, navbar, connection, profile, form, due,
                    requests, foreign>>
    BY <1>4 DEF vars, storageVars, tabVars
  <2>2. TypeOK' /\ TokenMeansId' /\ OneUserPerTab'
    BY <1>1, <2>1 DEF TypeOK, TokenMeansId, OneUserPerTab
  <2>3. GuardedMeansToken' /\ ClearsOwnSession' /\ FormsOnProfile'
    BY <1>1, <2>1 DEF GuardedMeansToken, ClearsOwnSession, FormsOnProfile
  <2> QED
    BY <2>2, <2>3 DEF IInv
<1> QED
    BY <1>2, <1>3, <1>4 DEF Next

\* All six parts hold in every state: each of the theorems below takes its own.
THEOREM Invariance == Spec => []IInv
<1> QED
    BY InitInvariant, NextInvariant, PTL DEF Spec

\* The types of the state.
THEOREM TypeCorrect == Spec => []TypeOK
<1>1. IInv => TypeOK
    BY DEF IInv
<1> QED
    BY <1>1, Invariance, PTL

\* The token and the id in localStorage belong to the same user.
THEOREM TokenHasItsId == Spec => []TokenMeansId
<1>1. IInv => TokenMeansId
    BY DEF IInv
<1> QED
    BY <1>1, Invariance, PTL

\* What a tab copied from localStorage is of the user whose token it sends, for any
\* number of tabs that log in, log out and change passwords.
THEOREM TabsWorkForOneUser == Spec => []OneUserPerTab
<1>1. IInv => OneUserPerTab
    BY DEF IInv
<1> QED
    BY <1>1, Invariance, PTL

\* The answer to a change of password does not end another user's session.
THEOREM PasswordClearsOwnSession == Spec => []ClearsOwnSession
<1>1. IInv => ClearsOwnSession
    BY DEF IInv
<1> QED
    BY <1>1, Invariance, PTL

\* A page behind the guard is shown to who has a token.
THEOREM GuardHolds == Spec => []GuardedMeansToken
<1>1. IInv => GuardedMeansToken
    BY DEF IInv
<1> QED
    BY <1>1, Invariance, PTL
=============================================================================

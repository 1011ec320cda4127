---------------------------- MODULE WebAppBooks ----------------------------
(***************************************************************************)
(* The pages of the Angular application that show and change book ads, in   *)
(* one tab of a publisher who is logged in: what their components ask of    *)
(* the Publishers service, what they do with the answers, and where they    *)
(* take the user.                                                           *)
(*                                                                          *)
(* A component subscribes to an answer and never unsubscribes: answers come *)
(* in any order, and also when the user has left the page.  What such an    *)
(* answer assigns belongs to a component that is gone, but what it does     *)
(* with the router it still does.  A navigation is one step: the modules of *)
(* all routes are part of the bundle, so nothing is fetched meanwhile.      *)
(*                                                                          *)
(* The service is abstracted to what it may do: accept a command or refuse  *)
(* it, and list whatever ads, for its read model lags behind and others     *)
(* write to it too (see BookAdReadModel); but a list that is not the        *)
(* publisher's own has no ad in it that is closed.                          *)
(***************************************************************************)
EXTENDS Naturals, Sequences, FiniteSets

CONSTANTS
    Books,        \* ads of this publisher
    None,         \* null, and the absence of an ad
    MaxPending,   \* bound: requests that await their answers
    MaxRequests   \* bound: requests sent since the application was loaded

ASSUME BooksAssumption ==
    /\ {None, "typed"} \cap Books = {}
    /\ None # "typed"
    /\ MaxPending \in Nat \ {0, 1}   \* a page begins with two
    /\ MaxRequests \in Nat \ {0, 1}

VARIABLES
    page,        \* the component the router shows
    book,        \* id in the route of View and Edit
    details,     \* View: book.  Edit: the ad its form was filled from, or
                 \* "typed" for a form that the user filled in by hand
    categories,  \* Home, Create and Edit: the categories have arrived
    list,        \* List and Mine: the answer that is shown
    category,    \* Search: a category is chosen, as of the last search
    params,      \* the url names a category
    popUp,       \* Mine: the pop-up that asks before an ad is deleted
    target,      \* Mine: id, the ad the pop-up is for
    requests,    \* requests sent and not answered
    sent,        \* how many were sent so far
    asked,       \* history: the ad the pop-up was last opened for
    overtaken,   \* history: an answer came before that of an earlier request
    failed,      \* history: a request of this page was answered by an error
    stray        \* history: a command of an earlier page took effect on this

componentVars == <<page, book, details, categories, list, category, params, popUp, target>>
historyVars == <<asked, overtaken, failed, stray>>

requestVars == <<requests, sent>>

vars == <<componentVars, requestVars, historyVars>>

Pages == {"Home", "List", "Mine", "Create", "View", "Edit"}

ListKinds == {"getBooks", "getUserBooks", "search"}
CommandKinds == {"createBook", "editBook", "deleteBook", "changeAvailability"}
OtherKinds == {"getBook", "viewBook", "getCategories", "getStatistics"}
Kinds == ListKinds \cup CommandKinds \cup OtherKinds

\* Of a list of everybody's ads, and of the publisher's own.
Paths == {"", "/mine"}

NoList == [shown |-> FALSE, path |-> "", category |-> FALSE, fresh |-> TRUE]

Requests ==
    [n : 1..MaxPending,   \* the how manieth of those under way
     live : BOOLEAN,      \* the component that awaits the answer is shown
     kind : Kinds,
     book : Books \cup {None},
     path : Paths,        \* whose ads a list is of
     category : BOOLEAN,  \* a category is chosen
     base : Books \cup {None, "typed"},  \* history: the ad that the user had in view
     done : BOOLEAN,      \* the service has done it
     fresh : BOOLEAN]     \* history: no command has taken effect since then

TypeOK ==
    /\ page \in Pages
    /\ book \in Books \cup {None}
    /\ details \in Books \cup {None, "typed"}
    /\ categories \in BOOLEAN
    /\ list \in [shown : BOOLEAN, path : Paths, category : BOOLEAN, fresh : BOOLEAN]
    /\ category \in BOOLEAN
    /\ params \in BOOLEAN
    /\ popUp \in {"open", "closing", "closed"}
    /\ target \in Books \cup {None}
    /\ requests \subseteq Requests
    /\ sent \in 0..MaxRequests
    /\ asked \in Books \cup {None}
    /\ overtaken \in BOOLEAN
    /\ failed \in BOOLEAN
    /\ stray \in BOOLEAN

-----------------------------------------------------------------------------
(* Requests (BooksService)                                                  *)

Request(kind) ==
    [n |-> 1, live |-> TRUE, kind |-> kind, book |-> None, path |-> "",
     category |-> FALSE, base |-> None, done |-> FALSE, fresh |-> TRUE]

GetBooks == Request("getBooks")
GetUserBooks == [Request("getUserBooks") EXCEPT !.path = "/mine"]
GetBook(b) == [Request("getBook") EXCEPT !.book = b]
ViewBook(b) == [Request("viewBook") EXCEPT !.book = b]
GetCategories == Request("getCategories")
GetStatistics == Request("getStatistics")

\* Variant of Search: the url is read before the router has changed it.
SearchEarly(p, chosen) ==
    [Request("search") EXCEPT !.path = IF page = "Mine" THEN "/mine" ELSE "",
                              !.category = chosen]

\* SearchComponent.getQueryUrl: the search is among the publisher's ads if the
\* url has "mine" in it, and a category that is not chosen is left out.
Search(p, chosen) ==
    [Request("search") EXCEPT !.path = IF p = "Mine" THEN "/mine" ELSE "",
                              !.category = chosen]

Ranked(rs) == {[r EXCEPT !.n = Cardinality({q \in rs : q.n <= r.n})] : r \in rs}

Without(r) == Ranked(requests \ {r})

Close(r) == requests' = Without(r) /\ sent' = sent

\* The requests of qs are sent, in this order, after those of rs.
Send(rs, qs) ==
    /\ Cardinality(rs) + Len(qs) <= MaxPending
    /\ sent + Len(qs) <= MaxRequests
    /\ sent' = sent + Len(qs)
    /\ requests' = rs \cup {[qs[i] EXCEPT !.n = Cardinality(rs) + i] : i \in DOMAIN qs}

\* Variant of InitialRequests: the search comes first.
InitialRequestsSearchFirst(p, b, chosen) ==
    CASE p = "List" -> <<Search(p, chosen), GetBooks>>
      [] p = "Mine" -> <<Search(p, chosen), GetUserBooks>>
      [] p = "View" -> <<GetBook(b), ViewBook(b)>>
      [] p = "Edit" -> <<GetCategories, GetBook(b)>>
      [] p = "Home" -> <<GetCategories, GetStatistics>>
      [] p = "Create" -> <<GetCategories>>

\* What the constructor and ngOnInit of a page ask for, in their order.  (The
\* categories that a search may choose from are left out.)
InitialRequests(p, b, chosen) ==
    CASE p = "List" -> <<GetBooks, Search(p, chosen)>>
      [] p = "Mine" -> <<GetUserBooks, Search(p, chosen)>>
      [] p = "View" -> <<GetBook(b), ViewBook(b)>>
      [] p = "Edit" -> <<GetCategories, GetBook(b)>>
      [] p = "Home" -> <<GetCategories, GetStatistics>>
      [] p = "Create" -> <<GetCategories>>

-----------------------------------------------------------------------------
(* Navigation                                                               *)

\* Variant of Leave: the answers go to whichever component is shown.
LeaveSubscribed(rs) == rs

\* What the answer to a read assigns to a component that is gone nobody sees.
Leave(rs) ==
    Ranked({[r EXCEPT !.live = FALSE] : r \in {q \in rs : q.kind \in CommandKinds}})

\* The router destroys the component it shows and creates another.
Show(p, b, chosen, rs) ==
    /\ page' = p
    /\ book' = b
    /\ details' = None
    /\ categories' = FALSE
    /\ list' = NoList
    /\ category' = chosen
    /\ params' = chosen
    /\ popUp' = "closed"
    /\ target' = None
    /\ overtaken' = FALSE
    /\ failed' = FALSE
    /\ stray' = FALSE
    /\ asked' = None
    /\ Send(Leave(rs), InitialRequests(p, b, chosen))

\* The application is loaded at some url.
Init ==
    /\ page \in Pages
    /\ book \in IF page \in {"View", "Edit"} THEN Books ELSE {None}
    /\ details = None
    /\ categories = FALSE
    /\ list = NoList
    /\ params \in IF page = "List" THEN BOOLEAN ELSE {FALSE}
    /\ category = params
    /\ popUp = "closed"
    /\ target = None
    /\ LET first == InitialRequests(page, book, params) IN
          /\ requests = {[first[i] EXCEPT !.n = i] : i \in DOMAIN first}
          /\ sent = Len(first)
    /\ asked = None
    /\ overtaken = FALSE
    /\ failed = FALSE
    /\ stray = FALSE

\* The links of the navigation bar, and the categories on the home page
\* (goToBooks), once they are shown.  The router ignores the url that is shown
\* already.
GoTo(p) ==
    /\ p \in {"Home", "List", "Mine", "Create"}
    /\ p # page
    /\ \E chosen \in IF page = "Home" /\ p = "List" /\ categories THEN BOOLEAN ELSE {FALSE} :
          Show(p, None, chosen, requests)

\* The links of the ads shown: to the details of an ad; on Mine only for those
\* shown as available, with one to edit it.
Follow(p, b) ==
    /\ page \in {"List", "Mine"}
    /\ popUp = "closed"
    /\ list.shown
    /\ p = "View" \/ (p = "Edit" /\ page = "Mine")
    /\ Show(p, b, FALSE, requests)

\* From the books of a category to all books: the component stays, and the
\* subscription to the parameters of the route searches again.
DropCategory ==
    /\ page = "List"
    /\ params
    /\ params' = FALSE
    /\ category' = FALSE
    /\ Send(requests, <<Search(page, FALSE)>>)
    /\ UNCHANGED <<page, book, details, categories, list, popUp, target,
                   historyVars>>

-----------------------------------------------------------------------------
(* What the user does on a page                                             *)

\* SearchComponent.search, on List and on Mine.
SubmitSearch(chosen) ==
    /\ page \in {"List", "Mine"}
    /\ popUp = "closed"
    /\ category' = chosen
    /\ Send(requests, <<Search(page, chosen)>>)
    /\ UNCHANGED <<page, book, details, categories, list, params, popUp, target,
                   historyVars>>

\* Variant of OpenModal: the id of a pop-up that was not cancelled is kept.
OpenModalKeepingId(b) ==
    /\ page = "Mine"
    /\ popUp = "closed"
    /\ list.shown
    /\ popUp' = "open"
    /\ target' = IF target = None THEN b ELSE target
    /\ asked' = b
    /\ UNCHANGED <<page, book, details, categories, list, category, params, requestVars,
                   overtaken, failed, stray>>

\* PublisherBooksComponent.openModal.
OpenModal(b) ==
    /\ page = "Mine"
    /\ popUp = "closed"
    /\ list.shown
    /\ popUp' = "open"
    /\ target' = b
    /\ asked' = b
    /\ UNCHANGED <<page, book, details, categories, list, category, params, requestVars,
                   overtaken, failed, stray>>

\* PublisherBooksComponent.cancelModal.
CancelModal ==
    /\ popUp = "open"
    /\ popUp' = "closing"
    /\ target' = None
    /\ UNCHANGED <<page, book, details, categories, list, category, params, requestVars,
                   historyVars>>

\* The pop-up takes a quarter of a second to close, in which it takes clicks.
Fade ==
    /\ popUp = "closing"
    /\ popUp' = "closed"
    /\ UNCHANGED <<page, book, details, categories, list, category, params, target,
                   requestVars, historyVars>>

\* PublisherBooksComponent.deleteBook, at the click.
DeleteBook ==
    /\ popUp # "closed"
    /\ Send(requests, <<[Request("deleteBook") EXCEPT !.book = target, !.base = asked]>>)
    /\ UNCHANGED <<componentVars, historyVars>>

\* PublisherBooksComponent.changeAvailability: a closed ad has a button to show
\* it, an open one a button to hide it.
ChangeAvailability(b) ==
    /\ page = "Mine"
    /\ popUp = "closed"
    /\ list.shown
    /\ Send(requests, <<[Request("changeAvailability") EXCEPT !.book = b]>>)
    /\ UNCHANGED <<componentVars, historyVars>>

\* CreateComponent.create: the form is not valid without a category.
CreateBook ==
    /\ page = "Create"
    /\ categories
    /\ Send(requests, <<Request("createBook")>>)
    /\ UNCHANGED <<componentVars, historyVars>>

\* The user types into a form that is empty: the answer is late, or was an error.
FillForm ==
    /\ page = "Edit"
    /\ details = None
    /\ details' = "typed"
    /\ UNCHANGED <<page, book, categories, list, category, params, popUp, target,
                   requestVars, historyVars>>

\* EditComponent.edit: the button is enabled when the form is valid.
EditBook ==
    /\ page = "Edit"
    /\ details # None
    /\ Send(requests, <<[Request("editBook") EXCEPT !.book = book, !.base = details]>>)
    /\ UNCHANGED <<componentVars, historyVars>>

-----------------------------------------------------------------------------
(* The service                                                              *)

\* BookAdsController.Search and Mine read the rows.
ServeList(r) ==
    /\ r \in requests
    /\ ~r.done
    /\ r.kind \in ListKinds
    /\ requests' = (requests \ {r}) \cup {[r EXCEPT !.done = TRUE]}
    /\ UNCHANGED <<componentVars, sent, historyVars>>

\* BookAdsController.Create, Edit, Delete and ChangeAvailability append an event.
\* What was read before does not show it.
ServeCommand(r) ==
    /\ r \in requests
    /\ ~r.done
    /\ r.kind \in CommandKinds
    /\ requests' =
          {IF q.done /\ q.kind \in ListKinds THEN [q EXCEPT !.fresh = FALSE] ELSE q :
              q \in requests \ {r}} \cup {[r EXCEPT !.done = TRUE]}
    /\ list' = IF list.shown THEN [list EXCEPT !.fresh = FALSE] ELSE list
    /\ stray' = (stray \/ ~r.live)
    /\ UNCHANGED <<page, book, details, categories, category, params, popUp, target,
                   sent, asked, overtaken, failed>>

-----------------------------------------------------------------------------
(* The answers                                                              *)

\* What OtherKinds find, and change, does not depend on when they are served.
Received(r, kinds) == r \in requests /\ r.kind \in kinds /\ (r.done \/ r.kind \in OtherKinds)

\* The service refuses, or the connection fails, before or after the request
\* was done.  Whatever ErrorInterceptorService does with the body, the observable
\* ends in an error, and no component handles one.
AnswerError(r) ==
    /\ r \in requests
    /\ Close(r)
    /\ failed' = (failed \/ r.live)
    /\ UNCHANGED <<componentVars, asked, overtaken, stray>>

\* Nothing awaits the answer to ViewComponent's viewBook, nothing depends on the
\* statistics that HomeComponent shows, and nobody sees what PublisherBooksComponent
\* does when it is gone.
AnswerUnseen(r) ==
    /\ \/ Received(r, {"viewBook", "getStatistics"})
       \/ Received(r, {"deleteBook", "changeAvailability"}) /\ ~r.live
    /\ Close(r)
    /\ UNCHANGED <<componentVars, historyVars>>

\* fetchBooks of ListComponent and PublisherBooksComponent, and assignBooks, to
\* which SearchComponent emits: the last answer that comes is shown.
AssignBooks(r) ==
    /\ Received(r, ListKinds)
    /\ r.live
    /\ list' = [shown |-> TRUE, path |-> r.path, category |-> r.category, fresh |-> r.fresh]
    /\ overtaken' = (overtaken \/ \E q \in requests :
                        q.live /\ q.kind \in ListKinds /\ q.n < r.n)
    /\ Close(r)
    /\ UNCHANGED <<page, book, details, categories, category, params, popUp, target,
                   asked, failed, stray>>

\* Variant of AssignBook: mapDropDownData comes first, and throws without the
\* categories.
AssignBookMapped(r) ==
    /\ Received(r, {"getBook"})
    /\ r.live
    /\ details' = IF page = "Edit" /\ ~categories THEN details ELSE r.book
    /\ Close(r)
    /\ UNCHANGED <<page, book, categories, list, category, params, popUp, target,
                   historyVars>>

\* ViewComponent shows the book; EditComponent.fetchBook fills a new form with
\* it, in place of what was typed.  mapDropDownData comes after that: without
\* the categories it throws, and the category is in the form already.
AssignBook(r) ==
    /\ Received(r, {"getBook"})
    /\ r.live
    /\ details' = r.book
    /\ Close(r)
    /\ UNCHANGED <<page, book, categories, list, category, params, popUp, target,
                   historyVars>>

\* The categories of HomeComponent and CreateComponent, and fetchCategories of
\* EditComponent, whose ngOnInit awaits the call, not this answer.
AssignCategories(r) ==
    /\ Received(r, {"getCategories"})
    /\ r.live
    /\ categories' = TRUE
    /\ Close(r)
    /\ UNCHANGED <<page, book, details, list, category, params, popUp, target,
                   historyVars>>

\* CreateComponent.create goes to Mine, wherever the user is by now.
Created(r) ==
    /\ Received(r, {"createBook"})
    /\ \/ /\ page # "Mine"
          /\ Show("Mine", None, FALSE, Without(r))
       \/ /\ page = "Mine"
          /\ Close(r)
          /\ UNCHANGED <<componentVars, historyVars>>

\* EditComponent.edit goes to List, which drops the parameters of the url.
Edited(r) ==
    /\ Received(r, {"editBook"})
    /\ \/ /\ page # "List"
          /\ Show("List", None, FALSE, Without(r))
       \/ /\ page = "List"
          /\ params' = FALSE
          /\ category' = IF params THEN FALSE ELSE category
          /\ Send(Without(r), IF params THEN <<Search(page, FALSE)>> ELSE <<>>)
          /\ UNCHANGED <<page, book, details, categories, list, popUp, target, historyVars>>

\* Variant of Commanded: the list is only read again after a deletion.
CommandedQuietly(r) ==
    /\ Received(r, {"deleteBook", "changeAvailability"})
    /\ r.live
    /\ popUp' = IF r.kind = "deleteBook" /\ popUp = "open" THEN "closing" ELSE popUp
    /\ Send(Without(r), IF r.kind = "deleteBook" THEN <<GetUserBooks>> ELSE <<>>)
    /\ UNCHANGED <<page, book, details, categories, list, category, params, target,
                   historyVars>>

\* The answers PublisherBooksComponent waits for before it fetches the books
\* again; that of a deletion closes the pop-up, whichever ad it is open for, and
\* leaves the id.  (A component that is gone fetches too, for nobody to see.)
Commanded(r) ==
    /\ Received(r, {"deleteBook", "changeAvailability"})
    /\ r.live
    /\ popUp' = IF r.kind = "deleteBook" /\ popUp = "open" THEN "closing" ELSE popUp
    /\ Send(Without(r), <<GetUserBooks>>)
    /\ UNCHANGED <<page, book, details, categories, list, category, params, target,
                   historyVars>>

Navigate ==
    \/ \E p \in Pages : GoTo(p)
    \/ \E p \in Pages, b \in Books : Follow(p, b)
    \/ DropCategory

Act ==
    \/ \E chosen \in BOOLEAN : SubmitSearch(chosen)
    \/ \E b \in Books : OpenModal(b) \/ ChangeAvailability(b)
    \/ CancelModal
    \/ Fade
    \/ DeleteBook
    \/ CreateBook
    \/ FillForm
    \/ EditBook

Serve == \E r \in requests : ServeList(r) \/ ServeCommand(r)

Answer ==
    \E r \in requests :
        \/ AnswerError(r)
        \/ AnswerUnseen(r)
        \/ AssignBooks(r)
        \/ AssignBook(r)
        \/ AssignCategories(r)
        \/ Created(r)
        \/ Edited(r)
        \/ Commanded(r)

Next ==
    \/ Navigate
    \/ Act
    \/ Serve
    \/ Answer

Spec == Init /\ [][Next]_vars

-----------------------------------------------------------------------------
(* Properties                                                               *)

Awaiting(kinds) == \E r \in requests : r.live /\ r.kind \in kinds

\* An edit never writes the data of one ad into another: what EditComponent
\* sends for an ad was filled in from that ad, or by hand, whichever answers are
\* still under way from the pages before.
EditSavesItsBook ==
    \A r \in requests : r.kind = "editBook" => r.base \in {r.book, "typed"}

\* The form of EditComponent is the ad's when its answer has come, whatever the
\* order of the two answers, though mapCategory throws in one of them.
FormGetsItsBook ==
    (page = "Edit" /\ ~Awaiting({"getBook"}) /\ ~failed) => details = book

\* Everybody's list never shows an ad that its publisher had closed when it was
\* read, whatever was asked for on Mine just before.
ListHidesClosedAds == page = "List" => list.path = ""

\* When no answer came out of order, and none was an error, List ends with what
\* the last search asked for: the first fetchBooks does not win.
ListAnswersLastSearch ==
    (page = "List" /\ ~Awaiting(ListKinds) /\ ~overtaken /\ ~failed)
        => list.category = category

\* When no answer came out of order, and none was an error, what is shown was
\* read after every command of the user had taken effect.  Only a command that
\* was under way when the user left its page can be missed.
ListReadAfterCommands ==
    (/\ page \in {"List", "Mine"}
     /\ ~Awaiting(ListKinds \cup CommandKinds)
     /\ ~overtaken /\ ~failed /\ ~stray) => list.fresh

\* A deletion is only asked of the service for the ad that the user was asked
\* about, or for none: the pop-up may be closed by the answer to another
\* deletion, be clicked twice, or be clicked while it closes.
DeletesWhatWasAsked ==
    \A r \in requests : r.kind = "deleteBook" => r.book \in {r.base, None}
=============================================================================

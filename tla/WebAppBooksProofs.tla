------------------------- MODULE WebAppBooksProofs -------------------------
(***************************************************************************)
(* For any number of ads and of requests: what is deleted, saved and shown  *)
(* by the pages of WebAppBooks, what list they end with, and the types of   *)
(* their state.                                                             *)
(***************************************************************************)
EXTENDS WebAppBooks, FiniteSetTheorems, TLAPS

\* What the properties tell two requests apart by.
Same(r, q) ==
    /\ r.live = q.live
    /\ r.kind = q.kind
    /\ r.book = q.book
    /\ r.path = q.path
    /\ r.base = q.base

\* A set of requests that does not exceed the bound.
Bounded(rs) ==
    /\ rs \subseteq Requests
    /\ IsFiniteSet(rs)
    /\ Cardinality(rs) <= MaxPending

\* Each request of rs is, but for its rank and progress, one of qs.
Among(rs, qs) == \A r \in rs : \E q \in qs : Same(r, q)

\* A request before it has its rank.
Drafts ==
    [n : {1}, live : {TRUE}, kind : Kinds, book : Books \cup {None}, path : Paths,
     category : BOOLEAN, base : Books \cup {None, "typed"}, done : BOOLEAN, fresh : BOOLEAN]

-----------------------------------------------------------------------------
(* Requests                                                                 *)

\* An image of a finite set is finite.
LEMMA ImageIsFinite ==
    ASSUME NEW S, IsFiniteSet(S), NEW T, NEW f \in [S -> T], T = {f[x] : x \in S}
    PROVE  IsFiniteSet(T) /\ Cardinality(T) <= Cardinality(S)
<1>1. f \in Surjection(S, T)
    BY DEF Surjection
<1> QED
    BY <1>1, FS_Surjection

\* Sending a draft gives it a rank.
LEMMA DraftRanked ==
    ASSUME NEW q \in Drafts, NEW k \in 1..MaxPending
    PROVE  [q EXCEPT !.n = k] \in Requests /\ Same([q EXCEPT !.n = k], q)
BY DEF Drafts, Requests, Same

\* Ranking keeps the requests, and their number.
LEMMA RankedFacts ==
    ASSUME NEW rs, Bounded(rs)
    PROVE  /\ Bounded(Ranked(rs))
           /\ Cardinality(Ranked(rs)) <= Cardinality(rs)
           /\ Among(Ranked(rs), rs)
           /\ Among(rs, Ranked(rs))
<1> DEFINE rank(r) == Cardinality({q \in rs : q.n <= r.n})
           ranked(r) == [r EXCEPT !.n = rank(r)]
           f == [r \in rs |-> ranked(r)]
<1>1. /\ rs \subseteq Requests /\ IsFiniteSet(rs) /\ Cardinality(rs) <= MaxPending
      /\ Cardinality(rs) \in Nat /\ MaxPending \in Nat
    BY BooksAssumption, FS_CardinalityType DEF Bounded
<1>2. ASSUME NEW r \in rs PROVE rank(r) \in 1..MaxPending
  <2> DEFINE below == {q \in rs : q.n <= r.n}
  <2>1. r \in below
    BY <1>1 DEF Requests
  <2>2. IsFiniteSet(below) /\ Cardinality(below) <= Cardinality(rs)
    BY <1>1, FS_Subset
  <2>3. Cardinality(below) \in Nat /\ Cardinality(below) # 0
    BY <2>1, <2>2, FS_CardinalityType, FS_EmptySet
  <2> QED
    BY <1>1, <2>2, <2>3
<1> HIDE DEF rank
<1>3. ASSUME NEW r \in rs PROVE ranked(r) \in Requests /\ Same(ranked(r), r) /\ Same(r, ranked(r))
    BY <1>1, <1>2, <1>3 DEF Requests, Same
<1>4. Ranked(rs) = {f[r] : r \in rs} /\ f \in [rs -> Ranked(rs)]
    BY DEF Ranked, rank
<1>5. IsFiniteSet(Ranked(rs)) /\ Cardinality(Ranked(rs)) <= Cardinality(rs)
    BY <1>1, <1>4, ImageIsFinite
<1>6. Cardinality(Ranked(rs)) \in Nat
    BY <1>5, FS_CardinalityType
<1>7. Ranked(rs) \subseteq Requests /\ Among(Ranked(rs), rs) /\ Among(rs, Ranked(rs))
    BY <1>3, <1>4 DEF Among
<1> QED
    BY <1>1, <1>5, <1>6, <1>7 DEF Bounded

\* An answer takes its request away, and nothing else.
LEMMA WithoutFacts ==
    ASSUME Bounded(requests), NEW r \in requests
    PROVE  /\ Bounded(Without(r))
           /\ Among(Without(r), requests \ {r})
           /\ Among(requests \ {r}, Without(r))
<1>1. Bounded(requests \ {r})
  <2>1. IsFiniteSet(requests \ {r}) /\ Cardinality(requests \ {r}) <= Cardinality(requests)
    BY FS_Subset DEF Bounded
  <2>2. Cardinality(requests) \in Nat /\ Cardinality(requests \ {r}) \in Nat
    BY <2>1, FS_CardinalityType DEF Bounded
  <2> QED
    BY <2>1, <2>2, BooksAssumption DEF Bounded
<1> QED
    BY <1>1, RankedFacts DEF Without

\* What is left when the user leaves a page is commands that nobody awaits.
LEMMA LeaveFacts ==
    ASSUME NEW rs, Bounded(rs)
    PROVE  /\ Bounded(Leave(rs))
           /\ \A r \in Leave(rs) : \E q \in rs :
                 /\ r.kind = q.kind /\ r.book = q.book /\ r.base = q.base
                 /\ q.kind \in CommandKinds /\ r.live = FALSE
<1> DEFINE S == {q \in rs : q.kind \in CommandKinds}
           f == [q \in S |-> [q EXCEPT !.live = FALSE]]
           T == {f[q] : q \in S}
<1>1. IsFiniteSet(S) /\ Cardinality(S) <= Cardinality(rs) /\ S \subseteq Requests
    BY FS_Subset DEF Bounded
<1>2. IsFiniteSet(T) /\ Cardinality(T) <= Cardinality(S)
    BY <1>1, ImageIsFinite
<1>3. Cardinality(T) <= MaxPending
    BY <1>1, <1>2, FS_CardinalityType, BooksAssumption DEF Bounded
<1>4. \A q \in S : /\ f[q] \in Requests /\ f[q].kind = q.kind /\ f[q].book = q.book
                   /\ f[q].base = q.base /\ f[q].live = FALSE
    BY <1>1 DEF Requests
<1>5. Bounded(T)
    BY <1>2, <1>3, <1>4 DEF Bounded
<1>6. Leave(rs) = Ranked(T)
    BY DEF Leave
<1>7. Bounded(Leave(rs)) /\ Among(Leave(rs), T)
    BY <1>5, <1>6, RankedFacts
<1>8. ASSUME NEW r \in Leave(rs)
      PROVE  \E q \in rs : /\ r.kind = q.kind /\ r.book = q.book /\ r.base = q.base
                           /\ q.kind \in CommandKinds /\ r.live = FALSE
  <2>1. PICK x \in T : Same(r, x)
    BY <1>7, <1>8 DEF Among
  <2>2. PICK q \in S : x = f[q]
    BY <2>1
  <2> QED
    BY <1>4, <2>1, <2>2 DEF Same
<1> QED
    BY <1>7, <1>8

\* What is sent comes on top of what is under way.
LEMMA SendFacts ==
    ASSUME NEW rs, Bounded(rs), NEW qs \in Seq(Drafts), Send(rs, qs), sent \in 0..MaxRequests
    PROVE  /\ Bounded(requests')
           /\ sent' \in 0..MaxRequests
           /\ rs \subseteq requests'
           /\ \A r \in requests' : r \in rs \/ \E i \in 1..Len(qs) : Same(r, qs[i])
           /\ \A i \in 1..Len(qs) : \E r \in requests' : Same(r, qs[i])
<1> DEFINE c == Cardinality(rs)
           f == [i \in 1..Len(qs) |-> [qs[i] EXCEPT !.n = c + i]]
           new == {f[i] : i \in 1..Len(qs)}
<1>1. c \in Nat /\ Len(qs) \in Nat /\ DOMAIN qs = 1..Len(qs) /\ MaxPending \in Nat
      /\ MaxRequests \in Nat
    BY FS_CardinalityType, BooksAssumption DEF Bounded
<1>2. c + Len(qs) <= MaxPending /\ sent' \in 0..MaxRequests
    BY <1>1 DEF Send
<1>3. requests' = rs \cup new
    BY <1>1 DEF Send
<1> HIDE DEF c
<1>4. ASSUME NEW i \in 1..Len(qs) PROVE f[i] \in Requests /\ Same(f[i], qs[i])
  <2>1. qs[i] \in Drafts /\ c + i \in 1..MaxPending
    BY <1>1, <1>2
  <2> QED
    BY <2>1, DraftRanked
<1>5. IsFiniteSet(new) /\ Cardinality(new) <= Len(qs)
  <2>1. IsFiniteSet(1..Len(qs)) /\ Cardinality(1..Len(qs)) = Len(qs)
    BY <1>1, FS_Interval
  <2>2. f \in [1..Len(qs) -> new]
    OBVIOUS
  <2> HIDE DEF f
  <2> QED
    BY <2>1, <2>2, ImageIsFinite
<1>6. /\ IsFiniteSet(rs \cup new)
      /\ Cardinality(rs \cup new) <= c + Len(qs)
  <2> HIDE DEF new
  <2>1. IsFiniteSet(rs)
    BY DEF Bounded
  <2>2. IsFiniteSet(rs \cap new) /\ Cardinality(rs \cap new) \in Nat
    BY <2>1, FS_Intersection, FS_CardinalityType
  <2>3. /\ IsFiniteSet(rs \cup new)
        /\ Cardinality(rs \cup new) = c + Cardinality(new) - Cardinality(rs \cap new)
    BY <1>5, <2>1, FS_Union DEF c
  <2> QED
    BY <1>1, <1>5, <2>2, <2>3, FS_CardinalityType
<1>7. Cardinality(rs \cup new) <= MaxPending
    BY <1>1, <1>2, <1>6, FS_CardinalityType
<1> QED
    BY <1>2, <1>3, <1>4, <1>6, <1>7 DEF Bounded

-----------------------------------------------------------------------------
(* The inductive invariant                                                  *)

\* A request is fit for the page that is shown, if that awaits it; a command is
\* fit whatever is shown.
Fits(r) ==
    /\ r.kind = "editBook" => r.base \in {r.book, "typed"}
    /\ r.kind = "deleteBook" => r.book \in {r.base, None}
    /\ (r.live /\ r.kind = "getBook") => page \in {"View", "Edit"} /\ r.book = book
    /\ (r.live /\ r.kind \in ListKinds /\ page = "List") => r.path = ""
    /\ (r.live /\ r.kind \in {"deleteBook", "changeAvailability"}) => page = "Mine"

RequestsFit == \A r \in requests : Fits(r)

\* What the page has in its fields comes from requests that were fit for it.
PageFits ==
    /\ page \in {"View", "Edit"} => book \in Books
    /\ page = "Edit" => details \in {None, book, "typed"}
    /\ FormGetsItsBook
    /\ ListHidesClosedAds
    /\ target \in {None, asked}
    /\ popUp # "closed" => page = "Mine"

IInv ==
    /\ TypeOK
    /\ Bounded(requests)
    /\ RequestsFit
    /\ PageFits

\* What a page p, for an ad b, asks for before the user does anything.
Opening(r, p, b) ==
    /\ r \in Drafts
    /\ r.live
    /\ r.kind \notin CommandKinds
    /\ r.kind = "getBook" => p \in {"View", "Edit"} /\ r.book = b
    /\ (r.kind \in ListKinds /\ p = "List") => r.path = ""

LEMMA InitialRequestsFacts ==
    ASSUME NEW p \in Pages, NEW b \in IF p \in {"View", "Edit"} THEN Books ELSE {None},
           NEW chosen \in BOOLEAN
    PROVE  \/ \E x : InitialRequests(p, b, chosen) = <<x>> /\ Opening(x, p, b) /\ p # "Edit"
           \/ \E x, y : /\ InitialRequests(p, b, chosen) = <<x, y>>
                        /\ Opening(x, p, b) /\ Opening(y, p, b)
                        /\ p = "Edit" => y.kind = "getBook"
<1> DEFINE IsDraft(r) == r \in Drafts /\ r.live /\ r.kind \notin CommandKinds
<1> USE DEF Request, Drafts, Paths, Kinds, ListKinds, CommandKinds, OtherKinds
<1>1. IsDraft(GetBooks) /\ GetBooks.kind = "getBooks" /\ GetBooks.path = ""
    BY DEF GetBooks
<1>2. IsDraft(GetUserBooks) /\ GetUserBooks.kind = "getUserBooks"
    BY DEF GetUserBooks
<1>3. /\ IsDraft(Search(p, chosen)) /\ Search(p, chosen).kind = "search"
      /\ p = "List" => Search(p, chosen).path = ""
    BY DEF Search
<1>4. IsDraft(GetBook(b)) /\ GetBook(b).kind = "getBook" /\ GetBook(b).book = b
    BY DEF GetBook, Pages
<1>5. IsDraft(ViewBook(b)) /\ ViewBook(b).kind = "viewBook"
    BY DEF ViewBook, Pages
<1>6. /\ IsDraft(GetCategories) /\ GetCategories.kind = "getCategories"
      /\ IsDraft(GetStatistics) /\ GetStatistics.kind = "getStatistics"
    BY DEF GetCategories, GetStatistics
<1> HIDE DEF Request, Drafts, Paths, Kinds
<1>7. CASE p = "List"
  <2>1. InitialRequests(p, b, chosen) = <<GetBooks, Search(p, chosen)>>
    BY <1>7 DEF InitialRequests
  <2>2. Opening(GetBooks, p, b) /\ Opening(Search(p, chosen), p, b)
    BY <1>1, <1>2, <1>3, <1>4, <1>5, <1>6, <1>7 DEF Opening
  <2> QED
    BY <2>1, <2>2, <1>4, <1>7
<1>8. CASE p = "Mine"
  <2>1. InitialRequests(p, b, chosen) = <<GetUserBooks, Search(p, chosen)>>
    BY <1>8 DEF InitialRequests
  <2>2. Opening(GetUserBooks, p, b) /\ Opening(Search(p, chosen), p, b)
    BY <1>1, <1>2, <1>3, <1>4, <1>5, <1>6, <1>8 DEF Opening
  <2> QED
    BY <2>1, <2>2, <1>4, <1>8
<1>9. CASE p = "View"
  <2>1. InitialRequests(p, b, chosen) = <<GetBook(b), ViewBook(b)>>
    BY <1>9 DEF InitialRequests
  <2>2. Opening(GetBook(b), p, b) /\ Opening(ViewBook(b), p, b)
    BY <1>1, <1>2, <1>3, <1>4, <1>5, <1>6, <1>9 DEF Opening
  <2> QED
    BY <2>1, <2>2, <1>4, <1>9
<1>10. CASE p = "Edit"
  <2>1. InitialRequests(p, b, chosen) = <<GetCategories, GetBook(b)>>
    BY <1>10 DEF InitialRequests
  <2>2. Opening(GetCategories, p, b) /\ Opening(GetBook(b), p, b)
    BY <1>1, <1>2, <1>3, <1>4, <1>5, <1>6, <1>10 DEF Opening
  <2> QED
    BY <2>1, <2>2, <1>4, <1>10
<1>11. CASE p = "Home"
  <2>1. InitialRequests(p, b, chosen) = <<GetCategories, GetStatistics>>
    BY <1>11 DEF InitialRequests
  <2>2. Opening(GetCategories, p, b) /\ Opening(GetStatistics, p, b)
    BY <1>6, <1>11 DEF Opening
  <2> QED
    BY <2>1, <2>2, <1>11
<1>12. CASE p = "Create"
  <2>1. InitialRequests(p, b, chosen) = <<GetCategories>>
    BY <1>12 DEF InitialRequests
  <2>2. Opening(GetCategories, p, b)
    BY <1>6, <1>12 DEF Opening
  <2> QED
    BY <2>1, <2>2, <1>12
<1> QED
    BY <1>7, <1>8, <1>9, <1>10, <1>11, <1>12 DEF Pages

\* A request that differs from a fit one in rank and progress only is fit.
LEMMA SameFits ==
    ASSUME NEW r, NEW q, Same(r, q), Fits(q) PROVE Fits(r)
BY DEF Same, Fits

\* A page that is shown anew is fit for any commands that are under way.
LEMMA ShowKeeps ==
    ASSUME IInv, NEW p \in Pages, NEW b \in IF p \in {"View", "Edit"} THEN Books ELSE {None},
           NEW chosen \in BOOLEAN, NEW rs, Bounded(rs), Among(rs, requests),
           Show(p, b, chosen, rs)
    PROVE  IInv'
<1> DEFINE qs == InitialRequests(p, b, chosen)
<1>1. TypeOK /\ RequestsFit
    BY DEF IInv
<1>2. Bounded(Leave(rs))
    BY LeaveFacts
<1>3. /\ qs \in Seq(Drafts)
      /\ \A i \in 1..Len(qs) : Opening(qs[i], p, b)
      /\ p = "Edit" => 2 \in 1..Len(qs) /\ qs[2].kind = "getBook"
  <2>1. ASSUME NEW x, qs = <<x>>, Opening(x, p, b), p # "Edit"
        PROVE  /\ qs \in Seq(Drafts)
               /\ \A i \in 1..Len(qs) : Opening(qs[i], p, b)
               /\ p = "Edit" => 2 \in 1..Len(qs) /\ qs[2].kind = "getBook"
    <3>1. x \in Drafts
      BY <2>1 DEF Opening
    <3> HIDE DEF qs
    <3>2. qs \in Seq(Drafts) /\ Len(qs) = 1 /\ qs[1] = x
      BY <2>1, <3>1
    <3> QED
      BY <2>1, <3>2
  <2>2. ASSUME NEW x, NEW y, qs = <<x, y>>, Opening(x, p, b), Opening(y, p, b),
               p = "Edit" => y.kind = "getBook"
        PROVE  /\ qs \in Seq(Drafts)
               /\ \A i \in 1..Len(qs) : Opening(qs[i], p, b)
               /\ p = "Edit" => 2 \in 1..Len(qs) /\ qs[2].kind = "getBook"
    <3>1. x \in Drafts /\ y \in Drafts
      BY <2>2 DEF Opening
    <3> HIDE DEF qs
    <3>2. qs \in Seq(Drafts) /\ Len(qs) = 2 /\ qs[1] = x /\ qs[2] = y
      BY <2>2, <3>1
    <3> QED
      BY <2>2, <3>2
  <2> QED
    BY <2>1, <2>2, InitialRequestsFacts
<1>4. Send(Leave(rs), qs)
    BY DEF Show
<1> HIDE DEF qs
<1>5. /\ Bounded(requests') /\ sent' \in 0..MaxRequests
      /\ \A r \in requests' : r \in Leave(rs) \/ \E i \in 1..Len(qs) : Same(r, qs[i])
      /\ \A i \in 1..Len(qs) : \E r \in requests' : Same(r, qs[i])
    BY <1>1, <1>2, <1>3, <1>4, SendFacts DEF TypeOK
<1>6. TypeOK'
    BY <1>1, <1>5 DEF Show, TypeOK, Bounded, NoList, Paths
<1>7. RequestsFit'
  <2> SUFFICES ASSUME NEW r \in requests' PROVE Fits(r)'
    BY DEF RequestsFit
  <2>1. CASE r \in Leave(rs)
    <3>1. PICK q \in rs : /\ r.kind = q.kind /\ r.book = q.book /\ r.base = q.base
                          /\ q.kind \in CommandKinds /\ r.live = FALSE
      BY <2>1, LeaveFacts
    <3>2. PICK x \in requests : Same(q, x)
      BY DEF Among
    <3> QED
      BY <1>1, <3>1, <3>2 DEF RequestsFit, Fits, Same
  <2>2. CASE \E i \in 1..Len(qs) : Same(r, qs[i])
    <3>1. PICK i \in 1..Len(qs) : Same(r, qs[i])
      BY <2>2
    <3> QED
      BY <1>3, <3>1 DEF Show, Fits, Same, Opening, CommandKinds
  <2> QED
    BY <1>5, <2>1, <2>2
<1>8. PageFits'
  <2>1. p = "Edit" => \E r \in requests' : r.live /\ r.kind = "getBook"
    <3> SUFFICES ASSUME p = "Edit" PROVE \E r \in requests' : r.live /\ r.kind = "getBook"
      OBVIOUS
    <3>1. 2 \in 1..Len(qs) /\ qs[2].kind = "getBook" /\ qs[2].live
      BY <1>3 DEF Opening
    <3>2. PICK r \in requests' : Same(r, qs[2])
      BY <1>5, <3>1
    <3> QED
      BY <3>1, <3>2 DEF Same
  <2> QED
    BY <2>1 DEF Show, PageFits, FormGetsItsBook, ListHidesClosedAds, Awaiting, NoList
<1> QED
    BY <1>5, <1>6, <1>7, <1>8 DEF IInv

\* While the page stays, what was fit for it remains so.
LEMMA StayFits ==
    ASSUME RequestsFit, UNCHANGED <<page, book>>,
           \A r \in requests' : Fits(r) \/ \E q \in requests : Same(r, q)
    PROVE  RequestsFit'
<1> SUFFICES ASSUME NEW r \in requests' PROVE Fits(r)'
    BY DEF RequestsFit
<1>1. Fits(r)
    BY SameFits DEF RequestsFit
<1> QED
    BY <1>1 DEF Fits

\* While the page stays and its form is let alone.
LEMMA StayKeeps ==
    ASSUME IInv, TypeOK', Bounded(requests'),
           UNCHANGED <<page, book, details, failed>>,
           \A r \in requests' : Fits(r) \/ \E q \in requests : Same(r, q),
           \A q \in requests : q.kind = "getBook" => \E r \in requests' : Same(r, q),
           page = "List" => list'.path = "",
           target' \in {None, asked'},
           popUp' # "closed" => page = "Mine"
    PROVE  IInv'
<1>1. RequestsFit /\ PageFits
    BY DEF IInv
<1>2. RequestsFit'
    BY <1>1, StayFits
<1>3. Awaiting({"getBook"}) => Awaiting({"getBook"})'
  <2> SUFFICES ASSUME NEW q \in requests, q.live, q.kind = "getBook"
               PROVE  Awaiting({"getBook"})'
    BY DEF Awaiting
  <2>1. PICK r \in requests' : Same(r, q)
    OBVIOUS
  <2> QED
    BY <2>1 DEF Awaiting, Same
<1>4. PageFits'
    BY <1>1, <1>3 DEF PageFits, FormGetsItsBook, ListHidesClosedAds
<1> QED
    BY <1>2, <1>4 DEF IInv

LEMMA SameIsReflexive == \A r : Same(r, r)
BY DEF Same

\* One request more, that is fit.
LEMMA SendOneFacts ==
    ASSUME NEW rs, Bounded(rs), sent \in 0..MaxRequests, NEW q \in Drafts, Fits(q),
           Send(rs, <<q>>)
    PROVE  /\ Bounded(requests')
           /\ sent' \in 0..MaxRequests
           /\ rs \subseteq requests'
           /\ \A r \in requests' : r \in rs \/ Fits(r)
<1> DEFINE qs == <<q>>
<1>1. qs \in Seq(Drafts) /\ Len(qs) = 1 /\ qs[1] = q
    OBVIOUS
<1>2. Send(rs, qs)
    OBVIOUS
<1> HIDE DEF qs
<1>3. /\ Bounded(requests') /\ sent' \in 0..MaxRequests /\ rs \subseteq requests'
      /\ \A r \in requests' : r \in rs \/ \E i \in 1..Len(qs) : Same(r, qs[i])
    BY <1>1, <1>2, SendFacts
<1>4. ASSUME NEW r \in requests', r \notin rs PROVE Fits(r)
  <2>1. PICK i \in 1..Len(qs) : Same(r, qs[i])
    BY <1>3, <1>4
  <2>2. qs[i] = q
    BY <1>1
  <2> QED
    BY <2>1, <2>2, SameFits
<1> QED
    BY <1>3, <1>4

\* The requests that Navigation and Actions of the user send are fit.
LEMMA DraftsFit ==
    ASSUME TypeOK, PageFits
    PROVE  /\ \A chosen \in BOOLEAN :
                 Search(page, chosen) \in Drafts /\ Fits(Search(page, chosen))
           /\ [Request("deleteBook") EXCEPT !.book = target, !.base = asked] \in Drafts
           /\ popUp # "closed" =>
                 Fits([Request("deleteBook") EXCEPT !.book = target, !.base = asked])
           /\ \A b \in Books :
                 /\ [Request("changeAvailability") EXCEPT !.book = b] \in Drafts
                 /\ page = "Mine" => Fits([Request("changeAvailability") EXCEPT !.book = b])
           /\ Request("createBook") \in Drafts /\ Fits(Request("createBook"))
           /\ (page = "Edit" /\ details # None) =>
                 /\ [Request("editBook") EXCEPT !.book = book, !.base = details] \in Drafts
                 /\ Fits([Request("editBook") EXCEPT !.book = book, !.base = details])
           /\ page = "Mine" => GetUserBooks \in Drafts /\ Fits(GetUserBooks)
<1> USE DEF Request, Drafts, Paths, Kinds, ListKinds, CommandKinds, OtherKinds, Fits
<1>1. \A chosen \in BOOLEAN :
         Search(page, chosen) \in Drafts /\ Fits(Search(page, chosen))
    BY DEF Search
<1>2. [Request("deleteBook") EXCEPT !.book = target, !.base = asked] \in Drafts
    BY DEF TypeOK
<1>3. popUp # "closed" =>
         Fits([Request("deleteBook") EXCEPT !.book = target, !.base = asked])
    BY DEF PageFits
<1>4. \A b \in Books :
         /\ [Request("changeAvailability") EXCEPT !.book = b] \in Drafts
         /\ page = "Mine" => Fits([Request("changeAvailability") EXCEPT !.book = b])
    OBVIOUS
<1>5. Request("createBook") \in Drafts /\ Fits(Request("createBook"))
    OBVIOUS
<1>6. [Request("editBook") EXCEPT !.book = book, !.base = details] \in Drafts
    BY DEF TypeOK
<1>7. (page = "Edit" /\ details # None) =>
         Fits([Request("editBook") EXCEPT !.book = book, !.base = details])
    BY DEF PageFits
<1>8. page = "Mine" => GetUserBooks \in Drafts /\ Fits(GetUserBooks)
    BY DEF GetUserBooks
<1> QED
    BY <1>1, <1>2, <1>3, <1>4, <1>5, <1>6, <1>7, <1>8

LEMMA InitInvariant == Init => IInv
<1> SUFFICES ASSUME Init PROVE IInv
    OBVIOUS
<1> DEFINE qs == InitialRequests(page, book, params)
<1>1. page \in Pages /\ params \in BOOLEAN
      /\ book \in IF page \in {"View", "Edit"} THEN Books ELSE {None}
    BY DEF Init
<1>2. /\ requests = {[qs[i] EXCEPT !.n = i] : i \in DOMAIN qs}
      /\ sent = Len(qs)
    BY DEF Init
<1>3. \/ \E x : qs = <<x>> /\ Opening(x, page, book) /\ page # "Edit"
      \/ \E x, y : /\ qs = <<x, y>> /\ Opening(x, page, book) /\ Opening(y, page, book)
                   /\ page = "Edit" => y.kind = "getBook"
    BY <1>1, InitialRequestsFacts
<1> HIDE DEF qs
<1>4. /\ Bounded(requests) /\ sent \in 0..MaxRequests /\ RequestsFit
      /\ page = "Edit" => Awaiting({"getBook"})
  <2>1. ASSUME NEW x, qs = <<x>>, Opening(x, page, book), page # "Edit"
        PROVE  /\ Bounded(requests) /\ sent \in 0..MaxRequests /\ RequestsFit
               /\ page = "Edit" => Awaiting({"getBook"})
    <3> DEFINE u == [x EXCEPT !.n = 1]
    <3>1. requests = {u} /\ sent = 1
      <4>1. DOMAIN qs = {1} /\ qs[1] = x /\ Len(qs) = 1
        BY <2>1
      <4> QED
        BY <1>2, <4>1
    <3>2. u \in Requests /\ Fits(u)
      <4>1. 1 \in 1..MaxPending /\ x \in Drafts
        <5>1. MaxPending \in Nat /\ MaxPending # 0
          BY BooksAssumption
        <5>2. x \in Drafts
          BY <2>1 DEF Opening
        <5> QED
          BY <5>1, <5>2
      <4>2. u \in Requests /\ Same(u, x)
        BY <4>1, DraftRanked
      <4>3. Fits(x)
        BY <2>1 DEF Opening, Fits, CommandKinds
      <4> HIDE DEF u
      <4> QED
        BY <4>2, <4>3, SameFits
    <3> HIDE DEF u
    <3>3. IsFiniteSet({u}) /\ Cardinality({u}) = 1
      BY FS_Singleton
    <3> QED
      BY <2>1, <3>1, <3>2, <3>3, BooksAssumption DEF Bounded, RequestsFit
  <2>2. ASSUME NEW x, NEW y, qs = <<x, y>>, Opening(x, page, book), Opening(y, page, book),
               page = "Edit" => y.kind = "getBook"
        PROVE  /\ Bounded(requests) /\ sent \in 0..MaxRequests /\ RequestsFit
               /\ page = "Edit" => Awaiting({"getBook"})
    <3> DEFINE u == [x EXCEPT !.n = 1]
               v == [y EXCEPT !.n = 2]
    <3>1. requests = {u, v} /\ sent = 2
      <4>1. DOMAIN qs = {1, 2} /\ qs[1] = x /\ qs[2] = y /\ Len(qs) = 2
        BY <2>2
      <4> QED
        BY <1>2, <4>1
    <3>2. /\ u \in Requests /\ v \in Requests /\ Fits(u) /\ Fits(v)
          /\ v.live /\ v.kind = y.kind
      <4>1. 1 \in 1..MaxPending /\ 2 \in 1..MaxPending /\ x \in Drafts /\ y \in Drafts
        <5>1. MaxPending \in Nat /\ MaxPending # 0 /\ MaxPending # 1
          BY BooksAssumption
        <5>2. x \in Drafts /\ y \in Drafts
          BY <2>2 DEF Opening
        <5> QED
          BY <5>1, <5>2
      <4>2. u \in Requests /\ Same(u, x) /\ v \in Requests /\ Same(v, y)
        <5>1. [x EXCEPT !.n = 1] \in Requests /\ Same([x EXCEPT !.n = 1], x)
          BY <4>1, DraftRanked
        <5>2. [y EXCEPT !.n = 2] \in Requests /\ Same([y EXCEPT !.n = 2], y)
          BY <4>1, DraftRanked
        <5> QED
          BY <5>1, <5>2
      <4>3. Fits(x) /\ Fits(y) /\ y.live
        BY <2>2 DEF Opening, Fits, CommandKinds
      <4> HIDE DEF u, v
      <4> QED
        BY <4>2, <4>3, SameFits DEF Same
    <3> HIDE DEF u, v
    <3>3. IsFiniteSet({u, v}) /\ Cardinality({u, v}) <= 2
      <4>1. IsFiniteSet({u}) /\ Cardinality({u}) = 1 /\ {u, v} = {u} \cup {v}
        BY FS_Singleton
      <4> QED
        BY <4>1, FS_AddElement
    <3>4. Cardinality({u, v}) <= MaxPending
      BY <3>3, FS_CardinalityType, BooksAssumption
    <3> QED
      BY <2>2, <3>1, <3>2, <3>3, <3>4, BooksAssumption DEF Bounded, RequestsFit, Awaiting
  <2> QED
    BY <1>3, <2>1, <2>2
<1>5. TypeOK
    BY <1>1, <1>4 DEF Init, TypeOK, Bounded, NoList, Paths
<1>6. PageFits
    BY <1>1, <1>4 DEF Init, PageFits, FormGetsItsBook, ListHidesClosedAds, NoList
<1> QED
    BY <1>4, <1>5, <1>6 DEF IInv

-----------------------------------------------------------------------------
(* The steps keep it                                                        *)

\* The types of everything but the requests.
FieldsTyped ==
    /\ page \in Pages
    /\ book \in Books \cup {None}
    /\ details \in Books \cup {None, "typed"}
    /\ categories \in BOOLEAN
    /\ list \in [shown : BOOLEAN, path : Paths, category : BOOLEAN, fresh : BOOLEAN]
    /\ category \in BOOLEAN
    /\ params \in BOOLEAN
    /\ popUp \in {"open", "closing", "closed"}
    /\ target \in Books \cup {None}
    /\ asked \in Books \cup {None}
    /\ overtaken \in BOOLEAN
    /\ failed \in BOOLEAN
    /\ stray \in BOOLEAN

\* A step that sends one request, when others remain but perhaps one that is
\* answered, and lets the form alone.
LEMMA SendKeeps ==
    ASSUME IInv, FieldsTyped', NEW rs, Bounded(rs), Among(rs, requests),
           \A q \in requests : q.kind = "getBook" => \E r \in rs : Same(r, q),
           NEW draft \in Drafts, Fits(draft), Send(rs, <<draft>>),
           UNCHANGED <<page, book, details, failed>>,
           page = "List" => list'.path = "",
           target' \in {None, asked'},
           popUp' # "closed" => page = "Mine"
    PROVE  IInv'
<1>1. sent \in 0..MaxRequests
    BY DEF IInv, TypeOK
<1>2. /\ Bounded(requests') /\ sent' \in 0..MaxRequests /\ rs \subseteq requests'
      /\ \A r \in requests' : r \in rs \/ Fits(r)
    BY <1>1, SendOneFacts
<1>3. TypeOK'
    BY <1>2 DEF FieldsTyped, TypeOK, Bounded
<1>4. \A r \in requests' : Fits(r) \/ \E q \in requests : Same(r, q)
    BY <1>2 DEF Among
<1>5. \A q \in requests : q.kind = "getBook" => \E r \in requests' : Same(r, q)
    BY <1>2
<1> QED
    BY <1>2, <1>3, <1>4, <1>5, StayKeeps

\* A step that sends one request on top of those under way.
LEMMA AskKeeps ==
    ASSUME IInv, FieldsTyped',
           NEW draft \in Drafts, Fits(draft), Send(requests, <<draft>>),
           UNCHANGED <<page, book, details, list, popUp, target, asked, failed>>
    PROVE  IInv'
<1>1. PageFits /\ Bounded(requests)
    BY DEF IInv
<1>2. Among(requests, requests) /\ \A q \in requests : Same(q, q)
    BY SameIsReflexive DEF Among
<1>3. /\ page = "List" => list'.path = ""
      /\ target' \in {None, asked'}
      /\ popUp' # "closed" => page = "Mine"
    BY <1>1 DEF PageFits, ListHidesClosedAds
<1> QED
    BY <1>1, <1>2, <1>3, SendKeeps

\* A step that takes a request away and lets the form alone.
LEMMA CloseKeeps ==
    ASSUME IInv, FieldsTyped', NEW r \in requests, r.kind # "getBook", Close(r),
           UNCHANGED <<page, book, details, failed>>,
           page = "List" => list'.path = "",
           target' \in {None, asked'},
           popUp' # "closed" => page = "Mine"
    PROVE  IInv'
<1>1. Bounded(requests) /\ sent \in 0..MaxRequests
    BY DEF IInv, TypeOK
<1>2. /\ Bounded(requests') /\ sent' \in 0..MaxRequests
      /\ Among(requests', requests \ {r}) /\ Among(requests \ {r}, requests')
    BY <1>1, WithoutFacts DEF Close
<1>3. TypeOK'
    BY <1>2 DEF FieldsTyped, TypeOK, Bounded
<1>4. \A x \in requests' : \E q \in requests : Same(x, q)
    BY <1>2 DEF Among
<1>5. \A q \in requests : q.kind = "getBook" => \E x \in requests' : Same(x, q)
  <2> SUFFICES ASSUME NEW q \in requests, q.kind = "getBook" PROVE \E x \in requests' : Same(x, q)
    OBVIOUS
  <2>1. PICK x \in requests' : Same(q, x)
    BY <1>2 DEF Among
  <2> QED
    BY <2>1 DEF Same
<1> QED
    BY <1>2, <1>3, <1>4, <1>5, StayKeeps

\* The user follows a link.
LEMMA NavigateKeeps == IInv /\ Navigate => IInv'
<1> SUFFICES ASSUME IInv, Navigate PROVE IInv'
    OBVIOUS
<1>1. /\ TypeOK /\ PageFits /\ Bounded(requests) /\ Among(requests, requests)
    BY SameIsReflexive DEF IInv, Among
<1>2. ASSUME NEW p \in Pages, GoTo(p) PROVE IInv'
  <2>1. PICK chosen \in BOOLEAN : Show(p, None, chosen, requests)
    BY <1>2 DEF GoTo
  <2>2. None \in IF p \in {"View", "Edit"} THEN Books ELSE {None}
    BY <1>2 DEF GoTo
  <2> QED
    BY <1>1, <2>1, <2>2, ShowKeeps
<1>3. ASSUME NEW p \in Pages, NEW b \in Books, Follow(p, b) PROVE IInv'
  <2>1. Show(p, b, FALSE, requests) /\ b \in IF p \in {"View", "Edit"} THEN Books ELSE {None}
    BY <1>3 DEF Follow
  <2> QED
    BY <1>1, <2>1, ShowKeeps
<1>4. CASE DropCategory
  <2>1. Search(page, FALSE) \in Drafts /\ Fits(Search(page, FALSE))
    BY <1>1, DraftsFit
  <2>2. FieldsTyped'
    <3>1. category' \in BOOLEAN /\ params' \in BOOLEAN
      BY <1>4 DEF DropCategory
    <3>2. UNCHANGED <<page, book, details, categories, list, popUp, target, asked, overtaken,
                      failed, stray>>
      BY <1>4 DEF DropCategory, historyVars
    <3> QED
      BY <1>1, <3>1, <3>2 DEF FieldsTyped, TypeOK
  <2> QED
    BY <1>4, <2>1, <2>2, AskKeeps DEF DropCategory, historyVars
<1> QED
    BY <1>2, <1>3, <1>4 DEF Navigate

\* The user acts on the page.
LEMMA ActKeeps == IInv /\ Act => IInv'
<1> SUFFICES ASSUME IInv, Act PROVE IInv'
    OBVIOUS
<1> USE DEF componentVars, historyVars
<1>1. TypeOK /\ RequestsFit /\ PageFits /\ Bounded(requests)
    BY DEF IInv
<1>2. ASSUME NEW chosen \in BOOLEAN, SubmitSearch(chosen) PROVE IInv'
  <2>1. Search(page, chosen) \in Drafts /\ Fits(Search(page, chosen))
    BY <1>1, DraftsFit
  <2>2. FieldsTyped'
    BY <1>1, <1>2 DEF SubmitSearch, FieldsTyped, TypeOK
  <2> QED
    BY <1>2, <2>1, <2>2, AskKeeps DEF SubmitSearch
<1>3. ASSUME NEW b \in Books, ChangeAvailability(b) PROVE IInv'
  <2> DEFINE draft == [Request("changeAvailability") EXCEPT !.book = b]
  <2>1. draft \in Drafts /\ Fits(draft)
    BY <1>1, <1>3, DraftsFit DEF ChangeAvailability
  <2>2. FieldsTyped' /\ Send(requests, <<draft>>)
    BY <1>1, <1>3 DEF ChangeAvailability, FieldsTyped, TypeOK
  <2> HIDE DEF draft
  <2> QED
    BY <1>3, <2>1, <2>2, AskKeeps DEF ChangeAvailability
<1>4. CASE DeleteBook
  <2> DEFINE draft == [Request("deleteBook") EXCEPT !.book = target, !.base = asked]
  <2>1. draft \in Drafts /\ Fits(draft)
    BY <1>1, <1>4, DraftsFit DEF DeleteBook
  <2>2. FieldsTyped' /\ Send(requests, <<draft>>)
    BY <1>1, <1>4 DEF DeleteBook, FieldsTyped, TypeOK
  <2> HIDE DEF draft
  <2> QED
    BY <1>4, <2>1, <2>2, AskKeeps DEF DeleteBook
<1>5. CASE CreateBook
  <2>1. Request("createBook") \in Drafts /\ Fits(Request("createBook"))
    BY <1>1, DraftsFit
  <2>2. FieldsTyped'
    BY <1>1, <1>5 DEF CreateBook, FieldsTyped, TypeOK
  <2> QED
    BY <1>5, <2>1, <2>2, AskKeeps DEF CreateBook
<1>6. CASE EditBook
  <2> DEFINE draft == [Request("editBook") EXCEPT !.book = book, !.base = details]
  <2>1. draft \in Drafts /\ Fits(draft)
    BY <1>1, <1>6, DraftsFit DEF EditBook
  <2>2. FieldsTyped' /\ Send(requests, <<draft>>)
    BY <1>1, <1>6 DEF EditBook, FieldsTyped, TypeOK
  <2> HIDE DEF draft
  <2> QED
    BY <1>6, <2>1, <2>2, AskKeeps DEF EditBook
<1>7. ASSUME \/ \E b \in Books : OpenModal(b)
             \/ CancelModal
             \/ Fade
      PROVE IInv'
  <2>1. TypeOK' /\ Bounded(requests')
    BY <1>1, <1>7 DEF OpenModal, CancelModal, Fade, TypeOK, Bounded, requestVars
  <2>2. \A q \in requests : Same(q, q)
    BY SameIsReflexive
  <2>3. UNCHANGED <<page, book, details, list, requests, failed>>
    BY <1>7 DEF OpenModal, CancelModal, Fade, requestVars
  <2>4. /\ page = "List" => list'.path = ""
        /\ target' \in {None, asked'}
        /\ popUp' # "closed" => page = "Mine"
    BY <1>1, <1>7 DEF OpenModal, CancelModal, Fade, PageFits, ListHidesClosedAds
  <2> QED
    BY <2>1, <2>2, <2>3, <2>4, StayKeeps
<1>8. CASE FillForm
  <2>1. TypeOK' /\ Bounded(requests') /\ RequestsFit'
    BY <1>1, <1>8 DEF FillForm, TypeOK, Bounded, requestVars, RequestsFit, Fits
  <2>2. FormGetsItsBook'
    BY <1>1, <1>8, BooksAssumption DEF FillForm, requestVars, PageFits, FormGetsItsBook, Awaiting
  <2>3. PageFits'
    BY <1>1, <1>8, <2>2 DEF FillForm, PageFits, ListHidesClosedAds
  <2> QED
    BY <2>1, <2>3 DEF IInv
<1> QED
    BY <1>2, <1>3, <1>4, <1>5, <1>6, <1>7, <1>8 DEF Act

\* Progress of a request, and of what others read, is no matter of its fitness.
LEMMA Progressed ==
    ASSUME NEW q \in Requests
    PROVE  /\ [q EXCEPT !.done = TRUE] \in Requests /\ Same([q EXCEPT !.done = TRUE], q)
           /\ [q EXCEPT !.fresh = FALSE] \in Requests /\ Same([q EXCEPT !.fresh = FALSE], q)
BY DEF Requests, Same

\* The requests of a set each make some progress.
LEMMA ProgressKeeps ==
    ASSUME IInv, NEW f \in [requests -> Requests],
           \A q \in requests : Same(f[q], q),
           requests' = {f[q] : q \in requests}
    PROVE  /\ Bounded(requests')
           /\ \A r \in requests' : \E q \in requests : Same(r, q)
           /\ \A q \in requests : \E r \in requests' : Same(r, q)
<1>1. Bounded(requests)
    BY DEF IInv
<1>2. f \in [requests -> requests']
    OBVIOUS
<1>3. IsFiniteSet(requests') /\ Cardinality(requests') <= Cardinality(requests)
    BY <1>1, <1>2, ImageIsFinite DEF Bounded
<1>4. Cardinality(requests') <= MaxPending
    BY <1>1, <1>3, FS_CardinalityType, BooksAssumption DEF Bounded
<1> QED
    BY <1>2, <1>3, <1>4 DEF Bounded

\* The service reads rows, or appends an event.
LEMMA ServeKeeps == IInv /\ Serve => IInv'
<1> SUFFICES ASSUME IInv, NEW r \in requests, ServeList(r) \/ ServeCommand(r) PROVE IInv'
    BY DEF Serve
<1> USE DEF componentVars, historyVars
<1>1. TypeOK /\ PageFits
    BY DEF IInv
<1>2. requests \subseteq Requests
    BY <1>1 DEF TypeOK
<1> DEFINE served == [r EXCEPT !.done = TRUE]
           stale(q) == [q EXCEPT !.fresh = FALSE]
<1>3. served \in Requests /\ Same(served, r)
    BY <1>2, Progressed
<1>4. \A q \in requests : stale(q) \in Requests /\ Same(stale(q), q) /\ Same(q, q)
    BY <1>2, Progressed, SameIsReflexive
<1>5. CASE ServeList(r)
  <2> DEFINE f == [q \in requests |-> IF q = r THEN served ELSE q]
  <2>1. requests' = (requests \ {r}) \cup {served}
    BY <1>5 DEF ServeList
  <2> HIDE DEF served, stale
  <2>2. f \in [requests -> Requests] /\ \A q \in requests : Same(f[q], q)
    BY <1>2, <1>3, <1>4
  <2>3. requests' = {f[q] : q \in requests}
    BY <2>1
  <2> HIDE DEF f
  <2>4. /\ Bounded(requests')
        /\ \A x \in requests' : \E q \in requests : Same(x, q)
        /\ \A q \in requests : \E x \in requests' : Same(x, q)
    BY <2>2, <2>3, ProgressKeeps
  <2>5. TypeOK'
    BY <1>1, <1>5, <2>4 DEF ServeList, TypeOK, Bounded
  <2>6. /\ UNCHANGED <<page, book, details, failed>>
        /\ page = "List" => list'.path = ""
        /\ target' \in {None, asked'}
        /\ popUp' # "closed" => page = "Mine"
    BY <1>1, <1>5 DEF ServeList, PageFits, ListHidesClosedAds
  <2> QED
    BY <2>4, <2>5, <2>6, StayKeeps
<1>6. CASE ServeCommand(r)
  <2> DEFINE seen(q) == q.done /\ q.kind \in ListKinds
             f == [q \in requests |-> IF q = r THEN served ELSE IF seen(q) THEN stale(q) ELSE q]
  <2>1. requests' = {IF seen(q) THEN stale(q) ELSE q : q \in requests \ {r}} \cup {served}
    BY <1>6 DEF ServeCommand
  <2> HIDE DEF served, stale, seen
  <2>2. f \in [requests -> Requests] /\ \A q \in requests : Same(f[q], q)
    BY <1>2, <1>3, <1>4
  <2>3. requests' = {f[q] : q \in requests}
    BY <2>1
  <2> HIDE DEF f
  <2>4. /\ Bounded(requests')
        /\ \A x \in requests' : \E q \in requests : Same(x, q)
        /\ \A q \in requests : \E x \in requests' : Same(x, q)
    BY <2>2, <2>3, ProgressKeeps
  <2>5. /\ list' \in [shown : BOOLEAN, path : Paths, category : BOOLEAN, fresh : BOOLEAN]
        /\ list'.path = list.path
    BY <1>1, <1>6 DEF ServeCommand, TypeOK
  <2>6. stray' \in BOOLEAN
    BY <1>6 DEF ServeCommand
  <2>7. UNCHANGED <<page, book, details, categories, category, params, popUp, target,
                    sent, asked, overtaken, failed>>
    BY <1>6 DEF ServeCommand
  <2>8. TypeOK'
    BY <1>1, <2>4, <2>5, <2>6, <2>7 DEF TypeOK, Bounded
  <2>9. /\ page = "List" => list'.path = ""
        /\ target' \in {None, asked'}
        /\ popUp' # "closed" => page = "Mine"
    BY <1>1, <2>5, <2>7 DEF PageFits, ListHidesClosedAds
  <2> QED
    BY <2>4, <2>7, <2>8, <2>9, StayKeeps
<1> QED
    BY <1>5, <1>6

\* An answer comes.
LEMMA AnswerKeeps == IInv /\ Answer => IInv'
<1> SUFFICES ASSUME IInv, NEW r \in requests,
                    \/ AnswerError(r)
                    \/ AnswerUnseen(r)
                    \/ AssignBooks(r)
                    \/ AssignBook(r)
                    \/ AssignCategories(r)
                    \/ Created(r)
                    \/ Edited(r)
                    \/ Commanded(r)
             PROVE  IInv'
    BY DEF Answer
<1> USE DEF componentVars, historyVars
<1>1. TypeOK /\ RequestsFit /\ PageFits /\ Bounded(requests) /\ r \in Requests
    BY DEF IInv, Bounded
<1>2. /\ Bounded(Without(r))
      /\ Among(Without(r), requests \ {r})
      /\ Among(requests \ {r}, Without(r))
    BY <1>1, WithoutFacts
<1>3. Among(Without(r), requests)
    BY <1>2 DEF Among
<1>4. r.kind # "getBook" =>
          \A q \in requests : q.kind = "getBook" => \E x \in Without(r) : Same(x, q)
  <2> SUFFICES ASSUME r.kind # "getBook", NEW q \in requests, q.kind = "getBook"
               PROVE  \E x \in Without(r) : Same(x, q)
    OBVIOUS
  <2>1. PICK x \in Without(r) : Same(q, x)
    BY <1>2 DEF Among
  <2> QED
    BY <2>1 DEF Same
<1>5. Close(r) => Bounded(requests') /\ sent' \in 0..MaxRequests
    BY <1>1, <1>2 DEF Close, TypeOK
<1>6. Close(r) /\ UNCHANGED <<page, book>> => RequestsFit'
    BY <1>1, <1>3, StayFits DEF Close, Among
<1>7. (/\ Close(r) /\ ~(r.live /\ r.kind = "getBook")
       /\ page' = page /\ Awaiting({"getBook"})) => Awaiting({"getBook"})'
  <2> SUFFICES ASSUME Close(r), ~(r.live /\ r.kind = "getBook"),
                      NEW q \in requests, q.live, q.kind = "getBook"
               PROVE  Awaiting({"getBook"})'
    BY DEF Awaiting
  <2>1. PICK x \in Without(r) : Same(q, x)
    BY <1>2 DEF Among
  <2> QED
    BY <2>1 DEF Awaiting, Same, Close
<1>8. CASE AnswerError(r)
  <2>1. /\ Close(r) /\ UNCHANGED <<componentVars, asked, overtaken, stray>>
        /\ failed' \in BOOLEAN /\ ((failed \/ r.live) => failed')
    BY <1>8 DEF AnswerError
  <2>2. TypeOK' /\ Bounded(requests') /\ RequestsFit'
    BY <1>1, <1>5, <1>6, <2>1 DEF TypeOK, Bounded
  <2>3. FormGetsItsBook'
    BY <1>1, <1>7, <2>1 DEF PageFits, FormGetsItsBook
  <2>4. PageFits'
    BY <1>1, <2>1, <2>3 DEF PageFits, ListHidesClosedAds
  <2> QED
    BY <2>2, <2>4 DEF IInv
<1>9. CASE AssignBook(r)
  <2>1. /\ Close(r) /\ UNCHANGED <<page, book, categories, list, category, params, popUp,
                                   target, historyVars>>
        /\ r.live /\ r.kind = "getBook" /\ details' = r.book
    BY <1>9 DEF AssignBook, Received
  <2>2. r.book = book /\ page \in {"View", "Edit"} /\ book \in Books
    BY <1>1, <2>1 DEF RequestsFit, Fits, PageFits
  <2>3. TypeOK' /\ Bounded(requests') /\ RequestsFit'
    BY <1>1, <1>5, <1>6, <2>1, <2>2 DEF TypeOK, Bounded
  <2>4. PageFits'
    BY <1>1, <2>1, <2>2 DEF PageFits, FormGetsItsBook, ListHidesClosedAds
  <2> QED
    BY <2>3, <2>4 DEF IInv
<1>10. CASE AnswerUnseen(r)
  <2>1. Close(r) /\ r.kind # "getBook" /\ UNCHANGED <<componentVars, historyVars>>
    BY <1>10 DEF AnswerUnseen, Received
  <2>2. FieldsTyped'
    BY <1>1, <2>1 DEF FieldsTyped, TypeOK
  <2> QED
    BY <1>1, <2>1, <2>2, CloseKeeps DEF PageFits, ListHidesClosedAds
<1>11. CASE AssignBooks(r)
  <2>1. /\ Close(r) /\ r.live /\ r.kind \in ListKinds
        /\ list' = [shown |-> TRUE, path |-> r.path, category |-> r.category, fresh |-> r.fresh]
        /\ overtaken' \in BOOLEAN
        /\ UNCHANGED <<page, book, details, categories, category, params, popUp, target,
                       asked, failed, stray>>
    BY <1>11 DEF AssignBooks, Received
  <2>2. /\ list' \in [shown : BOOLEAN, path : Paths, category : BOOLEAN, fresh : BOOLEAN]
        /\ list'.path = r.path
    BY <1>1, <2>1 DEF Requests
  <2>3. FieldsTyped'
    BY <1>1, <2>1, <2>2 DEF FieldsTyped, TypeOK
  <2>4. page = "List" => list'.path = ""
    BY <1>1, <2>1, <2>2 DEF RequestsFit, Fits
  <2>5. r.kind # "getBook"
    BY <2>1 DEF ListKinds
  <2>6. target' \in {None, asked'} /\ (popUp' # "closed" => page = "Mine")
    BY <1>1, <2>1 DEF PageFits
  <2> QED
    BY <2>1, <2>3, <2>4, <2>5, <2>6, CloseKeeps
<1>12. CASE AssignCategories(r)
  <2>1. /\ Close(r) /\ r.kind # "getBook" /\ categories' \in BOOLEAN
        /\ UNCHANGED <<page, book, details, list, category, params, popUp, target, historyVars>>
    BY <1>12 DEF AssignCategories, Received
  <2>2. FieldsTyped'
    BY <1>1, <2>1 DEF FieldsTyped, TypeOK
  <2> QED
    BY <1>1, <2>1, <2>2, CloseKeeps DEF PageFits, ListHidesClosedAds
<1>13. CASE Created(r)
  <2>1. r.kind = "createBook"
    BY <1>13 DEF Created, Received
  <2>2. CASE Show("Mine", None, FALSE, Without(r))
    BY <1>2, <1>3, <2>2, ShowKeeps DEF Pages
  <2>3. CASE Close(r) /\ UNCHANGED <<componentVars, historyVars>>
    <3>1. FieldsTyped'
      BY <1>1, <2>3 DEF FieldsTyped, TypeOK
    <3> QED
      BY <1>1, <2>1, <2>3, <3>1, CloseKeeps DEF PageFits, ListHidesClosedAds
  <2> QED
    BY <1>13, <2>2, <2>3 DEF Created
<1>14. CASE Edited(r)
  <2>1. r.kind = "editBook"
    BY <1>14 DEF Edited, Received
  <2>2. CASE Show("List", None, FALSE, Without(r))
    BY <1>2, <1>3, <2>2, ShowKeeps DEF Pages
  <2>3. ASSUME page = "List", params' = FALSE, category' = IF params THEN FALSE ELSE category,
               Send(Without(r), IF params THEN <<Search(page, FALSE)>> ELSE <<>>),
               UNCHANGED <<page, book, details, categories, list, popUp, target, historyVars>>
        PROVE  IInv'
    <3>1. category' \in BOOLEAN /\ params' \in BOOLEAN
      BY <1>1, <2>3 DEF TypeOK
    <3>2. FieldsTyped'
      <4>1. UNCHANGED <<page, book, details, categories, list, popUp, target, asked,
                        overtaken, failed, stray>>
        BY <2>3
      <4> QED
        BY <1>1, <3>1, <4>1 DEF FieldsTyped, TypeOK
    <3>3. /\ page = "List" => list'.path = ""
          /\ target' \in {None, asked'}
          /\ popUp' # "closed" => page = "Mine"
      BY <1>1, <2>3 DEF PageFits, ListHidesClosedAds
    <3>4. CASE params
      <4>1. Send(Without(r), <<Search(page, FALSE)>>)
        BY <2>3, <3>4
      <4>2. Search(page, FALSE) \in Drafts /\ Fits(Search(page, FALSE))
        BY <1>1, DraftsFit
      <4> QED
        BY <1>2, <1>3, <1>4, <2>1, <2>3, <3>2, <3>3, <4>1, <4>2, SendKeeps
    <3>5. CASE ~params
      <4>1. Send(Without(r), <<>>)
        BY <2>3, <3>5
      <4>2. Close(r)
        BY <1>1, <4>1 DEF Send, Close, TypeOK
      <4> QED
        BY <2>1, <2>3, <3>2, <3>3, <4>2, CloseKeeps
    <3> QED
      BY <3>4, <3>5
  <2> QED
    BY <1>14, <2>2, <2>3 DEF Edited
<1>15. CASE Commanded(r)
  <2>1. /\ r.live /\ r.kind \in {"deleteBook", "changeAvailability"}
        /\ popUp' = IF r.kind = "deleteBook" /\ popUp = "open" THEN "closing" ELSE popUp
        /\ Send(Without(r), <<GetUserBooks>>)
        /\ UNCHANGED <<page, book, details, categories, list, category, params, target,
                       historyVars>>
    BY <1>15 DEF Commanded, Received
  <2>2. page = "Mine"
    BY <1>1, <2>1 DEF RequestsFit, Fits
  <2>3. GetUserBooks \in Drafts /\ Fits(GetUserBooks)
    BY <1>1, <2>2, DraftsFit
  <2>4. popUp' \in {"open", "closing", "closed"}
    BY <1>1, <2>1 DEF TypeOK
  <2>5. FieldsTyped'
    BY <1>1, <2>1, <2>4 DEF FieldsTyped, TypeOK
  <2>6. page = "List" => list'.path = ""
    BY <2>2
  <2>7. target' \in {None, asked'} /\ r.kind # "getBook"
    BY <1>1, <2>1 DEF PageFits
  <2> QED
    BY <1>2, <1>3, <1>4, <2>1, <2>2, <2>3, <2>5, <2>6, <2>7, SendKeeps
<1> QED
    BY <1>8, <1>9, <1>10, <1>11, <1>12, <1>13, <1>14, <1>15

\* Nothing happens in this tab.
LEMMA StutterKeeps == IInv /\ UNCHANGED vars => IInv'
<1> SUFFICES ASSUME IInv, UNCHANGED vars PROVE IInv'
    OBVIOUS
<1> USE DEF vars, componentVars, requestVars, historyVars
<1>1. TypeOK' /\ Bounded(requests')
    BY DEF IInv, TypeOK, Bounded
<1>2. RequestsFit'
    BY DEF IInv, RequestsFit, Fits
<1>3. Awaiting({"getBook"})' = Awaiting({"getBook"})
    BY DEF Awaiting
<1>4. PageFits'
    BY <1>3 DEF IInv, PageFits, FormGetsItsBook, ListHidesClosedAds
<1> QED
    BY <1>1, <1>2, <1>4 DEF IInv

-----------------------------------------------------------------------------
(* The list that a page ends with                                           *)

\* The requests whose answers the page will show as its list.
Lists(rs) == {r \in rs : r.live /\ r.kind \in ListKinds}

IsLast(r, rs) == r \in rs /\ \A q \in rs : q.n <= r.n

\* A command that has taken effect, and after whose answer the list is read.
CommandDone(rs) ==
    \E r \in rs : r.live /\ r.done /\ r.kind \in {"deleteBook", "changeAvailability"}

\* The answer x, or the one to the request x, is to a search for the category c,
\* and was or will be read after every command but those s stands for.
Suits(x, rs, p, c, s) ==
    /\ p = "List" => x.category = c
    /\ s \/ x.fresh \/ CommandDone(rs)

\* The page p ends with a list that suits it: the list l that it shows, if no
\* other is under way, or else the one that was asked for last.
EndsWell(rs, p, l, c, s) ==
    /\ Lists(rs) = {} => Suits(l, rs, p, c, s)
    /\ \A r \in rs : IsLast(r, Lists(rs)) => Suits(r, rs, p, c, s)

\* No two requests have the same number.
Distinct(rs) == \A r, q \in rs : r.n = q.n => r = q

\* The requests are numbered from 1 on.
Numbered(rs) == Distinct(rs) /\ \A r \in rs : r.n <= Cardinality(rs)

\* The commands that a page awaits are its own.
OwnCommands ==
    \A r \in requests : r.live =>
        /\ r.kind = "createBook" => page = "Create"
        /\ r.kind = "editBook" => page = "Edit"

ListEndsWell ==
    (page \in {"List", "Mine"} /\ ~overtaken /\ ~failed) =>
        EndsWell(requests, page, list, category, stray)

ListInv ==
    /\ Numbered(requests)
    /\ OwnCommands
    /\ ListEndsWell

\* What the list of a page depends on.
Alike(r, q) ==
    /\ r.live = q.live
    /\ r.kind = q.kind
    /\ r.category = q.category
    /\ r.done = q.done
    /\ r.fresh = q.fresh

\* A map of one set onto another that keeps the order of the requests.
Orderly(f, rs, qs) ==
    /\ f \in [rs -> qs]
    /\ qs = {f[r] : r \in rs}
    /\ \A r \in rs : f[r].live = r.live /\ f[r].kind = r.kind /\ f[r].category = r.category
    /\ \A r, q \in rs : f[q].n <= f[r].n => q.n <= r.n

\* The last of the lists is that of the set that was mapped.
LEMMA OrderlyLists ==
    ASSUME NEW rs, NEW qs, NEW f, Orderly(f, rs, qs)
    PROVE  /\ Lists(qs) = {} => Lists(rs) = {}
           /\ \A x \in qs : IsLast(x, Lists(qs)) =>
                 \E r \in rs : IsLast(r, Lists(rs)) /\ x = f[r]
<1>1. \A r \in Lists(rs) : r \in rs /\ f[r] \in Lists(qs)
    BY DEF Orderly, Lists
<1>2. ASSUME NEW x \in qs, IsLast(x, Lists(qs))
      PROVE  \E r \in rs : IsLast(r, Lists(rs)) /\ x = f[r]
  <2>1. PICK r \in rs : x = f[r]
    BY DEF Orderly
  <2>2. r \in Lists(rs)
    BY <1>2, <2>1 DEF Orderly, IsLast, Lists
  <2>3. \A q \in Lists(rs) : q.n <= r.n
    BY <1>1, <1>2, <2>1 DEF Orderly, IsLast
  <2> QED
    BY <2>1, <2>2, <2>3 DEF IsLast
<1> QED
    BY <1>1, <1>2

\* Ranking makes the numbers those from 1 on, in the same order.
LEMMA RankedOrder ==
    ASSUME NEW rs, Bounded(rs), Distinct(rs)
    PROVE  /\ Numbered(Ranked(rs))
           /\ \E f : Orderly(f, rs, Ranked(rs)) /\ \A r \in rs : Alike(f[r], r)
<1> DEFINE upTo(k) == {q \in rs : q.n <= k}
           rank(r) == Cardinality(upTo(r.n))
           f == [r \in rs |-> [r EXCEPT !.n = rank(r)]]
<1>1. IsFiniteSet(rs) /\ rs \subseteq Requests /\ \A r \in rs : r.n \in Nat
    BY BooksAssumption DEF Bounded, Requests
<1>2. \A k : IsFiniteSet(upTo(k)) /\ Cardinality(upTo(k)) \in Nat
             /\ Cardinality(upTo(k)) <= Cardinality(rs)
    BY <1>1, FS_Subset, FS_CardinalityType
<1>3. ASSUME NEW r \in rs, NEW q \in rs, r.n < q.n PROVE rank(r) < rank(q)
  <2>1. upTo(r.n) \subseteq upTo(q.n) /\ q \in upTo(q.n) /\ q \notin upTo(r.n)
    BY <1>1, <1>3
  <2>2. IsFiniteSet(upTo(q.n)) /\ upTo(r.n) # upTo(q.n)
    BY <1>2, <2>1
  <2>3. Cardinality(upTo(r.n)) <= Cardinality(upTo(q.n))
        /\ (Cardinality(upTo(q.n)) = Cardinality(upTo(r.n)) => upTo(q.n) = upTo(r.n))
    <3> HIDE DEF upTo
    <3> QED
      BY <2>1, <2>2, FS_Subset
  <2> QED
    BY <1>2, <2>2, <2>3
<1>4. \A r \in rs : rank(r) \in Nat /\ rank(r) <= Cardinality(rs)
    BY <1>2
<1> HIDE DEF rank
<1>5. \A r \in rs : /\ f[r].n = rank(r)
                    /\ Alike(f[r], r)
    BY <1>1 DEF Alike, Requests
<1>6. Ranked(rs) = {f[r] : r \in rs} /\ f \in [rs -> Ranked(rs)]
    BY DEF Ranked, rank
<1>7. \A r, q \in rs : f[q].n <= f[r].n => q.n <= r.n
    BY <1>1, <1>3, <1>4, <1>5
<1> HIDE DEF f
<1>8. Orderly(f, rs, Ranked(rs))
    BY <1>5, <1>6, <1>7 DEF Orderly, Alike
<1>9. \A r, q \in rs : f[q].n = f[r].n => q = r
  <2> SUFFICES ASSUME NEW r \in rs, NEW q \in rs, f[q].n = f[r].n PROVE q = r
    OBVIOUS
  <2>1. q.n <= r.n /\ r.n <= q.n
    BY <1>4, <1>5, <1>7
  <2>2. q.n = r.n
    BY <1>1, <2>1
  <2> QED
    BY <2>2 DEF Distinct
<1>10. Cardinality(Ranked(rs)) = Cardinality(rs)
  <2>1. f \in Bijection(rs, Ranked(rs))
    BY <1>6, <1>9 DEF Bijection, Injection, Surjection, IsInjective
  <2>2. ExistsBijection(rs, Ranked(rs))
    BY <2>1 DEF ExistsBijection
  <2> QED
    BY <1>1, <2>2, FS_Bijection
<1>11. Numbered(Ranked(rs))
  <2>1. \A x \in Ranked(rs) : \E r \in rs : x = f[r]
    BY <1>6
  <2>2. Distinct(Ranked(rs))
    BY <1>9, <2>1 DEF Distinct
  <2>3. \A x \in Ranked(rs) : x.n <= Cardinality(Ranked(rs))
    BY <1>4, <1>5, <1>10, <2>1
  <2> QED
    BY <2>2, <2>3 DEF Numbered
<1> QED
    BY <1>5, <1>8, <1>11

\* Ranking leaves the list to end as well.
LEMMA RankedEndsWell ==
    ASSUME NEW rs, Bounded(rs), Distinct(rs), NEW p, NEW l, NEW c, NEW s,
           EndsWell(rs, p, l, c, s)
    PROVE  EndsWell(Ranked(rs), p, l, c, s)
<1>1. PICK f : Orderly(f, rs, Ranked(rs)) /\ \A r \in rs : Alike(f[r], r)
    BY RankedOrder
<1>2. CommandDone(rs) => CommandDone(Ranked(rs))
    BY <1>1 DEF Orderly, Alike, CommandDone
<1>3. Lists(Ranked(rs)) = {} => Suits(l, Ranked(rs), p, c, s)
    BY <1>1, <1>2, OrderlyLists DEF EndsWell, Suits
<1>4. ASSUME NEW x \in Ranked(rs), IsLast(x, Lists(Ranked(rs)))
      PROVE  Suits(x, Ranked(rs), p, c, s)
  <2>1. PICK r \in rs : IsLast(r, Lists(rs)) /\ x = f[r]
    BY <1>1, <1>4, OrderlyLists
  <2>2. Suits(r, rs, p, c, s) /\ Alike(x, r)
    BY <1>1, <2>1 DEF EndsWell
  <2> QED
    BY <1>2, <2>2 DEF Suits, Alike
<1> QED
    BY <1>3, <1>4 DEF EndsWell

\* What is left when a request is answered.
LEMMA Remaining ==
    ASSUME Bounded(requests), Numbered(requests), NEW r \in requests
    PROVE  Bounded(requests \ {r}) /\ Distinct(requests \ {r}) /\ Numbered(Without(r))
<1>1. Bounded(requests \ {r})
  <2>1. IsFiniteSet(requests \ {r}) /\ Cardinality(requests \ {r}) <= Cardinality(requests)
    BY FS_Subset DEF Bounded
  <2>2. Cardinality(requests) \in Nat /\ Cardinality(requests \ {r}) \in Nat
    BY <2>1, FS_CardinalityType DEF Bounded
  <2> QED
    BY <2>1, <2>2, BooksAssumption DEF Bounded
<1>2. Distinct(requests \ {r})
    BY DEF Numbered, Distinct
<1> QED
    BY <1>1, <1>2, RankedOrder DEF Without

\* An answer that is not to be shown as the list, nor to a command after which
\* the list is read, leaves the list to end as well.
LEMMA WithoutEndsWell ==
    ASSUME Bounded(requests), Numbered(requests), NEW r \in requests,
           r.live => r.kind \notin ListKinds \cup {"deleteBook", "changeAvailability"},
           NEW p, NEW l, NEW c, NEW s, EndsWell(requests, p, l, c, s)
    PROVE  EndsWell(Without(r), p, l, c, s)
<1> DEFINE rs == requests \ {r}
<1>1. Bounded(rs) /\ Distinct(rs)
    BY Remaining
<1>2. Lists(rs) = Lists(requests) /\ (CommandDone(requests) => CommandDone(rs))
    BY DEF Lists, CommandDone
<1>3. EndsWell(rs, p, l, c, s)
    BY <1>2 DEF EndsWell, Suits
<1> HIDE DEF rs
<1>4. EndsWell(Ranked(rs), p, l, c, s)
    BY <1>1, <1>3, RankedEndsWell
<1> QED
    BY <1>4 DEF Without, rs

\* The answer to the first request for a list is shown: the last request for one
\* is as it was, or was this one.
LEMMA AssignedEndsWell ==
    ASSUME Bounded(requests), Numbered(requests), NEW r \in requests,
           r.live, r.kind \in ListKinds,
           \A q \in requests : q.live /\ q.kind \in ListKinds => ~(q.n < r.n),
           NEW p, NEW l, NEW c, NEW s, EndsWell(requests, p, l, c, s),
           NEW m, m.category = r.category, m.fresh = r.fresh
    PROVE  EndsWell(Without(r), p, m, c, s)
<1> DEFINE rs == requests \ {r}
<1>1. Bounded(rs) /\ Distinct(rs)
    BY Remaining
<1>2. \A q \in requests : q.n \in Nat
    BY BooksAssumption DEF Bounded, Requests
<1>3. CommandDone(requests) => CommandDone(rs)
    BY DEF CommandDone, ListKinds
<1>4. Lists(requests) = Lists(rs) \cup {r} /\ rs \subseteq requests
    BY DEF Lists
<1>5. ASSUME Lists(rs) = {} PROVE Suits(m, rs, p, c, s)
  <2>1. IsLast(r, Lists(requests))
    BY <1>2, <1>4, <1>5 DEF IsLast
  <2> QED
    BY <1>3, <2>1 DEF EndsWell, Suits
<1>6. ASSUME NEW x \in rs, IsLast(x, Lists(rs)) PROVE Suits(x, rs, p, c, s)
  <2>1. x \in requests /\ x.live /\ x.kind \in ListKinds
    BY <1>6 DEF IsLast, Lists
  <2>2. r.n <= x.n
    BY <1>2, <2>1
  <2>3. IsLast(x, Lists(requests))
    BY <1>4, <1>6, <2>2 DEF IsLast
  <2> QED
    BY <1>3, <2>1, <2>3 DEF EndsWell, Suits
<1>7. EndsWell(rs, p, m, c, s)
    BY <1>5, <1>6 DEF EndsWell
<1> HIDE DEF rs
<1>8. EndsWell(Ranked(rs), p, m, c, s)
    BY <1>1, <1>7, RankedEndsWell
<1> QED
    BY <1>8 DEF Without, rs

\* The requests of qs come after those of rs.
Sent(rs, qs) == rs \cup {[qs[i] EXCEPT !.n = Cardinality(rs) + i] : i \in DOMAIN qs}

\* A request that is sent has the next number.
LEMMA SentFacts ==
    ASSUME NEW rs, Bounded(rs), Numbered(rs), NEW qs \in Seq(Drafts)
    PROVE  /\ Numbered(Sent(rs, qs))
           /\ \A r \in Sent(rs, qs) : r \in rs \/ \E i \in 1..Len(qs) :
                 r.n = Cardinality(rs) + i /\ Alike(r, qs[i])
<1> DEFINE c == Cardinality(rs)
           f == [i \in 1..Len(qs) |-> [qs[i] EXCEPT !.n = c + i]]
           new == {f[i] : i \in 1..Len(qs)}
<1>1. c \in Nat /\ Len(qs) \in Nat /\ DOMAIN qs = 1..Len(qs) /\ IsFiniteSet(rs)
      /\ \A r \in rs : r.n \in Nat /\ r.n <= c
    BY FS_CardinalityType, BooksAssumption DEF Bounded, Requests, Numbered
<1>2. Sent(rs, qs) = rs \cup new
    BY <1>1 DEF Sent
<1> HIDE DEF c
<1>3. ASSUME NEW i \in 1..Len(qs) PROVE f[i].n = c + i /\ Alike(f[i], qs[i])
  <2>1. qs[i] \in Drafts
    BY <1>1
  <2> QED
    BY <2>1 DEF Drafts, Alike
<1> HIDE DEF f
<1>4. IsFiniteSet(new) /\ Cardinality(new) = Len(qs)
  <2>1. IsFiniteSet(1..Len(qs)) /\ Cardinality(1..Len(qs)) = Len(qs)
    <3>1. Len(qs) \in Nat
      BY <1>1
    <3> QED
      BY <3>1, FS_Interval
  <2>2. \A i, j \in 1..Len(qs) : f[i] = f[j] => i = j
    BY <1>1, <1>3
  <2>3. f \in Bijection(1..Len(qs), new)
    BY <2>2 DEF f, Bijection, Injection, Surjection, IsInjective
  <2>4. ExistsBijection(1..Len(qs), new)
    BY <2>3 DEF ExistsBijection
  <2> HIDE DEF new
  <2> QED
    BY <2>1, <2>4, FS_Bijection
<1>5. rs \cap new = {}
    BY <1>1, <1>3
<1>6. Cardinality(rs \cup new) = c + Len(qs)
  <2> HIDE DEF new
  <2>1. Cardinality(rs \cup new) = c + Cardinality(new) - Cardinality(rs \cap new)
    BY <1>1, <1>4, FS_Union DEF c
  <2>2. Cardinality(rs \cap new) = 0
    BY <1>5, FS_EmptySet
  <2>3. c \in Nat /\ Len(qs) \in Nat
    BY <1>1
  <2> QED
    BY <1>4, <2>1, <2>2, <2>3
<1>7. Distinct(rs \cup new)
  <2> SUFFICES ASSUME NEW r \in rs \cup new, NEW q \in rs \cup new, r.n = q.n PROVE r = q
    BY DEF Distinct
  <2>1. CASE r \in rs /\ q \in rs
    BY <2>1 DEF Numbered, Distinct
  <2>2. CASE r \in new /\ q \in new
    <3>1. PICK i \in 1..Len(qs), j \in 1..Len(qs) : r = f[i] /\ q = f[j]
      BY <2>2
    <3>2. i = j
      BY <1>1, <1>3, <3>1
    <3> QED
      BY <3>1, <3>2
  <2>3. CASE r \in rs /\ q \in new
    BY <1>1, <1>3, <2>3
  <2>4. CASE r \in new /\ q \in rs
    BY <1>1, <1>3, <2>4
  <2> QED
    BY <2>1, <2>2, <2>3, <2>4
<1>8. \A r \in rs \cup new : r.n <= Cardinality(rs \cup new)
    BY <1>1, <1>3, <1>6
<1>9. \A r \in new : \E i \in 1..Len(qs) : r.n = c + i /\ Alike(r, qs[i])
    BY <1>3
<1> QED
    BY <1>2, <1>7, <1>8, <1>9 DEF Numbered, c

\* What is no list does not change which list is the last.
LEMMA SentEndsWell ==
    ASSUME NEW rs, Bounded(rs), Numbered(rs), NEW q \in Drafts, q.kind \notin ListKinds,
           NEW p, NEW l, NEW c, NEW s, EndsWell(rs, p, l, c, s)
    PROVE  EndsWell(Sent(rs, <<q>>), p, l, c, s)
<1> DEFINE qs == <<q>>
<1>1. qs \in Seq(Drafts) /\ \A i \in 1..Len(qs) : qs[i] = q
    OBVIOUS
<1> HIDE DEF qs
<1>2. \A r \in Sent(rs, qs) : r \in rs \/ r.kind \notin ListKinds
    BY <1>1, SentFacts DEF Alike
<1>3. Lists(Sent(rs, qs)) = Lists(rs) /\ (CommandDone(rs) => CommandDone(Sent(rs, qs)))
    BY <1>2 DEF Lists, Sent, CommandDone
<1>4. EndsWell(Sent(rs, qs), p, l, c, s)
    BY <1>3 DEF EndsWell, Suits, IsLast, Lists
<1> QED
    BY <1>4 DEF qs

\* The list that is asked for last is the last.
LEMMA SentListEndsWell ==
    ASSUME NEW rs, Bounded(rs), Numbered(rs), NEW qs \in Seq(Drafts), Len(qs) # 0,
           NEW q, q = qs[Len(qs)], q.kind \in ListKinds, q.fresh,
           NEW p, NEW l, NEW c, NEW s, p = "List" => q.category = c
    PROVE  EndsWell(Sent(rs, qs), p, l, c, s)
<1> DEFINE k == Cardinality(rs)
           x == [q EXCEPT !.n = k + Len(qs)]
<1>1. k \in Nat /\ Len(qs) \in Nat /\ q \in Drafts /\ Len(qs) \in DOMAIN qs
    BY FS_CardinalityType DEF Bounded
<1>2. x \in Sent(rs, qs)
    BY <1>1 DEF Sent
<1>3. x.live /\ x.kind \in ListKinds /\ x.n = k + Len(qs)
    BY <1>1 DEF Drafts
<1> HIDE DEF x
<1>4. x \in Lists(Sent(rs, qs))
    BY <1>2, <1>3 DEF Lists
<1>5. ASSUME NEW r \in Sent(rs, qs), IsLast(r, Lists(Sent(rs, qs)))
      PROVE  Suits(r, Sent(rs, qs), p, c, s)
  <2>1. k + Len(qs) <= r.n
    BY <1>3, <1>4, <1>5 DEF IsLast
  <2>2. r \notin rs
    BY <1>1, <2>1, BooksAssumption DEF Numbered, Bounded, Requests
  <2>3. PICK i \in 1..Len(qs) : r.n = k + i /\ Alike(r, qs[i])
    BY <2>2, SentFacts
  <2>4. i = Len(qs)
    BY <1>1, <2>1, <2>3
  <2>5. Alike(r, q)
    BY <2>3, <2>4
  <2> QED
    BY <2>5 DEF Alike, Suits
<1> QED
    BY <1>4, <1>5 DEF EndsWell

\* While the page stays, a command is sent or something is read.
LEMMA AskedKeeps ==
    ASSUME IInv, ListInv, NEW q \in Drafts, q.kind \notin ListKinds,
           q.kind = "createBook" => page = "Create",
           q.kind = "editBook" => page = "Edit",
           Send(requests, <<q>>),
           UNCHANGED <<page, list, category, overtaken, failed, stray>>
    PROVE  ListInv'
<1> DEFINE qs == <<q>>
<1>1. qs \in Seq(Drafts) /\ \A i \in 1..Len(qs) : qs[i] = q
    OBVIOUS
<1>2. Bounded(requests) /\ Numbered(requests)
    BY DEF IInv, ListInv
<1>3. requests' = Sent(requests, qs)
    BY DEF Send, Sent
<1>4. ListEndsWell'
    BY <1>2, <1>3, SentEndsWell DEF ListInv, ListEndsWell
<1> HIDE DEF qs
<1>5. Numbered(requests')
    BY <1>1, <1>2, <1>3, SentFacts
<1>6. \A r \in requests' : r \in requests \/ r.kind = q.kind
    BY <1>1, <1>2, <1>3, SentFacts DEF Alike
<1>7. OwnCommands'
    BY <1>6 DEF ListInv, OwnCommands
<1> QED
    BY <1>4, <1>5, <1>7 DEF ListInv

\* While the page stays, a list is asked for.
LEMMA SearchedKeeps ==
    ASSUME ListInv, NEW rs, Bounded(rs), Numbered(rs), Among(rs, requests),
           NEW q \in Drafts, q.kind \in ListKinds, q.fresh,
           page = "List" => q.category = category',
           Send(rs, <<q>>), page' = page
    PROVE  ListInv'
<1> DEFINE qs == <<q>>
<1>1. qs \in Seq(Drafts) /\ Len(qs) = 1 /\ qs[Len(qs)] = q /\ \A i \in 1..Len(qs) : qs[i] = q
    OBVIOUS
<1>2. requests' = Sent(rs, qs)
    BY DEF Send, Sent
<1> HIDE DEF qs
<1>3. EndsWell(Sent(rs, qs), page, list', category', stray')
  <2>1. qs \in Seq(Drafts) /\ Len(qs) # 0 /\ q = qs[Len(qs)]
    BY <1>1
  <2> QED
    BY <2>1, SentListEndsWell
<1>4. ListEndsWell'
    BY <1>2, <1>3 DEF ListEndsWell
<1>5. Numbered(requests')
    BY <1>1, <1>2, SentFacts
<1>6. \A r \in requests' : r \in rs \/ r.kind \in ListKinds
    BY <1>1, <1>2, SentFacts DEF Alike
<1>7. OwnCommands'
  <2>1. \A r \in rs : \E x \in requests : Same(r, x)
    BY DEF Among
  <2>2. OwnCommands
    BY DEF ListInv
  <2> QED
    BY <1>6, <2>1, <2>2 DEF OwnCommands, Same, ListKinds
<1> QED
    BY <1>4, <1>5, <1>7 DEF ListInv

\* While the page stays, a request is answered that is of no matter to the list.
LEMMA ClosedKeeps ==
    ASSUME IInv, ListInv, NEW r \in requests, Close(r),
           r.live => r.kind \notin ListKinds \cup {"deleteBook", "changeAvailability"},
           UNCHANGED <<page, list, category, overtaken, failed, stray>>
    PROVE  ListInv'
<1>1. Bounded(requests) /\ Numbered(requests) /\ OwnCommands
    BY DEF IInv, ListInv
<1>2. Numbered(requests') /\ Among(requests', requests \ {r})
    BY <1>1, Remaining, WithoutFacts DEF Close
<1>3. OwnCommands'
    BY <1>1, <1>2 DEF OwnCommands, Among, Same
<1>4. ListEndsWell'
    BY <1>1, WithoutEndsWell DEF ListInv, ListEndsWell, Close
<1> QED
    BY <1>2, <1>3, <1>4 DEF ListInv

\* A page asks for its list before the user does anything, last for what the
\* search is set to.
LEMMA InitialLists ==
    ASSUME NEW p \in Pages, NEW b \in IF p \in {"View", "Edit"} THEN Books ELSE {None},
           NEW chosen \in BOOLEAN
    PROVE  LET qs == InitialRequests(p, b, chosen) IN
           /\ qs \in Seq(Drafts)
           /\ \A i \in 1..Len(qs) : qs[i].kind \notin CommandKinds
           /\ p \in {"List", "Mine"} =>
                 /\ Len(qs) # 0 /\ qs[Len(qs)].kind \in ListKinds /\ qs[Len(qs)].fresh
                 /\ qs[Len(qs)].category = chosen
<1> DEFINE qs == InitialRequests(p, b, chosen)
<1>1. qs \in Seq(Drafts) /\ \A i \in 1..Len(qs) : qs[i].kind \notin CommandKinds
  <2>1. ASSUME NEW x, qs = <<x>>, Opening(x, p, b)
        PROVE  qs \in Seq(Drafts) /\ \A i \in 1..Len(qs) : qs[i].kind \notin CommandKinds
    <3>1. x \in Drafts /\ x.kind \notin CommandKinds
      BY <2>1 DEF Opening
    <3> HIDE DEF qs
    <3> QED
      BY <2>1, <3>1
  <2>2. ASSUME NEW x, NEW y, qs = <<x, y>>, Opening(x, p, b), Opening(y, p, b)
        PROVE  qs \in Seq(Drafts) /\ \A i \in 1..Len(qs) : qs[i].kind \notin CommandKinds
    <3>1. x \in Drafts /\ x.kind \notin CommandKinds /\ y \in Drafts /\ y.kind \notin CommandKinds
      BY <2>2 DEF Opening
    <3> HIDE DEF qs
    <3>2. qs \in Seq(Drafts) /\ Len(qs) = 2 /\ qs[1] = x /\ qs[2] = y
      BY <2>2, <3>1
    <3>3. \A i \in 1..Len(qs) : qs[i] = x \/ qs[i] = y
      BY <3>2
    <3> QED
      BY <3>1, <3>2, <3>3
  <2> QED
    BY <2>1, <2>2, InitialRequestsFacts
<1>2. ASSUME p \in {"List", "Mine"} PROVE \E x : qs = <<x, Search(p, chosen)>>
    BY <1>2 DEF InitialRequests
<1>3. /\ Search(p, chosen).kind \in ListKinds /\ Search(p, chosen).fresh
      /\ Search(p, chosen).category = chosen
    BY DEF Search, Request, ListKinds
<1> HIDE DEF qs
<1>4. ASSUME p \in {"List", "Mine"} PROVE Len(qs) # 0 /\ qs[Len(qs)] = Search(p, chosen)
    BY <1>2, <1>4
<1> QED
    BY <1>1, <1>3, <1>4 DEF qs

\* What is left when the user leaves a page is numbered, too.
LEMMA LeaveNumbered ==
    ASSUME NEW rs, Bounded(rs), Distinct(rs)
    PROVE  Numbered(Leave(rs))
<1> DEFINE S == {q \in rs : q.kind \in CommandKinds}
           f == [q \in S |-> [q EXCEPT !.live = FALSE]]
           T == {f[q] : q \in S}
<1>1. IsFiniteSet(S) /\ Cardinality(S) <= Cardinality(rs) /\ S \subseteq Requests
    BY FS_Subset DEF Bounded
<1>2. IsFiniteSet(T) /\ Cardinality(T) <= Cardinality(S)
    BY <1>1, ImageIsFinite
<1>3. Cardinality(T) <= MaxPending
    BY <1>1, <1>2, FS_CardinalityType, BooksAssumption DEF Bounded
<1>4. ASSUME NEW q \in S PROVE f[q] \in Requests /\ f[q].n = q.n
  <2>1. q \in Requests
    BY <1>1
  <2>2. [q EXCEPT !.live = FALSE] \in Requests /\ [q EXCEPT !.live = FALSE].n = q.n
    BY <2>1 DEF Requests
  <2> QED
    BY <2>2
<1>5. Bounded(T)
    BY <1>2, <1>3, <1>4 DEF Bounded
<1>6. Distinct(T)
  <2> HIDE DEF f
  <2> SUFFICES ASSUME NEW x \in T, NEW y \in T, x.n = y.n PROVE x = y
    BY DEF Distinct
  <2>1. PICK q \in S, r \in S : x = f[q] /\ y = f[r]
    OBVIOUS
  <2>2. q = r
    BY <1>4, <2>1 DEF Distinct
  <2> QED
    BY <2>1, <2>2
<1> QED
    BY <1>5, <1>6, RankedOrder DEF Leave

\* A page is shown anew.
LEMMA ShownKeeps ==
    ASSUME NEW p \in Pages, NEW b \in IF p \in {"View", "Edit"} THEN Books ELSE {None},
           NEW chosen \in BOOLEAN, NEW rs, Bounded(rs), Distinct(rs), Show(p, b, chosen, rs)
    PROVE  ListInv'
<1> DEFINE qs == InitialRequests(p, b, chosen)
           left == Leave(rs)
<1>1. Bounded(left) /\ Numbered(left) /\ \A r \in left : r.live = FALSE
    BY LeaveFacts, LeaveNumbered
<1>2. requests' = Sent(left, qs) /\ page' = p /\ category' = chosen
    BY DEF Show, Send, Sent
<1>3. /\ qs \in Seq(Drafts)
      /\ \A i \in 1..Len(qs) : qs[i].kind \notin CommandKinds
      /\ p \in {"List", "Mine"} =>
            /\ Len(qs) # 0 /\ qs[Len(qs)].kind \in ListKinds /\ qs[Len(qs)].fresh
            /\ qs[Len(qs)].category = chosen
    BY InitialLists
<1> HIDE DEF qs, left
<1>4. ListEndsWell'
  <2>1. ASSUME p \in {"List", "Mine"} PROVE EndsWell(Sent(left, qs), p, list', chosen, stray')
    BY <1>1, <1>3, <2>1, SentListEndsWell
  <2> QED
    BY <1>2, <2>1 DEF ListEndsWell
<1>5. Numbered(requests')
    BY <1>1, <1>2, <1>3, SentFacts
<1>6. \A r \in requests' : r \in left \/ r.kind \notin CommandKinds
    BY <1>1, <1>2, <1>3, SentFacts DEF Alike
<1>7. OwnCommands'
    BY <1>1, <1>6 DEF OwnCommands, CommandKinds
<1> QED
    BY <1>4, <1>5, <1>7 DEF ListInv

LEMMA InitLists == Init => ListInv
<1> SUFFICES ASSUME Init PROVE ListInv
    OBVIOUS
<1> DEFINE qs == InitialRequests(page, book, params)
<1>1. page \in Pages /\ params \in BOOLEAN /\ category = params
      /\ book \in IF page \in {"View", "Edit"} THEN Books ELSE {None}
    BY DEF Init
<1>2. /\ qs \in Seq(Drafts)
      /\ \A i \in 1..Len(qs) : qs[i].kind \notin CommandKinds
      /\ page \in {"List", "Mine"} =>
            /\ Len(qs) # 0 /\ qs[Len(qs)].kind \in ListKinds /\ qs[Len(qs)].fresh
            /\ qs[Len(qs)].category = params
    BY <1>1, InitialLists
<1>3. requests = {[qs[i] EXCEPT !.n = i] : i \in DOMAIN qs}
    BY DEF Init
<1> HIDE DEF qs
<1>4. Bounded({}) /\ Numbered({}) /\ Cardinality({}) = 0
    BY FS_EmptySet, BooksAssumption DEF Bounded, Numbered, Distinct
<1>5. requests = Sent({}, qs)
  <2>1. DOMAIN qs = 1..Len(qs) /\ \A i \in 1..Len(qs) : 0 + i = i
    BY <1>2
  <2> QED
    BY <1>3, <1>4, <2>1 DEF Sent
<1>6. Numbered(requests) /\ \A r \in requests : r.kind \notin CommandKinds
    BY <1>2, <1>4, <1>5, SentFacts DEF Alike
<1>7. OwnCommands
    BY <1>6 DEF OwnCommands, CommandKinds
<1>8. ASSUME page \in {"List", "Mine"}
      PROVE  EndsWell(Sent({}, qs), page, list, category, stray)
    BY <1>1, <1>2, <1>4, <1>8, SentListEndsWell
<1> QED
    BY <1>5, <1>6, <1>7, <1>8 DEF ListInv, ListEndsWell

\* The user follows a link.
LEMMA NavigateLists == IInv /\ ListInv /\ Navigate => ListInv'
<1> SUFFICES ASSUME IInv, ListInv, Navigate PROVE ListInv'
    OBVIOUS
<1>1. /\ TypeOK /\ PageFits /\ Bounded(requests) /\ Among(requests, requests)
      /\ Numbered(requests) /\ Distinct(requests)
    BY SameIsReflexive DEF IInv, Among, ListInv, Numbered
<1>2. ASSUME NEW p \in Pages, GoTo(p) PROVE ListInv'
  <2>1. PICK chosen \in BOOLEAN : Show(p, None, chosen, requests)
    BY <1>2 DEF GoTo
  <2>2. None \in IF p \in {"View", "Edit"} THEN Books ELSE {None}
    BY <1>2 DEF GoTo
  <2> QED
    BY <1>1, <2>1, <2>2, ShownKeeps
<1>3. ASSUME NEW p \in Pages, NEW b \in Books, Follow(p, b) PROVE ListInv'
  <2>1. Show(p, b, FALSE, requests) /\ b \in IF p \in {"View", "Edit"} THEN Books ELSE {None}
    BY <1>3 DEF Follow
  <2> QED
    BY <1>1, <2>1, ShownKeeps
<1>4. CASE DropCategory
  <2>1. Search(page, FALSE) \in Drafts
    BY <1>1, DraftsFit
  <2>2. /\ Search(page, FALSE).kind \in ListKinds /\ Search(page, FALSE).fresh
        /\ Search(page, FALSE).category = FALSE
    BY DEF Search, Request, ListKinds
  <2>3. Send(requests, <<Search(page, FALSE)>>) /\ category' = FALSE /\ page' = page
    BY <1>4 DEF DropCategory
  <2> QED
    BY <1>1, <2>1, <2>2, <2>3, SearchedKeeps
<1> QED
    BY <1>2, <1>3, <1>4 DEF Navigate

\* The user acts on the page.
LEMMA ActLists == IInv /\ ListInv /\ Act => ListInv'
<1> SUFFICES ASSUME IInv, ListInv, Act PROVE ListInv'
    OBVIOUS
<1> USE DEF componentVars, historyVars
<1>1. /\ TypeOK /\ PageFits /\ Bounded(requests) /\ Among(requests, requests)
      /\ Numbered(requests)
    BY SameIsReflexive DEF IInv, Among, ListInv
<1>2. ASSUME NEW chosen \in BOOLEAN, SubmitSearch(chosen) PROVE ListInv'
  <2>1. Search(page, chosen) \in Drafts
    BY <1>1, DraftsFit
  <2>2. /\ Search(page, chosen).kind \in ListKinds /\ Search(page, chosen).fresh
        /\ Search(page, chosen).category = chosen
    BY DEF Search, Request, ListKinds
  <2>3. Send(requests, <<Search(page, chosen)>>) /\ category' = chosen /\ page' = page
    BY <1>2 DEF SubmitSearch
  <2> QED
    BY <1>1, <2>1, <2>2, <2>3, SearchedKeeps
<1>3. ASSUME NEW b \in Books, ChangeAvailability(b) PROVE ListInv'
  <2> DEFINE draft == [Request("changeAvailability") EXCEPT !.book = b]
  <2>1. draft \in Drafts /\ draft.kind = "changeAvailability"
    BY <1>1, DraftsFit DEF Request
  <2>2. Send(requests, <<draft>>)
    BY <1>3 DEF ChangeAvailability
  <2> HIDE DEF draft
  <2> QED
    BY <1>3, <2>1, <2>2, AskedKeeps DEF ChangeAvailability, ListKinds
<1>4. CASE DeleteBook
  <2> DEFINE draft == [Request("deleteBook") EXCEPT !.book = target, !.base = asked]
  <2>1. draft \in Drafts /\ draft.kind = "deleteBook"
    BY <1>1, DraftsFit DEF Request
  <2>2. Send(requests, <<draft>>)
    BY <1>4 DEF DeleteBook
  <2> HIDE DEF draft
  <2> QED
    BY <1>4, <2>1, <2>2, AskedKeeps DEF DeleteBook, ListKinds
<1>5. CASE CreateBook
  <2>1. Request("createBook") \in Drafts /\ Request("createBook").kind = "createBook"
    BY <1>1, DraftsFit DEF Request
  <2>2. Send(requests, <<Request("createBook")>>) /\ page = "Create"
    BY <1>5 DEF CreateBook
  <2> QED
    BY <1>5, <2>1, <2>2, AskedKeeps DEF CreateBook, ListKinds
<1>6. CASE EditBook
  <2> DEFINE draft == [Request("editBook") EXCEPT !.book = book, !.base = details]
  <2>1. draft \in Drafts /\ draft.kind = "editBook"
    BY <1>1, <1>6, DraftsFit DEF Request, EditBook
  <2>2. Send(requests, <<draft>>) /\ page = "Edit"
    BY <1>6 DEF EditBook
  <2> HIDE DEF draft
  <2> QED
    BY <1>6, <2>1, <2>2, AskedKeeps DEF EditBook, ListKinds
<1>7. ASSUME \/ \E b \in Books : OpenModal(b)
             \/ CancelModal
             \/ Fade
             \/ FillForm
      PROVE ListInv'
  <2>1. UNCHANGED <<page, list, category, requests, overtaken, failed, stray>>
    BY <1>7 DEF OpenModal, CancelModal, Fade, FillForm, requestVars
  <2> QED
    BY <2>1 DEF ListInv, OwnCommands, ListEndsWell
<1> QED
    BY <1>2, <1>3, <1>4, <1>5, <1>6, <1>7 DEF Act

\* The requests of a set each make some progress.
LEMMA ProgressLists ==
    ASSUME IInv, ListInv, NEW f \in [requests -> Requests],
           requests' = {f[q] : q \in requests}, page' = page,
           \A q \in requests : /\ f[q].n = q.n /\ f[q].live = q.live
                               /\ f[q].kind = q.kind /\ f[q].category = q.category
    PROVE  Orderly(f, requests, requests') /\ Numbered(requests') /\ OwnCommands'
<1>1. Bounded(requests) /\ Numbered(requests) /\ OwnCommands
    BY DEF IInv, ListInv
<1>2. f \in [requests -> requests'] /\ \A q, r \in requests : f[q] = f[r] => q = r
    BY <1>1 DEF Numbered, Distinct
<1>3. Orderly(f, requests, requests')
    BY <1>2 DEF Orderly
<1>4. Cardinality(requests') = Cardinality(requests)
  <2>1. f \in Bijection(requests, requests')
    BY <1>2 DEF Bijection, Injection, Surjection, IsInjective
  <2>2. ExistsBijection(requests, requests')
    BY <2>1 DEF ExistsBijection
  <2>3. IsFiniteSet(requests)
    BY <1>1 DEF Bounded
  <2> QED
    BY <2>2, <2>3, FS_Bijection
<1>5. \A x \in requests' : \E q \in requests : x = f[q]
    OBVIOUS
<1>6. Numbered(requests')
  <2>1. \A x \in requests' : x.n <= Cardinality(requests')
    BY <1>1, <1>4, <1>5 DEF Numbered
  <2>2. Distinct(requests')
    <3> SUFFICES ASSUME NEW x \in requests', NEW y \in requests', x.n = y.n PROVE x = y
      BY DEF Distinct
    <3>1. PICK q \in requests, r \in requests : x = f[q] /\ y = f[r]
      BY <1>5
    <3>2. q = r
      BY <1>1, <3>1 DEF Numbered, Distinct
    <3> QED
      BY <3>1, <3>2
  <2> QED
    BY <2>1, <2>2 DEF Numbered
<1>7. OwnCommands'
    BY <1>1, <1>5 DEF OwnCommands
<1> QED
    BY <1>3, <1>6, <1>7

\* The service reads rows, or appends an event.
LEMMA ServeLists == IInv /\ ListInv /\ Serve => ListInv'
<1> SUFFICES ASSUME IInv, ListInv, NEW r \in requests, ServeList(r) \/ ServeCommand(r)
             PROVE  ListInv'
    BY DEF Serve
<1>1. requests \subseteq Requests /\ TypeOK /\ OwnCommands
    BY DEF IInv, TypeOK, ListInv
<1>2. UNCHANGED <<page, category, overtaken, failed>>
    BY DEF ServeList, ServeCommand, componentVars, historyVars
<1> DEFINE served == [r EXCEPT !.done = TRUE]
           stale(q) == [q EXCEPT !.fresh = FALSE]
<1>3. /\ served \in Requests /\ served.n = r.n /\ served.live = r.live
      /\ served.kind = r.kind /\ served.category = r.category
      /\ served.fresh = r.fresh /\ served.done = TRUE
    BY <1>1 DEF Requests
<1>4. ASSUME NEW q \in requests
      PROVE  /\ stale(q) \in Requests /\ stale(q).n = q.n /\ stale(q).live = q.live
             /\ stale(q).kind = q.kind /\ stale(q).category = q.category
             /\ stale(q).done = q.done
    BY <1>1 DEF Requests
<1>5. CASE ServeList(r)
  <2> DEFINE f == [q \in requests |-> IF q = r THEN served ELSE q]
  <2>1. requests' = (requests \ {r}) \cup {served} /\ r.kind \in ListKinds
        /\ UNCHANGED <<list, stray>>
    BY <1>5 DEF ServeList, componentVars, historyVars
  <2> HIDE DEF served, stale
  <2>2. /\ f \in [requests -> Requests]
        /\ requests' = {f[q] : q \in requests}
        /\ \A q \in requests : /\ f[q].n = q.n /\ f[q].live = q.live
                               /\ f[q].kind = q.kind /\ f[q].category = q.category
                               /\ f[q].fresh = q.fresh /\ (q.done => f[q].done)
    BY <1>1, <1>3, <2>1
  <2> HIDE DEF f
  <2>3. Orderly(f, requests, requests') /\ Numbered(requests') /\ OwnCommands'
    BY <1>2, <2>2, ProgressLists
  <2>4. CommandDone(requests) => CommandDone(requests')
    BY <2>2 DEF CommandDone
  <2>5. ASSUME EndsWell(requests, page, list, category, stray)
        PROVE  EndsWell(requests', page, list, category, stray)
    <3>1. Lists(requests') = {} => Suits(list, requests', page, category, stray)
      BY <2>3, <2>4, <2>5, OrderlyLists DEF EndsWell, Suits
    <3>2. ASSUME NEW x \in requests', IsLast(x, Lists(requests'))
          PROVE  Suits(x, requests', page, category, stray)
      <4>1. PICK q \in requests : IsLast(q, Lists(requests)) /\ x = f[q]
        BY <2>3, <3>2, OrderlyLists
      <4> QED
        BY <2>2, <2>4, <2>5, <4>1 DEF EndsWell, Suits
    <3> QED
      BY <3>1, <3>2 DEF EndsWell
  <2>6. ListEndsWell'
    BY <1>2, <2>1, <2>5 DEF ListInv, ListEndsWell
  <2> QED
    BY <2>3, <2>6 DEF ListInv
<1>6. CASE ServeCommand(r)
  <2> DEFINE seen(q) == q.done /\ q.kind \in ListKinds
             f == [q \in requests |-> IF q = r THEN served ELSE IF seen(q) THEN stale(q) ELSE q]
  <2>1. /\ requests' = {IF seen(q) THEN stale(q) ELSE q : q \in requests \ {r}} \cup {served}
        /\ r.kind \in CommandKinds
        /\ stray' = (stray \/ ~r.live)
    BY <1>6 DEF ServeCommand
  <2>2. list'.category = list.category
    BY <1>1, <1>6 DEF ServeCommand, TypeOK
  <2> HIDE DEF served, stale, seen
  <2>3. /\ f \in [requests -> Requests]
        /\ requests' = {f[q] : q \in requests}
        /\ \A q \in requests : /\ f[q].n = q.n /\ f[q].live = q.live
                               /\ f[q].kind = q.kind /\ f[q].category = q.category
    BY <1>1, <1>3, <1>4, <2>1
  <2>4. served \in requests'
    BY <2>1
  <2> HIDE DEF f
  <2>5. Orderly(f, requests, requests') /\ Numbered(requests') /\ OwnCommands'
    BY <1>2, <2>3, ProgressLists
  <2>6. page \in {"List", "Mine"} => stray' \/ CommandDone(requests')
    BY <1>1, <1>3, <2>1, <2>4 DEF OwnCommands, CommandKinds, CommandDone
  <2>7. ASSUME page \in {"List", "Mine"}, EndsWell(requests, page, list, category, stray)
        PROVE  EndsWell(requests', page, list', category, stray')
    <3>1. Lists(requests') = {} => Suits(list', requests', page, category, stray')
      BY <2>2, <2>5, <2>6, <2>7, OrderlyLists DEF EndsWell, Suits
    <3>2. ASSUME NEW x \in requests', IsLast(x, Lists(requests'))
          PROVE  Suits(x, requests', page, category, stray')
      <4>1. PICK q \in requests : IsLast(q, Lists(requests)) /\ x = f[q]
        BY <2>5, <3>2, OrderlyLists
      <4> QED
        BY <2>3, <2>6, <2>7, <4>1 DEF EndsWell, Suits
    <3> QED
      BY <3>1, <3>2 DEF EndsWell
  <2>8. ListEndsWell'
    BY <1>2, <2>7 DEF ListInv, ListEndsWell
  <2> QED
    BY <2>5, <2>8 DEF ListInv
<1> QED
    BY <1>5, <1>6

\* An answer comes.
LEMMA AnswerLists == IInv /\ ListInv /\ Answer => ListInv'
<1> SUFFICES ASSUME IInv, ListInv, NEW r \in requests,
                    \/ AnswerError(r)
                    \/ AnswerUnseen(r)
                    \/ AssignBooks(r)
                    \/ AssignBook(r)
                    \/ AssignCategories(r)
                    \/ Created(r)
                    \/ Edited(r)
                    \/ Commanded(r)
             PROVE  ListInv'
    BY DEF Answer
<1> USE DEF componentVars, historyVars
<1>1. /\ TypeOK /\ RequestsFit /\ PageFits /\ Bounded(requests)
      /\ Numbered(requests) /\ OwnCommands
    BY DEF IInv, ListInv
<1>2. /\ Bounded(Without(r)) /\ Numbered(Without(r)) /\ Distinct(Without(r))
      /\ Among(Without(r), requests)
    BY <1>1, Remaining, WithoutFacts DEF Among, Numbered
<1>3. Close(r) /\ page' = page => Numbered(requests') /\ OwnCommands'
    BY <1>1, <1>2 DEF Close, OwnCommands, Among, Same
<1>4. CASE AnswerError(r)
  <2>1. Close(r) /\ failed' = (failed \/ r.live)
        /\ UNCHANGED <<componentVars, asked, overtaken, stray>>
    BY <1>4 DEF AnswerError
  <2>2. CASE r.live
    BY <1>3, <2>1, <2>2 DEF ListInv, ListEndsWell
  <2>3. CASE ~r.live
    <3>1. failed' = failed
      BY <1>1, <2>1, <2>3 DEF TypeOK
    <3> QED
      BY <2>1, <2>3, <3>1, ClosedKeeps
  <2> QED
    BY <2>2, <2>3
<1>5. CASE AnswerUnseen(r)
  <2>1. /\ Close(r) /\ UNCHANGED <<componentVars, historyVars>>
        /\ r.live => r.kind \in {"viewBook", "getStatistics"}
    BY <1>5 DEF AnswerUnseen, Received
  <2> QED
    BY <2>1, ClosedKeeps DEF ListKinds
<1>6. CASE AssignBooks(r)
  <2>1. /\ Close(r) /\ r.live /\ r.kind \in ListKinds
        /\ list' = [shown |-> TRUE, path |-> r.path, category |-> r.category, fresh |-> r.fresh]
        /\ overtaken' = (overtaken \/ \E q \in requests :
                            q.live /\ q.kind \in ListKinds /\ q.n < r.n)
        /\ UNCHANGED <<page, category, failed, stray>>
    BY <1>6 DEF AssignBooks, Received
  <2>2. ASSUME EndsWell(requests, page, list, category, stray), ~overtaken'
        PROVE  EndsWell(Without(r), page, list', category, stray)
    <3>1. \A q \in requests : q.live /\ q.kind \in ListKinds => ~(q.n < r.n)
      BY <2>1, <2>2
    <3>2. list'.category = r.category /\ list'.fresh = r.fresh
      BY <2>1
    <3> QED
      BY <1>1, <2>1, <2>2, <3>1, <3>2, AssignedEndsWell
  <2>3. ListEndsWell'
    BY <2>1, <2>2 DEF ListInv, ListEndsWell, Close
  <2> QED
    BY <1>3, <2>1, <2>3 DEF ListInv
<1>7. CASE AssignBook(r) \/ AssignCategories(r)
  <2>1. /\ Close(r) /\ r.kind \in {"getBook", "getCategories"}
        /\ UNCHANGED <<page, list, category, overtaken, failed, stray>>
    BY <1>7 DEF AssignBook, AssignCategories, Received
  <2> QED
    BY <2>1, ClosedKeeps DEF ListKinds
<1>8. CASE Created(r)
  <2>1. r.kind = "createBook"
    BY <1>8 DEF Created, Received
  <2>2. CASE Show("Mine", None, FALSE, Without(r))
    BY <1>2, <2>2, ShownKeeps DEF Pages
  <2>3. CASE Close(r) /\ UNCHANGED <<componentVars, historyVars>>
    BY <2>1, <2>3, ClosedKeeps DEF ListKinds
  <2> QED
    BY <1>8, <2>2, <2>3 DEF Created
<1>9. CASE Edited(r)
  <2>1. r.kind = "editBook"
    BY <1>9 DEF Edited, Received
  <2>2. CASE Show("List", None, FALSE, Without(r))
    BY <1>2, <2>2, ShownKeeps DEF Pages
  <2>3. ASSUME params' = FALSE, category' = IF params THEN FALSE ELSE category,
               Send(Without(r), IF params THEN <<Search(page, FALSE)>> ELSE <<>>),
               UNCHANGED <<page, book, details, categories, list, popUp, target, historyVars>>
        PROVE  ListInv'
    <3>1. CASE params
      <4>1. Send(Without(r), <<Search(page, FALSE)>>) /\ category' = FALSE /\ page' = page
        BY <2>3, <3>1
      <4>2. /\ Search(page, FALSE) \in Drafts
            /\ Search(page, FALSE).kind \in ListKinds /\ Search(page, FALSE).fresh
            /\ Search(page, FALSE).category = FALSE
        BY <1>1, DraftsFit DEF Search, Request, ListKinds
      <4> QED
        BY <1>2, <4>1, <4>2, SearchedKeeps
    <3>2. CASE ~params
      <4>1. Send(Without(r), <<>>) /\ category' = category
        BY <2>3, <3>2
      <4>2. Close(r)
        BY <1>1, <4>1 DEF Send, Close, TypeOK
      <4> QED
        BY <2>1, <2>3, <4>1, <4>2, ClosedKeeps DEF ListKinds
    <3> QED
      BY <3>1, <3>2
  <2> QED
    BY <1>9, <2>2, <2>3 DEF Edited
<1>10. CASE Commanded(r)
  <2>1. /\ r.live /\ r.kind \in {"deleteBook", "changeAvailability"}
        /\ Send(Without(r), <<GetUserBooks>>) /\ page' = page
    BY <1>10 DEF Commanded, Received
  <2>2. page = "Mine"
    BY <1>1, <2>1 DEF RequestsFit, Fits
  <2>3. GetUserBooks \in Drafts /\ GetUserBooks.kind \in ListKinds /\ GetUserBooks.fresh
    BY <1>1, <2>2, DraftsFit DEF GetUserBooks, Request, ListKinds
  <2> QED
    BY <1>2, <2>1, <2>2, <2>3, SearchedKeeps
<1> QED
    BY <1>4, <1>5, <1>6, <1>7, <1>8, <1>9, <1>10

\* Nothing happens in this tab.
LEMMA StutterLists == ListInv /\ UNCHANGED vars => ListInv'
BY DEF vars, componentVars, requestVars, historyVars, ListInv, OwnCommands, ListEndsWell

-----------------------------------------------------------------------------
(* Theorems                                                                 *)

\* The pages and the requests under way always fit each other.
THEOREM Invariance == Spec => []IInv
<1>1. IInv /\ [Next]_vars => IInv'
    BY NavigateKeeps, ActKeeps, ServeKeeps, AnswerKeeps, StutterKeeps DEF Next
<1> QED
    BY InitInvariant, <1>1, PTL DEF Spec

\* Every variable of the pages keeps its type: what is assigned to a component
\* is what its template expects.
THEOREM TypeCorrect == Spec => []TypeOK
<1>1. IInv => TypeOK
    BY DEF IInv
<1> QED
    BY Invariance, <1>1, PTL

\* What EditComponent sends for an ad was filled in from that ad, or by hand.
THEOREM EditsGoToTheirBook == Spec => []EditSavesItsBook
<1>1. IInv => EditSavesItsBook
    BY DEF IInv, RequestsFit, Fits, EditSavesItsBook
<1> QED
    BY Invariance, <1>1, PTL

\* EditComponent's form is the ad's as soon as its answer is there, whether the
\* categories came before it or not.
THEOREM FormIsFilled == Spec => []FormGetsItsBook
<1>1. IInv => FormGetsItsBook
    BY DEF IInv, PageFits
<1> QED
    BY Invariance, <1>1, PTL

\* ListComponent never shows the answer to a search among the publisher's ads.
THEOREM ClosedAdsStayHidden == Spec => []ListHidesClosedAds
<1>1. IInv => ListHidesClosedAds
    BY DEF IInv, PageFits
<1> QED
    BY Invariance, <1>1, PTL

\* PublisherBooksComponent.deleteBook asks for the ad its pop-up was opened for.
THEOREM DeletionsWereAskedFor == Spec => []DeletesWhatWasAsked
<1>1. IInv => DeletesWhatWasAsked
    BY DEF IInv, RequestsFit, Fits, DeletesWhatWasAsked
<1> QED
    BY Invariance, <1>1, PTL

\* The list that is asked for last is the one that the page ends with.
THEOREM ListInvariance == Spec => []ListInv
<1>1. IInv /\ ListInv /\ [Next]_vars => ListInv'
    BY NavigateLists, ActLists, ServeLists, AnswerLists, StutterLists DEF Next
<1> QED
    BY InitLists, Invariance, <1>1, PTL DEF Spec

\* ListComponent ends with what the last search of SearchComponent asked for,
\* and not with what fetchBooks asked for first.
THEOREM LastSearchIsAnswered == Spec => []ListAnswersLastSearch
<1>1. ListInv => ListAnswersLastSearch
  <2> SUFFICES ASSUME ListInv, page = "List", ~Awaiting(ListKinds), ~overtaken, ~failed
               PROVE  list.category = category
    BY DEF ListAnswersLastSearch
  <2>1. Lists(requests) = {}
    BY DEF Lists, Awaiting
  <2> QED
    BY <2>1 DEF ListInv, ListEndsWell, EndsWell, Suits
<1> QED
    BY ListInvariance, <1>1, PTL

\* What List and Mine end with was read after the last command of the page, for
\* the list is asked for anew when its answer comes.
THEOREM CommandsAreSeen == Spec => []ListReadAfterCommands
<1>1. ListInv => ListReadAfterCommands
  <2> SUFFICES ASSUME ListInv, page \in {"List", "Mine"},
                      ~Awaiting(ListKinds \cup CommandKinds), ~overtaken, ~failed, ~stray
               PROVE  list.fresh
    BY DEF ListReadAfterCommands
  <2>1. Lists(requests) = {} /\ ~CommandDone(requests)
    BY DEF Lists, Awaiting, CommandDone, CommandKinds
  <2> QED
    BY <2>1 DEF ListInv, ListEndsWell, EndsWell, Suits
<1> QED
    BY ListInvariance, <1>1, PTL
=============================================================================

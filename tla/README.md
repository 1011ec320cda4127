# BooksRentalSystem: TLA+ models and proofs

BooksRentalSystem rents out books. It is a set of .NET services around an event
store: the Publishers and Identity services append events to the streams of
their aggregates, and other services follow the category streams through
persistent subscriptions to keep a read model, count ads and notify users. This
directory holds TLA+ modules of the parts in which order, concurrency and
failure matter, the browser application among them, the TLC configurations that check them, and theorems about them
with proofs for TLAPS. `PROJECT.json` maps every definition to the lines it
models, and lists the runs, the hazards, the findings and the theorems.

Paths below are relative to `src/`; `ES/` stands for
`BooksRentalSystem.EventSourcing/` and `App/` for
`BooksRentalSystem.WebApp/src/app/`.

## 1. The system

| component | state | operations | interacts with |
|---|---|---|---|
| Aggregates (`ES/Aggregates/Aggregate.cs`, `BookAdAggregate`, `UserAggregate`) | `Version`, uncommitted changes, fields | `Apply`, `Load`, `When` | rebuilt and saved by the repository |
| Repository (`ES/Repositories/EventStoreAggregateRepository.cs`) | none; every request has its own | `LoadAsync`, `SaveAsync` | event store, snapshot store |
| Snapshot store (`BooksRentalSystem.Snapshotting.MongoMemory`) | a MongoDB collection, an in-memory database per process | `GetByVersionOrLast`, `Save` | repository |
| Subscription hosted service (`ES/HostedServices/EventStoreSubscriptionHostedService.cs`) | `_persistentSubscriptions` | `StartAsync`, `StopAsync`, `SubscriptionDropped`, `EventAppeared` | event store, the handlers |
| Book ad commands (`BooksRentalSystem.Publishers`, `BookAdsController`) | none | create, view, edit, delete, change availability | reads the read model, saves through the repository |
| Read model (`BooksRentalSystem.Publishers.Projections`) | rows of ads, authors, publishers | one handler per event type | behind two subscriptions; read by Publishers |
| Statistics | `TotalBookAds`, `ProcessedBookAds` | handler of creations, a skip handler | behind its own subscription |
| Registration (`BooksRentalSystem.Identity`) | users (SQL), streams of users | register, edit, log in | event store; projected into publishers |
| Notifications | SignalR group of connections | broadcast of creations, connect, disconnect | behind its own subscription |
| Outbox (`BooksRentalSystem.Common/Messages`) | `Messages` table | recurring job: publish, mark, save | a message bus; registered by no service |
| Other snapshot stores (Anabasis.*, Minio, MongoDb) | one database each | as above | used by no service |
| WebApp: pages of books (`App/books`, `App/shared/home`) | the fields of the component shown; requests under way | pages, links, forms, pop-up, searches; answers | Publishers service |
| WebApp: session (`App/authentication`, `App/publishers`, `App/shared`) | localStorage of the browser; each tab's copies | log in, register, log out, change profile and password, reload, guard | Identity, Publishers, the hub of Notifications |
| Admin, Watchdog, test console | none that is shared | HTTP clients, health checks, a script | the services |

What is hard about it, and what makes each part correct:

* **Repository and snapshots.** A load takes up to four awaits (newest slice,
  memory, MongoDB, forward read) while other requests append; a save appends with
  `StreamState.Any` and then may take a snapshot in up to six more. Correct: every
  load returns the result of a prefix of the stream that is no older than the
  request; no snapshot differs from the events it stands for; every completed
  interval gets one; the in-memory database, lost on a restart, never knew more
  than MongoDB.
* **Connections.** They drop while they are being opened, stored, replaced or
  closed. Correct: a group has one consumer per element in a process, none is
  lost track of, a lost one comes back.
* **Events.** They arrive at least once: again after a lost answer, a lost
  connection, a crash, a restart of the store; a handler that throws parks its
  event for good. Correct: none is lost on the way, duplicates do no harm, and
  the read model and the count come to what the events say.
* **Commands against a read model that lags behind.** Correct: whatever is
  let through, the read model converges and a deletion is final.
* **Registration.** An account is written to one database and the first event of
  its user to another; the publisher follows through a subscription, and ads are
  created with the id that is found by then. Correct: a user has one publisher,
  which comes to the latest profile; ads reach their owners; it is known what
  becomes of a registration that was interrupted.

* **Pages.** Nobody unsubscribes: answers come in any order, to pages that were
  left, and navigate when they come. Correct: what is saved for an ad was read
  from that ad, what is deleted was asked about, a list shows what it is for and
  is read again after a command.
* **Session.** Tabs share the token and the id, and copy both. Correct: the two
  are of one user; a tab shows and asks for one user; a late answer ends no
  other's session; nobody stays behind the guard without a token.

`PROJECT.json` lists 40 hazards at their lines, with the properties that would
catch each one going wrong, or the reason why none does yet.

## 2. Modules

| module | models | extends |
|---|---|---|
| `Aggregate` | aggregates as the sequence of events applied to them; reads of a stream; intervals | SequencesExt |
| `AggregateStore` | abstract: what `IEventStoreAggregateRepository` promises, without snapshots | |
| `AggregateRepository` | `LoadAsync`, `SaveAsync`, the snapshot store, overlapping requests, failures | Aggregate |
| `MCAggregateRepository` | instances of it for TLC | AggregateRepository |
| `AggregateRepositoryProofs` | lemmas on reads, slices, intervals and `Load`; theorems on the repository | AggregateRepository, TLAPS |
| `SubscriptionLifecycle` | `StartAsync`, `SubscriptionDropped`, `StopAsync` | Naturals |
| `ConnectionSlots` | abstract: one consumer for each element of the array, without calls and callbacks | |
| `SubscriptionLifecycleProofs` | theorems on it | SubscriptionLifecycle, TLAPS |
| `PersistentSubscription` | the server's redelivery, the client's buffer, `EventAppeared` | |
| `ReplayedLog` | abstract: the order in which handlers are given events, without server, connection and buffer | Naturals, Sequences |
| `BookAdReadModel` | commands on an ad, its read model, behind a subscription | PersistentSubscription |
| `BookAdStatistics` | the Statistics service behind a subscription | PersistentSubscription |
| `UserRegistration` | accounts, streams of users, publishers, the creation of an ad | PersistentSubscription |
| `PersistentSubscriptionProofs` | lemmas: what the subscription preserves, and in which order it delivers | PersistentSubscription, TLAPS |
| `BookAdReadModelProofs` | theorems on the read model | BookAdReadModel, PersistentSubscriptionProofs |
| `BookAdStatisticsProofs` | theorems on Statistics | BookAdStatistics, PersistentSubscriptionProofs |
| `UserRegistrationProofs` | theorems on the registration | UserRegistration, PersistentSubscriptionProofs |
| `WebAppBooks` | the pages of the application that show and change ads, in one tab | Sequences, FiniteSets |
| `WebAppSession` | who is logged in, in the tabs of one browser | FiniteSets |
| `MCWebAppBooks`, `MCWebAppSession` | their symmetries for TLC | WebAppBooks, WebAppSession |
| `WebAppBooksProofs`, `WebAppSessionProofs` | theorems on them | WebAppBooks, WebAppSession, TLAPS |

**AggregateRepository.** One aggregate, many requests. `pc[c]` is the call a
request awaits: a step runs from one await to the next, and everything between
them belongs to it. `stream` is the length of the stream, an event is its
number, an aggregate is its `Version` and the sequence of the numbers `When` was
called with; two aggregates are equal only if they applied the same events in
the same order, so the properties hold whatever the events mean. `LoadLatest`
is the first read of `LoadAsync`; `LookupMemory` and `LookupMongo` are
`GetByVersionOrLast`, for the three places that call it (`purpose`);
`LoadFromSnapshot` has the three branches of `LoadAsync`; `AppendToStream` is
`SaveAsync` up to its first lookup; `ExtendSnapshot`, `ForwardRead`,
`InsertMongo`, `InsertMemory` take the snapshot. `CallFails` (a call throws
without effect), `ReplyLost` (it throws after its effect) and `Restart` are the
failures. Variables marked "history" only record what properties refer to.

**SubscriptionLifecycle.** A call of `SubscribeToStreamAsync`, with the
connection it opens, is a number; `sub[s]` is its state, `slot[s]` the element
it is for, `slots` the array. `Start` makes the calls; `AwaitSucceeds` and
`AwaitFails` (`Retry`, `GiveUp`, `Advance`) are the loop over them; `Replace`,
`Ignore` and `Store` are the callback before and after its await; `Stop` is
`StopAsync`, which the host calls after `StartAsync`. A task that failed stays
failed: `Retry` leaves `sub` as it is. The event store sees less of it: `Link(i)` maps
the calls for an element to the state of its one consumer, and under this mapping
the module implements `ConnectionSlots`: a callback that is about to look itself up
is a consumer that is broken, one that `Ignore`s what it finds, or whose call fails,
is gone.

**PersistentSubscription.** The category stream `log`, what the server has sent
(`sent`), is to send again (`retry`), has parked (`parked`) and waits to hear of
(`inflight`); the client's buffer (`queue`) and the answer `EventAppeared` is
about to give. The modules that extend it conjoin each of their handlers with
`Handled(p, ack)`, so that a handler's effect and its answer belong together
and a loss of the connection can still come between the effect and the server's
knowledge of it. The server itself is not in the repository and is modelled as
the code uses it. Handlers see less of it: `HandledUpTo`, what was sent and is neither
in the queue nor to be sent again, is how far they have come since they last started
over, and with it the module implements `ReplayedLog` until an answer is late. A
message timeout sends one event again behind later ones, which no order of the log
explains; the guard of `ImplementsReplayedLog` says so and the run that checks it has
none.

**BookAdReadModel, BookAdStatistics.** One action per handler, with its
early returns and throws; `Handle` is `HandleEventAsync` choosing among them;
events without a handler take the path of `ProcessEventAsync` that throws or
skips. The row of an ad is abstracted to the position of the event its data come
from and its availability; what an event refers to (category, publisher) to
whether it is there.

**UserRegistration.** `Register` and `SaveUser` are the two writes of
`IdentityService.Register`, `RegistrationFails` the exception or the crash between
them; a lost reply of `SaveAsync` leaves the same state as its success. `EditUser`
is one step, for a stream only grows between its load and its append.
`OnUserCreated` and `OnUserUpdated` are the handlers of Publishers.Projections.
`AskPublisher` and `CreateAd` are `BookAdsController.Create` before and after its
await of `GetIdByUser`. `ProjectAd` is the handler of the creation, which throws for
a category that does not exist, and whose save does for a foreign key without a row
(`RefersToPublisher`); `AdFails` is an exception of the database. Either parks the event,
which may be handled again when the answer was lost. Of the subscription to the ads,
which is another than that to the users, the module has no more: `BookAdReadModel` has
it. There is one ad, for ads do not meet. The seeded
accounts are there from the start, and no publishers, for `GetPublishers` returns
an empty list.

**WebAppBooks.** `page` is the component the router shows, the other variables its
fields; `Show` replaces it, with the requests its constructor and `ngOnInit` send
(`InitialRequests`). A request keeps its place among those under way (`n`), whether
the component that awaits it is still shown (`live`), and whether the service has
done it (`done`). A subscription is one action at its answer: `AssignBooks`,
`AssignBook`, `AssignCategories`, `Created`, `Edited`, `Commanded`. What the answer
to a read does in a component that is gone nobody sees, so `Leave` drops it; what
the answer to a command does with the router it keeps. `AnswerError` stands for
every failure, for no component handles one. The service is abstracted to what it
may answer: its read model lags behind (`BookAdReadModel`), so a list is only
known by whose ads it is of, whether a category was asked for, and whether a
command has taken effect since it was read. `base`, `fresh`, `asked`, `overtaken`,
`failed` and `stray` are history.

**WebAppSession.** `token` and `publisherId` are localStorage; `navbar`, `profile` and
`connection` are what a tab copied from there and nobody updates. `Navigate` is
the router with the guard and the two things pages do as they open: the login
page removes the token, the profile page reads the id. Whether `ngOnInit` of the
login page runs when its constructor has sent the user on is left open
(`TokensLeft`). `Enter` is the answer to a login and to a registration;
`PasswordChanged` clears localStorage. `window.location.reload` is two steps, for
the page goes on running until the browser has done it: `due`, then `Open`.
`foreign` records that another tab has written to localStorage since a tab was
loaded. The hub's group is abstracted to the user it has a connection under.

Operators whose comment begins "Variant of" (`LoadFromAnySnapshot`,
`LeaveSubscribed`, `OnCreatedAgain` and others) are plausible mistakes in the
code, used in no specification: `PROJECT.json` pairs each with a
property that fails when the mistake is made.

## 3. Runs

| run | question | bounds | distinct states |
|---|---|---|---|
| repository_concurrent | do overlapping loads and saves keep snapshots, loads and intervals right? | 3 requests, interval 2, 5 events, no in-memory database, no faults, symmetry | 13 thousand |
| repository_faults | the same under failures, with the in-memory database; is anything missing when a save throws with every server up; does each completed interval get its snapshot? refinement of `AggregateStore` | 2 requests, interval 2, saves of 1 or 3 events, 7 events, 2 faults, fair | 142 thousand |
| subscription_two_connections | consumers, leaks, losses; the start returns, losses are repaired; refinement of `ConnectionSlots` | 2 connections, 3 tries, 6 calls, fair | 6 thousand |
| subscription_outage | do the retries survive an outage? (no) | 1 connection, 10 tries, as in the code | |
| read_model_replays | convergence under replays; deletion final; refinement of `ReplayedLog` | 2 requests, 4 events, 2 breaks, fair | 404 thousand |
| read_model_faults | nothing lost, parked for a reason, never stuck, answered in the end | 1 request, all event types, 3 events, 1 timeout, 1 break, 1 exception, fair | 415 thousand |
| statistics_faults | counted once, completely, in the end | 2 ads, 3 events, 1 timeout, 1 break, 1 exception, fair | 248 thousand |
| statistics_skipped | are skipped types skipped? (no) | 3 events | |
| registration_faults | one publisher per user, latest profile, ads with their owners, interrupted registrations; publishers appear in the end | 2 users and a seeded one, 1 ad of one of them, 3 events, 1 timeout, 1 break, 1 exception, fair | 561 thousand |
| registration_strangers | is an ad refused to a user who is no publisher yet? (no) | 2 users, no faults | |
| webapp_books | what is saved, deleted and shown, with answers in any order | 2 ads, 3 requests under way, 7 in all, symmetry | 1.5 million |
| webapp_session | token and id, one user per tab, late answers, the guard | 2 tabs, 2 users, 2 requests under way, symmetry | 550 thousand |

The type invariants and the inductive invariants `IInv` are theorems and in no run's
configuration, and so are three action properties: `RequestsGetOn`, `StartIsBounded` and
`WorkShrinks` are what `SnapshotEventually`, `StartReturns` and `EventuallyAnswered`,
which the runs check, need besides fairness.

With `AllowSnapshotting` off `LoadAsync` is a single forward read and `SaveAsync`
ends with its append; no run sets it so, and the proofs hold for both values.

Why the bounds are enough. An interval of 2 with 5 to 7 events completes two or
three intervals, so a snapshot is taken from nothing, from the snapshot before
and from one that was overtaken; saves of 3 events jump over the end of an
interval; three requests are the least in which one is overtaken by a save that
itself lost a race. Two connections with six calls lose and replace each
connection more than once, with callbacks of both under way. For the read model
four events hold a creation, an update, a deletion and a command that was let
through before it; two breaks replay a replay. For the registration three events
hold two creations and an update in every order, or two updates of one user; only one
of the users asks for an ad (`Advertisers`), for an ad changes nothing for anybody. A buffer of 2, against 20 in the
code, is full in these runs. A page sends two requests when it opens; with three
under way one of the page before is answered among them, and seven in all are
enough for three pages and a command that outlives its page. Two users and two
tabs are the least in which a copy can be another user's, and two requests the
least in which one answer overtakes another.

Deadlock is not checked where the requests are bounded (`CHECK_DEADLOCK FALSE`):
the system stops when the bound is reached and every event or request is answered.
In `webapp_session`, where only those under way are bounded, it is checked.

**Fairness.** `AggregateRepository!FairSpec`: a request that has begun goes on,
for ASP.NET resumes it when what it awaits is done; no user has to send one.
`SubscriptionLifecycle!FairSpec`: the host awaits `StartAsync`, gRPC answers every
call in the end or gives up on it, and the client runs every callback; neither
outages nor recoveries are assumed. `BookAdReadModel!FairSpec`,
`UserRegistration!FairSpec` and `BookAdStatistics!FairSpec`: the server sends what it has to and the client
handles what it has received; for Statistics the host also goes on from its
hosted services to `Configure`. Faults are never fair, and are bounded. The modules of
the browser application state no fairness: its requests may fail, it retries none,
and what it does next is up to the user.

## 4. Findings

1. **The retries of `StartAsync` do not retry** (run `subscription_outage`).
   `SubscribeAsync` builds the tasks once and its loop awaits the same one again
   (`ES/HostedServices/EventStoreSubscriptionHostedService.cs:106`). Once it has
   failed it fails ten times, one second in all; the host then runs without a
   subscription though the server has been up in the meantime, and the log has
   said "Retry 9 of 10".
2. **Skip handlers are never found** (run `statistics_skipped`). They are
   registered as `BookAdAggregate` (`SkipEventHandlerRegistrationStrategy.cs:13`)
   and looked up as `BookAd`, so the event types that `DefaultBookAdEventHandler`
   lists are parked, one by one, in a stream nobody reads.
3. **A user who is no publisher is not refused** (run `registration_strangers`).
   `FindByUser` compares an `int` with null
   (`BooksRentalSystem.Publishers/Services/Publishers/PublishersService.cs:71`), so the
   exception after it is not thrown: right after a registration an ad can be
   created for publisher 0. The request succeeds, and the ad is never shown.

Facts that the models show and that no text in the repository contradicts: a
save can throw after its append (`FailedSaveIsCovered` says that nothing is
missing then); `LoadAsync` throws for a missing stream, so the controllers'
`NotFound` after it is not reached; a view of an ad is parked by
Publishers.Projections; a read model row can end up behind the events after a
message timeout; an account whose registration was interrupted can log in, and
neither registering nor editing gives it a stream (`OrphansStay`).

## 5. Proofs

All theorems hold for every value of the constants that satisfies the
assumptions in the modules: a positive snapshot interval, positive numbers of
events per save, at least one connection and one try, and no more initial
connections than calls.

**Repository** (`AggregateRepositoryProofs`). `SnapshotsFaithful` is not
inductive: whether an insert is faithful depends on the aggregate a request has
carried through its awaits. `IInv` adds `RequestInv(c)`: the aggregate of a
request never has an event out of place (`IsFoldOfItsVersion`); the slice of a
load is no older than the load; the snapshot a save is to take ends an interval
that is complete and that its forward read has not reached; what is about to be
inserted is faithful, and in MongoDB already when it is memory's turn. Three
kinds of lemma carry the proof: about data (`EventsBetweenConcat`,
`SliceReversed`, `LoadFromPosition`: a read that starts where an aggregate ends
extends it by exactly the events in between), about frames (`OtherRequestStable`:
the stores only grow, which no request minds; `StepPreserves`, `EndPreserves`), and
one per action. From `Invariance` follow `TypeCorrect`, `SnapshotsAreFaithful`,
`LoadsAreFaithful` and `MemoryIsBacked`.

*Coverage.* `SettledSnapshots` and `FailedSavesAreCovered` rest on a second
invariant, `CoverInv`: until a call fails, the last interval the stream has completed
has a snapshot in MongoDB, or a later one, or a save is at it (`SeesToSnapshot`). A
save that appends may jump over the end of an interval that another save is still
at; it then sees to a later one, so the older may come to nothing
(`LastMultipleMonotone`). A failed save has tried the insert of a snapshot that was
in MongoDB by then, which `RequestInv` says of it. The theorem holds with and without the
in-memory database, which the runs need two instances for.

*Refinement.* `RepositoryImplementsStore` shows every step of the repository to be
one of `AggregateStore` or a stutter under the mapping `PhaseOf`, `AppliedOf`: a load
begins at its first read, takes effect where its aggregate is complete
(`ReadyHasFirstEvents`, from `IInv` of the next state), and a save takes effect with
its append; snapshots are invisible. Lemmas named `...Refines` give one case each.

*Progress.* `EveryRequestGetsOn`: `StepsLeft(c)` ranks the call a request awaits by
what may follow it, for each purpose a snapshot is looked up for. Each step of the
request makes it less (`ContinueGetsOn`, one case for each call), a failure or a
restart makes it 0, and the steps of others leave it alone (`NothingSetsBack`). Of
`IInv` only the types are needed: it does not matter what the stores hold.

**Subscription** (`SubscriptionLifecycleProofs`). `OneConsumerPerSlot` needs to
know that a callback that awaits a call has left its element default and is the
only one that will fill it (`ReplacingInv`), that an element holds a connection
opened for it and not replaced (`SlotInv`), that the calls of `StartAsync` come
first and one for each element (`CallInv`, `StartInv`); `LossExplained` needs a
call that accounts for every element (`AccountInv`). The theorems are
`Invariance`, `TypeCorrect`, `OneConsumer`, `NothingLeaks`, `LossesAreExplained`
and `CallsAreAnswers`.

*The start.* `StartReturnsInBounds`: `Patience` is what is left of the tries, counted
over all connections; every await of the loop uses up one of them, or a connection's
rest of them (`AwaitsAreCounted`).

*Refinement.* `ConsumersComeAndGo` shows every step to be one of `ConnectionSlots` or a
stutter. The mapping chooses among the calls for an element by their state, which is
sound because at most one of them is active (`OneConsumerPerSlot`, a part of `IInv`);
`LinkSays` says what that means for the mapping, `LinkOfCall` proves it. A step that changes one call turns one element
(`CallTurns`, `LinksUntouched`); an outage, the start and the stop turn several.

**Delivery** (`PersistentSubscriptionProofs`). `DeliveryInv` says that whatever the
subscription holds is a position of the log, that nothing is to be sent again or
awaited that was not sent, and `NothingLost`. Each step of the subscription
preserves it, whatever handlers do: the three proofs that follow cite these lemmas.
`Ordered(h)` says that the events the handlers have not had since they were last sent
are those after `h`, in order: some answered and sent again, some in the queue, the
rest to be sent. As long as no answer is late a step keeps `h` or adds one, and a
fault takes it back (`OrderFaults`); in a quiet state it is the end of the log.

*No halt.* The server sends nothing while `BufferSize` events are unanswered, so events
that nobody has any more would stop the service for good. `WithClient` says that
whatever the server waits to hear of is in the queue or about to be answered, which a
loss of the connection keeps because it clears all three; `NeverComesToAHalt` follows:
either everything is answered or a step is possible. `ComesNearerToRest` counts what
is left to do (`Work`): an event to send is three steps, one in the queue two, an
answer one. A handler that throws has its event parked, not sent again, so no step
but a late answer or a break adds to it.

*Refinement.* `HandlersReplayTheLog` shows each step to be one of `ReplayedLog` or a
stutter. `HandledUpTo` counts; that it counts the events up to some `h`, in order, is
what `Ordered(h)` says (`OrderCounts`), and `ReplayStep` reads off what `h` does: a
handler adds one, and all before it are answered, for `EventAppeared` is awaited; a
break or a restart takes it back, never behind an event that is not answered. The
lemmas are about any step of a subscription (`SubscriptionNext`), so each of the three
modules behind one (`SubscriptionSteps` there) has the three theorems.

**Read model** (`BookAdReadModelProofs`). An event can be refused for want of the
row, so `ParkedForAReason` needs to know that no event of an ad is handled before
the creation. While the row is to come (`Awaited`), `AwaitedInv` has the creation
among what is to be sent or in the queue, and before every other event there: it
is the least position, so it is sent first, and first again. When a fault empties
the queue, `NothingLost` says where the creation is. `RowConverges` needs an invariant
about replays: there is an `h` with `Ordered(h)` for which the row already stands
(`Stands`). Only the last event of a kind decides on the row, and a row that has had
it, or is to have it yet, is not harmed by earlier events that come again; so a row
that stands for `h` events stands for fewer, which is what a replay asks of it. That a
set of events has a last one (`LastExists`) follows from the library's theorem that
the natural numbers are well-founded.

**Statistics** (`BookAdStatisticsProofs`). `AdsAreCountedOnce` relates a counter to the
cardinality of a set, so `CountInv` adds that the set of created ads is finite and
no larger than the log, which keeps the counter in its type. `CountsAreComplete`
follows from `HandledInv`, a creation is acknowledged only when its ad is counted,
and from what the subscription says of a quiet state.

**Registration** (`UserRegistrationProofs`). `AcknowledgedMeansPublisher` rests on
the same argument for every user: `StreamInv` (the creation is ahead in the log),
`WaitingInv` (a creation without a row is to be sent or in the queue), `OrderInv`
(there it is ahead of the user's later events), `HandledInv`. `OnePublisherPerUser`
follows from `RowInv`, which says the same without counting, `AdReachesItsOwner`
from `AdInv` and from the fact that a row, and so an id that was found, keeps its user. `ProfilesConverge` is argued
like `RowConverges`, user by user (`Profiled`); it also needs `AccountInv`, that the
creation of a user is the first and only one, which the accounts guarantee: the name
is taken before the stream begins.

**Pages** (`WebAppBooksProofs`). What a page has in its fields came from a request that
was sent for it, so `IInv` says of every request that it fits the page and the ad
shown as long as its component is (`Fits`), and of every field that it fits too
(`PageFits`). `DeletesWhatWasAsked` needs to know that the pop-up's id is that of the
ad it was opened for, or none, and `FormGetsItsBook` that the answer is under way
as long as the form is empty. Sets of requests are finite and bounded (`Bounded`),
which the types of their places rest on: `RankedFacts`, `WithoutFacts`, `LeaveFacts` and
`SendFacts` say what the four operations on them keep, and `ShowKeeps`, `SendKeeps`,
`CloseKeeps` and `StayKeeps` carry the invariant through the steps that are made of
them.

The two properties of the list that a page ends with need the order of the requests.
`ListInv` says that they are numbered from 1 on, each by a number of its own
(`Numbered`), that a page awaits only its own commands (`OwnCommands`), and that the
list that is shown, or the one asked for last when others are under way, answers the
last search and is read after every command (`EndsWell`), as long as no answer came
out of order or was an error. A list that is out of date is excused while the answer
to a command that took effect is under way (`CommandDone`): `Commanded` asks for another
list then. `RankedOrder` shows that ranking keeps the order and makes the numbers
consecutive again, by counting; `SentFacts` that what is sent comes after all others.

**Session** (`WebAppSessionProofs`). `IInv` adds to the four properties that the
forms are only there on a profile page. A step of a tab disturbs its own copies,
and what the others may rely on only by setting `foreign`; `ClearsOwnSession`
follows because whatever stores another user's token sets `due`, in that tab, or
`foreign`, in the others.

**Model-checked only.** The liveness properties, for the prover has no fairness and
no `ENABLED`. What they rest on besides is proved:

| property | proved of it |
|---|---|
| `StartReturns` | `StartReturnsInBounds`: the awaits are bounded |
| `SnapshotEventually` | `EveryRequestGetsOn`: requests end; `SettledSnapshots`: the snapshot is there when they have |
| `EventuallyAnswered` | `NeverComesToAHalt`, `ComesNearerToRest`; `EveryEventIsAnsweredAtRest` |
| `DeletedForGood` | `NoDeletedAdAtRest` |
| `CountedInTheEnd` | `CountsAreComplete`, about a state of rest |
| `BecomesPublisher` | `EveryUserIsAPublisherAtRest` |
| `Resubscribed` | `ConsumersComeAndGo`, `LossesAreExplained`: what can become of a lost connection |

What stays with TLC is that fair steps are taken, and so reach the rest the theorems
speak of, and that in `DeletedForGood` and `BecomesPublisher` what holds at rest goes
on to hold as their formulas say. No module uses
`RECURSIVE`, and no proof needs induction over data, which the installed provers
cannot do: the facts on sequences are proved element by element.

## 6. Assumptions and limits

* The event store's client rejects a read of fewer than one event and throws
  when a missing stream is read. A category stream has each event once, in the
  order of the append. The server ignores an answer for an event that it is to
  send again, resends in order of position, and after a restart resumes from a
  checkpoint behind every event that is not answered. `Ack` and `Nack` return when
  the answer is written to the connection; in the model the next event is handled
  when the server has it, and an answer that is lost after that is covered by a restart
  from an older checkpoint. The server would park an event
  after ten timeouts; the runs have fewer.
* Two equal documents in MongoDB, whose collection has no unique key, are one
  element of the model: lookups cannot tell them apart. What BSON does to the
  precision of times in a snapshot is not modelled.
* One process per service, as in `docker-compose.yml`. With more, each would have
  its own in-memory database; what is proved of `MongoDB` would stand.
* `DatabaseFails` saves nothing. A commit whose reply is lost is not modelled
  for the SQL databases; it is for the stores of the repository.
* `PersistentSubscription` takes it for granted that the client reconnects;
  `SubscriptionLifecycle` says when it does.
* Rows of publishers are never removed, and no handler but those modelled writes
  them. Inputs that validation refuses reach no service.
* In the browser application a navigation is one step (the modules of all routes
  are part of the bundle), a callback's writes to localStorage are not interleaved
  with those of other tabs, and the browser's back and forward buttons are not used.
  `WebAppBooks` is one tab of a user who stays logged in, `WebAppSession` is about who
  that is: neither the guard nor the token is in the former, no ads in the latter.

**Not modelled.** The outbox (`BooksRentalSystem.Common/Messages`) and the other
snapshot stores, for no service uses them; the queries of Publishers and the
statistics of views, which change no state; passwords and tokens, which are single
calls of ASP.NET Identity; Admin and Watchdog. Of Notifications only the group of
connections is modelled: the broadcast keeps no state. Of the WebApp: the
categories a search may choose from, `SortComponent`, `PaginationComponent`,
`RouterExtService` and `getPublisherId`, which nothing uses.

## 7. Plan

Done: repository and snapshots (model, runs, proofs, refinement, progress),
connections (model, runs, proofs, refinement, bounds), delivery (refinement, progress),
read model, Statistics, registration (models, runs, proofs), pages and session of the
WebApp (models, runs, proofs).

What could follow, in this order:

1. A module that composes `SubscriptionLifecycle` with `PersistentSubscription`,
   in place of the assumption that the client reconnects; as `ConnectionSlots` is what
   the event store sees of the connections, the composition can be made with it.
2. The outbox and the other snapshot stores, if a service comes to use them: the
   outbox for duplicates and for messages that hold up others, the stores against
   the promise of `MongoMemory`'s.

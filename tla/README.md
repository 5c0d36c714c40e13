# SmartFuelStation in TLA+

SmartFuelStation is a booking platform for fuel and car-care stations: an
Express backend (`src/backend`) on PostgreSQL through Prisma, a React web client
(`src/web`) and a Flutter client (`src/mobile`). This directory specifies what of
it is hard to get right: bookings, the slots they take, the money they earn and
the queue they wait in; what the clients are told of all that and what they show
meanwhile; accounts and sessions; the smaller services that check first and
write later; and the web application's pages over the backend's routes. TLC checks
the specifications on small instances, and TLAPS proves the main results for
instances of any size.

Paths without a directory are under `src/backend/src/services/`.

## 1. Inventory

| Component | State | Operations | Hard parts | What makes it correct |
|---|---|---|---|---|
| Booking state machine, `shared/bookingTransitions.js` | none | edge lookup | shared by bookings and queue | terminal statuses are final; a role drives only its own edges |
| Bookings, `booking.service.js` | `Booking` | create, change status, delete | the status is read without a lock and written without a predicate; delete is two statements; only `createBooking` is Serializable | a booking and its ledger row agree; no two active bookings overlap |
| Ledger and commission, `finance.service.js` | `FinancialTransaction`, `Provider.commissionRate` | insert on completion, settle, set rate; reports | inserted inside the caller's transaction; races of completions and of admins; a report is several queries | exactly one row per completed booking, to the cent, whose booking is neither deleted nor cancelled afterwards; reports add up |
| Queue, `queue.service.js` | `QueueEntry` | add (from a booking, or walk-in), change status, remove, reorder; lists, wait estimates | position read before insert; two-phase reorder; a booking update inside the same transaction; cascades | distinct places; queue and booking move together; every request ends |
| Availability and policy, `availability.service.js`, `shared/availabilityRules.js`, `bookingPolicy.service.js`, `providerHours.service.js` | hours, policy | compute slots, edit | `createBooking` enforces the same rules again, from reads of its own | what is offered is what is accepted |
| Notifications, `notification.service.js`, preferences | `Notification` | create, list, mark read, delete | find-then-create; emitted after the insert | once per queue entry; the list on show is the list stored |
| Sockets, `../sockets/`, and the controllers that use them | rooms | snapshot and emit | sent after the answer, in any order, behind guards | clients converge on the newest state |
| Web caches, `SocketProvider.tsx` over TanStack Query | cached answers | fetch, push, invalidate | an answer and a push cross; an invalidation joins a request in flight | a screen at rest is current |
| Mobile cache, `query_cache.dart`, `customer_realtime_handler.dart` | cached answers | fetch, push, invalidate, clear | the same, with several requests in flight; sign-ins that cross a logout or each other | no older value over a newer one; nothing of the last account's |
| Mobile session, `auth_state.dart`, `api_client.dart` | token in memory and in the secure store, user | restore, sign in, log out, a 401 | requests that outlive their session; a store that is written behind | token, stored token and user are one account's |
| Web session, `AuthProvider.tsx`, `tokenStorage.ts` | token in storages shared by tabs, each tab's user | the same | tabs share `localStorage` | a tab shows the user it acts for |
| Accounts, `auth.service.js`, `../middleware/auth.js` | users, reset tokens | register, log in, reset | check and use of a token are apart, a hash in between | a token works once; an address has one account |
| Fuel inventory, `fuelInventory.service.js` | stock, history | upsert | previous values read before the row is locked | the history is a chain |
| Providers, categories, approval, reviews, favorites | profiles, services, categories, reviews, favorites | edit, approve, review, delete | look, then write | a constraint catches what comes between; nothing in use disappears |
| AI assistant, `ai.service.js`, both chat clients | the conversation, in the client | send, retry, clear | the client sends its own history back | answers follow their questions; what is sent is accepted |
| Audit, `auditLog.service.js` | `AuditLog` | record | written after the answer | one record for each administrative action of the routes that audit |
| Web pages and navigation, `../../../web/src/routes/AppRoutes.tsx`, pages and hooks | the page shown, who is signed in, the cached answers it shows, a change under way | follow a link, load, send a change, sign in and out | every hook lists by hand what its change makes stale; a change ends after its page was left; roles guard pages and routes apart | a page shows what it has changed; nobody is led to what is refused to them |
| Complaints, vehicles, overview, analytics, live camera, email, translation, backup | single rows; none | single writes, reports, I/O | | their routes and pages only, section 8 |
| Staff and customer workflow screens, web and phone | the status shown, the choice a dialog asks to confirm, a request under way | offer, confirm, send | booking and entry are fetched apart; a dialog outlives the status it was opened on | what is offered of the status that is, is admitted |
| Other mobile screens | | rendering | | out of scope, section 8 |

How they interact: `queue.service.js` opens a transaction and calls
`booking.service.js` inside it, which calls `finance.service.js` inside the same
one; after the commit and the answer the controller announces the result over
sockets, creates notifications and writes the audit record; the clients patch or
invalidate what they have cached, and refetch. The database's constraints (unique
indexes, CHECKs, `RESTRICT` and `SET NULL`) reject what the handlers let through.
Client requests are otherwise independent: any two handlers may interleave at
every `await`.

`PROJECT.json` lists the hazards, each at its line, with the properties that
would catch it.

## 2. The modules

```
 server, statement by statement            what is told, and what is shown
 ------------------------------            -------------------------------
 BookingTransitions    CommissionSplit     QueryCache
      |       \          /                   |    |     \
 Availability  \        /             QueueScreen |     Inbox
      |         \      /                     Announcements
 SlotBooking   BookingLedger
                |         |                MobileCache    WebSession
    LedgerContract   QueueBooking          MobileSession  AiChat
    (its contract)

 Accounts   FuelInventory   Records   FinanceReports

 BookingTransitions --- Workflow                   a visit and its screens

 Endpoints --- WebPages --- WebClient      routes, pages, somebody at a browser

 MCBookingLedger  MCQueueBooking  MCSlotBooking  MCRealtime  MCBackOffice
```

The theorems about them, with their proofs:

| Module | About |
|---|---|
| `BookingLedgerProofs` | CommissionSplit, BookingLedger, LedgerContract |
| `QueueBookingProofs` | QueueBooking's types, and that it composes BookingLedger |
| `QueueEntryProofs` | QueueBooking's entries |
| `SlotBookingProofs` | Availability, SlotBooking |
| `ServiceProofs` | Accounts, FuelInventory, Records, FinanceReports |
| `ClientProofs` | MobileCache, MobileSession, WebSession, AiChat, Workflow |
| `WebClientProofs` | WebPages, WebClient |
| `RealtimeProofs` | Announcements, Inbox, QueueScreen |

### Bookings, money and the queue

**BookingTransitions** is `bookingTransitions.js`: the edges, who may drive them
and the date column each sets.

**CommissionSplit** is `computeSplit` in integer cents and hundredths of a
percent, which is what `Decimal(10,2)` and `Decimal(5,2)` hold.

**BookingLedger** models `updateBookingStatus`, `deleteBooking`,
`createTransactionForCompletedBooking`, `setSettlementStatus` and
`setProviderCommission`, one action per SQL statement:

| Code | Actions |
|---|---|
| `findUnique` and the checks after it | `FindBooking`, `FindForDelete`, `FindTransaction` |
| `booking.update` | `UpdateBooking`, `UpdateFails` |
| ledger `findUnique`, rate and split, `create` | `FindLedgerRow`, `SplitPrice`, `CreateLedgerRow` |
| COMMIT | `CommitUpdate`, `CommitDelete` |
| `booking.delete` | `DeleteBooking`, `DeleteFails` |
| settlement `update` | `SettleTransaction` |
| timeout, lost connection, server restart | `Abort` |

Prisma's interactive transactions run at READ COMMITTED unless told otherwise
(only `createBooking` is). So a read sees what is committed and locks nothing; a
write waits for the row's lock, keeps it until the transaction ends and applies
to the row as it then is. `lock` holds the row locks. An uncommitted version of a
booking is not stored: only the lock's holder can have one and `CommitUpdate`
computes it. A deleted booking's id is never used again. A call that is refused
before it writes changes nothing and is no step. `createBooking` is here only the
committed row it leaves.

**LedgerContract** says what the accounting promises to someone who sees
statuses and ledger rows only: a booking is completed together with the one row
that accounts for it, the row never changes except from PENDING to SETTLED, and
it never goes away.

**QueueBooking** adds the queue and composes it with BookingLedger: a queue
request writes entries and then runs `updateBookingStatus` in the same
transaction, through BookingLedger's own actions.

| Code | Actions |
|---|---|
| `createFromBooking`, `createWalkIn` | `CreateFromBooking`, `ReadPosition`, `CreateWalkIn`, `InsertEntry`, `InsertFails` |
| `updateQueueEntryStatus`, `removeQueueEntry` | `FindEntry`, `FindEntryToRemove`, `WriteEntry`, `WriteEntryFails` |
| the booking's update inside them | `SyncBooking`, `SyncRefused`, then `BookingStatement` |
| `reorderQueue` | `FindEntries`, `CheckWaiting`, `ParkEntry`, `ParkFails`, `PlaceEntries`, `PlaceFails` |
| COMMIT | `CommitBoth`, `CommitQueue` |
| `deleteBooking` and the `SET NULL` trigger | `StartDelete`, `CommitDeletion` |
| a transaction that ends early | `QueueAbort`; `DeadlockVictim` when PostgreSQL chooses it |

A transaction's uncommitted queue rows are its `draft`, and the rows it has
drafted are the rows it has locked. Inserts wait for an uncommitted clash
(`InsertWaitsFor`), as a unique index does, and a foreign key check holds the
booking's key against deletion (`KeyShared`).

Abstractions: who owns what (`assertBookingAccess`, `requireOwnProviderId`) is
left out, every caller owns what it names, so every behaviour of the code is one
of the model's; names, notes, dates and wait estimates are left out, a date column
being set or not. `reorderQueue`'s second phase is one step: its rows are locked
by then. Its first phase runs its updates in the caller's order, which is the
order `Promise.all` sends them in over the transaction's one connection. The set
of entry ids is finite; an insert that finds none left fails like a refused one.

**Availability** holds the rules two functions apply independently: the answer of
`getAvailability` for a date (`DayStatus`, `SlotStarts`, `SlotStatus`), and what
`createBooking` allows (`PolicyAllows`, `FitsHours`). Hours, lengths and notice
are in minutes, an instant may have seconds; a wall-clock time is an instant
without them (`TimeOf`), as `localTimeOnlyOf` makes it.

**SlotBooking** is one provider's calendar.

| Code | Actions |
|---|---|
| `createBooking`: policy, service with provider, hours, then the Serializable transaction | `CheckPolicy`, `CheckService`, `CheckHours`, `CheckOverlap`, `InsertBooking`, `TransactionFails` |
| `updateBookingStatus` | `FindBooking`, `WriteStatus` |
| policy, approval and hours handlers | `UpdatePolicy`, `SetApproval`, `UpdateOwnHours` |
| a provider's services | `CreateService`, `UpdateService`, `CountUses`, `DeleteService` |
| time | `Tick` |

A Serializable transaction is one that reads its snapshot in `CheckOverlap` and
may commit only if no other such transaction has committed a booking since
(`raced`). PostgreSQL detects conflicts among serializable transactions alone, so
`WriteStatus` and the edits, at READ COMMITTED, do not mark it; that is why they
can cause what `NoDoubleBooking` has to except. Two creations that overlap in time
conflict here whichever slots they are for: where PostgreSQL lets both commit, they
end as if one had begun after the other. `updateBookingStatus` writes here without the ledger's statements,
which BookingLedger has.

### What is announced and what is shown

**QueryCache** is a query of TanStack Query as the web client uses it: the value
on show and at most one request; an invalidation while a first answer is awaited
joins it, later ones replace it (`Invalidated`, `JoinsOlder`).

**QueueScreen** is a provider's queue and one open web page that shows it, the
provider's or a waiting customer's.

| Code | Actions |
|---|---|
| a queue request commits and is answered | `QueueRequest` (`CreateEntry`, `UpdateEntry`, `RemoveEntry`, `ReorderEntries`) |
| `broadcastProviderQueueUpdate` | `ReadSnapshot`, `Push`, `PushFails` |
| `GET /queue`, which takes a customer two queries | `ReadOwnEntries`, `AnswerOwnEntries`, `AnswerQueue`, `Deliver`, `FetchFails` |
| `SocketProvider.tsx`'s handlers, the page's mutation | `Receive`, `Acknowledge` |
| the connection | `Connect`, `JoinRoom`, `Disconnect`, `PushesLost` |

**Announcements** is a table, `Operation`, of what every controller does after
its operation: which rooms it announces to, whom it notifies, whether it audits
(and, apart from that table, which administrative operations are to be audited, `OwesAudit`),
and whether a step that fails takes the later ones with it; the server that works
through it (`Commit`, `Emit`, `StepSucceeds`, `StepFails`, `RecordAudit`,
`ServerRestarts`); and one open screen of each kind that refetches, or patches its
list, when it hears of a change (`Hear`).

**Inbox** is one user's notifications: `notifyAlmostTurnIfNeeded` and
`createNotification` (`CheckAlmostTurn`, `WantNotification`, `ReadPreference`,
`InsertNotification`, `EmitNotification`), the user's reads and deletes, and the
page that patches its list and its badge.

**MobileCache** is one key of the app's `QueryCache` (`Refresh`, `ServerAnswers`,
`Succeed`, `Fail`, `Throw`, `GrowStale`) with the realtime handler (`HearPush`,
`Reconnect`, `LoseConnection`). Unlike the web's, its entry forgets a request when
it is written or invalidated, and the request goes on. Nothing but
`_onAuthChanged` clears the cache, and only when `AuthState` tells its listeners
something and nobody is signed in (`CloseSession`): at the end of a logout, whose
token is gone before the store is cleared (`LogoutBegins`, `ClearEnds`), or when a
profile update is answered meanwhile (`ProfileArrives`). A sign-in is answered at
any time (`SignInAnswered`), also while another session lives, and once its token
is stored the session is its own, with a new socket and the cache as it is
(`WriteEnds`).

**MobileSession** is `AuthState`: restoring (`ReadToken`, `CurrentUser`), signing
in (`SignIn`, `AcceptSession`), the requests and the interceptor's 401 (`Send`,
`RequestSucceeds`, `RequestRefused`, `NoAnswer`), `LogOut`, the secure store's own
pace (`StoreEnds`) and the app's end (`Restart`). **WebSession** is the same for
browser tabs: `Load`, `Restored`, `Ask` and its answers, `UpdateProfile`,
`LogoutOfTab`. In both, every login is taken for another account's, the worst
case, so a number stands for a login, its token and its user.

**AiChat** is the conversation of either client and what `validateConversation`
refuses of it. A text is long, more than the 2000 characters the server takes
back, or not. A second click on the web client's retry before the first is under
way, and an answer to a chat screen that was left, are not modelled.

**Workflow** is one visit, a booking's or a walk-in's, and the screens it is run
from, of any kind: the web's bookings and queue pages and the phone's, and the
customer's booking page of either (`deskKind`).

| Code | Actions |
|---|---|
| the two caches a screen shows | `RefreshBooking`, `RefreshEntry` |
| `getProviderActions`, `providerActionsFor`, the queue's buttons, the customer's Cancel | `Offered`, `PressButton` |
| `ConfirmDialog`, `confirmProviderAction` | `ConfirmChoice`, `ConfirmInVain`, `DismissDialog` |
| the backend's answer, and what the screen does with it | `Serve`, `Refuse` |

A screen offers what the status it shows allows, and a dialog keeps what was
chosen on it. The backend admits a call by the state it finds and does it in one
step; how the calls' statements interleave is QueueBooking's concern. Administrators have no
screen that moves a booking or an entry.

### Services that check first and write later

**Accounts**: `register` (`CheckRegistration`, `CreateUser`, `NotifyAdmins`),
`requestPasswordReset` (`RequestReset`) and `resetPassword` (`CheckLink`,
`CommitReset`), with the hash between the check and the write.
**FuelInventory**: `adminUpsertFuel` (`ReadExisting`, `Upsert`, `CommitUpdate`,
`Rollback`); the upsert takes the row's lock. **Records**: `favorite.service.js`,
`review.service.js` and `category.service.js`, each request a check, which may
answer it at once (`IsAnswered`: a 404, 400 or 409, or the favorite that is there),
and a write, with an action for each way the constraints may answer
(`AddFavorite`/`AddFavoriteAgain`, `CreateReview`/`CreateReviewAgain`/
`CreateReviewForNothing`, ...). **FinanceReports**: the queries of a summary side
by side, each on a snapshot of its own (`AskReport`, `RunQuery`, `ReportIsSent`),
while transactions are completed and settled and midnight passes; a figure is
represented by the set of transactions it adds up. The count and the list that
go with it are left out.

### The web application over the backend's routes

**Endpoints** is a table of the backend's routes: the roles that may call each
(`authenticate`, `authorize` or what its service asks for), the facts of the
database its answer is made of, and those it changes. A fact is a table, or
columns that change apart from the rest of theirs.

**WebPages** is the web client's hooks, components and pages by their own names: which
queries each asks and under which key, which changes it offers and which keys it
invalidates or writes on success, and where it leads. A page is the union of its
parts, and `AppRoutes` is the table of pages with the roles each is open to.

**WebClient** is one tab: `FollowLink`, `LoadPage`, `SendChange`, `ChangeCommits`,
`ChangeSucceeds`, `ChangeRefused`, `WebLogin`, `WebRegister`, `WebLogout`, through
`ProtectedRoute` and `RoleRoute` (`Guarded`). A change may be answered after its
page was left, and an answer under way may have been read before it or after.
The keys are without ids and filters, so a change is taken to be about the row on
show. Pushes are left out: the socket is down, and a page has to keep itself
current with respect to what it does. Pushes, failed requests and two tabs are the business of
QueueScreen, Announcements, QueryCache and WebSession.

## 3. The runs

| Run | Instance | Shows |
|---|---|---|
| `booking_ledger` | 3 requests, 1 booking, 1 admin, rates 0% and 50%, price 1 cent | every ledger invariant and the refinement of LedgerContract |
| `queue_booking` | 2 requests, 1 booking, 2 entries, no admins | distinct places, no parked rows, links, completed entries, queue and booking moving together |
| `queue_liveness` | 2 requests, 1 booking, 1 entry, 1 admin | every request ends; the composition implements BookingLedger |
| `queue_walk_ins` | 2 requests, 2 entries, no bookings | every request ends, with reorders that deadlock each other |
| `slot_booking` | 2 calls, 2 bookings, 1 service of length 2 or 4 and price 1 or 2, days of 5 minutes, weeks of 2 days, starts on the minute and half a minute after, a clock of 2 instants, 1 edit | what is shown is what is accepted; bookings overlap for two named reasons only; a booking keeps its service and the rules that were in force while it was made |
| `realtime` | 2 requests, 2 queue entries, 2 versions of the queue, 2 announced changes, every screen; a visit and 2 screens of any kinds | a screen at rest is current, unless one of the named causes left it behind; an administrator's action is recorded, on the routes that audit at all; a screen that is current offers what is admitted |
| `back_office` | 2 requests of each kind, 2 addresses, links, levels, transactions, businesses, tabs; bounds below | the properties of Inbox, Accounts, FuelInventory, Records, MobileCache, both sessions, FinanceReports and AiChat; a web page shows what it has changed but for two gaps; links stay within a role |
| `completed_is_final` | 2 requests, 1 booking | violated, see section 6 |
| `withdraw_pending` | 2 requests, 1 booking | violated |
| `settled_once` | 2 requests, 2 admins | violated |
| `queue_booking_agree` | 2 requests, 2 entries | violated |
| `reorder_waiting` | 2 requests, 2 entries | violated |

Two runs hold several components that share no rows. In `realtime` a behaviour is
about one screen, chosen in the initial state (`screen`), or about a visit; in `back_office` about
one component (`part`); the variables of the others stay as they start. The
states are the sum of the components', not their product.

Bounds of bookings and the queue. Bookings share nothing but their provider's
commission rate, so one booking is every booking of BookingLedger; three requests
are a holder of its lock, a waiter and a reader whose read is already stale. In
the queue, two entries are the fewest with an order to get wrong, and two requests
the fewest that cross or deadlock; the proofs below are for any number. One cent
at 50% is the case in which rounding has half a cent to place. `queue_booking` has
no admins, who only settle; settlement is in the other runs.

Bounds of `slot_booking`. Two bookings are the fewest that overlap and two calls
the fewest that race. A day of five minutes has a grid of two slots of two minutes
and a remainder. Time goes in half minutes, so that a start may have seconds: of
the two starts that are booked, one is half a minute past, its visit ends half a
minute after closing, and if its service of length 2 is edited to 4 it reaches
past midnight and overlaps the other, the next day's first (what is offered is
compared for every start of a day). The calendar begins
open under a lenient policy, or not set up at all for the only day a strict policy
allows. `MaxEdits` = 1 lets one setting change at every point of every call;
`LastInstant` = 1 lets time pass once, which crosses the policy's `minAdvance` for
the grid's starts and just keeps it for the one that is booked.

Bounds of `realtime` and `back_office`. `MaxVersion`, `MaxChanges`,
`MaxInboxVersion` and `MaxRows` bound how often what is shown changes: two changes
are the fewest whose announcements arrive in the wrong order. Two screens
(`Desks`) are the fewest of which one overtakes the other; they may be of any two
kinds, and the theorem is for any number. `MaxHistory` = 3
history rows give a chain with a middle. `MaxReviews` = 2 lets a review be written
again after it was deleted. `MaxSessions` = 2 has a session and its successor,
whose sign-in may be answered before, during or after the other's logout;
`MaxLogins` = `MaxIssued` = 3 a login for each of two requests or tabs and one to
supplant them. `RangeDays` = 2 and `LastDay` = 3 let a day fall out of a
report's range. Three sends of a conversation of which a client sends back two messages,
as many as the server accepts (`MaxHistoryEntries`, `MaxConversation`; 20 in the
code), push the oldest out. `MaxLeft` = 2 lets a web page's change outlive that
page and the next, so that its answer finds the page left, replaced or opened
again. Every bound is in the guard of the action that counts.

Requests, bookings, services, and in `back_office` rows, levels and businesses,
are symmetric where the configuration says `SYMMETRY`; queue entries of
QueueBooking are numbers and are not; the liveness runs use no symmetry. The views
of `realtime` and `back_office` identify states that differ only in which cause
was blamed first, in a version that nothing under way will be compared with, or in
what is on show while every property of it is excused; their modules say why no
behaviour or property can tell.

Deadlock checking is on except in `slot_booking` and `back_office`, whose
instances run out of edits, logins and sends and really stop. Elsewhere it never
fires for want of work (a call or a new rate is always possible); deadlocks of
row locks are what `EveryCallEnds` is about.

The properties that name causes (`ScreenIsCurrent`, `AnnouncedScreenIsCurrent`,
`InboxIsCurrent`, `FreshEntryIsCurrent`, `SessionIsWhole`, `UserOwnsToken`, and
those excused by `raced`, `overtaken`, `together`, `revived`, `resized`) say
two things: that nothing else goes wrong, and, since a history variable records
exactly when each cause occurs, what the code does leave open. A cause is recorded
by the action in which it happens and forgotten when the screen is next refetched
at rest, or the session next set; the excuse does not outlive the harm.

Fairness (`QueueFairness`) is assumed in `queue_liveness` and `queue_walk_ins`
only. Strong fairness of each request's own steps: Node.js runs every
continuation, and PostgreSQL hands a row lock to its waiters in order, so a
statement that keeps becoming possible is run. Weak fairness of `DeadlockVictim`:
PostgreSQL looks for a cycle of waits after `deadlock_timeout` and aborts one of
its transactions. Neither obliges anyone to call, or a request to abort for any
other reason. The second is needed: without it TLC finds a booking's deletion that
holds the booking and waits, in its `SET NULL` trigger, for the entry a status
change has locked, while that status change waits for the booking; and, with
walk-ins only, two reorders that have each parked the row the other needs next.
Of the screens nothing is claimed to happen eventually: "at rest" says that what
was sent has arrived.

## 4. What is proved

TLAPS checks the following for any sets of requests, bookings, providers, admins,
entries, services, addresses, links, updates, tabs, fetches and screens and any
prices, rates, lengths and bounds. The assumptions are those named in the modules,
which TLC evaluates on every run: every booking has an owner and a natural price,
the rates lie between 0% and 100%, `Nobody` is none of the others, and entry ids
are positive; a day is some whole minutes and a service has some length
(`CalendarAssumption`, `SettingsAssumption`); a report's range has a day
(`RangeAssumption`); a customer's entries are among the provider's
(`MineAssumption`); a chat client sends back no more messages than the server
accepts (`ConversationAssumption`, 20 and 20 in the code). `NobodyStaysParked`
alone has a hypothesis of its own: there are finitely many entries, and fewer
than `SentinelOffset` (a billion in `reorderQueue`).

**`BookingLedgerProofs`**: `SplitIsExact`, that the rounded commission is at most
the price, so that the net derived from it is never negative, and the two add up;
`Invariance`, that `IInv` always holds, from which `TypeCorrect`,
`CompletionIsAtomic`, `NoChargeCalledOff`, `InsertIsUnique`, `LedgerIsBalanced` and
`DatesAreConsistent` follow; and `Refinement`, that every step is a step of
LedgerContract or changes nothing of it.

The properties are not inductive alone. `CompletedIsAccounted` is broken by a
`CommitUpdate` to COMPLETED unless the transaction has inserted a row or seen
one, and what it saw is only still true because nobody else could write to the
booking since. `WriteInvariant` says that: a transaction past its first write
holds the row's lock, no two hold one lock, and each phase records what has been
true since (`Informed`). So the single ledger row is due to the row lock which
the status update takes *before* it looks for a ledger row. The comment at
`finance.service.js:72-79` credits the unique index and the P2002 handler;
`InsertIsUnique` shows that handler is never reached. `ChargedIsNotCalledOff` rests
instead on two database constraints: `RESTRICT` on a ledger row's booking, and the
CHECK that no booking has both dates.

**`QueueBookingProofs`**: `QueueTypeCorrect`; `QueueImplementsLedger`, that each step
of the composition is a step of BookingLedger or leaves it alone, with which the
theorems about `Spec` hold of the composition as well; and
`QueueCompletionIsAtomic`, the first of them.

**`QueueEntryProofs`**: `PlacesStayUnique`, `LinksAlwaysResolve`,
`CompletedEntriesAreCharged`, `EntriesMoveTogether`, from `EntriesInv`. What is
committed becomes what a request has drafted, so the invariant is mostly about
drafts: those of one request are in no conflict with the rows it leaves alone
(`Apart`), those of two requests in none with each other, and no row is drafted by
both (`Beside`), which the row locks and the unique indexes' waits secure; a
linked entry's new status is drafted after the booking's (`BookingFollows`); and
the booking of an entry being inserted is not being deleted (`InsertReferences`).
`NobodyStaysParked` needs one thing more, `PositionsAreLow`: a position is at most
the number of entry ids used so far, since a reorder's second phase counts from one
and an insertion takes the place after the last. It is what keeps a parked row apart from
the others, and what a queue of 100000 entries would break.

**`SlotBookingProofs`**: `NoDoubleBookings`, `ServicesOfBookingsStay`,
`BookingsFollowTheRules`, `OffersAreHonoured` and the types, from `SlotInv`. It
says what a call knows at each phase (`CallsHoldTheirRows`); that the interval a
serializable transaction found free is free until another such transaction
commits beside it, which then makes it abort, except for what READ COMMITTED
status writes and edited durations put there (`ClearIsFree`); and that a service
with a booking is there (`ServicesAreKept`). `BookedByTheRules` is an action
property: the history of the settings ends with those in force
(`HistoryIsCurrent`), and what a call has checked so far was so by settings that
were in force since it began (`ChecksStand`).
`OfferIsHonoured` compares two computations in one state, and its proof is the
arithmetic of the two.

**`ServiceProofs`**: of Accounts `AccountsTypeCorrect`, `OneAccountEach`,
`LinksResetOnce` and `RetiredLinksAreDone`, from `AccountsInv`: what is stored as
an address is in its normal form (`EmailsAreNormal`), without which the unique
column would not mean one account per address; a link no two calls have checked
together has one call at work on it at most, and none once it has reset the
password (`LinksAreSingle`); and a link that has been retired is deleted or used
(`RetiredAreDone`). Of FuelInventory `HistoryAlwaysAChain`: one transaction at
most has written the row and not ended (`OneWriter`, the row lock), and what an
open transaction has read is still the row's unless another one's commit marked
it (`ReadsAreCurrent`). Of Records `ReviewsOfCompleted` and `ErrorsOnlyOfRaces`,
from `RecordsInv`: what a request's write needs is there since its check, unless it has been marked or
the check did not ask for it (`RequestHolds`). Of FinanceReports `ReportsAlwaysAddUp`, from
`ReportsInv`: each figure read so far is the one the query would give now, up to
the transactions written since the report began (`FigureHolds`).

**`ClientProofs`**: of WebSession `UserAlwaysOwnsToken`; of MobileSession
`SessionAlwaysWhole`, which needs an order among tokens (`PendingAreNew`: what is
on its way to the store is newer than anything stored, in memory or logged out
of) and what a kill of the app can leave stored (`StoredIsAlive`,
`MemoryFollowsStore`); of AiChat `AnswersAlwaysFollow` and `OnlyLengthIsRefused`,
which need that the screen knows of the only request under way and that its
question is the newest message; of MobileCache `NothingEverInherited` and
`FreshEntriesAreCurrent`, by `CacheInv`: channels end with the newest version
(`ChannelIsComplete`), nothing on show is newer than the server's (`NoneAhead`),
an entry with no request left has all that was heard (`EntryKeepsUp`), a session
that is over has been closed or a clear of the store is pending that will close it
(`OverIsClosed`), and nothing is left of one that has been (`NothingLeft`). Of
Workflow `WorkflowInvariant` and from it `OfferedAdmitted`: booking and entry go
together (`InStep`) because whatever a screen sends by the booking's own route was
chosen on a status before the queue (`BookingRouteIsEarly`); such a choice finds the
booking queued only if it was overtaken, the one edge left to it is to CANCELLED, and
of a visit parted in that way nothing more is admitted (`PartedForGood`).

**`RealtimeProofs`**: of Announcements `AuditsAreWritten`, by counting: every audit
record owed is written, lost, or still to be written by exactly one request
(`AuditInv`), which needs of the table of operations that the audit comes last
and never in a queue request (`WellFormed`), and that those which owe a record are
those which have a step for it (`OperationsHold`); and `AnnouncedScreensAreCurrent`.
That table is shown to be complete, operation by operation: what changes a screen
announces it or is listed in `Silent` (`OperationsHold` again). A screen that refetches
is then current, about to be answered, or has an announcement before it
(`RefetchInv`); the provider list, which is patched, ends up with the version last
announced, and no older one can be announced after it unblamed (`PatchInv`). Of
Inbox `OneMessageOfTheTurn`: one message, or one request about to create it, never
both.
Of QueueScreen `QueueScreensAreCurrent`, from `ScrInv`. What a request that has
committed will push is taken as a message already (`DueRows`, `DueVersion`), so that
its reading of the snapshot changes nothing. A provider's screen is replaced by what
it hears: whatever bears the newest version has the rows of the queue as it is
(`NewestIsTrue`), and the newest is due or was the last pushed (`ProviderInv`). A
customer's is patched entry by entry, so the invariant is about each: a request that
will push an entry's row wrong is out of turn, or one that pushes it right has a
newer version (`PushesMended`); the same of a wrong answer (`AnswerMended`); and the
last word about the entry is right (`LastWordIsRight`). What makes it inductive is
what a commit must be: of an entry whose row changes the request speaks itself, or
the entry is live afterwards and the snapshot has it (`Speaks`, `StatusMoves`).
Of Inbox also `InboxesAreCurrent`, from `InboxInv`. What is still to come for a page,
pushes in its channel and rows inserted but not yet emitted, are messages of different
rows in the order of their versions (`MessagesOK`, `Apart`); what the page shows,
or is about to be answered, becomes what is stored once the messages newer than it
are put in front or counted in (`Fits`, `PageFits`), unless a push is bound to cross
a newer one (`Crossing`), which is what gets blamed. What the list of a
notification table holds is proved by least counterexample, from the natural
numbers being well-founded (`Smallest`).

**`WebClientProofs`**: `OwnWorkIsShown` and `LinksAlwaysWithinRole`, for whatever
`MaxLeft`. The invariant, `ScreenInv`, is short: the browser is where its role may be
(`WhereOpen`), the call under way is one the page it was sent from offers
(`CallsAreOffered`), and an entry a change has made out of date is one that the call
under way affects or a gap that is named (`OutdatedByCall`). It is kept because of
what the pages are made of, which is most of the module. For each page a lemma works
out the queries it asks, the changes it offers and where it leads (`...Is`), and
another shows of each change and each query of the page that the change leaves what
the query reads alone, drops or rewrites its key, or is in `KnownGaps` (`...Holds`,
`Covered`). The layout, and the pages open to every role, ask for and change
notifications alone, which nothing else of a page does. `AllRoutesHold` gathers the
pages, and the steps of the browser use nothing else of the tables.

Model-checked only, and why:

* `EveryCallEnds`: liveness under fairness is outside what TLAPS proves.
* The five violations of section 6, which are not theorems.

## 5. Properties worth reading first

* `CompletedIsAccounted`, `ChargedIsNotCalledOff`: how far the ledger and the
  bookings agree whatever is stale.
* `ImplementsContract`: the whole of the accounting from outside.
* `QueueMovesWithBooking`, `CompletedEntryIsAccounted`: the transaction that spans
  queue, booking and ledger.
* `EveryCallEnds`: the handlers take locks in both orders and still end.
* `NoDoubleBooking`: Serializable protects new bookings from each other; two
  bookings overlap exactly where a READ COMMITTED write gets past it.
* `OfferIsHonoured`: two hand-written copies of the booking rules agree.
* `ScreenIsCurrent`, `FreshEntryIsCurrent`, `UserOwnsToken`: the clients' caches
  and sessions, and every way in which they are left behind.
* `ScreenShowsOwnWork`: some sixty hooks each name the keys their change makes
  stale; two pages miss one.
* `OfferedIsAdmitted`: two tables of buttons, in TypeScript and in Dart, against
  the backend's rules; and the one way in which staff can break a visit.
* `ReportsAddUp`: what five unrelated snapshots can and cannot get wrong.

Each property has a mutant of the code's definition in `PROJECT.json` that breaks
it; mutants stand before the definition they change, marked as such.

## 6. Where the code and its documentation differ

Each of these has a run in which TLC shows the steps:

* `NoEdgeOutOfCompleted`. "Booking has no COMPLETED -> anything edge"
  (`schema.prisma:66-67`): the table of edges has none, but a request that
  read CONFIRMED and is written after another's completion moves the booking back
  to ARRIVED, and one that read PENDING and is to reject it leaves a REJECTED
  booking. Its charge stays, so what the comment draws from it, that a ledger row
  "never needs to be reversed", is not kept either: all that holds is that the
  charged booking is not deleted and not cancelled (`NoChargeCalledOff`).
* `WithdrawOnlyPending`. "Only a still-pending booking can be withdrawn"
  (`booking.service.js:324`): a delete that read PENDING runs after a
  confirmation.
* `SettledOnce`. "This transaction has already been settled"
  (`finance.service.js:390`): two admins may both settle.
* `QueueAndBookingAgree`. "rather than leaving Queue and Booking disagreeing"
  (`queue.service.js:427`): the booking route moves a queued booking on and leaves
  its entry, which can then be neither served nor cancelled nor removed.
* `OnlyWaitingReordered`. "Only WAITING entries can be reordered"
  (`queue.service.js:522`): an entry called into service after the check is
  moved too.

The following met while modelling have no run of their own. Where a property
excepts the case, it is named: without the exception TLC shows the steps.

* "The same operating-hours check the availability endpoint uses to build the
  slot grid" (`booking.service.js:145-147`) compares both ends without their seconds
  (`availabilityRules.js:107-109`): a start with seconds, which no client sends
  but the route takes, is accepted although the visit ends up to a minute after
  closing (`BookedByTheRules`, `WithinHours`).
* A reset link works once (`auth.service.js:272-274`), but not for two calls that
  overlap (`LinkResetsOnce`, `together`).
* Favoriting is idempotent and "should never see a 409"
  (`favorite.service.js:43-46`); a double tap gets a server error
  (`ErrorsComeOfRaces`, `raced`).
* A category's deletion answers with "a clear 409" instead of a raw Prisma error
  (`category.service.js:25-31`) when it is in use; one that is gone is not looked
  for, and its deletion is a 500 (`ErrorsComeOfRaces`, `unchecked`).
* The almost-your-turn message is sent "exactly once" (`notification.service.js:73`);
  two broadcasts may both send it (`OneAlmostTurn`).
* The mobile cache is cleared so that the next account never sees the previous
  one's data (`query_cache.dart:143-144`). A request in flight writes it after
  that (`NothingIsInherited`, `outlived`). And "signing in (or switching
  accounts)" opens a fresh socket (`app_providers.dart:98-101`) but clears nothing:
  a registration that is answered after another sign-in, or a sign-in that ends between a logout and the
  end of the store's clear, shows its account what the one before had fetched,
  with no request in flight (`replaced`).
* The mobile handler means to converge on the database
  (`customer_realtime_handler.dart`); a push that patches a stale entry marks all
  of it fresh (`FreshEntryIsCurrent`). When a provider gains approval the patch
  succeeds and the list that should now contain it is not invalidated
  (`:153-155`).
* A status change by the queue's route tells the booking's customer; "those already
  push a fresh snapshot to the provider room" (`queueEvents.js:61-64`), but the
  provider's list of bookings is not made of that snapshot
  (`AnnouncedScreenIsCurrent`, `Silent`).
* The pushed snapshot "matches GET /queue's shape for a PROVIDER caller exactly"
  (`SocketProvider.tsx:137`), but has no COMPLETED or CANCELLED rows, which the
  answer has.
* `provider.controller.js:134-137` announces only changes of opening and waiting
  time, as others change "nothing a browsing customer's card shows"; name and
  address are on the card.
* Revoking an approval "prevents a revoked business from still showing as open",
  and its owner can open it again (`updateOwnProfile`). "Closed to new bookings"
  (`providerProfile.service.js:320-324`) is not asked for by `createBooking`.
* `auth.service.js:182-184` speaks of a 401 interceptor the web client does not
  have; that client's register page stores a token and sets no user (`UserOwnsToken`); its
  logout drops the cached notifications only.
* Two web pages show what their own change has made stale (`ScreenShowsOwnWork`,
  `KnownGaps`): the provider dashboard's seven-day analytics after its queue
  buttons, and a booking's page its ledger row after completing it, until they are
  opened again.
* `QueuePage.tsx` offers Remove of a booking's entry in service, which
  `removeQueueEntry` always refuses; "the UI never offers a button the backend
  would reject" (`bookings/types.ts`). A "Cancel" chosen before a colleague added
  the booking to the queue parts it from its entry, which then waits for good: no
  screen serves or removes it (`OfferedIsAdmitted`, `overtaken`).
* `ProtectedRoute` sends people to log in "remembering where they were headed";
  `LoginPage.tsx:41` goes to the role's dashboard whatever was remembered.
* The assistant's answers may be longer (3000 characters, or without limit) than
  the history entries the server accepts (2000), so an answer can make it refuse
  the messages after it (`RefusedForLength`); clearing a conversation during a
  request lets the old answer in (`AnswersFollowQuestions`).
* `finance.service.js:192-203` contrasts its UTC days with the other analytics'
  local time; both are UTC.
* "Deliberately not every admin write" is audited (`auditLog.service.js:10`). What
  is not: the older approval route (`approve`, `provider.controller.js:35`) although
  `PROVIDER_APPROVED` is among the actions, complaint updates, and an administrator's
  queue operations and deletions of bookings and reviews (`Unaudited`,
  `OwedAuditsAreWritten`).
* The overview's pending providers are a difference of two snapshots, which may be
  negative.

## 7. Plan

Done: the modules of section 2, their runs and the proofs of section 4.

Next: the other mobile screens, as WebPages has the web's.

## 8. Not modelled

* Layout, forms and their validation, filters, charts, wording and translations:
  what WebPages leaves of a page is what it asks, sends and links to. The preview
  pages (`/design-system`, `/components`, `/dashboard-preview`) ask nothing.
* The mobile screens but for those Workflow has. The app's cache and session are
  modelled, the other screens' requests are not: one Dart repository and screen per web hook and page, over the
  same routes.
* Validation, formatting and read-only queries of the backend, beyond which facts
  they read.
* Complaints, vehicles, announcements by admins, provider preferences: single-row
  writes of one owner, with no check another request could undo. Their routes are
  in Endpoints, their announcements and audit records in Announcements.
* Overview and analytics: figures like those of FinanceReports, over snapshots.
* Ownership checks (role checks are in Endpoints); hashing and JWT signatures,
  which are library calls.
* The live camera's stream, email, translation and backup: I/O and exports.
* The external model behind the assistant, and the wording sent to it.

## 9. Running

```
tlc -workers 2 -config MCBookingLedger.cfg MCBookingLedger.tla
tlapm BookingLedgerProofs.tla
```

Each run's module and configuration are in `PROJECT.json`. `queue_booking`,
`slot_booking`, `realtime` and `back_office` take some minutes.

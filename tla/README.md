# TLA+ specifications of fablab-web

fablab-web is the member management of a fablab: a Java EE application (JSF pages, EJB
services, JPA entities on a MySQL database) in which the committee administers the members,
books what they pay and use, searches the books, and watches the door and the machines, and
whose members see the reservations of the machines in a calendar that runs in their browser.
This directory holds TLA+ models of its parts, the TLC configurations that check them on
small instances, and theorems about them proved with TLAPS.

Paths below are relative to `src/src/main/java/net/collaud/fablab/` unless they start with
`webapp/` (`src/src/main/webapp/`), `lang.properties` (`src/src/main/resources/`) or `sql/`
(`src/sql/`).

Contents: [The system](#the-system) - [What is hard](#what-is-hard) - [Modules](#modules) -
[Runs](#runs) - [Fairness](#fairness) - [Proofs](#proofs) -
[What is assumed](#what-is-assumed-of-the-environment) - [Divergences](#divergences) -
[Not modelled](#not-modelled) - [Plan](#plan)

## The system

| Part | State it keeps | Operations | Talks to | Model |
|---|---|---|---|---|
| Payments, usages, subscriptions, balances (`service/impl/PaymentServiceImpl.java`, DAOs, `sql/create.sql`) | tables `t_payment`, `t_usage`, `t_subscription`; columns `balance`, `last_subscription_confirmation` of `t_user` | addPayment, useMachine, addSubscriptionConfirmation, removeHistoryEntry, computeBalance, the history queries | database, audit service, price DAO | `Ledger`, abstractly `Books` |
| Audit trail (`audit/AuditInterceptor.java`, `AuditUtils`, `service/impl/AuditServiceImpl.java`) | table `t_audit` | interceptor around annotated services, explicit rows for removals | joins the caller's transaction | in `Ledger` and `Monitor` |
| Payment page (`ctrl/PaymentController.java`, `webapp/payment/`) | per open page: selected member, list of his history, shown balance, entry to remove | select, clear, add, pick an entry, confirm | payment service | `PaymentPage` |
| User administration (`ctrl/UserController.java`, `service/impl/UserServiceImpl.java`, `dao/impl/UserDAOImpl.java`) | `t_user`; per open page: detached copies of all rows, the object of the dialog | list, create, edit, disable | user DAO, roles | `Members` |
| Accounting page (`ctrl/AccountingController.java`) | per page: two calendars, date fields, list of entries, two totals | six quick periods, search, export | payment service | `Accounting` |
| System monitoring (`cron/SystemChecker.java`, `cron/system/`) | table `t_system_status`, whose content is a serialised object | timer every minute: ping, compare, store, audit, mail | hosts, mail service, audit service | `Monitor` |
| Home page (`ctrl/HomeController.java`) | none of its own | confirm the subscription, days left | payment service | its button is a request of `Ledger` |
| Audit page (`ctrl/AuditController.java`) | filters | search, clear | audit DAO | planned |
| Login and session (`security/`) | session copy of the logged-in user | login, logout, role tests | container | planned |
| Door web service (`ws/DoorResource.java`) | none | users of a group, door events | user service, audit | planned |
| Machines, authorisations (`ctrl/MachineController.java`, DAOs) | machine tables | maintenance of machines | DAO | planned with the door list |
| Reservations page (`webapp/reservations/`, `webapp/resources/fullcalendar/`, `ctrl/ReservationController.java`, `ws/ReservationsResource.java`, `dao/impl/ReservationDAOImpl.java`) | `t_reservation`; on the server the selected machines; in the browser date and view, range asked for, cache and events, counters of pending answers, what the mouse holds | move, change view, today, select machines, answers, errors, lost answers, drag, resize | the web service and a Google calendar by ajax, JSF by ajax | `Calendar` on `EventManager`, `ViewDates`, `DateTexts`; abstractly `LatestAnswer`; `Gestures` on `EventDates`, `SlotSegments`, `DaySegments`; `Layouts` adds `SlotColumns` |
| Saving reservations (`service/impl/ReservationServiceImpl.java`) | - | save, remove | DAO | nothing calls them |
| LDAP synchronisation (`UserServiceImpl.syncWithLDAP`) | none | match directory and table | LDAP server | planned; no page calls it |
| Prices (`dao/impl/PriceDAOImpl.java`) | price tables, edited by hand | read only | - | a constant of `Ledger` |
| Ping service, configuration files, converters, web pages | - | - | - | not modelled |

How they interact. Pages are view-scoped beans: they live as long as the browser stays on the
page and keep copies of rows between requests. A request calls one or more EJB services; a
service method is one container-managed transaction, the DAOs join it. Two pages never share
memory: everything between them goes through the database, so what makes the system
concurrent are transactions that overlap, and copies that grow old. The monitoring runs beside
all this in a singleton with a write lock. The reservations page is a program of its own: a
script that runs one callback at a time, between which answers, clicks and movements of the
mouse come in any order.

What makes each part correct:

* *Books.* The balance of a member is the sum of his history; an entry is booked once and
  removed at most once; the audit table tells which; a confirmation is charged.
* *Payment page.* What is shown belongs to the member selected, is complete, and what is
  removed is what was chosen.
* *Members.* Logins are unique; a removed member stays removed; editing a member changes what
  the dialog offers and nothing else.
* *Accounting.* The list is the entries of the period asked for, the totals are its sums.
* *Reservations.* What the page shows is what the sources answered to its latest question,
  about the machines selected and the days drawn; nothing turns on for ever; every event can be
  seen and taken; a drop does what was shown, and leaves nothing behind.
* *Monitoring.* The stored status follows the hosts; the audit rows tell each change once;
  each change is mailed.

## What is hard

`PROJECT.json` lists every hazard at its line with the properties about it. In short:

* **Overlapping transactions.** computeBalance (`PaymentServiceImpl.java:90`) sums the history
  its snapshot shows and stores the sum. Nothing locks the member before the sum is taken.
  Foreign-key locks and the update of `t_user` can form a deadlock.
* **Failures half-way.** Several rows per transaction, an audit row written by an interceptor
  around it, exceptions after some of the writes, a server that stops.
* **Stale copies.** Saving a member merges a whole copy that was read when the list was drawn;
  a removal uses an entry and a member picked in two different requests; a search leaves its
  list behind for later requests; a failed query leaves half of the page changed.
* **Effects outside the transaction.** The monitoring mails before it commits.
* **Boundaries.** A history cut at a limit; periods whose ends are set in the 12-hour field of
  a calendar; weeks, months and years that do not end together; events that end after midnight.
* **Answers in any order.** Two sources, several fetches, requests that fail, never end or wait
  in a queue behind others, counters that say when all have answered.
* **A screen that changes under the mouse.** Answers draw the events anew while one is dragged;
  an element goes back for half a second while the next gesture begins; all gestures of a view
  share one listener and one set of marks.

## Modules

### Books

What a reader of the books is promised, with no transaction in sight. `JournalSpec`: an entry
is posted once, struck at most once, never changed. `BooksSpec`: every such step also stores
the new sum as the balance of the account. `Ledger` and `PaymentPage` are shown to implement
it.

### Ledger

`PaymentServiceImpl`, statement by statement, for any number of sessions.

| Variable | Code |
|---|---|
| `entries` | committed rows of the three history tables |
| `balance`, `enabled`, `lastSub` | the columns of `t_user` |
| `audit` | `t_audit` |
| `pc`, `work` | the next statement of each session's transaction, and what was asked |
| `snap`, `writes` | the consistent snapshot a transaction reads, and its uncommitted writes |
| `shared`, `exclusive` | InnoDB row locks on `t_user` |

A request is `AddPayment`, `UseMachine`, `AddSubscriptionConfirmation`, `RemoveHistoryEntry`
or `RemoveUser` (the soft delete of `UserServiceImpl`). Its transaction then takes the steps
`Open` (the first SELECT, which fixes the snapshot; the failures of `getById` and of a missing
entry), `Confirm`, `Insert` or `Delete`, `ComputeBalance`, `WriteAudit` (the interceptor, in
the caller's transaction), `Commit`. A removal writes its audit row itself, before the
balance, so its order differs from that of an addition: `Insert`, `ComputeBalance`,
`WriteAudit` against `Delete` (with the row), `ComputeBalance`. `LockFailure` is the deadlock
victim or lock wait timeout, `Crash` stops the server. A statement waits when its locks are
held (`CanLock`).

### PaymentPage

EXTENDS `Books`: each transaction is one step, and the state is what every open page remembers
(`userSelected`, `listHistory`, `shownBalance`, `selectedEntry`) and what the browser shows
(`panel`, `dialog`). The actions are the listeners of `PaymentController`. A selection and
every change of the books reads the history, and the query may fail (`LoseHistory`): then there is
no list (`loaded`), under the balance shown before. The list query is
modelled with what makes it interesting: every table is asked for `Limit` rows *in no stated
order*, and a longer list is cut to `subList(0, nb - 1)`.

### Members

`UserController` and the user service. `rows` is `t_user` (login, balance, enabled), `items` the
detached copies of each page, `object` the object behind the dialog, `linked` whether it is one of
the list (an edit changes the listed copy in place, a create a new object), `busy` and `base` a
save between its check for a free login and its write. Actions: `Open`, `PrepareCreate`,
`PrepareEdit`, `Cancel`, the refusals (`RefusePassword`, `RefuseBlank`, `RefuseLogin`),
`BeginSave`, then `Insert`, `Update` or `ViolateKey`; `Destroy` (the soft delete, which passes
over a copy whose login is blank) and `Pay` (the payment service, as one step).

### Accounting

The accounting page on a clock of half-days, because `updateHoursOfFilters` sets
`Calendar.HOUR`, the hour of the half-day. `filterAfter` and `filterBefore` are the half-days
of the two calendars, `form` the days in the date fields. Actions: the six quick buttons,
`Refresh` (typed dates), `ExportExcel` (which runs the query again when the last one failed),
and outside the page `Book`, `Remove`, `Tick`.

### Monitor

`SystemChecker` and the systems it checks. `stored` and `log` are the committed content and
audit rows, `content` the rows as the running transaction sees them, `todo` what its loop has
not reached, `mails` and `refused` what left for the mail server. `unreadable` rows are those
the factory returns null for. Actions: `Tick`, `CheckSystem` (ping, save, audit row, mail),
`MeetUnreadable` (the dereferenced null), `Commit`, `Crash`, and the environment's
`HostChanges`.

### ViewDates, DateTexts

The calendar's arithmetic as operators: the days a view is about and draws (`WindowOf`), where
"prev" and "next" lead (`IncrementDate`), the mapping between days, offsets and cells with hidden
days (`CellToDate`, `DateToCell`); and the title the header gives a range of days (`TitleOf`,
from `formatRange`, which says only once what both ends have in common). A day is a number;
months are a table, `MonthStart`.

### LatestAnswer, EventManager, Calendar

`LatestAnswer` is what a page with several sources promises: it asks, and is at some later time
given the whole answer to the latest question. `EventManager` is the object of that name.

| Variable | Code |
|---|---|
| `range`, `currentFetchID`, `pendingSourceCnt`, `loadingLevel` | the variables of that name |
| `cache`, `events` | EventManager's cache and Calendar's array, one object while nothing is pending |
| `drawn` | whether the view holds elements of them |
| `requests`, `lost`, `failed` | requests on their way, requests without a callback, sources that answered with an error |

Its actions are `FetchEvents`, `Answer`, `AnswerError`, `Lose`, `Edit` (what the end of
a gesture does to the cache; it draws the events, also on a screen that a fetch has cleared since
the gesture began). `Calendar` adds the page around it: `date`, `window` (the current view), `title`,
the today button, and the machine selection on its way through the server: `selection` is what the
buttons show, `post` the request under way with the selection it carries, `queued` the requests
that wait in PrimeFaces' queue, `machinesSelected` the script's variable. Actions: `Move`,
`ChangeView`, `ClickToday`, `WindowResize`, `Toggle`, `Posted`, `PostFailed` (`oncomplete` runs
for both), `AnswerStep`, `LoseStep`, `EditStep`.

### EventDates, SlotSegments, SlotColumns, DaySegments, Gestures, Layouts

`EventDates` is what an event's dates are: building and normalising them, default durations, and
`mutateEvent`, by which a gesture changes them. `SlotSegments` cuts the timed events into the
segments a column shows, `SlotColumns` places these in it (levels, pressure, coordinates),
`DaySegments` lays out the events of rows of days (pieces per row, subrows, heights). `Gestures`
moves them with the mouse: `gesture` is what the mouse holds, `reverting` the drag whose element
is on its way back (`torn` if the element has left the page meanwhile, `own` while its callback is
the listener's, and `g`, what that callback closed over once another has replaced it), `hover` the
`HoverListener` with what its callback closes over, `overlay` the marked days, `hidden` and
`helpers` the elements hidden or temporary. The actions are the handlers of the four gestures
(`GrabSlot`, `DragSlot`, `ReleaseSlot` for `draggableSlotEvent`; `GrabSlotEdge`, `ResizeSlot`,
`ReleaseSlotEdge` for `resizableSlotEvent`; `GrabDay`, `DragDay`, `ReleaseDay` for the two
`draggableDayEvent`; `GrabDayEdge`, `ResizeDay`, `ReleaseDayEdge` for `resizableDayEvent`),
`RevertEnds`, and `Redraw`, by which an answer draws other events. `upset` is no variable of the
code: it names what has gone wrong before, so that the properties can say when they hold all the
same (`torn`, `overtaken` and `left`, divergences 25 to 27). `Layouts` extends `Gestures` with the
columns its events stand in. What is recursive (`computeSlotSegCoords`) is in `SlotColumns` only,
so that theorems can be proved about the rest.

### Composition

`Ledger` and `PaymentPage` meet in `Books`: `Ledger` shows that sequenced transactions
implement it (`BooksSpec` under `SerialSpec`), `PaymentPage` uses its steps as the
transactions. `Members` uses the payment service as the one step `Pay`, which `Ledger`
justifies for transactions that do not overlap. `Calendar` takes the outcome of a gesture as
one step (`EditStep`), `Gestures` an answer as one step (`Redraw`).

## Runs

`MC<module>.tla` instantiates a module, the `.cfg` files choose a specification and the
properties. Run one with `tlc -config MCLedger.cfg MCLedger`.

| Run | Configuration | Distinct states | Shows |
|---|---|---|---|
| ledger | two sessions, two members, 3 requests | 68,104 | under every interleaving, rollback and crash: audit and history agree (`AuditMatchesLedger`), a balance is always a sum of entries really booked for that member (`BalanceFromHistory`), a confirmation date has its charge (`LastSubscriptionCharged`), an operation nobody overtook leaves the balance exact whatever it was (`UndisturbedExact`), the tables implement the journal (`JournalSpec`) |
| ledger_serial | the same, no two transactions on one member at once | 40,452 | the balance is exact (`BalanceExact`) and the tables implement the ideal books (`BooksSpec`) |
| ledger_lost_update | the same as ledger | violation | two overlapping payments of one member: the balance left behind misses one |
| payment_page | two pages, two members, limit 2, 3 entries | 365,320 | entry and member of a removal match (`RemovalMatchesUser`), every page's use of its copies implements the ideal books (`BooksSpec`), a history up to the limit is complete and its sum is the stored balance (`CompleteUpToLimit`) |
| members | two pages, two logins, two rows, one entry per member | 925,088 | logins unique (`LoginsUnique`); with no enabled copy left a removal is final (`GoneForGood`); fresh copies never part balance and history (`ExactWhileFresh`) |
| members_stale | the same | violation | saving an old copy writes the old balance or enables a removed member again |
| accounting | months of 2 days, years of 4, one entry at a time | 167,216 | totals add up the list (`TotalsOfList`), last and current period meet at any hour (`PeriodsMeet`), typed dates are exact (`TypedDatesExact`) |
| accounting_afternoon | the same | violation | after noon "Today" lists the afternoon and tomorrow morning |
| monitor | two systems, one notified, one breakable, 3 host changes, 2 aborted checks, fairness | 94,376 | audit rows tell the status (`AuditTellsStatus`), changes are mailed (`ChangesAreMailed`), one to one until a rollback (`MailsMatchChanges`), one unreadable row blocks all (`OneUnreadableStopsAll`), the status catches up (`StatusCatchesUp`) |
| monitor_repeated_mail | one host change | violation | a rolled-back check mails the same change again |
| calendar | five months, four days to be at, two machines, three reservations, one entry of Google, three fetches, fairness | 267,858 | counters are exact (`CountersExact`), the view fits the date and what was asked, and its title tells its days (`ViewExact`), a settled page shows the selection (`ShownExact`) and only whole answers to the latest question (`LatestSpec`), one lost answer holds all back (`LostHoldsAll`), views follow each other without gap (`Adjacent`), the page settles (`Settles`) |
| gestures | two weeks with two gestures and one, a month with two, a day with three, on two events; layouts of five events in a column and three in a month | 77,681 | up to eight events in a column can all be reached (`LeftEdgeFree`); events end after they start and are drawn where they last, none over another in a row (`DrawnExactly`); what a gesture leaves on the screen has one of three causes (`CleanAfter`), drops do what was marked and keep durations (`DropExact`) |

Why the bounds are enough.

* `Ledger`: `MaxRequests` = 3 lets two transactions on one member overlap and a third,
  undisturbed one follow (what `UndisturbedExact` is about), or a booking be followed by two
  removals of it at once. Two sessions make every lock cycle that foreign keys and one update
  of `t_user` can form; two members separate "his" entries from "others'". The amounts 10, -3,
  -50 tell every set of at most three entries apart by its sum.
* `PaymentPage`: `Limit` = 2 and three entries give histories below, at and above the limit;
  two pages and two members let one page change what the other has copied.
* `Members`: two pages that compete for one login, and one that holds a copy while the other
  removes or pays; the second row is created in the run, so a list may lack it.
* `Accounting`: `LastDay` = 6 with years of four days starts the clock on day 4, two days before
  the end of a month, and crosses it; half-days cover both values of the hour field. Entries
  lie on two neighbouring days, so a period shifted by a half-day loses or gains one. The
  theorems about periods and typed dates hold for all lengths.
* `Calendar`: three fetches are one abandoned with both answers under way, one behind it and a
  last one; or a selection under way and one in the queue. Of the days one is a Sunday, one
  starts a year (in a week that lies in two), and the moves from them reach weeks and
  windows of months that share days. The reservations are one within a week, one across two
  weeks, one that only the window of a month holds.
* `Gestures`: days of eight ticks of which the agenda shows four, so events begin or end outside
  its slots; a pixel is half a row or column, so the mouse has places on both sides of every
  rounding. Two gestures let one begin while the other's element goes back; with three, on one
  day, a drag meets a `HoverListener` that an earlier one has left bound. An answer may come and
  any gesture begin and end while an element goes back, with three restrictions: one element goes
  back at a time (`GoBack`), the edge of an element that goes back is not taken hold of (`Free`),
  and one drop ends a behaviour's gestures (`Mutate`). `Above` places an element that has left the
  page above the grid, where jQuery reports it. Three gestures also make the temporary element
  that nobody holds (`left`, divergence 27): without its exception the run finds `CleanAfter`
  false. The theorems hold for any number of gestures, with the same three restrictions. The layouts are all choices of five intervals of a
  column, of three of seven spans of days, and the six and the nine events that
  `computeSlotSegCoords` gets wrong, for which `LeftEdgeFree` says what remains (with one of its
  bounds, 5 and 8, raised by one the run finds them).
* `Monitor`: three host changes are a change, its return, and one more (with two of
  them the stored status equals the first one again); two aborts repeat a mail. Either both
  rows are readable or one of them is not.

Deadlock checking is off where bounded requests or aborts end a behaviour, and on for
`PaymentPage`, `Members`, `Accounting`, `Calendar` and `Gestures`.

Symmetry is used for pages (`Members`) and for pages and members (`PaymentPage`), in runs
without liveness; no specification distinguishes them.

## Fairness

* `Monitor`: weak fairness of `Work`, the timer and what it starts. Hosts may change or not, a
  crash need not happen. `StatusCatchesUp` is conditional on readable rows, because with an
  unreadable one it is false - which is what `OneUnreadableStopsAll` says.
* `Calendar`: weak fairness of the end of a selection's request (`Posted` or `PostFailed`) and of
  answers. A browser ends every request with one of the callbacks, by an error if not by an
  answer; the exception, a JSONP request that fails, is `Lose`, and `Settles` excludes what
  follows from it. Users need not click.
* The other modules state safety only.

## Proofs

`tlapm LedgerProofs.tla` and so on; every proof is checked to the last leaf, from the named
assumptions on the constants alone (`LedgerAssumption`, `MembersAssumption`, ...). They say that
prices are integers, a cashier is a user, bounds are numbers, a day of the week is drawn, slots
lie within a day; and of the sources of the calendar that they date events so that they last some
time (`AreEvents`): neither table nor script checks it, but a reservation that ends when it starts
is none; and that a page has finitely many events (`FewEvents`). So the theorems hold for any
number of users, sessions, pages, systems, events, requests, fetches and gestures. The two
theorems about what a view covers have one more hypothesis in their statement, that no day of the
week is hidden (`HiddenDays = {}`), as on this page, which sets no `hiddenDays` and leaves
`weekends` on; with hidden days a view skips some.

| Module | Theorem | Property |
|---|---|---|
| LedgerProofs | TypeCorrect, AuditComplete, SubscriptionsCharged, BalanceNeverInvented, SelfHealing | `TypeOK`, `AuditMatchesLedger`, `LastSubscriptionCharged`, `BalanceFromHistory`, `UndisturbedExact` |
| | ImplementsJournal | the tables implement `JournalSpec` |
| | SerialBalanceExact, ImplementsBooks | without overlap on a member: `BalanceExact`, the refinement of `BooksSpec` |
| MembersProofs | TypeCorrect, OneLoginOneMember, RemovalsLast, FreshCopiesKeepBalances | `TypeOK`, `LoginsUnique`, `GoneForGood`, `ExactWhileFresh` |
| MonitorProofs | TypeCorrect, AuditComplete, NoChangeUnmailed, MailsExact, UnreadableBlocks | `TypeOK`, `AuditTellsStatus`, `ChangesAreMailed`, `MailsMatchChanges`, `OneUnreadableStopsAll` |
| AccountingProofs | TypeCorrect, PeriodsAlwaysMeet, TypedSearchesExact, TotalsAddUp | `TypeOK`, `PeriodsMeet`, `TypedDatesExact`, `TotalsOfList` |
| PaymentPageProofs | TypeCorrect, RemovalsMatch, CompleteHistories | `TypeOK`, `RemovalMatchesUser`, `CompleteUpToLimit` |
| | ImplementsBooks, BalancesExact | every page's use of its copies implements the ideal books (`BooksSpec`); so every balance is the sum of its history |
| CalendarProofs | TypeCorrect, CountersCount, ShowsTheSelection, OneLostHoldsAll | `TypeOK`, `CountersExact`, `ShownExact`, `LostHoldsAll` |
| | ViewIsExact, StepsAreAdjacent | with every day of the week drawn: `ViewExact`, `Adjacent` |
| | ImplementsLatest | the page implements `LatestAnswer` (`LatestSpec`) |
| GesturesProofs | TypeCorrect, AllClean, DropsAreExact, AllDrawn | `TypeOK`, `CleanAfter`, `DropExact`, `DrawnExactly` |
| SetFacts | - | what the others cite: least and greatest numbers, the greatest number of a row, smallest sets, ranks in an order, sums over sets |

The arguments:

* **Ledger.** `AuditMatchesLedger` alone is not inductive: a commit preserves it only if the
  uncommitted writes of a transaction are an entry *and* its audit row. `IInv` says so by the
  program counter (`WritesMatchPc`: a transaction holds the writes of the statements it has
  executed and no others), adds that request numbers identify entries and audit rows
  (`RequestOK`, `RecordsOK`), so a new entry is new, and that no two transactions have deleted
  one entry (`StruckOnce`, kept by the row lock of the DELETE), so an entry is struck at most
  once. `SubscriptionsCharged` needs only that a confirmation's row and date are in one commit
  and that a subscription is never removed. `SelfHealing` is a fact about one commit:
  its sum ranges over its snapshot and its own writes, which is the new history if the books of
  that member are still the snapshot. Under `SerialSpec` they always are (`SerialInv`), hence
  `SerialBalanceExact` and `ImplementsBooks`. Sums enter only through the sum of the empty set:
  these proofs use that equal histories have equal sums.
* **Sums** (`SetFacts`). That the sum of the amounts of a set is a number, that it does not depend on
  the order the elements are taken in and that it splits over two disjoint sets is proved
  without induction over data: of all the subsets that break the fact one has no other inside
  it (`SmallestSubset`, from the library's well-founded order on the subsets of a finite set),
  and the fact for the sets inside it gives the fact for it.
* **Payment page.** `RemovalMatchesUser` is inductive with `TypeOK` and the finiteness of the books:
  only a page without a member ever holds a stale list or entry, and while its dialog is open no
  member can be selected. Its refinement of `Books` rests on that (an entry struck belongs to
  the member whose balance is computed), the exact balance on the refinement, and
  `CompleteHistories` on the exact balance and on the lists, which are no longer than the limit.
* **Members.** `IInv` is `TypeOK`, `LoginsUnique` and `CopiesEnabled`: what pages list is
  enabled, because only enabled rows are ever listed and nothing in a page disables a copy.
  Uniqueness follows from the key check of the write, not from the check before it. For
  `GoneForGood`, a page without an enabled copy has by `CopiesEnabled` no copy at all, and a
  reload never lists a disabled row. For `ExactWhileFresh`, a merge writes the balance column
  only where copy and base row differ, and both equal the stored row.
* **Monitor.** `ChangesAreMailed` needs that changes found and not yet committed already count
  as handed over (`MailsAhead`); `OneUnreadableStopsAll` that an unreadable row never leaves
  the list of a running check (`StuckOnUnreadable`), so none commits.
* **Accounting.** `TypeOK` is inductive once the clock starts a year in (the page looks one year
  back). `PeriodsAlwaysMeet` is arithmetic of quotients; `TypedSearchesExact` follows from the
  calendars being set to midnight. For `TotalsAddUp` a search adds up the list it loads in two
  parts, the positive and the other amounts, and starts from zeros or from what an earlier search
  that failed has left (`Totals`).
* **Calendar.** `IInv` says what the cache holds at any moment: the replies of the sources that
  have answered without an error, to the question asked last (`Filled`); that the requests of the
  current fetch, lost ones included, ask this very question and come from different sources
  (`Sound`); and that cache and events are one while nothing is pending (`Settled`). Hence the
  last answer is the whole answer, which is the refinement, and a lost one is never the last.
  For `ShowsTheSelection` the page's half adds that an empty queue has sent what the screen
  shows (`Sent`); `Budget` keeps the fetches within their bound. That the days of a view are days
  at all needs that some day of the week is drawn (`SkipsToADay`). For `ViewIsExact`, `ViewInv` adds
  that what is drawn was asked for, and that title and today button are those of the window;
  what the title of a range tells is the first and the last day, by cases on what both have
  in common, for any format. `StepsAreAdjacent` is a fact about `WindowOf` and `IncrementDate` at
  any date.
* **Gestures.** The invariant has three parts. `TypeInv` says which event a gesture holds, that it is
  still there, and whose callback the `HoverListener` has (`HoldOK`). `MarkInv` says what is on the
  screen while a gesture lasts: the days marked are those a drop would give the event
  (`DayMarked`, `EdgeMarked`, `SlotMarked`), a free mouse marks none
  (`FreeMarked`), only what is held or goes back is hidden (`HiddenClean`) or has a helper
  (`HelpersClean`), a listener that hears drags has the callback of one (`DragsHeard`), and an edge
  that is pulled is drawn or a helper stands for it (`EdgeDrawn`); each part names what must have
  gone wrong where it fails. `AllClean` and
  `DropsAreExact` follow from the two. `EndInv` says that the edge that is pulled was taken in the
  cell of the event's last day and comes no nearer than that of its first (`DayEdge`), so that
  events always last some time (`Lasting`). For `AllDrawn`, cells and days correspond: from the cell
  of a day on, the cells are those of the days from this day on (`CellsFollowDays`), in spite of
  hidden days and whatever day a grid starts with; so a row's piece of a range covers exactly the
  cells of its days, and two rows never draw one cell.
* **Rows of days.** That the segments of a row do not cover each other (`RowsStacked`, a part of
  `DrawnExactly`) is about the operators of `DaySegments`, for any finite set of events with any
  heights. `compareDaySegments` orders the segments of a row (`RowOrdered`: two that agree in
  width, all-day, start and title are one), so each has a rank of its own (`Ranks`) and sorting
  lists each once; joining subrows and flattening them keeps that (`JoinedLists`, `FlatIs`).
  Piling up, no column ever gets lower, and a segment's columns are left at its bottom
  (`PilesUp`); a later segment that shares a column with it starts no higher (`StaysBelow`),
  and the highest column is the height of the row. That the recursive functions of these
  operators exist (`JoinsExist`, `FlattensExist`, `PilesExist`), and what holds of them after every
  segment, is proved without induction over data, by the first segment where it would fail.

Model-checked only:

* Liveness: `StatusCatchesUp`, `Settles`. That a request of the payment service ends is not
  stated: its statements have no loop, and that a wait for a lock ends is the database's doing.
* `LeftEdgeFree`: the columns of the agenda are placed by a recursive operator, and where a
  segment ends up depends on all chains of collisions. It is no fact about any number of events
  either, as divergence 23 shows; it is checked for all choices of five.

## What is assumed of the environment

Everything here is used by the code and not part of it; it is modelled from that use.

* **Database.** InnoDB at its default isolation: the first SELECT fixes the snapshot, own writes
  are seen, an INSERT takes shared locks on the rows its foreign keys name (`sql/create.sql`),
  an UPDATE an exclusive one, held to the end; a crash rolls open transactions back; unique keys
  are checked when the row is written.
* **EclipseLink.** No shared cache; a merge or a flush writes the columns that differ from the
  row that was read, and nothing if none differ.
* **EJB container.** One transaction per service call, rolled back by any RuntimeException; a
  write-locked singleton never overlaps itself.
* **JSF and PrimeFaces.** A click on a component that the server no longer renders is dropped;
  a modal dialog keeps the rest of its page out of reach; an answer redraws the parts of the
  page in their order; a view-scoped bean survives a failed answer. Clicks are not lost, except
  that a dialog may be confirmed twice before it closes.
* **Browser.** One callback at a time. An ajax request ends with its callbacks, except JSONP
  requests that fail (jQuery 1.10 of PrimeFaces 4.0); PrimeFaces sends one request at a time,
  written from the form when it leaves. jQuery UI 1.10 reports a drag's start, moves and stop; an
  element with `revert` goes back before its stop, even if it leaves the page on the way; one
  whose element leaves the page while it is dragged is destroyed, without a stop, and setting its
  options throws.
* **Google.** Its feed gives the entries that overlap the days asked for.
* **Stored members pass their own check.** The save inside `computeBalance` runs
  `checkUserConstraint`, whose checked exception would commit a booking without its balance; it
  cannot be thrown for a stored row, whose login and mail are trimmed and unique.
* **Data.** Amounts are integers, a usage has a price, months and years have one length each, time
  of day is one of two halves; a reservation ends after it starts. Wording, formatting and the
  layout of exported files are left out.

## Divergences

Differences between what the code does and what a comment, text or name beside it says. The
first four are runs with a counterexample; the others were met while modelling and are noted
here, most of them because a property about them would restate a line.

1. `PaymentServiceImpl.java:96`, "update balance of the user" (line 178): lost update of the
   balance (`ledger_lost_update`). `SelfHealing` says how it is repaired: by the next booking of
   that member that nobody overtakes.
2. `AccountingController.java:116`: `Calendar.HOUR` (`accounting_afternoon`).
   `Calendar.HOUR_OF_DAY` would make the periods exact.
3. `UserDAOImpl.java:51`: a save of an old copy (`members_stale`). `ExactWhileFresh` says when
   it is harmless.
4. `SystemChecker.java:60`: repeated mail (`monitor_repeated_mail`).
5. `PaymentServiceImpl.java:121`: `subList(0, nb - 1)` shows one entry less than asked for, and
   as each table was asked for `nb` rows in no stated order, not always the latest ones; the comment
   at `ctrl/PaymentController.java:113` speaks of "the last 100 entry". `CompleteUpToLimit` says
   up to where the page is right.
6. `PaymentServiceImpl.java:200` files every removal as `AuditObject.PAYMENT`, a usage too; so does
   the model (`AuditRowOf`).
7. `audit/AuditInterceptor.java:29` asks for a transaction of its own (REQUIRES_NEW); the
   annotation has no effect on an interceptor method, the row joins the caller's transaction.
   The model follows what happens; the properties about the audit table depend on it.
8. `webapp/payment/history.xhtml:57`: the dialog opens in the browser even if the request that
   picks the entry never arrives. The bean then still holds an entry picked before, and the
   dialog names no entry; `RemovalMatchesUser` therefore assumes that clicks arrive. A selection
   whose query throws a RuntimeException pairs them in the same way: the bean has the new member,
   the page is not drawn again and offers the old one's entries. What `reloadHistory` catches is
   the FablabException (117), which no DAO throws today; after one of these the list is gone and the
   previous member's balance stays under the new name.
9. `ctrl/AuditController.java:51-68`: every call of `getListEntries` adds a day to the filter
   labelled "Before" (`lang.properties:26`) and never keeps the list it read; the page calls it
   for the table and for `isLimitExceeded`, so the filter moves with every drawing.
10. `cron/system/Door.java`: `executeCHeck` overrides nothing, so a door is checked as any other
    system.
11. `UserDAOImpl.java:150`: the users of a group are not filtered by `enabled`.
12. `UserServiceImpl.syncWithLDAP`: missing users are only reported; a new one is created with
    no list of groups.
13. `ReservationServiceImpl`: the check for an overlapping reservation is a FIXME, and nothing
    calls save.
14. `audit/AuditInterceptor.java:53` files a failed operation with `success = true`, as line 48
    does a successful one. A checked exception does not roll the transaction back, so a save
    that `UserDAOImpl.checkUserConstraint` refuses leaves such a row; a RuntimeException takes the
    row with it.
15. `MachineController.persist` (82) ignores the action it is given: `destroy` saves the machine.
16. `ctrl/UserController.java:94`, 177: a blank login is refused with a message, but the request does
    not count as failed, so the dialog closes and the message is all that tells; the copy in the list
    keeps the blanks, for which a click that removes that member is refused as well, and only then
    the list is read again (`RefuseBlank`, `Destroy`).

On the reservations page, `fullcalendar.js` unless another file is named:

17. `dao/impl/ReservationDAOImpl.java:53` asks for reservations that lie within the range,
    `isFetchNeeded` (1314) keeps answers for a view within it: a reservation over midnight at
    the edge of what was asked is missing in one view and shown in another, depending on the
    views opened before. `ShownExact` says exactly which may be missing.
18. `webapp/resources/fullcalendar/gcal.js:55`: a Google answer that does not come, has no `feed`
    or an entry without `gd$when` runs no callback, so the fablab's own reservations are not
    shown either and the loading image stays (`LostHoldsAll`).
19. `webapp/reservations/list.xhtml:54`: `oncomplete` runs after a failed request too; the buttons
    then show another selection than the calendar.
20. `ws/ReservationsResource.java:74`: with no machine selected the answer is an error.
21. Events can be dragged and resized, but nothing saves them: the page passes no handler. A
    gesture while answers are pending changes the cache and not the screen's events, and is
    lost with the next fetch. A resize in day cells begun before a fetch cleared the screen ends on
    handlers of its own (6690) and draws the old events again.
22. `updateTodayButton` (907) runs when a view is drawn: after midnight the button stays off.
23. `computeSlotSegCoords` (5387): a segment whose place was already set by a longer chain is not
    moved for a shorter one, so of six events in a column two that share time may overlap,
    and of nine one may begin behind the left edge of one drawn over it (`SixEvents` and
    `NineEvents` of `MCGestures`).
24. `resizableDayEvent` (6609) reckons in offsets of cells from rows and columns; in the agenda
    the rows below the first are slots of the same day, which it takes for weeks; the comment at
    5735 describes the month only.
25. Drawing events anew during a drag (884): the element is torn off, `stop` never runs,
    its marks stay and `HoverListener` (6971) keeps a callback that throws, so that later drags of
    timed events do not follow the mouse until another day's drag replaces it. While it is bound a
    drag of a timed event over the all-day row marks the other event's days, or none, and is
    dropped where the mouse is: `DropAsMarked` speaks of drags that no such listener hears.
26. Drawing anew during `resizableDayEvent`: the end is reckoned from the old dates and may lie
    before the start (`upset` in `Gestures` excludes it from `EndAfterStart`); if the event is gone,
    the temporary element remains (5636).
27. A gesture begun in the half second an element goes back: the first one's `stop` unbinds the
    listener of the second, or, for a resize, leaves the "drag" binding for good (7011). What is
    left is then the callback of the resize: a later drag of a timed event sizes the temporary
    element of an event that nobody holds, which stays on the screen (`left` in `upset`). A drag of
    a timed event in that half second is heard by the callback of the element on its way back,
    which then takes it for moved, and `stop` drops it. If an answer has come too, it is dropped
    with the dates of before the answer, by the top that an element without a page has
    (`Overtaken`, which `KeepsDuration` excepts).
28. `draggableSlotEvent` (5165), "reset states for next time, and for updateUI()": the event's
    start of the last move is not reset, so the label of an event that went back tells a
    time it is not at.
29. A timed event that goes to the all-day row and back loses its duration (1826).
30. `compareDaySegments` and `rangeToSegments`: zoned and unzoned moments are compared as
    instants, and days are sorted as texts.
31. `AgendaWeekView` (3529) passes the separator ' — ' to `calendar.formatRange`, which
    ignores it (523).
32. `data/calendar/FullCalendarEvent.java:17`: one `SimpleDateFormat` for all requests.

## Not modelled

* The columns of `t_user` that no property distinguishes (name, address, phone, password), the
  machine authorisations in the dialog and on the payment page, and groups.
* Container login, configuration files, converters, messages, the Excel export's content, the
  ping service: no state, or none that steps can put out of order.
* Web pages except for what they decide about requests (which buttons are drawn, which fields
  are submitted).
* Of `fullcalendar.js` what this page never reaches: selecting days, events dropped from outside,
  the basic week and day, right-to-left, the parts of its interface nobody calls; the texts on
  events, the clock (the day does not change), summer time. The dates of an answer are what the
  table holds.
* The other vendored scripts (decoration and layout), the build and the deployment.

## Plan

Order: what is most valuable and most concurrent first.

1. `Books`, `Ledger`, `LedgerProofs` - done.
2. `Monitor`, `MonitorProofs` - done.
3. `PaymentPage` on top of `Books`, `PaymentPageProofs` - done.
4. `Members`, `MembersProofs` - done.
5. `Accounting`, `AccountingProofs` - done.
6. The reservations page: `ViewDates`, `DateTexts`, `EventManager`, `Calendar`, `CalendarProofs`,
   `EventDates`, `SlotSegments`, `SlotColumns`, `DaySegments`, `Gestures`, `Layouts`,
   `GesturesProofs` - done.
7. `Subscription`: the days left (`daysToEndOfSubscription`, its truncation to whole days, free
   memberships, a new duration in a price revision), what the home page and the payment page
   draw from them (they differ for a free membership), and the two buttons that confirm. The
   question for the run: when can a member be charged twice for one period.
   `Access` with it if it stays small: the session's copy of the current user, groups, the
   door's list of users; who the door admits after a removal or a change of groups.
8. The audit page (its filter moves by itself, divergence 9) and the LDAP matching loop, as
   pure operators checked against the comments of their interfaces.
9. Refinement of `Members!Pay` by a `Ledger` restricted to one member.
10. Rows of day segments are piled up without overlap (`RowsStacked`, in `AllDrawn`) - done.
   The columns of the agenda (`LeftEdgeFree`) are checked for five events, their two
   counterexamples kept as layouts.

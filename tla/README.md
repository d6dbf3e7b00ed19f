# Seatsurfing in TLA+

Models, TLC runs and TLAPS proofs for Seatsurfing, the web application for
booking desks and rooms: a Go server over PostgreSQL (`server/`) and a
React client (`ui/`). Paths below are relative to the root of the repository.

- [How the system works](#how-the-system-works)
- [Inventory](#inventory)
- [The modules](#the-modules)
- [The runs](#the-runs)
- [Where code and documents disagree](#where-code-and-documents-disagree)
- [Seen while modelling](#seen-while-modelling)
- [What is proved](#what-is-proved)
- [What is not modelled](#what-is-not-modelled)
- [Plan](#plan)

To check everything, in this directory:

    tlc -workers 2 -config serial.cfg MCBooking     (and so on, see the table of runs)
    tlapm BookingProofs.tla                          (and the other *Proofs)

## How the system works

**The server.** Every HTTP request is served by a goroutine of its own. A handler
(`server/router/`) reads and writes tables through repositories (`server/repository/`), one
SQL statement at a time. **There is no transaction, no row lock, no foreign key and no
constraint over several rows**, so a handler is a sequence of atomic statements, and
the statements of other handlers come in between. Rows are written back whole:
`Update` sets every column from a copy read some statements before. Some handlers
start further goroutines with `go` (CalDAV, mail) that outlive the answer and write
the row again. One more goroutine is the minute timer (`server/app/app.go`), which
purges, mails reports, ends bans and deletes what has expired. A stop of the process loses
all goroutines and the in-memory cache, and keeps the tables.

**The client.** A page is a React component: its state, event handlers that the user may
call at any time, and chains of requests whose answers are handled as they arrive. JavaScript
runs one handler at a time, so a step of a page is atomic up to the next `await` or `.then`;
between them the user goes on, other answers come, dialogs are closed and opened. Nothing cancels a
request. Tabs share the tokens in `localStorage`, while each has its own mutex (`Ajax.ts`).

These are the behaviours the models are about. What the tests of the repository
exercise, one request after the other against a fresh database, is the easy part.

## Inventory

| component | state | operations | hard | correct when |
|---|---|---|---|---|
| Bookings (`booking-router.go`, `booking-repository.go`) | table `bookings` | create, update, delete, approve, decline, purge | check-then-act over statements, stale full-row writes, goroutines that outlive the request | no space is booked twice, limits hold, approval is given by an approver, a deleted booking stays deleted, the calendar mirrors the table |
| Queries over time (`booking-repository.go`) | none | `GetConflicts`, `GetTimeRangeByUser`, `GetConcurrent` | boundaries of intervals, sampling | they select the stays that share a minute |
| Recurring bookings (`recurring-booking-*.go`) | table `recurring_bookings`, `bookings.recurring_id` | precheck, create, get, delete | statements that fail or interleave; arithmetic of weekdays | a link names a series that exists, no series is empty, a series books its occurrences |
| Daily report (`daily-booking-report.go`) | setting with the last day sent | run by the timer | failure of one of several calls, restart, retry | every recipient gets the report of a due day, and a day done was mailed to all |
| Timer (`app.go`) | none | minute tick | interleaves with handlers | what is due is done |
| Day status, space types (`space-router.go`, `SpaceTypeBooking.ts`, `search.tsx`) | none | `getDayStatus`, what the dialog offers and refuses | three copies of the rules, boundaries of the day | they agree with each other and with the checks of the server |
| Accounts and bans (`user-*.go`, `auth-attempt-repository.go`) | tables `users`, `auth_attempts` | login, refresh, passwords, update, ban, enable | full-row writes; a ban that ends by timer | a write undoes no other, who fails too often is banned, a ban ends |
| Sessions and tokens (`auth-router.go`, `session-*`, `refresh-token-*`; `Ajax.ts`) | tables; tokens in the browser | login, refresh, logout, expiry | rotation by two actors, tabs share the storage but not the mutex | a refresh that succeeded logs nobody out; the limit on sessions |
| Second factor and passkeys (`user-router.go`, `passkey-*`; `TotpSettings`, `PasskeySettings`, `TotpSetupModal`, `_app.tsx`) | secrets, passkeys, one-time states; `RuntimeConfig.INFOS` | set up, validate, remove, enforce | setups side by side, client's own copy | a factor in use stays, the client knows the factors |
| Settings and cache (`settings-repository.go`, `cache.go`; settings page) | table `settings`, cache of 5 minutes | get, set, delete | a fill that races with a write | what is served is what is stored, or one of the known ways led past it, and such a value goes in the end; what is saved is stored |
| Search page (`search.tsx`) | what is chosen, what is shown, a dialog, a filter | load, pick, book, cancel, search | answers out of order, dialogs reopened | what is shown is what was chosen; confirmed is what was checked |
| Pages of the administrator and user (areas, bookings, users, settings, preferences, login) | forms and lists | load, edit, save, delete | edits and saves while requests are out, saves of several steps | the page says "saved" only of what is stored, and stays usable |
| Organizations, domains, spaces, locations, types, attributes, groups, buddies | tables | CRUD, bulk update, primary domain | deletion in many statements | one primary domain; no booking without its space |
| Auth providers, search and statistics, mail, config, plugins, schema upgrades | none or their own | reads, calls | none | - |

`PROJECT.json` lists the components with what is modelled of each, and the hazards of
the code line by line with the properties that watch them.

## The modules

    Intervals, Reservations <- Booking <- MCBooking;   Intervals <- DayStatus
    Cadence   <- Recurring <- MCRecurring
    DayStatus, Cadence <- MCAlgorithms
    DailyReport, Accounts <- MCTimer
    LatestWins <- SearchPage <- MCSearch
    BookingDialog, SearchFilter, LocationEditor, Sessions, PreferencesPage,
    SettingsPage, BookingEditor, LoginPage, UserEditor, SecondFactor, SettingsCache <- MCPages

with the proofs above what they are about:

    Intervals, Cadence <- OperatorProofs
    MCAlgorithms, OperatorProofs <- AlgorithmsProofs
    MCBooking, OperatorProofs <- BookingProofs
    MCRecurring, OperatorProofs <- RecurringProofs
    MCTimer <- TimerProofs
    SearchPage <- SearchPageProofs
    Sessions, LoginPage, SecondFactor <- LoginProofs
    MCPages, LoginProofs <- PagesProofs

### The server

**Intervals** - the WHERE clauses as operators on stays, with their meaning by minutes
next to them. Time is in minutes, the step of the sampling loop of `GetConcurrent`.

**Booking** - the table and its handlers. A handler is cut where another one's write
can matter: `ReceiveCreate` and `ReceiveUpdate` (reads up to the static checks),
`CheckLimits`, `CheckConflicts`, then `Insert` or `WriteUpdate`; `ReceiveApproval`
then `Approve` or `Decline`; `ReceiveDelete` then `Delete`. `req[p]` is a request in
flight with its copy of the row, `task[w]` a goroutine started by `go` with its copy:
`PutEvent` is the answer of the CalDAV server, `StoreEventId` the UPDATE that follows
it. `now` ticks through `Times`. `PurgeOldBookings` is the timer's DELETE, `Restart`
the end of the process. `granted` and `dirty` are history: what was approved by whom
is entitled, and which rows were written since an actor read what it will use. A
stay has passed the static checks (durations, office hours, days in advance: see DayStatus);
the checks that depend on other bookings are complete, and so is the order of them.
As in the code the limits count the bookings of the *requesting* user, whoever a booking
is for. `Retention` is the age from which the purge takes a booking, after the code has
raised the setting to its minimum of 30 days.

**Cadence** - `CreateBookings` and `getNextBookingTime` as functions on days, and what
a recurrence means as a set of days.

**Reservations** - what Booking implements when requests come one at a time or clients wait (`KeepsReservations`): entries
that are made, moved, confirmed and struck out at once, no two of them at one place and time.

**Recurring** - `recurring_id` and the table of series. Single updates are one step
here (their interleavings are in Booking); creation and deletion of a series and of
the last booking of a series are cut at every statement, and so is the purge, whose
second statement deletes the series without bookings. `store` holds the rows that
CalDAV goroutines will write back.

**DailyReport** - `RunIfDue` in the steps `RunIfDue` (setting read, through the cache),
`BuildPreview`, `SendTo` each recipient, `SetLastSent`. Each call may fail.

**SettingsCache** - one setting, its row and what the cache has of it. `Get`, `GetAll` and
`Set` are a statement and, later, a call of the cache (`CacheSet`, or `CacheSetFails`: the code
does not look at the result); `access[r]` is what request r has read or written and not yet told.
The entry loses its minutes with `CacheTick`, may be evicted, and survives a stop of
the server if it is in Valkey. `crossed` is history: the cache was last told by a request whose row had been
changed in between, or a change was never told. DailyReport has the same cache from the point of view
of its one reader.

**DayStatus** - pure operators: what `getDayStatus` computes from the bookings of a desk,
how `SpaceTypeBooking.ts` corrects that answer as the day goes by, which periods the
dialog refuses, and the rules of `booking-router.go` that decide at last. A desk is a
record of office hours, type (flexible with a minimum, or fixed slots, or none) and the
organization's least duration. The instance is scaled: a "minute" has two "seconds", half an
hour one "minute", so that the second that the code subtracts between bookings, and both
sides of every comparison with it, exist on a day of few instants. The loops over the bookings are recursive functions,
and like the code the server's rules look at the merged intervals, those of the client at the bookings as they came.

**Accounts** - the row of one user. A request is [at, copy]: it read the row, and writes
its copy when it comes to `WriteRow`, `WritePassword` or `BanUser`; in between other
requests and `EnableUsersWithExpiredBan` write. A login is recorded
(`RecordLoginAttempt`), counted (`checkBanUser`) and, if it was right, writes its copy for the time
of the last activity (`Counted`). Times are relative so that `Tick` stays finite: failures have an age
and leave at `LoginProtectionWindow`, bans count down. `stale`, `overwritten` and
`pardoned` are history: the copy is older than the row, a stale copy has brought back a
password, a due ban was lifted since the last attempt.

**Sessions** - server and browser together: a request (`queries`) waits for the
mutex of its tab, reads the token, refreshes if the access token has expired, writes the
pair to the storage, and is sent. `refreshTokens` and `sessions` are the tables. Logout, ending
a session from elsewhere, expiry, reload of a tab and lost answers are actions.

### The client

**SearchPage** implements **LatestWins**, the abstract specification of a view that is loaded
in the background: what it shows belongs to the selection of that moment. A chain of
requests is a record in `calls`, `at` is the request that is out; each answer goes
through the guards of its code (current area, current day, number of the request).

**BookingDialog** - check, precheck of a recurrence, book, cancel, close and open again.
**SearchFilter** - the filter is edited in place and sent when applied; a list is
represented by the filter it was asked with.
**LocationEditor** - the four saves of an area in a row, seats with keys and ids, `changed`
marks, the reload. A seat has an attribute `map`, the identity of the JavaScript objects with its
attributes: `copySpace` gives the copy that of the original, and `setSpaceAttribute` changes the details
of all seats that have it, but marks one. **BookingEditor** - the two pickers with one timer, the lists of
spaces, save and delete. **UserEditor** - role, method of login, invitation; with `create`
and `update` of `user-router.go`, which write the row and invite afterwards. **PreferencesPage**,
**SettingsPage** - forms that share a flag, CalDAV account and calendars, domains with `SetPrimaryDomain` in its two statements,
each of which may fail unanswered (`DomainStep`), and answers and lists that are lost (`DomainLost`, `DomainsLost`).
**LoginPage** - organization, password, passkey, second step, change of a password.
**SecondFactor** - the dialog that enforces a factor (`_app.tsx`), the two blocks of the
preferences and the handlers behind them, with the copy of the client in `INFOS`. Only the user writes
the row there; the other writers of users (refresh, login, an administrator) are not part of the module.

What a plain form holds is the number of its last edit: a property can then say *which* edit
is stored, and texts, colours and positions are left out.

**MC\*** modules give the constants values and name restricted next-state relations.
MCAlgorithms has the behaviours that enumerate the inputs of the pure modules. MCTimer
and MCPages put several components side by side (SettingsCache with the pages, where there was room for it): a behaviour is one of
the part chosen in its first state, and the others stay as they are, so that the state space
is the sum and not the product of the parts.

### Choices a reader should know

- `go f(row)` needs an idle worker in Booking: a goroutine that could not be started is
  a step that waits, so `Workers` bounds the goroutines alive, not what they do.
- An UPDATE of a row that is gone changes nothing (`UpdateRow`), as in SQL.
- The id of a calendar event is the id of the booking, so that a second PUT replaces
  the first, and a purge leaves the event in the calendar.
- The clocks of server, browser and location agree. In DayStatus a status at a moment
  in the middle of a minute is true up to the running minute.
- `delete` starts its goroutine before it deletes the row, and only if its copy of
  the row has an event id, both as in the code.
- A request of the client is answered, fails, or is still out; an answer has what the server
  holds at the time of the answer, the request its parameters at the time of sending.
- `UtcOffsets` in BookingEditor are the distances of the browser's time zone from UTC, in the hours of that
  module: 0 and 1 stand for "in UTC" and "not". Only their difference matters to a list, which is represented by the dates it
  was asked with.
- `invitations` in UserEditor counts mails that went out, and `reasons` what called for one. An SMTP server may
  take a mail and the talk with it fail afterwards (`sendmail.go:652`): the answer is then the error of an invitation that
  failed, nobody can tell, and the mail counts in both.
- DayStatus is about organizations that do not book by the day: a booking of a whole day
  (00:00 to 23:59:59) never passes office hours that end at 23:59 at the latest.

## The runs

| run | module | instance | distinct states | shows |
|---|---|---|---|---|
| `algorithms` | MCAlgorithms | tables of up to 3 stays within 6 minutes; recurrences of 5 weeks, cycles to 3, up to 3 sorted weekdays; desks of every kind with up to 2 bookings on a day | 934k | the queries select the stays that share a minute; sampling counts no more than the peak; a series books its occurrences; the day status is true |
| `serial` | MCBooking | 1 request, 3 ids, 3 users, 3 spaces, 3 stays, all three limits set | 167k | no limit exceeded when requests come one at a time |
| `race` | MCBooking | 2 requests, 2 ids, a user and an approver, 2 spaces | 1.29M | a double booking needs a view that is out of date; nothing is approved without an approver |
| `caldav` | MCBooking | 1 request, 2 goroutines, 2 ids, bookings on behalf of another | 871k | rows that goroutines write back bring no deleted booking back |
| `calendar` | MCBooking | 1 request, 1 goroutine, 2 ids, clock of 3 instants | 236k | undisturbed, the calendars mirror the table and the bookings implement Reservations, so that no space is booked twice |
| `series` | MCRecurring | 1 request, 4 ids, 2 series, updates, failing statements, restarts | 13k | no link to a series that is gone; the precheck promises no more than create books |
| `series_delete` | MCRecurring | 2 requests, 3 ids, 2 series, purge and CalDAV | 447k | no series without bookings; nothing of a deleted series in the future |
| `timer` | MCTimer | 2 recipients, 2 days, 3 failures; or 2 requests, 2 passwords, 2 failures to a ban | 834k | reports are sent to all, who fails too often is banned, bans end, passwords stay |
| `search` | MCSearch | 2 areas, 2 periods, 4 chains, 2 of them open | 881k | the page implements LatestWins, settles on what was chosen, and does not load for ever |
| `pages` | MCPages | ten parts of the client and the cache of settings, bounds in the cfg | 1.07M | the pages and the cache keep what their properties say, and come to rest |
| `race_double` | MCBooking | as `race` | violated | two creates at a time book a space twice |
| `location_saved` | LocationEditor | 2 seats, 3 edits, 2 saves | violated | "saved" seats that are stored twice |

**Bounds on the server.** The properties speak of pairs of bookings or of one more than a limit:
two rows and the row to be written make every case of a clash, and with `MaxPerArea = 2` three ids
are what exceeds it. A third request in `race` would add only another writer of the same
kinds. The stays of `serial` are two that overlap in part and one apart, and a limit per
user of 1 with three users lets the area limit bite in different spaces. The
instants of the clock lie before, within and after the stays, so that a booking is
upcoming, begun, over and, where the run has a later day, old enough for the purge. Ids are
never reused (`used`), which bounds the creates; `MaxFailures` and `MaxDay` bound the
failures and days of the report. In `algorithms` five weeks hold two full cycles of the
longest cadence plus a rest, and every weekday is tried as the first day. In `timer` two
failures ban, a ban lasts a minute, the window two, and three failures may count, so that
a ban can end within the window and be pronounced again.

**Bounds in the client.** Each page has caps on edits, on requests sent and on requests
out at a time. Two requests out are what a late answer needs, three chains what lets an
answer come after two newer choices. One cap hides behaviour and is chosen so: `MaxUserOut
= 1`, because two submissions of the user form send two invitations (see below).
`MaxPasskeyFails` bounds the passkeys that fail while a user is banned, each of which
extends the ban, and is needed for `BanEnds`. `MaxWrites` bounds the changes of the setting
in SettingsCache: three, so that a late request can have been overtaken by one that the cache
already knows.

**Symmetry.** Ids, requests and goroutines are permuted in the runs of Booking and Recurring, in
`serial` also users and spaces, which differ in nothing there. No run with a symmetry set
checks a liveness property. `pages` breaks symmetries by hand: the first request comes from a
fixed tab, and initial states that differ only by names are taken once (`PagesInit`).

**Deadlock** is checked in every run of MCBooking. `CHECK_DEADLOCK FALSE` stands in
`algorithms` (the end of the recurrence reaches its bound), in the runs of MCRecurring (the ids
are used up), in `timer` (after the last day), and in `search`, `pages` and `location_saved`,
where all edits and requests are spent.

**Restricted specifications.** `UndisturbedSpec` (`calendar`) has clients that wait for
the answer and its goroutines, a CalDAV server that answers, and no restart; without
those assumptions `CalendarMirrorsTable` cannot hold, since the code does not try again.
`CreateDeleteSpec` (`series_delete`) has no updates, failures or restarts: a series left
empty by a stop between two statements stays until the purge, and an update takes a
booking out of its series. A client there deletes a series only once the creation is
answered, since the answer is where it learns the id. `serial` has no admin who
acts for others: a limit per user that counts the requesting user cannot hold for another.

**Liveness and fairness.**

- `TimerDoesItsWork`: a due report is sent unless its day ends first, a ban ends. Weak
  fairness of the timer's steps, since `InitializeTimers` runs an endless loop over a ticker
  and `onTimerTick` calls each job whatever failed before; and, for bans, of the
  clock. Nothing is assumed of the mail server but that it fails at most `MaxFailures`
  times. Requests have no fairness: a client may never come back.
- `LoadingEnds`, `PagesRecover`: weak fairness of answers: a request is answered or fails in the
  end, as a browser sees to. The user is under no obligation. For the cache of settings in
  `PagesRecover` (`CacheAgrees`): time goes by, and a request that has had its statement goes on to its call of the
  cache, which may fail; once nobody changes the setting, the cache ends with what the table has. The conjuncts of `PagesRecover` name the
  exceptions the code has, where it does not catch a failure.

**Properties in bundles.** A property that ends a list of named parts is their conjunction
(`PreferencesKept`, `EditorKeepsTrack`, `AccountIsKept`, `DayStatusIsTrue` and others);
the parts stand above it with comments of their own.

**Mutants.** Operators whose comment begins with *Mutant of* are plausible bugs of the
definition they name. With the definition replaced, TLC finds the property that
`PROJECT.json` lists with it violated in the same run.

## Where code and documents disagree

Both are runs that TLC must find violated; the quotes are in `PROJECT.json`.

| run | property | what happens |
|---|---|---|
| `race_double` | `NoDoubleBooking` | two creates both read no conflict, both insert |
| `location_saved` | `SavedMeansStored` | `BulkUpdateResponse` is read from the wrong object, so that seats just created get no id; the next change creates them again |

## Seen while modelling

No run of their own; each is something the models have to allow for.

**Bookings and series.**

- The goroutine that stores the event id writes the row as it was before a move, onto a slot that
  may be taken since (one of the stale views of `ClashOnlyFromStaleView`).
- Update does not count upcoming bookings: moving a past booking into the future exceeds
  the limit. `UpcomingLimitUnlessRevived` says that this is the only way.
- An approved booking that is moved into a space that needs approval stays approved
  (`Reservations!Move`; `granted` records the space, `ApprovedOnlyIfGranted` asks only for some space).
- Overlaps of one minute fall between the samples of `GetConcurrent` (theorem
  `SampledLastsTwoMinutes`); stays in the run `serial` are on a grid of two.
- Weekdays in the order of the clicks (`search.tsx:2195`) make the step of
  `recurring-booking-repository.go:174` miss or repeat days; the models are about sorted ones.
- The purge (`booking-repository.go:152`) deletes a series that is just being created;
  `LinksHold` is proved without it. A booking of a series that is updated
  (`booking-router.go:1635`) loses its series, so that deleting the series leaves it.
- The precheck counts the occurrences before each one towards the limit, create does
  not: it may book more than the precheck said (`PrecheckPromisesHold` is one direction).
- `getCadenceDetails` returns values while `copyToRestModel` asserts pointers, so a GET of
  a series shows a cycle of 0; a weekly series whose weekdays are none of 0 to 6 makes
  `CreateBookings` look for its first day for ever; an admin who gives a booking to another
  user leaves the event in the calendar of the old one.

**Reports, accounts, sessions.**

- A request that read a setting before another one wrote it fills the cache with the old value, for five
  minutes; so do two writers whose calls of the cache come in the other order, and `DeleteAll`
  leaves what is cached (`crossed`).
- When one recipient's mail fails, the others get the report again every minute until
  all succeed. `RunIfDue` that hangs in `Send` holds up the whole timer.
- A stale copy (of a refresh, a login, the ban itself) may bring back an old password or lift a
  ban: this is what `overwritten` and `pardoned` excuse. It may as well bring back a TOTP secret that was taken away, or
  lose one that was set up, since the secret is a column of the same row; no module says so, as the secret is in
  SecondFactor and the other writers are in Accounts. `update` by an administrator writes
  a row made from the request: it lifts a ban, and empties the TOTP secret, the Atlassian id, the last activity
  and the demand for a new password. A passkey that fails counts before `Disabled` is
  looked at, so that a banned user's failures extend the ban; a wrong old password of
  `updatePassword` is not counted. After a ban that ended within the window one more failure bans again.
- A clock more than 15 minutes fast makes parallel requests log the browser out; a
  reload during a refresh loses the token; two tabs that refresh at once are both logged
  out; `verifyToken` deletes the credentials on any failure. `StaysLoggedIn` names these cases.
- Two deletions of the last two passkeys, counted together, leave none where one is enforced.

**Day status.** Slots shorter than the organization's least duration are offered by the
client and refused by the server (`ShortSlots`). A flexible type with a minimum of 0, the
default of a new type, shows a fully booked desk as free because of the second before the next
booking or the end (`AnyLength`), against section 2 of
`docs/huong-dan-dat-cho-va-trang-thai-ngay.md`.

**Search page.** The plan and attribute values of the old area stay while those of a new one
load; a superseded chain may take away the spinner of its successor; the booking limit sticks until
the page is loaded again; a series can be confirmed with the count of an earlier precheck; a failure of
`RecurringBooking.get` or of the precheck leaves its spinner, and so does one of
`loadBuddies`; the message of success is about the space selected by then. In the
filter, a value can be set without a comparator, and the filter of spaces, edited in place,
takes effect at the next load.

**Editors.** Area: changes made while the bulk request, the plan or the reload is out are lost;
refusals of single seats are not shown; a plan that cannot be stored leaves the button disabled. A copied seat shares
the `Map` and the list of its attributes with the original (`[id].tsx:588`): to set an attribute of one changes
the other too, on the page, but only the selected one is marked and sent (`astray`; `NothingForgotten` excuses the details
of such a seat until it is saved for another reason or loaded again).
Booking: invalid dates only give a hint; saving while the timer runs stores the old dates; the
list of the old area can be chosen from while the new one loads. The first list of a stored booking is asked for with the
dates as the browser reads them, while the form shows the same hours in UTC (`bookings/[id].tsx:161`), so that outside UTC it
is that of another time until area or dates are changed (`shifted`, excused by `ListIsOfTheForm`). User: an organization
admin who picks the role of a service account cannot change it back; two submissions send two
invitations; a switch of the method without its password sends no method while the page
says saved. The server writes the user, and on an update ends the sessions, before it invites (`user-router.go:702`): after an
error of the mail the user is pending and not invited, a new one cannot be saved again (409, the address is taken), and a
stored one whose address is put back is not invited with the next save, which the page calls saved. Settings: a failed second save leaves
"saved" shown; two `setPrimary` at a time
leave two primary domains. A statement for the primary domain that fails is not answered as an error and may leave none;
`Domain.list` after a change is not caught, and an error after the server has acted lists nothing, so that the page shows
the old domains (`unlisted`, excused by `DomainsInOrder`); a domain that is not active can be made primary. Login: Enter can send twice; a form for a wrong code has no way back; settings
that never load leave the page. Second factor: at page load two setups are generated and the
later answer replaces the code shown; a late one opens the enforced dialog again after success.

## What is proved

TLAPS proves all of this for every value of the constants, from the named assumptions of each
module, and lists no step without a proof. In each component the work is in an inductive
invariant, which is stronger than what the runs check: what follows says what had to be added, and why.
Some theorems have a hypothesis of their own:

| hypothesis | says | why it is needed |
|---|---|---|
| `OneRequest(p)` | `p` is the only request, nobody has a CalDAV calendar | two requests that count or look before either writes overrun every limit (run `race_double`) |
| `OwnUser(p)` | and nobody books for others | the limits count the bookings of the one who asks |
| `AllOnGrid` | stays begin and end at even minutes | `GetConcurrent` does not see an overlap of one minute (`SampledLastsTwoMinutes`) |
| `OnBehalf = {}` | nobody books for others | a booking that changes hands leaves its event with the old owner |
| `AllInOrder`, `Sorted` | the weekdays of a recurrence ascend | the step of the series misses days otherwise (see above), and `CreateBookings` need not end |
| `Alone` (series) | one request, no purge, no CalDAV | the purge can delete a series that is being created |

The hypotheses on clients are those of the runs that check the same property; `UndisturbedSpec` and
`CreateDeleteSpec` are the specifications of `calendar` and `series_delete`.

**OperatorProofs.** The operators themselves, with no state. `UserRangeIsOverlapEverywhere` and
`ConflictIsSharedMinuteEverywhere`: the WHERE clauses select what shares a minute.
`SamplingCountsNoMore`, `SamplingIsExactOnGrid`: what `GetConcurrent` counts is at most the number of bookings that
share a minute, and exactly that on the grid; `SampledLastsTwoMinutes` is the reason for both.
`NextIsLater`, `NextIsAWeekdayOfTheList`: the step of a series is forward, and
stays on the list, so that `slices.Index` never fails. `OccurrencesAreBooked`: the loop of
`CreateBookings` yields, in order, exactly the days that the recurrence means, for any cycle and any end. The loop is a
recursive function; that it exists at all (`NextIsLater` makes it well-founded) is part of the proof, and
where one would use induction, the proofs take the least counterexample (`LeastNatural`) or the set of the
numbers for which the claim holds (`UpTo`). `RecursionExists`: what is defined by its step from one number to the
next is a function, for loops over a sequence.

**AlgorithmsProofs.** The same for the behaviours of MCAlgorithms: `QueriesSelect`,
`ConcurrentSamples`, `OccurrencesBooked`, so that what TLC enumerates holds beyond the bounds of `algorithms`.
`OfferedIsAcceptedEverywhere`, for any desk, bookings and moment: a period that the dialog lets pass is accepted
by `create`, but for slots that are too short. Its three parts are that bookings cut off at the office hours are
enough to look at (`ListedAreEnough`), that the client's minimum is no less than either of the server's
(`MinimumIsEnough`), and that rounding the duration down loses nothing (`WholeParts`).

`MergingKeepsWhatIsBooked`, for any finite set of bookings: what the sort and the loop of
`normalizeSpaceDayStatusIntervals` return is in order and apart, and overlaps a period just when a booking does. The sort
exists (`SortExists`, by the number of bookings), the loop is a function (`MergingExists`), and `MergedFrom` is
its invariant: after n bookings the intervals begin and end with some of them, contain them all, and overlap no period
that they leave alone (`MergedStep`).

`FullIsFullEverywhere`: while `create` would accept a period, the status is not "full", neither
as the server gave it earlier nor as the client corrects it now. The period overlaps no booking of the answer
(`ListedAreNotTooMany`: bookings are sent a second short, and whole minutes are more than a second
apart), so it lies in a gap both of the merged intervals and of the bookings as they are
(`FreeIsInGap`), and that gap is as long as either minimum (`AcceptedLasts`). The second test of the server, the sum of
the intervals, each rounded up to minutes, stays below the office hours while any minute is free (`SumLeavesRoom`,
by an invariant of the loop that counts the minute as soon as the intervals have passed it).

`FreeIsBookableEverywhere` is the converse: from a gap that is long enough take the last period of the least
duration in it (`LastOfGap`); it begins on a whole minute since a gap ends on one, it overlaps nothing
(`GapIsFree`), and what the dialog lets pass is accepted. The
hypotheses are those of the property (no slot too short, some duration asked for) and that office hours,
slots and bookings lie on whole minutes, as the pages make them and the instance has them.
`DayStatusHolds` puts the three together in the behaviours of `algorithms`; the invariant it needs (`DayInv`) is that the
table holds finitely many bookings of whole minutes and that the status was not asked for in the future.

**BookingProofs.** `TypeCorrect`. `DeletedStays`: a row given out before a step exists after
it only if it did before. `ClashNeedsStaleView`: the argument runs over the
invariant `View`. A request that passed `CheckConflicts` clashes with no row outside its
`dirty` set, the copy an approver or a goroutine holds equals the row unless the row is
dirty; both are inductive because every write adds its row to `dirty` of all others
(lemmas `RequestViewKept`, `GoroutineViewKept`, `WriteView`). `ClashStep` then goes
through the actions that write. `OneAtATime`: with one request and no CalDAV user, no other
writer can dirty a view but the purge, which only removes rows, so `NoDoubleBooking`
holds. This needs `Undisturbed`, which says that what is dirty has no row.
`ApprovalsGranted`: `ApprovedOnlyIfGranted` is not inductive since stale copies are
written back; the invariant `Approvals` says the same of the copies held by requests and
goroutines.

Reservations: where the copies under way equal their rows (`CopiesHold`) every statement that writes is a
`Reserve`, a `Move`, a `Confirm` or a `StrikeOut`, and everything else a stutter (`ReservationStep`). That the place
is free follows from `NoDoubleBooking` after the step; that a move keeps the approval from `KnowsApproval`: the copy
that an update has of its row is approved if the row is. `ReservationsAreKept` is the case of one request at a time
and no calendar, with failing statements and restarts. `WaitingKeepsReservations` is that of the run `calendar`, for any
number of clients and goroutines: while clients wait nothing is dirty (`WaitInv`), which is a second argument for
`NoDoubleBooking`.

The limits: `AreaLimitHolds` (`OneRequest`, `AllOnGrid`), `UserLimitHolds` (`OwnUser`), both as
`LimitsAreKept`, and `UpcomingLimitKept` (`OwnUser`), an action property. A limit by itself
is not inductive: `AreaView`, `UserView` and `UpcomingView` say that the request at work, once it
has counted, has room for one more at every minute of its stay. They survive the steps in between because rows
only go (`Fewer`) and the clock only advances. `AreaIsCounted` and `UserIsCounted` bring in what the queries
return; the counting is by `FiniteSetTheorems`, over `used`, which is finite.

`CalendarIsKept`: under `UndisturbedSpec` and without bookings on behalf of others. `MirrorInv` says what
each actor knows: a goroutine that puts or stores has the row as it is, one that drops has an event whose row is gone
or about to go, and for every user and booking either somebody is `Busy` with it or calendar and table agree
(`Mirrored`).

**RecurringProofs.** `TypesHold`, `PromisesAreKept`, `NoSeriesIsOrphan`, `DeletedSeriesIsOver` for recurrences
`AllInOrder`, the last two for any number of requests, goroutines and purges of `CreateDeleteSpec`. `SeriesInv` has three
parts beside the types and the links: `Attended`, a series without bookings has a request at it that will
add one or take it along, or the purge will; `Cleared`, once the first statement of a
deletion has run, what is left is in the past; `Exclusive`, no series is deleted while it is being
created, since its id is not known yet. `PromisesAreKept` is an induction over the occurrences
(`ValidBookings` is a recursive function): what the precheck passes, create passes with a smaller count.
`LinksHold` (`Alone`, but with updates, failing statements and restarts): the invariant `LinkInv` adds
what a half-done request relies on: its `Shape`, and that between `Detach` and `DropSeries` no row refers to
the series (`Quiet`).

**TimerProofs.** The report: `ReportTypeCorrect`, `DoneIsMailed`, `RepeatsAreRetries`, for any number of
recipients, days and failures. `OrderInv`: the cache holds what the table holds, and the
days stored never run ahead. `RunInv`: relates, for the day a run is about, the mails
counted to the failures so far, with the failures of the current run counted ahead of
the mail they will cause to be repeated.

The account: `AccountsTypeCorrect`, `AccountKept`, for any number of requests,
passwords and any limits. `AccountIsKept` says nothing of the copies; `AccountInv` adds
`CopiesAreGood`: a copy that was not written over has the password of the row and knows
whether the user is disabled, unless it is about to change that, and a copy of the ban is
disabled. Every write makes all other copies stale (`UpdateKeeps`), so this is inductive;
`TickForgets` shows with `FS_Subset` that failures only become fewer as time passes.
`TimerTypeCorrect`, `TimerKeepsBoth`: the two side by side, as `timer` runs them.

**SearchPageProofs.** `SearchTypeCorrect` and the refinement `SearchShowsTheSelection`: every step of the page
is a `Select`, a `Show` or a stutter of LatestWins. The guards of `loadSpaces` compare area and
day; that the rest of the period is the present one, too, is `LastAsksForPresent`: the chain with
the last number asked for what is chosen now, unless the page has not asked since.
`SearchSettles` says what is shown in the end. `SettledIsCurrent` is about moments when no chain is out; its
invariant `SpacesCome` is about all others: some chain will still ask for the spaces of what is chosen, or
the last one that asked has seen the last write and brings them, or they are shown.

**LoginProofs.** The tabs: `SessionsTypeCorrect`, `SessionsStayLoggedIn`, `SessionsLimited`, for any number of
tabs, requests and limit. As long as nothing excuses it (`Excused`), those that wait for
the mutex know the pair of the browser (`WaitersKnow`), no two refresh with the same token
(`HoldersDiffer`), and what is being refreshed or on its way is known to the server
(`RefreshersAccepted`, `PendingAccepted`, `BrowserAccepted`). `RoomIsLeft` is the
strengthening of the limit.

The login: `SecondStepIsOfTheFirst`. `ChallengesAreMade`; `OneAttempt`: until something is sent beside
an attempt, the form is that of the attempt and its challenge is unused.

The second factor: `FactorsAreKept`. `FactorWaits`: whoever has typed a code has scanned the secret, one
change is under way at most, and until its answer has come INFOS is what it will be but for that change (`InfosWait`);
`ListWaits`: a passkey that is in the table and not in the list, or the other way round, has an
answer on its way that will add it or drop it.

**PagesProofs.** One section for each page, for any number of edits, requests, seats, domains, setups and
passkeys, and one for the pages together. In all of them the promise of the page is about moments when nothing is out; the invariant says what is true while
something is: what an answer that is on its way will do to the state it meets.

- The dialog of a booking: `DialogTypeCorrect`, `DialogWritesOnce`, `DialogConfirmsChecked`.
  `WritersConfirm`: while a request that writes is out the buttons are disabled, and only its own answer enables
  them; `AvailableWasAnswered`: what the dialog takes for free, once nothing is loading, the server
  has called free since it was opened.
- The filter: `FilterListsTheApplied`. `SearchIsOfTheApplied` follows a search from the areas to
  the spaces; `FormIsApplied` is why the spaces may be asked for with the form as it is by then.
- The preferences: `PreferencesAreKept`. `OneSubmission`: the forms share a flag, and it lets one be sent at a
  time; `CalendarsAreOfTheAccount` and `SavesAreTheLast` say of every request what it carries, `ListsAreFresh` of the
  list of sessions that it is true or a list that will be is out.
- The settings: `SettingsAreKept`. `OneSave` says how far a save has got (`SaveIsAt`), `OneChange` that
  between the two statements of `SetPrimaryDomain` there is no primary domain. That at most one is primary holds whatever
  statement fails; that the list is true, unless none has come since a change that failed or was lost.
- The editor of a booking: `BookingIsKept`. `PicksWait`: what was picked is in the form or in the
  timer; `OneRow`: the one row has the id that the form has or is about to get; `OneList`, for any set of time zones that
  a browser may be in, excuses the first list of a stored booking outside UTC.
- The editor of a user: `UserIsKept`. `RolesStay`: a role that the form does not let one change is that
  of the server and of every request, so that an answer cannot turn it; `OneUserRequest`;
  `ReasonsLeft` counts ahead the invitation that is on its way; one that fails after the row is written leaves its reason
  for the retry.
- The cache: `CacheExplained`. `CacheIsExplained` says nothing of requests that have read;
  `FreshIsStored` says that one that was not overtaken knows what the table has.
- The editor of an area: `EditorTypeCorrect`, `EditorIsKept`. `EditorKeepsTrack` speaks of moments when nothing is
  out and nothing was left out. `IdsKnown`: an id names one seat, wherever it is on its way between
  form, request and table, and a save that may still create has given no ids out. `SeatsTracked`: a seat
  that was not changed is in the table under its id or, if it has none yet, in a row that the page does not know, and the bulk
  request that is out is what the page shows. `AttributeWaits` and `AreaCounted` say the same of the attributes
  and of the counters of the area.

The pages together: `PagesTypeCorrect`, `PagesKeepTheirPromises`. `PagesInv` is the conjunction of the pages' invariants;
`EachPageSteps` says that a step of the specification that `pages` runs is a step of one page and
a stutter of the others, so that each invariant is kept by the lemma of its page. `PagePromises` and
`StaysLoggedIn` are all that the run checks of the pages but their liveness (`PagesRecover`), and hold for any constants the pages allow.

Proofs that failed corrected the models in five places. In DayStatus the server's search for a free slot looked at the
bookings and not at the merged intervals; and `FreeIsBookable`, which spoke of the minute that had begun,
speaks of the present since its proof showed that it can. In UserEditor an organization admin may
be the *role* of a user, too, which the set of roles left out. In SecondFactor every
deletion of a passkey that had been answered left the mark `together`, which excuses what follows; it is now
left only by requests that are out together. And a passkey that is registered gets an id that nothing on its
way has, as in a table that gives out ids. In LocationEditor the ids of new seats are now named by the save and
the place in it that made them: the code's are UUIDs made by the database, of which the model needs no more than that no two
are the same, and a bulk update takes its creates as a set of seats with their places.

**Only model-checked.** Every invariant and every action property that a run checks is stated by a theorem. Out of
reach of the prover and left to TLC: liveness under fairness (`TimerDoesItsWork`, `LoadingEnds`, `PagesRecover`).

## What is not modelled

Reads for display (search, statistics, presence report), mails about bookings, and formatting.
Roles appear as sets of users, settings and groups as constants that do not change during a run
of the booking models. Merging and deletion of users, users of a provider and invitations as
requests of their own; the deletion of spaces, locations and organizations next to
bookings; the hourly check of domains. Of the client: buddies,
the week view and the drawing of plans, the pages that list, and those of auth providers, groups and space types,
which are forms of one request. Schema upgrades run once at start, before anything is
served; configuration, static files and plugins keep no state that other actors
change. External protocols (OAuth, WebAuthn, TOTP, SMTP, CalDAV) are calls that succeed or
fail.

## Plan

Done: bookings, series, report and bans on the timer, accounts, sessions, the cache of settings, day status, the search page and its
refinement of LatestWins, the refinement of bookings to Reservations, the dialog, the filter, the editors, login and second factor, and
the proofs above. Left: **Cascades** - deletion of spaces, locations, users, organizations next to creates, and
`MergeUsers`.

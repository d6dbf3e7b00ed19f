------------------------------- MODULE Booking -------------------------------
(***************************************************************************)
(* The bookings table of Seatsurfing and the HTTP handlers that write it:  *)
(* create, update, delete and approveBooking of booking-router.go, the     *)
(* goroutines they start for the CalDAV calendar, and the purge of the     *)
(* minute timer.                                                           *)
(*                                                                         *)
(* There is no transaction, lock or constraint over several rows: a        *)
(* handler is a sequence of single SQL statements, each atomic, and the    *)
(* statements of other requests and goroutines come in between.  A step of *)
(* this model is one statement that matters (or several reads in a row).   *)
(***************************************************************************)
EXTENDS Intervals

CONSTANTS
    Users, Admins,      \* accounts of the organisation, its space admins
    CalDavUsers,        \* users whose preferences hold a complete CalDAV config
    Approvers,          \* members of the approver group of ApprovalSpaces
    OnBehalf,           \* pairs <<admin, user>>: the userEmail values admins send
    Spaces,             \* the spaces of one location
    ApprovalSpaces,     \* those that have approver groups (groups are enabled)
    Slots,              \* the stays clients ask for, all within the static rules
    Times,              \* the instants the clock may show
    Ids,                \* booking ids the database may generate
    Procs, Workers,     \* HTTP requests, goroutines that may run at a time
    MaxPerUser,         \* max_concurrent_bookings_per_user, 0: no limit
    MaxUpcoming,        \* max_bookings_per_user
    MaxPerArea,         \* locations.max_concurrent_bookings, 0: no limit
    HoursBeforeDelete,  \* max_hours_before_delete, in units of the clock
    DayLength,          \* units of the clock in a day
    Retention, Batch,   \* booking retention, in units of the clock, and LIMIT of a purge
    AdminsExempt,       \* no_admin_restrictions
    Null                \* no row, no id, nobody

ASSUME BookingConstants ==
    /\ Admins \subseteq Users /\ CalDavUsers \subseteq Users
    /\ Approvers \subseteq Admins /\ OnBehalf \subseteq Admins \X Users
    /\ ApprovalSpaces \subseteq Spaces
    /\ Slots \subseteq Interval /\ Times \subseteq Nat /\ 0 \in Times
    /\ Procs \cap Workers = {}
    /\ {MaxPerUser, MaxUpcoming, MaxPerArea, HoursBeforeDelete, Retention} \subseteq Nat
    /\ {DayLength, Batch} \subseteq Nat \ {0}
    /\ AdminsExempt \in BOOLEAN
    /\ Null \notin Users \cup Ids \cup Slots

VARIABLES
    bookings,   \* the table: a row for each id, Null if there is none
    used,       \* ids the database has given out
    now,        \* wall clock, the same at server and location
    req,        \* the requests in flight: step reached and local variables
    task,       \* the goroutines started by `go`, with their copy of a row
    calendar,   \* external: events on the users' CalDAV servers, keyed by id
    granted,    \* history: <<id, space>> created without need of approval, or approved
    dirty       \* history: ids written since an actor read what it will use

vars == <<bookings, used, now, req, task, calendar, granted, dirty>>

Row == [user : Users, space : Spaces, slot : Slots,
        caldav : BOOLEAN, approved : BOOLEAN]
ASSUME NullIsNoRow == Null \notin Row
Idle == [pc |-> "idle", by |-> Null, id |-> Null, row |-> Null]
NoTask == [pc |-> "idle", id |-> Null, row |-> Null]

Init ==
    /\ bookings = [b \in Ids |-> Null]
    /\ used = {}
    /\ now = 0
    /\ req = [p \in Procs |-> Idle]
    /\ task = [w \in Workers |-> NoTask]
    /\ calendar = [u \in CalDavUsers |-> [b \in Ids |-> Null]]
    /\ granted = {}
    /\ dirty = [a \in Procs \cup Workers |-> {}]
-----------------------------------------------------------------------------
(* What the handlers read.                                                 *)

Exists(b) == bookings[b] # Null
Rows == {b \in Ids : Exists(b)}

\* Mutant of GetConflicts: only the bookings that started earlier.
GetEarlierConflicts(space, slot, exclude) ==
    {b \in Rows \ {exclude} : /\ bookings[b].space = space
                              /\ bookings[b].slot.enter < slot.enter
                              /\ slot.enter < bookings[b].slot.leave}

\* GetConflicts(space, enter, leave, excludeBookingID).
GetConflicts(space, slot, exclude) ==
    {b \in Rows \ {exclude} : bookings[b].space = space /\ Overlaps(slot, bookings[b].slot)}

\* GetAllByUser(user, startTime): the bookings that have not ended by then.
GetAllByUser(u, start) ==
    {b \in Rows : bookings[b].user = u /\ bookings[b].slot.leave >= start}

\* GetTimeRangeByUser(user, enter, leave, excludeBookingID).
GetTimeRangeByUser(u, slot, exclude) ==
    {b \in Rows \ {exclude} : bookings[b].user = u /\ InUserRange(slot, bookings[b].slot)}

\* GetConcurrent(location, enter, leave, excludeBookingID).
GetConcurrent(slot, exclude) ==
    Concurrent(slot, [b \in Rows \ {exclude} |-> bookings[b].slot])

Exempt(u) == AdminsExempt /\ u \in Admins

\* IsValidBookingAdvance (not on a daily basis): nothing in the past.
IsValidBookingAdvance(slot) == slot.leave > now /\ slot.enter >= now

\* Mutant of IsValidMaxConcurrentForUser: one more than the limit.
IsValidMaxConcurrentOneMore(u, slot, exclude) ==
    \/ Exempt(u)
    \/ MaxPerUser = 0
    \/ Cardinality(GetTimeRangeByUser(u, slot, exclude)) <= MaxPerUser

\* The counts are those of the requesting user, whoever the booking is for.
IsValidMaxConcurrentForUser(u, slot, exclude) ==
    \/ Exempt(u)
    \/ MaxPerUser = 0
    \/ Cardinality(GetTimeRangeByUser(u, slot, exclude)) < MaxPerUser

\* Mutant of IsValidMaxUpcoming: one more than the limit.
IsValidMaxUpcomingOneMore(u) ==
    Exempt(u) \/ Cardinality(GetAllByUser(u, now)) <= MaxUpcoming

IsValidMaxUpcoming(u) ==
    Exempt(u) \/ Cardinality(GetAllByUser(u, now)) < MaxUpcoming

IsValidConcurrent(slot, exclude) ==
    MaxPerArea = 0 \/ GetConcurrent(slot, exclude) < MaxPerArea

IsValidApproverForSpace(u, space) == space \notin ApprovalSpaces \/ u \in Approvers

StartOfToday == (now \div DayLength) * DayLength

\* delete: not before today, not once started (an admin may), not too late.
IsDeletable(u, slot) ==
    LET started == slot.enter <= now
    IN  /\ slot.leave >= StartOfToday
        /\ IF started THEN u \in Admins
           ELSE Exempt(u) \/ HoursBeforeDelete = 0 \/ slot.enter - now >= HoursBeforeDelete

\* Old enough for the purge, which counts whole days.
IsOld(slot) == slot.leave < StartOfToday - Retention
-----------------------------------------------------------------------------
(* Actors, and the history of what changed behind their back.              *)

Actors == Procs \cup Workers

\* The actor has read what its coming write depends on.
Holding(a) ==
    \/ a \in Procs /\ req[a].pc \in {"write", "approve"}
    \/ a \in Workers /\ task[a].pc \in {"put", "store"}

\* The step writes the rows S.  To be conjoined last.
Writes(S) ==
    dirty' = [a \in Actors |-> IF Holding(a) /\ Holding(a)' THEN dirty[a] \cup S ELSE {}]

At(p, pc) == req[p].pc = pc
Goto(p, pc) == req' = [req EXCEPT ![p].pc = pc]
Return(p) == req' = [req EXCEPT ![p] = Idle]
Receive(p, pc, by, id, row) ==
    req' = [req EXCEPT ![p] = [pc |-> pc, by |-> by, id |-> id, row |-> row]]

\* Mutant of Go: f does not ask for the user's config.
GoUnconfigured(pc, b, row) ==
    \E w \in Workers :
        /\ task[w].pc = "idle"
        /\ task' = [task EXCEPT ![w] = [pc |-> pc, id |-> b, row |-> row]]

\* `go f(row)`.  f returns at once for a user who has no CalDAV config.
Go(pc, b, row) ==
    IF row.user \in CalDavUsers
    THEN \E w \in Workers :
            /\ task[w].pc = "idle"
            /\ task' = [task EXCEPT ![w] = [pc |-> pc, id |-> b, row |-> row]]
    ELSE UNCHANGED task

\* Mutant of GoDrop: bookings that wait for approval are taken to have no event.
GoDropApproved(b, row) == IF row.approved THEN Go("drop", b, row) ELSE UNCHANGED task

\* onBookingDeleted deletes the event only if its copy of the row knows of one.
GoDrop(b, row) == IF row.caldav THEN Go("drop", b, row) ELSE UNCHANGED task
-----------------------------------------------------------------------------
(* create and update: the checks of checkBookingCreateUpdate, one after    *)
(* the other, then GetConflicts, then the write.                           *)

\* create, up to IsValidBookingAdvance.  id = Null until the INSERT.
ReceiveCreate(p, u, f, s, t) ==
    /\ At(p, "idle")
    /\ f = u \/ <<u, f>> \in OnBehalf
    /\ IsValidBookingAdvance(t)
    /\ Receive(p, "limits", u, Null,
               [user |-> f, space |-> s, slot |-> t, caldav |-> FALSE, approved |-> FALSE])
    /\ UNCHANGED <<bookings, used, now, task, calendar, granted>>
    /\ Writes({})

\* update: reads the row, keeps its id, caldav_id, approved and (unless an
\* admin sends a userEmail) its user, and replaces the rest.
ReceiveUpdate(p, u, f, b, s, t) ==
    /\ At(p, "idle")
    /\ Exists(b)
    /\ bookings[b].user = u \/ u \in Admins
    /\ f = bookings[b].user \/ <<u, f>> \in OnBehalf
    /\ IsValidBookingAdvance(t)
    /\ Receive(p, "limits", u, b, [bookings[b] EXCEPT !.user = f, !.space = s, !.slot = t])
    /\ UNCHANGED <<bookings, used, now, task, calendar, granted>>
    /\ Writes({})

\* checkBookingCreateUpdate: the limits of user and location; those on upcoming
\* bookings are for create only.
CheckLimits(p) ==
    /\ At(p, "limits")
    /\ LET slot == req[p].row.slot
           id == req[p].id
       IN  IF /\ IsValidMaxConcurrentForUser(req[p].by, slot, id)
              /\ id = Null => IsValidMaxUpcoming(req[p].by)
              /\ IsValidConcurrent(slot, id)
           THEN Goto(p, "conflicts")
           ELSE Return(p)
    /\ UNCHANGED <<bookings, used, now, task, calendar, granted>>
    /\ Writes({})

\* GetConflicts must find nothing, or the answer is 409.
CheckConflicts(p) ==
    /\ At(p, "conflicts")
    /\ IF GetConflicts(req[p].row.space, req[p].row.slot, req[p].id) = {}
       THEN Goto(p, "write")
       ELSE Return(p)
    /\ UNCHANGED <<bookings, used, now, task, calendar, granted>>
    /\ Writes({})

\* create: INSERT, then go onBookingCreated.
Insert(p) ==
    /\ At(p, "write") /\ req[p].id = Null
    /\ \E b \in Ids \ used :
         LET row == [req[p].row EXCEPT !.approved = req[p].row.space \notin ApprovalSpaces]
         IN  /\ bookings' = [bookings EXCEPT ![b] = row]
             /\ used' = used \cup {b}
             /\ granted' = IF row.approved THEN granted \cup {<<b, row.space>>} ELSE granted
             /\ IF row.approved THEN Go("put", b, row) ELSE UNCHANGED task
             /\ Return(p)
             /\ UNCHANGED <<now, calendar>>
             /\ Writes({b})

\* Mutants of UpdateRow: an upsert; a statement that sets approved.
UpsertRow(b, row) == bookings' = [bookings EXCEPT ![b] = row]
UpdateRowApproved(b, row) ==
    bookings' = IF Exists(b) THEN [bookings EXCEPT ![b] = [row EXCEPT !.approved = TRUE]]
                ELSE bookings

\* BookingRepository.Update: the whole row, if it is still there.
UpdateRow(b, row) ==
    bookings' = IF Exists(b) THEN [bookings EXCEPT ![b] = row] ELSE bookings

\* update: UPDATE, then go onBookingUpdated.
WriteUpdate(p) ==
    /\ At(p, "write") /\ req[p].id # Null
    /\ UpdateRow(req[p].id, req[p].row)
    /\ Go("put", req[p].id, req[p].row)
    /\ Return(p)
    /\ UNCHANGED <<used, now, calendar, granted>>
    /\ Writes({req[p].id})
-----------------------------------------------------------------------------
(* approveBooking and delete.                                              *)

\* approveBooking up to the write: an approved booking is left alone.
ReceiveApproval(p, u, b, pc) ==
    /\ At(p, "idle")
    /\ Exists(b) /\ ~bookings[b].approved
    /\ u \in Admins /\ IsValidApproverForSpace(u, bookings[b].space)
    /\ pc \in {"approve", "decline"}
    /\ Receive(p, pc, u, b, bookings[b])
    /\ UNCHANGED <<bookings, used, now, task, calendar, granted>>
    /\ Writes({})

\* Approved: UPDATE of the row as it was read, then go createCalDavEvent.
Approve(p) ==
    /\ At(p, "approve")
    /\ LET row == [req[p].row EXCEPT !.approved = TRUE]
       IN  UpdateRow(req[p].id, row) /\ Go("put", req[p].id, row)
    /\ granted' = granted \cup {<<req[p].id, req[p].row.space>>}
    /\ Return(p)
    /\ UNCHANGED <<used, now, calendar>>
    /\ Writes({req[p].id})

\* Declined: DELETE, then go onBookingDeleted.
Decline(p) ==
    /\ At(p, "decline")
    /\ bookings' = [bookings EXCEPT ![req[p].id] = Null]
    /\ GoDrop(req[p].id, req[p].row)
    /\ Return(p)
    /\ UNCHANGED <<used, now, calendar, granted>>
    /\ Writes({req[p].id})

\* delete up to the write; its goroutine starts before the row is gone.
ReceiveDelete(p, u, b) ==
    /\ At(p, "idle")
    /\ Exists(b)
    /\ bookings[b].user = u \/ u \in Admins
    /\ IsDeletable(u, bookings[b].slot)
    /\ Receive(p, "delete", u, b, bookings[b])
    /\ GoDrop(b, bookings[b])
    /\ UNCHANGED <<bookings, used, now, calendar, granted>>
    /\ Writes({})

Delete(p) ==
    /\ At(p, "delete")
    /\ bookings' = [bookings EXCEPT ![req[p].id] = Null]
    /\ Return(p)
    /\ UNCHANGED <<used, now, task, calendar, granted>>
    /\ Writes({req[p].id})
\* The statement of the write fails: 500.  What `go` started before goes on.
WriteFails(p) ==
    /\ req[p].pc \in {"write", "approve", "decline", "delete"}
    /\ Return(p)
    /\ UNCHANGED <<bookings, used, now, task, calendar, granted>>
    /\ Writes({})
-----------------------------------------------------------------------------
(* createCalDavEvent, updateCalDavEvent and onBookingDeleted, run by       *)
(* goroutines.  The event's id is the booking's.                           *)

PutEvent(w) ==
    /\ task[w].pc = "put"
    /\ calendar' = [calendar EXCEPT ![task[w].row.user][task[w].id] = task[w].row.slot]
    /\ task' = [task EXCEPT ![w].pc = "store"]
    /\ UNCHANGED <<bookings, used, now, req, granted>>
    /\ Writes({})

\* The server did not answer, or answered with an error, to a PUT or a DELETE.
CalDavFails(w) ==
    /\ task[w].pc \in {"put", "drop"}
    /\ task' = [task EXCEPT ![w] = NoTask]
    /\ UNCHANGED <<bookings, used, now, req, calendar, granted>>
    /\ Writes({})

\* e.CalDavID = ...; Update(e): the whole row, as it was when `go` was called.
StoreEventId(w) ==
    /\ task[w].pc = "store"
    /\ UpdateRow(task[w].id, [task[w].row EXCEPT !.caldav = TRUE])
    /\ task' = [task EXCEPT ![w] = NoTask]
    /\ UNCHANGED <<used, now, req, calendar, granted>>
    /\ Writes({task[w].id})

DropEvent(w) ==
    /\ task[w].pc = "drop"
    /\ calendar' = [calendar EXCEPT ![task[w].row.user][task[w].id] = Null]
    /\ task' = [task EXCEPT ![w] = NoTask]
    /\ UNCHANGED <<bookings, used, now, req, granted>>
    /\ Writes({})
-----------------------------------------------------------------------------
(* The timer, the clock, and the end of the process.                       *)

\* PurgeOldBookings: the oldest first, at most Batch of them.
PurgeOldBookings ==
    LET old == {b \in Rows : IsOld(bookings[b].slot)}
    IN  \E S \in SUBSET old \ {{}} :
          /\ Cardinality(S) = Batch \/ (S = old /\ Cardinality(S) < Batch)
          /\ \A b \in S, c \in old \ S : bookings[b].slot.leave <= bookings[c].slot.leave
          /\ bookings' = [b \in Ids |-> IF b \in S THEN Null ELSE bookings[b]]
          /\ UNCHANGED <<used, now, req, task, calendar, granted>>
          /\ Writes(S)

Tick ==
    /\ \E t \in Times : t > now /\ now' = t
    /\ UNCHANGED <<bookings, used, req, task, calendar, granted>>
    /\ Writes({})

\* The server stops and starts again: requests and goroutines are gone.
Restart ==
    /\ \E a \in Actors : (a \in Procs /\ req[a] # Idle) \/ (a \in Workers /\ task[a] # NoTask)
    /\ req' = [p \in Procs |-> Idle]
    /\ task' = [w \in Workers |-> NoTask]
    /\ UNCHANGED <<bookings, used, now, calendar, granted>>
    /\ Writes({})

ReceiveAny(p) ==
    \E u \in Users :
      \/ \E f \in Users, s \in Spaces, t \in Slots : ReceiveCreate(p, u, f, s, t)
      \/ \E f \in Users, b \in Ids, s \in Spaces, t \in Slots : ReceiveUpdate(p, u, f, b, s, t)
      \/ \E b \in Ids, pc \in {"approve", "decline"} : ReceiveApproval(p, u, b, pc)
      \/ \E b \in Ids : ReceiveDelete(p, u, b)

Handle(p) ==
    \/ CheckLimits(p) \/ CheckConflicts(p)
    \/ Insert(p) \/ WriteUpdate(p) \/ Approve(p) \/ Decline(p) \/ Delete(p)

Goroutine(w) == PutEvent(w) \/ CalDavFails(w) \/ StoreEventId(w) \/ DropEvent(w)

Next ==
    \/ \E p \in Procs : ReceiveAny(p) \/ Handle(p) \/ WriteFails(p)
    \/ \E w \in Workers : Goroutine(w)
    \/ PurgeOldBookings \/ Tick \/ Restart

Spec == Init /\ [][Next]_vars
-----------------------------------------------------------------------------
(* Properties.                                                             *)

\* Two bookings of one space at one time.
Clash(b, c) ==
    /\ b # c /\ Exists(b) /\ Exists(c)
    /\ bookings[b].space = bookings[c].space
    /\ Overlaps(bookings[b].slot, bookings[c].slot)

Request == [pc : {"limits", "conflicts", "write"}, by : Users, id : used \cup {Null}, row : Row]
             \cup [pc : {"approve", "decline", "delete"}, by : Users, id : used, row : Row]
Task == [pc : {"put", "store", "drop"}, id : used, row : {r \in Row : r.user \in CalDavUsers}]

\* Every variable keeps its type: a request in flight has a user and a row, a
\* goroutine a row of a user with a calendar, and only ids given out are in use.
TypeOK ==
    /\ bookings \in [Ids -> Row \cup {Null}]
    /\ used \subseteq Ids /\ Rows \subseteq used
    /\ now \in Times
    /\ req \in [Procs -> Request \cup {Idle}]
    /\ task \in [Workers -> Task \cup {NoTask}]
    /\ calendar \in [CalDavUsers -> [Ids -> Slots \cup {Null}]]
    /\ granted \subseteq used \X Spaces
    /\ dirty \in [Actors -> SUBSET used]

\* No space is booked twice for one time: what create and update answer 409 for.
\* Requests that come one at a time, with no CalDAV goroutine, keep it.
NoDoubleBooking == \A b, c \in Ids : ~Clash(b, c)

\* What a row is to those who reserve: its caldav_id left out.
Entry(row) == [user |-> row.user, space |-> row.space, slot |-> row.slot,
               approved |-> row.approved]
Book == INSTANCE Reservations WITH
            book <- [b \in Rows |-> Entry(bookings[b])], given <- used

\* Requests that come one at a time, with no CalDAV goroutine, keep a book of reservations:
\* the checks of create and update hold when they write, a move keeps the approval the
\* row has by then, and what is deleted, declined or purged is gone for good, however the
\* clock, the purge, failing statements and restarts come in between.
KeepsReservations == Book!Spec

\* A step makes two bookings clash only if it is the write of a request or of a
\* goroutine whose view of one of the two was out of date: the checks leave no
\* other way to a double booking, over every order of create, update, approve,
\* delete, purge and CalDAV writes.
ClashOnlyFromStaleView ==
    [][\A b, c \in Ids : Clash(b, c)' /\ ~Clash(b, c) =>
          \E a \in Actors : Holding(a) /\ ~Holding(a)' /\ dirty[a] \cap {b, c} # {}]_vars

\* The UPDATE of a request or goroutine that still holds a copy of a deleted row
\* does not bring the booking back.
DeletedStaysDeleted == [][\A b \in used : ~Exists(b) => bookings'[b] = Null]_vars

\* However the full-row writes of copies interleave, a booking is approved only
\* if it was created without need of approval or an approver approved it.
ApprovedOnlyIfGranted ==
    \A b \in Rows : bookings[b].approved => \E s \in Spaces : <<b, s>> \in granted

\* At no time does the location hold more bookings than
\* max_concurrent_bookings, whoever made or moved them.
AreaLimit ==
    MaxPerArea > 0 =>
      \A k \in UNION {Minutes(t) : t \in Slots} :
        Cardinality({b \in Rows : k \in Minutes(bookings[b].slot)}) <= MaxPerArea

\* At no time has a user more bookings than max_concurrent_bookings_per_user.
UserLimit ==
    MaxPerUser > 0 =>
      \A u \in Users, k \in UNION {Minutes(t) : t \in Slots} :
        Cardinality({b \in Rows : bookings[b].user = u /\ k \in Minutes(bookings[b].slot)})
          <= MaxPerUser

\* The limits on bookings at a time hold at every minute, however bookings are made, moved
\* and deleted: the two above.
LimitsHold == AreaLimit /\ UserLimit

\* A user comes to have more than max_bookings_per_user bookings that are not over
\* only by moving one that was over: update does not count them, create does.
UpcomingLimitUnlessRevived ==
    [][\A u \in Users :
         LET upcoming == Cardinality(GetAllByUser(u, now))
         IN  upcoming' > upcoming /\ upcoming' > MaxUpcoming =>
               \E b \in Rows : bookings[b].slot.leave < now /\ bookings[b].slot # bookings'[b].slot]_vars

\* No request and no goroutine is under way.
Settled == (\A p \in Procs : At(p, "idle")) /\ \A w \in Workers : task[w].pc = "idle"

\* Between requests, a calendar holds an event exactly where the table has a
\* booking of its owner, at the booking's time; a booking that waits for approval
\* may lack one, and a purged booking leaves its event behind.
CalendarMirrorsTable ==
    Settled => \A u \in CalDavUsers, b \in Ids :
        LET booked == Exists(b) /\ bookings[b].user = u
        IN  /\ calendar[u][b] # Null /\ ~IsOld(calendar[u][b]) =>
                 booked /\ bookings[b].slot = calendar[u][b]
            /\ booked /\ bookings[b].approved => calendar[u][b] = bookings[b].slot
=============================================================================

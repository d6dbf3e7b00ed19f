------------------------------ MODULE Recurring ------------------------------
(***************************************************************************)
(* Series of bookings: recurring-booking-router.go and the statements of   *)
(* the two repositories that keep bookings.recurring_id and the table      *)
(* recurring_bookings together.  There is no foreign key and no            *)
(* transaction: creating a series is one INSERT and then one for each      *)
(* booking, deleting it is three statements, and deleting a booking or     *)
(* purging old ones is two.                                                *)
(*                                                                         *)
(* One user books one space for whole days (daily_basis_booking, approval  *)
(* not required).  `now` is the day that has begun last.                   *)
(***************************************************************************)
EXTENDS Cadence

CONSTANTS
    Recurrences,        \* what clients ask for, elements of Recurrence
    Days,               \* the days a single booking may be moved to
    Ids, SeriesIds,     \* ids the database may generate
    Procs,              \* HTTP requests at a time
    Times,              \* days the clock may show
    MaxUpcoming,        \* max_bookings_per_user
    Retention,          \* booking_retention_days, in days of the model
    RetentionEnabled,   \* booking_retention_enabled
    CalDav,             \* the user has a complete CalDAV config
    Null

ASSUME RecurringConstants ==
    /\ Recurrences \subseteq Recurrence
    /\ Days \subseteq Nat /\ Times \subseteq Nat /\ 0 \in Times
    /\ MaxUpcoming \in Nat /\ Retention \in Nat
    /\ RetentionEnabled \in BOOLEAN /\ CalDav \in BOOLEAN
    /\ Null \notin Ids \cup SeriesIds

VARIABLES
    bookings,   \* the table bookings: recurring_id and day of each row
    series,     \* the ids in the table recurring_bookings
    used,       \* ids given out, of bookings and of series
    now,        \* the day that has begun last
    req,        \* the requests in flight
    store,      \* external CalDAV answered: rows that goroutines will write back
    timer,      \* the goroutine of the minute timer, in PurgeOldBookings
    origin,     \* history: the series a booking was created with
    deleted     \* history: the series users have deleted

vars == <<bookings, series, used, now, req, store, timer, origin, deleted>>

Row == [series : SeriesIds \cup {Null}, day : Nat]

ASSUME NullIsNoRow == Null \notin Row

Idle == [pc |-> "idle", id |-> Null, left |-> <<>>, made |-> {}]

Init ==
    /\ bookings = [b \in Ids |-> Null]
    /\ series = {} /\ used = {}
    /\ now = 0
    /\ req = [p \in Procs |-> Idle]
    /\ store = {}
    /\ timer = "idle"
    /\ origin = [b \in Ids |-> Null]
    /\ deleted = {}
-----------------------------------------------------------------------------
Exists(b) == bookings[b] # Null
Rows == {b \in Ids : Exists(b)}

\* GetAllByRecurringID.
GetAllByRecurringID(s) == {b \in Rows : bookings[b].series = s}

GetConflicts(day, exclude) == {b \in Rows \ {exclude} : bookings[b].day = day}

\* checkBookingCreateUpdate: not in the past, and the limit of upcoming
\* bookings, of which `markup` are yet to be made.
IsValid(day, markup) ==
    /\ day >= now
    /\ Cardinality({b \in Rows : bookings[b].day >= now}) + markup < MaxUpcoming

\* The occurrences that create will book: each is checked as if it were the
\* only one.
ValidBookings(e) ==
    LET days == CreateBookings(e)
        valid[n \in 0 .. Len(days)] ==
          IF n = 0 THEN <<>>
          ELSE IF IsValid(days[n], 0) /\ GetConflicts(days[n], Null) = {}
               THEN Append(valid[n - 1], days[n])
               ELSE valid[n - 1]
    IN  valid[Len(days)]

\* Mutant of Prechecked: the slots are taken to be free.
PrecheckedUnconflicted(e) ==
    LET days == CreateBookings(e)
    IN  {days[n] : n \in {k \in DOMAIN days : IsValid(days[k], k - 1)}}

\* Those that preBookingCreateCheck announces: the n-th one counts n more.
Prechecked(e) ==
    LET days == CreateBookings(e)
    IN  {days[n] : n \in {k \in DOMAIN days :
                            IsValid(days[k], k - 1) /\ GetConflicts(days[k], Null) = {}}}

At(p, pc) == req[p].pc = pc
Goto(p, pc, id, left, made) ==
    req' = [req EXCEPT ![p] = [pc |-> pc, id |-> id, left |-> left, made |-> made]]
Return(p) == req' = [req EXCEPT ![p] = Idle]
-----------------------------------------------------------------------------
(* create.                                                                 *)

\* The checks of all occurrences.  Without a valid one, nothing is written.
CheckSeries(p, e) ==
    /\ At(p, "idle")
    /\ ValidBookings(e) # <<>>
    /\ Goto(p, "series", Null, ValidBookings(e), {})
    /\ UNCHANGED <<bookings, series, used, now, store, timer, origin, deleted>>

InsertSeries(p) ==
    /\ At(p, "series")
    /\ \E s \in SeriesIds \ used :
          /\ series' = series \cup {s}
          /\ used' = used \cup {s}
          /\ Goto(p, "bookings", s, req[p].left, {})
    /\ UNCHANGED <<bookings, now, store, timer, origin, deleted>>

\* One INSERT for each occurrence; after the last one, go onBookingCreated,
\* which stores the ids of the events, row by row.
InsertBooking(p) ==
    /\ At(p, "bookings")
    /\ \E b \in Ids \ used :
         LET row == [series |-> req[p].id, day |-> Head(req[p].left)]
             made == req[p].made \cup {<<b, row>>}
         IN  /\ bookings' = [bookings EXCEPT ![b] = row]
             /\ used' = used \cup {b}
             /\ origin' = [origin EXCEPT ![b] = req[p].id]
             /\ IF Len(req[p].left) = 1
                THEN Return(p) /\ store' = IF CalDav THEN store \cup made ELSE store
                ELSE /\ Goto(p, "bookings", req[p].id, Tail(req[p].left), made)
                     /\ UNCHANGED store
    /\ UNCHANGED <<series, now, timer, deleted>>
-----------------------------------------------------------------------------
(* delete of a series.                                                     *)

ReceiveDeleteSeries(p, s) ==
    /\ At(p, "idle")
    /\ s \in series
    /\ Goto(p, "future", s, <<>>, {})
    /\ UNCHANGED <<bookings, series, used, now, store, timer, origin, deleted>>

\* Mutant of DeleteFuture: only the bookings after tomorrow.
DeleteFutureLater(p) ==
    /\ At(p, "future")
    /\ bookings' = [b \in Ids |-> IF b \in GetAllByRecurringID(req[p].id) /\ bookings[b].day > now + 1
                                  THEN Null ELSE bookings[b]]
    /\ Goto(p, "detach", req[p].id, <<>>, {})
    /\ UNCHANGED <<series, used, now, store, timer, origin, deleted>>

\* DELETE FROM bookings: those of the series that have not begun.
DeleteFuture(p) ==
    /\ At(p, "future")
    /\ bookings' = [b \in Ids |-> IF b \in GetAllByRecurringID(req[p].id) /\ bookings[b].day > now
                                  THEN Null ELSE bookings[b]]
    /\ Goto(p, "detach", req[p].id, <<>>, {})
    /\ UNCHANGED <<series, used, now, store, timer, origin, deleted>>

\* Mutant of Detach: the booking of today keeps its link.
DetachPast(p) ==
    /\ At(p, "detach")
    /\ bookings' = [b \in Ids |-> IF b \in GetAllByRecurringID(req[p].id) /\ bookings[b].day < now
                                  THEN [bookings[b] EXCEPT !.series = Null] ELSE bookings[b]]
    /\ Goto(p, "drop", req[p].id, <<>>, {})
    /\ UNCHANGED <<series, used, now, store, timer, origin, deleted>>

\* UPDATE bookings SET recurring_id = NULL.
Detach(p) ==
    /\ At(p, "detach")
    /\ bookings' = [b \in Ids |-> IF b \in GetAllByRecurringID(req[p].id)
                                  THEN [bookings[b] EXCEPT !.series = Null] ELSE bookings[b]]
    /\ Goto(p, "drop", req[p].id, <<>>, {})
    /\ UNCHANGED <<series, used, now, store, timer, origin, deleted>>

DropSeries(p) ==
    /\ At(p, "drop")
    /\ series' = series \ {req[p].id}
    /\ deleted' = deleted \cup {req[p].id}
    /\ Return(p)
    /\ UNCHANGED <<bookings, used, now, store, timer, origin>>
-----------------------------------------------------------------------------
(* The handlers of single bookings.                                        *)

\* PUT, in one step (its interleavings are those of Booking).  copyFromRestModel
\* knows no recurring_id, so the row loses it.
UpdateBooking(b, day) ==
    LET row == [series |-> Null, day |-> day]
    IN  /\ Exists(b)
        /\ day >= now /\ GetConflicts(day, b) = {}
        /\ bookings' = [bookings EXCEPT ![b] = row]
        /\ store' = IF CalDav THEN store \cup {<<b, row>>} ELSE store
        /\ UNCHANGED <<series, used, now, req, timer, origin, deleted>>

\* DELETE: the row is read ...
ReceiveDelete(p, b) ==
    /\ At(p, "idle")
    /\ Exists(b)
    /\ Goto(p, "delete", <<b, bookings[b].series>>, <<>>, {})
    /\ UNCHANGED <<bookings, series, used, now, store, timer, origin, deleted>>

\* Mutant of DeleteRow: the second statement is given the id of the booking.
DeleteRowOfSeries(p) ==
    /\ At(p, "delete")
    /\ bookings' = [bookings EXCEPT ![req[p].id[1]] = Null]
    /\ IF req[p].id[2] = Null THEN Return(p)
       ELSE Goto(p, "empty", req[p].id[1], <<>>, {})
    /\ UNCHANGED <<series, used, now, store, timer, origin, deleted>>

\* ... and deleted ...
DeleteRow(p) ==
    /\ At(p, "delete")
    /\ bookings' = [bookings EXCEPT ![req[p].id[1]] = Null]
    /\ IF req[p].id[2] = Null THEN Return(p)
       ELSE Goto(p, "empty", req[p].id[2], <<>>, {})
    /\ UNCHANGED <<series, used, now, store, timer, origin, deleted>>

\* Mutant of DeleteEmptySeries: the count is taken to include the deleted row.
DeleteSeriesOfOne(p) ==
    /\ At(p, "empty")
    /\ series' = IF Cardinality(GetAllByRecurringID(req[p].id)) = 1
                 THEN series \ {req[p].id} ELSE series
    /\ Return(p)
    /\ UNCHANGED <<bookings, used, now, store, timer, origin, deleted>>

\* ... and with the last booking of a series, the series.
DeleteEmptySeries(p) ==
    /\ At(p, "empty")
    /\ series' = IF GetAllByRecurringID(req[p].id) = {} THEN series \ {req[p].id} ELSE series
    /\ Return(p)
    /\ UNCHANGED <<bookings, used, now, store, timer, origin, deleted>>

\* Any statement of a request may fail: 500, and what is done stays done.
Fail(p) ==
    /\ ~At(p, "idle")
    /\ Return(p)
    /\ UNCHANGED <<bookings, series, used, now, store, timer, origin, deleted>>
-----------------------------------------------------------------------------
(* Goroutines and the timer.                                               *)

\* createCalDavEvent: the CalDAV server answered, Update(e) with the row as it
\* was inserted.
StoreEventId ==
    \E t \in store :
      /\ store' = store \ {t}
      /\ bookings' = IF Exists(t[1]) THEN [bookings EXCEPT ![t[1]] = t[2]] ELSE bookings
      /\ UNCHANGED <<series, used, now, req, timer, origin, deleted>>

\* It did not answer.
CalDavFails ==
    /\ \E t \in store : store' = store \ {t}
    /\ UNCHANGED <<bookings, series, used, now, req, timer, origin, deleted>>

\* PurgeOldBookings, first statement; without an old row it is the only one.
PurgeOld ==
    LET old == {b \in Rows : bookings[b].day < now - Retention}
    IN  /\ RetentionEnabled /\ timer = "idle" /\ old # {}
        /\ bookings' = [b \in Ids |-> IF b \in old THEN Null ELSE bookings[b]]
        /\ timer' = "orphans"
        /\ UNCHANGED <<series, used, now, req, store, origin, deleted>>

\* Second statement: the series no booking refers to.
PurgeOrphans ==
    /\ timer = "orphans"
    /\ series' = {s \in series : GetAllByRecurringID(s) # {}}
    /\ timer' = "idle"
    /\ UNCHANGED <<bookings, used, now, req, store, origin, deleted>>

Tick ==
    /\ \E t \in Times : t > now /\ now' = t
    /\ UNCHANGED <<bookings, series, used, req, store, timer, origin, deleted>>

Restart ==
    /\ req' = [p \in Procs |-> Idle] /\ store' = {} /\ timer' = "idle"
    /\ UNCHANGED <<bookings, series, used, now, origin, deleted>>

Create(p) == (\E e \in Recurrences : CheckSeries(p, e)) \/ InsertSeries(p) \/ InsertBooking(p)

DeleteSeries(p) ==
    (\E s \in SeriesIds : ReceiveDeleteSeries(p, s)) \/ DeleteFuture(p) \/ Detach(p) \/ DropSeries(p)

DeleteBooking(p) == (\E b \in Ids : ReceiveDelete(p, b)) \/ DeleteRow(p) \/ DeleteEmptySeries(p)

Next ==
    \/ \E p \in Procs : Create(p) \/ DeleteSeries(p) \/ DeleteBooking(p) \/ Fail(p)
    \/ \E b \in Ids, day \in Days : UpdateBooking(b, day)
    \/ StoreEventId \/ CalDavFails \/ PurgeOld \/ PurgeOrphans \/ Tick \/ Restart

Spec == Init /\ [][Next]_vars
-----------------------------------------------------------------------------
(* Properties.                                                             *)

\* Every variable keeps its type: each statement of a handler finds what the one
\* before it left for it, an id of a series where it needs one.
TypeOK ==
    /\ bookings \in [Ids -> Row \cup {Null}]
    /\ series \subseteq SeriesIds /\ used \subseteq Ids \cup SeriesIds
    /\ Rows \subseteq used /\ series \subseteq used
    /\ now \in Times
    /\ \A p \in Procs :
         CASE req[p].pc = "idle" -> req[p] = Idle
           [] req[p].pc = "series" -> req[p].left # <<>>
           [] req[p].pc = "delete" -> req[p].id \in Ids \X (SeriesIds \cup {Null})
           [] OTHER -> req[p].id \in SeriesIds
    /\ store \subseteq Ids \X Row
    /\ timer \in {"idle", "orphans"}
    /\ origin \in [Ids -> SeriesIds \cup {Null}] /\ deleted \subseteq SeriesIds

\* No handler is at work, nor the timer.
Settled == (\A p \in Procs : At(p, "idle")) /\ timer = "idle"

\* There is no foreign key, but a booking never refers to a series that is not
\* there: GET and DELETE of that series would answer 404 and the bookings could
\* not be deleted as a series any more.
NoDanglingLink == \A b \in Rows : bookings[b].series \in series \cup {Null}

\* Between requests every series has a booking: DELETE of the last one, of the
\* series and the purge take the series along.
NoOrphanSeries == Settled => \A s \in series : GetAllByRecurringID(s) # {}

\* After the answer to DELETE of a series, none of the bookings made for it lies
\* in the future.
DeletedSeriesLeavesNoFuture ==
    \A b \in Rows : origin[b] \in deleted => bookings[b].day <= now

\* The precheck promises no occurrence that create would refuse now.  (It counts
\* the occurrences before each one towards max_bookings_per_user, create does not,
\* so create may book more.)
PrecheckPromisesHold == \A e \in Recurrences : Prechecked(e) \subseteq Range(ValidBookings(e))
=============================================================================

---------------------------- MODULE MCAlgorithms ----------------------------
(***************************************************************************)
(* The functions of Intervals, Cadence and DayStatus against what they are *)
(* meant to compute.  A behaviour either grows a table of up to MaxBook    *)
(* bookings between minute 0 and minute LastMinute, and asks for a stay;   *)
(* or moves the end of a recurrence on, up to Weeks weeks from its first   *)
(* day, with cycles up to MaxCycle and at most MaxDays weekdays; or lets   *)
(* a day go by at a desk that up to MaxOfDay bookings are made for.        *)
(***************************************************************************)
EXTENDS DayStatus, Cadence

CONSTANTS LastMinute, MaxBook, Weeks, MaxCycle, MaxDays,  \* bounds
          Sorted,                                   \* clients send weekdays in order
          MaxOfDay,
          None

ASSUME AlgorithmsConstants == {LastMinute, MaxBook, Weeks, MaxCycle, MaxDays, MaxOfDay} \subseteq Nat

Stays == {i \in [enter : 0 .. LastMinute, leave : 0 .. LastMinute] : i.enter < i.leave}

WeekdayLists ==
    UNION {{s \in [1 .. n -> 0 .. 6] : IsInjective(s) /\ (Sorted => Increasing(s))} :
             n \in 0 .. MaxDays}

\* Days of six minutes, of which the office is open for four, and desks of all types.
Office == [enter |-> Minute, leave |-> 5 * Minute]
Midnight == 6 * Minute
Periods == {p \in [enter : {k * Minute : k \in 0 .. 5}, leave : {k * Minute : k \in 1 .. 6}] :
              p.enter < p.leave}
Slots == {p \in Periods : p.enter > 0 /\ Duration(p) <= 2 * Minute}
TwoSlots == {[enter |-> 0, leave |-> 2 * Minute], [enter |-> 2 * Minute, leave |-> 3 * Minute]}
DeskTypes == [mode : {"none"}] \cup [mode : {"flexible_time"}, minDuration : {0, 1, 3}]
               \cup [mode : {"fixed_slots"}, slots : {{p} : p \in Slots} \cup {TwoSlots}]
Desks == [office : {Office}, type : DeskTypes, minHours : 0 .. 1]

VARIABLES query, book,      \* the stay asked for, the bookings there are
          series,           \* the recurrence asked for
          desk, day         \* a desk; its bookings, when its status was asked for, the present

InitStays == query \in Stays /\ book = <<>> /\ series = None /\ desk = None /\ day = None

InitSeries ==
    /\ query = None /\ book = <<>> /\ desk = None /\ day = None
    /\ \E enter \in 0 .. 6, cycle \in 1 .. MaxCycle :
         series \in [enter : {enter}, end : {enter + 1}, cycle : {cycle},
                     cadence : {"daily"}, weekdays : {<<>>}]
           \cup [enter : {enter}, end : {enter + 1}, cycle : {cycle},
                 cadence : {"weekly"}, weekdays : WeekdayLists]

InitDay == /\ query = None /\ book = <<>> /\ series = None
           /\ desk \in Desks /\ day = [book |-> {}, asked |-> -1, now |-> -1]

Reserve == /\ query # None /\ Len(book) < MaxBook
           /\ \E i \in Stays : book' = Append(book, i)
           /\ UNCHANGED <<query, series, desk, day>>

Ask == query # None /\ query' \in Stays /\ UNCHANGED <<book, series, desk, day>>

Extend == /\ series # None /\ series.end < series.enter + 7 * Weeks
          /\ series' = [series EXCEPT !.end = @ + 1]
          /\ UNCHANGED <<query, book, desk, day>>

\* Bookings are sent a second short.  They may be older than the office hours, and booked
\* twice.
BookDesk == /\ desk # None /\ day.now = -1 /\ Cardinality(day.book) < MaxOfDay
            /\ \E p \in Periods : day' = [day EXCEPT !.book = @ \cup {AsSent(p)}]
            /\ UNCHANGED <<query, book, series, desk>>

Tick == /\ desk # None /\ day.now < Midnight
        /\ \/ day' = [day EXCEPT !.now = @ + 1]
           \/ day' = [day EXCEPT !.now = @ + 1, !.asked = @ + 1] /\ day.asked = day.now
        /\ UNCHANGED <<query, book, series, desk>>

Spec == (InitStays \/ InitSeries \/ InitDay)
          /\ [][Reserve \/ Ask \/ Extend \/ BookDesk \/ Tick]_<<query, book, series, desk, day>>

\* GetTimeRangeByUser and GetConflicts select the bookings they are meant to: the three
\* cases of the one cover every overlap and nothing else ("bigger than should be covered by
\* overlap start / end checks"), and the other finds those that want a minute of the stay,
\* but none that meets it at an end.
QueriesSelectOverlaps ==
    \A n \in DOMAIN book :
        /\ InUserRange(query, book[n]) <=> Overlaps(query, book[n])
        /\ Overlaps(query, book[n]) <=> ShareMinute(query, book[n])

\* The sampling of GetConcurrent never counts more bookings than there are at
\* some minute of the stay, and misses none of them where all stays lie on a
\* grid of two minutes or more.
ConcurrentSamplesPeak ==
    query # None =>
      /\ Concurrent(query, book) <= Peak(query, book)
      /\ (\A i \in {query} \cup {book[n] : n \in DOMAIN book} :
            i.enter % 2 = 0 /\ i.leave % 2 = 0)
           => Concurrent(query, book) = Peak(query, book)

\* The bookings of a series are on the days the recurrence names, each once and
\* in order, whatever the weekday it starts on.
BooksTheOccurrences ==
    series # None =>
      /\ Range(CreateBookings(series)) =
           IF series.cadence = "weekly" /\ series.weekdays = <<>> THEN {}
           ELSE Occurrences(series)
      /\ Increasing(CreateBookings(series))

Listed == BookingsOfDay(day.book, Office)
Status == getSpaceDayStatus(desk, Listed, day.asked)
Shown(now) == getEffectiveDayStatus(desk, Status, Listed, now)
CanPick == IF isFixedSlotSpace(desk) THEN desk.type.slots ELSE Periods
CanBook(p, now) == isValidBooking(desk, day.book, now, AsSent(p))

\* A desk is shown as full only if no booking of it would be accepted any more.
FullIsFull == Shown(day.now) = "full" => \A p \in CanPick : ~CanBook(p, day.now)

\* One that is not shown as full can be booked, in the dialog and by the server.
FreeIsBookable ==
    Shown(day.now) # "full" =>
        \E p \in CanPick : CanBook(p, day.now) /\ Offered(desk, Status, Listed, day.now, p)

\* What the dialog lets pass the server accepts.
OfferedIsAccepted ==
    \A p \in CanPick : Offered(desk, Status, Listed, day.now, p) => CanBook(p, day.now)

\* Slots shorter than the organization's least duration are offered, and refused.
ShortSlots == isFixedSlotSpace(desk) /\ \E p \in desk.type.slots :
                  Duration(p) < desk.minHours * Hour * Minute
\* Where nothing is too short, the second between two bookings makes a desk free.
AnyLength == ~isFixedSlotSpace(desk) /\ getEffectiveMinimum(desk) = 0

\* Server and client agree on what can be booked: the three above, but for those two cases.
DayStatusIsTrue ==
    desk # None => /\ FullIsFull
                   /\ ~ShortSlots => OfferedIsAccepted
                   /\ ~ShortSlots /\ ~AnyLength => FreeIsBookable
=============================================================================

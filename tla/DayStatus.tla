------------------------------ MODULE DayStatus ------------------------------
(***************************************************************************)
(* What is left of a desk on a day: space-router.go answers "available",    *)
(* "partially_booked" or "full"; SpaceTypeBooking.ts takes the answer and   *)
(* corrects it as time goes by; the dialog refuses periods it takes to be   *)
(* impossible; booking-router.go checks the booking at last.  Each has the  *)
(* rules in its own code.                                                  *)
(*                                                                         *)
(* Times are seconds of the day in question, and the present `now' is       *)
(* negative on the days before it.  A desk is a record [office, type,       *)
(* minHours] of its office hours, its type (or "none" for one that has no   *)
(* type or a disabled one) and the least duration of the organization,     *)
(* which does not book by the day.  `S' is a set of bookings of the desk.  *)
(***************************************************************************)
EXTENDS Intervals, SequencesExt

CONSTANTS Minute,             \* seconds of a minute
          HalfHour, Hour      \* minutes of half an hour and of one

\* A minute is long enough for a booking that is sent a second short.
ASSUME MinutesAndHours == Minute \in Nat /\ Minute > 1 /\ {HalfHour, Hour} \subseteq Nat \ {0}

Duration(i) == i.leave - i.enter
AsSent(p) == [p EXCEPT !.leave = @ - 1]
OverlapsOneOf(p, S) == \E b \in S : Overlaps(p, b)

-----------------------------------------------------------------------------
\* The server: getDayStatus.
clampBookingToOfficeHours(b, office) ==
    [enter |-> Max({b.enter, office.enter}), leave |-> Min({b.leave, office.leave})]
\* GetAllForSpacesInTime, clamped: the bookings of the answer.
BookingsOfDay(book, office) ==
    {clampBookingToOfficeHours(b, office) : b \in {b \in book : Overlaps(office, b)}}
\* sort.Slice, which leaves the order open of those that begin together.
ByEnter(S) ==
    CHOOSE s \in [1 .. Cardinality(S) -> S] :
        Range(s) = S /\ \A i, j \in DOMAIN s : i < j => s[i].enter <= s[j].enter

Merged(done, i) ==
    IF done # <<>> /\ i.enter <= Last(done).leave
    THEN [done EXCEPT ![Len(done)].leave = Max({@, i.leave})]
    ELSE Append(done, i)
\* The loop: what is made of the first n, each merged into what there is.
normalizeIntervals(S) ==
    LET merged[n \in 0 .. Cardinality(S)] ==
          IF n = 0 THEN <<>> ELSE Merged(merged[n - 1], ByEnter(S)[n])
    IN  merged[Cardinality(S)]

CeilMinutes(i) == (Duration(i) + Minute - 1) \div Minute
sumMinutes(intervals) ==
    LET total[n \in 0 .. Len(intervals)] ==
          IF n = 0 THEN 0 ELSE total[n - 1] + CeilMinutes(intervals[n])
    IN  total[Len(intervals)]

\* Mutant of Gap: a booking that ends before the one before it sets the cursor back.
GapFromLast(intervals, window, k) ==
    (IF k <= Len(intervals) THEN intervals[k].enter ELSE window.leave)
        - (IF k = 1 THEN window.enter ELSE Max({window.enter, intervals[k - 1].leave}))

\* The k-th gap of a window between the intervals of a sequence, and after the last one.
Gap(intervals, window, k) ==
    (IF k <= Len(intervals) THEN intervals[k].enter ELSE window.leave)
        - Max({window.enter} \cup {intervals[j].leave : j \in 1 .. (k - 1)})

getBookableWindow(office, now) == [office EXCEPT !.enter = Max({@, now})]
hasBookableGap(intervals, window, min) ==
    \E k \in 1 .. (Len(intervals) + 1) : Gap(intervals, window, k) >= Max({min, 1})

getLegacyMinimum(minHours) == IF minHours > 0 THEN minHours * Hour ELSE HalfHour
getMinimumBookableDuration(desk) ==
    LET required == CASE desk.type.mode = "none" -> getLegacyMinimum(desk.minHours)
                      [] desk.type.mode = "flexible_time" ->
                             Max({desk.minHours * Hour, desk.type.minDuration})
    IN  IF required > 0 THEN required * Minute - 1 ELSE 0

hasAvailableFixedSlot(desk, intervals, window) ==
    \E slot \in desk.type.slots :
        /\ slot.enter >= window.enter /\ slot.leave <= window.leave
        /\ ~OverlapsOneOf(slot, Range(intervals))
hasBookableOption(desk, intervals, now) ==
    LET window == getBookableWindow(desk.office, now)
    IN IF desk.type.mode = "fixed_slots"
       THEN hasAvailableFixedSlot(desk, intervals, window)
       ELSE hasBookableGap(intervals, window, getMinimumBookableDuration(desk))

getSpaceDayStatus(desk, S, now) ==
    LET intervals == normalizeIntervals(S)
        booked == sumMinutes(intervals)
    IN CASE ~hasBookableOption(desk, intervals, now) -> "full"
         [] booked * Minute >= Duration(desk.office) -> "full"
         [] booked = 0 -> "available"
         [] OTHER -> "partially_booked"

-----------------------------------------------------------------------------
\* The client, from the bookings of the answer: SpaceTypeBooking.ts.
isFixedSlotSpace(desk) == desk.type.mode = "fixed_slots"
getEffectiveMinimum(desk) ==
    CASE isFixedSlotSpace(desk) -> 0
      [] desk.type.mode = "none" -> IF desk.minHours > 0 THEN desk.minHours * Hour ELSE HalfHour
      [] OTHER -> Max({desk.minHours * Hour, desk.type.minDuration})

isInBookableFuture(desk, enter, now) ==
    now >= 0 => now < desk.office.leave /\ enter >= now
isWithinOfficeHours(desk, p) ==
    p.enter >= desk.office.enter /\ p.leave <= desk.office.leave
doesOverlapDayStatus(p, S) == OverlapsOneOf(p, S)
isRangeAllowed(desk, p, S, now) ==
    /\ isInBookableFuture(desk, p.enter, now) /\ isWithinOfficeHours(desk, p)
    /\ ~doesOverlapDayStatus(p, S)

getAvailableFixedSlots(desk, S, now) ==
    {slot \in desk.type.slots : isRangeAllowed(desk, slot, S, now)}

BookableWindow(desk, now) == [desk.office EXCEPT !.enter = Max({@, now})]
hasBookableTimeRange(desk, S, min, now) ==
    LET window == BookableWindow(desk, now)
        bookings == ByEnter(S)
        left == Gap(bookings, window, Len(bookings) + 1)
    IN /\ window.enter < window.leave
       /\ \/ \E k \in DOMAIN bookings :
                Gap(bookings, window, k) > 0 /\ Gap(bookings, window, k) >= min * Minute
          \/ left >= min * Minute

\* The status the page shows, from the one of the answer.
getEffectiveDayStatus(desk, status, S, now) ==
    IF \/ status = "full"
       \/ isFixedSlotSpace(desk) /\ getAvailableFixedSlots(desk, S, now) = {}
       \/ ~isFixedSlotSpace(desk)
            /\ ~hasBookableTimeRange(desk, S, getEffectiveMinimum(desk), now)
    THEN "full" ELSE status

\* What getModalBookingError lets pass, of a period or the slot that is chosen.
Offered(desk, status, S, now, p) ==
    /\ Duration(p) > 0
    /\ getEffectiveDayStatus(desk, status, S, now) # "full"
    /\ isRangeAllowed(desk, p, S, now)
    /\ isFixedSlotSpace(desk) => p \in getAvailableFixedSlots(desk, S, now)
    /\ Duration(p) \div Minute >= getEffectiveMinimum(desk)

-----------------------------------------------------------------------------
\* The server: create, of the period as it is sent.
isValidMinHoursBooking(desk, p) ==
    desk.minHours = 0 \/ (Duration(p) + 1) \div (Hour * Minute) >= desk.minHours
isValidFixedSlotBooking(desk, p) ==
    \E slot \in desk.type.slots :
        /\ isWithinOfficeHours(desk, slot)
        /\ p.enter = slot.enter /\ p.leave \in {slot.leave, slot.leave - 1}
isValidSpaceTypeBooking(desk, p) ==
    CASE desk.type.mode = "none" ->
             Duration(p) + 1 >= getLegacyMinimum(desk.minHours) * Minute
      [] desk.type.mode = "flexible_time" ->
             (Duration(p) + 1) \div Minute >= desk.type.minDuration
      [] desk.type.mode = "fixed_slots" -> isValidFixedSlotBooking(desk, p)
isValidBooking(desk, book, now, p) ==
    /\ Duration(p) > 0 /\ p.enter >= now
    /\ isValidMinHoursBooking(desk, p)
    /\ p.enter >= desk.office.enter /\ p.leave <= desk.office.leave
    /\ isValidSpaceTypeBooking(desk, p)
    /\ ~OverlapsOneOf(p, book)
=============================================================================

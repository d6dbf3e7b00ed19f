------------------------------- MODULE Cadence -------------------------------
(***************************************************************************)
(* How a recurring booking is spread over days: CreateBookings and         *)
(* getNextBookingTime of recurring-booking-repository.go.  A day stands    *)
(* for the instant at which an occurrence of that day begins; day 0 is a   *)
(* Sunday.  All occurrences begin at the time of day of the first.         *)
(***************************************************************************)
EXTENDS Integers, Sequences, FiniteSets, FiniteSetsExt, Functions

\* time.Weekday: 0 is Sunday.
Weekday(d) == d % 7

\* What a client asks for: the first day, the first day that is not before the
\* end, every how many days or weeks, and on which weekdays.
Recurrence ==
    [enter : Nat, end : Nat, cadence : {"daily", "weekly"}, cycle : Nat \ {0},
     weekdays : Seq(0 .. 6)]

\* slices.Index.
Index(s, x) == CHOOSE i \in DOMAIN s : s[i] = x /\ \A j \in 1 .. i - 1 : s[j] # x

\* The loop that looks for the first day that falls on a weekday asked for.
FirstDay(e) ==
    IF e.cadence = "daily" THEN e.enter
    ELSE Min({d \in e.enter .. e.enter + 6 : Weekday(d) \in Range(e.weekdays)})

\* Mutant of GetNextBookingTime: the weeks in between are not skipped.
GetNextBookingTimeEveryWeek(e, d) ==
    LET w == e.weekdays
        i == Index(w, Weekday(d))
    IN  IF e.cadence = "daily" THEN d + e.cycle
        ELSE IF i = Len(w) THEN d + 7 - w[i] + w[1]
        ELSE d + w[i + 1] - w[i]

\* getNextBookingTime: the next weekday of the list; after the last one, the
\* first one, `cycle` weeks on.
GetNextBookingTime(e, d) ==
    LET w == e.weekdays
        i == Index(w, Weekday(d))
    IN  IF e.cadence = "daily" THEN d + e.cycle
        ELSE IF i = Len(w) THEN d + 7 - w[i] + w[1] + 7 * (e.cycle - 1)
        ELSE d + w[i + 1] - w[i]

\* The days from which the next one is asked for.
Candidates(e) == {d \in Nat : e.cadence = "weekly" => Weekday(d) \in Range(e.weekdays)}

\* CreateBookings: the days, in the order they are generated.
CreateBookings(e) ==
    LET from[d \in Candidates(e)] ==
          IF d < e.end THEN <<d>> \o from[GetNextBookingTime(e, d)] ELSE <<>>
    IN  IF e.cadence = "weekly" /\ e.weekdays = <<>> THEN <<>>
        ELSE from[FirstDay(e)]
-----------------------------------------------------------------------------
(* What a recurrence means: every `cycle` days from the first, or on its   *)
(* weekdays of every `cycle` weeks (from Sunday to Saturday) from the week *)
(* of the first.                                                           *)

Occurrences(e) ==
    {d \in e.enter .. e.end - 1 :
        IF e.cadence = "daily" THEN (d - e.enter) % e.cycle = 0
        ELSE /\ Weekday(d) \in Range(e.weekdays)
             /\ ((d \div 7) - (FirstDay(e) \div 7)) % e.cycle = 0}

Increasing(s) == \A i, j \in DOMAIN s : i < j => s[i] < s[j]
=============================================================================

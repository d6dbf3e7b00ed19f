----------------------------- MODULE MCRecurring -----------------------------
(* Instances of Recurring for TLC.                                         *)
EXTENDS Recurring, TLC

CONSTANTS p1, p2, b1, b2, b3, b4, s1, s2

Daily(first, cycle, end) ==
    [enter |-> first, end |-> end, cadence |-> "daily", cycle |-> cycle, weekdays |-> <<>>]
Weekly(first, weekdays, end) ==
    [enter |-> first, end |-> end, cadence |-> "weekly", cycle |-> 1, weekdays |-> weekdays]

\* Days 1 and 2, and on Monday and Wednesday of the week: 1 and 3.
TwoSeries == {Daily(1, 1, 3), Weekly(0, <<1, 3>>, 6)}
\* One series of two bookings.
OneSeries == {Daily(1, 1, 3)}
MoveTo == {4}
\* Before the bookings and on each of their days; by day 3, day 1 is purged.
Clock == {0, 1, 2, 3}

RecurringSymmetry == Permutations(Ids) \cup Permutations(SeriesIds) \cup Permutations(Procs)

\* Clients that only create and delete, and know of a series from the answer to its
\* creation; a server that does not stop half-way.
Created == \A p \in Procs : req[p].pc \notin {"series", "bookings"}
CreateDelete ==
    \/ \E p \in Procs :
         \/ Create(p) \/ DeleteBooking(p)
         \/ (~At(p, "idle") \/ Created) /\ DeleteSeries(p)
    \/ StoreEventId \/ CalDavFails \/ PurgeOld \/ PurgeOrphans \/ Tick
CreateDeleteSpec == Init /\ [][CreateDelete]_vars
=============================================================================

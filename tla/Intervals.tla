------------------------------ MODULE Intervals ------------------------------
(***************************************************************************)
(* The interval arithmetic of booking-repository.go: the WHERE clauses by  *)
(* which GetConflicts, GetTimeRangeByUser and GetConcurrent select         *)
(* bookings, and the sampling loop of GetConcurrent.  Times are whole      *)
(* minutes, the step of that loop.                                         *)
(***************************************************************************)
EXTENDS Integers, FiniteSets, FiniteSetsExt

Interval == {i \in [enter : Nat, leave : Nat] : i.enter < i.leave}

\* GetConflicts: $3 < leave_time AND $4 > enter_time.
Overlaps(q, b) == q.enter < b.leave /\ q.leave > b.enter

\* Mutant of InUserRange: without the case "within".
InUserRangeNotWithin(q, b) ==
    \/ q.enter <= b.enter /\ q.leave > b.enter
    \/ q.enter < b.leave /\ q.leave >= b.leave

\* GetTimeRangeByUser: overlap start, overlap end, within.
InUserRange(q, b) ==
    \/ q.enter <= b.enter /\ q.leave > b.enter
    \/ q.enter < b.leave /\ q.leave >= b.leave
    \/ q.enter >= b.enter /\ q.leave <= b.leave

\* GetConcurrent's SELECT: closed intervals that touch.
Touches(q, b) ==
    \/ b.enter <= q.enter /\ q.enter <= b.leave
    \/ b.enter <= q.leave /\ q.leave <= b.leave
    \/ q.enter <= b.enter /\ b.enter <= q.leave
    \/ q.enter <= b.leave /\ b.leave <= q.leave

\* Mutant of StrictlyInside: a booking counts at its ends too.
InsideOrAtEnd(b, t) == b.enter <= t /\ t <= b.leave

\* getNumActive: a booking counts at t only strictly between its two ends.
StrictlyInside(b, t) == b.enter < t /\ t < b.leave

(***************************************************************************)
(* GetConcurrent: the largest number of selected bookings active at one of *)
(* the sampled instants.  `book` maps booking ids to intervals.            *)
(***************************************************************************)
NumActive(book, S, t) == Cardinality({b \in S : StrictlyInside(book[b], t)})

Concurrent(q, book) ==
    LET selected == {b \in DOMAIN book : Touches(q, book[b])}
    IN  Max({NumActive(book, selected, t) : t \in q.enter .. q.leave})
-----------------------------------------------------------------------------
(***************************************************************************)
(* What the clauses are meant to compute.  A booking is present in the     *)
(* minute [k, k+1) of a stay if that minute lies in it.                    *)
(***************************************************************************)
Minutes(i) == i.enter .. (i.leave - 1)
ShareMinute(q, b) == Minutes(q) \cap Minutes(b) # {}

Peak(q, book) ==
    Max({Cardinality({b \in DOMAIN book : k \in Minutes(book[b])}) : k \in Minutes(q)})
=============================================================================

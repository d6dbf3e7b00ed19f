----------------------------- MODULE MCBooking -----------------------------
(* Instances of Booking for TLC.                                           *)
EXTENDS Booking, TLC

CONSTANTS alice, bob, boss,     \* two users and a space admin
          desk, room,           \* room needs approval where a run says so
          b1, b2, b3            \* booking ids

Stay(enter, leave) == [enter |-> enter, leave |-> leave]

\* On an even grid, so that overlaps last two minutes or more: two that overlap and
\* are over by the end of the clock, one after it.
ThreeStays == {Stay(0, 4), Stay(2, 8), Stay(12, 14)}
\* As before; both are purged by the end of the clock.
LateStays == {Stay(2, 6), Stay(4, 6), Stay(10, 14)}
OneStay == {Stay(4, 8)}

\* The clock: before, within and after the stays.
Clock0 == {0}
Clock3 == {0, 3, 9}

Bosses == {boss}
BossForAlice == {<<boss, alice>>}
Nobody == {}
\* Ids, requests and goroutines are interchangeable.
BookingSymmetry == Permutations(Ids) \cup Permutations(Procs) \cup Permutations(Workers)
\* Without admins and approval, users and spaces are too.
PlainSymmetry == BookingSymmetry \cup Permutations(Spaces) \cup Permutations(Users)

\* A client that waits for the previous request and its goroutines, a purge that
\* comes between requests, a CalDAV server that answers, a server that is not
\* restarted and a database that does not fail after a goroutine was started.
UndisturbedNext ==
    \/ \E p \in Procs : (Settled /\ ReceiveAny(p)) \/ Handle(p) \/ (At(p, "write") /\ WriteFails(p))
    \/ \E w \in Workers : PutEvent(w) \/ StoreEventId(w) \/ DropEvent(w)
    \/ (Settled /\ PurgeOldBookings) \/ Tick
UndisturbedSpec == Init /\ [][UndisturbedNext]_vars
=============================================================================

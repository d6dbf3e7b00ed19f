---------------------------- MODULE Reservations ----------------------------
(***************************************************************************)
(* What the bookings of an organization promise, whatever the steps of the *)
(* server: a book of reservations, in which one is entered, moved,         *)
(* confirmed or struck out at once, and where no two of them have one      *)
(* space at one time.  A reservation that is struck out does not come      *)
(* back, its id is not given to another, and moving it neither gains nor   *)
(* loses approval, into whatever space.                                    *)
(***************************************************************************)
EXTENDS Intervals

CONSTANTS Ids, Users, Spaces, Slots,
          ApprovalSpaces      \* where a reservation waits for approval

VARIABLES book,    \* the reservations, by id
          given    \* ids that were given out

vars == <<book, given>>

Reservation == [user : Users, space : Spaces, slot : Slots, approved : BOOLEAN]

\* Nobody but b itself has the space of r at a time of r.
Free(b, r) ==
    \A c \in DOMAIN book \ {b} :
        ~ (book[c].space = r.space /\ Overlaps(r.slot, book[c].slot))

Enter(b, r) ==
    book' = [c \in DOMAIN book \cup {b} |-> IF c = b THEN r ELSE book[c]]

Init == book = [b \in {} |-> b] /\ given = {}

Reserve(b, r) == /\ b \notin given /\ Free(b, r)
                 /\ r.approved <=> r.space \notin ApprovalSpaces
                 /\ Enter(b, r)
                 /\ given' = given \cup {b}

Move(b, r) == /\ b \in DOMAIN book /\ Free(b, r)
              /\ r.approved <=> book[b].approved
              /\ Enter(b, r)
              /\ UNCHANGED given

Confirm(b) == /\ b \in DOMAIN book
              /\ Enter(b, [book[b] EXCEPT !.approved = TRUE])
              /\ UNCHANGED given

StrikeOut(S) == /\ book' = [b \in DOMAIN book \ S |-> book[b]]
                /\ UNCHANGED given

Next == \/ \E b \in Ids, r \in Reservation : Reserve(b, r) \/ Move(b, r)
        \/ \E b \in Ids : Confirm(b)
        \/ \E S \in SUBSET Ids : StrikeOut(S)

Spec == Init /\ [][Next]_vars
=============================================================================

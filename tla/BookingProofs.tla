---------------------------- MODULE BookingProofs ----------------------------
(* Theorems about Booking, for every value of its constants.               *)
EXTENDS MCBooking, OperatorProofs

-----------------------------------------------------------------------------
(* Type correctness.                                                       *)

\* A step that adds ids only to `used` keeps the type of `dirty`.
LEMMA WritesType ==
    ASSUME TypeOK, NEW S \in SUBSET used', used \subseteq used', Writes(S)
    PROVE  dirty' \in [Actors -> SUBSET used']
BY DEF TypeOK, Writes, Actors

\* What `go` leaves in the table of goroutines is well-typed.
LEMMA GoType ==
    ASSUME TypeOK, used \subseteq used',
           NEW pc \in {"put", "drop"}, NEW b \in used', NEW row \in Row,
           Go(pc, b, row) \/ UNCHANGED task
    PROVE  task' \in [Workers -> Task' \cup {NoTask}]
BY DEF TypeOK, Go, Task, NoTask, Row

\* A full-row UPDATE keeps the type of the table and adds no row.
LEMMA UpdateRowType ==
    ASSUME TypeOK, NEW b \in used, NEW row \in Row, UpdateRow(b, row)
    PROVE  /\ bookings' \in [Ids -> Row \cup {Null}]
           /\ \A c \in Ids : bookings'[c] # Null => bookings[c] # Null
BY DEF TypeOK, UpdateRow, Exists, Rows

LEMMA ReceiveType ==
    ASSUME TypeOK, NEW p \in Procs, ReceiveAny(p)
    PROVE  TypeOK'
<1>1. ASSUME NEW u \in Users, NEW f \in Users, NEW s \in Spaces, NEW t \in Slots,
             ReceiveCreate(p, u, f, s, t)
      PROVE  TypeOK'
  <2>1. [user |-> f, space |-> s, slot |-> t, caldav |-> FALSE, approved |-> FALSE] \in Row
    BY DEF Row
  <2>2. req' \in [Procs -> Request' \cup {Idle}]
    BY <1>1, <2>1 DEF TypeOK, ReceiveCreate, Receive, Request
  <2>3. dirty' \in [Actors -> SUBSET used']
    BY <1>1, WritesType DEF ReceiveCreate
  <2> QED
    BY <1>1, <2>2, <2>3 DEF TypeOK, ReceiveCreate, Rows, Exists, Task
<1>2. ASSUME NEW u \in Users, NEW f \in Users, NEW b \in Ids, NEW s \in Spaces, NEW t \in Slots,
             ReceiveUpdate(p, u, f, b, s, t)
      PROVE  TypeOK'
  <2>0. b \in used /\ bookings[b] \in Row
    BY <1>2 DEF TypeOK, ReceiveUpdate, Rows, Exists
  <2>1. [bookings[b] EXCEPT !.user = f, !.space = s, !.slot = t] \in Row
    BY <2>0 DEF Row
  <2>2. req' \in [Procs -> Request' \cup {Idle}]
    BY <1>2, <2>0, <2>1 DEF TypeOK, ReceiveUpdate, Receive, Request
  <2>3. dirty' \in [Actors -> SUBSET used']
    BY <1>2, WritesType DEF ReceiveUpdate
  <2> QED
    BY <1>2, <2>2, <2>3 DEF TypeOK, ReceiveUpdate, Rows, Exists, Task
<1>3. ASSUME NEW u \in Users, NEW b \in Ids, NEW pc \in {"approve", "decline"},
             ReceiveApproval(p, u, b, pc)
      PROVE  TypeOK'
  <2>1. b \in used /\ bookings[b] \in Row
    BY <1>3 DEF TypeOK, ReceiveApproval, Rows, Exists
  <2>2. req' \in [Procs -> Request' \cup {Idle}]
    BY <1>3, <2>1 DEF TypeOK, ReceiveApproval, Receive, Request
  <2>3. dirty' \in [Actors -> SUBSET used']
    BY <1>3, WritesType DEF ReceiveApproval
  <2> QED
    BY <1>3, <2>2, <2>3 DEF TypeOK, ReceiveApproval, Rows, Exists, Task
<1>4. ASSUME NEW u \in Users, NEW b \in Ids, ReceiveDelete(p, u, b)
      PROVE  TypeOK'
  <2>1. b \in used /\ bookings[b] \in Row
    BY <1>4 DEF TypeOK, ReceiveDelete, Rows, Exists
  <2>2. req' \in [Procs -> Request' \cup {Idle}]
    BY <1>4, <2>1 DEF TypeOK, ReceiveDelete, Receive, Request
  <2>3. dirty' \in [Actors -> SUBSET used']
    BY <1>4, WritesType DEF ReceiveDelete
  <2>4. task' \in [Workers -> Task' \cup {NoTask}]
    BY <1>4, <2>1, GoType DEF ReceiveDelete, GoDrop
  <2> QED
    BY <1>4, <2>2, <2>3, <2>4 DEF TypeOK, ReceiveDelete, Rows, Exists
<1> QED
  BY <1>1, <1>2, <1>3, <1>4 DEF ReceiveAny

\* A request that goes on to its next step, or is answered, keeps its type.
LEMMA GotoType ==
    ASSUME TypeOK, NEW p \in Procs, used \subseteq used', Return(p)
    PROVE  req' \in [Procs -> Request' \cup {Idle}]
BY DEF TypeOK, Return, Request, Idle

LEMMA CheckType ==
    ASSUME TypeOK, NEW p \in Procs, CheckLimits(p) \/ CheckConflicts(p)
    PROVE  TypeOK'
<1>1. req' \in [Procs -> Request' \cup {Idle}]
  <2>1. CASE Return(p)
    BY <2>1, GotoType DEF CheckLimits, CheckConflicts
  <2>2. CASE Goto(p, "conflicts") /\ At(p, "limits")
    BY <2>2 DEF Goto, At, TypeOK, Request, Idle, CheckLimits, CheckConflicts
  <2>3. CASE Goto(p, "write") /\ At(p, "conflicts")
    BY <2>3 DEF Goto, At, TypeOK, Request, Idle, CheckLimits, CheckConflicts
  <2> QED
    BY <2>1, <2>2, <2>3 DEF CheckLimits, CheckConflicts
<1>2. dirty' \in [Actors -> SUBSET used']
  BY WritesType DEF CheckLimits, CheckConflicts
<1> QED
  BY <1>1, <1>2 DEF TypeOK, CheckLimits, CheckConflicts, Rows, Exists, Task

\* A request in flight, past the first read.
LEMMA InFlight ==
    ASSUME TypeOK, NEW p \in Procs, ~At(p, "idle")
    PROVE  /\ req[p].row \in Row /\ req[p].id \in used \cup {Null} /\ req[p].by \in Users
           /\ req[p].pc \in {"approve", "decline", "delete"} => req[p].id \in used
BY DEF TypeOK, At, Request, Idle

LEMMA InsertType ==
    ASSUME TypeOK, NEW p \in Procs, Insert(p)
    PROVE  TypeOK'
<1> DEFINE row == [req[p].row EXCEPT !.approved = req[p].row.space \notin ApprovalSpaces]
<1>1. PICK b \in Ids \ used :
        /\ bookings' = [bookings EXCEPT ![b] = row]
        /\ used' = used \cup {b}
        /\ granted' = IF row.approved THEN granted \cup {<<b, row.space>>} ELSE granted
        /\ IF row.approved THEN Go("put", b, row) ELSE UNCHANGED task
        /\ Return(p)
        /\ UNCHANGED <<now, calendar>>
        /\ Writes({b})
  BY DEF Insert
<1>2. req[p].row \in Row
  BY InFlight DEF Insert, At
<1>3. row \in Row /\ row.space \in Spaces
  BY <1>2 DEF Row
<1> HIDE DEF row
<1>4. bookings' \in [Ids -> Row \cup {Null}] /\ used' \subseteq Ids /\ Rows' \subseteq used'
  BY <1>1, <1>3 DEF TypeOK, Rows, Exists
<1>5. req' \in [Procs -> Request' \cup {Idle}]
  BY <1>1, GotoType
<1>6. task' \in [Workers -> Task' \cup {NoTask}]
  BY <1>1, <1>3, GoType
<1>7. dirty' \in [Actors -> SUBSET used']
  BY <1>1, WritesType
<1>8. granted' \subseteq used' \X Spaces
  BY <1>1, <1>3 DEF TypeOK
<1> QED
  BY <1>1, <1>4, <1>5, <1>6, <1>7, <1>8 DEF TypeOK

LEMMA WriteUpdateType ==
    ASSUME TypeOK, NEW p \in Procs, WriteUpdate(p)
    PROVE  TypeOK'
<1>1. req[p].row \in Row /\ req[p].id \in used
  BY InFlight DEF WriteUpdate, At
<1>2. req' \in [Procs -> Request' \cup {Idle}]
  BY GotoType DEF WriteUpdate
<1>3. task' \in [Workers -> Task' \cup {NoTask}]
  BY <1>1, GoType DEF WriteUpdate
<1>4. dirty' \in [Actors -> SUBSET used']
  BY <1>1, WritesType DEF WriteUpdate
<1>5. bookings' \in [Ids -> Row \cup {Null}] /\ Rows' \subseteq used'
  BY <1>1, UpdateRowType DEF WriteUpdate, TypeOK, Rows, Exists
<1> QED
  BY <1>2, <1>3, <1>4, <1>5 DEF TypeOK, WriteUpdate

LEMMA ApproveType ==
    ASSUME TypeOK, NEW p \in Procs, Approve(p)
    PROVE  TypeOK'
<1> DEFINE row == [req[p].row EXCEPT !.approved = TRUE]
<1>1. req[p].row \in Row /\ req[p].id \in used
  BY InFlight DEF Approve, At
<1>2. row \in Row /\ req[p].row.space \in Spaces
  BY <1>1 DEF Row
<1>3. UpdateRow(req[p].id, row) /\ Go("put", req[p].id, row)
  BY DEF Approve
<1> HIDE DEF row
<1>4. req' \in [Procs -> Request' \cup {Idle}]
  BY GotoType DEF Approve
<1>5. task' \in [Workers -> Task' \cup {NoTask}]
  BY <1>1, <1>2, <1>3, GoType DEF Approve
<1>6. dirty' \in [Actors -> SUBSET used']
  BY <1>1, WritesType DEF Approve
<1>7. bookings' \in [Ids -> Row \cup {Null}] /\ Rows' \subseteq used'
  BY <1>1, <1>2, <1>3, UpdateRowType DEF Approve, TypeOK, Rows, Exists
<1> QED
  BY <1>1, <1>2, <1>4, <1>5, <1>6, <1>7 DEF TypeOK, Approve

LEMMA RemoveType ==
    ASSUME TypeOK, NEW p \in Procs, Decline(p) \/ Delete(p) \/ WriteFails(p)
    PROVE  TypeOK'
<1>1. ~At(p, "idle")
  BY DEF Decline, Delete, WriteFails, At
<1>2. req[p].row \in Row /\ (Decline(p) \/ Delete(p) => req[p].id \in used)
  BY <1>1, InFlight DEF Decline, Delete, At
<1>3. req' \in [Procs -> Request' \cup {Idle}]
  BY GotoType DEF Decline, Delete, WriteFails
<1>4. task' \in [Workers -> Task' \cup {NoTask}]
  BY <1>2, GoType DEF Decline, Delete, WriteFails, GoDrop, TypeOK, Task
<1>5. dirty' \in [Actors -> SUBSET used']
  BY <1>2, WritesType DEF Decline, Delete, WriteFails
<1>6. bookings' \in [Ids -> Row \cup {Null}] /\ Rows' \subseteq used'
  BY DEF Decline, Delete, WriteFails, TypeOK, Rows, Exists
<1> QED
  BY <1>3, <1>4, <1>5, <1>6 DEF TypeOK, Decline, Delete, WriteFails

LEMMA GoroutineType ==
    ASSUME TypeOK, NEW w \in Workers, Goroutine(w)
    PROVE  TypeOK'
<1>1. task[w] \in Task
  BY DEF Goroutine, PutEvent, CalDavFails, StoreEventId, DropEvent, TypeOK, NoTask
<1>2. task' \in [Workers -> Task' \cup {NoTask}]
  BY <1>1 DEF Goroutine, PutEvent, CalDavFails, StoreEventId, DropEvent, TypeOK, Task, NoTask
<1>3. dirty' \in [Actors -> SUBSET used']
  BY <1>1, WritesType DEF Goroutine, PutEvent, CalDavFails, StoreEventId, DropEvent, Task
<1>4. calendar' \in [CalDavUsers -> [Ids -> Slots \cup {Null}]]
  BY <1>1 DEF Goroutine, PutEvent, CalDavFails, StoreEventId, DropEvent, TypeOK, Task, Row
<1>5. bookings' \in [Ids -> Row \cup {Null}] /\ Rows' \subseteq used'
  <2>1. CASE StoreEventId(w)
    <3>1. task[w].id \in used /\ [task[w].row EXCEPT !.caldav = TRUE] \in Row
      BY <1>1 DEF Task, Row
    <3> QED
      BY <2>1, <3>1, UpdateRowType DEF StoreEventId, TypeOK, Rows, Exists
  <2>2. CASE UNCHANGED <<bookings, used>>
    BY <2>2 DEF TypeOK, Rows, Exists
  <2> QED
    BY <2>1, <2>2 DEF Goroutine, PutEvent, CalDavFails, DropEvent
<1> QED
  BY <1>2, <1>3, <1>4, <1>5
  DEF Goroutine, PutEvent, CalDavFails, StoreEventId, DropEvent, TypeOK, Request

LEMMA EnvironmentType ==
    ASSUME TypeOK, PurgeOldBookings \/ Tick \/ Restart
    PROVE  TypeOK'
<1>1. CASE PurgeOldBookings
  <2>1. PICK S \in SUBSET Rows :
          /\ bookings' = [b \in Ids |-> IF b \in S THEN Null ELSE bookings[b]]
          /\ UNCHANGED <<used, now, req, task, calendar, granted>>
          /\ Writes(S)
    BY <1>1 DEF PurgeOldBookings
  <2>2. dirty' \in [Actors -> SUBSET used']
    BY <2>1, WritesType DEF TypeOK
  <2> QED
    BY <2>1, <2>2 DEF TypeOK, Rows, Exists, Request, Task
<1>2. CASE Tick
  <2>1. dirty' \in [Actors -> SUBSET used']
    BY <1>2, WritesType DEF Tick
  <2> QED
    BY <1>2, <2>1 DEF Tick, TypeOK, Rows, Exists, Request, Task
<1>3. CASE Restart
  <2>1. dirty' \in [Actors -> SUBSET used']
    BY <1>3, WritesType DEF Restart
  <2> QED
    BY <1>3, <2>1 DEF Restart, TypeOK, Rows, Exists
<1> QED
  BY <1>1, <1>2, <1>3

LEMMA TypeStep == TypeOK /\ [Next]_vars => TypeOK'
<1> SUFFICES ASSUME TypeOK, [Next]_vars PROVE TypeOK'
  OBVIOUS
<1>1. CASE UNCHANGED vars
  BY <1>1 DEF vars, TypeOK, Rows, Exists, Request, Task
<1>2. ASSUME NEW p \in Procs, ReceiveAny(p) PROVE TypeOK'
  BY <1>2, ReceiveType
<1>3. ASSUME NEW p \in Procs, Handle(p) \/ WriteFails(p) PROVE TypeOK'
  BY <1>3, CheckType, InsertType, WriteUpdateType, ApproveType, RemoveType DEF Handle
<1>4. ASSUME NEW w \in Workers, Goroutine(w) PROVE TypeOK'
  BY <1>4, GoroutineType
<1>5. CASE PurgeOldBookings \/ Tick \/ Restart
  BY <1>5, EnvironmentType
<1> QED
  BY <1>1, <1>2, <1>3, <1>4, <1>5 DEF Next

\* The table, the requests and the goroutines only ever hold rows and ids of their
\* types, whatever the order of handlers, goroutines, purges and restarts.
THEOREM TypeCorrect == Spec => []TypeOK
<1>1. Init => TypeOK
  BY BookingConstants DEF Init, TypeOK, Rows, Exists, Actors, BookingConstants
<1> QED
  BY <1>1, TypeStep, PTL DEF Spec

-----------------------------------------------------------------------------
(* What an actor that is about to write knows of the rows that have not    *)
(* been written since it looked.  This is the invariant behind             *)
(* ClashOnlyFromStaleView.                                                 *)

\* A create or update that passed GetConflicts clashes with none of them; an
\* approver's copy of the row is the row.
RequestView(p) ==
    /\ At(p, "write") =>
         \A c \in Rows \ (dirty[p] \cup {req[p].id}) :
            ~ (bookings[c].space = req[p].row.space /\ Overlaps(req[p].row.slot, bookings[c].slot))
    /\ At(p, "approve") /\ req[p].id \notin dirty[p] => bookings[req[p].id] = req[p].row

\* A goroutine's copy of the row is the row, unless there was none to update.
GoroutineView(w) ==
    task[w].pc \in {"put", "store"} /\ task[w].id \notin dirty[w] =>
        bookings[task[w].id] \in {Null, task[w].row}

View == (\A p \in Procs : RequestView(p)) /\ (\A w \in Workers : GoroutineView(w))

\* A step that writes no other rows than those it adds to `dirty` keeps the view
\* of a request that stays where it is, or no longer holds one.
LEMMA RequestViewKept ==
    ASSUME TypeOK, NEW p \in Procs, RequestView(p), NEW S \in SUBSET Ids, Writes(S),
           \A b \in Ids \ S : bookings'[b] = bookings[b],
           req'[p] = req[p] \/ req'[p].pc \notin {"write", "approve"}
    PROVE  RequestView(p)'
<1>1. CASE req'[p].pc \notin {"write", "approve"}
  BY <1>1 DEF RequestView, At
<1>2. CASE req'[p] = req[p] /\ req[p].pc \in {"write", "approve"}
  <2>1. dirty'[p] = dirty[p] \cup S
    BY <1>2 DEF Writes, Holding, Actors
  <2>2. req[p].pc = "approve" => req[p].id \in Ids
    BY InFlight DEF TypeOK, At
  <2> QED
    BY <1>2, <2>1, <2>2 DEF RequestView, At, Rows, Exists
<1> QED
  BY <1>1, <1>2

LEMMA GoroutineViewKept ==
    ASSUME TypeOK, NEW w \in Workers, GoroutineView(w), NEW S \in SUBSET Ids, Writes(S),
           \A b \in Ids \ S : bookings'[b] = bookings[b],
           \/ task'[w].pc \notin {"put", "store"}
           \/ /\ task[w].pc \in {"put", "store"}
              /\ task'[w].id = task[w].id /\ task'[w].row = task[w].row
    PROVE  GoroutineView(w)'
<1>1. CASE task'[w].pc \notin {"put", "store"}
  BY <1>1 DEF GoroutineView
<1>2. CASE /\ task'[w].pc \in {"put", "store"} /\ task[w].pc \in {"put", "store"}
           /\ task'[w].id = task[w].id /\ task'[w].row = task[w].row
  <2>1. dirty'[w] = dirty[w] \cup S
    BY <1>2 DEF Writes, Holding, Actors
  <2>2. task[w].id \in Ids
    BY <1>2 DEF TypeOK, Task, NoTask
  <2> QED
    BY <1>2, <2>1, <2>2 DEF GoroutineView
<1> QED
  BY <1>1, <1>2

\* `go` leaves the other goroutines alone.
LEMMA GoFrame ==
    ASSUME TypeOK, NEW pc, NEW b, NEW row, Go(pc, b, row) \/ UNCHANGED task,
           NEW w \in Workers
    PROVE  task'[w] = task[w] \/ task'[w] = [pc |-> pc, id |-> b, row |-> row]
BY DEF Go, TypeOK

\* A step of request p that writes the row b, and may start a goroutine with a
\* copy of it: what the others know is kept, what the goroutine knows is true.
LEMMA WriteView ==
    ASSUME TypeOK, View, NEW p \in Procs, NEW b \in Ids, NEW row, NEW pc,
           Writes({b}), \A c \in Ids \ {b} : bookings'[c] = bookings[c],
           Return(p), Go(pc, b, row) \/ UNCHANGED task,
           pc = "drop" \/ bookings'[b] \in {Null, row}
    PROVE  View'
<1>1. ASSUME NEW q \in Procs PROVE RequestView(q)'
  <2>1. req'[q] = req[q] \/ req'[q].pc \notin {"write", "approve"}
    BY DEF Return, Idle, TypeOK
  <2> QED
    BY <2>1, RequestViewKept DEF View
<1>2. ASSUME NEW w \in Workers PROVE GoroutineView(w)'
  <2>1. CASE task'[w] = task[w]
    BY <2>1, GoroutineViewKept DEF View
  <2>2. CASE task'[w] = [pc |-> pc, id |-> b, row |-> row]
    BY <2>2 DEF GoroutineView
  <2> QED
    BY <2>1, <2>2, GoFrame
<1> QED
  BY <1>1, <1>2 DEF View

\* A step of request p that writes nothing.
LEMMA ReadView ==
    ASSUME TypeOK, View, NEW p \in Procs, Writes({}), UNCHANGED bookings,
           \A q \in Procs \ {p} : req'[q] = req[q], RequestView(p)',
           NEW b, NEW row, Go("drop", b, row) \/ UNCHANGED task
    PROVE  View'
<1>1. ASSUME NEW q \in Procs PROVE RequestView(q)'
  BY RequestViewKept DEF View
<1>2. ASSUME NEW w \in Workers PROVE GoroutineView(w)'
  <2>1. CASE task'[w] = task[w]
    BY <2>1, GoroutineViewKept DEF View
  <2>2. CASE task'[w] = [pc |-> "drop", id |-> b, row |-> row]
    BY <2>2 DEF GoroutineView
  <2> QED
    BY <2>1, <2>2, GoFrame
<1> QED
  BY <1>1, <1>2 DEF View

LEMMA ReceiveViewStep ==
    ASSUME TypeOK, View, NEW p \in Procs, ReceiveAny(p)
    PROVE  View'
<1>1. ASSUME NEW u \in Users, NEW f \in Users, NEW s \in Spaces, NEW t \in Slots,
             ReceiveCreate(p, u, f, s, t)
      PROVE  View'
  <2>1. /\ req'[p].pc = "limits"
        /\ \A q \in Procs \ {p} : req'[q] = req[q]
    BY <1>1 DEF ReceiveCreate, Receive, TypeOK
  <2>2. RequestView(p)'
    BY <1>1, <2>1 DEF RequestView, At, ReceiveCreate
  <2> QED
    BY <1>1, <2>1, <2>2, ReadView DEF ReceiveCreate
<1>2. ASSUME NEW u \in Users, NEW f \in Users, NEW b \in Ids, NEW s \in Spaces, NEW t \in Slots,
             ReceiveUpdate(p, u, f, b, s, t)
      PROVE  View'
  <2>1. /\ req'[p].pc = "limits"
        /\ \A q \in Procs \ {p} : req'[q] = req[q]
    BY <1>2 DEF ReceiveUpdate, Receive, TypeOK
  <2>2. RequestView(p)'
    BY <1>2, <2>1 DEF RequestView, At, ReceiveUpdate
  <2> QED
    BY <1>2, <2>1, <2>2, ReadView DEF ReceiveUpdate
<1>3. ASSUME NEW u \in Users, NEW b \in Ids, NEW pc \in {"approve", "decline"},
             ReceiveApproval(p, u, b, pc)
      PROVE  View'
  <2>1. /\ req'[p].pc = pc /\ req'[p].id = b /\ req'[p].row = bookings[b]
        /\ \A q \in Procs \ {p} : req'[q] = req[q]
    BY <1>3 DEF ReceiveApproval, Receive, TypeOK
  <2>2. RequestView(p)'
    BY <1>3, <2>1 DEF RequestView, At, ReceiveApproval
  <2> QED
    BY <1>3, <2>1, <2>2, ReadView DEF ReceiveApproval
<1>4. ASSUME NEW u \in Users, NEW b \in Ids, ReceiveDelete(p, u, b)
      PROVE  View'
  <2>1. /\ req'[p].pc = "delete"
        /\ \A q \in Procs \ {p} : req'[q] = req[q]
    BY <1>4 DEF ReceiveDelete, Receive, TypeOK
  <2>2. RequestView(p)'
    BY <1>4, <2>1 DEF RequestView, At, ReceiveDelete
  <2> QED
    BY <1>4, <2>1, <2>2, ReadView DEF ReceiveDelete, GoDrop
<1> QED
  BY <1>1, <1>2, <1>3, <1>4 DEF ReceiveAny

LEMMA HandleViewStep ==
    ASSUME TypeOK, View, NEW p \in Procs, Handle(p) \/ WriteFails(p)
    PROVE  View'
<1>1. ASSUME Return(p)
      PROVE  req'[p] = Idle /\ \A q \in Procs \ {p} : req'[q] = req[q]
  BY <1>1 DEF Return, TypeOK
<1>2. ASSUME NEW pc, Goto(p, pc)
      PROVE  /\ req'[p].pc = pc /\ req'[p].row = req[p].row /\ req'[p].id = req[p].id
             /\ \A q \in Procs \ {p} : req'[q] = req[q]
  <2>1. req[p] \in Request \cup {Idle}
    BY DEF TypeOK
  <2>2. req' = [req EXCEPT ![p].pc = pc]
    BY <1>2 DEF Goto
  <2> QED
    BY <2>1, <2>2 DEF TypeOK, Request, Idle
<1>3. CASE CheckLimits(p)
  <2>1. RequestView(p)' /\ \A q \in Procs \ {p} : req'[q] = req[q]
    BY <1>1, <1>2, <1>3 DEF CheckLimits, RequestView, At, Idle
  <2> QED
    BY <1>3, <2>1, ReadView DEF CheckLimits
<1>4. CASE CheckConflicts(p)
  <2>1. CASE Return(p)
    BY <1>1, <1>4, <2>1, ReadView DEF CheckConflicts, RequestView, At, Idle
  <2>2. CASE /\ Goto(p, "write")
             /\ GetConflicts(req[p].row.space, req[p].row.slot, req[p].id) = {}
    <3>1. RequestView(p)'
      BY <1>2, <1>4, <2>2 DEF CheckConflicts, RequestView, At, GetConflicts, Rows, Exists
    <3> QED
      BY <1>2, <1>4, <2>2, <3>1, ReadView DEF CheckConflicts
  <2> QED
    BY <1>4, <2>1, <2>2 DEF CheckConflicts
<1>5. CASE Insert(p)
  <2> DEFINE row == [req[p].row EXCEPT !.approved = req[p].row.space \notin ApprovalSpaces]
  <2>1. PICK b \in Ids : /\ bookings' = [bookings EXCEPT ![b] = row]
                         /\ Go("put", b, row) \/ UNCHANGED task
                         /\ Return(p) /\ Writes({b})
    BY <1>5 DEF Insert
  <2>2. /\ \A c \in Ids \ {b} : bookings'[c] = bookings[c]
        /\ bookings'[b] = row
    BY <2>1 DEF TypeOK
  <2> HIDE DEF row
  <2> QED
    BY <2>1, <2>2, WriteView
<1>6. ASSUME NEW b \in Ids, NEW row, UpdateRow(b, row)
      PROVE  /\ \A c \in Ids \ {b} : bookings'[c] = bookings[c]
             /\ bookings'[b] \in {Null, row}
  BY <1>6 DEF UpdateRow, Exists, TypeOK
<1>7. CASE WriteUpdate(p)
  <2>1. req[p].id \in Ids
    BY <1>7, InFlight DEF WriteUpdate, At, TypeOK
  <2> QED
    BY <1>6, <1>7, <2>1, WriteView DEF WriteUpdate
<1>8. CASE Approve(p)
  <2> DEFINE row == [req[p].row EXCEPT !.approved = TRUE]
  <2>1. req[p].id \in Ids
    BY <1>8, InFlight DEF Approve, At, TypeOK
  <2>2. UpdateRow(req[p].id, row) /\ Go("put", req[p].id, row) /\ Return(p) /\ Writes({req[p].id})
    BY <1>8 DEF Approve
  <2> HIDE DEF row
  <2> QED
    BY <1>6, <2>1, <2>2, WriteView
<1>9. CASE Decline(p) \/ Delete(p)
  <2>1. req[p].id \in Ids
    BY <1>9, InFlight DEF Decline, Delete, At, TypeOK
  <2>2. \A c \in Ids \ {req[p].id} : bookings'[c] = bookings[c]
    BY <1>9 DEF Decline, Delete, TypeOK
  <2>3. Go("drop", req[p].id, req[p].row) \/ UNCHANGED task
    BY <1>9 DEF Decline, Delete, GoDrop
  <2> QED
    BY <1>9, <2>1, <2>2, <2>3, WriteView DEF Decline, Delete
<1>10. CASE WriteFails(p)
  <2>1. RequestView(p)'
    BY <1>1, <1>10 DEF WriteFails, RequestView, At, Idle
  <2> QED
    BY <1>1, <1>10, <2>1, ReadView DEF WriteFails
<1> QED
  BY <1>3, <1>4, <1>5, <1>7, <1>8, <1>9, <1>10 DEF Handle

LEMMA GoroutineViewStep ==
    ASSUME TypeOK, View, NEW w \in Workers, Goroutine(w)
    PROVE  View'
<1>1. PICK S \in SUBSET Ids :
        /\ Writes(S) /\ \A b \in Ids \ S : bookings'[b] = bookings[b]
  <2>1. CASE StoreEventId(w)
    <3>1. task[w].id \in Ids
      BY <2>1 DEF StoreEventId, TypeOK, Task, NoTask
    <3> QED
      BY <2>1, <3>1 DEF StoreEventId, UpdateRow, TypeOK
  <2> QED
    BY <2>1 DEF Goroutine, PutEvent, CalDavFails, DropEvent
<1>2. UNCHANGED req
  BY DEF Goroutine, PutEvent, CalDavFails, StoreEventId, DropEvent
<1>3. ASSUME NEW q \in Procs PROVE RequestView(q)'
  BY <1>1, <1>2, RequestViewKept DEF View
<1>4. ASSUME NEW v \in Workers PROVE GoroutineView(v)'
  <2>1. task[w] \in Task \cup {NoTask}
    BY DEF TypeOK
  <2>2. \/ task'[v].pc \notin {"put", "store"}
        \/ /\ task[v].pc \in {"put", "store"}
           /\ task'[v].id = task[v].id /\ task'[v].row = task[v].row
    BY <2>1 DEF Goroutine, PutEvent, CalDavFails, StoreEventId, DropEvent, TypeOK, NoTask, Task
  <2> QED
    BY <1>1, <2>2, GoroutineViewKept DEF View
<1> QED
  BY <1>3, <1>4 DEF View

LEMMA ViewStep == TypeOK /\ View /\ [Next]_vars => View'
<1> SUFFICES ASSUME TypeOK, View, [Next]_vars PROVE View'
  OBVIOUS
<1>1. CASE UNCHANGED vars
  BY <1>1 DEF vars, View, RequestView, GoroutineView, At, Rows, Exists
<1>2. ASSUME NEW p \in Procs, ReceiveAny(p) PROVE View'
  BY <1>2, ReceiveViewStep
<1>3. ASSUME NEW p \in Procs, Handle(p) \/ WriteFails(p) PROVE View'
  BY <1>3, HandleViewStep
<1>4. ASSUME NEW w \in Workers, Goroutine(w) PROVE View'
  BY <1>4, GoroutineViewStep
<1>5. CASE PurgeOldBookings \/ Tick
  <2>1. PICK S \in SUBSET Ids :
          Writes(S) /\ \A b \in Ids \ S : bookings'[b] = bookings[b]
    BY <1>5 DEF PurgeOldBookings, Tick, Rows
  <2>2. UNCHANGED <<req, task>>
    BY <1>5 DEF PurgeOldBookings, Tick
  <2>3. ASSUME NEW q \in Procs PROVE RequestView(q)'
    BY <2>1, <2>2, RequestViewKept DEF View
  <2>4. ASSUME NEW w \in Workers PROVE GoroutineView(w)'
    BY <2>1, <2>2, GoroutineViewKept DEF View
  <2> QED
    BY <2>3, <2>4 DEF View
<1>6. CASE Restart
  BY <1>6 DEF Restart, View, RequestView, GoroutineView, At, Idle, NoTask
<1> QED
  BY <1>1, <1>2, <1>3, <1>4, <1>5, <1>6 DEF Next

LEMMA ViewInvariant == Spec => [](TypeOK /\ View)
<1>1. Init => View
  BY DEF Init, View, RequestView, GoroutineView, At, Idle, NoTask
<1> QED
  BY <1>1, TypeCorrect, ViewStep, PTL DEF Spec

-----------------------------------------------------------------------------
(* A deleted booking stays deleted.                                        *)

\* An id given out before the step has a row after it only if it had one.
LEMMA NoResurrection ==
    ASSUME TypeOK, [Next]_vars, NEW b \in used, bookings[b] = Null
    PROVE  bookings'[b] = Null
<1>1. b \in Ids
  BY DEF TypeOK
<1>2. ASSUME NEW c \in Ids, NEW row, UpdateRow(c, row) PROVE bookings'[b] = Null
  BY <1>1, <1>2 DEF UpdateRow, Exists, TypeOK
<1>3. CASE UNCHANGED bookings
  BY <1>3
<1>4. ASSUME NEW p \in Procs, ReceiveAny(p) PROVE UNCHANGED bookings
  BY <1>4 DEF ReceiveAny, ReceiveCreate, ReceiveUpdate, ReceiveApproval, ReceiveDelete
<1>5. ASSUME NEW p \in Procs, Handle(p) \/ WriteFails(p) PROVE bookings'[b] = Null
  <2>1. CASE CheckLimits(p) \/ CheckConflicts(p) \/ WriteFails(p)
    BY <1>3, <2>1 DEF CheckLimits, CheckConflicts, WriteFails
  <2>2. CASE Insert(p)
    BY <1>1, <2>2 DEF Insert, TypeOK
  <2>3. CASE WriteUpdate(p) \/ Approve(p)
    <3>1. req[p].id \in Ids
      BY <2>3, InFlight DEF WriteUpdate, Approve, At, TypeOK
    <3> QED
      BY <1>2, <2>3, <3>1 DEF WriteUpdate, Approve
  <2>4. CASE Decline(p) \/ Delete(p)
    BY <1>1, <2>4 DEF Decline, Delete, TypeOK
  <2> QED
    BY <1>5, <2>1, <2>2, <2>3, <2>4 DEF Handle
<1>6. ASSUME NEW w \in Workers, Goroutine(w) PROVE bookings'[b] = Null
  <2>1. CASE StoreEventId(w)
    <3>1. task[w].id \in Ids
      BY <2>1 DEF StoreEventId, TypeOK, Task, NoTask
    <3> QED
      BY <1>2, <2>1, <3>1 DEF StoreEventId
  <2> QED
    BY <1>3, <1>6, <2>1 DEF Goroutine, PutEvent, CalDavFails, DropEvent
<1>7. CASE PurgeOldBookings
  BY <1>1, <1>7 DEF PurgeOldBookings, TypeOK
<1> QED
  BY <1>3, <1>4, <1>5, <1>6, <1>7 DEF Next, Tick, Restart, vars

\* No stale full-row UPDATE, of whatever request or goroutine, brings back a
\* booking that was deleted, declined or purged.
THEOREM DeletedStays == Spec => DeletedStaysDeleted
<1>1. TypeOK /\ [Next]_vars =>
        [\A b \in used : ~Exists(b) => bookings'[b] = Null]_vars
  BY NoResurrection DEF Exists
<1> QED
  BY <1>1, TypeCorrect, PTL DEF Spec, DeletedStaysDeleted

-----------------------------------------------------------------------------
(* Double bookings.                                                        *)

LEMMA OverlapsSymmetric ==
    ASSUME NEW s \in Slots, NEW t \in Slots
    PROVE  Overlaps(s, t) <=> Overlaps(t, s)
BY BookingConstants DEF BookingConstants, Interval, Overlaps

\* A step that writes one row d makes two bookings clash only if d is one of them
\* and its new slot clashes with the other.
LEMMA ClashOfWritten ==
    ASSUME TypeOK, TypeOK', NEW d \in Ids,
           \A c \in Ids \ {d} : bookings'[c] = bookings[c],
           NEW b \in Ids, NEW c \in Ids, Clash(b, c)', ~Clash(b, c)
    PROVE  /\ bookings'[d] # Null
           /\ \E e \in {b, c} \ {d} :
                /\ Exists(e) /\ {b, c} = {d, e}
                /\ bookings[e].space = bookings'[d].space
                /\ Overlaps(bookings'[d].slot, bookings[e].slot)
<1>1. b # c /\ bookings'[b] \in Row /\ bookings'[c] \in Row
  BY DEF Clash, Exists, TypeOK
<1>2. bookings'[b].slot \in Slots /\ bookings'[c].slot \in Slots
  BY <1>1 DEF Row
<1>3. b = d \/ c = d
  BY DEF Clash, Exists
<1>4. Overlaps(bookings'[b].slot, bookings'[c].slot) /\ Overlaps(bookings'[c].slot, bookings'[b].slot)
  BY <1>2, OverlapsSymmetric DEF Clash
<1>5. bookings'[b].space = bookings'[c].space /\ bookings'[b] # Null /\ bookings'[c] # Null
  BY DEF Clash, Exists
<1>6. CASE b = d
  BY <1>1, <1>4, <1>5, <1>6 DEF Exists
<1>7. CASE c = d
  BY <1>1, <1>4, <1>5, <1>7 DEF Exists
<1> QED
  BY <1>3, <1>6, <1>7

\* A write that leaves the row in its space and slot makes no new clash.
LEMMA ClashNeedsMove ==
    ASSUME TypeOK, TypeOK', NEW d \in Ids,
           \A c \in Ids \ {d} : bookings'[c] = bookings[c],
           bookings[d] # Null, bookings'[d].space = bookings[d].space,
           bookings'[d].slot = bookings[d].slot,
           NEW b \in Ids, NEW c \in Ids, Clash(b, c)'
    PROVE  Clash(b, c)
<1> SUFFICES ASSUME ~Clash(b, c) PROVE FALSE
  OBVIOUS
<1>1. PICK e \in {b, c} \ {d} :
        /\ Exists(e) /\ {b, c} = {d, e}
        /\ bookings[e].space = bookings'[d].space
        /\ Overlaps(bookings'[d].slot, bookings[e].slot)
  BY ClashOfWritten
<1>2. bookings[d].slot \in Slots /\ bookings[e].slot \in Slots
  BY <1>1 DEF TypeOK, Exists, Row
<1>3. Clash(d, e) /\ Clash(e, d)
  BY <1>1, <1>2, OverlapsSymmetric DEF Clash, Exists
<1> QED
  BY <1>1, <1>3

\* The actor that writes at a step, from a view that is out of date.
StaleWriter(b, c) == \E a \in Actors : Holding(a) /\ ~Holding(a)' /\ dirty[a] \cap {b, c} # {}

LEMMA ClashStep ==
    ASSUME TypeOK, TypeOK', View, Next, NEW b \in Ids, NEW c \in Ids,
           Clash(b, c)', ~Clash(b, c)
    PROVE  StaleWriter(b, c)
<1>1. CASE \A d \in Ids : bookings'[d] \in {bookings[d], Null}
  BY <1>1 DEF Clash, Exists
<1>2. ASSUME NEW d \in Ids, NEW row, UpdateRow(d, row)
      PROVE  /\ \A e \in Ids \ {d} : bookings'[e] = bookings[e]
             /\ bookings[d] # Null => bookings'[d] = row
             /\ bookings[d] = Null => bookings'[d] = Null
  BY <1>2 DEF UpdateRow, Exists, TypeOK
<1>3. ASSUME NEW p \in Procs, Return(p), req[p].pc \in {"write", "approve"},
             dirty[p] \cap {b, c} # {}
      PROVE  StaleWriter(b, c)
  <2>1. Holding(p) /\ p \in Actors
    BY <1>3 DEF Holding, Actors
  <2>2. ~Holding(p)'
    BY <1>3, BookingConstants DEF Holding, Return, Idle, TypeOK, BookingConstants
  <2> QED
    BY <1>3, <2>1, <2>2 DEF StaleWriter
<1>4. ASSUME NEW p \in Procs, Insert(p) PROVE StaleWriter(b, c)
  <2> DEFINE row == [req[p].row EXCEPT !.approved = req[p].row.space \notin ApprovalSpaces]
  <2>1. PICK d \in Ids \ used : bookings' = [bookings EXCEPT ![d] = row]
    BY <1>4 DEF Insert
  <2>2. At(p, "write") /\ req[p].id = Null /\ Return(p) /\ req[p].row \in Row
    BY <1>4, InFlight DEF Insert, At
  <2>3. row.space = req[p].row.space /\ row.slot = req[p].row.slot
    BY <2>2 DEF Row
  <2> HIDE DEF row
  <2>4. bookings'[d] = row /\ \A e \in Ids \ {d} : bookings'[e] = bookings[e]
    BY <2>1 DEF TypeOK
  <2>5. PICK e \in {b, c} \ {d} :
          /\ Exists(e)
          /\ bookings[e].space = row.space /\ Overlaps(row.slot, bookings[e].slot)
    BY <2>4, ClashOfWritten
  <2>6. e \in Rows /\ e # Null
    BY <2>5, BookingConstants DEF Rows, BookingConstants
  <2>7. e \in dirty[p]
    BY <2>2, <2>3, <2>5, <2>6 DEF View, RequestView
  <2> QED
    BY <1>3, <2>2, <2>5, <2>7 DEF At
<1>5. ASSUME NEW p \in Procs, WriteUpdate(p) PROVE StaleWriter(b, c)
  <2>1. At(p, "write") /\ req[p].id \in Ids /\ Return(p) /\ UpdateRow(req[p].id, req[p].row)
    BY <1>5, InFlight DEF WriteUpdate, At, TypeOK
  <2>2. CASE bookings[req[p].id] = Null
    BY <1>1, <1>2, <2>1, <2>2
  <2>3. CASE bookings[req[p].id] # Null
    <3>1. PICK e \in {b, c} \ {req[p].id} :
            /\ Exists(e)
            /\ bookings[e].space = req[p].row.space
            /\ Overlaps(req[p].row.slot, bookings[e].slot)
      BY <1>2, <2>1, <2>3, ClashOfWritten
    <3>2. e \in dirty[p]
      BY <2>1, <3>1 DEF View, RequestView, Rows
    <3> QED
      BY <1>3, <2>1, <3>1, <3>2 DEF At
  <2> QED
    BY <2>2, <2>3
<1>6. ASSUME NEW p \in Procs, Approve(p) PROVE StaleWriter(b, c)
  <2> DEFINE row == [req[p].row EXCEPT !.approved = TRUE]
  <2>1. At(p, "approve") /\ req[p].id \in Ids /\ Return(p) /\ req[p].row \in Row
    BY <1>6, InFlight DEF Approve, At, TypeOK
  <2>2. UpdateRow(req[p].id, row)
    BY <1>6 DEF Approve
  <2>3. row.space = req[p].row.space /\ row.slot = req[p].row.slot
    BY <2>1 DEF Row
  <2> HIDE DEF row
  <2>4. CASE bookings[req[p].id] = Null
    BY <1>1, <1>2, <2>1, <2>2, <2>4
  <2>5. CASE bookings[req[p].id] # Null
    <3>1. req[p].id \in {b, c}
      BY <1>2, <2>1, <2>2, ClashOfWritten
    <3>2. bookings[req[p].id] # req[p].row
      BY <1>2, <2>1, <2>2, <2>3, <2>5, ClashNeedsMove
    <3>3. req[p].id \in dirty[p]
      BY <2>1, <3>2 DEF View, RequestView
    <3> QED
      BY <1>3, <2>1, <3>1, <3>3 DEF At
  <2> QED
    BY <2>4, <2>5
<1>7. ASSUME NEW w \in Workers, StoreEventId(w) PROVE StaleWriter(b, c)
  <2> DEFINE row == [task[w].row EXCEPT !.caldav = TRUE]
  <2>1. /\ task[w].pc = "store" /\ task[w].id \in Ids /\ task[w].row \in Row
        /\ UpdateRow(task[w].id, row)
    BY <1>7 DEF StoreEventId, TypeOK, Task, NoTask
  <2>2. row.space = task[w].row.space /\ row.slot = task[w].row.slot
    BY <2>1 DEF Row
  <2> HIDE DEF row
  <2>3. CASE bookings[task[w].id] = Null
    BY <1>1, <1>2, <2>1, <2>3
  <2>4. CASE bookings[task[w].id] # Null
    <3> DEFINE d == task[w].id
    <3>1. \A e \in Ids \ {d} : bookings'[e] = bookings[e]
      BY <1>2, <2>1
    <3>2. d \in {b, c}
      BY <2>1, <3>1, ClashOfWritten
    <3>3. bookings[task[w].id] # task[w].row
      BY <1>2, <2>1, <2>2, <2>4, ClashNeedsMove
    <3>4. task[w].id \in dirty[w]
      BY <2>1, <2>4, <3>3 DEF View, GoroutineView
    <3>5. Holding(w) /\ w \in Actors
      BY <2>1 DEF Holding, Actors
    <3>6. ~Holding(w)'
      BY <1>7, BookingConstants DEF StoreEventId, Holding, NoTask, TypeOK, BookingConstants
    <3> QED
      BY <3>2, <3>4, <3>5, <3>6 DEF StaleWriter
  <2> QED
    BY <2>3, <2>4
<1>8. ASSUME NEW p \in Procs,
             ReceiveAny(p) \/ CheckLimits(p) \/ CheckConflicts(p) \/ Decline(p) \/ Delete(p) \/ WriteFails(p)
      PROVE  \A d \in Ids : bookings'[d] \in {bookings[d], Null}
  <2>1. CASE Decline(p) \/ Delete(p)
    BY <2>1 DEF Decline, Delete, TypeOK
  <2>2. UNCHANGED bookings \/ Decline(p) \/ Delete(p)
    BY <1>8 DEF ReceiveAny, ReceiveCreate, ReceiveUpdate, ReceiveApproval, ReceiveDelete,
                CheckLimits, CheckConflicts, WriteFails
  <2> QED
    BY <2>1, <2>2
<1>9. ASSUME NEW w \in Workers, PutEvent(w) \/ CalDavFails(w) \/ DropEvent(w)
      PROVE  \A d \in Ids : bookings'[d] \in {bookings[d], Null}
  BY <1>9 DEF PutEvent, CalDavFails, DropEvent
<1>10. CASE PurgeOldBookings \/ Tick \/ Restart
  BY <1>1, <1>10 DEF PurgeOldBookings, Tick, Restart
<1> QED
  BY <1>1, <1>4, <1>5, <1>6, <1>7, <1>8, <1>9, <1>10 DEF Next, Handle, Goroutine

\* The checks of create and update, and the full-row writes of approve and of the
\* CalDAV goroutines, make two bookings clash only from a view out of date,
\* whatever the number of requests, goroutines, spaces and users.
THEOREM ClashNeedsStaleView == Spec => ClashOnlyFromStaleView
<1> DEFINE OnlyStale == \A b, c \in Ids : Clash(b, c)' /\ ~Clash(b, c) => StaleWriter(b, c)
<1>1. TypeOK /\ View /\ TypeOK' /\ [Next]_vars => [OnlyStale]_vars
  BY ClashStep
<1>2. Spec => [][OnlyStale]_vars
  BY <1>1, ViewInvariant, PTL DEF Spec
<1> QED
  BY <1>2 DEF ClashOnlyFromStaleView, StaleWriter
-----------------------------------------------------------------------------
(* Requests one at a time, and no CalDAV: the checks suffice.              *)

\* The one request has missed no write but those of the purge, and a purged
\* booking is gone for good.
Undisturbed(p) == dirty[p] \cap Rows = {}

\* With nobody's calendar configured there is no goroutine.
LEMMA NoGoroutine ==
    ASSUME CalDavUsers = {}, TypeOK, NEW w \in Workers
    PROVE  task[w] = NoTask
BY DEF TypeOK, Task

LEMMA UndisturbedStep ==
    ASSUME NEW p, Procs = {p}, CalDavUsers = {}, TypeOK, Undisturbed(p), [Next]_vars
    PROVE  Undisturbed(p)'
<1> p \in Actors /\ p \notin Workers
  BY BookingConstants DEF BookingConstants, Actors
<1>1. ASSUME NEW S, Writes(S) PROVE dirty'[p] \subseteq dirty[p] \cup S
  BY <1>1 DEF Writes
<1>2. ASSUME NEW S, Writes(S), ~Holding(p)' PROVE dirty'[p] = {}
  BY <1>2 DEF Writes
<1>3. CASE UNCHANGED bookings /\ Writes({})
  BY <1>1, <1>3 DEF Undisturbed, Rows, Exists
<1>4. ASSUME NEW S, Writes(S), Return(p) PROVE Undisturbed(p)'
  <2>1. p \in DOMAIN req
    BY DEF TypeOK
  <2>2. ~Holding(p)'
    BY <1>4, <2>1 DEF Holding, Return, Idle
  <2> QED
    BY <1>2, <1>4, <2>2 DEF Undisturbed
<1>5. CASE ReceiveAny(p) \/ WriteFails(p) \/ CheckLimits(p) \/ CheckConflicts(p) \/ Tick \/ Restart
  BY <1>3, <1>5 DEF ReceiveAny, ReceiveCreate, ReceiveUpdate, ReceiveApproval, ReceiveDelete,
                    WriteFails, CheckLimits, CheckConflicts, Tick, Restart
<1>6. CASE Insert(p) \/ WriteUpdate(p) \/ Approve(p) \/ Decline(p) \/ Delete(p)
  BY <1>4, <1>6 DEF Insert, WriteUpdate, Approve, Decline, Delete
<1>7. ASSUME NEW w \in Workers PROVE ~Goroutine(w)
  BY NoGoroutine DEF Goroutine, PutEvent, CalDavFails, StoreEventId, DropEvent, NoTask
<1>8. CASE PurgeOldBookings
  <2>1. PICK S : /\ bookings' = [b \in Ids |-> IF b \in S THEN Null ELSE bookings[b]]
                 /\ Writes(S)
    BY <1>8 DEF PurgeOldBookings
  <2> QED
    BY <1>1, <2>1 DEF Undisturbed, Rows, Exists
<1>9. CASE UNCHANGED vars
  BY <1>9 DEF vars, Undisturbed, Rows, Exists
<1> QED
  BY <1>5, <1>6, <1>7, <1>8, <1>9 DEF Next, Handle

\* One request at a time and no calendar: whatever is created, moved, approved,
\* declined, deleted or purged, in any number of steps, no space is booked twice.
THEOREM OneAtATime ==
    ASSUME NEW p, Procs = {p}, CalDavUsers = {}
    PROVE  Spec => []NoDoubleBooking
<1> DEFINE Inv == TypeOK /\ View /\ Undisturbed(p) /\ NoDoubleBooking
<1>1. Init => Undisturbed(p) /\ NoDoubleBooking
  BY DEF Init, Undisturbed, Rows, Exists, NoDoubleBooking, Clash
<1>2. TypeOK /\ View /\ Undisturbed(p) /\ NoDoubleBooking /\ TypeOK' /\ [Next]_vars
        => Undisturbed(p)' /\ NoDoubleBooking'
  <2> SUFFICES ASSUME TypeOK, View, Undisturbed(p), NoDoubleBooking, TypeOK', [Next]_vars
               PROVE  NoDoubleBooking'
    BY UndisturbedStep
  <2> SUFFICES ASSUME NEW b \in Ids, NEW c \in Ids, Clash(b, c)'
               PROVE  FALSE
    BY DEF NoDoubleBooking
  <2>1. ~Clash(b, c)
    BY DEF NoDoubleBooking
  <2>2. CASE UNCHANGED vars
    BY <2>1, <2>2 DEF vars, Clash, Exists
  <2>3. CASE Next
    <3>1. PICK a \in Actors : Holding(a) /\ dirty[a] \cap {b, c} # {}
      BY <2>1, <2>3, ClashStep DEF StaleWriter
    <3>2. a = p
      BY <3>1, NoGoroutine, BookingConstants
      DEF Actors, Holding, NoTask, BookingConstants
    <3>3. PICK e \in {b, c} : e \in used /\ ~Exists(e)
      BY <3>1, <3>2 DEF Undisturbed, Rows, TypeOK
    <3>4. bookings'[e] = Null
      BY <3>3, NoResurrection DEF Exists
    <3> QED
      BY <3>3, <3>4 DEF Clash, Exists
  <2> QED
    BY <2>2, <2>3
<1> QED
  BY <1>1, <1>2, ViewInvariant, PTL DEF Spec

-----------------------------------------------------------------------------
(* Every approval goes back to a grant.                                    *)

Granted(b, g) == \E s \in Spaces : <<b, s>> \in g

\* Every copy of a row that may be written back as approved is of a booking that
\* was granted; those an approver is about to write bring their grant with them.
CopiesGranted ==
    /\ \A p \in Procs :
          /\ req[p].pc \in {"limits", "conflicts", "write"} /\ req[p].id # Null
          /\ req[p].row.approved
          => Granted(req[p].id, granted)
    /\ \A w \in Workers :
          task[w].pc \in {"put", "store"} /\ task[w].row.approved => Granted(task[w].id, granted)

Approvals == ApprovedOnlyIfGranted /\ CopiesGranted

LEMMA GrantsKept ==
    ASSUME TypeOK, [Next]_vars
    PROVE  granted \subseteq granted'
<1>1. ASSUME NEW p \in Procs, ReceiveAny(p) PROVE granted' = granted
  BY <1>1 DEF ReceiveAny, ReceiveCreate, ReceiveUpdate, ReceiveApproval, ReceiveDelete
<1>2. ASSUME NEW p \in Procs, Handle(p) \/ WriteFails(p) PROVE granted \subseteq granted'
  <2>1. CASE Insert(p) \/ Approve(p)
    BY <2>1 DEF Insert, Approve
  <2>2. CASE WriteUpdate(p) \/ Decline(p) \/ Delete(p) \/ WriteFails(p) \/ CheckLimits(p) \/ CheckConflicts(p)
    BY <2>2 DEF WriteUpdate, Decline, Delete, WriteFails, CheckLimits, CheckConflicts
  <2> QED
    BY <1>2, <2>1, <2>2 DEF Handle
<1>3. ASSUME NEW w \in Workers, Goroutine(w) PROVE granted' = granted
  BY <1>3 DEF Goroutine, PutEvent, CalDavFails, StoreEventId, DropEvent
<1>4. CASE PurgeOldBookings \/ Tick \/ Restart \/ UNCHANGED vars
  BY <1>4 DEF PurgeOldBookings, Tick, Restart, vars
<1> QED
  BY <1>1, <1>2, <1>3, <1>4 DEF Next

\* What a step leaves of the table, of the requests and of the goroutines is
\* granted, if what it adds is.
LEMMA GrantsFrame ==
    ASSUME Approvals, granted \subseteq granted',
           \A b \in Ids : \/ bookings'[b] \in {Null, bookings[b]}
                          \/ bookings'[b].approved => Granted(b, granted'),
           \A p \in Procs : \/ req'[p].pc \notin {"limits", "conflicts", "write"}
                            \/ /\ req[p].pc \in {"limits", "conflicts", "write"}
                               /\ req'[p].id = req[p].id /\ req'[p].row = req[p].row
                            \/ req'[p].id = Null
                            \/ req'[p].row.approved => Granted(req'[p].id, granted'),
           \A w \in Workers : \/ task'[w].pc \notin {"put", "store"}
                              \/ /\ task[w].pc \in {"put", "store"}
                                 /\ task'[w].id = task[w].id /\ task'[w].row = task[w].row
                              \/ task'[w].row.approved => Granted(task'[w].id, granted')
    PROVE  Approvals'
<1>1. \A b : Granted(b, granted) => Granted(b, granted')
  BY DEF Granted
<1>2. ApprovedOnlyIfGranted'
  <2> SUFFICES ASSUME NEW b \in Ids, bookings'[b] # Null, bookings'[b].approved
               PROVE  Granted(b, granted')
    BY DEF ApprovedOnlyIfGranted, Granted, Rows, Exists
  <2>1. CASE bookings'[b] = bookings[b]
    <3>1. Granted(b, granted)
      BY <2>1 DEF Approvals, ApprovedOnlyIfGranted, Granted, Rows, Exists
    <3> QED
      BY <1>1, <3>1
  <2>2. CASE bookings'[b].approved => Granted(b, granted')
    BY <2>2
  <2> QED
    BY <2>1, <2>2
<1>3. ASSUME NEW p \in Procs, req'[p].pc \in {"limits", "conflicts", "write"},
             req'[p].id # Null, req'[p].row.approved
      PROVE  Granted(req'[p].id, granted')
  <2>1. CASE /\ req[p].pc \in {"limits", "conflicts", "write"}
             /\ req'[p].id = req[p].id /\ req'[p].row = req[p].row
    BY <1>1, <1>3, <2>1 DEF Approvals, CopiesGranted
  <2>2. CASE req'[p].row.approved => Granted(req'[p].id, granted')
    BY <1>3, <2>2
  <2> QED
    BY <1>3, <2>1, <2>2
<1>4. ASSUME NEW w \in Workers, task'[w].pc \in {"put", "store"}, task'[w].row.approved
      PROVE  Granted(task'[w].id, granted')
  <2>1. CASE /\ task[w].pc \in {"put", "store"}
             /\ task'[w].id = task[w].id /\ task'[w].row = task[w].row
    BY <1>1, <1>4, <2>1 DEF Approvals, CopiesGranted
  <2>2. CASE task'[w].row.approved => Granted(task'[w].id, granted')
    BY <1>4, <2>2
  <2> QED
    BY <1>4, <2>1, <2>2
<1>5. CopiesGranted'
  BY <1>3, <1>4 DEF CopiesGranted
<1> QED
  BY <1>2, <1>5 DEF Approvals

\* A step that ends request p, having written b and started a goroutine for it.
LEMMA RequestGrants ==
    ASSUME TypeOK, Approvals, granted \subseteq granted', NEW p \in Procs, Return(p),
           NEW b \in Ids, NEW row, NEW pc,
           \A c \in Ids \ {b} : bookings'[c] = bookings[c],
           bookings'[b] \in {Null, row},
           Go(pc, b, row) \/ UNCHANGED task,
           row.approved => Granted(b, granted')
    PROVE  Approvals'
<1>1. ASSUME NEW c \in Ids
      PROVE  \/ bookings'[c] \in {Null, bookings[c]}
             \/ bookings'[c].approved => Granted(c, granted')
  <2>1. CASE c # b
    BY <2>1
  <2>2. CASE c = b
    <3>1. CASE bookings'[b] = Null
      BY <2>2, <3>1
    <3>2. CASE bookings'[b] = row
      BY <2>2, <3>2
    <3> QED
      BY <3>1, <3>2
  <2> QED
    BY <2>1, <2>2
<1>2. ASSUME NEW q \in Procs
      PROVE  \/ req'[q].pc \notin {"limits", "conflicts", "write"}
             \/ /\ req[q].pc \in {"limits", "conflicts", "write"}
                /\ req'[q].id = req[q].id /\ req'[q].row = req[q].row
  BY DEF Return, Idle, TypeOK
<1>3. ASSUME NEW w \in Workers
      PROVE  \/ task'[w].pc \notin {"put", "store"}
             \/ /\ task[w].pc \in {"put", "store"}
                /\ task'[w].id = task[w].id /\ task'[w].row = task[w].row
             \/ task'[w].row.approved => Granted(task'[w].id, granted')
  <2>1. CASE task'[w] = task[w]
    BY <2>1
  <2>2. CASE task'[w] = [pc |-> pc, id |-> b, row |-> row]
    <3>1. task'[w].id = b /\ task'[w].row = row
      BY <2>2
    <3> QED
      BY <3>1
  <2> QED
    BY <2>1, <2>2, GoFrame
<1> QED
  BY <1>1, <1>2, <1>3, GrantsFrame


\* A step of request p that leaves the table alone and starts no goroutine that
\* would write.
LEMMA ReadGrants ==
    ASSUME TypeOK, Approvals, granted \subseteq granted', UNCHANGED bookings,
           NEW p \in Procs, \A q \in Procs \ {p} : req'[q] = req[q],
           \/ req'[p].pc \notin {"limits", "conflicts", "write"}
           \/ /\ req[p].pc \in {"limits", "conflicts", "write"}
              /\ req'[p].id = req[p].id /\ req'[p].row = req[p].row
           \/ req'[p].id = Null
           \/ req'[p].row.approved => Granted(req'[p].id, granted'),
           NEW b, NEW row, Go("drop", b, row) \/ UNCHANGED task
    PROVE  Approvals'
<1>1. ASSUME NEW w \in Workers
      PROVE  \/ task'[w].pc \notin {"put", "store"}
             \/ /\ task[w].pc \in {"put", "store"}
                /\ task'[w].id = task[w].id /\ task'[w].row = task[w].row
  <2>1. task'[w] = task[w] \/ task'[w] = [pc |-> "drop", id |-> b, row |-> row]
    BY GoFrame
  <2> QED
    BY <2>1
<1>2. ASSUME NEW q \in Procs
      PROVE  \/ req'[q].pc \notin {"limits", "conflicts", "write"}
             \/ /\ req[q].pc \in {"limits", "conflicts", "write"}
                /\ req'[q].id = req[q].id /\ req'[q].row = req[q].row
             \/ req'[q].id = Null
             \/ req'[q].row.approved => Granted(req'[q].id, granted')
  <2>1. CASE q = p
    BY <2>1
  <2>2. CASE q # p
    BY <2>2
  <2> QED
    BY <2>1, <2>2
<1> QED
  BY <1>1, <1>2, GrantsFrame

LEMMA ApprovalStep ==
    ASSUME TypeOK, Approvals, [Next]_vars
    PROVE  Approvals'
<1>1. granted \subseteq granted'
  BY GrantsKept
<1>2. ASSUME NEW p \in Procs, ReceiveAny(p) PROVE Approvals'
  <2>1. ASSUME NEW u \in Users, NEW f \in Users, NEW s \in Spaces, NEW t \in Slots,
               ReceiveCreate(p, u, f, s, t)
        PROVE  Approvals'
    <3>1. req'[p].id = Null /\ \A q \in Procs \ {p} : req'[q] = req[q]
      BY <2>1 DEF ReceiveCreate, Receive, TypeOK
    <3> QED
      BY <1>1, <2>1, <3>1, ReadGrants DEF ReceiveCreate
  <2>2. ASSUME NEW u \in Users, NEW f \in Users, NEW b \in Ids, NEW s \in Spaces, NEW t \in Slots,
               ReceiveUpdate(p, u, f, b, s, t)
        PROVE  Approvals'
    <3>1. bookings[b] \in Row
      BY <2>2 DEF ReceiveUpdate, Exists, TypeOK
    <3>2. /\ req'[p].id = b /\ req'[p].row = [bookings[b] EXCEPT !.user = f, !.space = s, !.slot = t]
          /\ \A q \in Procs \ {p} : req'[q] = req[q]
      BY <2>2 DEF ReceiveUpdate, Receive, TypeOK
    <3>3. req'[p].row.approved = bookings[b].approved
      BY <3>1, <3>2 DEF Row
    <3>4. bookings[b].approved => Granted(b, granted)
      BY <2>2 DEF ReceiveUpdate, Approvals, ApprovedOnlyIfGranted, Granted, Rows, Exists
    <3>5. Granted(b, granted) => Granted(b, granted')
      BY <1>1 DEF Granted
    <3>6. req'[p].row.approved => Granted(req'[p].id, granted')
      BY <3>2, <3>3, <3>4, <3>5
    <3> QED
      BY <1>1, <2>2, <3>2, <3>6, ReadGrants DEF ReceiveUpdate
  <2>3. ASSUME NEW u \in Users, NEW b \in Ids, NEW pc \in {"approve", "decline"},
               ReceiveApproval(p, u, b, pc)
        PROVE  Approvals'
    <3>1. req'[p].pc = pc /\ \A q \in Procs \ {p} : req'[q] = req[q]
      BY <2>3 DEF ReceiveApproval, Receive, TypeOK
    <3> QED
      BY <1>1, <2>3, <3>1, ReadGrants DEF ReceiveApproval
  <2>4. ASSUME NEW u \in Users, NEW b \in Ids, ReceiveDelete(p, u, b)
        PROVE  Approvals'
    <3>1. req'[p].pc = "delete" /\ \A q \in Procs \ {p} : req'[q] = req[q]
      BY <2>4 DEF ReceiveDelete, Receive, TypeOK
    <3>2. Go("drop", b, bookings[b]) \/ UNCHANGED task
      BY <2>4 DEF ReceiveDelete, GoDrop
    <3> QED
      BY <1>1, <2>4, <3>1, <3>2, ReadGrants DEF ReceiveDelete
  <2> QED
    BY <1>2, <2>1, <2>2, <2>3, <2>4 DEF ReceiveAny
<1>3. ASSUME NEW p \in Procs, CheckLimits(p) \/ CheckConflicts(p) PROVE Approvals'
  <2>1. \/ req'[p].pc = "idle"
        \/ /\ req[p].pc \in {"limits", "conflicts", "write"}
           /\ req'[p].id = req[p].id /\ req'[p].row = req[p].row
    BY <1>3, InFlight DEF CheckLimits, CheckConflicts, Goto, Return, Idle, TypeOK, At, Request
  <2>2. /\ \A q \in Procs \ {p} : req'[q] = req[q]
        /\ UNCHANGED <<bookings, task>>
    BY <1>3 DEF CheckLimits, CheckConflicts, Goto, Return, TypeOK
  <2> QED
    BY <1>1, <2>1, <2>2, ReadGrants
<1>4. ASSUME NEW p \in Procs, Insert(p) PROVE Approvals'
  <2> DEFINE row == [req[p].row EXCEPT !.approved = req[p].row.space \notin ApprovalSpaces]
  <2>1. PICK b \in Ids \ used :
          /\ bookings' = [bookings EXCEPT ![b] = row]
          /\ granted' = IF row.approved THEN granted \cup {<<b, row.space>>} ELSE granted
          /\ IF row.approved THEN Go("put", b, row) ELSE UNCHANGED task
          /\ Return(p)
    BY <1>4 DEF Insert
  <2>2. row \in Row
    BY <1>4, InFlight DEF Insert, At, Row
  <2> HIDE DEF row
  <2>3. row.approved => Granted(b, granted')
    BY <2>1, <2>2 DEF Granted, Row
  <2>4. bookings'[b] = row /\ \A c \in Ids \ {b} : bookings'[c] = bookings[c]
    BY <2>1 DEF TypeOK
  <2> QED
    BY <1>1, <2>1, <2>3, <2>4, RequestGrants
<1>5. ASSUME NEW p \in Procs, WriteUpdate(p) PROVE Approvals'
  <2>1. At(p, "write") /\ req[p].id \in Ids /\ req[p].id # Null
    BY <1>5, InFlight DEF WriteUpdate, At, TypeOK
  <2>2. req[p].row.approved => Granted(req[p].id, granted')
    BY <1>1, <2>1 DEF Approvals, CopiesGranted, Granted, At
  <2>3. /\ bookings'[req[p].id] \in {Null, req[p].row}
        /\ \A c \in Ids \ {req[p].id} : bookings'[c] = bookings[c]
    BY <1>5, <2>1 DEF WriteUpdate, UpdateRow, Exists, TypeOK
  <2> QED
    BY <1>1, <1>5, <2>1, <2>2, <2>3, RequestGrants DEF WriteUpdate
<1>6. ASSUME NEW p \in Procs, Approve(p) PROVE Approvals'
  <2> DEFINE row == [req[p].row EXCEPT !.approved = TRUE]
  <2>1. req[p].id \in Ids /\ req[p].row.space \in Spaces
    BY <1>6, InFlight DEF Approve, At, TypeOK, Row
  <2>2. UpdateRow(req[p].id, row) /\ Go("put", req[p].id, row) /\ Return(p)
    BY <1>6 DEF Approve
  <2> HIDE DEF row
  <2>3. Granted(req[p].id, granted')
    BY <1>6, <2>1 DEF Approve, Granted
  <2>4. /\ bookings'[req[p].id] \in {Null, row}
        /\ \A c \in Ids \ {req[p].id} : bookings'[c] = bookings[c]
    BY <2>1, <2>2 DEF UpdateRow, Exists, TypeOK
  <2> QED
    BY <1>1, <2>1, <2>2, <2>3, <2>4, RequestGrants
<1>7. ASSUME NEW p \in Procs, Decline(p) \/ Delete(p) \/ WriteFails(p) PROVE Approvals'
  <2>1. \A b \in Ids : bookings'[b] \in {Null, bookings[b]}
    BY <1>7 DEF Decline, Delete, WriteFails, TypeOK
  <2>2. \A q \in Procs : req'[q] = req[q] \/ req'[q].pc = "idle"
    BY <1>7 DEF Decline, Delete, WriteFails, Return, Idle, TypeOK
  <2>3. Go("drop", req[p].id, req[p].row) \/ UNCHANGED task
    BY <1>7 DEF Decline, Delete, WriteFails, GoDrop
  <2>4. ASSUME NEW w \in Workers PROVE task'[w] = task[w] \/ task'[w].pc = "drop"
    <3> DEFINE r == [pc |-> "drop", id |-> req[p].id, row |-> req[p].row]
    <3>1. task'[w] = task[w] \/ task'[w] = r
      BY <2>3, GoFrame
    <3>2. r.pc = "drop"
      OBVIOUS
    <3> QED
      BY <3>1, <3>2
  <2> QED
    BY <1>1, <2>1, <2>2, <2>4, GrantsFrame
<1>8. ASSUME NEW w \in Workers, Goroutine(w) PROVE Approvals'
  <2>1. req' = req
    BY <1>8 DEF Goroutine, PutEvent, CalDavFails, StoreEventId, DropEvent
  <2>2. \A v \in Workers : \/ task'[v].pc \notin {"put", "store"}
                           \/ /\ task[v].pc \in {"put", "store"}
                              /\ task'[v].id = task[v].id /\ task'[v].row = task[v].row
    <3>1. CASE PutEvent(w)
      BY <3>1 DEF PutEvent, TypeOK
    <3>2. CASE CalDavFails(w) \/ StoreEventId(w) \/ DropEvent(w)
      BY <3>2 DEF CalDavFails, StoreEventId, DropEvent, NoTask, TypeOK
    <3> QED
      BY <1>8, <3>1, <3>2 DEF Goroutine
  <2>3. ASSUME NEW b \in Ids
        PROVE  \/ bookings'[b] \in {Null, bookings[b]}
               \/ bookings'[b].approved => Granted(b, granted')
    <3>1. CASE PutEvent(w) \/ CalDavFails(w) \/ DropEvent(w)
      BY <3>1 DEF PutEvent, CalDavFails, DropEvent
    <3>2. CASE StoreEventId(w)
      <4> DEFINE row == [task[w].row EXCEPT !.caldav = TRUE]
      <4>1. task[w].pc = "store" /\ task[w].row \in Row /\ UpdateRow(task[w].id, row)
        BY <3>2 DEF StoreEventId, TypeOK, Task, NoTask
      <4>2. row.approved = task[w].row.approved
        BY <4>1 DEF Row
      <4> HIDE DEF row
      <4>3. task[w].row.approved => Granted(task[w].id, granted')
        BY <1>1, <4>1 DEF Approvals, CopiesGranted, Granted
      <4>4. bookings'[b] \in {Null, bookings[b]} \/ (b = task[w].id /\ bookings'[b] = row)
        BY <4>1 DEF UpdateRow, TypeOK
      <4> QED
        BY <4>2, <4>3, <4>4
    <3> QED
      BY <1>8, <3>1, <3>2 DEF Goroutine
  <2> QED
    BY <1>1, <2>1, <2>2, <2>3, GrantsFrame
<1>9. CASE PurgeOldBookings \/ Tick \/ Restart \/ UNCHANGED vars
  <2>1. \A b \in Ids : bookings'[b] \in {Null, bookings[b]}
    BY <1>9 DEF PurgeOldBookings, Tick, Restart, vars
  <2>2. \A p \in Procs : req'[p] = req[p] \/ req'[p].pc = "idle"
    BY <1>9 DEF PurgeOldBookings, Tick, Restart, vars, Idle
  <2>3. \A w \in Workers : task'[w] = task[w] \/ task'[w].pc = "idle"
    BY <1>9 DEF PurgeOldBookings, Tick, Restart, vars, NoTask
  <2> QED
    BY <1>1, <2>1, <2>2, <2>3, GrantsFrame
<1> QED
  BY <1>2, <1>3, <1>4, <1>5, <1>6, <1>7, <1>8, <1>9 DEF Next, Handle

\* However approvals, updates, deletes and the CalDAV goroutines' writes of whole
\* rows interleave, no booking is approved that needed an approver and had none.
THEOREM ApprovalsGranted == Spec => []ApprovedOnlyIfGranted
<1>1. Init => Approvals
  BY DEF Init, Approvals, ApprovedOnlyIfGranted, CopiesGranted, Rows, Exists, Idle, NoTask
<1>2. TypeOK /\ Approvals /\ [Next]_vars => Approvals'
  BY ApprovalStep
<1>3. Approvals => ApprovedOnlyIfGranted
  BY DEF Approvals
<1> QED
  BY <1>1, <1>2, <1>3, TypeCorrect, PTL DEF Spec

-----------------------------------------------------------------------------
(* The limits, for requests one at a time and without a calendar: between  *)
(* the count and the write, bookings are only purged.                      *)

OneRequest(p) == Procs = {p} /\ CalDavUsers = {}

\* The bookings at minute k, those of user u among them.
Here(k) == {b \in Rows : k \in Minutes(bookings[b].slot)}
HereOf(u, k) == {b \in Here(k) : bookings[b].user = u}

Checked(p) == req[p].pc \in {"conflicts", "write"}

\* There is room for one more at every minute of a stay whose limits were checked.
AreaView(p) ==
    Checked(p) /\ MaxPerArea > 0 =>
        \A k \in Minutes(req[p].row.slot) : Cardinality(Here(k) \ {req[p].id}) < MaxPerArea

\* The booking is for the user who asked, and was before.
OwnRow(p) ==
    req[p].pc \in {"limits", "conflicts", "write"} =>
        /\ req[p].row.user = req[p].by
        /\ req[p].id \in Rows => bookings[req[p].id].user = req[p].by

UserView(p) ==
    Checked(p) /\ MaxPerUser > 0 =>
        \A k \in Minutes(req[p].row.slot) :
            Cardinality(HereOf(req[p].row.user, k) \ {req[p].id}) < MaxPerUser

UpcomingView(p) ==
    Checked(p) /\ req[p].id = Null => Cardinality(GetAllByUser(req[p].row.user, now)) < MaxUpcoming

UsedFinite == IsFiniteSet(used)

LEMMA UsedIsFinite == Spec => []UsedFinite
<1>1. Init => UsedFinite
  BY FS_EmptySet DEF Init, UsedFinite
<1>2. UsedFinite /\ [Next]_vars => UsedFinite'
  <2> SUFFICES ASSUME UsedFinite, [Next]_vars PROVE UsedFinite'
    OBVIOUS
  <2>1. ASSUME NEW p \in Procs, Insert(p) PROVE UsedFinite'
    <3>1. PICK b \in Ids : used' = used \cup {b}
      BY <2>1 DEF Insert
    <3> QED
      BY <3>1, FS_AddElement DEF UsedFinite
  <2>2. ASSUME UNCHANGED used PROVE UsedFinite'
    BY <2>2 DEF UsedFinite
  <2>3. ASSUME NEW p \in Procs, ReceiveAny(p) PROVE UNCHANGED used
    BY <2>3 DEF ReceiveAny, ReceiveCreate, ReceiveUpdate, ReceiveApproval, ReceiveDelete
  <2>4. ASSUME NEW p \in Procs,
               CheckLimits(p) \/ CheckConflicts(p) \/ WriteUpdate(p) \/ Approve(p)
                 \/ Decline(p) \/ Delete(p) \/ WriteFails(p)
        PROVE  UNCHANGED used
    BY <2>4 DEF CheckLimits, CheckConflicts, WriteUpdate, Approve, Decline, Delete, WriteFails
  <2>5. ASSUME NEW w \in Workers, Goroutine(w) PROVE UNCHANGED used
    BY <2>5 DEF Goroutine, PutEvent, CalDavFails, StoreEventId, DropEvent
  <2>6. CASE PurgeOldBookings \/ Tick \/ Restart \/ UNCHANGED vars
    BY <2>2, <2>6 DEF PurgeOldBookings, Tick, Restart, vars
  <2> QED
    BY <2>1, <2>2, <2>3, <2>4, <2>5, <2>6 DEF Next, Handle
<1> QED
  BY <1>1, <1>2, PTL DEF Spec

LEMMA OneMore ==
    ASSUME NEW S, IsFiniteSet(S), NEW n \in Nat, Cardinality(S) < n, NEW x, NEW T \in SUBSET (S \cup {x})
    PROVE  Cardinality(T) <= n
<1>1. IsFiniteSet(S \cup {x}) /\ Cardinality(S \cup {x}) \in {Cardinality(S), Cardinality(S) + 1}
  <2>1. CASE x \in S
    <3>1. S \cup {x} = S
      BY <2>1
    <3> QED
      BY <3>1
  <2>2. CASE x \notin S
    BY <2>2, FS_AddElement
  <2> QED
    BY <2>1, <2>2
<1>2. Cardinality(S) \in Nat
  BY FS_CardinalityType
<1>3. Cardinality(S \cup {x}) <= n
  BY <1>1, <1>2
<1>4. Cardinality(T) \in Nat /\ Cardinality(T) <= Cardinality(S \cup {x})
  BY <1>1, CountedMore, FS_Subset, FS_CardinalityType
<1>5. Cardinality(S \cup {x}) \in Nat
  BY <1>1, FS_CardinalityType
<1> QED
  BY <1>3, <1>4, <1>5

\* The table after a step: nothing new, ...
Fewer == \A b \in Ids : bookings'[b] \in {bookings[b], Null}
\* ... or the row of the request, new or in the place of the old one, ...
Stores(p, d) ==
    /\ At(p, "write") /\ Return(p) /\ now' = now
    /\ req[p].id \in {d, Null}
    /\ req[p].id = Null => d \notin used
    /\ req[p].id = d => Exists(d)
    /\ bookings'[d] \in Row
    /\ bookings'[d].user = req[p].row.user /\ bookings'[d].slot = req[p].row.slot
    /\ bookings'[d].space = req[p].row.space
    /\ \A b \in Ids \ {d} : bookings'[b] = bookings[b]
\* ... or a row that has been approved.
Approves(p, d) ==
    /\ At(p, "approve") /\ Return(p) /\ now' = now
    /\ Exists(d) /\ bookings'[d] \in Row
    /\ bookings'[d].user = bookings[d].user /\ bookings'[d].slot = bookings[d].slot
    /\ bookings'[d].space = bookings[d].space
    /\ \A b \in Ids \ {d} : bookings'[b] = bookings[b]

LEMMA TableAfter ==
    ASSUME NEW p, OneRequest(p), TypeOK, View, Undisturbed(p), [Next]_vars
    PROVE  Fewer \/ \E d \in Ids : Stores(p, d) \/ Approves(p, d)
<1> p \in Procs
  BY DEF OneRequest
<1>1. CASE Insert(p)
  <2> DEFINE row == [req[p].row EXCEPT !.approved = req[p].row.space \notin ApprovalSpaces]
  <2>1. PICK d \in Ids \ used : bookings' = [bookings EXCEPT ![d] = row]
    BY <1>1 DEF Insert
  <2>2. At(p, "write") /\ req[p].id = Null /\ Return(p) /\ now' = now
    BY <1>1 DEF Insert
  <2>3. req[p].row \in Row
    BY <2>2, InFlight DEF At
  <2>4. /\ row \in Row /\ row.space = req[p].row.space
        /\ row.slot = req[p].row.slot /\ row.user = req[p].row.user
    BY <2>3 DEF Row
  <2> HIDE DEF row
  <2>5. bookings'[d] = row /\ \A b \in Ids \ {d} : bookings'[b] = bookings[b]
    BY <2>1 DEF TypeOK
  <2> QED
    BY <2>2, <2>4, <2>5, BookingConstants DEF Stores, BookingConstants
<1>2. CASE WriteUpdate(p)
  <2>1. /\ At(p, "write") /\ req[p].id # Null /\ Return(p) /\ now' = now
        /\ UpdateRow(req[p].id, req[p].row)
    BY <1>2 DEF WriteUpdate
  <2>2. req[p].id \in Ids /\ req[p].row \in Row
    BY <2>1, InFlight DEF At, TypeOK
  <2>3. CASE Exists(req[p].id)
    <3>1. /\ bookings'[req[p].id] = req[p].row
          /\ \A b \in Ids \ {req[p].id} : bookings'[b] = bookings[b]
      BY <2>1, <2>2, <2>3 DEF UpdateRow, TypeOK
    <3> QED
      BY <2>1, <2>2, <2>3, <3>1 DEF Stores
  <2>4. CASE ~Exists(req[p].id)
    BY <2>1, <2>4 DEF UpdateRow, Fewer
  <2> QED
    BY <2>3, <2>4
<1>3. CASE Approve(p)
  <2> DEFINE d == req[p].id
             row == [req[p].row EXCEPT !.approved = TRUE]
  <2>1. At(p, "approve") /\ Return(p) /\ now' = now /\ UpdateRow(d, row)
    BY <1>3 DEF Approve
  <2>2. d \in Ids /\ req[p].row \in Row
    BY <2>1, InFlight DEF At, TypeOK
  <2>3. /\ row \in Row /\ row.space = req[p].row.space
        /\ row.slot = req[p].row.slot /\ row.user = req[p].row.user
    BY <2>2 DEF Row
  <2> HIDE DEF row
  <2>4. CASE Exists(d)
    <3>1. d \notin dirty[p]
      BY <2>2, <2>4 DEF Undisturbed, Rows
    <3>2. bookings[d] = req[p].row
      BY <2>1, <3>1 DEF View, RequestView
    <3>3. bookings'[d] = row /\ \A b \in Ids \ {d} : bookings'[b] = bookings[b]
      BY <2>1, <2>2, <2>4 DEF UpdateRow, TypeOK
    <3> QED
      BY <2>1, <2>2, <2>3, <2>4, <3>2, <3>3 DEF Approves
  <2>5. CASE ~Exists(d)
    BY <2>1, <2>5 DEF UpdateRow, Fewer
  <2> QED
    BY <2>4, <2>5
<1>4. CASE ReceiveAny(p)
  BY <1>4 DEF ReceiveAny, ReceiveCreate, ReceiveUpdate, ReceiveApproval, ReceiveDelete, Fewer
<1>5. CASE CheckLimits(p) \/ CheckConflicts(p) \/ Decline(p) \/ Delete(p) \/ WriteFails(p)
  BY <1>5 DEF CheckLimits, CheckConflicts, Decline, Delete, WriteFails, Fewer, TypeOK
<1>6. ASSUME NEW w \in Workers PROVE ~Goroutine(w)
  BY NoGoroutine DEF Goroutine, PutEvent, CalDavFails, StoreEventId, DropEvent, NoTask, OneRequest
<1>7. CASE PurgeOldBookings \/ Tick \/ Restart \/ UNCHANGED vars
  BY <1>7 DEF PurgeOldBookings, Tick, Restart, vars, Fewer
<1> QED
  BY <1>1, <1>2, <1>3, <1>4, <1>5, <1>6, <1>7 DEF Next, Handle, OneRequest

\* The request after a step: it is over or has got beyond the checks, ...
Leaves(p) == req'[p].pc \notin {"limits", "conflicts", "write"}
\* ... or has just come in, ...
Arrives(p) ==
    \E u, f \in Users, s \in Spaces, t \in Slots :
        ReceiveCreate(p, u, f, s, t) \/ \E b \in Ids : ReceiveUpdate(p, u, f, b, s, t)
SameRequest(p) ==
    req'[p].by = req[p].by /\ req'[p].id = req[p].id /\ req'[p].row = req[p].row
\* ... or the limits have been checked, ...
PassesLimits(p) ==
    /\ At(p, "limits") /\ SameRequest(p) /\ bookings' = bookings /\ now' = now
    /\ IsValidMaxConcurrentForUser(req[p].by, req[p].row.slot, req[p].id)
    /\ req[p].id = Null => IsValidMaxUpcoming(req[p].by)
    /\ IsValidConcurrent(req[p].row.slot, req[p].id)
\* ... or nothing was added since.
Waits(p) ==
    /\ SameRequest(p) /\ Fewer /\ now \in Nat /\ now' \in Nat /\ now <= now'
    /\ req[p].pc \in {"limits", "conflicts", "write"}
    /\ Checked(p)' => Checked(p)

LEMMA RequestAfter ==
    ASSUME NEW p, OneRequest(p), TypeOK, [Next]_vars
    PROVE  Leaves(p) \/ Arrives(p) \/ PassesLimits(p) \/ Waits(p)
<1> p \in Procs
  BY DEF OneRequest
<1>1. now \in Nat
  BY BookingConstants DEF BookingConstants, TypeOK
<1>2. CASE ReceiveAny(p)
  <2>1. ASSUME NEW u \in Users, NEW b \in Ids, NEW pc \in {"approve", "decline"},
               ReceiveApproval(p, u, b, pc) \/ ReceiveDelete(p, u, b)
        PROVE  Leaves(p)
    BY <2>1 DEF ReceiveApproval, ReceiveDelete, Receive, Leaves, TypeOK
  <2> QED
    BY <1>2, <2>1 DEF ReceiveAny, Arrives
<1>3. CASE CheckLimits(p)
  <2>1. At(p, "limits") /\ bookings' = bookings /\ now' = now
    BY <1>3 DEF CheckLimits
  <2>2. CASE Return(p)
    BY <2>2 DEF Return, Idle, Leaves, TypeOK
  <2>3. CASE Goto(p, "conflicts") /\ PassesLimits(p)
    BY <2>3
  <2>4. Goto(p, "conflicts") => SameRequest(p)
    BY DEF Goto, SameRequest, TypeOK
  <2> QED
    BY <1>3, <2>1, <2>2, <2>4 DEF CheckLimits, PassesLimits
<1>4. CASE CheckConflicts(p)
  <2>1. Goto(p, "write") => SameRequest(p)
    BY DEF Goto, SameRequest, TypeOK
  <2> QED
    BY <1>1, <1>4, <2>1 DEF CheckConflicts, Return, Idle, Leaves, Waits, Fewer, At, Checked, TypeOK
<1>5. CASE Insert(p) \/ WriteUpdate(p) \/ Approve(p) \/ Decline(p) \/ Delete(p) \/ WriteFails(p)
  <2>1. Return(p)
    BY <1>5 DEF Insert, WriteUpdate, Approve, Decline, Delete, WriteFails
  <2> QED
    BY <2>1 DEF Return, Idle, Leaves, TypeOK
<1>6. ASSUME NEW w \in Workers PROVE ~Goroutine(w)
  BY NoGoroutine DEF Goroutine, PutEvent, CalDavFails, StoreEventId, DropEvent, NoTask, OneRequest
<1>7. CASE PurgeOldBookings \/ Tick \/ UNCHANGED vars
  <2>1. Fewer /\ req' = req
    BY <1>7 DEF PurgeOldBookings, Tick, vars, Fewer
  <2>2. now' \in Nat /\ now <= now'
    BY <1>1, <1>7, BookingConstants DEF PurgeOldBookings, Tick, vars, BookingConstants
  <2> QED
    BY <1>1, <2>1, <2>2 DEF Waits, Leaves, SameRequest, Checked
<1>8. CASE Restart
  BY <1>8 DEF Restart, Idle, Leaves
<1> QED
  BY <1>2, <1>3, <1>4, <1>5, <1>6, <1>7, <1>8 DEF Next, Handle, OneRequest

LEMMA SomeRows ==
    ASSUME TypeOK, UsedFinite, NEW S \in SUBSET Rows
    PROVE  IsFiniteSet(S) /\ Cardinality(S) \in Nat /\ IsFiniteSet(Rows)
<1>1. IsFiniteSet(Rows)
  BY FS_Subset DEF TypeOK, UsedFinite
<1> QED
  BY <1>1, CountedMore, FS_Subset

LEMMA LessIsLess ==
    ASSUME NEW S, IsFiniteSet(S), NEW T \in SUBSET S, NEW n \in Nat
    PROVE  /\ Cardinality(S) < n => Cardinality(T) < n
           /\ Cardinality(S) <= n => Cardinality(T) <= n
BY CountedMore

AllOnGrid == \A t \in Slots : OnGrid(t)

\* What the sampling counted is all there is.
LEMMA AreaIsCounted ==
    ASSUME TypeOK, UsedFinite, AllOnGrid, NEW slot \in Slots, NEW id,
           IsValidConcurrent(slot, id), MaxPerArea > 0, NEW k \in Minutes(slot)
    PROVE  Cardinality(Here(k) \ {id}) < MaxPerArea
<1> DEFINE book == [b \in Rows \ {id} |-> bookings[b].slot]
<1>1. DOMAIN book = Rows \ {id} /\ \A b \in DOMAIN book : book[b] = bookings[b].slot
  OBVIOUS
<1>2. \A b \in Rows : bookings[b].slot \in Slots
  BY DEF TypeOK, Row, Rows, Exists
<1>3. GetConcurrent(slot, id) = Concurrent(slot, book)
  BY DEF GetConcurrent
<1> HIDE DEF book
<1>4. Slots \subseteq Interval /\ MaxPerArea \in Nat
  BY BookingConstants DEF BookingConstants
<1>5. IsTable(book)
  BY <1>1, <1>2, <1>4, SomeRows DEF IsTable
<1>6. Concurrent(slot, book) = Peak(slot, book)
  BY <1>1, <1>2, <1>4, <1>5, SamplingIsExactOnGrid DEF AllOnGrid
<1>7. Here(k) \ {id} = {b \in DOMAIN book : k \in Minutes(book[b])}
  BY <1>1 DEF Here
<1>8. Cardinality({b \in DOMAIN book : k \in Minutes(book[b])}) <= Peak(slot, book)
  BY <1>4, <1>5, PeakIsLargest
<1>9. Concurrent(slot, book) < MaxPerArea /\ Peak(slot, book) \in Nat
  BY <1>3, <1>4, <1>5, PeakIsLargest DEF IsValidConcurrent
<1>10. Cardinality(Here(k) \ {id}) \in Nat
  BY SomeRows DEF Here
<1> QED
  BY <1>4, <1>6, <1>7, <1>8, <1>9, <1>10

LEMMA FewerHere ==
    ASSUME TypeOK, TypeOK', NEW k, Fewer
    PROVE  Here(k)' \subseteq Here(k) /\ Rows' \subseteq Rows
BY DEF TypeOK, Fewer, Here, Rows, Exists

LEMMA SlotOfRequest ==
    ASSUME TypeOK, NEW p \in Procs, req[p].pc \in {"limits", "conflicts", "write"}
    PROVE  /\ req[p].row \in Row /\ req[p].row.slot \in Slots /\ req[p].row.user \in Users
           /\ req[p].by \in Users /\ req[p].id \in used \cup {Null}
BY DEF TypeOK, Request, Idle, Row

LEMMA ArrivesAtLimits ==
    ASSUME TypeOK, NEW p \in Procs, Arrives(p)
    PROVE  req'[p].pc = "limits"
<1>1. ASSUME NEW by, NEW id, NEW row, Receive(p, "limits", by, id, row)
      PROVE  req'[p].pc = "limits"
  <2>1. p \in DOMAIN req
    BY DEF TypeOK
  <2> QED
    BY <1>1, <2>1 DEF Receive
<1> QED
  BY <1>1 DEF Arrives, ReceiveCreate, ReceiveUpdate

LEMMA AreaViewStep ==
    ASSUME NEW p, OneRequest(p), AllOnGrid, TypeOK, TypeOK', UsedFinite, AreaView(p), [Next]_vars
    PROVE  AreaView(p)'
<1> p \in Procs /\ MaxPerArea \in Nat
  BY BookingConstants DEF OneRequest, BookingConstants
<1>1. CASE Leaves(p)
  BY <1>1 DEF Leaves, AreaView, Checked
<1>2. CASE Arrives(p)
  BY <1>2, ArrivesAtLimits DEF AreaView, Checked
<1>3. CASE PassesLimits(p)
  <2>1. req[p].row.slot \in Slots
    BY <1>3, SlotOfRequest DEF PassesLimits, At
  <2>2. MaxPerArea > 0 => \A k \in Minutes(req[p].row.slot) : Cardinality(Here(k) \ {req[p].id}) < MaxPerArea
    BY <1>3, <2>1, AreaIsCounted DEF PassesLimits
  <2>3. \A k : Here(k)' = Here(k)
    BY <1>3 DEF PassesLimits, Here, Rows, Exists
  <2> QED
    BY <1>3, <2>2, <2>3 DEF PassesLimits, SameRequest, AreaView
<1>4. CASE Waits(p)
  <2> SUFFICES ASSUME Checked(p), MaxPerArea > 0, NEW k \in Minutes(req[p].row.slot)
               PROVE  Cardinality(Here(k)' \ {req[p].id}) < MaxPerArea
    BY <1>4 DEF Waits, SameRequest, AreaView
  <2>1. Cardinality(Here(k) \ {req[p].id}) < MaxPerArea
    BY DEF AreaView
  <2>2. IsFiniteSet(Here(k) \ {req[p].id})
    BY SomeRows DEF Here
  <2>3. Here(k)' \ {req[p].id} \subseteq Here(k) \ {req[p].id}
    BY <1>4, FewerHere DEF Waits
  <2> QED
    BY <2>1, <2>2, <2>3, LessIsLess
<1> QED
  BY <1>1, <1>2, <1>3, <1>4, RequestAfter

LEMMA AreaStep ==
    ASSUME NEW p, OneRequest(p), TypeOK, TypeOK', UsedFinite, AreaView(p), AreaLimit,
           Fewer \/ \E d \in Ids : Stores(p, d) \/ Approves(p, d)
    PROVE  AreaLimit'
<1> p \in Procs /\ MaxPerArea \in Nat
  BY BookingConstants DEF OneRequest, BookingConstants
<1> SUFFICES ASSUME MaxPerArea > 0, NEW k \in UNION {Minutes(t) : t \in Slots}
             PROVE  Cardinality(Here(k)') <= MaxPerArea
  BY DEF AreaLimit, Here
<1>1. IsFiniteSet(Here(k)) /\ Cardinality(Here(k)) <= MaxPerArea
  BY SomeRows DEF Here, AreaLimit
<1>2. ASSUME Here(k)' \subseteq Here(k) PROVE Cardinality(Here(k)') <= MaxPerArea
  BY <1>1, <1>2, LessIsLess
<1>3. CASE Fewer
  BY <1>2, <1>3, FewerHere
<1>4. ASSUME NEW d \in Ids, Approves(p, d) PROVE Cardinality(Here(k)') <= MaxPerArea
  BY <1>2, <1>4 DEF Approves, Here, Rows, Exists
<1>5. ASSUME NEW d \in Ids, Stores(p, d) PROVE Cardinality(Here(k)') <= MaxPerArea
  <2>1. CASE k \in Minutes(req[p].row.slot)
    <3>1. Cardinality(Here(k) \ {req[p].id}) < MaxPerArea
      BY <1>5, <2>1 DEF Stores, AreaView, Checked, At
    <3>2. IsFiniteSet(Here(k) \ {req[p].id})
      BY SomeRows DEF Here
    <3>3. Here(k)' \subseteq (Here(k) \ {req[p].id}) \cup {d}
      <4> SUFFICES ASSUME NEW b \in Ids, b # d, b \in Here(k)'
                   PROVE  b \in Here(k) \ {req[p].id}
        BY DEF Here, Rows
      <4>1. b # req[p].id
        BY <1>5, BookingConstants DEF Stores, BookingConstants
      <4> QED
        BY <1>5, <4>1 DEF Stores, Here, Rows, Exists
    <3> QED
      BY <3>1, <3>2, <3>3, OneMore
  <2>2. CASE k \notin Minutes(req[p].row.slot)
    <3>1. Here(k)' \subseteq Here(k)
      BY <1>5, <2>2 DEF Stores, Here, Rows, Exists
    <3> QED
      BY <1>2, <3>1
  <2> QED
    BY <2>1, <2>2
<1> QED
  BY <1>3, <1>4, <1>5

LEMMA UndisturbedInvariant ==
    ASSUME NEW p, OneRequest(p)
    PROVE  Spec => []Undisturbed(p)
<1>1. Init => Undisturbed(p)
  BY DEF Init, Undisturbed, Rows, Exists
<1>2. TypeOK /\ Undisturbed(p) /\ [Next]_vars => Undisturbed(p)'
  BY UndisturbedStep DEF OneRequest
<1> QED
  BY <1>1, <1>2, TypeCorrect, PTL DEF Spec

\* One request at a time, no calendar, and stays on a grid on which any two that overlap do
\* so for two minutes: at no minute the location holds more bookings than
\* max_concurrent_bookings, whoever made or moved them.
THEOREM AreaLimitHolds ==
    ASSUME NEW p, OneRequest(p), AllOnGrid
    PROVE  Spec => []AreaLimit
<1>1. Init => AreaView(p) /\ AreaLimit
  <2> SUFFICES ASSUME Init PROVE AreaView(p) /\ AreaLimit
    OBVIOUS
  <2>1. Rows = {}
    BY DEF Init, Rows, Exists
  <2>2. AreaView(p)
    BY DEF Init, Idle, OneRequest, AreaView, Checked
  <2>3. \A k : Cardinality({b \in Rows : k \in Minutes(bookings[b].slot)}) = 0
    BY <2>1, FS_EmptySet
  <2> QED
    BY <2>2, <2>3, BookingConstants DEF AreaLimit, BookingConstants
<1>2. /\ TypeOK /\ View /\ Undisturbed(p) /\ UsedFinite /\ AreaView(p) /\ AreaLimit
      /\ TypeOK' /\ [Next]_vars
      => AreaView(p)' /\ AreaLimit'
  BY AreaViewStep, AreaStep, TableAfter
<1> QED
  BY <1>1, <1>2, UndisturbedInvariant, ViewInvariant, UsedIsFinite, PTL DEF Spec

(* The limits of a user hold where nobody books or moves for another: the  *)
(* limits counted are those of the account that asks.                      *)

OwnUser(p) == OneRequest(p) /\ Admins = {}

LEMMA OwnRowStep ==
    ASSUME NEW p, OwnUser(p), TypeOK, TypeOK', OwnRow(p), [Next]_vars
    PROVE  OwnRow(p)'
<1> p \in Procs /\ OneRequest(p) /\ OnBehalf = {}
  BY BookingConstants DEF OwnUser, OneRequest, BookingConstants
<1>1. CASE Leaves(p)
  BY <1>1 DEF Leaves, OwnRow
<1>2. CASE Arrives(p)
  <2>1. PICK u \in Users, f \in Users, s \in Spaces, t \in Slots :
          ReceiveCreate(p, u, f, s, t) \/ \E b \in Ids : ReceiveUpdate(p, u, f, b, s, t)
    BY <1>2 DEF Arrives
  <2>2. CASE ReceiveCreate(p, u, f, s, t)
    <3>1. /\ req'[p].by = u /\ req'[p].id = Null /\ req'[p].row.user = f
          /\ f = u
      BY <2>2 DEF ReceiveCreate, Receive, TypeOK
    <3>2. Null \notin Rows'
      BY BookingConstants DEF Rows, BookingConstants
    <3> QED
      BY <3>1, <3>2 DEF OwnRow
  <2>3. ASSUME NEW b \in Ids, ReceiveUpdate(p, u, f, b, s, t) PROVE OwnRow(p)'
    <3> DEFINE row == [bookings[b] EXCEPT !.user = f, !.space = s, !.slot = t]
    <3>1. bookings[b] \in Row
      BY <2>3 DEF ReceiveUpdate, Exists, TypeOK
    <3>2. row.user = f
      BY <3>1 DEF Row
    <3>3. Receive(p, "limits", u, b, row) /\ bookings' = bookings
      BY <2>3 DEF ReceiveUpdate
    <3> HIDE DEF row
    <3>4. req'[p].by = u /\ req'[p].id = b /\ req'[p].row = row
      BY <3>3 DEF Receive, TypeOK
    <3>5. bookings[b].user = u /\ f = u
      BY <2>3 DEF ReceiveUpdate, OwnUser
    <3> QED
      BY <3>2, <3>3, <3>4, <3>5 DEF OwnRow
  <2> QED
    BY <2>1, <2>2, <2>3
<1>3. CASE PassesLimits(p) \/ Waits(p)
  <2>1. SameRequest(p) /\ Fewer /\ req[p].pc \in {"limits", "conflicts", "write"}
    BY <1>3 DEF PassesLimits, Waits, Fewer, At
  <2>2. ASSUME req[p].id \in Rows'
        PROVE  req[p].id \in Rows /\ bookings'[req[p].id] = bookings[req[p].id]
    BY <2>1, <2>2 DEF Fewer, Rows, Exists
  <2> QED
    BY <2>1, <2>2 DEF SameRequest, OwnRow
<1> QED
  BY <1>1, <1>2, <1>3, RequestAfter

\* What the three cases of GetTimeRangeByUser select is no less than there is at any minute.
LEMMA UserIsCounted ==
    ASSUME TypeOK, UsedFinite, NEW u \in Users, u \notin Admins, NEW slot \in Slots, NEW id,
           IsValidMaxConcurrentForUser(u, slot, id), MaxPerUser > 0, NEW k \in Minutes(slot)
    PROVE  Cardinality(HereOf(u, k) \ {id}) < MaxPerUser
<1>1. Slots \subseteq Interval /\ MaxPerUser \in Nat
  BY BookingConstants DEF BookingConstants
<1>2. HereOf(u, k) \ {id} \subseteq GetTimeRangeByUser(u, slot, id)
  <2> SUFFICES ASSUME NEW b \in HereOf(u, k), b # id
               PROVE  InUserRange(slot, bookings[b].slot) /\ b \in Rows /\ bookings[b].user = u
    BY DEF GetTimeRangeByUser
  <2>1. b \in Rows /\ bookings[b].user = u /\ k \in Minutes(bookings[b].slot)
    BY DEF HereOf, Here
  <2>2. bookings[b].slot \in Interval /\ slot \in Interval
    BY <1>1, <2>1 DEF TypeOK, Row, Rows, Exists
  <2>3. ShareMinute(slot, bookings[b].slot)
    BY <2>1 DEF ShareMinute
  <2> QED
    BY <2>1, <2>2, <2>3, UserRangeIsOverlapEverywhere, ConflictIsSharedMinuteEverywhere
<1>3. IsFiniteSet(GetTimeRangeByUser(u, slot, id))
  BY SomeRows DEF GetTimeRangeByUser
<1>4. Cardinality(GetTimeRangeByUser(u, slot, id)) < MaxPerUser
  BY <1>1 DEF IsValidMaxConcurrentForUser, Exempt
<1> QED
  BY <1>1, <1>2, <1>3, <1>4, LessIsLess

LEMMA UserViewStep ==
    ASSUME NEW p, OwnUser(p), TypeOK, TypeOK', UsedFinite, OwnRow(p), UserView(p), [Next]_vars
    PROVE  UserView(p)'
<1> p \in Procs /\ OneRequest(p) /\ MaxPerUser \in Nat
  BY BookingConstants DEF OwnUser, OneRequest, BookingConstants
<1>1. CASE Leaves(p)
  BY <1>1 DEF Leaves, UserView, Checked
<1>2. CASE Arrives(p)
  BY <1>2, ArrivesAtLimits DEF UserView, Checked
<1>3. CASE PassesLimits(p)
  <2>1. /\ req[p].row.slot \in Slots /\ req[p].row.user \in Users
        /\ req[p].row.user = req[p].by
    BY <1>3, SlotOfRequest DEF PassesLimits, At, OwnRow
  <2>2. MaxPerUser > 0 => \A k \in Minutes(req[p].row.slot) :
                             Cardinality(HereOf(req[p].row.user, k) \ {req[p].id}) < MaxPerUser
    BY <1>3, <2>1, UserIsCounted DEF PassesLimits, OwnUser
  <2>3. \A u, k : HereOf(u, k)' = HereOf(u, k)
    BY <1>3 DEF PassesLimits, HereOf, Here, Rows, Exists
  <2> QED
    BY <1>3, <2>2, <2>3 DEF PassesLimits, SameRequest, UserView
<1>4. CASE Waits(p)
  <2> SUFFICES ASSUME NEW u, u = req[p].row.user,
                      Checked(p), MaxPerUser > 0, NEW k \in Minutes(req[p].row.slot)
               PROVE  Cardinality(HereOf(u, k)' \ {req[p].id}) < MaxPerUser
    <3>1. req'[p].row = req[p].row /\ req'[p].id = req[p].id /\ (Checked(p)' => Checked(p))
      BY <1>4 DEF Waits, SameRequest
    <3>2. \A v : v = req[p].row.user => (Checked(p) /\ MaxPerUser > 0 =>
            \A k \in Minutes(req[p].row.slot) : Cardinality(HereOf(v, k)' \ {req[p].id}) < MaxPerUser)
      OBVIOUS
    <3> QED
      BY <3>1, <3>2 DEF UserView
  <2>1. Cardinality(HereOf(u, k) \ {req[p].id}) < MaxPerUser
    BY DEF UserView
  <2>2. IsFiniteSet(HereOf(u, k) \ {req[p].id})
    BY SomeRows DEF HereOf, Here
  <2>3. HereOf(u, k)' \ {req[p].id} \subseteq HereOf(u, k) \ {req[p].id}
    BY <1>4 DEF Waits, Fewer, HereOf, Here, Rows, Exists
  <2> QED
    BY <2>1, <2>2, <2>3, LessIsLess
<1> QED
  BY <1>1, <1>2, <1>3, <1>4, RequestAfter

LEMMA UserStep ==
    ASSUME NEW p, OwnUser(p), TypeOK, TypeOK', UsedFinite, OwnRow(p), UserView(p), UserLimit,
           Fewer \/ \E d \in Ids : Stores(p, d) \/ Approves(p, d)
    PROVE  UserLimit'
<1> p \in Procs /\ MaxPerUser \in Nat
  BY BookingConstants DEF OwnUser, OneRequest, BookingConstants
<1> SUFFICES ASSUME MaxPerUser > 0, NEW u \in Users, NEW k \in UNION {Minutes(t) : t \in Slots}
             PROVE  Cardinality(HereOf(u, k)') <= MaxPerUser
  <2>1. \A u, k : HereOf(u, k)' = {b \in Rows' : bookings'[b].user = u /\ k \in Minutes(bookings'[b].slot)}
    BY DEF HereOf, Here
  <2> QED
    BY <2>1 DEF UserLimit
<1>1. IsFiniteSet(HereOf(u, k)) /\ Cardinality(HereOf(u, k)) <= MaxPerUser
  <2>1. HereOf(u, k) = {b \in Rows : bookings[b].user = u /\ k \in Minutes(bookings[b].slot)}
    BY DEF HereOf, Here
  <2> QED
    BY <2>1, SomeRows DEF UserLimit
<1>2. ASSUME HereOf(u, k)' \subseteq HereOf(u, k) PROVE Cardinality(HereOf(u, k)') <= MaxPerUser
  BY <1>1, <1>2, LessIsLess
<1>3. CASE Fewer
  <2>1. HereOf(u, k)' \subseteq HereOf(u, k)
    BY <1>3 DEF Fewer, HereOf, Here, Rows, Exists
  <2> QED
    BY <1>2, <2>1
<1>4. ASSUME NEW d \in Ids, Approves(p, d) PROVE Cardinality(HereOf(u, k)') <= MaxPerUser
  <2>1. HereOf(u, k)' \subseteq HereOf(u, k)
    BY <1>4 DEF Approves, HereOf, Here, Rows, Exists
  <2> QED
    BY <1>2, <2>1
<1>5. ASSUME NEW d \in Ids, Stores(p, d) PROVE Cardinality(HereOf(u, k)') <= MaxPerUser
  <2>1. CASE k \in Minutes(req[p].row.slot) /\ u = req[p].row.user
    <3>1. Cardinality(HereOf(u, k) \ {req[p].id}) < MaxPerUser
      BY <1>5, <2>1 DEF Stores, UserView, Checked, At
    <3>2. IsFiniteSet(HereOf(u, k) \ {req[p].id})
      BY SomeRows DEF HereOf, Here
    <3>3. HereOf(u, k)' \subseteq (HereOf(u, k) \ {req[p].id}) \cup {d}
      <4> SUFFICES ASSUME NEW b \in Ids, b # d, b \in HereOf(u, k)'
                   PROVE  b \in HereOf(u, k) \ {req[p].id}
        BY DEF HereOf, Here, Rows
      <4>1. b # req[p].id
        BY <1>5, BookingConstants DEF Stores, BookingConstants
      <4> QED
        BY <1>5, <4>1 DEF Stores, HereOf, Here, Rows, Exists
    <3>4. \A S, T : IsFiniteSet(S) /\ Cardinality(S) < MaxPerUser /\ T \subseteq S \cup {d}
                      => Cardinality(T) <= MaxPerUser
      BY OneMore
    <3> QED
      BY <3>1, <3>2, <3>3, <3>4
  <2>2. CASE k \notin Minutes(req[p].row.slot) \/ u # req[p].row.user
    <3>1. HereOf(u, k)' \subseteq HereOf(u, k)
      BY <1>5, <2>2 DEF Stores, HereOf, Here, Rows, Exists
    <3> QED
      BY <1>2, <3>1
  <2> QED
    BY <2>1, <2>2
<1> QED
  BY <1>3, <1>4, <1>5

\* One request at a time, no calendar, and nobody who may book or move for another: at no
\* minute has a user more bookings than max_concurrent_bookings_per_user.
THEOREM UserLimitHolds ==
    ASSUME NEW p, OwnUser(p)
    PROVE  Spec => []UserLimit
<1> OneRequest(p)
  BY DEF OwnUser
<1>1. Init => OwnRow(p) /\ UserView(p) /\ UserLimit
  <2> SUFFICES ASSUME Init PROVE OwnRow(p) /\ UserView(p) /\ UserLimit
    OBVIOUS
  <2>1. Rows = {}
    BY DEF Init, Rows, Exists
  <2>2. OwnRow(p) /\ UserView(p)
    BY DEF Init, Idle, OneRequest, OwnRow, UserView, Checked
  <2>3. UserLimit
    <3> SUFFICES ASSUME MaxPerUser > 0, NEW u, NEW k
                 PROVE  Cardinality({b \in Rows : bookings[b].user = u /\ k \in Minutes(bookings[b].slot)})
                          <= MaxPerUser
      BY DEF UserLimit
    <3>1. {b \in Rows : bookings[b].user = u /\ k \in Minutes(bookings[b].slot)} = {}
      BY <2>1
    <3>2. MaxPerUser \in Nat
      BY BookingConstants DEF BookingConstants
    <3> QED
      BY <3>1, <3>2, FS_EmptySet
  <2> QED
    BY <2>2, <2>3
<1>2. /\ TypeOK /\ View /\ Undisturbed(p) /\ UsedFinite /\ OwnRow(p) /\ UserView(p) /\ UserLimit
      /\ TypeOK' /\ [Next]_vars
      => OwnRow(p)' /\ UserView(p)' /\ UserLimit'
  BY OwnRowStep, UserViewStep, UserStep, TableAfter
<1> QED
  BY <1>1, <1>2, UndisturbedInvariant, ViewInvariant, UsedIsFinite, PTL DEF Spec

\* Both limits.
THEOREM LimitsAreKept ==
    ASSUME NEW p, OwnUser(p), AllOnGrid
    PROVE  Spec => []LimitsHold
<1>1. AreaLimit /\ UserLimit => LimitsHold
  BY DEF LimitsHold
<1>2. OneRequest(p)
  BY DEF OwnUser
<1>3. Spec => []AreaLimit
  BY <1>2, AreaLimitHolds
<1> QED
  BY <1>1, <1>3, UserLimitHolds, PTL

\* The bookings of u that are not over.
Upcoming(u) == GetAllByUser(u, now)

LEMMA UpcomingOnlyShrinks ==
    ASSUME TypeOK, TypeOK', NEW u, Fewer, now \in Nat, now' \in Nat, now <= now'
    PROVE  Upcoming(u)' \subseteq Upcoming(u)
<1> SUFFICES ASSUME NEW b \in Ids, bookings'[b] # Null, bookings'[b].user = u,
                    bookings'[b].slot.leave >= now'
             PROVE  bookings[b] # Null /\ bookings[b].user = u /\ bookings[b].slot.leave >= now
  BY DEF Upcoming, GetAllByUser, Rows, Exists
<1>1. bookings'[b] = bookings[b]
  BY DEF Fewer
<1>2. bookings[b].slot.leave \in Nat
  BY <1>1, BookingConstants DEF TypeOK, Row, BookingConstants, Interval
<1> QED
  BY <1>1, <1>2

LEMMA UpcomingViewStep ==
    ASSUME NEW p, OwnUser(p), TypeOK, TypeOK', UsedFinite, OwnRow(p), UpcomingView(p), [Next]_vars
    PROVE  UpcomingView(p)'
<1> p \in Procs /\ OneRequest(p) /\ MaxUpcoming \in Nat
  BY BookingConstants DEF OwnUser, OneRequest, BookingConstants
<1>1. CASE Leaves(p)
  BY <1>1 DEF Leaves, UpcomingView, Checked
<1>2. CASE Arrives(p)
  BY <1>2, ArrivesAtLimits DEF UpcomingView, Checked
<1>3. CASE PassesLimits(p)
  <2>1. req[p].row.user = req[p].by
    BY <1>3 DEF PassesLimits, At, OwnRow
  <2>2. req[p].id = Null => Cardinality(GetAllByUser(req[p].row.user, now)) < MaxUpcoming
    BY <1>3, <2>1 DEF PassesLimits, IsValidMaxUpcoming, Exempt, OwnUser
  <2>3. req'[p].id = req[p].id /\ req'[p].row = req[p].row /\ bookings' = bookings /\ now' = now
    BY <1>3 DEF PassesLimits, SameRequest
  <2> QED
    BY <2>2, <2>3 DEF UpcomingView, GetAllByUser, Rows, Exists
<1>4. CASE Waits(p)
  <2> DEFINE n(u) == Cardinality(Upcoming(u))
  <2>1. \A u : n(u) < MaxUpcoming => n(u)' < MaxUpcoming
    <3> TAKE u
    <3>1. Upcoming(u)' \subseteq Upcoming(u)
      BY <1>4, UpcomingOnlyShrinks DEF Waits
    <3>2. IsFiniteSet(Upcoming(u))
      BY SomeRows DEF Upcoming, GetAllByUser
    <3> QED
      BY <3>1, <3>2, LessIsLess
  <2>2. req'[p].row = req[p].row /\ req'[p].id = req[p].id /\ (Checked(p)' => Checked(p))
    BY <1>4 DEF Waits, SameRequest
  <2>3. ASSUME Checked(p), req[p].id = Null PROVE n(req[p].row.user) < MaxUpcoming
    BY <2>3 DEF UpcomingView, Upcoming
  <2>4. UpcomingView(p)' = (Checked(p)' /\ req'[p].id = Null => n(req[p].row.user)' < MaxUpcoming)
    BY <2>2 DEF UpcomingView, Upcoming
  <2> HIDE DEF n
  <2> QED
    BY <2>1, <2>2, <2>3, <2>4
<1> QED
  BY <1>1, <1>2, <1>3, <1>4, RequestAfter

LEMMA ClockAdvances ==
    ASSUME TypeOK, [Next]_vars
    PROVE  now <= now'
<1>1. now \in Nat /\ Times \subseteq Nat
  BY BookingConstants DEF TypeOK, BookingConstants
<1>2. CASE Tick
  BY <1>1, <1>2 DEF Tick
<1>3. ASSUME NEW p \in Procs, ReceiveAny(p) PROVE UNCHANGED now
  BY <1>3 DEF ReceiveAny, ReceiveCreate, ReceiveUpdate, ReceiveApproval, ReceiveDelete
<1>4. ASSUME NEW p \in Procs, Handle(p) \/ WriteFails(p) PROVE UNCHANGED now
  BY <1>4 DEF Handle, CheckLimits, CheckConflicts, Insert, WriteUpdate, Approve, Decline,
              Delete, WriteFails
<1>5. ASSUME NEW w \in Workers, Goroutine(w) PROVE UNCHANGED now
  BY <1>5 DEF Goroutine, PutEvent, CalDavFails, StoreEventId, DropEvent
<1>6. CASE PurgeOldBookings \/ Restart \/ UNCHANGED vars
  BY <1>1, <1>6 DEF PurgeOldBookings, Restart, vars
<1> QED
  BY <1>1, <1>2, <1>3, <1>4, <1>5, <1>6 DEF Next

Revived == \E b \in Rows : bookings[b].slot.leave < now /\ bookings[b].slot # bookings'[b].slot

LEMMA UpcomingStep ==
    ASSUME NEW p, OwnUser(p), TypeOK, TypeOK', UsedFinite, UsedFinite', OwnRow(p), UpcomingView(p),
           [Next]_vars, NEW u, ~Revived, Fewer \/ \E d \in Ids : Stores(p, d) \/ Approves(p, d)
    PROVE  Cardinality(Upcoming(u)') <= Cardinality(Upcoming(u)) \/ Cardinality(Upcoming(u)') <= MaxUpcoming
<1> p \in Procs /\ OneRequest(p) /\ MaxUpcoming \in Nat
  BY BookingConstants DEF OwnUser, OneRequest, BookingConstants
<1>1. IsFiniteSet(Upcoming(u)) /\ Cardinality(Upcoming(u)) \in Nat
  BY SomeRows DEF Upcoming, GetAllByUser
<1>2. ASSUME Upcoming(u)' \subseteq Upcoming(u)
      PROVE  Cardinality(Upcoming(u)') <= Cardinality(Upcoming(u))
  BY <1>1, <1>2, CountedMore
<1>3. now \in Nat /\ now' \in Nat /\ \A b \in Rows : bookings[b].slot.leave \in Nat
  BY BookingConstants DEF BookingConstants, TypeOK, Row, Rows, Exists, Interval
<1>4. CASE Fewer
  <2>1. now <= now'
    BY ClockAdvances
  <2> QED
    BY <1>2, <1>3, <1>4, <2>1, UpcomingOnlyShrinks
<1>5. ASSUME NEW d \in Ids, Approves(p, d) PROVE Upcoming(u)' \subseteq Upcoming(u)
  BY <1>5 DEF Approves, Upcoming, GetAllByUser, Rows, Exists
<1>6. ASSUME NEW d \in Ids, Stores(p, d), req[p].id = d PROVE Upcoming(u)' \subseteq Upcoming(u)
  <2>1. Exists(d) /\ d \in Rows /\ now' = now
    BY <1>6 DEF Stores, Rows
  <2>2. bookings'[d].user = bookings[d].user
    BY <1>6, <2>1 DEF Stores, OwnRow, At
  <2>3. bookings[d].slot.leave >= now \/ bookings'[d].slot = bookings[d].slot
    BY <1>3, <2>1 DEF Revived
  <2> QED
    BY <1>6, <2>1, <2>2, <2>3 DEF Stores, Upcoming, GetAllByUser, Rows, Exists
<1>7. ASSUME NEW d \in Ids, Stores(p, d), req[p].id = Null
      PROVE  \/ Upcoming(u)' \subseteq Upcoming(u)
             \/ Cardinality(Upcoming(u)') <= MaxUpcoming
  <2>1. now' = now /\ bookings'[d].user = req[p].row.user
    BY <1>7 DEF Stores
  <2>2. Upcoming(u)' \subseteq Upcoming(u) \cup {d}
    BY <1>7, <2>1 DEF Stores, Upcoming, GetAllByUser, Rows, Exists
  <2>3. CASE u = req[p].row.user
    <3>1. Cardinality(Upcoming(u)) < MaxUpcoming
      BY <1>7, <2>3 DEF UpcomingView, Upcoming, Checked, Stores, At
    <3> QED
      BY <1>1, <2>2, <3>1, OneMore
  <2>4. CASE u # req[p].row.user
    BY <1>7, <2>1, <2>4 DEF Stores, Upcoming, GetAllByUser, Rows, Exists
  <2> QED
    BY <2>3, <2>4
<1>8. \A d \in Ids : Stores(p, d) => req[p].id \in {d, Null}
  BY DEF Stores
<1> QED
  BY <1>2, <1>4, <1>5, <1>6, <1>7, <1>8

\* Likewise, a user comes to have more than max_bookings_per_user bookings that are not over
\* in one way only: by moving one that was over.
THEOREM UpcomingLimitKept ==
    ASSUME NEW p, OwnUser(p)
    PROVE  Spec => UpcomingLimitUnlessRevived
<1> OneRequest(p)
  BY DEF OwnUser
<1> DEFINE Kept == \A u \in Users :
         LET upcoming == Cardinality(GetAllByUser(u, now))
         IN  upcoming' > upcoming /\ upcoming' > MaxUpcoming =>
               \E b \in Rows : bookings[b].slot.leave < now /\ bookings[b].slot # bookings'[b].slot
<1>1. Init => OwnRow(p) /\ UpcomingView(p)
  BY DEF Init, Idle, OneRequest, OwnRow, UpcomingView, Checked
<1>2. TypeOK /\ TypeOK' /\ UsedFinite /\ OwnRow(p) /\ UpcomingView(p) /\ [Next]_vars
        => OwnRow(p)' /\ UpcomingView(p)'
  BY OwnRowStep, UpcomingViewStep
<1>3. /\ TypeOK /\ TypeOK' /\ UsedFinite /\ UsedFinite' /\ View /\ Undisturbed(p)
      /\ OwnRow(p) /\ UpcomingView(p) /\ [Next]_vars
      => [Kept]_vars
  <2> SUFFICES ASSUME TypeOK, TypeOK', UsedFinite, UsedFinite', View, Undisturbed(p),
                      OwnRow(p), UpcomingView(p), [Next]_vars, NEW u \in Users, ~Revived
               PROVE  LET upcoming == Cardinality(GetAllByUser(u, now))
                      IN  ~(upcoming' > upcoming /\ upcoming' > MaxUpcoming)
    BY DEF Revived
  <2>1. \/ Cardinality(Upcoming(u)') <= Cardinality(Upcoming(u))
        \/ Cardinality(Upcoming(u)') <= MaxUpcoming
    BY TableAfter, UpcomingStep
  <2>2. Cardinality(Upcoming(u)') \in Nat /\ Cardinality(Upcoming(u)) \in Nat /\ MaxUpcoming \in Nat
    <3>1. IsFiniteSet(Upcoming(u)') /\ IsFiniteSet(Upcoming(u))
      BY FS_Subset DEF UsedFinite, TypeOK, Upcoming, GetAllByUser
    <3> QED
      BY <3>1, FS_CardinalityType, BookingConstants DEF BookingConstants
  <2> QED
    BY <2>1, <2>2 DEF Upcoming
<1>4. Spec => [][Kept]_vars
  <2> HIDE DEF Kept
  <2> QED
    BY <1>1, <1>2, <1>3, UndisturbedInvariant, ViewInvariant, UsedIsFinite, PTL DEF Spec
<1> QED
  BY <1>4 DEF UpcomingLimitUnlessRevived
-----------------------------------------------------------------------------
(* The calendar, for a client that waits for the goroutines of its last    *)
(* request and a server that nothing disturbs (UndisturbedSpec).           *)

\* A goroutine or a delete under way is about to change the event or its booking.
Busy(u, b) ==
    \/ \E w \in Workers : task[w].pc # "idle" /\ task[w].id = b /\ task[w].row.user = u
    \/ \E p \in Procs : At(p, "delete") /\ req[p].id = b /\ req[p].row.user = u

\* An event is that of the booking, which knows of it, or of a purged one; an approved
\* booking has its event.
Mirrored(u, b) ==
    /\ calendar[u][b] # Null =>
         IF Exists(b)
         THEN bookings[b].user = u /\ bookings[b].slot = calendar[u][b] /\ bookings[b].caldav
         ELSE b \in used /\ IsOld(calendar[u][b])
    /\ Exists(b) /\ bookings[b].user = u /\ bookings[b].approved => calendar[u][b] = bookings[b].slot

\* One request at a time and one goroutine; both only while a row is deleted.
Alone ==
    /\ \A p, q \in Procs : At(p, "idle") \/ At(q, "idle") \/ p = q
    /\ \A v, w \in Workers : task[v].pc = "idle" \/ task[w].pc = "idle" \/ v = w
    /\ \A p \in Procs, w \in Workers :
         \/ At(p, "idle") \/ task[w].pc = "idle"
         \/ At(p, "delete") /\ task[w].pc = "drop" /\ task[w].id = req[p].id /\ task[w].row = req[p].row

\* The copy of a request is the row, as far as the request will use it.
RequestKnows(p) ==
    /\ req[p].pc \in {"limits", "conflicts", "write"} /\ req[p].id # Null =>
         Exists(req[p].id) /\ req[p].row.user = bookings[req[p].id].user
    /\ req[p].pc \in {"approve", "decline", "delete"} =>
         Exists(req[p].id) /\ bookings[req[p].id] = req[p].row
    /\ At(p, "delete") /\ req[p].row.user \in CalDavUsers /\ (\A w \in Workers : task[w].pc = "idle") =>
         calendar[req[p].row.user][req[p].id] = Null

\* The copy of a goroutine is the row, and it comes to an end before anything is read.
TaskKnows(w) ==
    /\ task[w].pc \in {"put", "store"} =>
         Exists(task[w].id) /\ bookings[task[w].id] = task[w].row
    /\ task[w].pc = "store" => calendar[task[w].row.user][task[w].id] = task[w].row.slot
    /\ task[w].pc = "drop" => (\E p \in Procs : At(p, "delete")) \/ ~Exists(task[w].id)

MirrorInv ==
    /\ Alone
    /\ \A p \in Procs : RequestKnows(p)
    /\ \A w \in Workers : TaskKnows(w)
    /\ \A u \in CalDavUsers, b \in Ids : Busy(u, b) \/ Mirrored(u, b)

LEMMA ProductGrows ==
    ASSUME NEW q \in Nat, NEW r \in Nat, NEW d \in Nat \ {0}, r < q
    PROVE  r * d + d <= q * d
<1>1. PICK e \in Nat : q = r + 1 + e
  <2>1. q - r - 1 \in Nat /\ q = r + 1 + (q - r - 1)
    OBVIOUS
  <2> QED
    BY <2>1
<1>2. q * d = r * d + d + e * d
  BY <1>1
<1>3. e * d \in Nat /\ r * d \in Nat
  OBVIOUS
<1> QED
  BY <1>2, <1>3

\* The day does not go back.
LEMMA DayAdvances ==
    ASSUME NEW a \in Nat, NEW b \in Nat, NEW d \in Nat \ {0}, a <= b
    PROVE  (a \div d) * d <= (b \div d) * d
<1>1. ASSUME NEW n \in Nat
      PROVE  n \div d \in Nat /\ n % d \in Nat /\ n % d < d /\ n = (n \div d) * d + (n % d)
  OBVIOUS
<1>2. CASE b \div d < a \div d
  <2>1. (b \div d) * d + d <= (a \div d) * d
    BY <1>1, <1>2, ProductGrows
  <2>2. a >= (a \div d) * d /\ b < (b \div d) * d + d
    <3>1. a = (a \div d) * d + (a % d) /\ b = (b \div d) * d + (b % d)
      BY <1>1
    <3>2. a % d \in Nat /\ b % d \in Nat /\ b % d < d /\ (a \div d) * d \in Nat /\ (b \div d) * d \in Nat
      BY <1>1
    <3> QED
      BY <3>1, <3>2
  <2>3. (a \div d) * d \in Nat /\ (b \div d) * d \in Nat
    BY <1>1
  <2> QED
    BY <2>1, <2>2, <2>3
<1>3. CASE a \div d <= b \div d
  <2>1. CASE a \div d = b \div d
    BY <1>1, <2>1
  <2>2. CASE a \div d < b \div d
    <3>1. (a \div d) * d + d <= (b \div d) * d
      BY <1>1, <2>2, ProductGrows
    <3>2. (a \div d) * d \in Nat /\ (b \div d) * d \in Nat
      BY <1>1
    <3> QED
      BY <3>1, <3>2
  <2> QED
    BY <1>1, <1>3, <2>1, <2>2
<1> QED
  BY <1>1, <1>2, <1>3

LEMMA OldStaysOld ==
    ASSUME TypeOK, TypeOK', now <= now', NEW slot \in Slots, IsOld(slot)
    PROVE  IsOld(slot)'
<1>1. now \in Nat /\ now' \in Nat /\ DayLength \in Nat \ {0} /\ Retention \in Nat /\ slot.leave \in Nat
  BY BookingConstants DEF TypeOK, BookingConstants, Interval
<1>2. StartOfToday <= StartOfToday'
  BY <1>1, DayAdvances DEF StartOfToday
<1>3. StartOfToday \in Int /\ StartOfToday' \in Int
  BY <1>1 DEF StartOfToday
<1>4. slot.leave < StartOfToday - Retention
  BY DEF IsOld
<1>5. slot.leave < StartOfToday' - Retention
  BY <1>1, <1>2, <1>3, <1>4
<1> QED
  BY <1>5 DEF IsOld

LEMMA MirroredKept ==
    ASSUME TypeOK, TypeOK', now <= now', used \subseteq used',
           NEW u \in CalDavUsers, NEW b \in Ids, Mirrored(u, b),
           bookings'[b] = bookings[b], calendar'[u][b] = calendar[u][b]
    PROVE  Mirrored(u, b)'
<1>1. calendar[u][b] # Null => calendar[u][b] \in Slots
  BY DEF TypeOK
<1>2. calendar[u][b] # Null /\ IsOld(calendar[u][b]) => (IsOld(calendar[u][b]))'
  BY <1>1, OldStaysOld DEF IsOld
<1> QED
  BY <1>2 DEF Mirrored, Exists

\* Only p is under way, and no goroutine.
Quiet(p) ==
    /\ \A q \in Procs : q = p \/ At(q, "idle")
    /\ \A w \in Workers : task[w].pc = "idle"
    /\ ~At(p, "delete")

LEMMA QuietFacts ==
    ASSUME MirrorInv, NEW p \in Procs
    PROVE  /\ Settled => Quiet(p)
           /\ ~At(p, "idle") /\ ~At(p, "delete") => Quiet(p)
           /\ Quiet(p) => \A u \in CalDavUsers, b \in Ids : Mirrored(u, b)
<1>1. Settled => Quiet(p)
  BY DEF Settled, Quiet, At
<1>2. ~At(p, "idle") /\ ~At(p, "delete") => Quiet(p)
  BY DEF MirrorInv, Alone, Quiet
<1>3. Quiet(p) => \A u \in CalDavUsers, b \in Ids : ~Busy(u, b)
  BY DEF Quiet, Busy, At
<1> QED
  BY <1>1, <1>2, <1>3 DEF MirrorInv

\* The request goes a step further, and writes nothing.
LEMMA RequestGoesOn ==
    ASSUME TypeOK, TypeOK', MirrorInv, NEW p \in Procs, Quiet(p),
           \A q \in Procs : q = p \/ req'[q] = req[q],
           UNCHANGED <<bookings, used, now, task, calendar>>,
           req'[p].pc # "delete", RequestKnows(p)'
    PROVE  MirrorInv'
<1>1. ASSUME NEW q \in Procs, q # p PROVE req'[q].pc = "idle"
  BY <1>1 DEF Quiet, At
<1>2. \A w \in Workers : task'[w].pc = "idle"
  BY DEF Quiet
<1>3. Alone'
  BY <1>1, <1>2 DEF Alone, At
<1>4. ASSUME NEW q \in Procs PROVE RequestKnows(q)'
  BY <1>1 DEF RequestKnows, At
<1>5. \A w \in Workers : TaskKnows(w)'
  BY <1>2 DEF TaskKnows
<1>6. ASSUME NEW u \in CalDavUsers, NEW b \in Ids PROVE Mirrored(u, b)'
  <2>1. Mirrored(u, b)
    BY QuietFacts
  <2>2. now <= now'
    BY BookingConstants DEF TypeOK, BookingConstants
  <2> QED
    BY <2>1, <2>2, MirroredKept
<1> QED
  BY <1>3, <1>4, <1>5, <1>6 DEF MirrorInv

\* The request writes row d and is done; the goroutine takes over.
LEMMA RowIsWritten ==
    ASSUME TypeOK, TypeOK', MirrorInv, NEW p \in Procs, Quiet(p), Return(p),
           UNCHANGED <<now, calendar>>, used \subseteq used', NEW d \in Ids,
           \A b \in Ids \ {d} : bookings'[b] = bookings[b],
           NEW pc \in {"put", "drop"}, NEW row, Go(pc, d, row) \/ UNCHANGED task,
           IF pc = "put" THEN bookings'[d] = row /\ row \in Row ELSE bookings'[d] = Null,
           \A u \in CalDavUsers : (u = row.user /\ Go(pc, d, row)) \/ Mirrored(u, d)'
    PROVE  MirrorInv'
<1>1. ASSUME NEW q \in Procs PROVE req'[q].pc = "idle"
  BY DEF Quiet, At, Return, Idle, TypeOK
<1>2. ASSUME NEW u \in CalDavUsers, NEW b \in Ids \ {d} PROVE Mirrored(u, b)'
  <2>1. Mirrored(u, b)
    BY QuietFacts
  <2>2. now <= now'
    BY BookingConstants DEF TypeOK, BookingConstants
  <2> QED
    BY <2>1, <2>2, MirroredKept
<1>3. CASE UNCHANGED task /\ \A u \in CalDavUsers : Mirrored(u, d)'
  <2>1. \A w \in Workers : task'[w].pc = "idle"
    BY <1>3 DEF Quiet
  <2>2. Alone' /\ (\A q \in Procs : RequestKnows(q)') /\ (\A w \in Workers : TaskKnows(w)')
    BY <1>1, <2>1 DEF Alone, RequestKnows, TaskKnows, At
  <2> QED
    BY <1>2, <1>3, <2>2 DEF MirrorInv
<1>4. CASE \E w \in Workers : task' = [task EXCEPT ![w] = [pc |-> pc, id |-> d, row |-> row]]
  <2>1. PICK w \in Workers : task' = [task EXCEPT ![w] = [pc |-> pc, id |-> d, row |-> row]]
    BY <1>4
  <2>2. task'[w].pc = pc /\ task'[w].id = d /\ task'[w].row = row
    BY <2>1 DEF TypeOK
  <2>3. \A v \in Workers : v = w \/ task'[v].pc = "idle"
    BY <2>1 DEF Quiet, TypeOK
  <2>4. Alone' /\ (\A q \in Procs : RequestKnows(q)')
    BY <1>1, <2>3 DEF Alone, RequestKnows, At
  <2>5. ASSUME NEW v \in Workers PROVE TaskKnows(v)'
    BY <2>2, <2>3, NullIsNoRow DEF TaskKnows, Exists
  <2>6. ASSUME NEW u \in CalDavUsers PROVE Busy(u, d)' \/ Mirrored(u, d)'
    BY <2>2 DEF Busy
  <2> QED
    BY <1>2, <2>4, <2>5, <2>6 DEF MirrorInv
<1>5. Go(pc, d, row) => \/ UNCHANGED task /\ row.user \notin CalDavUsers
                        \/ \E w \in Workers : task' = [task EXCEPT ![w] = [pc |-> pc, id |-> d, row |-> row]]
  BY DEF Go
<1>6. CASE UNCHANGED task /\ ~Go(pc, d, row)
  BY <1>3, <1>6
<1> QED
  BY <1>3, <1>4, <1>5, <1>6

LEMMA ReceiveMirrors ==
    ASSUME TypeOK, TypeOK', MirrorInv, OnBehalf = {}, NEW p \in Procs, Settled, ReceiveAny(p)
    PROVE  MirrorInv'
<1>1. Quiet(p)
  BY QuietFacts
<1>2. PICK u \in Users :
        \/ \E f \in Users, s \in Spaces, t \in Slots : ReceiveCreate(p, u, f, s, t)
        \/ \E f \in Users, b \in Ids, s \in Spaces, t \in Slots : ReceiveUpdate(p, u, f, b, s, t)
        \/ \E b \in Ids, pc \in {"approve", "decline"} : ReceiveApproval(p, u, b, pc)
        \/ \E b \in Ids : ReceiveDelete(p, u, b)
  BY DEF ReceiveAny
<1>3. ASSUME NEW pc, NEW by, NEW id, NEW row, Receive(p, pc, by, id, row)
      PROVE  /\ req'[p].pc = pc /\ req'[p].id = id /\ req'[p].row = row
             /\ \A q \in Procs : q = p \/ req'[q] = req[q]
  BY <1>3 DEF Receive, TypeOK
<1>4. ASSUME NEW f, NEW s, NEW t, ReceiveCreate(p, u, f, s, t) PROVE MirrorInv'
  <2>1. req'[p].pc = "limits" /\ req'[p].id = Null /\ \A q \in Procs : q = p \/ req'[q] = req[q]
    BY <1>3, <1>4 DEF ReceiveCreate
  <2>2. UNCHANGED <<bookings, used, now, task, calendar>>
    BY <1>4 DEF ReceiveCreate
  <2>3. RequestKnows(p)'
    BY <2>1 DEF RequestKnows, At
  <2> QED
    BY <1>1, <2>1, <2>2, <2>3, RequestGoesOn
<1>5. ASSUME NEW f, NEW b \in Ids, NEW s, NEW t, ReceiveUpdate(p, u, f, b, s, t) PROVE MirrorInv'
  <2> DEFINE row == [bookings[b] EXCEPT !.user = f, !.space = s, !.slot = t]
  <2>1. Exists(b) /\ f = bookings[b].user /\ UNCHANGED <<bookings, used, now, task, calendar>>
    BY <1>5 DEF ReceiveUpdate
  <2>2. row.user = f
    BY <2>1 DEF Exists, TypeOK, Row
  <2>3. Receive(p, "limits", u, b, row)
    BY <1>5 DEF ReceiveUpdate
  <2> HIDE DEF row
  <2>4. /\ req'[p].pc = "limits" /\ req'[p].id = b /\ req'[p].row = row
        /\ \A q \in Procs : q = p \/ req'[q] = req[q]
    BY <1>3, <2>3
  <2>5. RequestKnows(p)'
    BY <2>1, <2>2, <2>4 DEF RequestKnows, At, Exists
  <2> QED
    BY <1>1, <2>1, <2>4, <2>5, RequestGoesOn
<1>6. ASSUME NEW b \in Ids, NEW pc \in {"approve", "decline"}, ReceiveApproval(p, u, b, pc)
      PROVE  MirrorInv'
  <2>1. UNCHANGED <<bookings, used, now, task, calendar>>
    BY <1>6 DEF ReceiveApproval
  <2>2. /\ req'[p].pc = pc /\ req'[p].id = b /\ req'[p].row = bookings[b]
        /\ \A q \in Procs : q = p \/ req'[q] = req[q]
    BY <1>3, <1>6 DEF ReceiveApproval
  <2>3. RequestKnows(p)'
    BY <1>6, <2>1, <2>2 DEF RequestKnows, At, ReceiveApproval, Exists
  <2> QED
    BY <1>1, <2>1, <2>2, <2>3, RequestGoesOn
<1>7. ASSUME NEW b \in Ids, ReceiveDelete(p, u, b) PROVE MirrorInv'
  <2>1. /\ Exists(b) /\ UNCHANGED <<bookings, used, now, calendar>>
        /\ GoDrop(b, bookings[b])
    BY <1>7 DEF ReceiveDelete
  <2>2. /\ req'[p].pc = "delete" /\ req'[p].id = b /\ req'[p].row = bookings[b]
        /\ \A q \in Procs : q = p \/ req'[q] = req[q]
    BY <1>3, <1>7 DEF ReceiveDelete
  <2>3. ASSUME NEW q \in Procs, q # p PROVE req'[q].pc = "idle"
    BY <1>1, <2>2, <2>3 DEF Quiet, At
  <2>4. ASSUME NEW v \in CalDavUsers, NEW c \in Ids PROVE Busy(v, c)' \/ Mirrored(v, c)'
    <3>1. Mirrored(v, c) /\ now <= now'
      BY <1>1, <2>1, QuietFacts, BookingConstants DEF TypeOK, BookingConstants
    <3> QED
      BY <2>1, <3>1, MirroredKept
  <2>5. CASE UNCHANGED task /\ ~(bookings[b].caldav /\ bookings[b].user \in CalDavUsers)
    <3>1. \A w \in Workers : task'[w].pc = "idle"
      BY <1>1, <2>5 DEF Quiet
    <3>2. Alone' /\ (\A w \in Workers : TaskKnows(w)')
      BY <2>3, <3>1 DEF Alone, TaskKnows, At
    <3>3. bookings[b].user \in CalDavUsers => calendar[bookings[b].user][b] = Null
      <4> SUFFICES ASSUME bookings[b].user \in CalDavUsers
                   PROVE  calendar[bookings[b].user][b] = Null
        OBVIOUS
      <4>1. Mirrored(bookings[b].user, b)
        BY <1>1, QuietFacts
      <4> QED
        BY <2>1, <2>5, <4>1 DEF Mirrored
    <3>4. RequestKnows(p)'
      BY <2>1, <2>2, <3>3 DEF RequestKnows, At, Exists
    <3>5. \A q \in Procs : RequestKnows(q)'
      BY <2>3, <3>4 DEF RequestKnows, At
    <3> QED
      BY <2>4, <3>2, <3>5 DEF MirrorInv
  <2>6. ASSUME NEW w \in Workers, task' = [task EXCEPT ![w] = [pc |-> "drop", id |-> b, row |-> bookings[b]]]
        PROVE  MirrorInv'
    <3>1. task'[w].pc = "drop" /\ task'[w].id = b /\ task'[w].row = bookings[b]
      BY <2>6 DEF TypeOK
    <3>2. \A v \in Workers : v = w \/ task'[v].pc = "idle"
      BY <1>1, <2>6 DEF Quiet, TypeOK
    <3>3. Alone'
      BY <2>2, <2>3, <3>1, <3>2 DEF Alone, At
    <3>4. RequestKnows(p)'
      BY <2>1, <2>2, <3>1 DEF RequestKnows, At, Exists
    <3>5. \A q \in Procs : RequestKnows(q)'
      BY <2>3, <3>4 DEF RequestKnows, At
    <3>6. \A v \in Workers : TaskKnows(v)'
      BY <2>2, <3>1, <3>2 DEF TaskKnows, At
    <3> QED
      BY <2>4, <3>3, <3>5, <3>6 DEF MirrorInv
  <2> QED
    BY <2>1, <2>5, <2>6 DEF GoDrop, Go
<1> QED
  BY <1>2, <1>4, <1>5, <1>6, <1>7

LEMMA CheckMirrors ==
    ASSUME TypeOK, TypeOK', MirrorInv, NEW p \in Procs,
           CheckLimits(p) \/ CheckConflicts(p) \/ (At(p, "write") /\ WriteFails(p))
    PROVE  MirrorInv'
<1>1. Quiet(p) /\ UNCHANGED <<bookings, used, now, task, calendar>>
  BY QuietFacts DEF CheckLimits, CheckConflicts, WriteFails, At
<1>2. Return(p) \/ Goto(p, "conflicts") \/ Goto(p, "write")
  BY DEF CheckLimits, CheckConflicts, WriteFails
<1>3. \A q \in Procs : q = p \/ req'[q] = req[q]
  BY <1>2 DEF Return, Goto, TypeOK
<1>4. \/ req'[p].pc = "idle"
      \/ /\ req'[p].pc \in {"conflicts", "write"} /\ req'[p].id = req[p].id
         /\ req'[p].row = req[p].row
  <2>1. CASE Return(p)
    BY <2>1 DEF Return, Idle, TypeOK
  <2>2. ASSUME NEW pc \in {"conflicts", "write"}, Goto(p, pc)
        PROVE  req'[p].pc = pc /\ req'[p].id = req[p].id /\ req'[p].row = req[p].row
    BY <2>2 DEF Goto, TypeOK
  <2> QED
    BY <1>2, <2>1, <2>2
<1>5. req[p].pc \in {"limits", "conflicts", "write"} /\ RequestKnows(p)
  <2>1. RequestKnows(p)
    BY DEF MirrorInv
  <2>2. req[p].pc \in {"limits", "conflicts", "write"}
    BY DEF CheckLimits, CheckConflicts, At
  <2> QED
    BY <2>1, <2>2
<1>6. RequestKnows(p)'
  BY <1>1, <1>4, <1>5 DEF RequestKnows, At, Exists
<1> QED
  BY <1>1, <1>3, <1>4, <1>6, RequestGoesOn

LEMMA InsertMirrors ==
    ASSUME TypeOK, TypeOK', MirrorInv, NEW p \in Procs, Insert(p)
    PROVE  MirrorInv'
<1> DEFINE row == [req[p].row EXCEPT !.approved = req[p].row.space \notin ApprovalSpaces]
<1>1. PICK b \in Ids \ used :
        /\ bookings' = [bookings EXCEPT ![b] = row] /\ used' = used \cup {b}
        /\ IF row.approved THEN Go("put", b, row) ELSE UNCHANGED task
  BY DEF Insert
<1>2. Quiet(p) /\ Return(p) /\ UNCHANGED <<now, calendar>>
  BY QuietFacts DEF Insert, At
<1>3. row \in Row
  BY InFlight DEF Insert, At, Row
<1> HIDE DEF row
<1>4. bookings'[b] = row /\ \A c \in Ids \ {b} : bookings'[c] = bookings[c]
  BY <1>1 DEF TypeOK
<1>5. ASSUME NEW u \in CalDavUsers, ~(u = row.user /\ Go("put", b, row)) PROVE Mirrored(u, b)'
  <2>1. Mirrored(u, b) /\ bookings[b] = Null
    BY <1>1, <1>2, QuietFacts DEF TypeOK, Rows, Exists
  <2>2. calendar'[u][b] = Null
    BY <1>1, <1>2, <2>1 DEF Mirrored, Exists
  <2>3. row.user = u => ~row.approved
    BY <1>1, <1>5
  <2> QED
    BY <1>4, <2>2, <2>3 DEF Mirrored
<1>6. Go("put", b, row) \/ UNCHANGED task
  BY <1>1
<1> QED
  BY <1>1, <1>2, <1>3, <1>4, <1>5, <1>6, RowIsWritten

\* An update or approval writes a row that is there, and puts its event.
LEMMA PutMirrors ==
    ASSUME TypeOK, TypeOK', MirrorInv, NEW p \in Procs, Quiet(p), Return(p),
           UNCHANGED <<now, calendar, used>>, NEW d \in Ids, Exists(d), NEW row \in Row,
           row.user = bookings[d].user, UpdateRow(d, row), Go("put", d, row)
    PROVE  MirrorInv'
<1>1. bookings'[d] = row /\ \A b \in Ids \ {d} : bookings'[b] = bookings[b]
  BY DEF UpdateRow, TypeOK
<1>2. ASSUME NEW u \in CalDavUsers, u # row.user PROVE Mirrored(u, d)'
  <2>1. Mirrored(u, d)
    BY QuietFacts
  <2>2. calendar'[u][d] = Null
    BY <1>2, <2>1 DEF Mirrored
  <2> QED
    BY <1>1, <1>2, <2>2 DEF Mirrored
<1> QED
  BY <1>1, <1>2, RowIsWritten

LEMMA UpdateMirrors ==
    ASSUME TypeOK, TypeOK', MirrorInv, NEW p \in Procs, WriteUpdate(p) \/ Approve(p)
    PROVE  MirrorInv'
<1>1. /\ Quiet(p) /\ Return(p) /\ UNCHANGED <<now, calendar, used>>
      /\ req[p].id \in Ids /\ req[p].row \in Row
  BY QuietFacts, InFlight DEF WriteUpdate, Approve, At, TypeOK
<1>2. RequestKnows(p)
  BY DEF MirrorInv
<1>3. CASE WriteUpdate(p)
  <2>1. Exists(req[p].id) /\ req[p].row.user = bookings[req[p].id].user
    BY <1>2, <1>3 DEF RequestKnows, WriteUpdate, At
  <2> QED
    BY <1>1, <1>3, <2>1, PutMirrors DEF WriteUpdate
<1>4. CASE Approve(p)
  <2> DEFINE row == [req[p].row EXCEPT !.approved = TRUE]
  <2>1. Exists(req[p].id) /\ bookings[req[p].id] = req[p].row
    BY <1>2, <1>4 DEF RequestKnows, Approve, At
  <2>2. row \in Row /\ row.user = req[p].row.user
    BY <1>1 DEF Row
  <2>3. UpdateRow(req[p].id, row) /\ Go("put", req[p].id, row)
    BY <1>4 DEF Approve
  <2> HIDE DEF row
  <2> QED
    BY <1>1, <2>1, <2>2, <2>3, PutMirrors
<1> QED
  BY <1>3, <1>4

LEMMA DeclineMirrors ==
    ASSUME TypeOK, TypeOK', MirrorInv, NEW p \in Procs, Decline(p)
    PROVE  MirrorInv'
<1> SUFFICES ASSUME NEW d, d = req[p].id, NEW row, row = req[p].row
             PROVE  MirrorInv'
  OBVIOUS
<1>1. /\ Quiet(p) /\ Return(p) /\ UNCHANGED <<now, calendar, used>>
      /\ d \in Ids /\ row \in Row
  BY QuietFacts, InFlight DEF Decline, At, TypeOK
<1>2. Exists(d) /\ bookings[d] = row /\ GoDrop(d, row)
  BY DEF MirrorInv, RequestKnows, Decline, At
<1>3. bookings'[d] = Null /\ \A b \in Ids \ {d} : bookings'[b] = bookings[b]
  BY <1>1 DEF Decline, TypeOK
<1>4. ASSUME NEW u \in CalDavUsers, ~(u = row.user /\ Go("drop", d, row)) PROVE Mirrored(u, d)'
  <2>1. Mirrored(u, d)
    BY <1>1, QuietFacts
  <2>2. calendar[u][d] = Null
    BY <1>2, <1>4, <2>1 DEF Mirrored, GoDrop
  <2> QED
    BY <1>1, <1>3, <2>2 DEF Mirrored, Exists
<1>5. Go("drop", d, row) \/ UNCHANGED task
  BY <1>2 DEF GoDrop
<1> QED
  BY <1>1, <1>3, <1>4, <1>5, RowIsWritten

LEMMA DeleteMirrors ==
    ASSUME TypeOK, TypeOK', MirrorInv, NEW p \in Procs, Delete(p)
    PROVE  MirrorInv'
<1> SUFFICES ASSUME NEW d, d = req[p].id, NEW row, row = req[p].row
             PROVE  MirrorInv'
  OBVIOUS
<1>1. /\ At(p, "delete") /\ Return(p) /\ UNCHANGED <<now, calendar, used, task>>
      /\ d \in Ids /\ row \in Row
  BY InFlight DEF Delete, At, TypeOK
<1>2. bookings'[d] = Null /\ \A b \in Ids \ {d} : bookings'[b] = bookings[b]
  BY <1>1 DEF Delete, TypeOK
<1>3. RequestKnows(p)
  BY DEF MirrorInv
<1>4. \A q \in Procs : q = p \/ At(q, "idle")
  BY <1>1 DEF MirrorInv, Alone, At
<1>5. ASSUME NEW q \in Procs PROVE req'[q].pc = "idle"
  BY <1>1, <1>4 DEF Return, Idle, At, TypeOK
<1>6. \A w \in Workers :
        \/ task[w].pc = "idle"
        \/ task[w].pc = "drop" /\ task[w].id = d /\ task[w].row = row
  <2> TAKE w \in Workers
  <2>1. \/ At(p, "idle") \/ task[w].pc = "idle"
        \/ At(p, "delete") /\ task[w].pc = "drop" /\ task[w].id = req[p].id /\ task[w].row = req[p].row
    BY DEF MirrorInv, Alone
  <2>2. ~At(p, "idle")
    BY <1>1 DEF At
  <2> QED
    BY <2>1, <2>2
<1>7. Alone' /\ \A q \in Procs : RequestKnows(q)'
  <2>1. \A v, w \in Workers : task[v].pc = "idle" \/ task[w].pc = "idle" \/ v = w
    BY DEF MirrorInv, Alone
  <2> QED
    BY <1>1, <1>5, <2>1 DEF Alone, RequestKnows, At
<1>8. ASSUME NEW w \in Workers PROVE TaskKnows(w)'
  BY <1>1, <1>2, <1>6 DEF TaskKnows, Exists
<1>9. ASSUME NEW u \in CalDavUsers, NEW b \in Ids PROVE Busy(u, b)' \/ Mirrored(u, b)'
  <2>1. now <= now'
    BY <1>1, BookingConstants DEF TypeOK, BookingConstants
  <2>2. CASE ~Busy(u, b) /\ b # d
    <3>1. Mirrored(u, b)
      BY <2>2 DEF MirrorInv
    <3> QED
      BY <1>1, <1>2, <2>1, <2>2, <3>1, MirroredKept
  <2>3. CASE ~Busy(u, b) /\ b = d
    <3>1. Mirrored(u, d) /\ row.user # u
      BY <1>1, <2>3 DEF MirrorInv, Busy
    <3>2. Exists(d) /\ bookings[d] = row
      BY <1>1, <1>3 DEF RequestKnows, At
    <3>3. calendar[u][d] = Null
      BY <3>1, <3>2 DEF Mirrored
    <3> QED
      BY <1>1, <1>2, <2>3, <3>3 DEF Mirrored, Exists
  <2>4. CASE Busy(u, b) /\ \E w \in Workers : task[w].pc # "idle"
    <3>1. PICK w \in Workers : task[w].pc # "idle"
      BY <2>4
    <3>2. b = d /\ u = row.user
      BY <1>1, <1>4, <1>6, <2>4 DEF Busy, At
    <3> QED
      BY <1>1, <1>6, <3>1, <3>2 DEF Busy
  <2>5. CASE Busy(u, b) /\ \A w \in Workers : task[w].pc = "idle"
    <3>1. b = d /\ u = row.user
      BY <1>4, <2>5 DEF Busy, At
    <3>2. calendar[u][d] = Null
      BY <1>1, <1>3, <2>5, <3>1 DEF RequestKnows
    <3> QED
      BY <1>1, <1>2, <3>1, <3>2 DEF Mirrored, Exists
  <2> QED
    BY <2>2, <2>3, <2>4, <2>5
<1> QED
  BY <1>7, <1>8, <1>9 DEF MirrorInv

\* While a goroutine puts an event, no request is under way.
LEMMA PutIsAlone ==
    ASSUME MirrorInv, NEW w \in Workers, task[w].pc \in {"put", "store"}
    PROVE  /\ \A p \in Procs : At(p, "idle")
           /\ \A v \in Workers : v = w \/ task[v].pc = "idle"
           /\ \A u, b : Busy(u, b) <=> u = task[w].row.user /\ b = task[w].id
           /\ Exists(task[w].id) /\ bookings[task[w].id] = task[w].row
<1>1. \A p \in Procs : At(p, "idle")
  BY DEF MirrorInv, Alone
<1>2. \A v \in Workers : v = w \/ task[v].pc = "idle"
  BY DEF MirrorInv, Alone
<1>3. \A u, b : Busy(u, b) <=> u = task[w].row.user /\ b = task[w].id
  BY <1>1, <1>2 DEF Busy, At
<1>4. Exists(task[w].id) /\ bookings[task[w].id] = task[w].row
  BY DEF MirrorInv, TaskKnows
<1> QED
  BY <1>1, <1>2, <1>3, <1>4

LEMMA PutEventMirrors ==
    ASSUME TypeOK, TypeOK', MirrorInv, NEW w \in Workers, PutEvent(w)
    PROVE  MirrorInv'
<1> SUFFICES ASSUME NEW d, d = task[w].id, NEW row, row = task[w].row
             PROVE  MirrorInv'
  OBVIOUS
<1>1. task[w].pc = "put" /\ UNCHANGED <<bookings, used, now, req>>
  BY DEF PutEvent
<1>2. d \in Ids /\ row \in Row /\ row.user \in CalDavUsers
  BY <1>1 DEF TypeOK, Task, NoTask
<1>3. /\ task'[w].pc = "store" /\ task'[w].id = d /\ task'[w].row = row
      /\ \A v \in Workers : v = w \/ task'[v] = task[v]
  BY DEF PutEvent, TypeOK
<1>4. /\ calendar'[row.user][d] = row.slot
      /\ \A u \in CalDavUsers, b \in Ids : (u = row.user /\ b = d) \/ calendar'[u][b] = calendar[u][b]
  BY <1>2 DEF PutEvent, TypeOK
<1>5. Alone' /\ \A p \in Procs : RequestKnows(p)'
  BY <1>1, <1>3, PutIsAlone DEF Alone, RequestKnows, At
<1>6. \A v \in Workers : TaskKnows(v)'
  BY <1>1, <1>3, <1>4, PutIsAlone DEF TaskKnows, Exists
<1>7. ASSUME NEW u \in CalDavUsers, NEW b \in Ids PROVE Busy(u, b)' \/ Mirrored(u, b)'
  <2>1. CASE u = row.user /\ b = d
    BY <1>3, <2>1 DEF Busy
  <2>2. CASE ~(u = row.user /\ b = d)
    <3>1. Mirrored(u, b)
      BY <1>1, <2>2, PutIsAlone DEF MirrorInv
    <3>2. now <= now'
      BY <1>1, BookingConstants DEF TypeOK, BookingConstants
    <3> QED
      BY <1>1, <1>4, <2>2, <3>1, <3>2, MirroredKept
  <2> QED
    BY <2>1, <2>2
<1> QED
  BY <1>5, <1>6, <1>7 DEF MirrorInv

LEMMA StoreMirrors ==
    ASSUME TypeOK, TypeOK', MirrorInv, NEW w \in Workers, StoreEventId(w)
    PROVE  MirrorInv'
<1> SUFFICES ASSUME NEW d, d = task[w].id, NEW row, row = task[w].row
             PROVE  MirrorInv'
  OBVIOUS
<1>1. task[w].pc = "store" /\ UNCHANGED <<used, now, req, calendar>>
  BY DEF StoreEventId
<1>2. d \in Ids /\ row \in Row /\ row.user \in CalDavUsers
  BY <1>1 DEF TypeOK, Task, NoTask
<1>3. \A v \in Workers : task'[v].pc = "idle"
  BY <1>1, PutIsAlone DEF StoreEventId, NoTask, TypeOK
<1>4. Alone' /\ (\A p \in Procs : RequestKnows(p)') /\ (\A v \in Workers : TaskKnows(v)')
  BY <1>1, <1>3, PutIsAlone DEF Alone, RequestKnows, TaskKnows, At
<1>5. \A b \in Ids \ {d} : bookings'[b] = bookings[b]
  BY <1>2 DEF StoreEventId, UpdateRow, TypeOK
<1>6. /\ bookings'[d] # Null
      /\ bookings'[d].user = row.user /\ bookings'[d].slot = row.slot
      /\ bookings'[d].approved = row.approved /\ bookings'[d].caldav
  <2> DEFINE new == [row EXCEPT !.caldav = TRUE]
  <2>1. bookings'[d] = new
    BY <1>1, <1>2, PutIsAlone DEF StoreEventId, UpdateRow, TypeOK
  <2>2. new \in Row
    BY <1>2 DEF Row
  <2>3. /\ new.user = row.user /\ new.slot = row.slot
        /\ new.approved = row.approved /\ new.caldav
    BY <1>2 DEF Row
  <2> HIDE DEF new
  <2> QED
    BY <2>1, <2>2, <2>3, NullIsNoRow
<1>7. calendar[row.user][d] = row.slot /\ Exists(d) /\ bookings[d] = row
  BY <1>1, PutIsAlone DEF MirrorInv, TaskKnows
<1>8. ASSUME NEW u \in CalDavUsers, NEW b \in Ids PROVE Mirrored(u, b)'
  <2>1. now <= now'
    BY <1>1, BookingConstants DEF TypeOK, BookingConstants
  <2>2. CASE b # d
    <3>1. Mirrored(u, b)
      BY <1>1, <2>2, PutIsAlone DEF MirrorInv
    <3> QED
      BY <1>1, <1>5, <2>1, <2>2, <3>1, MirroredKept
  <2>3. CASE b = d /\ u = row.user
    BY <1>1, <1>6, <1>7, <2>3 DEF Mirrored, Exists
  <2>4. CASE b = d /\ u # row.user
    <3>1. Mirrored(u, d)
      BY <1>1, <2>4, PutIsAlone DEF MirrorInv
    <3>2. calendar[u][d] = Null
      BY <1>7, <2>4, <3>1 DEF Mirrored
    <3> QED
      BY <1>1, <1>6, <2>4, <3>2 DEF Mirrored
  <2> QED
    BY <2>2, <2>3, <2>4
<1> QED
  BY <1>4, <1>8 DEF MirrorInv

LEMMA DropMirrors ==
    ASSUME TypeOK, TypeOK', MirrorInv, NEW w \in Workers, DropEvent(w)
    PROVE  MirrorInv'
<1> SUFFICES ASSUME NEW d, d = task[w].id, NEW row, row = task[w].row
             PROVE  MirrorInv'
  OBVIOUS
<1>1. task[w].pc = "drop" /\ UNCHANGED <<bookings, used, now, req>>
  BY DEF DropEvent
<1>2. d \in Ids /\ row \in Row /\ row.user \in CalDavUsers
  BY <1>1 DEF TypeOK, Task, NoTask
<1>3. \A v \in Workers : v = w \/ task[v].pc = "idle"
  BY <1>1 DEF MirrorInv, Alone
<1>4. \A p \in Procs : At(p, "idle") \/ (At(p, "delete") /\ req[p].id = d /\ req[p].row = row)
  <2> TAKE p \in Procs
  <2>1. \/ At(p, "idle") \/ task[w].pc = "idle"
        \/ At(p, "delete") /\ task[w].pc = "drop" /\ task[w].id = req[p].id /\ task[w].row = req[p].row
    BY DEF MirrorInv, Alone
  <2> QED
    BY <1>1, <2>1
<1>5. \A v \in Workers : task'[v].pc = "idle"
  BY <1>3 DEF DropEvent, NoTask, TypeOK
<1>6. /\ calendar'[row.user][d] = Null
      /\ \A u \in CalDavUsers, b \in Ids : (u = row.user /\ b = d) \/ calendar'[u][b] = calendar[u][b]
  BY <1>2 DEF DropEvent, TypeOK
<1>7. Alone'
  <2>1. \A p, q \in Procs : At(p, "idle") \/ At(q, "idle") \/ p = q
    BY DEF MirrorInv, Alone
  <2> QED
    BY <1>1, <1>5, <2>1 DEF Alone, At
<1>8. ASSUME NEW p \in Procs PROVE RequestKnows(p)'
  <2>1. RequestKnows(p)
    BY DEF MirrorInv
  <2> QED
    BY <1>1, <1>4, <1>6, <2>1 DEF RequestKnows, At, Exists
<1>9. \A v \in Workers : TaskKnows(v)'
  BY <1>5 DEF TaskKnows
<1>10. ASSUME NEW u \in CalDavUsers, NEW b \in Ids PROVE Busy(u, b)' \/ Mirrored(u, b)'
  <2>1. CASE u = row.user /\ b = d /\ \E p \in Procs : At(p, "delete")
    <3>1. PICK p \in Procs : At(p, "delete")
      BY <2>1
    <3>2. req[p].id = d /\ req[p].row = row
      BY <1>4, <3>1 DEF At
    <3> QED
      BY <1>1, <2>1, <3>1, <3>2 DEF Busy, At
  <2>2. CASE u = row.user /\ b = d /\ ~\E p \in Procs : At(p, "delete")
    <3>1. ~Exists(d)
      BY <1>1, <2>2 DEF MirrorInv, TaskKnows
    <3> QED
      BY <1>1, <1>6, <2>2, <3>1 DEF Mirrored, Exists
  <2>3. CASE ~(u = row.user /\ b = d)
    <3>1. ~Busy(u, b)
      BY <1>3, <1>4, <2>3 DEF Busy, At
    <3>2. Mirrored(u, b) /\ now <= now'
      BY <1>1, <3>1, BookingConstants DEF MirrorInv, TypeOK, BookingConstants
    <3> QED
      BY <1>1, <1>6, <2>3, <3>2, MirroredKept
  <2> QED
    BY <2>1, <2>2, <2>3
<1> QED
  BY <1>7, <1>8, <1>9, <1>10 DEF MirrorInv

LEMMA PurgeMirrors ==
    ASSUME TypeOK, TypeOK', MirrorInv, Settled, PurgeOldBookings
    PROVE  MirrorInv'
<1>1. PICK S \in SUBSET {b \in Rows : IsOld(bookings[b].slot)} :
        bookings' = [b \in Ids |-> IF b \in S THEN Null ELSE bookings[b]]
  BY DEF PurgeOldBookings
<1>2. UNCHANGED <<used, now, req, task, calendar>>
  BY DEF PurgeOldBookings
<1>3. Alone'
  BY <1>2 DEF MirrorInv, Alone, At
<1>4. (\A p \in Procs : RequestKnows(p)') /\ (\A w \in Workers : TaskKnows(w)')
  BY <1>2 DEF Settled, At, RequestKnows, TaskKnows
<1>5. ASSUME NEW u \in CalDavUsers, NEW b \in Ids PROVE Mirrored(u, b)'
  <2>1. Mirrored(u, b)
    BY DEF MirrorInv, Settled, Busy, At
  <2>2. CASE b \notin S
    <3>1. now <= now'
      BY <1>2, BookingConstants DEF TypeOK, BookingConstants
    <3> QED
      BY <1>1, <1>2, <2>1, <2>2, <3>1, MirroredKept
  <2>3. CASE b \in S
    <3>1. Exists(b) /\ b \in used /\ IsOld(bookings[b].slot) /\ bookings'[b] = Null
      BY <1>1, <2>3 DEF Rows, TypeOK
    <3>2. calendar[u][b] # Null => IsOld(calendar[u][b])
      BY <2>1, <3>1 DEF Mirrored
    <3>3. calendar'[u][b] # Null => (IsOld(calendar[u][b]))'
      BY <1>2, <3>2 DEF IsOld, StartOfToday
    <3> QED
      BY <1>2, <3>1, <3>3 DEF Mirrored, Exists
  <2> QED
    BY <2>2, <2>3
<1> QED
  BY <1>3, <1>4, <1>5 DEF MirrorInv

LEMMA ClockMirrors ==
    ASSUME TypeOK, TypeOK', MirrorInv, UNCHANGED <<bookings, used, req, task, calendar>>, now <= now'
    PROVE  MirrorInv'
<1>1. Alone'
  BY DEF MirrorInv, Alone, At
<1>2. \A p \in Procs : RequestKnows(p)'
  BY DEF MirrorInv, RequestKnows, At, Exists
<1>3. \A w \in Workers : TaskKnows(w)'
  BY DEF MirrorInv, TaskKnows, At, Exists
<1>4. ASSUME NEW u \in CalDavUsers, NEW b \in Ids PROVE Busy(u, b)' \/ Mirrored(u, b)'
  <2>1. Busy(u, b)' <=> Busy(u, b)
    BY DEF Busy, At
  <2>2. Mirrored(u, b) => Mirrored(u, b)'
    BY MirroredKept
  <2> QED
    BY <2>1, <2>2 DEF MirrorInv
<1> QED
  BY <1>1, <1>2, <1>3, <1>4 DEF MirrorInv

LEMMA MirrorStep ==
    ASSUME OnBehalf = {}, TypeOK, TypeOK', MirrorInv, [UndisturbedNext]_vars
    PROVE  MirrorInv'
<1>1. ASSUME NEW p \in Procs, Settled /\ ReceiveAny(p) PROVE MirrorInv'
  BY <1>1, ReceiveMirrors
<1>2. ASSUME NEW p \in Procs, Handle(p) PROVE MirrorInv'
  BY <1>2, CheckMirrors, InsertMirrors, UpdateMirrors, DeclineMirrors, DeleteMirrors DEF Handle
<1>3. ASSUME NEW p \in Procs, At(p, "write") /\ WriteFails(p) PROVE MirrorInv'
  BY <1>3, CheckMirrors
<1>4. ASSUME NEW w \in Workers, PutEvent(w) \/ StoreEventId(w) \/ DropEvent(w) PROVE MirrorInv'
  BY <1>4, PutEventMirrors, StoreMirrors, DropMirrors
<1>5. CASE Settled /\ PurgeOldBookings
  BY <1>5, PurgeMirrors
<1>6. CASE Tick \/ UNCHANGED vars
  <2>1. UNCHANGED <<bookings, used, req, task, calendar>>
    BY <1>6 DEF Tick, vars
  <2>2. now <= now'
    BY <1>6, BookingConstants DEF Tick, vars, TypeOK, BookingConstants
  <2> QED
    BY <2>1, <2>2, ClockMirrors
<1> QED
  BY <1>1, <1>2, <1>3, <1>4, <1>5, <1>6 DEF UndisturbedNext

\* If the client waits for the goroutines of its last request, the CalDAV server answers,
\* nobody books for another and the server does not stop half-way, then, whenever nothing
\* is under way, the calendars hold the table's bookings and, at most, purged ones.
THEOREM CalendarIsKept ==
    ASSUME OnBehalf = {}
    PROVE  UndisturbedSpec => []CalendarMirrorsTable
<1>1. Init => TypeOK /\ MirrorInv
  <2>1. Init => TypeOK
    BY BookingConstants DEF Init, TypeOK, Rows, Exists, Actors, BookingConstants
  <2>2. Init => MirrorInv
    BY DEF Init, MirrorInv, Alone, RequestKnows, TaskKnows, Mirrored, Exists, At, Idle, NoTask
  <2> QED
    BY <2>1, <2>2
<1>2. UndisturbedNext => Next
  BY DEF UndisturbedNext, Next, Goroutine
<1>3. TypeOK /\ MirrorInv /\ [UndisturbedNext]_vars => TypeOK' /\ MirrorInv'
  BY <1>2, TypeStep, MirrorStep
<1>4. MirrorInv => CalendarMirrorsTable
  <2> SUFFICES ASSUME MirrorInv, Settled, NEW u \in CalDavUsers, NEW b \in Ids
               PROVE  LET booked == Exists(b) /\ bookings[b].user = u
                      IN  /\ calendar[u][b] # Null /\ ~IsOld(calendar[u][b]) =>
                               booked /\ bookings[b].slot = calendar[u][b]
                          /\ booked /\ bookings[b].approved => calendar[u][b] = bookings[b].slot
    BY DEF CalendarMirrorsTable
  <2>1. Mirrored(u, b)
    BY DEF MirrorInv, Settled, Busy, At
  <2> QED
    BY <2>1 DEF Mirrored
<1> QED
  BY <1>1, <1>3, <1>4, PTL DEF UndisturbedSpec

-----------------------------------------------------------------------------
(* The book of reservations.                                               *)

Entries == [b \in Rows |-> Entry(bookings[b])]

LEMMA EntryIsAReservation ==
    ASSUME NEW row \in Row
    PROVE  /\ Entry(row) \in Book!Reservation
           /\ Entry(row).space = row.space /\ Entry(row).slot = row.slot
           /\ Entry(row).approved = row.approved
BY DEF Row, Entry, Book!Reservation

LEMMA ConfirmedEntry ==
    ASSUME NEW row \in Row
    PROVE  Entry([row EXCEPT !.approved = TRUE]) = [Entry(row) EXCEPT !.approved = TRUE]
<1>1. PICK r \in Row : r = [row EXCEPT !.approved = TRUE]
  BY DEF Row
<1>2. r.user = row.user /\ r.space = row.space /\ r.slot = row.slot /\ r.approved = TRUE
  BY <1>1 DEF Row
<1> DEFINE confirmed == [user |-> row.user, space |-> row.space, slot |-> row.slot,
                         approved |-> TRUE]
<1>3. [Entry(row) EXCEPT !.approved = TRUE] = confirmed
  <2>1. PICK e \in Book!Reservation : e = Entry(row)
    BY EntryIsAReservation
  <2>2. e.user = row.user /\ e.space = row.space /\ e.slot = row.slot
    BY <2>1 DEF Entry
  <2>3. PICK f \in Book!Reservation : f = [e EXCEPT !.approved = TRUE]
    BY DEF Book!Reservation
  <2>4. f.user = row.user /\ f.space = row.space /\ f.slot = row.slot /\ f.approved = TRUE
    BY <2>2, <2>3 DEF Book!Reservation
  <2>5. f = confirmed
    BY <2>4 DEF Book!Reservation
  <2> QED
    BY <2>1, <2>3, <2>5
<1>4. Entry(r) = confirmed
  BY <1>2 DEF Entry
<1> QED
  BY <1>1, <1>3, <1>4

\* The table with a row written at d, and where no space is booked twice after it: the
\* book with its entry, which is free there.
LEMMA WrittenIsEntered ==
    ASSUME TypeOK, NoDoubleBooking', NEW d \in Ids, NEW row \in Row,
           bookings' = [bookings EXCEPT ![d] = row]
    PROVE  Book!Free(d, Entry(row)) /\ Book!Enter(d, Entry(row))
<1>1. /\ bookings'[d] = row /\ row # Null
      /\ \A c \in Ids \ {d} : bookings'[c] = bookings[c]
  BY NullIsNoRow DEF TypeOK
<1>2. Rows' = Rows \cup {d}
  BY <1>1 DEF Rows, Exists
<1>3. Entries' = [c \in Rows \cup {d} |-> IF c = d THEN Entry(row) ELSE Entry(bookings[c])]
  BY <1>1, <1>2 DEF Entries, Rows
<1>4. Book!Enter(d, Entry(row))
  BY <1>3 DEF Book!Enter, Entries
<1>5. ASSUME NEW c \in Rows \ {d}
      PROVE  ~ (Entries[c].space = Entry(row).space /\ Overlaps(Entry(row).slot, Entries[c].slot))
  <2>1. c \in Ids /\ bookings[c] \in Row /\ bookings'[c] = bookings[c]
    BY <1>1, <1>5 DEF Rows, Exists, TypeOK
  <2>2. ~ (bookings[c].space = row.space /\ Overlaps(row.slot, bookings[c].slot))
    <3>1. ~ Clash(d, c)'
      BY <2>1 DEF NoDoubleBooking
    <3> QED
      BY <1>1, <1>5, <2>1, <3>1 DEF Clash, Exists, Rows
  <2> QED
    BY <1>5, <2>1, <2>2, EntryIsAReservation DEF Entries
<1>6. Book!Free(d, Entry(row))
  BY <1>5 DEF Book!Free, Entries, Book!Overlaps, Overlaps
<1> QED
  BY <1>4, <1>6

\* A table with rows deleted is the book with them struck out.
LEMMA DeletedIsStruckOut ==
    ASSUME TypeOK, NEW S \in SUBSET Ids,
           \A b \in Ids : bookings'[b] = IF b \in S THEN Null ELSE bookings[b],
           UNCHANGED used
    PROVE  Book!StrikeOut(S)
<1>1. Rows' = Rows \ S /\ Rows \subseteq Ids
  BY DEF Rows, Exists
<1> QED
  BY <1>1 DEF Book!StrikeOut

\* The row that a create or update is about to write is approved if the row in the table is.
KnowsApproval(p) ==
    req[p].pc \in {"limits", "conflicts", "write"} /\ req[p].id \in Rows =>
        (req[p].row.approved <=> bookings[req[p].id].approved)

LEMMA KnowsWhenReceived ==
    ASSUME NEW p \in Procs, TypeOK, ReceiveAny(p)
    PROVE  KnowsApproval(p)'
<1>1. ASSUME NEW u \in Users, NEW f \in Users, NEW s \in Spaces, NEW t \in Slots,
             ReceiveCreate(p, u, f, s, t)
      PROVE  KnowsApproval(p)'
  <2>1. req'[p].id = Null
    BY <1>1 DEF ReceiveCreate, Receive, TypeOK
  <2>2. Null \notin Rows'
    BY BookingConstants DEF Rows, BookingConstants
  <2> QED
    BY <2>1, <2>2 DEF KnowsApproval
<1>2. ASSUME NEW u \in Users, NEW f \in Users, NEW b \in Ids, NEW s \in Spaces, NEW t \in Slots,
             ReceiveUpdate(p, u, f, b, s, t)
      PROVE  KnowsApproval(p)'
  <2> DEFINE row == [bookings[b] EXCEPT !.user = f, !.space = s, !.slot = t]
  <2>1. bookings[b] \in Row
    BY <1>2 DEF ReceiveUpdate, Exists, TypeOK
  <2>2. row.approved = bookings[b].approved
    BY <2>1 DEF Row
  <2>3. Receive(p, "limits", u, b, row) /\ bookings' = bookings
    BY <1>2 DEF ReceiveUpdate
  <2> HIDE DEF row
  <2>4. req'[p].id = b /\ req'[p].row = row
    BY <2>3 DEF Receive, TypeOK
  <2> QED
    BY <2>2, <2>3, <2>4 DEF KnowsApproval
<1>3. ASSUME NEW u \in Users, NEW b \in Ids, NEW pc \in {"approve", "decline"},
             ReceiveApproval(p, u, b, pc) \/ ReceiveDelete(p, u, b)
      PROVE  KnowsApproval(p)'
  <2>1. req'[p].pc \in {"approve", "decline", "delete"}
    BY <1>3 DEF ReceiveApproval, ReceiveDelete, Receive, TypeOK
  <2> QED
    BY <2>1 DEF KnowsApproval
<1> QED
  BY <1>1, <1>2, <1>3 DEF ReceiveAny

LEMMA KnowsApprovalStep ==
    ASSUME NEW p, OneRequest(p), TypeOK, KnowsApproval(p), [Next]_vars
    PROVE  KnowsApproval(p)'
<1> p \in Procs
  BY DEF OneRequest
<1>1. CASE Leaves(p)
  BY <1>1 DEF Leaves, KnowsApproval
<1>2. CASE Arrives(p)
  BY <1>2, KnowsWhenReceived DEF Arrives, ReceiveAny
<1>3. CASE PassesLimits(p) \/ Waits(p)
  <2>1. SameRequest(p) /\ Fewer /\ req[p].pc \in {"limits", "conflicts", "write"}
    BY <1>3 DEF PassesLimits, Waits, Fewer, At
  <2>2. ASSUME req[p].id \in Rows'
        PROVE  req[p].id \in Rows /\ bookings'[req[p].id] = bookings[req[p].id]
    BY <2>1, <2>2 DEF Fewer, Rows, Exists
  <2> QED
    BY <2>1, <2>2 DEF SameRequest, KnowsApproval
<1> QED
  BY <1>1, <1>2, <1>3, RequestAfter

\* What is about to be written over a row is, but for the purpose of the write, that row.
CopiesHold ==
    /\ \A p \in Procs : KnowsApproval(p)
    /\ \A p \in Procs : At(p, "approve") /\ Exists(req[p].id) => bookings[req[p].id] = req[p].row
    /\ \A w \in Workers : task[w].pc = "store" /\ Exists(task[w].id) => bookings[task[w].id] = task[w].row

LEMMA ReservationStep ==
    ASSUME TypeOK, CopiesHold, NoDoubleBooking', [Next]_vars
    PROVE  [Book!Next]_Book!vars
<1>1. ASSUME NEW S \in SUBSET Ids, Book!StrikeOut(S) PROVE Book!Next
  BY <1>1 DEF Book!Next
<1>2. ASSUME NEW p \in Procs, Insert(p) PROVE [Book!Next]_Book!vars
  <2> DEFINE row == [req[p].row EXCEPT !.approved = req[p].row.space \notin ApprovalSpaces]
  <2>1. PICK d \in Ids \ used : bookings' = [bookings EXCEPT ![d] = row] /\ used' = used \cup {d}
    BY <1>2 DEF Insert
  <2>2. req[p].row \in Row
    BY <1>2, InFlight DEF Insert, At
  <2>3. row \in Row /\ (row.approved <=> row.space \notin ApprovalSpaces)
    BY <2>2 DEF Row
  <2> HIDE DEF row
  <2>4. Book!Reserve(d, Entry(row))
    BY <2>1, <2>3, WrittenIsEntered, EntryIsAReservation DEF Book!Reserve
  <2> QED
    BY <2>3, <2>4, EntryIsAReservation DEF Book!Next
<1>3. ASSUME NEW p \in Procs, WriteUpdate(p) PROVE [Book!Next]_Book!vars
  <2> DEFINE d == req[p].id
             row == req[p].row
  <2>1. At(p, "write") /\ d # Null /\ UpdateRow(d, row) /\ UNCHANGED used
    BY <1>3 DEF WriteUpdate
  <2>2. d \in Ids /\ row \in Row
    BY <2>1, InFlight DEF At, TypeOK
  <2>3. CASE Exists(d)
    <3>1. bookings' = [bookings EXCEPT ![d] = row] /\ d \in Rows
      BY <2>1, <2>2, <2>3 DEF UpdateRow, Rows
    <3>2. row.approved <=> bookings[d].approved
      BY <2>1, <3>1 DEF CopiesHold, KnowsApproval, At
    <3>3. Entries[d].approved = bookings[d].approved /\ d \in DOMAIN Entries
      BY <3>1 DEF Entries, Entry
    <3>4. Book!Move(d, Entry(row))
      BY <2>1, <2>2, <3>1, <3>2, <3>3, WrittenIsEntered, EntryIsAReservation DEF Book!Move, Entries
    <3> QED
      BY <2>2, <3>4, EntryIsAReservation DEF Book!Next
  <2>4. CASE ~Exists(d)
    BY <2>1, <2>4 DEF UpdateRow, Book!vars, Rows, Exists
  <2> QED
    BY <2>3, <2>4
<1>4. ASSUME NEW p \in Procs, Approve(p) PROVE [Book!Next]_Book!vars
  <2> DEFINE d == req[p].id
             row == [req[p].row EXCEPT !.approved = TRUE]
  <2>1. At(p, "approve") /\ UpdateRow(d, row) /\ UNCHANGED used
    BY <1>4 DEF Approve
  <2>2. d \in Ids /\ req[p].row \in Row
    BY <2>1, InFlight DEF At, TypeOK
  <2>3. row \in Row
    BY <2>2 DEF Row
  <2>4. CASE Exists(d)
    <3>1. d \in Rows
      BY <2>2, <2>4 DEF Rows
    <3>2. bookings[d] = req[p].row
      BY <2>1, <2>4 DEF CopiesHold
    <3>3. Entries[d] = Entry(req[p].row) /\ d \in DOMAIN Entries
      BY <3>1, <3>2 DEF Entries
    <3>4. Entry(row) = [Entries[d] EXCEPT !.approved = TRUE]
      BY <2>2, <3>3, ConfirmedEntry
    <3>5. bookings' = [bookings EXCEPT ![d] = row]
      BY <2>1, <2>4 DEF UpdateRow
    <3>6. Book!Enter(d, Entry(row))
      <4> HIDE DEF row
      <4> QED
        BY <2>2, <2>3, <3>5, WrittenIsEntered
    <3>7. Book!Confirm(d)
      <4> HIDE DEF row
      <4> QED
        BY <2>1, <3>3, <3>4, <3>6 DEF Book!Confirm, Entries
    <3> QED
      BY <2>2, <3>7 DEF Book!Next
  <2>5. CASE ~Exists(d)
    BY <2>1, <2>5 DEF UpdateRow, Book!vars, Rows, Exists
  <2> QED
    BY <2>4, <2>5
<1>5. ASSUME NEW p \in Procs, Decline(p) \/ Delete(p) PROVE [Book!Next]_Book!vars
  <2>1. /\ bookings' = [bookings EXCEPT ![req[p].id] = Null] /\ UNCHANGED used
        /\ req[p].id \in Ids
    BY <1>5, InFlight DEF Decline, Delete, At, TypeOK
  <2> DEFINE S == {req[p].id}
  <2>2. S \in SUBSET Ids /\ \A b \in Ids : bookings'[b] = IF b \in S THEN Null ELSE bookings[b]
    BY <2>1 DEF TypeOK
  <2> HIDE DEF S
  <2>3. Book!StrikeOut(S)
    BY <2>1, <2>2, DeletedIsStruckOut
  <2> QED
    BY <1>1, <2>2, <2>3
<1>6. CASE PurgeOldBookings
  <2>1. PICK S \in SUBSET Rows :
          /\ bookings' = [b \in Ids |-> IF b \in S THEN Null ELSE bookings[b]]
          /\ UNCHANGED used
    BY <1>6 DEF PurgeOldBookings
  <2>2. S \subseteq Ids
    BY DEF Rows
  <2>3. Book!StrikeOut(S)
    BY <2>1, <2>2, DeletedIsStruckOut
  <2> QED
    BY <1>1, <2>2, <2>3
<1>7. CASE UNCHANGED <<bookings, used>>
  BY <1>7 DEF Book!vars, Rows, Exists
<1>8. ASSUME NEW p \in Procs, ReceiveAny(p) \/ CheckLimits(p) \/ CheckConflicts(p) \/ WriteFails(p)
      PROVE  UNCHANGED <<bookings, used>>
  BY <1>8 DEF ReceiveAny, ReceiveCreate, ReceiveUpdate, ReceiveApproval, ReceiveDelete,
       CheckLimits, CheckConflicts, WriteFails
<1>9. ASSUME NEW w \in Workers, PutEvent(w) \/ CalDavFails(w) \/ DropEvent(w)
      PROVE  UNCHANGED <<bookings, used>>
  BY <1>9 DEF PutEvent, CalDavFails, DropEvent
<1>10. ASSUME NEW w \in Workers, StoreEventId(w) PROVE UNCHANGED Book!vars
  <2> DEFINE d == task[w].id
             row == [task[w].row EXCEPT !.caldav = TRUE]
  <2>1. task[w].pc = "store" /\ UpdateRow(d, row) /\ UNCHANGED used
    BY <1>10 DEF StoreEventId
  <2>2. CASE Exists(d)
    <3>1. d \in Ids /\ task[w].row \in Row
      BY <2>1 DEF TypeOK, Task, NoTask
    <3>2. bookings[d] = task[w].row
      BY <2>1, <2>2 DEF CopiesHold
    <3>3. row \in Row /\ Entry(row) = Entry(bookings[d])
      BY <3>1, <3>2 DEF Row, Entry
    <3> HIDE DEF row
    <3>4. bookings'[d] = row /\ \A b \in Ids \ {d} : bookings'[b] = bookings[b]
      BY <2>1, <2>2, <3>1 DEF UpdateRow, TypeOK
    <3>5. Rows' = Rows
      BY <2>2, <3>1, <3>3, <3>4, NullIsNoRow DEF Rows, Exists
    <3>6. \A b \in Rows : Entry(bookings'[b]) = Entry(bookings[b])
      BY <3>3, <3>4 DEF Rows
    <3> QED
      BY <2>1, <3>5, <3>6 DEF Book!vars
  <2>3. CASE ~Exists(d)
    BY <2>1, <2>3 DEF UpdateRow, Book!vars, Rows, Exists
  <2> QED
    BY <2>2, <2>3
<1>11. CASE Tick \/ Restart \/ UNCHANGED vars
  BY <1>7, <1>11 DEF Tick, Restart, vars
<1> QED
  BY <1>2, <1>3, <1>4, <1>5, <1>6, <1>7, <1>8, <1>9, <1>10, <1>11 DEF Next, Handle, Goroutine

\* One request at a time and no calendar: for any users, spaces, stays and settings, the
\* statements of create, update, approve, delete and the purge implement a book of
\* reservations, in which each is made, moved, confirmed and struck out at once.
THEOREM ReservationsAreKept ==
    ASSUME NEW p, OneRequest(p)
    PROVE  Spec => KeepsReservations
<1>1. Init => Book!Init /\ KnowsApproval(p)
  <2> SUFFICES ASSUME Init PROVE Book!Init /\ KnowsApproval(p)
    OBVIOUS
  <2>1. Rows = {} /\ used = {}
    BY DEF Init, Rows, Exists
  <2>2. Book!Init
    BY <2>1 DEF Book!Init
  <2> QED
    BY <2>1, <2>2 DEF KnowsApproval
<1>2. TypeOK /\ KnowsApproval(p) /\ [Next]_vars => KnowsApproval(p)'
  BY KnowsApprovalStep
<1>3. TypeOK /\ View /\ Undisturbed(p) /\ KnowsApproval(p) => CopiesHold
  <2> SUFFICES ASSUME TypeOK, View, Undisturbed(p), KnowsApproval(p) PROVE CopiesHold
    OBVIOUS
  <2>1. At(p, "approve") /\ Exists(req[p].id) => bookings[req[p].id] = req[p].row
    <3> SUFFICES ASSUME At(p, "approve"), Exists(req[p].id) PROVE bookings[req[p].id] = req[p].row
      OBVIOUS
    <3>1. p \in Procs /\ req[p].id \in Rows
      BY InFlight DEF OneRequest, At, TypeOK, Rows
    <3> QED
      BY <3>1 DEF Undisturbed, View, RequestView
  <2>2. \A w \in Workers : task[w].pc = "idle"
    BY NoGoroutine DEF OneRequest, NoTask
  <2> QED
    BY <2>1, <2>2 DEF OneRequest, CopiesHold
<1>4. TypeOK /\ CopiesHold /\ NoDoubleBooking' /\ [Next]_vars => [Book!Next]_Book!vars
  BY ReservationStep
<1>5. Spec => []NoDoubleBooking
  BY OneAtATime DEF OneRequest
<1> QED
  BY <1>1, <1>2, <1>3, <1>4, <1>5, UndisturbedInvariant, ViewInvariant, PTL
     DEF Spec, KeepsReservations, Book!Spec

\* The same for clients that wait, with calendars: nothing is under way but one request and its
\* goroutine, and nobody writes while another holds a copy.
NothingDirty == \A a \in Actors : dirty[a] = {}
WaitInv == Alone /\ NothingDirty /\ (\A p \in Procs : KnowsApproval(p)) /\ NoDoubleBooking

\* A step of one request that does not return leaves the table and the other requests alone.
LEMMA OtherRequestsStay ==
    ASSUME TypeOK, NEW p \in Procs, NEW q \in Procs \ {p},
           ReceiveAny(p) \/ CheckLimits(p) \/ CheckConflicts(p) \/ WriteFails(p)
    PROVE  req'[q] = req[q] /\ UNCHANGED bookings
<1>1. ASSUME NEW r, req' = [req EXCEPT ![p] = r] PROVE req'[q] = req[q]
  <2>1. req \in [Procs -> Request \cup {Idle}]
    BY DEF TypeOK
  <2> QED
    BY <1>1, <2>1
<1>2. CASE ReceiveAny(p)
  <2>1. UNCHANGED bookings /\ \E pc, by, id, row : Receive(p, pc, by, id, row)
    BY <1>2 DEF ReceiveAny, ReceiveCreate, ReceiveUpdate, ReceiveApproval, ReceiveDelete
  <2> QED
    BY <1>1, <2>1 DEF Receive
<1>3. CASE CheckLimits(p) \/ CheckConflicts(p) \/ WriteFails(p)
  <2>1. /\ UNCHANGED bookings
        /\ Goto(p, "conflicts") \/ Goto(p, "write") \/ Return(p)
    <3>1. CASE CheckLimits(p)
      BY <3>1 DEF CheckLimits
    <3>2. CASE CheckConflicts(p)
      BY <3>2 DEF CheckConflicts
    <3>3. CASE WriteFails(p)
      BY <3>3 DEF WriteFails
    <3> QED
      BY <1>3, <3>1, <3>2, <3>3
  <2> QED
    BY <1>1, <2>1 DEF Goto, Return
<1> QED
  BY <1>2, <1>3

LEMMA AloneStep ==
    ASSUME TypeOK, TypeOK', Alone, [UndisturbedNext]_vars
    PROVE  Alone'
<1>1. ASSUME NEW p \in Procs, Settled, ReceiveAny(p) PROVE Alone'
  <2>1. \A q \in Procs \ {p} : At(q, "idle")'
    BY <1>1, OtherRequestsStay DEF Settled, At
  <2>2. CASE UNCHANGED task
    BY <1>1, <2>1, <2>2 DEF Settled, Alone, At
  <2>3. ASSUME NEW u \in Users, NEW b \in Ids, ReceiveDelete(p, u, b), ~UNCHANGED task
        PROVE  Alone'
    <3>1. PICK w \in Workers : task' = [task EXCEPT ![w] = [pc |-> "drop", id |-> b, row |-> bookings[b]]]
      BY <2>3 DEF ReceiveDelete, GoDrop, Go
    <3>2. req'[p].pc = "delete" /\ req'[p].id = b /\ req'[p].row = bookings[b]
      BY <2>3 DEF ReceiveDelete, Receive, TypeOK
    <3>3. /\ task'[w].pc = "drop" /\ task'[w].id = b /\ task'[w].row = bookings[b]
          /\ \A v \in Workers \ {w} : task'[v].pc = "idle"
      BY <1>1, <3>1 DEF Settled, TypeOK
    <3> QED
      BY <2>1, <3>2, <3>3 DEF Alone, At
  <2> QED
    BY <1>1, <2>2, <2>3 DEF ReceiveAny, ReceiveCreate, ReceiveUpdate, ReceiveApproval
<1>2. ASSUME NEW p \in Procs, req[p].pc \in {"limits", "conflicts", "write", "approve", "decline"}
      PROVE  /\ \A q \in Procs \ {p} : req[q].pc = "idle"
             /\ \A w \in Workers : task[w].pc = "idle"
  BY <1>2 DEF Alone, At
<1>3. ASSUME NEW p \in Procs, CheckLimits(p) \/ CheckConflicts(p) \/ (At(p, "write") /\ WriteFails(p))
      PROVE  Alone'
  <2>1. /\ UNCHANGED task /\ \A q \in Procs \ {p} : req'[q] = req[q]
        /\ req[p].pc \in {"limits", "conflicts", "write"}
    <3>1. \A q \in Procs \ {p} : req'[q] = req[q]
      BY <1>3, OtherRequestsStay
    <3>2. UNCHANGED task /\ req[p].pc \in {"limits", "conflicts", "write"}
      BY <1>3 DEF CheckLimits, CheckConflicts, WriteFails, At
    <3> QED
      BY <3>1, <3>2
  <2> QED
    BY <1>2, <2>1 DEF Alone, At
<1>4. ASSUME NEW p \in Procs, Insert(p) \/ WriteUpdate(p) \/ Approve(p) \/ Decline(p)
      PROVE  Alone'
  <2>1. Return(p) /\ req[p].pc \in {"write", "approve", "decline"}
    BY <1>4 DEF Insert, WriteUpdate, Approve, Decline, At
  <2>2. \A q \in Procs : req'[q].pc = "idle"
    BY <1>2, <2>1 DEF Return, Idle, TypeOK
  <2>3. UNCHANGED task \/ \E w \in Workers : \E t : task' = [task EXCEPT ![w] = t]
    BY <1>4 DEF Insert, WriteUpdate, Approve, Decline, Go, GoDrop
  <2>4. \E w : \A v \in Workers : v # w => task'[v].pc = "idle"
    BY <1>2, <2>1, <2>3 DEF TypeOK
  <2> QED
    BY <2>2, <2>4 DEF Alone, At
<1>5. ASSUME NEW p \in Procs, Delete(p) PROVE Alone'
  BY <1>5 DEF Delete, Return, Idle, Alone, At, TypeOK
<1>6. ASSUME NEW w \in Workers, PutEvent(w) \/ StoreEventId(w) \/ DropEvent(w) PROVE Alone'
  <2>1. /\ UNCHANGED req /\ \A v \in Workers \ {w} : task'[v] = task[v]
        /\ task[w].pc # "idle"
        /\ task[w].pc = "put" \/ task'[w].pc = "idle"
    BY <1>6 DEF PutEvent, StoreEventId, DropEvent, NoTask, TypeOK
  <2> QED
    BY <2>1 DEF Alone, At
<1>7. CASE PurgeOldBookings \/ Tick \/ UNCHANGED vars
  <2>1. UNCHANGED <<req, task>>
    BY <1>7 DEF PurgeOldBookings, Tick, vars
  <2> QED
    BY <2>1 DEF Alone, At
<1> QED
  BY <1>1, <1>3, <1>4, <1>5, <1>6, <1>7 DEF UndisturbedNext, Handle

LEMMA NothingGetsDirty ==
    ASSUME TypeOK, TypeOK', Alone, NothingDirty, [UndisturbedNext]_vars
    PROVE  NothingDirty'
<1> SUFFICES ASSUME NEW a \in Actors PROVE dirty'[a] = {}
  BY DEF NothingDirty, Actors
<1>1. ASSUME NEW S, Writes(S), S = {} \/ ~Holding(a) \/ ~Holding(a)'
      PROVE  dirty'[a] = {}
  BY <1>1 DEF Writes, NothingDirty
<1>2. CASE UNCHANGED vars
  BY <1>2 DEF vars, NothingDirty
<1>3. CASE Writes({})
  BY <1>1, <1>3
<1>4. ASSUME NEW p \in Procs, Insert(p) \/ WriteUpdate(p) \/ Approve(p) \/ Decline(p) \/ Delete(p)
      PROVE  dirty'[a] = {}
  <2>1. Return(p) /\ ~At(p, "idle") /\ \E S : Writes(S)
    BY <1>4 DEF Insert, WriteUpdate, Approve, Decline, Delete, At
  <2>2. CASE a = p
    <3>1. ~Holding(a)'
      BY <2>1, <2>2, BookingConstants DEF Return, Idle, Holding, TypeOK, BookingConstants
    <3> QED
      BY <1>1, <2>1, <3>1
  <2>3. CASE a # p
    <3>1. ~Holding(a)
      BY <2>1, <2>3 DEF Alone, At, Holding
    <3> QED
      BY <1>1, <2>1, <3>1
  <2> QED
    BY <2>2, <2>3
<1>5. ASSUME NEW w \in Workers, StoreEventId(w) PROVE dirty'[a] = {}
  <2>1. task[w].pc = "store" /\ task' = [task EXCEPT ![w] = NoTask] /\ \E S : Writes(S)
    BY <1>5 DEF StoreEventId
  <2>2. CASE a = w
    <3>1. ~Holding(a)'
      BY <2>1, <2>2, BookingConstants DEF NoTask, Holding, TypeOK, BookingConstants
    <3> QED
      BY <1>1, <2>1, <3>1
  <2>3. CASE a # w
    <3>1. ~Holding(a)
      BY <2>1, <2>3 DEF Alone, At, Holding
    <3> QED
      BY <1>1, <2>1, <3>1
  <2> QED
    BY <2>2, <2>3
<1>6. CASE Settled /\ PurgeOldBookings
  <2>1. ~Holding(a) /\ \E S : Writes(S)
    BY <1>6 DEF Settled, Holding, At, PurgeOldBookings
  <2> QED
    BY <1>1, <2>1
<1>7. ASSUME NEW p \in Procs, ReceiveAny(p) \/ CheckLimits(p) \/ CheckConflicts(p) \/ WriteFails(p)
      PROVE  Writes({})
  BY <1>7 DEF ReceiveAny, ReceiveCreate, ReceiveUpdate, ReceiveApproval, ReceiveDelete,
              CheckLimits, CheckConflicts, WriteFails
<1>8. ASSUME NEW w \in Workers, PutEvent(w) \/ DropEvent(w) PROVE Writes({})
  BY <1>8 DEF PutEvent, DropEvent
<1>9. Tick => Writes({})
  BY DEF Tick
<1> QED
  BY <1>2, <1>3, <1>4, <1>5, <1>6, <1>7, <1>8, <1>9 DEF UndisturbedNext, Handle

LEMMA ApprovalIsKnown ==
    ASSUME TypeOK, TypeOK', Alone, NEW p \in Procs, KnowsApproval(p), [UndisturbedNext]_vars
    PROVE  KnowsApproval(p)'
<1>1. CASE UNCHANGED bookings /\ req'[p].pc = "idle"
  BY <1>1 DEF KnowsApproval
<1>2. CASE req'[p] = req[p] /\ req[p].pc = "idle"
  BY <1>2 DEF KnowsApproval
<1>3. CASE req'[p] = req[p] /\ UNCHANGED bookings
  BY <1>3 DEF KnowsApproval, Rows, Exists
<1>4. ASSUME NEW q \in Procs, Settled, ReceiveAny(q) PROVE KnowsApproval(p)'
  <2>1. CASE q = p
    BY <1>4, <2>1, KnowsWhenReceived
  <2>2. CASE q # p
    <3>1. req'[p] = req[p] /\ UNCHANGED bookings
      BY <1>4, <2>2, OtherRequestsStay
    <3> QED
      BY <1>3, <3>1
  <2> QED
    BY <2>1, <2>2
<1>5. ASSUME NEW q \in Procs, CheckLimits(q) \/ CheckConflicts(q) PROVE KnowsApproval(p)'
  <2>1. /\ UNCHANGED bookings /\ req[q].pc \in {"limits", "conflicts"}
        /\ Goto(q, "conflicts") \/ Goto(q, "write") \/ Return(q)
    <3>1. CASE CheckLimits(q)
      BY <3>1 DEF CheckLimits, At
    <3>2. CASE CheckConflicts(q)
      BY <3>2 DEF CheckConflicts, At
    <3> QED
      BY <1>5, <3>1, <3>2
  <2>2. \/ req'[p].pc = "idle"
        \/ req'[p] = req[p]
        \/ /\ req[p].pc \in {"limits", "conflicts"}
           /\ req'[p].id = req[p].id /\ req'[p].row = req[p].row
    <3>1. p \in DOMAIN req /\ DOMAIN req[p] = {"pc", "by", "id", "row"}
      BY DEF TypeOK, Request, Idle
    <3>2. CASE q # p
      BY <1>5, <3>2, OtherRequestsStay
    <3>3. CASE q = p /\ \E pc : Goto(q, pc)
      BY <2>1, <3>1, <3>3 DEF Goto
    <3>4. CASE q = p /\ Return(q)
      BY <3>1, <3>4 DEF Return, Idle
    <3> QED
      BY <2>1, <3>2, <3>3, <3>4
  <2> QED
    BY <2>1, <2>2 DEF KnowsApproval, Rows, Exists
<1>6. ASSUME NEW q \in Procs, ~At(q, "idle"), Return(q) PROVE KnowsApproval(p)'
  <2>1. req'[p].pc = "idle"
    BY <1>6 DEF Alone, At, Return, Idle, TypeOK
  <2> QED
    BY <2>1 DEF KnowsApproval
<1>7. ASSUME NEW q \in Procs,
             Insert(q) \/ WriteUpdate(q) \/ Approve(q) \/ Decline(q) \/ Delete(q) \/ WriteFails(q)
      PROVE  ~At(q, "idle") /\ Return(q)
  BY <1>7 DEF Insert, WriteUpdate, Approve, Decline, Delete, WriteFails, At
<1>8. ASSUME NEW w \in Workers, StoreEventId(w) PROVE KnowsApproval(p)'
  <2>1. req'[p] = req[p] /\ req[p].pc \in {"idle", "delete"}
    BY <1>8 DEF StoreEventId, Alone, At
  <2> QED
    BY <2>1 DEF KnowsApproval
<1>9. CASE Settled /\ PurgeOldBookings
  BY <1>2, <1>9 DEF Settled, At, PurgeOldBookings
<1>10. CASE Tick \/ UNCHANGED vars \/ \E w \in Workers : PutEvent(w) \/ DropEvent(w)
  BY <1>3, <1>10 DEF Tick, vars, PutEvent, DropEvent
<1> QED
  BY <1>4, <1>5, <1>6, <1>7, <1>8, <1>9, <1>10 DEF UndisturbedNext, Handle

LEMMA WaitStep ==
    ASSUME TypeOK, TypeOK', View, WaitInv, [UndisturbedNext]_vars
    PROVE  WaitInv'
<1>1. Alone' /\ NothingDirty' /\ \A p \in Procs : KnowsApproval(p)'
  BY AloneStep, NothingGetsDirty, ApprovalIsKnown DEF WaitInv
<1>2. ASSUME NEW b \in Ids, NEW c \in Ids, Clash(b, c)' PROVE FALSE
  <2>1. ~Clash(b, c)
    BY DEF WaitInv, NoDoubleBooking
  <2>2. CASE UNCHANGED vars
    BY <1>2, <2>1, <2>2 DEF vars, Clash, Exists
  <2>3. CASE UndisturbedNext
    <3>1. Next
      BY <2>3 DEF UndisturbedNext, Next, Goroutine
    <3>2. StaleWriter(b, c)
      BY <1>2, <2>1, <3>1, ClashStep
    <3> QED
      BY <3>2 DEF StaleWriter, WaitInv, NothingDirty
  <2> QED
    BY <2>2, <2>3
<1> QED
  BY <1>1, <1>2 DEF WaitInv, NoDoubleBooking

\* Clients that wait for the answer and the goroutines of their last request, with calendars
\* and bookings on behalf of others: they keep a book of reservations, too.
THEOREM WaitingKeepsReservations == UndisturbedSpec => KeepsReservations
<1>1. Init => TypeOK /\ View /\ WaitInv /\ Book!Init
  <2> SUFFICES ASSUME Init PROVE TypeOK /\ View /\ WaitInv /\ Book!Init
    OBVIOUS
  <2>1. TypeOK
    BY BookingConstants DEF Init, TypeOK, Rows, Exists, Actors, BookingConstants
  <2>2. Rows = {} /\ used = {} /\ (\A p \in Procs : req[p] = Idle) /\ \A w \in Workers : task[w] = NoTask
    BY DEF Init, Rows, Exists
  <2>3. View
    BY <2>2 DEF View, RequestView, GoroutineView, At, Idle, NoTask
  <2>4. Alone
    BY <2>2 DEF Alone, At, Idle, NoTask
  <2>5. NothingDirty /\ NoDoubleBooking
    BY DEF Init, NothingDirty, Actors, NoDoubleBooking, Clash, Exists
  <2>6. Book!Init
    BY <2>2 DEF Book!Init
  <2> QED
    BY <2>1, <2>2, <2>3, <2>4, <2>5, <2>6 DEF WaitInv, KnowsApproval
<1>2. UndisturbedNext => Next
  BY DEF UndisturbedNext, Next, Goroutine
<1>3. TypeOK /\ View /\ WaitInv /\ [UndisturbedNext]_vars => TypeOK' /\ View' /\ WaitInv'
  <2> SUFFICES ASSUME TypeOK, View, WaitInv, [UndisturbedNext]_vars PROVE TypeOK' /\ View' /\ WaitInv'
    OBVIOUS
  <2>1. TypeOK' /\ View'
    BY <1>2, TypeStep, ViewStep
  <2> QED
    BY <2>1, WaitStep
<1>4. TypeOK /\ View /\ WaitInv => CopiesHold
  <2> SUFFICES ASSUME TypeOK, View, WaitInv PROVE CopiesHold
    OBVIOUS
  <2>1. ASSUME NEW p \in Procs, At(p, "approve") PROVE bookings[req[p].id] = req[p].row
    <3>1. dirty[p] = {}
      BY DEF WaitInv, NothingDirty, Actors
    <3> QED
      BY <2>1, <3>1 DEF View, RequestView
  <2>2. ASSUME NEW w \in Workers, task[w].pc = "store", Exists(task[w].id)
        PROVE  bookings[task[w].id] = task[w].row
    <3>1. dirty[w] = {}
      BY DEF WaitInv, NothingDirty, Actors
    <3> QED
      BY <2>2, <3>1 DEF View, GoroutineView, Exists
  <2> QED
    BY <2>1, <2>2 DEF WaitInv, CopiesHold
<1>5. TypeOK /\ CopiesHold /\ NoDoubleBooking' /\ [UndisturbedNext]_vars => [Book!Next]_Book!vars
  BY <1>2, ReservationStep
<1> QED
  BY <1>1, <1>3, <1>4, <1>5, PTL DEF UndisturbedSpec, WaitInv, KeepsReservations, Book!Spec
=============================================================================

--------------------------- MODULE RecurringProofs ---------------------------
(***************************************************************************)
(* Series and their bookings, without a foreign key and without a          *)
(* transaction.                                                            *)
(*                                                                         *)
(* - Every statement finds what the one before it left for it, for any     *)
(*   number of requests, goroutines and purges.                            *)
(* - What the precheck announces, create books.                            *)
(* - With one request, no purge and no CalDAV, a booking never refers to a *)
(*   series that is gone: that rests on the order of the statements.       *)
(* - With any number of requests that create and delete, with the purge    *)
(*   and the goroutines, no series is left without a booking, and a        *)
(*   deleted one leaves no booking in the future.                          *)
(***************************************************************************)
EXTENDS MCRecurring, OperatorProofs

\* CreateBookings ends only for weekdays that come in order.
AllInOrder == \A e \in Recurrences : InOrder(e)

-----------------------------------------------------------------------------
(* The loop of create over the occurrences.                                *)

Bookable(d) == IsValid(d, 0) /\ GetConflicts(d, Null) = {}

IsFilter(days, D, f) ==
    f = [n \in D |-> IF n = 0 THEN <<>>
                     ELSE IF IsValid(days[n], 0) /\ GetConflicts(days[n], Null) = {}
                          THEN Append(f[n - 1], days[n])
                          ELSE f[n - 1]]

LEMMA FilterExists ==
    ASSUME NEW days, NEW k \in Nat
    PROVE  \E f : IsFilter(days, 0 .. k, f)
<1> DEFINE Bad == {n \in Nat : ~ \E f : IsFilter(days, 0 .. n, f)}
<1>1. 0 \notin Bad
  <2> DEFINE f == [n \in 0 .. 0 |-> <<>>]
  <2>1. IsFilter(days, 0 .. 0, f)
    BY DEF IsFilter
  <2> QED
    BY <2>1
<1>2. ASSUME NEW n \in Nat, n \notin Bad PROVE n + 1 \notin Bad
  <2>1. PICK f : IsFilter(days, 0 .. n, f)
    BY <1>2
  <2> DEFINE g == [m \in 0 .. n + 1 |->
                     IF m = 0 THEN <<>>
                     ELSE IF IsValid(days[m], 0) /\ GetConflicts(days[m], Null) = {}
                          THEN Append(f[m - 1], days[m])
                          ELSE f[m - 1]]
  <2>2. \A m \in 0 .. n : m \in 0 .. n + 1
    OBVIOUS
  <2>3. \A m \in 0 .. n : g[m] = f[m]
    BY <2>1, <2>2 DEF IsFilter
  <2>4. \A m \in 0 .. n + 1 : m # 0 => m - 1 \in 0 .. n
    OBVIOUS
  <2>5. \A m \in 0 .. n + 1 : m # 0 => g[m - 1] = f[m - 1]
    <3> HIDE DEF g
    <3> QED
      BY <2>3, <2>4
  <2>6. g = [m \in 0 .. n + 1 |->
                     IF m = 0 THEN <<>>
                     ELSE IF IsValid(days[m], 0) /\ GetConflicts(days[m], Null) = {}
                          THEN Append(g[m - 1], days[m])
                          ELSE g[m - 1]]
    BY <2>5
  <2>7. IsFilter(days, 0 .. n + 1, g)
    BY <2>6 DEF IsFilter
  <2> QED
    BY <2>7
<1>3. Bad = {}
  <2> SUFFICES ASSUME Bad # {} PROVE FALSE
    OBVIOUS
  <2>1. Bad \in SUBSET Nat
    OBVIOUS
  <2> HIDE DEF Bad
  <2>2. PICK m \in Bad : \A n \in Bad : m <= n
    BY <2>1, LeastNatural
  <2>3. m # 0 /\ m \in Nat
    BY <1>1, <2>1, <2>2
  <2>4. m - 1 \in Nat /\ m - 1 \notin Bad /\ (m - 1) + 1 = m
    BY <2>1, <2>2, <2>3
  <2> QED
    BY <1>2, <2>2, <2>4
<1> QED
  BY <1>3

LEMMA FilterKeeps ==
    ASSUME NEW days \in Seq(Nat), NEW f, IsFilter(days, 0 .. Len(days), f)
    PROVE  /\ f[Len(days)] \in Seq(Nat)
           /\ \A k \in 1 .. Len(days) : Bookable(days[k]) => days[k] \in Range(f[Len(days)])
<1> DEFINE Good(n) == /\ f[n] \in Seq(Nat)
                      /\ \A k \in 1 .. n : Bookable(days[k]) => days[k] \in Range(f[n])
           Bad == {n \in 0 .. Len(days) : ~Good(n)}
<1>1. \A n \in 0 .. Len(days) :
         f[n] = IF n = 0 THEN <<>>
                ELSE IF IsValid(days[n], 0) /\ GetConflicts(days[n], Null) = {}
                     THEN Append(f[n - 1], days[n])
                     ELSE f[n - 1]
  BY DEF IsFilter
<1>2. Len(days) \in Nat
  OBVIOUS
<1>3. Good(0)
  <2>1. 0 \in 0 .. Len(days)
    BY <1>2
  <2>2. f[0] = <<>>
    BY <1>1, <2>1
  <2>3. <<>> \in Seq(Nat) /\ 1 .. 0 = {}
    OBVIOUS
  <2> QED
    BY <2>2, <2>3
<1>4. ASSUME NEW n \in 1 .. Len(days), Good(n - 1) PROVE Good(n)
  <2>1. f[n] = IF Bookable(days[n]) THEN Append(f[n - 1], days[n]) ELSE f[n - 1]
    <3>1. n \in 0 .. Len(days) /\ n # 0
      BY <1>2
    <3>2. f[n] = IF n = 0 THEN <<>>
                 ELSE IF Bookable(days[n]) THEN Append(f[n - 1], days[n]) ELSE f[n - 1]
      BY <1>1, <3>1 DEF Bookable
    <3> QED
      BY <3>1, <3>2
  <2>2. days[n] \in Nat /\ f[n - 1] \in Seq(Nat)
    BY <1>4
  <2>3. \A k \in 1 .. n : k = n \/ k \in 1 .. n - 1
    BY <1>2
  <2>4. CASE Bookable(days[n])
    <3>1. f[n] = Append(f[n - 1], days[n])
      BY <2>1, <2>4
    <3>2. f[n] \in Seq(Nat) /\ days[n] \in Range(f[n]) /\ \A x \in Range(f[n - 1]) : x \in Range(f[n])
      <4>1. \A s \in Seq(Nat), d \in Nat :
               /\ Append(s, d) \in Seq(Nat) /\ Len(Append(s, d)) = Len(s) + 1
               /\ Append(s, d)[Len(s) + 1] = d
               /\ \A i \in 1 .. Len(s) : Append(s, d)[i] = s[i]
        OBVIOUS
      <4>2. \A s \in Seq(Nat) : DOMAIN s = 1 .. Len(s) /\ Len(s) \in Nat
        OBVIOUS
      <4>3. ASSUME NEW s \in Seq(Nat), NEW d \in Nat
            PROVE  d \in Range(Append(s, d)) /\ \A x \in Range(s) : x \in Range(Append(s, d))
        <5>1. \A i \in 1 .. Len(s) : i \in 1 .. Len(s) + 1
          BY <4>2
        <5>2. Len(s) + 1 \in 1 .. Len(s) + 1
          BY <4>2
        <5>3. DOMAIN Append(s, d) = 1 .. Len(s) + 1 /\ DOMAIN s = 1 .. Len(s)
          BY <4>1, <4>2
        <5> QED
          BY <4>1, <5>1, <5>2, <5>3 DEF Range
      <4> QED
        BY <2>2, <3>1, <4>1, <4>3
    <3> QED
      BY <1>4, <2>3, <3>2
  <2>5. CASE ~Bookable(days[n])
    <3>1. f[n] = f[n - 1]
      BY <2>1, <2>5
    <3> QED
      BY <1>4, <2>3, <2>5, <3>1
  <2> QED
    BY <2>4, <2>5
<1>5. Bad = {}
  <2> SUFFICES ASSUME Bad # {} PROVE FALSE
    OBVIOUS
  <2>1. Bad \in SUBSET Nat
    BY <1>2
  <2>2. PICK m \in Bad : \A n \in Bad : m <= n
    <3> HIDE DEF Bad
    <3> QED
      BY <2>1, LeastNatural
  <2>3. m \in 0 .. Len(days) /\ ~Good(m)
    OBVIOUS
  <2> HIDE DEF Good
  <2>4. m \in 1 .. Len(days) /\ m - 1 \in 0 .. Len(days)
    BY <1>2, <1>3, <2>3
  <2>5. m - 1 \in Bad
    BY <1>4, <2>3, <2>4
  <2> HIDE DEF Bad
  <2> QED
    BY <2>1, <2>2, <2>5
<1>6. Good(Len(days))
  <2> HIDE DEF Good
  <2>1. Len(days) \in 0 .. Len(days)
    BY <1>2
  <2> QED
    BY <1>5, <2>1
<1> QED
  BY <1>6

\* create books what passes the check, of the days the recurrence names.
LEMMA ValidAreBooked ==
    ASSUME NEW e, InOrder(e)
    PROVE  LET days == CreateBookings(e)
           IN  /\ days \in Seq(Nat) /\ ValidBookings(e) \in Seq(Nat)
               /\ \A k \in 1 .. Len(days) : Bookable(days[k]) => days[k] \in Range(ValidBookings(e))
<1> DEFINE days == CreateBookings(e)
           f == CHOOSE g : IsFilter(days, 0 .. Len(days), g)
<1>1. days \in Seq(Nat) /\ Len(days) \in Nat
  BY OccurrencesAreBooked
<1>2. ValidBookings(e) = f[Len(days)]
  BY DEF ValidBookings, IsFilter
<1> HIDE DEF days
<1>3. IsFilter(days, 0 .. Len(days), f)
  BY <1>1, FilterExists
<1> HIDE DEF f
<1>4. /\ f[Len(days)] \in Seq(Nat)
      /\ \A k \in 1 .. Len(days) : Bookable(days[k]) => days[k] \in Range(f[Len(days)])
  BY <1>1, <1>3, FilterKeeps
<1> QED
  BY <1>1, <1>2, <1>4 DEF days
-----------------------------------------------------------------------------
(* Types, and what a request keeps between its statements.                 *)

AtSeries == {"bookings", "future", "detach", "drop", "empty"}

Request ==
    [pc : {"idle", "series", "delete"} \cup AtSeries,
     id : SeriesIds \cup {Null} \cup Ids \X (SeriesIds \cup {Null}),
     left : Seq(Nat), made : SUBSET (Ids \X Row)]

\* At each statement: the id it is about, and the occurrences to book.
RequestOK(r) ==
    /\ r \in Request
    /\ r.pc = "idle" => r = Idle
    /\ r.pc \in {"series", "bookings"} => r.left # <<>>
    /\ r.pc = "delete" => r.id \in Ids \X (SeriesIds \cup {Null})
    /\ r.pc \in AtSeries => r.id \in SeriesIds

RequestsOK == req \in [Procs -> Request] /\ \A p \in Procs : RequestOK(req[p])

TablesOK ==
    /\ bookings \in [Ids -> Row \cup {Null}]
    /\ series \subseteq SeriesIds /\ used \subseteq Ids \cup SeriesIds
    /\ Rows \subseteq used /\ series \subseteq used
    /\ now \in Times
    /\ store \subseteq Ids \X Row
    /\ timer \in {"idle", "orphans"}
    /\ origin \in [Ids -> SeriesIds \cup {Null}] /\ deleted \subseteq SeriesIds

TypeInv == TablesOK /\ RequestsOK

LEMMA TypeInvIsTypeOK == TypeInv => TypeOK
<1> SUFFICES ASSUME TypeInv PROVE TypeOK
  OBVIOUS
<1>1. TablesOK
  BY DEF TypeInv
<1>2. ASSUME NEW p \in Procs
      PROVE  CASE req[p].pc = "idle" -> req[p] = Idle
               [] req[p].pc = "series" -> req[p].left # <<>>
               [] req[p].pc = "delete" -> req[p].id \in Ids \X (SeriesIds \cup {Null})
               [] OTHER -> req[p].id \in SeriesIds
  <2>1. RequestOK(req[p])
    BY DEF TypeInv, RequestsOK
  <2>2. req[p].pc \in {"idle", "series", "delete"} \cup AtSeries
    BY <2>1 DEF RequestOK, Request
  <2> QED
    BY <2>1, <2>2 DEF RequestOK, AtSeries
<1> QED
  BY <1>1, <1>2 DEF TablesOK, TypeOK

LEMMA IdleOK == RequestOK(Idle)
BY DEF RequestOK, Request, Idle, AtSeries

\* A step of one request.
LEMMA RequestMoves ==
    ASSUME RequestsOK, NEW p \in Procs, NEW pc, NEW id, NEW left, NEW made,
           Goto(p, pc, id, left, made),
           RequestOK([pc |-> pc, id |-> id, left |-> left, made |-> made])
    PROVE  RequestsOK'
<1> DEFINE r == [pc |-> pc, id |-> id, left |-> left, made |-> made]
<1>1. req' = [req EXCEPT ![p] = r] /\ RequestOK(r)
  BY DEF Goto
<1>2. r \in Request
  BY DEF RequestOK
<1> HIDE DEF r
<1>3. req' \in [Procs -> Request]
  BY <1>1, <1>2 DEF RequestsOK
<1>4. \A q \in Procs : req'[q] = IF q = p THEN r ELSE req[q]
  BY <1>1 DEF RequestsOK
<1>5. \A q \in Procs : RequestOK(req'[q])
  BY <1>1, <1>4 DEF RequestsOK
<1> QED
  BY <1>3, <1>5 DEF RequestsOK

LEMMA RequestReturns ==
    ASSUME RequestsOK, NEW p \in Procs, Return(p)
    PROVE  RequestsOK'
<1>1. Goto(p, "idle", Null, <<>>, {})
  BY DEF Return, Idle, Goto
<1> QED
  BY <1>1, IdleOK, RequestMoves DEF Idle

\* A request that goes on to a statement about a series.
LEMMA RequestGoesOn ==
    ASSUME RequestsOK, NEW p \in Procs, NEW pc \in AtSeries \ {"bookings"}, NEW s \in SeriesIds,
           Goto(p, pc, s, <<>>, {})
    PROVE  RequestsOK'
<1>1. RequestOK([pc |-> pc, id |-> s, left |-> <<>>, made |-> {}])
  BY DEF RequestOK, Request, AtSeries
<1> QED
  BY <1>1, RequestMoves

\* Bookings that are deleted.
LEMMA FewerRows ==
    ASSUME TablesOK, NEW Gone,
           bookings' = [b \in Ids |-> IF b \in Gone THEN Null ELSE bookings[b]]
    PROVE  bookings' \in [Ids -> Row \cup {Null}] /\ Rows' \subseteq Rows
<1>1. bookings' \in [Ids -> Row \cup {Null}]
  BY DEF TablesOK
<1>2. Rows' \subseteq Rows
  BY DEF Rows, Exists
<1> QED
  BY <1>1, <1>2

\* One that is written anew.
LEMMA RowIsWritten ==
    ASSUME TablesOK, NEW b \in Ids, NEW row \in Row, bookings' = [bookings EXCEPT ![b] = row]
    PROVE  /\ bookings' \in [Ids -> Row \cup {Null}] /\ Rows' = Rows \cup {b}
           /\ bookings'[b] = row /\ \A c \in Ids \ {b} : bookings'[c] = bookings[c]
<1>1. bookings' \in [Ids -> Row \cup {Null}]
  BY DEF TablesOK
<1>2. bookings'[b] = row /\ \A c \in Ids \ {b} : bookings'[c] = bookings[c]
  BY DEF TablesOK
<1>3. row # Null
  BY NullIsNoRow
<1>4. Rows' = Rows \cup {b}
  BY <1>2, <1>3 DEF Rows, Exists
<1> QED
  BY <1>1, <1>2, <1>4

LEMMA TypeInit == Init => TypeInv
<1> SUFFICES ASSUME Init PROVE TypeInv
  OBVIOUS
<1>1. Rows = {}
  BY DEF Init, Rows, Exists
<1>2. TablesOK
  BY <1>1, RecurringConstants DEF Init, TablesOK
<1>3. Idle \in Request
  BY IdleOK DEF RequestOK
<1>4. req \in [Procs -> Request] /\ \A p \in Procs : req[p] = Idle
  BY <1>3 DEF Init
<1> QED
  BY <1>2, <1>4, IdleOK DEF TypeInv, RequestsOK

LEMMA CreateType ==
    ASSUME AllInOrder, TypeInv, NEW p \in Procs, Create(p)
    PROVE  TypeInv'
<1> USE DEF TypeInv
<1>1. CASE \E e \in Recurrences : CheckSeries(p, e)
  <2>1. PICK e \in Recurrences : CheckSeries(p, e)
    BY <1>1
  <2>2. PICK left : left = ValidBookings(e)
    OBVIOUS
  <2>3. Goto(p, "series", Null, left, {}) /\ left # <<>>
    BY <2>1, <2>2 DEF CheckSeries
  <2>4. left \in Seq(Nat)
    BY <2>2, ValidAreBooked DEF AllInOrder
  <2>5. RequestOK([pc |-> "series", id |-> Null, left |-> left, made |-> {}])
    BY <2>3, <2>4 DEF RequestOK, Request, AtSeries
  <2>6. RequestsOK'
    BY <2>3, <2>5, RequestMoves
  <2>7. TablesOK'
    BY <2>1 DEF CheckSeries, TablesOK, Rows, Exists
  <2> QED
    BY <2>6, <2>7
<1>2. CASE InsertSeries(p)
  <2>1. PICK s \in SeriesIds \ used :
          /\ series' = series \cup {s} /\ used' = used \cup {s}
          /\ Goto(p, "bookings", s, req[p].left, {})
    BY <1>2 DEF InsertSeries
  <2>2. req[p].left \in Seq(Nat) /\ req[p].left # <<>>
    BY <1>2 DEF InsertSeries, At, RequestsOK, RequestOK, Request
  <2>3. RequestOK([pc |-> "bookings", id |-> s, left |-> req[p].left, made |-> {}])
    BY <2>1, <2>2 DEF RequestOK, Request, AtSeries
  <2>4. RequestsOK'
    BY <2>1, <2>3, RequestMoves
  <2>5. TablesOK'
    BY <1>2, <2>1 DEF InsertSeries, TablesOK, Rows, Exists
  <2> QED
    BY <2>4, <2>5
<1>3. CASE InsertBooking(p)
  <2> DEFINE row == [series |-> req[p].id, day |-> Head(req[p].left)]
  <2>1. /\ req[p].left \in Seq(Nat) /\ req[p].left # <<>> /\ req[p].id \in SeriesIds
        /\ req[p].made \subseteq Ids \X Row
    BY <1>3 DEF InsertBooking, At, RequestsOK, RequestOK, Request, AtSeries
  <2>2. row \in Row
    BY <2>1 DEF Row
  <2>3. PICK b \in Ids \ used :
          /\ bookings' = [bookings EXCEPT ![b] = row]
          /\ used' = used \cup {b}
          /\ origin' = [origin EXCEPT ![b] = req[p].id]
          /\ IF Len(req[p].left) = 1
             THEN /\ Return(p)
                  /\ store' = IF CalDav THEN store \cup req[p].made \cup {<<b, row>>} ELSE store
             ELSE /\ Goto(p, "bookings", req[p].id, Tail(req[p].left), req[p].made \cup {<<b, row>>})
                  /\ UNCHANGED store
    BY <1>3 DEF InsertBooking
  <2>4. UNCHANGED <<series, now, timer, deleted>>
    BY <1>3 DEF InsertBooking
  <2> HIDE DEF row
  <2>5. req[p].made \cup {<<b, row>>} \subseteq Ids \X Row
    BY <2>1, <2>2
  <2>6. RequestsOK'
    <3>1. CASE Len(req[p].left) = 1
      BY <2>3, <3>1, RequestReturns
    <3>2. CASE Len(req[p].left) # 1
      <4>1. PICK left, made : left = Tail(req[p].left) /\ made = req[p].made \cup {<<b, row>>}
        OBVIOUS
      <4>2. Goto(p, "bookings", req[p].id, left, made)
        BY <2>3, <3>2, <4>1
      <4>3. left \in Seq(Nat) /\ left # <<>>
        <5>1. \A s \in Seq(Nat) : s # <<>> /\ Len(s) # 1 => Tail(s) \in Seq(Nat) /\ Len(Tail(s)) # 0
          OBVIOUS
        <5> QED
          BY <2>1, <3>2, <4>1, <5>1
      <4>4. RequestOK([pc |-> "bookings", id |-> req[p].id, left |-> left, made |-> made])
        BY <2>1, <2>5, <4>1, <4>3 DEF RequestOK, Request, AtSeries
      <4> QED
        BY <4>2, <4>4, RequestMoves
    <3> QED
      BY <3>1, <3>2
  <2>7. bookings' \in [Ids -> Row \cup {Null}] /\ Rows' = Rows \cup {b}
    BY <2>2, <2>3, RowIsWritten
  <2>8. store' \subseteq Ids \X Row
    BY <2>3, <2>5 DEF TablesOK
  <2>9. origin' \in [Ids -> SeriesIds \cup {Null}]
    BY <2>1, <2>3 DEF TablesOK
  <2>10. TablesOK'
    BY <2>3, <2>4, <2>7, <2>8, <2>9 DEF TablesOK
  <2> QED
    BY <2>6, <2>10
<1> QED
  BY <1>1, <1>2, <1>3 DEF Create

LEMMA DeleteSeriesType ==
    ASSUME TypeInv, NEW p \in Procs, DeleteSeries(p)
    PROVE  TypeInv'
<1> USE DEF TypeInv
<1>1. CASE \E s \in SeriesIds : ReceiveDeleteSeries(p, s)
  <2>1. PICK s \in SeriesIds : ReceiveDeleteSeries(p, s)
    BY <1>1
  <2>2. RequestsOK'
    BY <2>1, RequestGoesOn DEF ReceiveDeleteSeries, AtSeries
  <2>3. TablesOK'
    BY <2>1 DEF ReceiveDeleteSeries, TablesOK, Rows, Exists
  <2> QED
    BY <2>2, <2>3
<1>2. CASE DeleteFuture(p)
  <2>1. req[p].id \in SeriesIds
    BY <1>2 DEF DeleteFuture, At, AtSeries, RequestsOK, RequestOK
  <2>2. RequestsOK'
    BY <1>2, <2>1, RequestGoesOn DEF DeleteFuture, AtSeries
  <2> DEFINE Gone == {b \in GetAllByRecurringID(req[p].id) : bookings[b].day > now}
  <2>3. bookings' = [b \in Ids |-> IF b \in Gone THEN Null ELSE bookings[b]]
    BY <1>2 DEF DeleteFuture
  <2> HIDE DEF Gone
  <2>4. bookings' \in [Ids -> Row \cup {Null}] /\ Rows' \subseteq Rows
    BY <2>3, FewerRows
  <2>5. TablesOK'
    BY <1>2, <2>4 DEF DeleteFuture, TablesOK
  <2> QED
    BY <2>2, <2>5
<1>3. CASE Detach(p)
  <2>1. req[p].id \in SeriesIds
    BY <1>3 DEF Detach, At, AtSeries, RequestsOK, RequestOK
  <2>2. RequestsOK'
    BY <1>3, <2>1, RequestGoesOn DEF Detach, AtSeries
  <2>3. bookings' = [b \in Ids |-> IF b \in GetAllByRecurringID(req[p].id)
                                   THEN [bookings[b] EXCEPT !.series = Null] ELSE bookings[b]]
    BY <1>3 DEF Detach
  <2>4. \A b \in GetAllByRecurringID(req[p].id) : b \in Rows /\ bookings[b] \in Row
    BY DEF GetAllByRecurringID, Rows, Exists, TablesOK
  <2>5. \A r \in Row : [r EXCEPT !.series = Null] \in Row
    BY DEF Row
  <2>6. bookings' \in [Ids -> Row \cup {Null}]
    BY <2>3, <2>4, <2>5 DEF TablesOK
  <2>7. Rows' \subseteq Rows
    BY <2>3, <2>4 DEF Rows, Exists
  <2>8. TablesOK'
    BY <1>3, <2>6, <2>7 DEF Detach, TablesOK
  <2> QED
    BY <2>2, <2>8
<1>4. CASE DropSeries(p)
  <2>1. req[p].id \in SeriesIds
    BY <1>4 DEF DropSeries, At, AtSeries, RequestsOK, RequestOK
  <2>2. RequestsOK'
    BY <1>4, RequestReturns DEF DropSeries
  <2>3. TablesOK'
    BY <1>4, <2>1 DEF DropSeries, TablesOK, Rows, Exists
  <2> QED
    BY <2>2, <2>3
<1> QED
  BY <1>1, <1>2, <1>3, <1>4 DEF DeleteSeries

LEMMA DeleteBookingType ==
    ASSUME TypeInv, NEW p \in Procs, DeleteBooking(p)
    PROVE  TypeInv'
<1> USE DEF TypeInv
<1>1. CASE \E b \in Ids : ReceiveDelete(p, b)
  <2>1. PICK b \in Ids : ReceiveDelete(p, b)
    BY <1>1
  <2>2. bookings[b].series \in SeriesIds \cup {Null}
    BY <2>1 DEF ReceiveDelete, Exists, TablesOK, Row
  <2>3. PICK id : id = <<b, bookings[b].series>>
    OBVIOUS
  <2>4. RequestOK([pc |-> "delete", id |-> id, left |-> <<>>, made |-> {}])
    BY <2>2, <2>3 DEF RequestOK, Request, AtSeries
  <2>5. RequestsOK'
    BY <2>1, <2>3, <2>4, RequestMoves DEF ReceiveDelete
  <2>6. TablesOK'
    BY <2>1 DEF ReceiveDelete, TablesOK, Rows, Exists
  <2> QED
    BY <2>5, <2>6
<1>2. CASE DeleteRow(p)
  <2>1. req[p].id \in Ids \X (SeriesIds \cup {Null})
    BY <1>2 DEF DeleteRow, At, RequestsOK, RequestOK
  <2>2. RequestsOK'
    <3>1. CASE req[p].id[2] = Null
      BY <1>2, <3>1, RequestReturns DEF DeleteRow
    <3>2. CASE req[p].id[2] # Null
      <4>1. req[p].id[2] \in SeriesIds
        BY <2>1, <3>2
      <4> QED
        BY <1>2, <3>2, <4>1, RequestGoesOn DEF DeleteRow, AtSeries
    <3> QED
      BY <3>1, <3>2
  <2>3. bookings' = [b \in Ids |-> IF b \in {req[p].id[1]} THEN Null ELSE bookings[b]]
    BY <1>2 DEF DeleteRow, TablesOK
  <2>4. bookings' \in [Ids -> Row \cup {Null}] /\ Rows' \subseteq Rows
    BY <2>3, FewerRows
  <2>5. TablesOK'
    BY <1>2, <2>4 DEF DeleteRow, TablesOK
  <2> QED
    BY <2>2, <2>5
<1>3. CASE DeleteEmptySeries(p)
  <2>1. RequestsOK'
    BY <1>3, RequestReturns DEF DeleteEmptySeries
  <2>2. series' \subseteq series
    BY <1>3 DEF DeleteEmptySeries
  <2>3. TablesOK'
    BY <1>3, <2>2 DEF DeleteEmptySeries, TablesOK, Rows, Exists
  <2> QED
    BY <2>1, <2>3
<1> QED
  BY <1>1, <1>2, <1>3 DEF DeleteBooking

LEMMA UpdateType ==
    ASSUME TypeInv, NEW b \in Ids, NEW day \in Days, UpdateBooking(b, day)
    PROVE  TypeInv'
<1> USE DEF TypeInv
<1>1. PICK row : row = [series |-> Null, day |-> day]
  OBVIOUS
<1>2. row \in Row
  BY <1>1, RecurringConstants DEF Row
<1>3. /\ bookings' = [bookings EXCEPT ![b] = row]
      /\ store' = IF CalDav THEN store \cup {<<b, row>>} ELSE store
      /\ UNCHANGED <<series, used, now, req, timer, origin, deleted>>
  BY <1>1 DEF UpdateBooking
<1>4. b \in Rows
  BY DEF UpdateBooking, Rows
<1>5. bookings' \in [Ids -> Row \cup {Null}] /\ Rows' = Rows \cup {b}
  BY <1>2, <1>3, RowIsWritten
<1>6. TablesOK'
  BY <1>2, <1>3, <1>4, <1>5 DEF TablesOK
<1>7. RequestsOK'
  BY <1>3 DEF RequestsOK
<1> QED
  BY <1>6, <1>7

LEMMA OthersType ==
    ASSUME TypeInv, StoreEventId \/ CalDavFails \/ PurgeOld \/ PurgeOrphans \/ Tick
    PROVE  TypeInv'
<1> USE DEF TypeInv
<1>1. CASE StoreEventId
  <2>1. PICK t \in store :
          /\ store' = store \ {t}
          /\ bookings' = IF Exists(t[1]) THEN [bookings EXCEPT ![t[1]] = t[2]] ELSE bookings
          /\ UNCHANGED <<series, used, now, req, timer, origin, deleted>>
    BY <1>1 DEF StoreEventId
  <2>2. t[1] \in Ids /\ t[2] \in Row
    BY DEF TablesOK
  <2>3. bookings' \in [Ids -> Row \cup {Null}] /\ Rows' = Rows
    <3>1. CASE Exists(t[1])
      <4>1. bookings' = [bookings EXCEPT ![t[1]] = t[2]] /\ t[1] \in Rows
        BY <2>1, <2>2, <3>1 DEF Rows
      <4>2. bookings' \in [Ids -> Row \cup {Null}] /\ Rows' = Rows \cup {t[1]}
        BY <2>2, <4>1, RowIsWritten
      <4> QED
        BY <4>1, <4>2
    <3>2. CASE ~Exists(t[1])
      BY <2>1, <3>2 DEF TablesOK, Rows, Exists
    <3> QED
      BY <3>1, <3>2
  <2>4. TablesOK' /\ RequestsOK'
    BY <2>1, <2>3 DEF TablesOK, RequestsOK
  <2> QED
    BY <2>4
<1>2. CASE CalDavFails
  BY <1>2 DEF CalDavFails, TablesOK, RequestsOK, Rows, Exists
<1>3. CASE PurgeOld
  <2> DEFINE Gone == {b \in Rows : bookings[b].day < now - Retention}
  <2>1. bookings' = [b \in Ids |-> IF b \in Gone THEN Null ELSE bookings[b]]
    BY <1>3 DEF PurgeOld
  <2> HIDE DEF Gone
  <2>2. bookings' \in [Ids -> Row \cup {Null}] /\ Rows' \subseteq Rows
    BY <2>1, FewerRows
  <2> QED
    BY <1>3, <2>2 DEF PurgeOld, TablesOK, RequestsOK
<1>4. CASE PurgeOrphans
  BY <1>4 DEF PurgeOrphans, TablesOK, RequestsOK, Rows, Exists
<1>5. CASE Tick
  BY <1>5 DEF Tick, TablesOK, RequestsOK, Rows, Exists
<1> QED
  BY <1>1, <1>2, <1>3, <1>4, <1>5

LEMMA TypeStep == AllInOrder /\ TypeInv /\ [Next]_vars => TypeInv'
<1> SUFFICES ASSUME AllInOrder, TypeInv, [Next]_vars PROVE TypeInv'
  OBVIOUS
<1>1. CASE \E p \in Procs : Create(p) \/ DeleteSeries(p) \/ DeleteBooking(p)
  BY <1>1, CreateType, DeleteSeriesType, DeleteBookingType
<1>2. CASE \E p \in Procs : Fail(p)
  BY <1>2, RequestReturns DEF Fail, TypeInv, TablesOK, Rows, Exists
<1>3. CASE \E b \in Ids, day \in Days : UpdateBooking(b, day)
  BY <1>3, UpdateType
<1>4. CASE StoreEventId \/ CalDavFails \/ PurgeOld \/ PurgeOrphans \/ Tick
  BY <1>4, OthersType
<1>5. CASE Restart
  <2>1. req' = [p \in Procs |-> Idle] /\ store' = {} /\ timer' = "idle"
        /\ UNCHANGED <<bookings, series, used, now, origin, deleted>>
    BY <1>5 DEF Restart
  <2>2. RequestsOK'
    BY <2>1, IdleOK DEF RequestsOK, RequestOK
  <2>3. TablesOK'
    BY <2>1 DEF TypeInv, TablesOK, Rows, Exists
  <2> QED
    BY <2>2, <2>3 DEF TypeInv
<1>6. CASE UNCHANGED vars
  BY <1>6 DEF vars, TypeInv, TablesOK, RequestsOK, Rows, Exists
<1> QED
  BY <1>1, <1>2, <1>3, <1>4, <1>5, <1>6 DEF Next

\* Each statement of create and of the two deletes finds what the one before it left for it, an
\* id of a series where it needs one, whatever other requests, goroutines, purges and restarts
\* do in between.
THEOREM TypesHold ==
    ASSUME AllInOrder
    PROVE  Spec => []TypeOK
<1>1. TypeInv /\ [Next]_vars => TypeInv'
  BY TypeStep
<1> QED
  BY <1>1, TypeInit, TypeInvIsTypeOK, PTL DEF Spec
-----------------------------------------------------------------------------
(* What the precheck announces.                                            *)

UsedFinite == IsFiniteSet(used)

LEMMA UsedGrows ==
    ASSUME UsedFinite, [Next]_vars
    PROVE  UsedFinite'
<1>1. used' = used \/ \E x : used' = used \cup {x}
  BY DEF Next, vars, Create, DeleteSeries, DeleteBooking, CheckSeries, InsertSeries, InsertBooking,
         ReceiveDeleteSeries, DeleteFuture, Detach, DropSeries, ReceiveDelete, DeleteRow,
         DeleteEmptySeries, Fail, UpdateBooking, StoreEventId, CalDavFails, PurgeOld, PurgeOrphans,
         Tick, Restart
<1> QED
  BY <1>1, FS_AddElement DEF UsedFinite

LEMMA PromisesHold ==
    ASSUME AllInOrder, TypeInv, UsedFinite
    PROVE  PrecheckPromisesHold
<1> SUFFICES ASSUME NEW e \in Recurrences PROVE Prechecked(e) \subseteq Range(ValidBookings(e))
  BY DEF PrecheckPromisesHold
<1>1. PICK days : days = CreateBookings(e)
  OBVIOUS
<1>2. /\ days \in Seq(Nat) /\ Len(days) \in Nat /\ DOMAIN days = 1 .. Len(days)
      /\ \A k \in 1 .. Len(days) : Bookable(days[k]) => days[k] \in Range(ValidBookings(e))
  BY <1>1, ValidAreBooked DEF AllInOrder
<1>3. \A d : Cardinality({b \in Rows : bookings[b].day >= now}) \in Nat
  <2>1. {b \in Rows : bookings[b].day >= now} \subseteq used
    BY DEF TypeInv, TablesOK
  <2> QED
    BY <2>1, FS_Subset, FS_CardinalityType DEF UsedFinite
<1>4. ASSUME NEW k \in 1 .. Len(days), IsValid(days[k], k - 1), GetConflicts(days[k], Null) = {}
      PROVE  Bookable(days[k])
  <2> DEFINE upcoming == Cardinality({b \in Rows : bookings[b].day >= now})
  <2>1. days[k] >= now /\ upcoming + (k - 1) < MaxUpcoming
    BY <1>4 DEF IsValid
  <2>2. upcoming \in Nat /\ MaxUpcoming \in Nat /\ k \in Nat /\ k >= 1
    BY <1>2, <1>3, RecurringConstants
  <2> HIDE DEF upcoming
  <2>3. upcoming + 0 < MaxUpcoming
    BY <2>1, <2>2
  <2>4. IsValid(days[k], 0)
    BY <2>1, <2>3 DEF IsValid, upcoming
  <2> QED
    BY <1>4, <2>4 DEF Bookable
<1>5. \A x \in Prechecked(e) : \E k \in 1 .. Len(days) :
         x = days[k] /\ IsValid(days[k], k - 1) /\ GetConflicts(days[k], Null) = {}
  BY <1>1, <1>2 DEF Prechecked
<1> QED
  BY <1>2, <1>4, <1>5

\* Whatever the precheck announces to the user, create would book at that moment: it counts the
\* other occurrences towards the limit and create does not, so it errs on the safe side.
THEOREM PromisesAreKept ==
    ASSUME AllInOrder
    PROVE  Spec => []PrecheckPromisesHold
<1>1. Init => UsedFinite
  BY FS_EmptySet DEF Init, UsedFinite
<1>2. TypeInv /\ [Next]_vars => TypeInv'
  BY TypeStep
<1>3. UsedFinite /\ [Next]_vars => UsedFinite'
  BY UsedGrows
<1>4. TypeInv /\ UsedFinite => PrecheckPromisesHold
  BY PromisesHold
<1> QED
  BY <1>1, <1>2, <1>3, <1>4, TypeInit, PTL DEF Spec
-----------------------------------------------------------------------------
(* Any number of requests that create and delete, with the purge and the   *)
(* goroutines.                                                             *)

\* Some request is at one of these statements, for this series.
Handled(pcs, s) == \E p \in Procs : req[p].pc \in pcs /\ req[p].id = s

\* The links of the series were taken away.
Detached(s) == s \in deleted \/ Handled({"drop"}, s)

\* A booking is linked to the series it was made for, or to none if that series was detached ...
OwnLinks ==
    \A b \in Rows : /\ bookings[b].series \in {origin[b], Null}
                    /\ bookings[b].series = Null => Detached(origin[b])

\* ... and so it was when a request that deletes it read it.
IsLink(l) ==
    /\ l[1] \in used /\ l[2] \in {origin[l[1]], Null}
    /\ l[2] = Null => Detached(origin[l[1]])

ReadLinks == \A p \in Procs : At(p, "delete") => IsLink(req[p].id)

\* The rows that goroutines hold are of the same series and day.
IsCopy(t) ==
    /\ t[1] \in Ids \cap used /\ t[2].series = origin[t[1]]
    /\ Exists(t[1]) => bookings[t[1]].day = t[2].day

Copies ==
    /\ \A t \in store : IsCopy(t)
    /\ \A p \in Procs : At(p, "bookings") => \A t \in req[p].made : IsCopy(t)

\* Ids of series are given out once, and a deleted series is gone.
IdsUsed ==
    /\ deleted \subseteq used \ series
    /\ \A p \in Procs : req[p].pc \in {"bookings", "future", "detach", "drop"} => req[p].id \in used

\* A series without a booking has a request at it that will add one or take it along, or the
\* purge will.
Attended ==
    \A s \in series : GetAllByRecurringID(s) # {} \/ timer = "orphans" \/ Handled(AtSeries, s)

\* What is left of a series after the first statement of its deletion has begun.
Cleared ==
    \A b \in Rows :
        origin[b] \in deleted \/ Handled({"detach", "drop"}, origin[b]) => bookings[b].day <= now

\* No series is deleted while its bookings are being inserted.
Exclusive ==
    \A p \in Procs : At(p, "bookings") =>
        req[p].id \notin deleted /\ ~Handled({"future", "detach", "drop"}, req[p].id)

LinksOK == OwnLinks /\ ReadLinks /\ Copies
SeriesInv == TypeInv /\ LinksOK /\ IdsUsed /\ Attended /\ Cleared /\ Exclusive

LEMMA Moved ==
    ASSUME RequestsOK, NEW p \in Procs, NEW pc, NEW id, NEW left, NEW made,
           Goto(p, pc, id, left, made)
    PROVE  /\ req'[p].pc = pc /\ req'[p].id = id /\ req'[p].made = made
           /\ \A q \in Procs \ {p} : req'[q] = req[q]
BY DEF Goto, RequestsOK

LEMMA Returned ==
    ASSUME RequestsOK, NEW p \in Procs, Return(p)
    PROVE  req'[p].pc = "idle" /\ \A q \in Procs \ {p} : req'[q] = req[q]
BY DEF Return, Idle, RequestsOK

\* What a link and a copy say stays true where rows keep their series and day.
LEMMA LinksKept ==
    ASSUME LinksOK, used \subseteq used', UNCHANGED origin, store' \subseteq store,
           Rows' \subseteq Rows,
           \A b \in Rows' : bookings'[b] = bookings[b],
           \A s : Detached(s) => Detached(s)',
           \A p \in Procs : req'[p].pc = "delete" => req'[p] = req[p],
           \A p \in Procs : req'[p].pc = "bookings" => req'[p] = req[p] \/ req'[p].made = {}
    PROVE  LinksOK'
<1>1. OwnLinks'
  BY DEF LinksOK, OwnLinks
<1>2. \A l : IsLink(l) => IsLink(l)'
  BY DEF IsLink
<1>3. \A t : IsCopy(t) => IsCopy(t)'
  <2> SUFFICES ASSUME NEW t, IsCopy(t) PROVE IsCopy(t)'
    OBVIOUS
  <2>1. t[1] \in Rows' => bookings'[t[1]] = bookings[t[1]] /\ t[1] \in Rows
    OBVIOUS
  <2> QED
    BY <2>1 DEF IsCopy, Rows, Exists
<1>4. Copies'
  BY <1>3 DEF LinksOK, Copies, At
<1>5. ReadLinks'
  BY <1>2 DEF LinksOK, ReadLinks, At
<1> QED
  BY <1>1, <1>4, <1>5 DEF LinksOK

\* Steps that leave the rows alone.
LEMMA SameRowsFacts ==
    ASSUME UNCHANGED bookings
    PROVE  Rows' = Rows /\ \A s : GetAllByRecurringID(s)' = GetAllByRecurringID(s)
BY DEF Rows, Exists, GetAllByRecurringID

LEMMA CreateKeeps ==
    ASSUME SeriesInv, TypeInv', NEW p \in Procs, Create(p)
    PROVE  SeriesInv'
<1> USE DEF SeriesInv
<1>0. RequestsOK
  BY DEF TypeInv
<1>1. CASE \E e \in Recurrences : CheckSeries(p, e)
  <2>1. PICK e \in Recurrences : CheckSeries(p, e)
    BY <1>1
  <2>2. /\ Goto(p, "series", Null, ValidBookings(e), {}) /\ req[p].pc = "idle"
        /\ UNCHANGED <<bookings, series, used, now, store, timer, origin, deleted>>
    BY <2>1 DEF CheckSeries, At
  <2>3. req'[p].pc = "series" /\ \A q \in Procs \ {p} : req'[q] = req[q]
    BY <1>0, <2>2, Moved
  <2>4. \A pcs, s : "series" \notin pcs /\ "idle" \notin pcs => (Handled(pcs, s)' <=> Handled(pcs, s))
    BY <2>2, <2>3 DEF Handled
  <2>5. Rows' = Rows /\ \A s : GetAllByRecurringID(s)' = GetAllByRecurringID(s)
    BY <2>2, SameRowsFacts
  <2>6. LinksOK'
    BY <2>2, <2>3, <2>4, <2>5, LinksKept DEF Detached
  <2>7. IdsUsed'
    BY <2>2, <2>3 DEF IdsUsed
  <2>8. Attended'
    BY <2>2, <2>4, <2>5 DEF Attended, AtSeries
  <2>9. Cleared'
    BY <2>2, <2>4, <2>5 DEF Cleared
  <2>10. Exclusive'
    BY <2>2, <2>3, <2>4 DEF Exclusive, At
  <2> QED
    BY <2>6, <2>7, <2>8, <2>9, <2>10
<1>2. CASE InsertSeries(p)
  <2>1. PICK s \in SeriesIds \ used :
          /\ series' = series \cup {s} /\ used' = used \cup {s}
          /\ Goto(p, "bookings", s, req[p].left, {})
    BY <1>2 DEF InsertSeries
  <2>2. UNCHANGED <<bookings, now, store, timer, origin, deleted>> /\ req[p].pc = "series"
    BY <1>2 DEF InsertSeries, At
  <2>3. /\ req'[p].pc = "bookings" /\ req'[p].id = s /\ req'[p].made = {}
        /\ \A q \in Procs \ {p} : req'[q] = req[q]
    BY <1>0, <2>1, Moved
  <2>4. \A pcs, x : "bookings" \notin pcs /\ "series" \notin pcs => (Handled(pcs, x)' <=> Handled(pcs, x))
    BY <2>2, <2>3 DEF Handled
  <2>5. Rows' = Rows /\ \A x : GetAllByRecurringID(x)' = GetAllByRecurringID(x)
    BY <2>2, SameRowsFacts
  <2>6. LinksOK'
    <3>1. \A q \in Procs : req'[q].pc = "bookings" => req'[q] = req[q] \/ req'[q].made = {}
      BY <2>3
    <3>2. \A q \in Procs : req'[q].pc = "delete" => req'[q] = req[q]
      BY <2>3
    <3>3. \A x : Detached(x) => Detached(x)'
      BY <2>2, <2>4 DEF Detached
    <3> QED
      BY <2>1, <2>2, <2>5, <3>1, <3>2, <3>3, LinksKept
  <2>7. IdsUsed'
    BY <2>1, <2>2, <2>3 DEF IdsUsed
  <2>8. Attended'
    <3>1. \A x : Handled(AtSeries, x) => Handled(AtSeries, x)'
      BY <2>2, <2>3 DEF Handled, AtSeries
    <3>2. Handled(AtSeries, s)'
      BY <2>3 DEF Handled, AtSeries
    <3> QED
      BY <2>1, <2>2, <2>5, <3>1, <3>2 DEF Attended
  <2>9. Cleared'
    BY <2>2, <2>4, <2>5 DEF Cleared
  <2>10. Exclusive'
    <3>1. s \notin deleted /\ ~Handled({"future", "detach", "drop"}, s)
      BY <2>1 DEF IdsUsed, Handled
    <3> QED
      BY <2>2, <2>3, <2>4, <3>1 DEF Exclusive, At
  <2> QED
    BY <2>6, <2>7, <2>8, <2>9, <2>10
<1>3. CASE InsertBooking(p)
  <2>a. PICK s : s = req[p].id
    OBVIOUS
  <2>b. PICK row : row = [series |-> s, day |-> Head(req[p].left)]
    OBVIOUS
  <2>1. PICK b \in Ids \ used :
          /\ bookings' = [bookings EXCEPT ![b] = row]
          /\ used' = used \cup {b}
          /\ origin' = [origin EXCEPT ![b] = s]
          /\ IF Len(req[p].left) = 1
             THEN /\ Return(p)
                  /\ store' = IF CalDav THEN store \cup req[p].made \cup {<<b, row>>} ELSE store
             ELSE /\ Goto(p, "bookings", s, Tail(req[p].left), req[p].made \cup {<<b, row>>})
                  /\ UNCHANGED store
    BY <1>3, <2>a, <2>b DEF InsertBooking
  <2>2. UNCHANGED <<series, now, timer, deleted>> /\ req[p].pc = "bookings" /\ At(p, "bookings")
    BY <1>3 DEF InsertBooking, At
  <2>3. /\ s \in SeriesIds /\ s \in used /\ s \notin deleted
        /\ ~Handled({"future", "detach", "drop"}, s)
    BY <1>0, <2>2, <2>a DEF IdsUsed, Exclusive, RequestsOK, RequestOK, AtSeries
  <2>4. row \in Row /\ row.series = s
    <3>1. req[p].left \in Seq(Nat) /\ req[p].left # <<>>
      BY <1>0, <2>2 DEF RequestsOK, RequestOK, Request
    <3>2. Head(req[p].left) \in Nat
      BY <3>1
    <3> QED
      BY <2>3, <2>b, <3>2 DEF Row
  <2>5. /\ Rows' = Rows \cup {b} /\ bookings'[b] = row
        /\ \A c \in Ids \ {b} : bookings'[c] = bookings[c]
    BY <2>1, <2>4, RowIsWritten DEF TypeInv
  <2>6. origin'[b] = s /\ \A c \in Ids \ {b} : origin'[c] = origin[c]
    BY <2>1 DEF TypeInv, TablesOK
  <2>7. \/ req'[p].pc = "idle" /\ store' \subseteq store \cup req[p].made \cup {<<b, row>>}
        \/ /\ req'[p].pc = "bookings" /\ req'[p].id = s /\ store' = store
           /\ req'[p].made = req[p].made \cup {<<b, row>>}
    <3>1. CASE Len(req[p].left) = 1
      BY <1>0, <2>1, <3>1, Returned
    <3>2. CASE Len(req[p].left) # 1
      BY <1>0, <2>1, <3>2, Moved
    <3> QED
      BY <3>1, <3>2
  <2>8. \A q \in Procs \ {p} : req'[q] = req[q]
    <3>1. CASE Len(req[p].left) = 1
      BY <1>0, <2>1, <3>1, Returned
    <3>2. CASE Len(req[p].left) # 1
      BY <1>0, <2>1, <3>2, Moved
    <3> QED
      BY <3>1, <3>2
  <2>9. \A pcs, x : "bookings" \notin pcs /\ "idle" \notin pcs => (Handled(pcs, x)' <=> Handled(pcs, x))
    BY <2>2, <2>7, <2>8 DEF Handled
  <2>10. \A x : Detached(x)' <=> Detached(x)
    BY <2>2, <2>9 DEF Detached
  <2>11. Rows \subseteq Ids \cap used /\ b \notin used /\ s # Null
    BY <2>3, RecurringConstants DEF TypeInv, TablesOK, Rows
  <2>12. OwnLinks'
    <3> SUFFICES ASSUME NEW c \in Rows'
                 PROVE  /\ bookings'[c].series \in {origin'[c], Null}
                        /\ bookings'[c].series = Null => \A x : x = origin'[c] => Detached(x)'
      BY DEF OwnLinks
    <3>1. CASE c = b
      BY <2>4, <2>5, <2>6, <2>11, <3>1
    <3>2. CASE c # b
      BY <2>5, <2>6, <2>10, <2>11, <3>2 DEF LinksOK, OwnLinks
    <3> QED
      BY <3>1, <3>2
  <2>13. ReadLinks'
    <3> SUFFICES ASSUME NEW q \in Procs, req'[q].pc = "delete"
                 PROVE  \A l : l = req'[q].id => IsLink(l)'
      BY DEF ReadLinks, At
    <3>1. req'[q] = req[q] /\ IsLink(req[q].id)
      BY <2>7, <2>8 DEF LinksOK, ReadLinks, At
    <3>2. req[q].id[1] \in Ids
      BY <1>0, <3>1 DEF RequestsOK, RequestOK
    <3>3. req[q].id[1] # b
      BY <2>11, <3>1 DEF IsLink
    <3> QED
      BY <2>1, <2>6, <2>10, <3>1, <3>2, <3>3 DEF IsLink
  <2>14. Copies'
    <3>1. \A t : IsCopy(t) => IsCopy(t)'
      BY <2>1, <2>5, <2>6, <2>11 DEF IsCopy, Exists
    <3>2. \A t : t = <<b, row>> => IsCopy(t)'
      BY <2>1, <2>4, <2>5, <2>6 DEF IsCopy
    <3>3. \A t \in store \cup req[p].made \cup {<<b, row>>} : IsCopy(t)'
      BY <2>2, <3>1, <3>2 DEF LinksOK, Copies
    <3>4. \A t \in store' : IsCopy(t)'
      BY <2>7, <3>3
    <3>5. ASSUME NEW q \in Procs, req'[q].pc = "bookings", NEW t \in req'[q].made PROVE IsCopy(t)'
      BY <2>7, <2>8, <3>1, <3>3, <3>5 DEF LinksOK, Copies, At
    <3> QED
      BY <3>4, <3>5 DEF Copies, At
  <2>15. IdsUsed'
    <3>1. b \notin SeriesIds \/ b \notin series
      BY <2>11 DEF TypeInv, TablesOK
    <3> QED
      BY <2>1, <2>2, <2>3, <2>7, <2>8 DEF IdsUsed
  <2>16. Attended'
    <3>1. \A x : GetAllByRecurringID(x) \subseteq GetAllByRecurringID(x)'
      BY <2>5, <2>11 DEF GetAllByRecurringID
    <3>2. GetAllByRecurringID(s)' # {}
      BY <2>4, <2>5 DEF GetAllByRecurringID
    <3>3. \A x : x # s /\ Handled(AtSeries, x) => Handled(AtSeries, x)'
      BY <2>8, <2>a DEF Handled
    <3> QED
      BY <2>2, <3>1, <3>2, <3>3 DEF Attended
  <2>17. Cleared'
    <3> SUFFICES ASSUME NEW c \in Rows', NEW x, x = origin'[c],
                        x \in deleted' \/ Handled({"detach", "drop"}, x)'
                 PROVE  bookings'[c].day <= now'
      BY DEF Cleared
    <3>1. x \in deleted \/ Handled({"detach", "drop"}, x)
      BY <2>2, <2>9
    <3>2. c # b
      BY <2>3, <2>6, <3>1 DEF Handled
    <3>3. c \in Rows /\ origin[c] = x /\ bookings'[c] = bookings[c]
      BY <2>5, <2>6, <2>11, <3>2
    <3> QED
      BY <2>2, <3>1, <3>3 DEF Cleared
  <2>18. Exclusive'
    <3> SUFFICES ASSUME NEW q \in Procs, req'[q].pc = "bookings", NEW x, x = req'[q].id
                 PROVE  x \notin deleted /\ ~Handled({"future", "detach", "drop"}, x)'
      BY <2>2 DEF Exclusive, At
    <3>1. req[q].pc = "bookings" /\ req[q].id = x
      BY <2>2, <2>7, <2>8, <2>a
    <3> QED
      BY <2>9, <3>1 DEF Exclusive, At
  <2> QED
    BY <2>12, <2>13, <2>14, <2>15, <2>16, <2>17, <2>18 DEF LinksOK
<1> QED
  BY <1>1, <1>2, <1>3 DEF Create

LEMMA DeleteSeriesKeeps ==
    ASSUME SeriesInv, TypeInv', NEW p \in Procs,
           ~At(p, "idle") \/ Created, DeleteSeries(p)
    PROVE  SeriesInv'
<1> USE DEF SeriesInv
<1>0. RequestsOK
  BY DEF TypeInv
<1>1. CASE \E s \in SeriesIds : ReceiveDeleteSeries(p, s)
  <2>1. PICK s \in SeriesIds : ReceiveDeleteSeries(p, s)
    BY <1>1
  <2>2. /\ Goto(p, "future", s, <<>>, {}) /\ req[p].pc = "idle" /\ s \in series
        /\ UNCHANGED <<bookings, series, used, now, store, timer, origin, deleted>>
    BY <2>1 DEF ReceiveDeleteSeries, At
  <2>3. req'[p].pc = "future" /\ req'[p].id = s /\ \A q \in Procs \ {p} : req'[q] = req[q]
    BY <1>0, <2>2, Moved
  <2>4. \A pcs, x : "future" \notin pcs /\ "idle" \notin pcs => (Handled(pcs, x)' <=> Handled(pcs, x))
    BY <2>2, <2>3 DEF Handled
  <2>5. Rows' = Rows /\ \A x : GetAllByRecurringID(x)' = GetAllByRecurringID(x)
    BY <2>2, SameRowsFacts
  <2>6. LinksOK'
    <3>1. \A q \in Procs : req'[q].pc \in {"bookings", "delete"} => req'[q] = req[q]
      BY <2>3
    <3>2. \A x : Detached(x) => Detached(x)'
      BY <2>2, <2>4 DEF Detached
    <3> QED
      BY <2>2, <2>5, <3>1, <3>2, LinksKept
  <2>7. IdsUsed'
    <3>1. s \in used
      BY <2>2 DEF TypeInv, TablesOK
    <3> QED
      BY <2>2, <2>3, <3>1 DEF IdsUsed
  <2>8. Attended'
    <3>1. \A x : Handled(AtSeries, x) => Handled(AtSeries, x)'
      BY <2>2, <2>3 DEF Handled, AtSeries
    <3> QED
      BY <2>2, <2>5, <3>1 DEF Attended
  <2>9. Cleared'
    BY <2>2, <2>4, <2>5 DEF Cleared
  <2>10. Exclusive'
    <3>1. \A q \in Procs : req[q].pc # "bookings"
      BY <2>2 DEF At, Created
    <3>2. \A q \in Procs : req'[q].pc # "bookings"
      BY <2>3, <3>1
    <3> QED
      BY <3>2 DEF Exclusive, At
  <2> QED
    BY <2>6, <2>7, <2>8, <2>9, <2>10
<1>2. CASE DeleteFuture(p)
  <2>a. PICK s : s = req[p].id
    OBVIOUS
  <2>b. PICK Gone : Gone = {b \in GetAllByRecurringID(s) : bookings[b].day > now}
    OBVIOUS
  <2>1. /\ Goto(p, "detach", s, <<>>, {}) /\ req[p].pc = "future"
        /\ bookings' = [b \in Ids |-> IF b \in Gone THEN Null ELSE bookings[b]]
        /\ UNCHANGED <<series, used, now, store, timer, origin, deleted>>
    BY <1>2, <2>a, <2>b DEF DeleteFuture, At
  <2>2. s \in SeriesIds /\ s \in used
    BY <1>0, <2>1, <2>a DEF RequestsOK, RequestOK, AtSeries, IdsUsed
  <2>3. req'[p].pc = "detach" /\ req'[p].id = s /\ \A q \in Procs \ {p} : req'[q] = req[q]
    BY <1>0, <2>1, Moved
  <2>4. \A pcs, x : ("detach" \in pcs <=> "future" \in pcs) \/ x # s =>
                        (Handled(pcs, x)' <=> Handled(pcs, x))
    BY <2>1, <2>3, <2>a DEF Handled
  <2>5. /\ Rows' \subseteq Rows
        /\ \A b \in Rows' : b \in Rows /\ b \notin Gone /\ bookings'[b] = bookings[b]
        /\ \A b \in Rows \ Gone : b \in Rows'
    BY <2>1 DEF Rows, Exists
  <2>6. \A x : x # s => GetAllByRecurringID(x)' = GetAllByRecurringID(x)
    BY <2>5, <2>b DEF GetAllByRecurringID
  <2>7. \A x : Detached(x) => Detached(x)'
    BY <2>1, <2>4 DEF Detached
  <2>8. LinksOK'
    <3>1. \A q \in Procs : req'[q].pc \in {"bookings", "delete"} => req'[q] = req[q]
      BY <2>3
    <3> QED
      BY <2>1, <2>5, <2>7, <3>1, LinksKept
  <2>9. IdsUsed'
    BY <2>1, <2>2, <2>3 DEF IdsUsed
  <2>10. Attended'
    <3>1. \A x : Handled(AtSeries, x)' <=> Handled(AtSeries, x)
      BY <2>4 DEF AtSeries
    <3>2. Handled(AtSeries, s)'
      BY <2>3 DEF Handled, AtSeries
    <3> QED
      BY <2>1, <2>6, <3>1, <3>2 DEF Attended
  <2>11. Cleared'
    <3> SUFFICES ASSUME NEW b \in Rows', origin[b] \in deleted \/ \A x : x = origin[b] => Handled({"detach", "drop"}, x)'
                 PROVE  bookings'[b].day <= now
      BY <2>1 DEF Cleared
    <3>1. b \in Rows /\ b \notin Gone /\ bookings'[b] = bookings[b]
      BY <2>5
    <3>2. CASE origin[b] # s
      <4>1. origin[b] \in deleted \/ Handled({"detach", "drop"}, origin[b])
        BY <2>4, <3>2
      <4> QED
        BY <3>1, <4>1 DEF Cleared
    <3>3. CASE origin[b] = s /\ bookings[b].series = s
      <4>1. ~(bookings[b].day > now)
        BY <2>b, <3>1, <3>3 DEF GetAllByRecurringID
      <4>2. bookings[b].day \in Nat /\ now \in Nat
        BY <3>1, RecurringConstants DEF TypeInv, TablesOK, Rows, Exists, Row
      <4> QED
        BY <3>1, <4>1, <4>2
    <3>4. CASE origin[b] = s /\ bookings[b].series # s
      <4>1. Detached(s)
        BY <3>1, <3>4 DEF LinksOK, OwnLinks
      <4>2. origin[b] \in deleted \/ Handled({"detach", "drop"}, origin[b])
        BY <3>4, <4>1 DEF Detached, Handled
      <4> QED
        BY <3>1, <4>2 DEF Cleared
    <3> QED
      BY <3>2, <3>3, <3>4
  <2>12. Exclusive'
    <3>1. \A x : Handled({"future", "detach", "drop"}, x)' <=> Handled({"future", "detach", "drop"}, x)
      BY <2>4
    <3>2. \A q \in Procs : req'[q].pc = "bookings" => req'[q] = req[q]
      BY <2>3
    <3> QED
      BY <2>1, <3>1, <3>2 DEF Exclusive, At
  <2> QED
    BY <2>8, <2>9, <2>10, <2>11, <2>12
<1>3. CASE Detach(p)
  <2>a. PICK s : s = req[p].id
    OBVIOUS
  <2>b. PICK Linked : Linked = GetAllByRecurringID(s)
    OBVIOUS
  <2>1. /\ Goto(p, "drop", s, <<>>, {}) /\ req[p].pc = "detach"
        /\ bookings' = [b \in Ids |-> IF b \in Linked THEN [bookings[b] EXCEPT !.series = Null]
                                      ELSE bookings[b]]
        /\ UNCHANGED <<series, used, now, store, timer, origin, deleted>>
    BY <1>3, <2>a, <2>b DEF Detach, At
  <2>2. s \in SeriesIds /\ s \in used /\ s # Null
    BY <1>0, <2>1, <2>a, RecurringConstants DEF RequestsOK, RequestOK, AtSeries, IdsUsed
  <2>3. req'[p].pc = "drop" /\ req'[p].id = s /\ \A q \in Procs \ {p} : req'[q] = req[q]
    BY <1>0, <2>1, Moved
  <2>4. \A pcs, x : "drop" \in pcs /\ "detach" \in pcs => (Handled(pcs, x)' <=> Handled(pcs, x))
    BY <2>1, <2>3, <2>a DEF Handled
  <2>5. \A b \in Linked : /\ b \in Rows /\ bookings[b].series = s /\ bookings[b] \in Row
    BY <2>b DEF GetAllByRecurringID, Rows, Exists, TypeInv, TablesOK
  <2>6. \A r \in Row : LET n == [r EXCEPT !.series = Null]
                       IN  n \in Row /\ n.series = Null /\ n.day = r.day
    BY DEF Row
  <2>7. \A b \in Linked : bookings'[b] \in Row /\ bookings'[b].series = Null
                          /\ bookings'[b].day = bookings[b].day
    BY <2>1, <2>5, <2>6 DEF Rows
  <2>8. \A b \in Ids \ Linked : bookings'[b] = bookings[b]
    BY <2>1
  <2>9. Rows' = Rows
    BY <2>5, <2>7, <2>8, NullIsNoRow DEF Rows, Exists
  <2>10. \A b \in Rows : bookings'[b].day = bookings[b].day
    BY <2>7, <2>8 DEF Rows
  <2>11. \A x : x # s /\ x # Null => GetAllByRecurringID(x)' = GetAllByRecurringID(x)
    BY <2>5, <2>7, <2>8, <2>9 DEF GetAllByRecurringID, Rows
  <2>12. Detached(s)' /\ \A x : Detached(x) => Detached(x)'
    <3>1. \A x : Handled({"drop"}, x) => Handled({"drop"}, x)'
      BY <2>1, <2>3 DEF Handled
    <3>2. Handled({"drop"}, s)'
      BY <2>3 DEF Handled
    <3> QED
      BY <2>1, <3>1, <3>2 DEF Detached
  <2>13. OwnLinks'
    <3> SUFFICES ASSUME NEW b \in Rows
                 PROVE  /\ bookings'[b].series \in {origin[b], Null}
                        /\ bookings'[b].series = Null => \A x : x = origin[b] => Detached(x)'
      BY <2>1, <2>9 DEF OwnLinks
    <3>1. /\ bookings[b].series \in {origin[b], Null}
          /\ bookings[b].series = Null => Detached(origin[b])
      BY DEF LinksOK, OwnLinks
    <3>2. CASE b \in Linked
      BY <2>2, <2>5, <2>7, <2>12, <3>1, <3>2
    <3>3. CASE b \notin Linked
      BY <2>8, <2>12, <3>1, <3>3 DEF Rows
    <3> QED
      BY <3>2, <3>3
  <2>14. ReadLinks'
    <3>1. \A l : IsLink(l) => IsLink(l)'
      BY <2>1, <2>12 DEF IsLink
    <3> QED
      BY <2>3, <3>1 DEF LinksOK, ReadLinks, At
  <2>15. Copies'
    <3>1. \A b \in Ids : Exists(b)' <=> Exists(b)
      BY <2>9 DEF Rows
    <3>2. \A t : IsCopy(t) => IsCopy(t)'
      <4> SUFFICES ASSUME NEW t, IsCopy(t) PROVE IsCopy(t)'
        OBVIOUS
      <4>1. Exists(t[1])' => t[1] \in Rows
        BY <3>1 DEF IsCopy, Rows
      <4>2. t[1] \in Rows => bookings'[t[1]].day = t[2].day
        BY <2>10 DEF IsCopy, Rows
      <4> QED
        BY <2>1, <4>1, <4>2 DEF IsCopy
    <3> QED
      BY <2>1, <2>3, <3>2 DEF LinksOK, Copies, At
  <2>16. IdsUsed'
    BY <2>1, <2>2, <2>3 DEF IdsUsed
  <2>17. Attended'
    <3>1. \A x : Handled(AtSeries, x)' <=> Handled(AtSeries, x)
      BY <2>4 DEF AtSeries
    <3>2. Handled(AtSeries, s)'
      BY <2>3 DEF Handled, AtSeries
    <3>3. Null \notin series
      BY RecurringConstants DEF TypeInv, TablesOK
    <3> QED
      BY <2>1, <2>11, <3>1, <3>2, <3>3 DEF Attended
  <2>18. Cleared'
    BY <2>1, <2>4, <2>9, <2>10 DEF Cleared
  <2>19. Exclusive'
    <3>1. \A x : Handled({"future", "detach", "drop"}, x)' <=> Handled({"future", "detach", "drop"}, x)
      BY <2>4
    <3>2. \A q \in Procs : req'[q].pc = "bookings" => req'[q] = req[q]
      BY <2>3
    <3> QED
      BY <2>1, <3>1, <3>2 DEF Exclusive, At
  <2> QED
    BY <2>13, <2>14, <2>15, <2>16, <2>17, <2>18, <2>19 DEF LinksOK
<1>4. CASE DropSeries(p)
  <2>a. PICK s : s = req[p].id
    OBVIOUS
  <2>1. /\ Return(p) /\ req[p].pc = "drop"
        /\ series' = series \ {s} /\ deleted' = deleted \cup {s}
        /\ UNCHANGED <<bookings, used, now, store, timer, origin>>
    BY <1>4, <2>a DEF DropSeries, At
  <2>2. s \in SeriesIds /\ s \in used
    BY <1>0, <2>1, <2>a DEF RequestsOK, RequestOK, AtSeries, IdsUsed
  <2>3. req'[p].pc = "idle" /\ \A q \in Procs \ {p} : req'[q] = req[q]
    BY <1>0, <2>1, Returned
  <2>4. \A pcs, x : "idle" \notin pcs => /\ Handled(pcs, x)' => Handled(pcs, x)
                                         /\ x # s /\ Handled(pcs, x) => Handled(pcs, x)'
    BY <2>1, <2>3, <2>a DEF Handled
  <2>5. Rows' = Rows /\ \A x : GetAllByRecurringID(x)' = GetAllByRecurringID(x)
    BY <2>1, SameRowsFacts
  <2>6. LinksOK'
    <3>1. \A q \in Procs : req'[q].pc \in {"bookings", "delete"} => req'[q] = req[q]
      BY <2>3
    <3>2. \A x : Detached(x) => Detached(x)'
      BY <2>1, <2>4 DEF Detached
    <3> QED
      BY <2>1, <2>5, <3>1, <3>2, LinksKept
  <2>7. IdsUsed'
    BY <2>1, <2>2, <2>3 DEF IdsUsed
  <2>8. Attended'
    BY <2>1, <2>4, <2>5 DEF Attended, AtSeries
  <2>9. Cleared'
    <3>1. Handled({"detach", "drop"}, s)
      BY <2>1, <2>a DEF Handled
    <3> QED
      BY <2>1, <2>4, <2>5, <3>1 DEF Cleared
  <2>10. Exclusive'
    <3>1. Handled({"future", "detach", "drop"}, s)
      BY <2>1, <2>a DEF Handled
    <3>2. \A q \in Procs : req'[q].pc = "bookings" => req'[q] = req[q]
      BY <2>3
    <3> QED
      BY <2>1, <2>4, <3>1, <3>2 DEF Exclusive, At
  <2> QED
    BY <2>6, <2>7, <2>8, <2>9, <2>10
<1> QED
  BY <1>1, <1>2, <1>3, <1>4 DEF DeleteSeries

LEMMA DeleteBookingKeeps ==
    ASSUME SeriesInv, TypeInv', NEW p \in Procs, DeleteBooking(p)
    PROVE  SeriesInv'
<1> USE DEF SeriesInv
<1>0. RequestsOK
  BY DEF TypeInv
<1>1. CASE \E b \in Ids : ReceiveDelete(p, b)
  <2>1. PICK b \in Ids : ReceiveDelete(p, b)
    BY <1>1
  <2>2. /\ Goto(p, "delete", <<b, bookings[b].series>>, <<>>, {}) /\ req[p].pc = "idle" /\ b \in Rows
        /\ UNCHANGED <<bookings, series, used, now, store, timer, origin, deleted>>
    BY <2>1 DEF ReceiveDelete, At, Rows
  <2>3. /\ req'[p].pc = "delete" /\ req'[p].id = <<b, bookings[b].series>>
        /\ \A q \in Procs \ {p} : req'[q] = req[q]
    BY <1>0, <2>2, Moved
  <2>4. \A pcs, x : "delete" \notin pcs /\ "idle" \notin pcs => (Handled(pcs, x)' <=> Handled(pcs, x))
    BY <2>2, <2>3 DEF Handled
  <2>5. Rows' = Rows /\ \A x : GetAllByRecurringID(x)' = GetAllByRecurringID(x)
    BY <2>2, SameRowsFacts
  <2>6. \A x : Detached(x)' <=> Detached(x)
    BY <2>2, <2>4 DEF Detached
  <2>7. OwnLinks'
    BY <2>2, <2>5, <2>6 DEF LinksOK, OwnLinks
  <2>8. ReadLinks'
    <3>1. \A l : IsLink(l) => IsLink(l)'
      BY <2>2, <2>6 DEF IsLink
    <3>2. \A l : l = <<b, bookings[b].series>> => IsLink(l)
      BY <2>2 DEF IsLink, LinksOK, OwnLinks, TypeInv, TablesOK
    <3> QED
      BY <2>3, <3>1, <3>2 DEF LinksOK, ReadLinks, At
  <2>9. Copies'
    <3>1. \A t : IsCopy(t) => IsCopy(t)'
      BY <2>2 DEF IsCopy, Exists
    <3> QED
      BY <2>2, <2>3, <3>1 DEF LinksOK, Copies, At
  <2>10. IdsUsed'
    BY <2>2, <2>3 DEF IdsUsed
  <2>11. Attended'
    BY <2>2, <2>4, <2>5 DEF Attended, AtSeries
  <2>12. Cleared'
    BY <2>2, <2>4, <2>5 DEF Cleared
  <2>13. Exclusive'
    BY <2>2, <2>3, <2>4 DEF Exclusive, At
  <2> QED
    BY <2>7, <2>8, <2>9, <2>10, <2>11, <2>12, <2>13 DEF LinksOK
<1>2. CASE DeleteRow(p)
  <2>a. PICK b, x : b = req[p].id[1] /\ x = req[p].id[2]
    OBVIOUS
  <2>1. /\ req[p].pc = "delete"
        /\ bookings' = [bookings EXCEPT ![b] = Null]
        /\ IF x = Null THEN Return(p) ELSE Goto(p, "empty", x, <<>>, {})
        /\ UNCHANGED <<series, used, now, store, timer, origin, deleted>>
    BY <1>2, <2>a DEF DeleteRow, At
  <2>2. b \in Ids /\ x \in SeriesIds \cup {Null}
    BY <1>0, <2>1, <2>a DEF RequestsOK, RequestOK
  <2>3. /\ x \in {origin[b], Null} /\ (x = Null => Detached(origin[b]))
    BY <2>1, <2>a DEF LinksOK, ReadLinks, IsLink, At
  <2>4. /\ x = Null => req'[p].pc = "idle"
        /\ x # Null => req'[p].pc = "empty" /\ req'[p].id = x
        /\ \A q \in Procs \ {p} : req'[q] = req[q]
    <3>1. CASE x = Null
      BY <1>0, <2>1, <3>1, Returned
    <3>2. CASE x # Null
      BY <1>0, <2>1, <3>2, Moved
    <3> QED
      BY <3>1, <3>2
  <2>5. /\ Rows' \subseteq Rows /\ \A c \in Rows' : bookings'[c] = bookings[c]
        /\ \A c \in Rows \ {b} : c \in Rows'
    BY <2>1, <2>2 DEF Rows, Exists, TypeInv, TablesOK
  <2>6. \A pcs, y : "delete" \notin pcs /\ "idle" \notin pcs /\ "empty" \notin pcs =>
                        (Handled(pcs, y)' <=> Handled(pcs, y))
    BY <2>1, <2>4 DEF Handled
  <2>7. \A y : Detached(y)' <=> Detached(y)
    BY <2>1, <2>6 DEF Detached
  <2>8. LinksOK'
    <3>1. \A q \in Procs : req'[q].pc \in {"bookings", "delete"} => req'[q] = req[q]
      BY <2>4
    <3> QED
      BY <2>1, <2>5, <2>7, <3>1, LinksKept
  <2>9. IdsUsed'
    BY <2>1, <2>4 DEF IdsUsed
  <2>10. Attended'
    <3> SUFFICES ASSUME NEW s \in series, timer # "orphans", GetAllByRecurringID(s)' = {}
                 PROVE  Handled(AtSeries, s)'
      BY <2>1 DEF Attended
    <3>1. \A y : Handled(AtSeries, y) => Handled(AtSeries, y)'
      BY <2>1, <2>4 DEF Handled, AtSeries
    <3>2. CASE GetAllByRecurringID(s) = {}
      BY <3>1, <3>2 DEF Attended
    <3>3. CASE GetAllByRecurringID(s) # {}
      <4>1. b \in Rows /\ bookings[b].series = s
        BY <2>5, <3>3 DEF GetAllByRecurringID
      <4>2. s # Null /\ s \notin deleted
        BY RecurringConstants DEF TypeInv, TablesOK, IdsUsed
      <4>3. origin[b] = s
        BY <4>1, <4>2 DEF LinksOK, OwnLinks
      <4>4. CASE x = Null
        <5>1. Handled({"drop"}, s)
          BY <2>3, <4>2, <4>3, <4>4 DEF Detached
        <5>2. Handled(AtSeries, s)
          BY <5>1 DEF Handled, AtSeries
        <5> QED
          BY <3>1, <5>2
      <4>5. CASE x # Null
        BY <2>3, <2>4, <4>3, <4>5 DEF Handled, AtSeries
      <4> QED
        BY <4>4, <4>5
    <3> QED
      BY <3>2, <3>3
  <2>11. Cleared'
    BY <2>1, <2>5, <2>6 DEF Cleared
  <2>12. Exclusive'
    BY <2>1, <2>4, <2>6 DEF Exclusive, At
  <2> QED
    BY <2>8, <2>9, <2>10, <2>11, <2>12
<1>3. CASE DeleteEmptySeries(p)
  <2>a. PICK s : s = req[p].id
    OBVIOUS
  <2>1. /\ Return(p) /\ req[p].pc = "empty"
        /\ series' = IF GetAllByRecurringID(s) = {} THEN series \ {s} ELSE series
        /\ UNCHANGED <<bookings, used, now, store, timer, origin, deleted>>
    BY <1>3, <2>a DEF DeleteEmptySeries, At
  <2>2. req'[p].pc = "idle" /\ \A q \in Procs \ {p} : req'[q] = req[q]
    BY <1>0, <2>1, Returned
  <2>3. \A pcs, x : "empty" \notin pcs /\ "idle" \notin pcs => (Handled(pcs, x)' <=> Handled(pcs, x))
    BY <2>1, <2>2 DEF Handled
  <2>4. Rows' = Rows /\ \A x : GetAllByRecurringID(x)' = GetAllByRecurringID(x)
    BY <2>1, SameRowsFacts
  <2>5. LinksOK'
    <3>1. \A q \in Procs : req'[q].pc \in {"bookings", "delete"} => req'[q] = req[q]
      BY <2>2
    <3>2. \A x : Detached(x) => Detached(x)'
      BY <2>1, <2>3 DEF Detached
    <3> QED
      BY <2>1, <2>4, <3>1, <3>2, LinksKept
  <2>6. IdsUsed'
    BY <2>1, <2>2 DEF IdsUsed
  <2>7. Attended'
    <3>1. \A x : x # s /\ Handled(AtSeries, x) => Handled(AtSeries, x)'
      BY <2>1, <2>2, <2>a DEF Handled
    <3> QED
      BY <2>1, <2>4, <3>1 DEF Attended
  <2>8. Cleared'
    BY <2>1, <2>3, <2>4 DEF Cleared
  <2>9. Exclusive'
    BY <2>1, <2>2, <2>3 DEF Exclusive, At
  <2> QED
    BY <2>5, <2>6, <2>7, <2>8, <2>9
<1> QED
  BY <1>1, <1>2, <1>3 DEF DeleteBooking

LEMMA OthersKeep ==
    ASSUME SeriesInv, TypeInv', StoreEventId \/ CalDavFails \/ PurgeOld \/ PurgeOrphans \/ Tick
    PROVE  SeriesInv'
<1> USE DEF SeriesInv
<1>0. UNCHANGED <<req, used, origin, deleted>>
  BY DEF StoreEventId, CalDavFails, PurgeOld, PurgeOrphans, Tick
<1>a. \A pcs, x : Handled(pcs, x)' <=> Handled(pcs, x)
  BY <1>0 DEF Handled
<1>b. \A x : Detached(x)' <=> Detached(x)
  BY <1>0, <1>a DEF Detached
<1>c. Exclusive'
  BY <1>0, <1>a DEF Exclusive, At
<1>1. CASE StoreEventId
  <2>1. PICK t \in store :
          /\ store' = store \ {t}
          /\ bookings' = IF Exists(t[1]) THEN [bookings EXCEPT ![t[1]] = t[2]] ELSE bookings
          /\ UNCHANGED <<series, now, timer>>
    BY <1>1 DEF StoreEventId
  <2>2. t[1] \in Ids /\ t[2] \in Row /\ IsCopy(t)
    BY DEF TypeInv, TablesOK, LinksOK, Copies
  <2>3. /\ Rows' = Rows
        /\ \A b \in Rows : /\ bookings'[b].day = bookings[b].day
                           /\ bookings'[b].series \in {origin[b], bookings[b].series}
    <3>1. CASE Exists(t[1])
      <4>1. bookings' = [bookings EXCEPT ![t[1]] = t[2]] /\ t[1] \in Rows
        BY <2>1, <2>2, <3>1 DEF Rows
      <4>2. /\ Rows' = Rows \cup {t[1]} /\ bookings'[t[1]] = t[2]
            /\ \A c \in Ids \ {t[1]} : bookings'[c] = bookings[c]
        BY <2>2, <4>1, RowIsWritten DEF TypeInv
      <4>3. t[2].day = bookings[t[1]].day /\ t[2].series = origin[t[1]]
        BY <2>2, <3>1 DEF IsCopy
      <4> QED
        BY <4>1, <4>2, <4>3 DEF Rows
    <3>2. CASE ~Exists(t[1])
      BY <2>1, <3>2, SameRowsFacts
    <3> QED
      BY <3>1, <3>2
  <2>4. \A x : x \in series => GetAllByRecurringID(x) \subseteq GetAllByRecurringID(x)'
    <3>1. Null \notin series
      BY RecurringConstants DEF TypeInv, TablesOK
    <3> QED
      BY <2>3, <3>1 DEF GetAllByRecurringID, LinksOK, OwnLinks
  <2>5. OwnLinks'
    BY <1>0, <1>b, <2>3 DEF LinksOK, OwnLinks
  <2>6. ReadLinks'
    <3>1. \A l : IsLink(l) => IsLink(l)'
      BY <1>0, <1>b DEF IsLink
    <3> QED
      BY <1>0, <3>1 DEF LinksOK, ReadLinks, At
  <2>7. Copies'
    <3>1. \A u : IsCopy(u) => IsCopy(u)'
      <4> SUFFICES ASSUME NEW u, IsCopy(u) PROVE IsCopy(u)'
        OBVIOUS
      <4>1. Exists(u[1])' => u[1] \in Rows
        BY <2>3 DEF IsCopy, Rows
      <4>2. u[1] \in Rows => bookings'[u[1]].day = u[2].day
        BY <2>3 DEF IsCopy, Rows
      <4> QED
        BY <1>0, <4>1, <4>2 DEF IsCopy
    <3> QED
      BY <1>0, <2>1, <3>1 DEF LinksOK, Copies, At
  <2>8. IdsUsed' /\ Attended' /\ Cleared'
    BY <1>0, <1>a, <2>1, <2>3, <2>4 DEF IdsUsed, Attended, Cleared
  <2> QED
    BY <1>c, <2>5, <2>6, <2>7, <2>8 DEF LinksOK
<1>2. CASE PurgeOld
  <2>1. PICK Gone : bookings' = [b \in Ids |-> IF b \in Gone THEN Null ELSE bookings[b]]
    BY <1>2 DEF PurgeOld
  <2>2. Rows' \subseteq Rows /\ \A b \in Rows' : bookings'[b] = bookings[b]
    BY <2>1 DEF Rows, Exists
  <2>3. UNCHANGED <<series, now, store>> /\ timer' = "orphans"
    BY <1>2 DEF PurgeOld
  <2>4. LinksOK'
    BY <1>0, <1>b, <2>2, <2>3, LinksKept
  <2>5. IdsUsed' /\ Attended' /\ Cleared'
    BY <1>0, <1>a, <2>2, <2>3 DEF IdsUsed, Attended, Cleared
  <2> QED
    BY <1>c, <2>4, <2>5
<1>3. CASE CalDavFails \/ PurgeOrphans \/ Tick
  <2>1. UNCHANGED bookings /\ store' \subseteq store
    BY <1>3 DEF CalDavFails, PurgeOrphans, Tick
  <2>2. Rows' = Rows /\ \A x : GetAllByRecurringID(x)' = GetAllByRecurringID(x)
    BY <2>1, SameRowsFacts
  <2>3. LinksOK'
    BY <1>0, <1>b, <2>1, <2>2, LinksKept
  <2>4. series' \subseteq series /\ IdsUsed'
    BY <1>0, <1>3 DEF IdsUsed, CalDavFails, PurgeOrphans, Tick
  <2>5. Attended'
    <3>1. CASE PurgeOrphans
      BY <2>2, <3>1 DEF PurgeOrphans, Attended
    <3>2. CASE UNCHANGED <<series, timer>>
      BY <1>a, <2>2, <3>2 DEF Attended
    <3> QED
      BY <1>3, <3>1, <3>2 DEF CalDavFails, Tick
  <2>6. Cleared'
    <3>1. now \in Nat /\ now' \in Nat /\ now <= now'
      BY <1>3, RecurringConstants DEF CalDavFails, PurgeOrphans, Tick, TypeInv, TablesOK
    <3>2. \A b \in Rows : bookings[b].day \in Nat
      BY DEF TypeInv, TablesOK, Rows, Exists, Row
    <3>3. \A b \in Rows : bookings[b].day <= now => bookings[b].day <= now'
      BY <3>1, <3>2
    <3> QED
      BY <1>0, <1>a, <2>1, <2>2, <3>3 DEF Cleared
  <2> QED
    BY <1>c, <2>3, <2>4, <2>5, <2>6
<1> QED
  BY <1>1, <1>2, <1>3

LEMMA SeriesInit == Init => SeriesInv
<1> SUFFICES ASSUME Init PROVE SeriesInv
  OBVIOUS
<1>1. Rows = {}
  BY DEF Init, Rows, Exists
<1>2. series = {} /\ deleted = {} /\ store = {} /\ \A p \in Procs : req[p].pc = "idle"
  BY DEF Init, Idle
<1>3. LinksOK
  BY <1>1, <1>2 DEF LinksOK, OwnLinks, ReadLinks, Copies, At
<1> QED
  BY <1>1, <1>2, <1>3, TypeInit DEF SeriesInv, IdsUsed, Attended, Cleared, Exclusive, At

LEMMA SeriesStep == AllInOrder /\ SeriesInv /\ [CreateDelete]_vars => SeriesInv'
<1> SUFFICES ASSUME AllInOrder, SeriesInv, [CreateDelete]_vars PROVE SeriesInv'
  OBVIOUS
<1>1. [Next]_vars
  BY DEF CreateDelete, Next
<1>2. TypeInv'
  BY <1>1, TypeStep DEF SeriesInv
<1>3. CASE UNCHANGED vars
  <2>1. UNCHANGED <<bookings, series, used, now, req, store, timer, origin, deleted>>
    BY <1>3 DEF vars
  <2>2. Rows' = Rows /\ (\A x : GetAllByRecurringID(x)' = GetAllByRecurringID(x))
        /\ \A pcs, x : Handled(pcs, x)' <=> Handled(pcs, x)
    BY <2>1, SameRowsFacts DEF Handled
  <2>3. LinksOK'
    BY <2>1, <2>2, LinksKept DEF SeriesInv, Detached
  <2>4. IdsUsed' /\ Attended' /\ Cleared' /\ Exclusive'
    BY <2>1, <2>2 DEF SeriesInv, IdsUsed, Attended, Cleared, Exclusive, At
  <2> QED
    BY <1>2, <2>3, <2>4 DEF SeriesInv
<1> QED
  BY <1>2, <1>3, CreateKeeps, DeleteSeriesKeeps, DeleteBookingKeeps, OthersKeep DEF CreateDelete

LEMMA SeriesInvariant ==
    ASSUME AllInOrder
    PROVE  CreateDeleteSpec => []SeriesInv
<1>1. SeriesInv /\ [CreateDelete]_vars => SeriesInv'
  BY SeriesStep
<1> QED
  BY <1>1, SeriesInit, PTL DEF CreateDeleteSpec

\* Between requests every series has a booking, for any number of requests that create and
\* delete at a time, and however the goroutines and the purge come between: of two that delete
\* the last bookings the later one takes the series along, and a booking whose link a goroutine
\* restores belongs to a series that is being dropped.
THEOREM NoSeriesIsOrphan ==
    ASSUME AllInOrder
    PROVE  CreateDeleteSpec => []NoOrphanSeries
<1>1. SeriesInv => NoOrphanSeries
  <2> SUFFICES ASSUME SeriesInv, Settled, NEW s \in series PROVE GetAllByRecurringID(s) # {}
    BY DEF NoOrphanSeries
  <2>1. ~Handled(AtSeries, s)
    BY DEF Handled, AtSeries, Settled, At
  <2> QED
    BY <2>1 DEF SeriesInv, Attended, Settled
<1> QED
  BY <1>1, SeriesInvariant, PTL

\* After the answer to DELETE of a series, none of the bookings made for it lies in the future,
\* if a client knows of a series only when its bookings are there.
THEOREM DeletedSeriesIsOver ==
    ASSUME AllInOrder
    PROVE  CreateDeleteSpec => []DeletedSeriesLeavesNoFuture
<1>1. SeriesInv => DeletedSeriesLeavesNoFuture
  BY DEF SeriesInv, Cleared, DeletedSeriesLeavesNoFuture
<1> QED
  BY <1>1, SeriesInvariant, PTL
-----------------------------------------------------------------------------
\* The only request, no CalDAV config, booking_retention_enabled unset.
Alone ==
    /\ \E p : Procs = {p}
    /\ ~CalDav /\ ~RetentionEnabled

Shape ==
    /\ bookings = [b \in Ids |-> bookings[b]]
    /\ \A b \in Rows : bookings[b] = [series |-> bookings[b].series, day |-> bookings[b].day]
    /\ req = [p \in Procs |-> req[p]]

\* The series is there until the last of its bookings is inserted, and none is
\* linked to it when delete comes to its third statement.
Quiet ==
    /\ store = {} /\ timer = "idle"
    /\ \A p \in Procs : At(p, "bookings") => req[p].id \in series
    /\ \A p \in Procs : req[p].pc \in {"future", "detach", "drop"} => req[p].id # Null
    /\ \A p \in Procs : At(p, "drop") => GetAllByRecurringID(req[p].id) = {}

LinkInv == Shape /\ Quiet /\ NoDanglingLink

LEMMA LinkInit == Alone /\ Init => LinkInv
  <1> SUFFICES ASSUME Alone, Init PROVE LinkInv
    OBVIOUS
  <1>1. Rows = {}
    BY DEF Init, Rows, Exists
  <1>2. Shape
    BY <1>1 DEF Init, Shape
  <1>3. Quiet
    BY DEF Init, Quiet, At, Idle
  <1> QED
    BY <1>1, <1>2, <1>3 DEF LinkInv, NoDanglingLink

\* A step of the only request, that leaves it at pc with the series id: what is
\* left to show is about the two tables.
LEMMA RequestStep ==
    ASSUME Alone, LinkInv, NEW p \in Procs, NEW pc, NEW id, NEW left, NEW made,
           Goto(p, pc, id, left, made),
           UNCHANGED <<store, timer>>,
           bookings' = [b \in Ids |-> bookings'[b]],
           \A b \in Rows' : bookings'[b] = [series |-> bookings'[b].series, day |-> bookings'[b].day],
           NoDanglingLink',
           pc = "bookings" => id \in series',
           pc \in {"future", "detach", "drop"} => id # Null,
           pc = "drop" => GetAllByRecurringID(id)' = {}
    PROVE  LinkInv'
  <1>1. Procs = {p}
    BY DEF Alone
  <1>2. req = [q \in Procs |-> req[q]]
    BY DEF LinkInv, Shape
  <1>3. req' = [q \in Procs |-> [pc |-> pc, id |-> id, left |-> left, made |-> made]]
    BY <1>1, <1>2 DEF Goto
  <1>4. req'[p].pc = pc /\ req'[p].id = id /\ req' = [q \in Procs |-> req'[q]]
    BY <1>3
  <1>5. Shape'
    BY <1>4 DEF Shape
  <1>6. Quiet'
    BY <1>1, <1>4 DEF Quiet, At, LinkInv, GetAllByRecurringID
  <1> QED
    BY <1>5, <1>6 DEF LinkInv

\* Rows that are taken away, or lose their link, disturb nothing.
LEMMA FewerLinks ==
    ASSUME LinkInv, UNCHANGED series,
           NEW Gone \in SUBSET Ids,
           bookings' = [b \in Ids |-> IF b \in Gone THEN Null ELSE bookings[b]]
    PROVE  /\ bookings' = [b \in Ids |-> bookings'[b]]
           /\ \A b \in Rows' : bookings'[b] = [series |-> bookings'[b].series, day |-> bookings'[b].day]
           /\ NoDanglingLink'
  <1>1. bookings' = [b \in Ids |-> bookings'[b]]
    OBVIOUS
  <1>2. \A b \in Rows' : b \in Rows /\ bookings'[b] = bookings[b]
    BY DEF Rows, Exists
  <1> QED
    BY <1>1, <1>2 DEF LinkInv, Shape, NoDanglingLink

LEMMA SameRows ==
    ASSUME LinkInv, UNCHANGED bookings
    PROVE  /\ bookings' = [b \in Ids |-> bookings'[b]]
           /\ \A b \in Rows' : bookings'[b] = [series |-> bookings'[b].series, day |-> bookings'[b].day]
           /\ Rows' = Rows
           /\ \A s : GetAllByRecurringID(s)' = GetAllByRecurringID(s)
  BY DEF LinkInv, Shape, Rows, Exists, GetAllByRecurringID
-----------------------------------------------------------------------------
\* A series is inserted before its bookings.
LEMMA CreateStep ==
    ASSUME Alone, LinkInv, NEW p \in Procs, Create(p)
    PROVE  LinkInv'
  <1>1. CASE \E e \in Recurrences : CheckSeries(p, e)
    <2>1. PICK e \in Recurrences : CheckSeries(p, e)
      BY <1>1
    <2>2. Goto(p, "series", Null, ValidBookings(e), {})
      BY <2>1 DEF CheckSeries
    <2>3. UNCHANGED <<bookings, series, store, timer>>
      BY <2>1 DEF CheckSeries
    <2>4. NoDanglingLink'
      BY <2>3, SameRows DEF LinkInv, NoDanglingLink
    <2> QED
      BY <2>2, <2>3, <2>4, SameRows, RequestStep
  <1>2. CASE InsertSeries(p)
    <2>1. PICK s \in SeriesIds \ used :
             series' = series \cup {s} /\ Goto(p, "bookings", s, req[p].left, {})
      BY <1>2 DEF InsertSeries
    <2>2. UNCHANGED <<bookings, store, timer>>
      BY <1>2 DEF InsertSeries
    <2>3. NoDanglingLink'
      BY <2>1, <2>2, SameRows DEF LinkInv, NoDanglingLink
    <2> QED
      BY <2>1, <2>2, <2>3, SameRows, RequestStep
  <1>3. CASE InsertBooking(p)
    <2> DEFINE row == [series |-> req[p].id, day |-> Head(req[p].left)]
    <2>1. PICK b \in Ids \ used :
             /\ bookings' = [bookings EXCEPT ![b] = row]
             /\ IF Len(req[p].left) = 1
                THEN Return(p) /\ store' = IF CalDav THEN store \cup req[p].made \cup {<<b, row>>} ELSE store
                ELSE /\ Goto(p, "bookings", req[p].id, Tail(req[p].left), req[p].made \cup {<<b, row>>})
                     /\ UNCHANGED store
      BY <1>3 DEF InsertBooking
    <2>2. At(p, "bookings") /\ UNCHANGED <<series, timer>>
      BY <1>3 DEF InsertBooking
    <2>3. req[p].id \in series
      BY <2>2 DEF LinkInv, Quiet
    <2>4. bookings = [c \in Ids |-> bookings[c]]
      BY DEF LinkInv, Shape
    <2>5. bookings' = [c \in Ids |-> IF c = b THEN row ELSE bookings[c]]
      BY <2>1, <2>4
    <2>6. \A c \in Rows' : c \in Ids /\ (c = b \/ c \in Rows) /\ (c # b => bookings'[c] = bookings[c])
      BY <2>5 DEF Rows, Exists
    <2>7. bookings'[b] = row /\ bookings'[b].series = req[p].id
      BY <2>5
    <2>8. \A c \in Rows' : bookings'[c] = [series |-> bookings'[c].series, day |-> bookings'[c].day]
      BY <2>6, <2>7 DEF LinkInv, Shape
    <2>9. NoDanglingLink'
      BY <2>2, <2>3, <2>6, <2>7 DEF LinkInv, NoDanglingLink
    <2>10. bookings' = [c \in Ids |-> bookings'[c]]
      BY <2>5
    <2>11. CASE Len(req[p].left) = 1
      <3>1. Goto(p, "idle", Null, <<>>, {}) /\ UNCHANGED store
        BY <2>1, <2>11 DEF Return, Idle, Goto, Alone
      <3> HIDE DEF row
      <3> QED
        BY <3>1, <2>2, <2>8, <2>9, <2>10, RequestStep
    <2>12. CASE Len(req[p].left) # 1
      <3> DEFINE made == req[p].made \cup {<<b, row>>}
      <3>1. Goto(p, "bookings", req[p].id, Tail(req[p].left), made) /\ UNCHANGED store
        BY <2>1, <2>12
      <3> HIDE DEF row, made
      <3> QED
        BY <3>1, <2>2, <2>3, <2>8, <2>9, <2>10, RequestStep
    <2> QED
      BY <2>11, <2>12
  <1> QED
    BY <1>1, <1>2, <1>3 DEF Create

\* The links of a series are gone before the series.
LEMMA DeleteSeriesStep ==
    ASSUME Alone, LinkInv, NEW p \in Procs, DeleteSeries(p)
    PROVE  LinkInv'
  <1>1. CASE \E s \in SeriesIds : ReceiveDeleteSeries(p, s)
    <2>1. PICK s \in SeriesIds : ReceiveDeleteSeries(p, s)
      BY <1>1
    <2>2. Goto(p, "future", s, <<>>, {}) /\ UNCHANGED <<bookings, series, store, timer>>
      BY <2>1 DEF ReceiveDeleteSeries
    <2>3. NoDanglingLink'
      BY <2>2, SameRows DEF LinkInv, NoDanglingLink
    <2> QED
      BY <2>2, <2>3, SameRows, RequestStep, RecurringConstants
  <1>2. CASE DeleteFuture(p)
    <2> DEFINE Gone == {b \in GetAllByRecurringID(req[p].id) : bookings[b].day > now}
    <2>1. /\ bookings' = [b \in Ids |-> IF b \in Gone THEN Null ELSE bookings[b]]
          /\ Goto(p, "detach", req[p].id, <<>>, {})
          /\ UNCHANGED <<series, store, timer>>
      BY <1>2 DEF DeleteFuture
    <2>2. Gone \in SUBSET Ids
      BY DEF GetAllByRecurringID, Rows
    <2>3. req[p].id # Null
      BY <1>2 DEF DeleteFuture, LinkInv, Quiet, At
    <2> HIDE DEF Gone
    <2> QED
      BY <2>1, <2>2, <2>3, FewerLinks, RequestStep
  <1>3. CASE Detach(p)
    <2>a. PICK id : id = req[p].id
      OBVIOUS
    <2>b. PICK Linked : Linked = GetAllByRecurringID(id)
      OBVIOUS
    <2>c. id # Null
      BY <1>3, <2>a DEF Detach, LinkInv, Quiet, At
    <2>1. /\ bookings' = [b \in Ids |-> IF b \in Linked THEN [bookings[b] EXCEPT !.series = Null]
                                        ELSE bookings[b]]
          /\ Goto(p, "drop", id, <<>>, {})
          /\ UNCHANGED <<series, store, timer>>
      BY <1>3, <2>a, <2>b DEF Detach
    <2>2. \A b \in Linked : b \in Rows /\ bookings[b] = [series |-> bookings[b].series, day |-> bookings[b].day]
      BY <2>b DEF GetAllByRecurringID, LinkInv, Shape
    <2>3. ASSUME NEW b \in Linked
          PROVE  /\ bookings'[b] = [series |-> bookings'[b].series, day |-> bookings'[b].day]
                 /\ bookings'[b].series = Null
      <3>1. b \in Ids
        BY <2>2 DEF Rows
      <3>2. PICK row, row2 : row = bookings[b] /\ row2 = bookings'[b]
        OBVIOUS
      <3>3. row2 = [row EXCEPT !.series = Null]
        BY <2>1, <3>1, <3>2
      <3>4. row = [series |-> row.series, day |-> row.day]
        BY <2>2, <3>2
      <3>5. row2 = [series |-> Null, day |-> row.day]
        BY <3>3, <3>4
      <3>6. row2.series = Null /\ row2 = [series |-> row2.series, day |-> row2.day]
        BY <3>5
      <3> QED
        BY <3>2, <3>6
    <2>4. ASSUME NEW b \in Rows', b \notin Linked
          PROVE  b \in Rows /\ bookings'[b] = bookings[b]
      BY <2>1, <2>4 DEF Rows, Exists
    <2>5. bookings' = [b \in Ids |-> bookings'[b]]
      BY <2>1
    <2>6. \A b \in Rows' : bookings'[b] = [series |-> bookings'[b].series, day |-> bookings'[b].day]
      <3> SUFFICES ASSUME NEW b \in Rows'
                   PROVE  bookings'[b] = [series |-> bookings'[b].series, day |-> bookings'[b].day]
        OBVIOUS
      <3>1. CASE b \in Linked
        BY <2>3, <3>1
      <3>2. CASE b \notin Linked
        <4>1. b \in Rows /\ bookings'[b] = bookings[b]
          BY <2>4, <3>2
        <4> QED
          BY <4>1 DEF LinkInv, Shape
      <3> QED
        BY <3>1, <3>2
    <2>7. NoDanglingLink'
      <3> SUFFICES ASSUME NEW b \in Rows'
                   PROVE  bookings'[b].series \in series \cup {Null}
        BY <2>1 DEF NoDanglingLink
      <3>1. CASE b \in Linked
        BY <2>3, <3>1
      <3>2. CASE b \notin Linked
        <4>1. b \in Rows /\ bookings'[b] = bookings[b]
          BY <2>4, <3>2
        <4> QED
          BY <4>1 DEF LinkInv, NoDanglingLink
      <3> QED
        BY <3>1, <3>2
    <2>8. GetAllByRecurringID(id)' = {}
      <3>1. SUFFICES ASSUME NEW b \in Rows', bookings'[b].series = id
                     PROVE  FALSE
        BY DEF GetAllByRecurringID
      <3>2. b \in Linked
        <4>1. b \notin Linked => b \in Rows /\ bookings[b].series = id
          BY <2>4, <3>1
        <4> QED
          BY <4>1, <2>b DEF GetAllByRecurringID
      <3> QED
        BY <2>3, <2>c, <3>1, <3>2
    <2> QED
      BY <2>c, <2>1, <2>5, <2>6, <2>7, <2>8, RequestStep
  <1>4. CASE DropSeries(p)
    <2>1. /\ At(p, "drop") /\ Return(p)
          /\ series' = series \ {req[p].id}
          /\ UNCHANGED <<bookings, store, timer>>
      BY <1>4 DEF DropSeries
    <2>2. Goto(p, "idle", Null, <<>>, {})
      BY <2>1 DEF Return, Idle, Goto
    <2>3. NoDanglingLink'
      BY <2>1, SameRows DEF LinkInv, Quiet, NoDanglingLink, GetAllByRecurringID
    <2> QED
      BY <2>1, <2>2, <2>3, SameRows, RequestStep
  <1> QED
    BY <1>1, <1>2, <1>3, <1>4 DEF DeleteSeries

\* A series is deleted with a booking only if no booking of it is left.
LEMMA DeleteBookingStep ==
    ASSUME Alone, LinkInv, NEW p \in Procs, DeleteBooking(p)
    PROVE  LinkInv'
  <1>1. CASE \E b \in Ids : ReceiveDelete(p, b)
    <2>1. PICK b \in Ids : ReceiveDelete(p, b)
      BY <1>1
    <2>2. Goto(p, "delete", <<b, bookings[b].series>>, <<>>, {})
      BY <2>1 DEF ReceiveDelete
    <2>3. UNCHANGED <<bookings, series, store, timer>>
      BY <2>1 DEF ReceiveDelete
    <2>4. NoDanglingLink'
      BY <2>3, SameRows DEF LinkInv, NoDanglingLink
    <2> QED
      BY <2>2, <2>3, <2>4, SameRows, RequestStep
  <1>2. CASE DeleteRow(p)
    <2> DEFINE gone == {req[p].id[1]} \cap Ids
    <2>1. /\ bookings' = [bookings EXCEPT ![req[p].id[1]] = Null]
          /\ UNCHANGED <<series, store, timer>>
      BY <1>2 DEF DeleteRow
    <2>2. bookings' = [b \in Ids |-> IF b \in gone THEN Null ELSE bookings[b]]
      BY <2>1 DEF LinkInv, Shape
    <2>3. \/ Goto(p, "idle", Null, <<>>, {})
          \/ Goto(p, "empty", req[p].id[2], <<>>, {})
      BY <1>2 DEF DeleteRow, Return, Idle, Goto
    <2> HIDE DEF gone
    <2>4. gone \in SUBSET Ids
      BY DEF gone
    <2> QED
      BY <2>1, <2>2, <2>3, <2>4, FewerLinks, RequestStep
  <1>3. CASE DeleteEmptySeries(p)
    <2>1. /\ Return(p)
          /\ series' = IF GetAllByRecurringID(req[p].id) = {} THEN series \ {req[p].id} ELSE series
          /\ UNCHANGED <<bookings, store, timer>>
      BY <1>3 DEF DeleteEmptySeries
    <2>2. Goto(p, "idle", Null, <<>>, {})
      BY <2>1 DEF Return, Idle, Goto
    <2>3. NoDanglingLink'
      BY <2>1, SameRows DEF LinkInv, NoDanglingLink, GetAllByRecurringID
    <2> QED
      BY <2>1, <2>2, <2>3, SameRows, RequestStep
  <1> QED
    BY <1>1, <1>2, <1>3 DEF DeleteBooking
LEMMA FailStep ==
    ASSUME Alone, LinkInv, NEW p \in Procs, Fail(p)
    PROVE  LinkInv'
  <1>1. Goto(p, "idle", Null, <<>>, {}) /\ UNCHANGED <<bookings, series, store, timer>>
    BY DEF Fail, Return, Idle, Goto
  <1>2. NoDanglingLink'
    BY <1>1, SameRows DEF LinkInv, NoDanglingLink
  <1> QED
    BY <1>1, <1>2, SameRows, RequestStep

\* The row loses its link, whatever a request is about to do with the series.
LEMMA UpdateBookingStep ==
    ASSUME Alone, LinkInv, NEW b \in Ids, NEW day \in Days, UpdateBooking(b, day)
    PROVE  LinkInv'
  <1>1. /\ bookings' = [bookings EXCEPT ![b] = [series |-> Null, day |-> day]]
        /\ UNCHANGED <<series, store, timer, req>>
    BY DEF UpdateBooking, Alone
  <1>2. bookings' = [c \in Ids |-> IF c = b THEN [series |-> Null, day |-> day] ELSE bookings[c]]
    BY <1>1 DEF LinkInv, Shape
  <1>3. b \in Rows
    BY DEF UpdateBooking, Rows
  <1>4. \A c \in Rows' : c \in Rows /\ (c # b => bookings'[c] = bookings[c])
    BY <1>2, <1>3 DEF Rows, Exists
  <1>5. bookings'[b] = [series |-> Null, day |-> day]
    BY <1>2
  <1>6. bookings'[b].series = Null
    BY <1>5
  <1>7. \A c \in Rows' : bookings'[c] = [series |-> bookings'[c].series, day |-> bookings'[c].day]
    BY <1>4, <1>5 DEF LinkInv, Shape
  <1>8. NoDanglingLink'
    BY <1>1, <1>4, <1>6 DEF LinkInv, NoDanglingLink
  <1>9. Shape'
    BY <1>1, <1>2, <1>7 DEF LinkInv, Shape
  <1>10. ASSUME NEW p \in Procs, At(p, "drop")
         PROVE  GetAllByRecurringID(req[p].id)' = {}
    <2>1. GetAllByRecurringID(req[p].id) = {}
      BY <1>10 DEF LinkInv, Quiet
    <2>2. req[p].id # Null
      BY <1>10 DEF LinkInv, Quiet, At
    <2> QED
      BY <1>1, <1>4, <1>6, <2>1, <2>2 DEF GetAllByRecurringID
  <1>11. Quiet'
    BY <1>1, <1>10 DEF LinkInv, Quiet, At
  <1> QED
    BY <1>8, <1>9, <1>11 DEF LinkInv

LEMMA LinkStep == Alone /\ LinkInv /\ [Next]_vars => LinkInv'
  <1> SUFFICES ASSUME Alone, LinkInv, [Next]_vars
               PROVE  LinkInv'
    OBVIOUS
  <1>1. CASE \E p \in Procs : Create(p) \/ DeleteSeries(p) \/ DeleteBooking(p) \/ Fail(p)
    BY <1>1, CreateStep, DeleteSeriesStep, DeleteBookingStep, FailStep
  <1>2. CASE \E b \in Ids, day \in Days : UpdateBooking(b, day)
    BY <1>2, UpdateBookingStep
  <1>3. CASE StoreEventId \/ CalDavFails
    BY <1>3 DEF StoreEventId, CalDavFails, LinkInv, Quiet
  <1>4. CASE PurgeOld \/ PurgeOrphans
    BY <1>4 DEF PurgeOld, PurgeOrphans, Alone, LinkInv, Quiet
  <1>5. CASE Tick \/ UNCHANGED vars
    <2>1. UNCHANGED <<bookings, series, req, store, timer>>
      BY <1>5 DEF Tick, vars
    <2> QED
      BY <2>1, SameRows DEF LinkInv, Shape, Quiet, NoDanglingLink, At
  <1>6. CASE Restart
    <2>1. /\ UNCHANGED <<bookings, series>> /\ store' = {} /\ timer' = "idle"
          /\ req' = [p \in Procs |-> Idle]
      BY <1>6 DEF Restart
    <2>2. Quiet'
      BY <2>1 DEF Quiet, At, Idle
    <2>3. Shape'
      BY <2>1, SameRows DEF Shape
    <2> QED
      BY <2>1, <2>2, <2>3, SameRows DEF LinkInv, NoDanglingLink
  <1> QED
    BY <1>1, <1>2, <1>3, <1>4, <1>5, <1>6 DEF Next

\* One request at a time, without a purge and without CalDAV, every booking that
\* says it belongs to a series belongs to one that is there, though statements
\* may fail and the server may stop between any two of them.
THEOREM LinksHold ==
    ASSUME Alone
    PROVE  Spec => []NoDanglingLink
  <1>1. Init => LinkInv
    BY LinkInit
  <1>2. LinkInv /\ [Next]_vars => LinkInv'
    BY LinkStep
  <1>3. LinkInv => NoDanglingLink
    BY DEF LinkInv
  <1> QED
    BY <1>1, <1>2, <1>3, PTL DEF Spec
=============================================================================

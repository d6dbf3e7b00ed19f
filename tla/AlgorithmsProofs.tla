--------------------------- MODULE AlgorithmsProofs ---------------------------
(***************************************************************************)
(* In every behaviour of MCAlgorithms, and for any bounds: the queries     *)
(* select and count what they are meant to, the days of a series are those *)
(* the recurrence names (the work for these is in OperatorProofs), and     *)
(* server and client agree on what can be booked on a day.                 *)
(***************************************************************************)
EXTENDS MCAlgorithms, OperatorProofs

\* The stay asked for, and those in the table.
QueryInv == /\ query \in Stays \cup {None} /\ book \in Seq(Stays)
            /\ query \in Stays \/ book = <<>>

LEMMA StaysAreIntervals == Stays \subseteq Interval
<1>1. LastMinute \in Nat
  BY AlgorithmsConstants
<1>2. 0 .. LastMinute \subseteq Nat
  BY <1>1
<1> QED
  BY <1>2 DEF Stays, Interval

LEMMA QueryInvariant == Spec => []QueryInv
<1>1. ASSUME InitStays \/ InitSeries \/ InitDay PROVE QueryInv
  <2>1. book = <<>> /\ query \in Stays \cup {None}
    BY <1>1 DEF InitStays, InitSeries, InitDay
  <2> QED
    BY <2>1 DEF QueryInv
<1>2. ASSUME QueryInv, [Reserve \/ Ask \/ Extend \/ BookDesk \/ Tick]_<<query, book, series, desk, day>>
      PROVE  QueryInv'
  <2>1. CASE Reserve
    <3>1. PICK i \in Stays : book' = Append(book, i)
      BY <2>1 DEF Reserve
    <3>2. book' \in Seq(Stays) /\ UNCHANGED query /\ query # None
      BY <1>2, <2>1, <3>1 DEF Reserve, QueryInv
    <3> QED
      BY <1>2, <3>2 DEF QueryInv
  <2>2. CASE Ask
    BY <1>2, <2>2 DEF Ask, QueryInv
  <2>3. CASE UNCHANGED <<query, book>>
    BY <1>2, <2>3 DEF QueryInv
  <2> QED
    BY <1>2, <2>1, <2>2, <2>3 DEF Extend, BookDesk, Tick
<1> QED
  BY <1>1, <1>2, PTL DEF Spec

\* In every behaviour of the instance, and for any LastMinute and MaxBook, the WHERE clauses
\* select the stays that share a minute.
THEOREM QueriesSelect == Spec => []QueriesSelectOverlaps
<1>1. QueryInv => QueriesSelectOverlaps
  <2> SUFFICES ASSUME QueryInv, NEW n \in DOMAIN book
               PROVE  /\ InUserRange(query, book[n]) <=> Overlaps(query, book[n])
                      /\ Overlaps(query, book[n]) <=> ShareMinute(query, book[n])
    BY DEF QueriesSelectOverlaps
  <2>1. book[n] \in Stays /\ query \in Stays
    BY DEF QueryInv
  <2> QED
    BY <2>1, StaysAreIntervals, UserRangeIsOverlapEverywhere, ConflictIsSharedMinuteEverywhere
<1> QED
  BY <1>1, QueryInvariant, PTL

\* Likewise, GetConcurrent counts no more than the peak, and on a grid of two minutes exactly that.
THEOREM ConcurrentSamples == Spec => []ConcurrentSamplesPeak
<1>1. QueryInv => ConcurrentSamplesPeak
  <2> SUFFICES ASSUME QueryInv, query # None PROVE ConcurrentSamplesPeak
    BY DEF ConcurrentSamplesPeak
  <2>1. query \in Interval /\ IsTable(book)
    <3>1. DOMAIN book = 1 .. Len(book) /\ Len(book) \in Nat
      BY DEF QueryInv
    <3>2. IsFiniteSet(DOMAIN book)
      BY <3>1, FS_Interval
    <3>3. \A b \in DOMAIN book : book[b] \in Stays
      BY DEF QueryInv
    <3> QED
      BY <3>2, <3>3, StaysAreIntervals DEF QueryInv, IsTable
  <2>2. ASSUME \A i \in {query} \cup {book[n] : n \in DOMAIN book} : i.enter % 2 = 0 /\ i.leave % 2 = 0
        PROVE  Concurrent(query, book) = Peak(query, book)
    <3>1. OnGrid(query) /\ \A b \in DOMAIN book : OnGrid(book[b])
      BY <2>2 DEF OnGrid
    <3> QED
      BY <2>1, <3>1, SamplingIsExactOnGrid
  <2> QED
    BY <2>1, <2>2, SamplingCountsNoMore DEF ConcurrentSamplesPeak
<1> QED
  BY <1>1, QueryInvariant, PTL
-----------------------------------------------------------------------------
\* The recurrence asked for.
SeriesInv == series # None => InOrder(series)

LEMMA ListsAreInOrder ==
    ASSUME Sorted, NEW s \in WeekdayLists
    PROVE  s \in Seq(0 .. 6) /\ Increasing(s)
<1>1. PICK n \in 0 .. MaxDays : s \in [1 .. n -> 0 .. 6] /\ Increasing(s)
  BY DEF WeekdayLists
<1>2. n \in Nat
  BY <1>1, AlgorithmsConstants
<1> QED
  BY <1>1, <1>2

LEMMA SeriesInvariant == ASSUME Sorted PROVE Spec => []SeriesInv
<1>1. ASSUME InitStays \/ InitSeries \/ InitDay PROVE SeriesInv
  <2>1. CASE InitSeries
    <3>1. PICK enter \in 0 .. 6, cycle \in 1 .. MaxCycle :
            series \in [enter : {enter}, end : {enter + 1}, cycle : {cycle},
                        cadence : {"daily"}, weekdays : {<<>>}]
              \cup [enter : {enter}, end : {enter + 1}, cycle : {cycle},
                    cadence : {"weekly"}, weekdays : WeekdayLists]
      BY <2>1 DEF InitSeries
    <3>2. enter \in Nat /\ enter + 1 \in Nat /\ cycle \in Nat \ {0}
      BY AlgorithmsConstants
    <3>3. <<>> \in Seq(0 .. 6) /\ Increasing(<<>>)
      BY DEF Increasing
    <3>4. series.weekdays \in Seq(0 .. 6) /\ Increasing(series.weekdays)
      BY <3>1, <3>3, ListsAreInOrder
    <3>5. series \in Recurrence
      BY <3>1, <3>2, <3>3, ListsAreInOrder DEF Recurrence
    <3> QED
      BY <3>4, <3>5 DEF SeriesInv, InOrder
  <2> QED
    BY <1>1, <2>1 DEF InitStays, InitDay, SeriesInv
<1>2. ASSUME SeriesInv, [Reserve \/ Ask \/ Extend \/ BookDesk \/ Tick]_<<query, book, series, desk, day>>
      PROVE  SeriesInv'
  <2>1. CASE Extend
    <3>1. series # None /\ series' = [series EXCEPT !.end = @ + 1]
      BY <2>1 DEF Extend
    <3>2. InOrder(series)
      BY <1>2, <3>1 DEF SeriesInv
    <3>3. series' \in Recurrence /\ series'.weekdays = series.weekdays
      BY <3>1, <3>2 DEF InOrder, Recurrence
    <3> QED
      BY <3>2, <3>3 DEF SeriesInv, InOrder
  <2>2. CASE UNCHANGED series
    BY <1>2, <2>2 DEF SeriesInv
  <2> QED
    BY <1>2, <2>1, <2>2 DEF Reserve, Ask, BookDesk, Tick
<1> QED
  BY <1>1, <1>2, PTL DEF Spec

\* If clients send the weekdays in order, a series is booked on the days the recurrence names,
\* each once and in order, however long it lasts and whatever its cycle.
THEOREM OccurrencesBooked == ASSUME Sorted PROVE Spec => []BooksTheOccurrences
<1>1. SeriesInv => BooksTheOccurrences
  BY OccurrencesAreBooked DEF SeriesInv, BooksTheOccurrences, NamesADay, InOrder, Recurrence
<1> QED
  BY <1>1, SeriesInvariant, PTL

-----------------------------------------------------------------------------
(* What the dialog of the client lets pass, the server accepts.            *)

Stretch == [enter : Int, leave : Int]
AnyType == [mode : {"none"}] \cup [mode : {"flexible_time"}, minDuration : Nat]
             \cup [mode : {"fixed_slots"}, slots : SUBSET Stretch]
AnyDesk == [office : Stretch, type : AnyType, minHours : Nat]

LEMMA MaxOfTwo ==
    ASSUME NEW a \in Int, NEW b \in Int
    PROVE  Max({a, b}) \in {a, b} /\ Max({a, b}) >= a /\ Max({a, b}) >= b
<1>1. \E x \in {a, b} : \A y \in {a, b} : x >= y
  <2>1. CASE a >= b
    BY <2>1
  <2>2. CASE b >= a
    BY <2>2
  <2> QED
    BY <2>1, <2>2
<1> QED
  BY <1>1 DEF Max

LEMMA MinOfTwo ==
    ASSUME NEW a \in Int, NEW b \in Int
    PROVE  Min({a, b}) \in {a, b} /\ Min({a, b}) <= a /\ Min({a, b}) <= b
<1>1. \E x \in {a, b} : \A y \in {a, b} : x <= y
  <2>1. CASE a <= b
    BY <2>1
  <2>2. CASE b <= a
    BY <2>2
  <2> QED
    BY <2>1, <2>2
<1> QED
  BY <1>1 DEF Min

\* What is as long as k times d has d in it k times at least, and the other way round.
LEMMA WholeParts ==
    ASSUME NEW a \in Nat, NEW d \in Nat \ {0}, NEW k \in Nat
    PROVE  a \div d >= k <=> a >= k * d
<1> DEFINE q == a \div d
<1>1. q \in Nat /\ a % d \in Nat /\ a % d < d /\ a = q * d + (a % d)
  OBVIOUS
<1> HIDE DEF q
<1>2. ASSUME q >= k PROVE a >= k * d
  <2>1. PICK e \in Nat : q = k + e
    <3>1. q - k \in Nat /\ q = k + (q - k)
      BY <1>1, <1>2
    <3> QED
      BY <3>1
  <2>2. q * d = k * d + e * d
    BY <2>1
  <2>3. e * d \in Nat /\ k * d \in Nat
    OBVIOUS
  <2> QED
    BY <1>1, <2>2, <2>3
<1>3. ASSUME k > q PROVE a < k * d
  <2>1. PICK e \in Nat : k = q + 1 + e
    <3>1. k - q - 1 \in Nat /\ k = q + 1 + (k - q - 1)
      BY <1>1, <1>3
    <3> QED
      BY <3>1
  <2>2. k * d = q * d + d + e * d
    BY <1>1, <2>1
  <2>3. e * d \in Nat /\ q * d \in Nat
    BY <1>1
  <2> QED
    BY <1>1, <2>2, <2>3
<1>4. k * d \in Nat
  OBVIOUS
<1> QED
  BY <1>1, <1>2, <1>3, <1>4 DEF q

\* The bookings of the day, cut off at the office hours, are in the way of what lies within
\* the office hours if the bookings of the table are.
LEMMA ListedAreEnough ==
    ASSUME NEW office \in Stretch, NEW table \in SUBSET Stretch, NEW p \in Stretch,
           p.enter < p.leave, p.enter >= office.enter, p.leave <= office.leave,
           ~OverlapsOneOf(p, BookingsOfDay(table, office))
    PROVE  ~OverlapsOneOf(AsSent(p), table)
<1> SUFFICES ASSUME NEW b \in table, Overlaps(AsSent(p), b) PROVE FALSE
  BY DEF OverlapsOneOf
<1>1. /\ p.enter \in Int /\ p.leave \in Int /\ b.enter \in Int /\ b.leave \in Int
      /\ office.enter \in Int /\ office.leave \in Int
  BY DEF Stretch
<1>2. AsSent(p).enter = p.enter /\ AsSent(p).leave = p.leave - 1
  BY DEF AsSent, Stretch
<1>3. p.enter < b.leave /\ p.leave - 1 > b.enter
  BY <1>2 DEF Overlaps
<1>4. Overlaps(office, b)
  BY <1>1, <1>3 DEF Overlaps
<1> DEFINE c == clampBookingToOfficeHours(b, office)
<1>5. c \in BookingsOfDay(table, office)
  BY <1>4 DEF BookingsOfDay
<1>6. c.enter = Max({b.enter, office.enter}) /\ c.leave = Min({b.leave, office.leave})
  BY DEF clampBookingToOfficeHours
<1>7. c.enter \in {b.enter, office.enter} /\ c.leave \in {b.leave, office.leave}
  BY <1>1, <1>6, MaxOfTwo, MinOfTwo
<1>8. p.enter < c.leave /\ p.leave > c.enter
  BY <1>1, <1>3, <1>7
<1> QED
  BY <1>5, <1>8 DEF OverlapsOneOf, Overlaps

\* getEffectiveMinimum is no less than either of the two that the server asks for.
LEMMA MinimumIsEnough ==
    ASSUME NEW d \in AnyDesk, d.type.mode # "fixed_slots"
    PROVE  /\ getEffectiveMinimum(d) \in Nat
           /\ d.minHours > 0 => getEffectiveMinimum(d) >= d.minHours * Hour
           /\ d.type.mode = "none" => getEffectiveMinimum(d) = getLegacyMinimum(d.minHours)
           /\ d.type.mode = "flexible_time" =>
                 d.type.minDuration \in Nat /\ getEffectiveMinimum(d) >= d.type.minDuration
<1>1. d.minHours \in Nat /\ Hour \in Nat /\ HalfHour \in Nat /\ d.minHours * Hour \in Nat
  BY MinutesAndHours DEF AnyDesk
<1>2. ~isFixedSlotSpace(d)
  BY DEF isFixedSlotSpace
<1>3. CASE d.type.mode = "none"
  BY <1>1, <1>2, <1>3 DEF getEffectiveMinimum, getLegacyMinimum
<1>4. CASE d.type.mode = "flexible_time"
  <2>1. d.type.minDuration \in Nat
    <3>1. d.type \in AnyType
      BY DEF AnyDesk
    <3>2. d.type \in [mode : {"flexible_time"}, minDuration : Nat]
      BY <1>4, <3>1 DEF AnyType
    <3> QED
      BY <3>2
  <2>2. getEffectiveMinimum(d) = Max({d.minHours * Hour, d.type.minDuration})
    BY <1>2, <1>4 DEF getEffectiveMinimum
  <2>3. PICK a \in Nat, b \in Nat : a = d.minHours * Hour /\ b = d.type.minDuration
    BY <1>1, <2>1
  <2>4. Max({a, b}) \in {a, b} /\ Max({a, b}) >= a /\ Max({a, b}) >= b
    <3>1. a \in Int /\ b \in Int
      OBVIOUS
    <3> QED
      BY <3>1, MaxOfTwo, Zenon
  <2>5. getEffectiveMinimum(d) \in Nat /\ getEffectiveMinimum(d) >= a /\ getEffectiveMinimum(d) >= b
    BY <2>2, <2>3, <2>4
  <2> QED
    BY <1>4, <2>3, <2>5
<1> QED
  BY <1>3, <1>4 DEF AnyDesk, AnyType

\* For any desk, any bookings, whatever status is shown, and at any time: a period on whole
\* minutes that getModalBookingError lets pass is accepted by create, unless it is a
\* slot shorter than the least duration of the organization.
THEOREM OfferedIsAcceptedEverywhere ==
    ASSUME NEW d \in AnyDesk, NEW table \in SUBSET Stretch, NEW status, NEW t \in Int,
           NEW p \in Stretch, p.enter >= 0, Duration(p) > 1,
           isFixedSlotSpace(d) => Duration(p) >= d.minHours * Hour * Minute,
           Offered(d, status, BookingsOfDay(table, d.office), t, p)
    PROVE  isValidBooking(d, table, t, AsSent(p))
<1> DEFINE S == BookingsOfDay(table, d.office)
           length == Duration(p)
<1>1. /\ p.enter \in Int /\ p.leave \in Int /\ length = p.leave - p.enter
      /\ d.office \in Stretch /\ d.office.enter \in Int /\ d.office.leave \in Int
      /\ d.minHours \in Nat /\ Hour \in Nat \ {0} /\ Minute \in Nat \ {0}
      /\ length \in Nat
  BY MinutesAndHours DEF Stretch, AnyDesk, Duration
<1>2. /\ AsSent(p).enter = p.enter /\ AsSent(p).leave = p.leave - 1
      /\ Duration(AsSent(p)) = length - 1 /\ Duration(AsSent(p)) + 1 = length
  <2>1. AsSent(p).enter = p.enter /\ AsSent(p).leave = p.leave - 1
    BY DEF AsSent, Stretch
  <2> QED
    BY <1>1, <2>1 DEF Duration
<1>3. /\ isInBookableFuture(d, p.enter, t) /\ isWithinOfficeHours(d, p)
      /\ ~OverlapsOneOf(p, S)
  BY DEF Offered, isRangeAllowed, doesOverlapDayStatus
<1>4. Duration(AsSent(p)) > 0 /\ AsSent(p).enter >= t
  BY <1>1, <1>2, <1>3 DEF isInBookableFuture
<1>5. AsSent(p).enter >= d.office.enter /\ AsSent(p).leave <= d.office.leave
  BY <1>1, <1>2, <1>3 DEF isWithinOfficeHours
<1>6. ~OverlapsOneOf(AsSent(p), table)
  BY <1>1, <1>3, ListedAreEnough DEF isWithinOfficeHours
<1>7. length \div Minute >= getEffectiveMinimum(d)
  BY DEF Offered
<1> HIDE DEF length
<1>8. isValidMinHoursBooking(d, AsSent(p))
  <2> SUFFICES ASSUME d.minHours > 0 PROVE length \div (Hour * Minute) >= d.minHours
    BY <1>1, <1>2 DEF isValidMinHoursBooking
  <2>1. Hour * Minute \in Nat \ {0} /\ d.minHours * Hour \in Nat
    BY <1>1
  <2>2. d.minHours * (Hour * Minute) = (d.minHours * Hour) * Minute
    BY <1>1
  <2>3. length >= (d.minHours * Hour) * Minute
    <3>1. CASE isFixedSlotSpace(d)
      BY <1>1, <3>1 DEF length
    <3>2. CASE ~isFixedSlotSpace(d)
      <4>1. /\ getEffectiveMinimum(d) \in Nat
            /\ getEffectiveMinimum(d) >= d.minHours * Hour
        BY <3>2, MinimumIsEnough DEF isFixedSlotSpace
      <4>2. length \div Minute >= d.minHours * Hour
        BY <1>1, <1>7, <2>1, <4>1
      <4> QED
        BY <1>1, <2>1, <4>2, WholeParts
    <3> QED
      BY <3>1, <3>2
  <2> QED
    BY <1>1, <2>1, <2>2, <2>3, WholeParts
<1>9. isValidSpaceTypeBooking(d, AsSent(p))
  <2>1. CASE d.type.mode = "none"
    <3>1. getEffectiveMinimum(d) \in Nat /\ getEffectiveMinimum(d) = getLegacyMinimum(d.minHours)
      BY <2>1, MinimumIsEnough
    <3>2. length >= getLegacyMinimum(d.minHours) * Minute
      BY <1>1, <1>7, <3>1, WholeParts
    <3> QED
      BY <1>2, <2>1, <3>2 DEF isValidSpaceTypeBooking
  <2>2. CASE d.type.mode = "flexible_time"
    <3>1. /\ getEffectiveMinimum(d) \in Nat /\ d.type.minDuration \in Nat
          /\ getEffectiveMinimum(d) >= d.type.minDuration
      BY <2>2, MinimumIsEnough
    <3>2. length \div Minute >= d.type.minDuration
      BY <1>1, <1>7, <3>1
    <3> QED
      BY <1>2, <2>2, <3>2 DEF isValidSpaceTypeBooking
  <2>3. CASE d.type.mode = "fixed_slots"
    <3>1. p \in d.type.slots
      BY <2>3 DEF Offered, isFixedSlotSpace, getAvailableFixedSlots
    <3>2. isValidFixedSlotBooking(d, AsSent(p))
      BY <1>2, <1>3, <3>1 DEF isValidFixedSlotBooking
    <3> QED
      BY <2>3, <3>2 DEF isValidSpaceTypeBooking
  <2> QED
    BY <2>1, <2>2, <2>3 DEF AnyDesk, AnyType
<1> QED
  BY <1>4, <1>5, <1>6, <1>8, <1>9 DEF isValidBooking
-----------------------------------------------------------------------------
(* What the server makes of the bookings of a day: sorted, merged, summed. *)

IsSortOf(s, T) ==
    /\ s \in [1 .. Cardinality(T) -> T] /\ Range(s) = T
    /\ \A i, j \in DOMAIN s : i < j => s[i].enter <= s[j].enter

\* Any finite set of bookings can be put in order, and ByEnter does.
LEMMA SortExists ==
    ASSUME NEW S \in SUBSET Stretch, IsFiniteSet(S)
    PROVE  \E s : IsSortOf(s, S)
<1> DEFINE Good == {n \in Nat : \A T \in SUBSET S : Cardinality(T) = n => \E s : IsSortOf(s, T)}
<1>1. \A T \in SUBSET S : IsFiniteSet(T)
  BY FS_Subset
<1>2. 0 \in Good
  <2> SUFFICES ASSUME NEW T \in SUBSET S, Cardinality(T) = 0 PROVE \E s : IsSortOf(s, T)
    OBVIOUS
  <2>1. T = {}
    BY <1>1, FS_EmptySet
  <2>2. Cardinality({}) = 0 /\ 1 .. 0 = {}
    BY FS_EmptySet
  <2> DEFINE s == [k \in {} |-> k]
  <2>3. s \in [{} -> {}] /\ DOMAIN s = {} /\ Range(s) = {}
    BY DEF Range
  <2> HIDE DEF s
  <2>4. IsSortOf(s, {})
    BY <2>2, <2>3 DEF IsSortOf
  <2> QED
    BY <2>1, <2>4
<1>3. ASSUME NEW n \in Nat, n \in Good PROVE n + 1 \in Good
  <2> SUFFICES ASSUME NEW T \in SUBSET S, Cardinality(T) = n + 1 PROVE \E s : IsSortOf(s, T)
    OBVIOUS
  <2>1. IsFiniteSet(T) /\ T # {}
    BY <1>1, FS_EmptySet
  <2>2. PICK x \in T : \A y \in T : y.enter <= x.enter
    <3> DEFINE f == [y \in T |-> y.enter]
    <3>1. f \in [T -> Int]
      BY DEF Stretch
    <3> HIDE DEF f
    <3>2. PICK x \in T : \A y \in T : f[y] <= f[x]
      BY <2>1, <3>1, LargestExists
    <3> QED
      BY <3>2 DEF f
  <2> DEFINE U == T \ {x}
  <2>3. Cardinality(U) = n /\ U \in SUBSET S
    <3>1. Cardinality(U) = Cardinality(T) - 1
      BY <2>1, <2>2, FS_RemoveElement
    <3> QED
      BY <3>1
  <2>4. PICK r : IsSortOf(r, U)
    BY <1>3, <2>3
  <2>5. r \in [1 .. n -> U] /\ Range(r) = U
    BY <2>3, <2>4 DEF IsSortOf
  <2> DEFINE s == [k \in 1 .. n + 1 |-> IF k = n + 1 THEN x ELSE r[k]]
  <2>6. /\ s \in [1 .. n + 1 -> T] /\ s[n + 1] = x /\ \A k \in 1 .. n : s[k] = r[k]
        /\ \A k \in 1 .. n + 1 : k = n + 1 \/ k \in 1 .. n
    BY <2>5
  <2> HIDE DEF s
  <2>7. Range(s) = T
    <3>1. ASSUME NEW y \in T PROVE \E k \in 1 .. n + 1 : s[k] = y
      <4>1. CASE y = x
        BY <2>6, <4>1
      <4>2. CASE y # x
        <5>1. PICK k \in 1 .. n : r[k] = y
          BY <2>5, <4>2 DEF Range
        <5> QED
          BY <2>6, <5>1
      <4> QED
        BY <4>1, <4>2
    <3> QED
      BY <2>6, <3>1 DEF Range
  <2>8. ASSUME NEW i \in 1 .. n + 1, NEW j \in 1 .. n + 1, i < j PROVE s[i].enter <= s[j].enter
    <3>1. i \in 1 .. n
      BY <2>8
    <3>2. CASE j = n + 1
      BY <2>2, <2>6, <3>2
    <3>3. CASE j \in 1 .. n
      BY <2>4, <2>5, <2>6, <2>8, <3>1, <3>3 DEF IsSortOf
    <3> QED
      BY <2>6, <3>2, <3>3
  <2>9. IsSortOf(s, T)
    BY <2>6, <2>7, <2>8 DEF IsSortOf
  <2> QED
    BY <2>9
<1> HIDE DEF Good
<1>4. Cardinality(S) \in Nat
  BY FS_CardinalityType
<1>5. 0 .. Cardinality(S) \subseteq Good
  BY <1>2, <1>3, <1>4, UpTo
<1>6. Cardinality(S) \in Good
  BY <1>4, <1>5
<1> QED
  BY <1>6 DEF Good

LEMMA ByEnterSorts ==
    ASSUME NEW S \in SUBSET Stretch, IsFiniteSet(S)
    PROVE  /\ IsSortOf(ByEnter(S), S)
           /\ ByEnter(S) \in Seq(Stretch) /\ Len(ByEnter(S)) = Cardinality(S)
<1>1. IsSortOf(ByEnter(S), S)
  BY SortExists DEF ByEnter, IsSortOf
<1>2. Cardinality(S) \in Nat
  BY FS_CardinalityType
<1>3. ByEnter(S) \in [1 .. Cardinality(S) -> Stretch]
  BY <1>1 DEF IsSortOf
<1> HIDE DEF Stretch
<1> QED
  BY <1>1, <1>2, <1>3

Lasting == {b \in Stretch : b.enter < b.leave}

\* What merging one booking into those before does to the sequence.
LEMMA MergedShape ==
    ASSUME NEW done \in Seq(Lasting), NEW i \in Lasting
    PROVE  LET last == Len(done)
               next == Merged(done, i)
           IN  /\ next \in Seq(Lasting)
               /\ done = <<>> \/ i.enter > done[last].leave =>
                    /\ Len(next) = last + 1 /\ next[last + 1] = i
                    /\ \A k \in 1 .. last : next[k] = done[k]
               /\ done # <<>> /\ i.enter <= done[last].leave =>
                    /\ Len(next) = last /\ \A k \in 1 .. last - 1 : next[k] = done[k]
                    /\ next[last].enter = done[last].enter
                    /\ next[last].leave \in {done[last].leave, i.leave}
                    /\ done[last].leave <= next[last].leave /\ i.leave <= next[last].leave
<1> DEFINE last == Len(done)
           next == Merged(done, i)
<1>1. last \in Nat /\ \A k \in 1 .. last : done[k] \in Lasting
  OBVIOUS
<1>2. i.enter \in Int /\ i.leave \in Int
  BY DEF Lasting, Stretch
<1>3. ASSUME done = <<>> \/ i.enter > done[last].leave
      PROVE  /\ next \in Seq(Lasting) /\ Len(next) = last + 1 /\ next[last + 1] = i
             /\ \A k \in 1 .. last : next[k] = done[k]
  <2>1. next = Append(done, i)
    <3>1. done = <<>> \/ ~(i.enter <= Last(done).leave)
      <4>1. CASE done # <<>>
        <5>1. last \in 1 .. last /\ done[last].leave \in Int
          BY <1>1, <4>1 DEF Lasting, Stretch
        <5> QED
          BY <1>2, <1>3, <4>1, <5>1 DEF Last
      <4> QED
        BY <4>1
    <3> QED
      BY <3>1 DEF Merged
  <2> QED
    BY <2>1, AppendProperties
<1>4. ASSUME done # <<>>, i.enter <= done[last].leave
      PROVE  /\ next \in Seq(Lasting) /\ Len(next) = last /\ \A k \in 1 .. last - 1 : next[k] = done[k]
             /\ next[last].enter = done[last].enter
             /\ next[last].leave \in {done[last].leave, i.leave}
             /\ done[last].leave <= next[last].leave /\ i.leave <= next[last].leave
  <2>1. last \in 1 .. last /\ done[last] \in Lasting
    BY <1>1, <1>4
  <2>2. PICK a \in Int, b \in Int : a < b /\ done[last] = [enter |-> a, leave |-> b]
    BY <2>1 DEF Lasting, Stretch
  <2> DEFINE m == Max({b, i.leave})
  <2>3. m \in {b, i.leave} /\ m >= b /\ m >= i.leave /\ m \in Int
    BY <1>2, <2>2, MaxOfTwo
  <2>4. next = [done EXCEPT ![last].leave = m]
    BY <1>4, <2>2 DEF Merged, Last
  <2> HIDE DEF m
  <2>5. next = [done EXCEPT ![last] = [enter |-> a, leave |-> m]]
    <3>1. [done[last] EXCEPT !.leave = m] = [enter |-> a, leave |-> m]
      BY <2>2
    <3> QED
      BY <2>4, <3>1
  <2> HIDE DEF next
  <2>6. [enter |-> a, leave |-> m] \in Lasting
    BY <2>2, <2>3 DEF Lasting, Stretch
  <2>7. next \in Seq(Lasting) /\ Len(next) = last
    BY <2>1, <2>5, <2>6
  <2>8. next[last] = [enter |-> a, leave |-> m] /\ \A k \in 1 .. last - 1 : next[k] = done[k]
    BY <1>1, <2>1, <2>5
  <2> QED
    BY <2>2, <2>3, <2>7, <2>8
<1>5. done # <<>> => done[last].leave \in Int
  BY <1>1 DEF Lasting, Stretch
<1> QED
  BY <1>2, <1>3, <1>4, <1>5

InEnterOrder(s) ==
    s \in Seq(Lasting) /\ \A i, j \in DOMAIN s : i < j => s[i].enter <= s[j].enter

\* The first n of s, merged: apart from each other, each booking in one of them, bounded by
\* bookings, and in nobody's way whom the bookings leave alone.
MergedFrom(done, s, n) ==
    /\ done \in Seq(Lasting)
    /\ done = <<>> <=> n = 0
    /\ \A k \in DOMAIN done : \E i, j \in 1 .. n : done[k].enter = s[i].enter /\ done[k].leave = s[j].leave
    /\ \A k, l \in DOMAIN done : k < l => done[k].leave < done[l].enter
    /\ \A i \in 1 .. n : \E k \in DOMAIN done :
         done[k].enter <= s[i].enter /\ s[i].leave <= done[k].leave
    /\ \A q \in Lasting : (\A i \in 1 .. n : ~Overlaps(q, s[i])) => \A k \in DOMAIN done : ~Overlaps(q, done[k])

LEMMA MergedStep ==
    ASSUME NEW s, InEnterOrder(s), NEW n \in 1 .. Len(s), NEW done, MergedFrom(done, s, n - 1)
    PROVE  MergedFrom(Merged(done, s[n]), s, n)
<1> DEFINE last == Len(done)
           next == Merged(done, s[n])
<1>1. /\ s[n] \in Lasting /\ n \in Nat /\ n \in 1 .. n
      /\ \A i \in 1 .. n : i = n \/ i \in 1 .. n - 1
      /\ \A i \in 1 .. n - 1 : i \in 1 .. n
      /\ \A i \in 1 .. n : s[i] \in Lasting /\ s[i].enter <= s[n].enter
      /\ \A b \in Lasting : b.enter \in Int /\ b.leave \in Int /\ b.enter < b.leave
  <2>1. s \in Seq(Lasting) /\ \A i \in 1 .. n : i \in DOMAIN s
    BY DEF InEnterOrder
  <2>2. \A b \in Lasting : b.enter \in Int /\ b.leave \in Int /\ b.enter < b.leave
    BY DEF Lasting, Stretch
  <2>3. \A i \in 1 .. n : s[i] \in Lasting
    BY <2>1
  <2>4. \A i \in 1 .. n : s[i].enter <= s[n].enter
    <3> TAKE i \in 1 .. n
    <3>1. CASE i = n
      <4>1. s[n].enter \in Int
        BY <2>2, <2>3
      <4> QED
        BY <3>1, <4>1
    <3>2. CASE i < n
      BY <2>1, <3>2 DEF InEnterOrder
    <3> QED
      BY <3>1, <3>2
  <2> QED
    BY <2>2, <2>3, <2>4
<1>2. /\ done \in Seq(Lasting) /\ last \in Nat /\ DOMAIN done = 1 .. last
      /\ \A k \in 1 .. last : done[k] \in Lasting
      /\ \A k, l \in 1 .. last : k < l => done[k].leave < done[l].enter
      /\ done # <<>> => last \in 1 .. last
  <2>1. done \in Seq(Lasting)
    BY DEF MergedFrom
  <2>2. last \in Nat /\ DOMAIN done = 1 .. last /\ \A k \in 1 .. last : done[k] \in Lasting
    BY <2>1
  <2>3. done # <<>> => last # 0
    BY <2>1, EmptySeq
  <2>4. \A k, l \in 1 .. last : k < l => done[k].leave < done[l].enter
    BY <2>2 DEF MergedFrom
  <2> QED
    BY <2>1, <2>2, <2>3, <2>4
<1>3. ASSUME done = <<>> \/ s[n].enter > done[last].leave PROVE MergedFrom(next, s, n)
  <2>1. /\ next \in Seq(Lasting) /\ Len(next) = last + 1 /\ next[last + 1] = s[n]
        /\ \A k \in 1 .. last : next[k] = done[k]
    <3>1. s[n] \in Lasting /\ done \in Seq(Lasting)
      BY <1>1, <1>2
    <3> QED
      BY <1>3, <3>1, MergedShape
  <2> HIDE DEF next
  <2>2. /\ DOMAIN next = 1 .. last + 1 /\ last + 1 \in 1 .. last + 1
        /\ \A k \in 1 .. last + 1 : k = last + 1 \/ k \in 1 .. last
        /\ \A k \in 1 .. last : k \in 1 .. last + 1 /\ k < last + 1
    BY <1>2, <2>1
  <2>3. ASSUME NEW k \in 1 .. last + 1
        PROVE  \E i, j \in 1 .. n : next[k].enter = s[i].enter /\ next[k].leave = s[j].leave
    <3>1. CASE k = last + 1
      BY <1>1, <2>1, <3>1
    <3>2. CASE k \in 1 .. last
      <4>1. PICK i \in 1 .. n - 1, j \in 1 .. n - 1 : done[k].enter = s[i].enter /\ done[k].leave = s[j].leave
        BY <1>2, <3>2 DEF MergedFrom
      <4>2. i \in 1 .. n /\ j \in 1 .. n
        BY <1>1
      <4> QED
        BY <2>1, <3>2, <4>1, <4>2
    <3> QED
      BY <2>2, <3>1, <3>2
  <2>4. ASSUME NEW k \in 1 .. last + 1, NEW l \in 1 .. last + 1, k < l
        PROVE  next[k].leave < next[l].enter
    <3>1. k \in 1 .. last
      BY <1>2, <2>4
    <3>2. CASE l \in 1 .. last
      BY <1>2, <2>1, <2>4, <3>1, <3>2
    <3>3. CASE l = last + 1
      <4>1. done # <<>> /\ last \in 1 .. last
        BY <1>2, <3>1
      <4>2. k = last \/ done[k].leave < done[last].enter
        <5>1. CASE k < last
          BY <1>2, <3>1, <4>1, <5>1
        <5>2. CASE ~(k < last)
          BY <1>2, <3>1, <5>2
        <5> QED
          BY <5>1, <5>2, Zenon
      <4>3. /\ done[k].leave \in Int /\ done[last].enter \in Int /\ done[last].leave \in Int
            /\ done[last].enter < done[last].leave /\ s[n].enter \in Int
        BY <1>1, <1>2, <3>1, <4>1
      <4>4. done[k].leave < s[n].enter
        BY <1>3, <4>1, <4>2, <4>3, SMTT(30)
      <4> QED
        BY <2>1, <3>1, <3>3, <4>4
    <3> QED
      BY <2>2, <3>2, <3>3
  <2>5. ASSUME NEW i \in 1 .. n
        PROVE  \E k \in 1 .. last + 1 : next[k].enter <= s[i].enter /\ s[i].leave <= next[k].leave
    <3>1. CASE i = n
      <4>1. s[n].enter <= s[n].enter /\ s[n].leave <= s[n].leave
        BY <1>1
      <4> QED
        BY <2>1, <2>2, <3>1, <4>1, Zenon
    <3>2. CASE i \in 1 .. n - 1
      <4>1. PICK k \in 1 .. last : done[k].enter <= s[i].enter /\ s[i].leave <= done[k].leave
        BY <1>2, <3>2 DEF MergedFrom
      <4> QED
        BY <2>1, <2>2, <4>1
    <3> QED
      BY <1>1, <3>1, <3>2
  <2>6. ASSUME NEW q \in Lasting, \A i \in 1 .. n : ~Overlaps(q, s[i]), NEW k \in 1 .. last + 1
        PROVE  ~Overlaps(q, next[k])
    <3>1. CASE k = last + 1
      BY <1>1, <2>1, <2>6, <3>1
    <3>2. CASE k \in 1 .. last
      <4>1. \A i \in 1 .. n - 1 : ~Overlaps(q, s[i])
        BY <1>1, <2>6, Zenon
      <4>2. ~Overlaps(q, done[k])
        BY <1>2, <3>2, <4>1, Zenon DEF MergedFrom
      <4> QED
        BY <2>1, <3>2, <4>2, Zenon
    <3> QED
      BY <2>2, <3>1, <3>2
  <2>7. next # <<>> /\ n # 0
    BY <1>1, <2>1, <2>2
  <2> QED
    BY <2>1, <2>2, <2>3, <2>4, <2>5, <2>6, <2>7, Zenon DEF MergedFrom
<1>4. ASSUME done # <<>>, s[n].enter <= done[last].leave PROVE MergedFrom(next, s, n)
  <2>1. /\ next \in Seq(Lasting) /\ Len(next) = last /\ \A k \in 1 .. last - 1 : next[k] = done[k]
        /\ next[last].enter = done[last].enter
        /\ next[last].leave \in {done[last].leave, s[n].leave}
        /\ done[last].leave <= next[last].leave /\ s[n].leave <= next[last].leave
    <3>1. s[n] \in Lasting /\ done \in Seq(Lasting)
      BY <1>1, <1>2
    <3> QED
      BY <1>4, <3>1, MergedShape
  <2> HIDE DEF next
  <2>2. /\ DOMAIN next = 1 .. last /\ last \in 1 .. last
        /\ \A k \in 1 .. last : k = last \/ k \in 1 .. last - 1
        /\ \A k \in 1 .. last - 1 : k \in 1 .. last /\ k < last
    <3>1. DOMAIN next = 1 .. last
      <4>1. next \in Seq(Lasting) /\ Len(next) = last
        BY <2>1, Zenon
      <4> QED
        BY <4>1
    <3>2. last \in 1 .. last /\ last \in Nat
      BY <1>2, <1>4, Zenon
    <3> QED
      BY <3>1, <3>2
  <2>3. \A k \in 1 .. last : next[k] \in Lasting /\ done[k] \in Lasting
    <3>1. next \in Seq(Lasting) /\ Len(next) = last
      BY <2>1, Zenon
    <3>2. \A k \in 1 .. last : next[k] \in Lasting
      BY <3>1
    <3> QED
      BY <1>2, <3>2, Zenon
  <2>4. ASSUME NEW k \in 1 .. last
        PROVE  \E i, j \in 1 .. n : next[k].enter = s[i].enter /\ next[k].leave = s[j].leave
    <3>1. PICK i \in 1 .. n - 1, j \in 1 .. n - 1 : done[k].enter = s[i].enter /\ done[k].leave = s[j].leave
      BY <1>2 DEF MergedFrom
    <3>2. i \in 1 .. n /\ j \in 1 .. n
      BY <1>1
    <3>3. next[k].enter = done[k].enter /\ next[k].leave \in {done[k].leave, s[n].leave}
      BY <2>1, <2>2
    <3> QED
      BY <1>1, <3>1, <3>2, <3>3
  <2>5. ASSUME NEW k \in 1 .. last, NEW l \in 1 .. last, k < l
        PROVE  next[k].leave < next[l].enter
    <3>1. k \in 1 .. last - 1
      BY <1>2, <2>5
    <3>2. done[k].leave < done[l].enter
      BY <1>2, <2>5
    <3>3. next[k] = done[k] /\ next[l].enter = done[l].enter
      BY <2>1, <2>2, <3>1
    <3> QED
      BY <3>2, <3>3
  <2>6. ASSUME NEW i \in 1 .. n
        PROVE  \E k \in 1 .. last : next[k].enter <= s[i].enter /\ s[i].leave <= next[k].leave
    <3>1. CASE i = n
      <4>1. PICK a \in 1 .. n - 1 : done[last].enter = s[a].enter
        BY <1>2, <2>2 DEF MergedFrom
      <4>2. next[last].enter <= s[n].enter
        <5>1. s[a].enter <= s[n].enter
          BY <1>1
        <5> QED
          BY <2>1, <4>1, <5>1, Zenon
      <4>3. s[n].leave <= next[last].leave
        BY <1>1, <2>1, <2>2, <2>3
      <4> QED
        BY <2>2, <3>1, <4>2, <4>3
    <3>2. CASE i \in 1 .. n - 1
      <4>1. PICK k \in 1 .. last : done[k].enter <= s[i].enter /\ s[i].leave <= done[k].leave
        BY <1>2, <3>2 DEF MergedFrom
      <4>2. next[k].enter = done[k].enter /\ done[k].leave <= next[k].leave
        <5>1. done[k].leave \in Int /\ next[last].leave \in Int /\ done[last].leave \in Int
          BY <1>1, <2>2, <2>3
        <5>2. CASE k = last
          BY <2>1, <5>2, Zenon
        <5>3. CASE k \in 1 .. last - 1
          <6>1. next[k] = done[k]
            BY <2>1, <5>3, Zenon
          <6> QED
            BY <5>1, <6>1
        <5> QED
          BY <2>2, <5>2, <5>3, Zenon
      <4>3. s[i].leave <= next[k].leave
        <5>1. s[i].leave \in Int /\ done[k].leave \in Int /\ next[k].leave \in Int
          BY <1>1, <2>3
        <5> QED
          BY <4>1, <4>2, <5>1
      <4> QED
        BY <4>1, <4>2, <4>3
    <3> QED
      BY <1>1, <3>1, <3>2
  <2>7. ASSUME NEW q \in Lasting, \A i \in 1 .. n : ~Overlaps(q, s[i]), NEW k \in 1 .. last
        PROVE  ~Overlaps(q, next[k])
    <3>1. ~Overlaps(q, done[k])
      BY <1>1, <1>2, <2>7 DEF MergedFrom
    <3>2. CASE k \in 1 .. last - 1
      BY <2>1, <3>1, <3>2
    <3>3. CASE k = last
      <4>1. PICK a \in 1 .. n - 1 : done[last].enter = s[a].enter
        BY <1>2, <2>2 DEF MergedFrom
      <4>2. done[last].enter <= s[n].enter
        BY <1>1, <4>1
      <4>3. ~Overlaps(q, s[n])
        BY <1>1, <2>7
      <4>4. /\ q.enter \in Int /\ q.leave \in Int /\ q.enter < q.leave
            /\ done[last].enter \in Int /\ done[last].leave \in Int
            /\ s[n].enter \in Int /\ s[n].leave \in Int
        BY <1>1, <2>2, <2>3
      <4>5. /\ next[last].enter = done[last].enter
            /\ next[last].leave = done[last].leave \/ next[last].leave = s[n].leave
        BY <2>1, Zenon
      <4> QED
        BY <1>4, <3>1, <3>3, <4>2, <4>3, <4>4, <4>5, SMTT(30) DEF Overlaps
    <3> QED
      BY <2>2, <3>2, <3>3
  <2>8. next # <<>> /\ n # 0
    <3>1. next \in Seq(Lasting) /\ Len(next) = last /\ last \in 1 .. last
      BY <2>1, <2>2, Zenon
    <3>2. last # 0 /\ n # 0
      BY <1>1, <3>1
    <3> QED
      BY <3>1, <3>2, EmptySeq, Zenon
  <2> QED
    BY <2>1, <2>2, <2>4, <2>5, <2>6, <2>7, <2>8, Zenon DEF MergedFrom
<1>5. s[n].enter \in Int /\ (done # <<>> => done[last].leave \in Int)
  BY <1>1, <1>2
<1> QED
  BY <1>3, <1>4, <1>5

\* The loops of normalizeIntervals and sumMinutes are those of functions, which exist.
IsMerging(m, s, N) == m = [n \in 0 .. N |-> IF n = 0 THEN <<>> ELSE Merged(m[n - 1], s[n])]
IsTotal(t, s) == t = [n \in 0 .. Len(s) |-> IF n = 0 THEN 0 ELSE t[n - 1] + CeilMinutes(s[n])]

LEMMA MergingExists ==
    ASSUME NEW N \in Nat, NEW s \in [1 .. N -> Lasting]
    PROVE  \E m : IsMerging(m, s, N)
<1> DEFINE X == Seq(Lasting)
           step == [k \in 1 .. N |-> [x \in X |-> Merged(x, s[k])]]
<1>1. <<>> \in X
  OBVIOUS
<1>2. \A k \in 1 .. N : \A x \in X : Merged(x, s[k]) \in X
  <2> TAKE k \in 1 .. N
  <2> TAKE x \in X
  <2>1. s[k] \in Lasting
    OBVIOUS
  <2>2. x = <<>> \/ s[k].enter > x[Len(x)].leave \/ (x # <<>> /\ s[k].enter <= x[Len(x)].leave)
    <3>1. CASE x # <<>>
      <4>1. Len(x) \in DOMAIN x
        BY <3>1, EmptySeq
      <4>2. x[Len(x)].leave \in Int /\ s[k].enter \in Int
        BY <2>1, <4>1 DEF Lasting, Stretch
      <4> QED
        BY <3>1, <4>2
    <3> QED
      BY <3>1
  <2> QED
    BY <2>1, <2>2, MergedShape
<1> HIDE DEF X
<1>3. step \in [1 .. N -> [X -> X]]
  BY <1>2
<1>4. \A k \in 1 .. N : \A x \in X : step[k][x] = Merged(x, s[k])
  OBVIOUS
<1> HIDE DEF step
<1>5. PICK m \in [0 .. N -> X] : IsRecursion(m, N, <<>>, step)
  BY <1>1, <1>3, RecursionExists
<1>6. \A k \in 0 .. N : m[k] = IF k = 0 THEN <<>> ELSE Merged(m[k - 1], s[k])
  <2> TAKE k \in 0 .. N
  <2>1. CASE k = 0
    BY <1>5, <2>1 DEF IsRecursion
  <2>2. CASE k # 0
    <3>1. k \in 1 .. N /\ k - 1 \in 0 .. N
      BY <2>2
    <3>2. m[k - 1] \in X
      BY <1>5, <3>1
    <3> QED
      BY <1>4, <1>5, <2>2, <3>1, <3>2 DEF IsRecursion
  <2> QED
    BY <2>1, <2>2
<1>7. IsMerging(m, s, N)
  BY <1>5, <1>6 DEF IsMerging
<1> QED
  BY <1>7

LEMMA TotalExists ==
    ASSUME NEW s \in Seq(Lasting)
    PROVE  \E t : IsTotal(t, s) /\ \A n \in 0 .. Len(s) : t[n] \in Int
<1> DEFINE N == Len(s)
           step == [k \in 1 .. N |-> [x \in Int |-> x + CeilMinutes(s[k])]]
<1>1. N \in Nat /\ 0 \in Int
  OBVIOUS
<1>2. \A k \in 1 .. N : CeilMinutes(s[k]) \in Int
  <2> TAKE k \in 1 .. N
  <2>1. s[k].enter \in Int /\ s[k].leave \in Int /\ Minute \in Nat \ {0}
    BY MinutesAndHours DEF Lasting, Stretch
  <2> QED
    BY <2>1 DEF CeilMinutes, Duration
<1>3. step \in [1 .. N -> [Int -> Int]]
  BY <1>2
<1>4. \A k \in 1 .. N : \A x \in Int : step[k][x] = x + CeilMinutes(s[k])
  OBVIOUS
<1> HIDE DEF step, N
<1>5. PICK t \in [0 .. N -> Int] : IsRecursion(t, N, 0, step)
  BY <1>1, <1>3, RecursionExists
<1>6. \A k \in 0 .. N : t[k] = IF k = 0 THEN 0 ELSE t[k - 1] + CeilMinutes(s[k])
  <2> TAKE k \in 0 .. N
  <2>1. CASE k = 0
    BY <1>5, <2>1 DEF IsRecursion
  <2>2. CASE k # 0
    <3>1. k \in 1 .. N /\ k - 1 \in 0 .. N
      BY <1>1, <2>2
    <3>2. t[k - 1] \in Int
      BY <1>5, <3>1
    <3> QED
      BY <1>4, <1>5, <2>2, <3>1, <3>2 DEF IsRecursion
  <2> QED
    BY <2>1, <2>2
<1>7. IsTotal(t, s)
  BY <1>5, <1>6 DEF IsTotal, N
<1> QED
  BY <1>5, <1>7 DEF N

\* What normalizeIntervals makes of the bookings of a day.
LEMMA Normalized ==
    ASSUME NEW S \in SUBSET Lasting, IsFiniteSet(S)
    PROVE  /\ IsSortOf(ByEnter(S), S) /\ InEnterOrder(ByEnter(S))
           /\ Cardinality(S) \in Nat /\ Len(ByEnter(S)) = Cardinality(S)
           /\ MergedFrom(normalizeIntervals(S), ByEnter(S), Cardinality(S))
<1> DEFINE N == Cardinality(S)
           s == ByEnter(S)
           m == CHOOSE m : IsMerging(m, s, N)
<1>1. IsSortOf(s, S) /\ Len(s) = N
  BY ByEnterSorts DEF Lasting
<1>2. N \in Nat /\ s \in [1 .. N -> Lasting]
  BY <1>1, FS_CardinalityType DEF IsSortOf
<1>3. s \in Seq(Lasting) /\ InEnterOrder(s)
  <2>1. s \in Seq(Lasting)
    BY <1>1, <1>2
  <2> QED
    BY <1>1, <2>1 DEF InEnterOrder, IsSortOf
<1>4. normalizeIntervals(S) = m[N]
  BY DEF normalizeIntervals, IsMerging
<1> HIDE DEF s, N, m
<1>5. IsMerging(m, s, N)
  BY <1>2, MergingExists DEF m
<1>6. \A n \in 0 .. N : m[n] = IF n = 0 THEN <<>> ELSE Merged(m[n - 1], s[n])
  BY <1>5 DEF IsMerging
<1> DEFINE Good == {n \in 0 .. N : MergedFrom(m[n], s, n)}
<1>7. 0 \in Good
  <2>1. m[0] = <<>> /\ 0 \in 0 .. N /\ 1 .. 0 = {} /\ <<>> \in Seq(Lasting) /\ DOMAIN <<>> = {}
    BY <1>2, <1>6
  <2>2. MergedFrom(<<>>, s, 0)
    BY <2>1 DEF MergedFrom
  <2> QED
    BY <2>1, <2>2
<1>8. ASSUME NEW k \in 0 .. N - 1, k \in Good PROVE k + 1 \in Good
  <2>1. k + 1 \in 1 .. Len(s) /\ (k + 1) - 1 = k /\ k + 1 \in 0 .. N /\ k + 1 # 0
    BY <1>1, <1>2 DEF s, N
  <2>2. MergedFrom(m[k], s, (k + 1) - 1)
    BY <1>8, <2>1
  <2>3. m[k + 1] = Merged(m[k], s[k + 1])
    BY <1>6, <2>1
  <2> HIDE DEF Good
  <2>4. MergedFrom(Merged(m[k], s[k + 1]), s, k + 1)
    BY <1>3, <2>1, <2>2, MergedStep
  <2> QED
    BY <2>1, <2>3, <2>4 DEF Good
<1> HIDE DEF Good
<1>9. N \in Good
  <2>1. 0 .. N \subseteq Good
    BY <1>2, <1>7, <1>8, UpTo
  <2>2. N \in 0 .. N
    BY <1>2
  <2> QED
    BY <2>1, <2>2
<1>10. MergedFrom(m[N], s, N)
  BY <1>9 DEF Good
<1> QED
  BY <1>1, <1>2, <1>3, <1>4, <1>10 DEF s, N

(* The gaps of a window between bookings: a period is free if it is in one of them. *)

Cursor(s, w, k) == Max({w.enter} \cup {s[j].leave : j \in 1 .. (k - 1)})
GapEnd(s, w, k) == IF k <= Len(s) THEN s[k].enter ELSE w.leave

\* A gap begins with the window or where the last of the bookings before it has ended.
LEMMA CursorIsLast ==
    ASSUME NEW s \in Seq(Lasting), NEW w \in Stretch, NEW k \in 1 .. Len(s) + 1
    PROVE  /\ Cursor(s, w, k) \in Int /\ GapEnd(s, w, k) \in Int
           /\ Gap(s, w, k) = GapEnd(s, w, k) - Cursor(s, w, k)
           /\ Cursor(s, w, k) >= w.enter
           /\ \A j \in 1 .. k - 1 : Cursor(s, w, k) >= s[j].leave
           /\ \A x \in Int : x >= w.enter /\ (\A j \in 1 .. k - 1 : x >= s[j].leave) => x >= Cursor(s, w, k)
<1> DEFINE f == [j \in 0 .. k - 1 |-> IF j = 0 THEN w.enter ELSE s[j].leave]
           D == 0 .. k - 1
           C == {w.enter} \cup {s[j].leave : j \in 1 .. (k - 1)}
<1>1. /\ w.enter \in Int /\ w.leave \in Int
      /\ \A j \in 1 .. Len(s) : s[j].enter \in Int /\ s[j].leave \in Int
  BY DEF Lasting, Stretch
<1>2. k \in Nat /\ \A j \in 1 .. k - 1 : j \in 1 .. Len(s) /\ j # 0 /\ j \in D
  OBVIOUS
<1>3. f \in [D -> Int]
  BY <1>1, <1>2
<1>4. IsFiniteSet(D) /\ 0 \in D
  BY <1>2, FS_Interval
<1>5. f[0] = w.enter /\ \A j \in 1 .. k - 1 : f[j] = s[j].leave
  BY <1>2, <1>4
<1>6. \A j \in D : j = 0 \/ j \in 1 .. k - 1
  OBVIOUS
<1> HIDE DEF f, D
<1>7. PICK i \in D : \A j \in D : f[j] <= f[i]
  BY <1>3, <1>4, LargestExists, Zenon
<1>8. f[i] \in C /\ f[i] \in Int
  BY <1>3, <1>5, <1>6
<1>9. \A y \in C : y \in Int /\ f[i] >= y
  <2> TAKE y \in C
  <2>1. CASE y = w.enter
    BY <1>1, <1>4, <1>5, <1>7, <1>8, <2>1
  <2>2. ASSUME NEW j \in 1 .. k - 1, y = s[j].leave PROVE y \in Int /\ f[i] >= y
    BY <1>1, <1>2, <1>5, <1>7, <1>8, <2>2
  <2> QED
    BY <2>1, <2>2
<1>10. Max(C) \in C /\ \A y \in C : Max(C) >= y
  <2>1. \E x \in C : \A y \in C : x >= y
    BY <1>8, <1>9
  <2> HIDE DEF C
  <2> QED
    BY <2>1 DEF Max
<1>11. Cursor(s, w, k) = Max(C)
  BY DEF Cursor
<1>12. Gap(s, w, k) = GapEnd(s, w, k) - Cursor(s, w, k) /\ GapEnd(s, w, k) \in Int
  <2>1. GapEnd(s, w, k) \in Int
    BY <1>1, <1>2 DEF GapEnd
  <2>2. Gap(s, w, k) = GapEnd(s, w, k) - Cursor(s, w, k)
    BY DEF Gap, GapEnd, Cursor
  <2> QED
    BY <2>1, <2>2
<1>13. \A x \in Int : x >= w.enter /\ (\A j \in 1 .. k - 1 : x >= s[j].leave) => x >= Max(C)
  BY <1>10
<1>14. w.enter \in C /\ \A j \in 1 .. k - 1 : s[j].leave \in C
  OBVIOUS
<1> HIDE DEF C
<1> QED
  BY <1>9, <1>10, <1>11, <1>12, <1>13, <1>14

\* What lies in a gap overlaps none of the bookings.
LEMMA GapIsFree ==
    ASSUME NEW s, InEnterOrder(s), NEW w \in Stretch, NEW k \in 1 .. Len(s) + 1,
           NEW p \in Stretch, p.enter >= Cursor(s, w, k), p.leave <= GapEnd(s, w, k)
    PROVE  \A j \in 1 .. Len(s) : ~Overlaps(p, s[j])
<1> SUFFICES ASSUME NEW j \in 1 .. Len(s) PROVE p.enter >= s[j].leave \/ p.leave <= s[j].enter
  <2>1. p.enter \in Int /\ p.leave \in Int
    BY DEF Stretch
  <2>2. \A j \in 1 .. Len(s) : s[j].enter \in Int /\ s[j].leave \in Int
    BY DEF InEnterOrder, Lasting, Stretch
  <2> QED
    BY <2>1, <2>2 DEF Overlaps
<1>1. s \in Seq(Lasting) /\ p.enter \in Int /\ p.leave \in Int
      /\ s[j].enter \in Int /\ s[j].leave \in Int
  BY DEF InEnterOrder, Lasting, Stretch
<1>2. CASE j < k
  <2>1. j \in 1 .. k - 1
    BY <1>1, <1>2
  <2>2. Cursor(s, w, k) \in Int /\ Cursor(s, w, k) >= s[j].leave
    BY <1>1, <2>1, CursorIsLast
  <2> QED
    BY <1>1, <2>2
<1>3. CASE j >= k
  <2>1. k \in 1 .. Len(s) /\ GapEnd(s, w, k) = s[k].enter
    BY <1>1, <1>3 DEF GapEnd
  <2>2. s[k].enter \in Int /\ s[k].enter <= s[j].enter
    <3>1. s[k] \in Lasting
      BY <1>1, <2>1
    <3>2. s[k].enter \in Int
      BY <3>1 DEF Lasting, Stretch
    <3>3. k < j => s[k].enter <= s[j].enter
      BY <1>1, <2>1 DEF InEnterOrder
    <3>4. k = j => s[k].enter <= s[j].enter
      BY <3>2
    <3>5. k < j \/ k = j
      BY <1>1, <1>3
    <3> QED
      BY <3>2, <3>3, <3>4, <3>5
  <2> QED
    BY <1>1, <2>1, <2>2
<1>4. j < k \/ j >= k
  OBVIOUS
<1> QED
  BY <1>2, <1>3, <1>4

\* What lies in the window and overlaps none of the bookings lies in a gap.
LEMMA FreeIsInGap ==
    ASSUME NEW s \in Seq(Lasting), NEW w \in Stretch, NEW p \in Lasting,
           p.enter >= w.enter, p.leave <= w.leave, \A j \in 1 .. Len(s) : ~Overlaps(p, s[j])
    PROVE  \E k \in 1 .. Len(s) + 1 :
               /\ Gap(s, w, k) \in Int /\ Gap(s, w, k) >= Duration(p)
               /\ k <= Len(s) => s[k].enter >= p.leave
               /\ \A j \in 1 .. k - 1 : s[j].leave <= p.enter
<1> DEFINE Later == {k \in 1 .. Len(s) + 1 : k = Len(s) + 1 \/ s[k].enter >= p.leave}
<1>1. /\ p.enter \in Int /\ p.leave \in Int /\ w.enter \in Int /\ w.leave \in Int
      /\ Duration(p) = p.leave - p.enter
  BY DEF Lasting, Stretch, Duration
<1>2. \A j \in 1 .. Len(s) : s[j].enter \in Int /\ s[j].leave \in Int
  BY DEF Lasting, Stretch
<1>3. Later \in SUBSET Nat /\ Len(s) + 1 \in Later
  OBVIOUS
<1> HIDE DEF Later
<1>4. PICK k \in Later : \A j \in Later : k <= j
  BY <1>3, LeastNatural
<1>5. k \in 1 .. Len(s) + 1 /\ (k = Len(s) + 1 \/ s[k].enter >= p.leave)
  BY DEF Later
<1>6. \A j \in 1 .. k - 1 : s[j].leave <= p.enter
  <2> TAKE j \in 1 .. k - 1
  <2>1. j \in 1 .. Len(s) /\ j \notin Later
    BY <1>4, <1>5
  <2>2. ~(s[j].enter >= p.leave)
    BY <2>1 DEF Later
  <2> QED
    BY <1>1, <1>2, <2>1, <2>2 DEF Overlaps
<1>7. \A j \in 1 .. k - 1 : p.enter >= s[j].leave
  <2> TAKE j \in 1 .. k - 1
  <2>1. s[j].leave \in Int
    BY <1>2, <1>5
  <2> QED
    BY <1>1, <1>6, <2>1
<1>8. /\ Cursor(s, w, k) \in Int /\ GapEnd(s, w, k) \in Int
      /\ Gap(s, w, k) = GapEnd(s, w, k) - Cursor(s, w, k) /\ p.enter >= Cursor(s, w, k)
  BY <1>1, <1>5, <1>7, CursorIsLast
<1>9. GapEnd(s, w, k) >= p.leave
  BY <1>1, <1>5 DEF GapEnd
<1>10. Gap(s, w, k) \in Int /\ Gap(s, w, k) >= Duration(p)
  BY <1>1, <1>8, <1>9
<1>11. k <= Len(s) => s[k].enter >= p.leave
  BY <1>5
<1> QED
  BY <1>5, <1>6, <1>10, <1>11

(* Periods on whole minutes, and the bookings of them, which are sent a second short. *)

Whole == {k * Minute : k \in Int}
WholeMinutes == {p \in Lasting : p.enter \in Whole /\ p.leave \in Whole}
BookedMinutes == {AsSent(p) : p \in WholeMinutes}

\* Whole minutes are in the order of their numbers, and more than a second apart.
LEMMA InMinutes ==
    ASSUME NEW i \in Int, NEW j \in Int
    PROVE  /\ i * Minute \in Int /\ j * Minute \in Int
           /\ i < j => i * Minute + 1 < j * Minute
           /\ i <= j => i * Minute <= j * Minute
<1> Minute \in Nat /\ Minute > 1
  BY MinutesAndHours
<1>1. i * Minute \in Int /\ j * Minute \in Int
  OBVIOUS
<1>2. ASSUME i < j PROVE i * Minute + Minute <= j * Minute
  <2>1. PICK e \in Nat : j = i + 1 + e
    <3>1. j - i - 1 \in Nat /\ j = i + 1 + (j - i - 1)
      BY <1>2
    <3> QED
      BY <3>1
  <2>2. j * Minute = i * Minute + Minute + e * Minute
    BY <2>1
  <2>3. e * Minute \in Nat
    OBVIOUS
  <2> QED
    BY <1>1, <2>2, <2>3
<1>3. i = j => i * Minute = j * Minute
  OBVIOUS
<1> QED
  BY <1>1, <1>2, <1>3

LEMMA WholeApart ==
    ASSUME NEW a \in Whole, NEW b \in Whole
    PROVE  a \in Int /\ b \in Int /\ (a < b => a + 1 < b)
<1>1. PICK i \in Int, j \in Int : a = i * Minute /\ b = j * Minute
  BY DEF Whole
<1>2. i < j \/ j <= i
  OBVIOUS
<1> QED
  BY <1>1, <1>2, InMinutes

LEMMA WholeMinutesLast ==
    ASSUME NEW p \in WholeMinutes
    PROVE  /\ p \in Lasting /\ p \in Stretch /\ p.enter \in Int /\ p.leave \in Int
           /\ p.enter + 1 < p.leave
           /\ AsSent(p) \in Lasting /\ AsSent(p).enter = p.enter /\ AsSent(p).leave = p.leave - 1
<1>1. p \in Lasting /\ p \in Stretch /\ p.enter \in Whole /\ p.leave \in Whole /\ p.enter < p.leave
  BY DEF WholeMinutes, Lasting
<1>2. p.enter \in Int /\ p.leave \in Int /\ p.enter + 1 < p.leave
  BY <1>1, WholeApart
<1>3. AsSent(p) = [enter |-> p.enter, leave |-> p.leave - 1]
  BY <1>1 DEF AsSent, Stretch
<1> QED
  BY <1>1, <1>2, <1>3 DEF Lasting, Stretch

\* The bookings of the answer: none begins before the office opens, or lasts longer than it.
LEMMA ListedLast ==
    ASSUME NEW office \in WholeMinutes, NEW table \in SUBSET BookedMinutes, IsFiniteSet(table)
    PROVE  /\ BookingsOfDay(table, office) \in SUBSET Lasting
           /\ IsFiniteSet(BookingsOfDay(table, office))
           /\ \A c \in BookingsOfDay(table, office) :
                /\ c.enter \in Whole /\ c.enter >= office.enter /\ c.leave <= office.leave
                /\ c.leave \in Whole \/ c.leave + 1 \in Whole
<1> DEFINE T == {b \in table : Overlaps(office, b)}
           L == BookingsOfDay(table, office)
<1>1. L = {clampBookingToOfficeHours(b, office) : b \in T}
  BY DEF BookingsOfDay
<1>2. IsFiniteSet(L)
  <2>1. IsFiniteSet(T)
    BY FS_Subset
  <2> DEFINE f == [b \in T |-> clampBookingToOfficeHours(b, office)]
  <2>2. f \in [T -> L] /\ \A c \in L : \E b \in T : f[b] = c
    BY <1>1
  <2> HIDE DEF T, L, f
  <2>3. f \in Surjection(T, L)
    BY <2>2 DEF Surjection
  <2> QED
    BY <2>1, <2>3, FS_Surjection
<1>3. ASSUME NEW c \in L
      PROVE  /\ c \in Lasting /\ c.enter \in Whole /\ c.enter >= office.enter /\ c.leave <= office.leave
             /\ c.leave \in Whole \/ c.leave + 1 \in Whole
  <2>1. PICK b \in table : Overlaps(office, b) /\ c = clampBookingToOfficeHours(b, office)
    BY <1>1
  <2>2. PICK r \in WholeMinutes : b = AsSent(r)
    BY DEF BookedMinutes
  <2>3. /\ r.enter \in Whole /\ r.leave \in Whole
        /\ office.enter \in Whole /\ office.leave \in Whole
    BY DEF WholeMinutes
  <2>4. /\ b.enter \in Int /\ b.leave \in Int /\ b.enter < b.leave
        /\ b.enter = r.enter /\ b.leave = r.leave - 1 /\ r.leave \in Int
        /\ office.enter \in Int /\ office.leave \in Int /\ office.enter < office.leave
    BY <2>2, WholeMinutesLast
  <2>5. office.enter < b.leave /\ office.leave > b.enter
    BY <2>1 DEF Overlaps
  <2>6. c = [enter |-> Max({b.enter, office.enter}), leave |-> Min({b.leave, office.leave})]
    BY <2>1 DEF clampBookingToOfficeHours
  <2> DEFINE e == Max({b.enter, office.enter})
             l == Min({b.leave, office.leave})
  <2>7. e \in {b.enter, office.enter} /\ e >= b.enter /\ e >= office.enter
    BY <2>4, MaxOfTwo
  <2>8. l \in {b.leave, office.leave} /\ l <= b.leave /\ l <= office.leave
    BY <2>4, MinOfTwo
  <2>9. c.enter = e /\ c.leave = l
    BY <2>6
  <2> HIDE DEF e, l
  <2>10. e \in Int /\ l \in Int /\ e < l
    BY <2>4, <2>5, <2>7, <2>8
  <2>11. c \in Lasting
    BY <2>6, <2>10 DEF e, l, Lasting, Stretch
  <2>12. c.enter \in Whole
    BY <2>3, <2>4, <2>7, <2>9
  <2>13. c.leave \in Whole \/ c.leave + 1 \in Whole
    <3>1. CASE l = office.leave
      BY <2>3, <2>9, <3>1
    <3>2. CASE l = b.leave
      <4>1. c.leave + 1 = r.leave
        BY <2>4, <2>9, <3>2
      <4> QED
        BY <2>3, <4>1
    <3> QED
      BY <2>8, <3>1, <3>2
  <2> QED
    BY <2>7, <2>8, <2>9, <2>11, <2>12, <2>13
<1> QED
  BY <1>2, <1>3

\* What the server would accept the answer leaves free: the converse of ListedAreEnough.
LEMMA ListedAreNotTooMany ==
    ASSUME NEW office \in WholeMinutes, NEW table \in SUBSET BookedMinutes,
           NEW p \in WholeMinutes, ~OverlapsOneOf(AsSent(p), table)
    PROVE  ~OverlapsOneOf(p, BookingsOfDay(table, office))
<1> SUFFICES ASSUME NEW c \in BookingsOfDay(table, office), Overlaps(p, c) PROVE FALSE
  BY DEF OverlapsOneOf
<1>1. PICK b \in table : c = clampBookingToOfficeHours(b, office)
  BY DEF BookingsOfDay
<1>2. PICK r \in WholeMinutes : b = AsSent(r)
  BY DEF BookedMinutes
<1>3. /\ r.enter \in Whole /\ p.leave \in Whole
      /\ p.enter \in Int /\ p.leave \in Int /\ AsSent(p).enter = p.enter /\ AsSent(p).leave = p.leave - 1
      /\ b.enter \in Int /\ b.leave \in Int /\ b.enter = r.enter
      /\ office.enter \in Int /\ office.leave \in Int
  <2>1. r.enter \in Whole /\ p.leave \in Whole
    BY DEF WholeMinutes
  <2>2. b.enter \in Int /\ b.leave \in Int /\ b.enter = r.enter
    BY <1>2, WholeMinutesLast
  <2> QED
    BY <2>1, <2>2, WholeMinutesLast
<1>4. c.enter = Max({b.enter, office.enter}) /\ c.leave = Min({b.leave, office.leave})
  BY <1>1 DEF clampBookingToOfficeHours
<1>5. /\ c.enter \in Int /\ c.leave \in Int /\ c.enter >= b.enter /\ c.leave <= b.leave
  <2>1. c.enter \in {b.enter, office.enter} /\ c.enter >= b.enter
    BY <1>3, <1>4, MaxOfTwo
  <2>2. c.leave \in {b.leave, office.leave} /\ c.leave <= b.leave
    BY <1>3, <1>4, MinOfTwo
  <2> QED
    BY <1>3, <2>1, <2>2
<1>6. p.enter < b.leave /\ p.leave > b.enter
  BY <1>3, <1>5 DEF Overlaps
<1>7. p.leave > b.enter + 1
  BY <1>3, <1>6, WholeApart
<1>8. Overlaps(AsSent(p), b)
  BY <1>3, <1>6, <1>7 DEF Overlaps
<1> QED
  BY <1>8 DEF OverlapsOneOf

(* The merged intervals of a day. *)

\* Within the office hours, begun on a whole minute and ended a second short of one, or with the
\* office hours; in order and apart from each other.
IntervalsOfDay(m, office) ==
    /\ m \in Seq(Lasting)
    /\ \A k \in 1 .. Len(m) :
         /\ m[k].enter \in Whole /\ m[k].enter >= office.enter /\ m[k].leave <= office.leave
         /\ m[k].leave \in Whole \/ m[k].leave + 1 \in Whole
    /\ \A k, l \in 1 .. Len(m) : k < l => m[k].leave < m[l].enter

LEMMA MergedInOrder ==
    ASSUME NEW m \in Seq(Lasting), \A k, l \in 1 .. Len(m) : k < l => m[k].leave < m[l].enter
    PROVE  InEnterOrder(m)
<1> SUFFICES ASSUME NEW k \in 1 .. Len(m), NEW l \in 1 .. Len(m), k < l PROVE m[k].enter <= m[l].enter
  BY DEF InEnterOrder
<1>1. /\ m[k].enter \in Int /\ m[k].leave \in Int /\ m[k].enter < m[k].leave /\ m[l].enter \in Int
  BY DEF Lasting, Stretch
<1>2. m[k].leave < m[l].enter
  OBVIOUS
<1> QED
  BY <1>1, <1>2

\* normalizeIntervals, for any bookings: the intervals it returns are in order and apart, and
\* a period overlaps one of them just when it overlaps one of the bookings.
THEOREM MergingKeepsWhatIsBooked ==
    ASSUME NEW S \in SUBSET Lasting, IsFiniteSet(S)
    PROVE  LET m == normalizeIntervals(S)
           IN  /\ m \in Seq(Lasting)
               /\ \A k, l \in 1 .. Len(m) : k < l => m[k].leave < m[l].enter
               /\ \A q \in Lasting : OverlapsOneOf(q, Range(m)) <=> OverlapsOneOf(q, S)
<1> DEFINE m == normalizeIntervals(S)
           s == ByEnter(S)
           N == Cardinality(S)
<1>1. /\ IsSortOf(s, S) /\ InEnterOrder(s) /\ N \in Nat /\ Len(s) = N /\ MergedFrom(m, s, N)
  BY Normalized
<1> HIDE DEF m, s, N
<1>2. /\ m \in Seq(Lasting) /\ DOMAIN m = 1 .. Len(m) /\ s \in Seq(Lasting) /\ DOMAIN s = 1 .. N
      /\ Range(s) = S
  BY <1>1 DEF MergedFrom, InEnterOrder, IsSortOf, N
<1>3. \A k, l \in 1 .. Len(m) : k < l => m[k].leave < m[l].enter
  BY <1>1, <1>2 DEF MergedFrom
<1>4. ASSUME NEW q \in Lasting, OverlapsOneOf(q, Range(m)) PROVE OverlapsOneOf(q, S)
  <2>1. PICK k \in DOMAIN m : Overlaps(q, m[k])
    BY <1>4 DEF OverlapsOneOf, Range
  <2>2. PICK i \in 1 .. N : Overlaps(q, s[i])
    BY <1>1, <2>1 DEF MergedFrom
  <2> QED
    BY <1>2, <2>2 DEF OverlapsOneOf, Range
<1>5. ASSUME NEW q \in Lasting, OverlapsOneOf(q, S) PROVE OverlapsOneOf(q, Range(m))
  <2>1. PICK i \in 1 .. N : Overlaps(q, s[i])
    BY <1>2, <1>5 DEF OverlapsOneOf, Range
  <2>2. PICK k \in DOMAIN m : m[k].enter <= s[i].enter /\ s[i].leave <= m[k].leave
    BY <1>1 DEF MergedFrom
  <2>3. /\ m[k] \in Lasting /\ s[i] \in Lasting
    <3>1. \A l \in 1 .. Len(m) : m[l] \in Lasting
      BY <1>2
    <3>2. s[i] \in S
      BY <1>1, <2>1 DEF IsSortOf, N
    <3> QED
      BY <1>2, <2>1, <2>2, <3>1, <3>2, Zenon
  <2>4. Overlaps(q, m[k])
    BY <2>1, <2>2, <2>3 DEF Lasting, Stretch, Overlaps
  <2> QED
    BY <2>2, <2>4 DEF OverlapsOneOf, Range
<1> QED
  BY <1>2, <1>3, <1>4, <1>5 DEF m

LEMMA MergedOfDay ==
    ASSUME NEW office \in WholeMinutes, NEW table \in SUBSET BookedMinutes, IsFiniteSet(table)
    PROVE  IntervalsOfDay(normalizeIntervals(BookingsOfDay(table, office)), office)
<1> DEFINE S == BookingsOfDay(table, office)
           m == normalizeIntervals(S)
           s == ByEnter(S)
           N == Cardinality(S)
<1>1. /\ S \in SUBSET Lasting /\ IsFiniteSet(S)
      /\ \A c \in S : /\ c.enter \in Whole /\ c.enter >= office.enter /\ c.leave <= office.leave
                      /\ c.leave \in Whole \/ c.leave + 1 \in Whole
  BY ListedLast
<1> HIDE DEF S
<1>2. /\ m \in Seq(Lasting) /\ \A k, l \in 1 .. Len(m) : k < l => m[k].leave < m[l].enter
  BY <1>1, MergingKeepsWhatIsBooked
<1>3. IsSortOf(s, S) /\ MergedFrom(m, s, N)
  BY <1>1, Normalized
<1> HIDE DEF m, s, N
<1>4. \A i \in 1 .. N : s[i] \in S
  BY <1>3 DEF IsSortOf, N
<1>5. ASSUME NEW k \in 1 .. Len(m)
      PROVE  /\ m[k].enter \in Whole /\ m[k].enter >= office.enter /\ m[k].leave <= office.leave
             /\ m[k].leave \in Whole \/ m[k].leave + 1 \in Whole
  <2>1. PICK i \in 1 .. N, j \in 1 .. N : m[k].enter = s[i].enter /\ m[k].leave = s[j].leave
    <3>1. k \in DOMAIN m
      BY <1>2
    <3> QED
      BY <1>3, <3>1, Zenon DEF MergedFrom
  <2> QED
    BY <1>1, <1>4, <2>1
<1> QED
  BY <1>2, <1>5 DEF IntervalsOfDay, m, S

LEMMA CeilOfWhole ==
    ASSUME NEW b \in Lasting, NEW i \in Int, NEW j \in Int, b.enter = i * Minute,
           b.leave = j * Minute \/ b.leave + 1 = j * Minute
    PROVE  CeilMinutes(b) = j - i
<1>1. /\ Minute \in Nat /\ Minute > 1 /\ b.enter \in Int /\ b.leave \in Int
      /\ i * Minute \in Int /\ j * Minute \in Int
  BY MinutesAndHours DEF Lasting, Stretch
<1>2. PICK r \in 0 .. Minute - 1 : Duration(b) + Minute - 1 = (j * Minute - i * Minute) + r
  <2>1. CASE b.leave = j * Minute
    <3>1. Duration(b) + Minute - 1 = (j * Minute - i * Minute) + (Minute - 1) /\ Minute - 1 \in 0 .. Minute - 1
      BY <1>1, <2>1 DEF Duration
    <3> QED
      BY <3>1
  <2>2. CASE b.leave + 1 = j * Minute
    <3>1. Duration(b) + Minute - 1 = (j * Minute - i * Minute) + (Minute - 2) /\ Minute - 2 \in 0 .. Minute - 1
      BY <1>1, <2>2 DEF Duration
    <3> QED
      BY <3>1
  <2> QED
    BY <2>1, <2>2
<1>3. PICK q \in Int : q = j - i
  OBVIOUS
<1>4. q * Minute = j * Minute - i * Minute
  BY <1>1, <1>3
<1>5. (q * Minute + r) \div Minute = q
  BY <1>1
<1> QED
  BY <1>2, <1>3, <1>4, <1>5 DEF CeilMinutes

LEMMA OrderOfMinutes ==
    ASSUME NEW i \in Int, NEW j \in Int, i * Minute <= j * Minute + 1
    PROVE  i <= j
<1>1. ~(j < i)
  BY InMinutes
<1> QED
  BY <1>1

\* sumSpaceDayStatusIntervalMinutes rounds each interval up: still, the sum is less than the
\* office hours while a period of whole minutes is free.
LEMMA SumLeavesRoom ==
    ASSUME NEW office \in WholeMinutes, NEW m, IntervalsOfDay(m, office), NEW p \in WholeMinutes,
           p.enter >= office.enter, p.leave <= office.leave,
           \A k \in 1 .. Len(m) : ~Overlaps(p, m[k])
    PROVE  sumMinutes(m) \in Int /\ sumMinutes(m) * Minute < Duration(office)
<1> DEFINE N == Len(m)
           t == CHOOSE t : IsTotal(t, m)
<1>1. m \in Seq(Lasting) /\ N \in Nat
  BY DEF IntervalsOfDay
<1>2. IsTotal(t, m) /\ sumMinutes(m) = t[N]
  <2>1. sumMinutes(m) = t[N]
    BY DEF sumMinutes, IsTotal
  <2>2. \E u : IsTotal(u, m)
    BY <1>1, TotalExists
  <2> QED
    BY <2>1, <2>2
<1> HIDE DEF t
<1>3. \A n \in 0 .. N : t[n] = IF n = 0 THEN 0 ELSE t[n - 1] + CeilMinutes(m[n])
  BY <1>2 DEF IsTotal
<1>4. PICK o \in Int, c \in Int, a \in Int, z \in Int :
         /\ office.enter = o * Minute /\ office.leave = c * Minute
         /\ p.enter = a * Minute /\ p.leave = z * Minute
  BY DEF WholeMinutes, Whole
<1>5. o <= a /\ a < z /\ z <= c
  <2>1. o * Minute \in Int /\ c * Minute \in Int /\ a * Minute \in Int /\ z * Minute \in Int
    BY InMinutes
  <2>2. o <= a /\ z <= c
    BY <1>4, <2>1, OrderOfMinutes
  <2>3. ~(z <= a)
    <3>1. p.enter < p.leave
      BY DEF WholeMinutes, Lasting
    <3> QED
      BY <1>4, <2>1, <3>1, InMinutes
  <2> QED
    BY <2>2, <2>3
<1> DEFINE Ends(k, j) == m[k].leave = j * Minute \/ m[k].leave + 1 = j * Minute
           Short(k, j) == t[k] \in Int /\ t[k] <= j - o /\ (p.leave <= m[k].enter => t[k] < j - o)
           Good == {n \in 0 .. N : n = 0 \/ \E j \in Int : Ends(n, j) /\ Short(n, j)}
<1>6. ASSUME NEW k \in 1 .. N, NEW j \in Int, Ends(k, j), p.leave > m[k].enter
      PROVE  j <= a
  <2>1. /\ m[k].enter \in Int /\ m[k].leave \in Int /\ p.enter \in Int /\ p.leave \in Int
    <3>1. m[k] \in Lasting
      BY <1>1
    <3>2. m[k].enter \in Int /\ m[k].leave \in Int
      BY <3>1 DEF Lasting, Stretch
    <3> QED
      BY <3>2, WholeMinutesLast, Zenon
  <2>2. p.enter >= m[k].leave
    BY <1>6, <2>1 DEF Overlaps
  <2>3. j * Minute \in Int /\ a * Minute \in Int
    BY InMinutes
  <2>4. j * Minute <= a * Minute + 1
    BY <1>4, <1>6, <2>1, <2>2, <2>3
  <2> QED
    BY <2>4, OrderOfMinutes
<1>7. ASSUME NEW k \in 1 .. N
      PROVE  /\ m[k].enter \in Int /\ m[k].leave \in Int
             /\ \E i, j \in Int : /\ m[k].enter = i * Minute /\ Ends(k, j) /\ CeilMinutes(m[k]) = j - i
                                  /\ o <= i /\ j <= c /\ (p.leave <= m[k].enter => z <= i)
  <2>1. m[k] \in Lasting /\ m[k].enter \in Int /\ m[k].leave \in Int
    BY <1>1 DEF Lasting, Stretch
  <2>2. /\ m[k].enter \in Whole /\ m[k].enter >= office.enter /\ m[k].leave <= office.leave
        /\ m[k].leave \in Whole \/ m[k].leave + 1 \in Whole
    BY DEF IntervalsOfDay
  <2>3. PICK i \in Int, j \in Int : m[k].enter = i * Minute /\ Ends(k, j)
    BY <2>2 DEF Whole
  <2>4. i * Minute \in Int /\ j * Minute \in Int /\ o * Minute \in Int /\ c * Minute \in Int /\ z * Minute \in Int
    BY InMinutes
  <2>5. CeilMinutes(m[k]) = j - i
    BY <2>1, <2>3, CeilOfWhole
  <2>6. o <= i
    <3>1. o * Minute <= i * Minute + 1
      BY <1>4, <2>2, <2>3, <2>4
    <3> QED
      BY <3>1, OrderOfMinutes
  <2>7. j <= c
    <3>1. j * Minute = m[k].leave \/ j * Minute = m[k].leave + 1
      BY <2>3, Zenon
    <3>2. j * Minute <= c * Minute + 1
      BY <1>4, <2>1, <2>2, <2>4, <3>1, SMTT(30)
    <3> QED
      BY <3>2, OrderOfMinutes
  <2>8. p.leave <= m[k].enter => z <= i
    <3>1. p.leave <= m[k].enter => z * Minute <= i * Minute + 1
      BY <1>4, <2>3, <2>4
    <3> QED
      BY <3>1, OrderOfMinutes
  <2> QED
    BY <2>1, <2>3, <2>5, <2>6, <2>7, <2>8
<1>8. 0 \in Good
  BY <1>1
<1>9. ASSUME NEW n \in 0 .. N - 1, n \in Good PROVE n + 1 \in Good
  <2> DEFINE k == n + 1
  <2>1. k \in 1 .. N /\ k \in 0 .. N /\ k # 0 /\ k - 1 = n /\ n \in 0 .. N
    BY <1>1
  <2> HIDE DEF k
  <2>2. PICK i \in Int, j \in Int :
           /\ m[k].enter = i * Minute /\ Ends(k, j) /\ CeilMinutes(m[k]) = j - i
           /\ o <= i /\ j <= c /\ (p.leave <= m[k].enter => z <= i)
    BY <1>7, <2>1
  <2>3. t[k] = t[n] + (j - i)
    BY <1>3, <2>1, <2>2
  <2>4. CASE n = 0
    <3>1. t[n] = 0
      BY <1>3, <2>1, <2>4
    <3>2. Short(k, j)
      BY <1>5, <2>2, <2>3, <3>1
    <3> HIDE DEF Short, Ends
    <3> QED
      BY <2>1, <2>2, <3>2 DEF k
  <2>5. CASE n # 0
    <3>1. PICK b \in Int : Ends(n, b) /\ Short(n, b)
      BY <1>9, <2>5
    <3>2. n \in 1 .. N /\ n < k
      BY <2>1, <2>5
    <3>3. m[n].leave < m[k].enter
      BY <2>1, <3>2 DEF IntervalsOfDay
    <3>4. b <= i
      <4>1. b * Minute \in Int /\ i * Minute \in Int /\ m[n].leave \in Int
        BY <1>7, <3>2, InMinutes
      <4>2. b * Minute <= i * Minute + 1
        BY <2>2, <3>1, <3>3, <4>1
      <4> QED
        BY <4>2, OrderOfMinutes
    <3>5. p.leave > m[n].enter => b <= a
      BY <1>6, <3>1, <3>2
    <3>6. p.leave <= m[n].enter \/ p.leave > m[n].enter
      <4>1. m[n].enter \in Int /\ p.leave \in Int
        BY <1>7, <3>2, WholeMinutesLast
      <4> QED
        BY <4>1
    <3>7. Short(k, j)
      BY <1>5, <2>2, <2>3, <3>1, <3>4, <3>5, <3>6
    <3> HIDE DEF Short, Ends
    <3> QED
      BY <2>1, <2>2, <3>7 DEF k
  <2> QED
    BY <2>4, <2>5
<1> HIDE DEF Good
<1>10. N \in Good
  <2>1. 0 .. N \subseteq Good
    BY <1>1, <1>8, <1>9, UpTo
  <2>2. N \in 0 .. N
    BY <1>1
  <2> QED
    BY <2>1, <2>2
<1>11. t[N] \in Int /\ t[N] < c - o
  <2>1. CASE N = 0
    <3>1. t[N] = 0
      BY <1>1, <1>3, <2>1
    <3> QED
      BY <1>5, <3>1
  <2>2. CASE N # 0
    <3>1. PICK b \in Int : Ends(N, b) /\ Short(N, b)
      BY <1>10, <2>2 DEF Good
    <3>2. N \in 1 .. N
      BY <1>1, <2>2
    <3>3. p.leave > m[N].enter => b <= a
      BY <1>6, <3>1, <3>2
    <3>4. p.leave <= m[N].enter \/ p.leave > m[N].enter
      <4>1. m[N].enter \in Int /\ p.leave \in Int
        BY <1>7, <3>2, WholeMinutesLast
      <4> QED
        BY <4>1
    <3>5. b <= c
      <4>1. b * Minute \in Int /\ c * Minute \in Int /\ m[N].leave \in Int
        BY <1>7, <3>2, InMinutes
      <4>2. m[N].leave <= office.leave
        BY <3>2 DEF IntervalsOfDay
      <4>3. b * Minute <= c * Minute + 1
        BY <1>4, <3>1, <4>1, <4>2
      <4> QED
        BY <4>3, OrderOfMinutes
    <3> QED
      BY <1>5, <3>1, <3>3, <3>4, <3>5
  <2> QED
    BY <2>1, <2>2
<1>12. t[N] * Minute < Duration(office)
  <2>1. PICK q \in Int : q = t[N]
    BY <1>11
  <2>2. PICK d \in Int : d = c - o
    OBVIOUS
  <2>3. q * Minute \in Int /\ q * Minute + 1 < d * Minute
    BY <1>11, <2>1, <2>2, InMinutes
  <2>4. Minute \in Nat
    BY MinutesAndHours
  <2>5. d * Minute = c * Minute - o * Minute
    BY <2>2, <2>4
  <2>6. d * Minute \in Int
    BY <2>4
  <2> QED
    BY <1>4, <2>1, <2>3, <2>5, <2>6 DEF Duration
<1> QED
  BY <1>2, <1>11, <1>12
-----------------------------------------------------------------------------
(* Full is full: while the server accepts a booking, neither it nor the    *)
(* client says that the desk is full.                                      *)

\* What getBookableWindow and the client make of the office hours.
LEMMA WindowOpens ==
    ASSUME NEW office \in Stretch, NEW x \in Int
    PROVE  LET w == [office EXCEPT !.enter = Max({@, x})]
           IN  /\ w \in Stretch /\ w.enter >= office.enter /\ w.enter >= x /\ w.leave = office.leave
               /\ \A y \in Int : y >= office.enter /\ y >= x => y >= w.enter
<1> DEFINE e == Max({office.enter, x})
<1>1. office.enter \in Int /\ office.leave \in Int
  BY DEF Stretch
<1>2. e \in {office.enter, x} /\ e >= office.enter /\ e >= x
  BY <1>1, MaxOfTwo
<1>3. e \in Int
  BY <1>1, <1>2
<1>4. [office EXCEPT !.enter = Max({@, x})] = [enter |-> e, leave |-> office.leave]
  BY DEF Stretch
<1> HIDE DEF e
<1> QED
  BY <1>1, <1>2, <1>3, <1>4 DEF Stretch

LEMMA SameMinimum ==
    ASSUME NEW d \in AnyDesk, d.type.mode # "fixed_slots"
    PROVE  getMinimumBookableDuration(d) =
             IF getEffectiveMinimum(d) > 0 THEN getEffectiveMinimum(d) * Minute - 1 ELSE 0
<1>1. ~isFixedSlotSpace(d)
  BY DEF isFixedSlotSpace
<1>2. CASE d.type.mode = "none"
  BY <1>1, <1>2 DEF getMinimumBookableDuration, getEffectiveMinimum, getLegacyMinimum
<1>3. CASE d.type.mode = "flexible_time"
  BY <1>1, <1>3 DEF getMinimumBookableDuration, getEffectiveMinimum
<1> QED
  BY <1>2, <1>3 DEF AnyDesk, AnyType

\* What the server accepts is as long as the client and the status of the day want it to be.
LEMMA AcceptedLasts ==
    ASSUME NEW d \in AnyDesk, d.type.mode # "fixed_slots", NEW p \in WholeMinutes,
           isValidMinHoursBooking(d, AsSent(p)), isValidSpaceTypeBooking(d, AsSent(p))
    PROVE  /\ getEffectiveMinimum(d) \in Nat /\ Duration(p) >= getEffectiveMinimum(d) * Minute
           /\ Duration(p) >= Max({getMinimumBookableDuration(d), 1})
<1> DEFINE least == getEffectiveMinimum(d)
<1>1. /\ Minute \in Nat \ {0} /\ Hour \in Nat \ {0} /\ HalfHour \in Nat
      /\ d.minHours \in Nat /\ d.minHours * Hour \in Nat /\ Hour * Minute \in Nat \ {0}
  BY MinutesAndHours DEF AnyDesk
<1>2. Duration(p) \in Nat /\ Duration(p) > 1 /\ Duration(AsSent(p)) + 1 = Duration(p)
  <2>1. /\ p.enter \in Int /\ p.leave \in Int /\ p.enter + 1 < p.leave
        /\ AsSent(p).enter = p.enter /\ AsSent(p).leave = p.leave - 1
    BY WholeMinutesLast
  <2> QED
    BY <2>1 DEF Duration
<1>3. /\ least \in Nat
      /\ d.type.mode = "none" => least = getLegacyMinimum(d.minHours)
      /\ d.type.mode = "flexible_time" => d.type.minDuration \in Nat
  BY MinimumIsEnough
<1>4. Duration(p) >= (d.minHours * Hour) * Minute
  <2>1. CASE d.minHours = 0
    <3>1. (d.minHours * Hour) * Minute = 0
      BY <1>1, <2>1
    <3> QED
      BY <1>2, <3>1
  <2>2. CASE d.minHours # 0
    <3>1. Duration(p) \div (Hour * Minute) >= d.minHours
      BY <1>2, <2>2 DEF isValidMinHoursBooking
    <3>2. Duration(p) >= d.minHours * (Hour * Minute)
      BY <1>1, <1>2, <3>1, WholeParts
    <3>3. d.minHours * (Hour * Minute) = (d.minHours * Hour) * Minute
      BY <1>1
    <3> QED
      BY <3>2, <3>3
  <2> QED
    BY <2>1, <2>2
<1>5. Duration(p) >= least * Minute
  <2>1. CASE d.type.mode = "none"
    BY <1>2, <1>3, <2>1 DEF isValidSpaceTypeBooking
  <2>2. CASE d.type.mode = "flexible_time"
    <3>1. d.type.minDuration \in Nat
      BY <1>3, <2>2
    <3>2. Duration(p) \div Minute >= d.type.minDuration
      BY <1>2, <2>2 DEF isValidSpaceTypeBooking
    <3>3. Duration(p) >= d.type.minDuration * Minute
      BY <1>1, <1>2, <3>1, <3>2, WholeParts
    <3>4. least = Max({d.minHours * Hour, d.type.minDuration})
      BY <2>2 DEF getEffectiveMinimum, isFixedSlotSpace
    <3>5. PICK x \in Int, y \in Int : x = d.minHours * Hour /\ y = d.type.minDuration
      BY <1>1, <3>1
    <3>6. Max({x, y}) \in {x, y}
      BY MaxOfTwo
    <3>7. least = d.minHours * Hour \/ least = d.type.minDuration
      BY <3>4, <3>5, <3>6
    <3> HIDE DEF least
    <3> QED
      BY <1>4, <3>3, <3>7, Zenon
  <2> QED
    BY <2>1, <2>2 DEF AnyDesk, AnyType
<1> HIDE DEF least
<1>6. Duration(p) >= Max({getMinimumBookableDuration(d), 1})
  <2>1. getMinimumBookableDuration(d) = IF least > 0 THEN least * Minute - 1 ELSE 0
    BY SameMinimum DEF least
  <2>2. least * Minute \in Nat
    BY <1>1, <1>3
  <2>3. PICK x \in Int : x = getMinimumBookableDuration(d) /\ x <= Duration(p)
    BY <1>2, <1>3, <1>5, <2>1, <2>2
  <2>4. Max({x, 1}) \in {x, 1}
    <3>1. 1 \in Int
      OBVIOUS
    <3> QED
      BY <3>1, MaxOfTwo, Zenon
  <2> QED
    BY <1>2, <2>3, <2>4
<1> QED
  BY <1>3, <1>5, <1>6 DEF least

\* For any desk, bookings and present: if the server would accept a booking that can be
\* picked, the status it gave earlier is not "full", and the client does not make it so.
THEOREM FullIsFullEverywhere ==
    ASSUME NEW d \in AnyDesk, d.office \in WholeMinutes,
           NEW table \in SUBSET BookedMinutes, IsFiniteSet(table),
           NEW asked \in Int, NEW now \in Int, asked <= now,
           NEW p \in WholeMinutes, isFixedSlotSpace(d) => p \in d.type.slots,
           isValidBooking(d, table, now, AsSent(p))
    PROVE  LET listed == BookingsOfDay(table, d.office)
           IN  getEffectiveDayStatus(d, getSpaceDayStatus(d, listed, asked), listed, now) # "full"
<1> DEFINE L == BookingsOfDay(table, d.office)
           m == normalizeIntervals(L)
           office == d.office
<1>1. /\ p \in Lasting /\ p \in Stretch /\ p.enter \in Int /\ p.leave \in Int /\ p.enter + 1 < p.leave
      /\ AsSent(p).enter = p.enter /\ AsSent(p).leave = p.leave - 1
  BY WholeMinutesLast
<1>2. office \in Stretch /\ office.enter \in Int /\ office.leave \in Int /\ office.enter < office.leave
  BY WholeMinutesLast DEF Lasting
<1>3. /\ p.enter >= now /\ p.enter >= office.enter /\ ~OverlapsOneOf(AsSent(p), table)
      /\ isValidMinHoursBooking(d, AsSent(p)) /\ isValidSpaceTypeBooking(d, AsSent(p))
  BY <1>1 DEF isValidBooking
<1>4. p.leave <= office.leave
  <2>1. p.leave - 1 <= office.leave
    BY <1>1 DEF isValidBooking
  <2>2. p.leave \in Whole /\ office.leave \in Whole
    BY DEF WholeMinutes
  <2> QED
    BY <1>1, <1>2, <2>1, <2>2, WholeApart
<1>5. ~OverlapsOneOf(p, L)
  BY <1>3, ListedAreNotTooMany
<1>6. L \in SUBSET Lasting /\ IsFiniteSet(L) /\ IntervalsOfDay(m, office)
  BY ListedLast, MergedOfDay
<1> HIDE DEF L, office
<1>7. /\ m \in Seq(Lasting) /\ ~OverlapsOneOf(p, Range(m)) /\ \A k \in 1 .. Len(m) : ~Overlaps(p, m[k])
  <2>1. m \in Seq(Lasting) /\ ~OverlapsOneOf(p, Range(m))
    BY <1>1, <1>5, <1>6, MergingKeepsWhatIsBooked
  <2> HIDE DEF m
  <2> QED
    BY <2>1 DEF OverlapsOneOf, Range
<1>8. ASSUME NEW x \in Int, x <= p.enter
      PROVE  LET w == [office EXCEPT !.enter = Max({@, x})]
             IN  w \in Stretch /\ w.enter <= p.enter /\ w.leave = office.leave
  <2> DEFINE w == [office EXCEPT !.enter = Max({@, x})]
  <2>1. /\ w \in Stretch /\ w.leave = office.leave
        /\ \A y \in Int : y >= office.enter /\ y >= x => y >= w.enter
    BY <1>2, WindowOpens
  <2>2. p.enter >= office.enter /\ p.enter >= x
    BY <1>1, <1>3, <1>8 DEF office
  <2> HIDE DEF w
  <2>3. w.enter \in Int
    BY <2>1 DEF Stretch
  <2> QED
    BY <1>1, <2>1, <2>2, <2>3 DEF w
<1>9. hasBookableOption(d, m, asked)
  <2> DEFINE w == getBookableWindow(office, asked)
  <2>1. w \in Stretch /\ w.enter <= p.enter /\ w.leave = office.leave
    <3>1. asked <= p.enter
      BY <1>1, <1>3
    <3> QED
      BY <1>8, <3>1 DEF getBookableWindow
  <2> HIDE DEF w
  <2>2. w.enter \in Int /\ w.leave \in Int /\ p.enter >= w.enter /\ p.leave <= w.leave
    BY <1>1, <1>4, <2>1 DEF Stretch, office
  <2>3. CASE isFixedSlotSpace(d)
    <3>1. hasAvailableFixedSlot(d, m, w)
      BY <1>7, <2>2, <2>3 DEF hasAvailableFixedSlot
    <3> QED
      BY <2>3, <3>1 DEF hasBookableOption, isFixedSlotSpace, w, office
  <2>4. CASE ~isFixedSlotSpace(d)
    <3>1. PICK k \in 1 .. Len(m) + 1 : Gap(m, w, k) \in Int /\ Gap(m, w, k) >= Duration(p)
      BY <1>1, <1>7, <2>1, <2>2, FreeIsInGap
    <3>2. Duration(p) >= Max({getMinimumBookableDuration(d), 1})
      BY <1>3, <2>4, AcceptedLasts DEF isFixedSlotSpace
    <3>3. Max({getMinimumBookableDuration(d), 1}) \in Int /\ Duration(p) \in Int
      <4>1. getEffectiveMinimum(d) \in Nat /\ Minute \in Nat
        BY <2>4, MinimumIsEnough, MinutesAndHours DEF isFixedSlotSpace
      <4>2. getMinimumBookableDuration(d) \in Int
        BY <2>4, <4>1, SameMinimum DEF isFixedSlotSpace
      <4>3. Max({getMinimumBookableDuration(d), 1}) \in {getMinimumBookableDuration(d), 1}
        BY <4>2, MaxOfTwo
      <4>4. Duration(p) \in Int
        BY <1>1 DEF Duration
      <4> QED
        BY <4>2, <4>3, <4>4
    <3>4. Gap(m, w, k) >= Max({getMinimumBookableDuration(d), 1})
      BY <3>1, <3>2, <3>3
    <3>5. hasBookableGap(m, w, getMinimumBookableDuration(d))
      BY <3>4 DEF hasBookableGap
    <3> QED
      BY <2>4, <3>5 DEF hasBookableOption, isFixedSlotSpace, w, office
  <2> QED
    BY <2>3, <2>4
<1>10. getSpaceDayStatus(d, L, asked) # "full"
  <2>1. sumMinutes(m) \in Int /\ sumMinutes(m) * Minute < Duration(office)
    BY <1>3, <1>4, <1>6, <1>7, SumLeavesRoom DEF office
  <2>2. ~(sumMinutes(m) * Minute >= Duration(office))
    <3>1. sumMinutes(m) * Minute \in Int /\ Duration(office) \in Int
      BY <1>2, <2>1, MinutesAndHours DEF Duration
    <3> QED
      BY <2>1, <3>1
  <2>3. getSpaceDayStatus(d, L, asked) =
          (CASE ~hasBookableOption(d, m, asked) -> "full"
             [] sumMinutes(m) * Minute >= Duration(office) -> "full"
             [] sumMinutes(m) = 0 -> "available"
             [] OTHER -> "partially_booked")
    BY DEF getSpaceDayStatus, office
  <2> HIDE DEF m
  <2> QED
    BY <1>9, <2>2, <2>3
<1>11. CASE isFixedSlotSpace(d)
  <2>1. isInBookableFuture(d, p.enter, now) /\ isWithinOfficeHours(d, p)
    BY <1>1, <1>2, <1>3, <1>4 DEF isInBookableFuture, isWithinOfficeHours, office
  <2>2. p \in getAvailableFixedSlots(d, L, now)
    BY <1>5, <1>11, <2>1 DEF getAvailableFixedSlots, isRangeAllowed, doesOverlapDayStatus
  <2> QED
    BY <1>10, <1>11, <2>2 DEF getEffectiveDayStatus, L
<1>12. CASE ~isFixedSlotSpace(d)
  <2> DEFINE w == BookableWindow(d, now)
             s == ByEnter(L)
             least == getEffectiveMinimum(d)
  <2>1. w \in Stretch /\ w.enter <= p.enter /\ w.leave = office.leave
    BY <1>1, <1>3, <1>8 DEF BookableWindow, office
  <2>2. s \in Seq(Lasting) /\ \A j \in 1 .. Len(s) : ~Overlaps(p, s[j])
    <3>1. InEnterOrder(s) /\ IsSortOf(s, L)
      BY <1>6, Normalized
    <3>2. s \in Seq(Lasting) /\ Range(s) = L
      BY <3>1 DEF InEnterOrder, IsSortOf
    <3> HIDE DEF s
    <3> QED
      BY <1>5, <3>2 DEF OverlapsOneOf, Range
  <2>3. least \in Nat /\ Duration(p) >= least * Minute
    BY <1>3, <1>12, AcceptedLasts DEF isFixedSlotSpace
  <2> HIDE DEF w, s, least
  <2>4. w.enter \in Int /\ w.leave \in Int /\ p.enter >= w.enter /\ p.leave <= w.leave
    BY <1>1, <1>4, <2>1 DEF Stretch, office
  <2>5. PICK k \in 1 .. Len(s) + 1 : Gap(s, w, k) \in Int /\ Gap(s, w, k) >= Duration(p)
    BY <1>1, <2>1, <2>2, <2>4, FreeIsInGap
  <2>6. Gap(s, w, k) > 0 /\ Gap(s, w, k) >= least * Minute
    <3>1. Duration(p) \in Int /\ Duration(p) > 0 /\ least * Minute \in Int
      BY <1>1, <2>3, MinutesAndHours DEF Duration
    <3> QED
      BY <2>3, <2>5, <3>1
  <2>7. k = Len(s) + 1 \/ k \in DOMAIN s
    BY <2>2
  <2>8. w.enter < w.leave
    BY <1>1, <2>4
  <2>9. hasBookableTimeRange(d, L, least, now)
    BY <2>6, <2>7, <2>8 DEF hasBookableTimeRange, s, w
  <2> QED
    BY <1>10, <1>12, <2>9 DEF getEffectiveDayStatus, L, least
<1> QED
  BY <1>11, <1>12 DEF L
-----------------------------------------------------------------------------
(* Free is bookable: a desk that is not shown as full has a period left    *)
(* that the dialog lets pass and the server accepts.                       *)

\* The end of a gap that is long enough: the period of the least duration before it.
LEMMA LastOfGap ==
    ASSUME NEW office \in WholeMinutes, NEW now \in Int, NEW least \in Nat, least > 0,
           NEW L \in SUBSET Lasting, IsFiniteSet(L),
           \A c \in L : c.enter \in Whole /\ c.leave <= office.leave,
           NEW w, w = [office EXCEPT !.enter = Max({@, now})],
           NEW k \in 1 .. Len(ByEnter(L)) + 1, Gap(ByEnter(L), w, k) >= least * Minute
    PROVE  \E p \in WholeMinutes :
             /\ p.enter >= office.enter /\ p.leave <= office.leave /\ p.enter >= now
             /\ Duration(p) = least * Minute /\ ~OverlapsOneOf(p, L)
<1> DEFINE s == ByEnter(L)
           e == GapEnd(s, w, k)
           p == [enter |-> e - least * Minute, leave |-> e]
<1>1. IsSortOf(s, L) /\ InEnterOrder(s)
  BY Normalized
<1>2. s \in Seq(Lasting) /\ DOMAIN s = 1 .. Len(s) /\ Range(s) = L
  BY <1>1 DEF InEnterOrder, IsSortOf
<1>3. /\ office \in Stretch /\ office.enter \in Int /\ office.leave \in Int /\ office.leave \in Whole
  BY WholeMinutesLast DEF WholeMinutes
<1>4. w \in Stretch /\ w.enter >= office.enter /\ w.enter >= now /\ w.leave = office.leave
  BY <1>3, WindowOpens
<1>5. w.enter \in Int
  BY <1>4 DEF Stretch
<1> HIDE DEF s
<1>6. /\ Cursor(s, w, k) \in Int /\ e \in Int /\ Gap(s, w, k) = e - Cursor(s, w, k)
      /\ Cursor(s, w, k) >= w.enter
  BY <1>2, <1>4, CursorIsLast DEF s
<1>7. e \in Whole /\ e <= office.leave
  <2>1. CASE k <= Len(s)
    <3>1. k \in 1 .. Len(s)
      BY <2>1 DEF s
    <3>2. s[k] \in L /\ s[k] \in Lasting /\ e = s[k].enter
      BY <1>2, <2>1, <3>1 DEF Range, GapEnd
    <3>3. s[k].enter \in Whole /\ s[k].leave <= office.leave
      BY <3>2
    <3>4. s[k].enter \in Int /\ s[k].leave \in Int /\ s[k].enter < s[k].leave
      BY <3>2 DEF Lasting, Stretch
    <3> QED
      BY <1>3, <3>2, <3>3, <3>4
  <2>2. CASE ~(k <= Len(s))
    BY <1>3, <1>4, <2>2 DEF GapEnd
  <2> QED
    BY <2>1, <2>2
<1> HIDE DEF e
<1>8. /\ Minute \in Nat /\ Minute > 1 /\ least * Minute \in Nat /\ least * Minute > 0
  <2>1. Minute \in Nat /\ Minute > 1
    BY MinutesAndHours
  <2>2. 0 * Minute = 0 /\ 0 * Minute + 1 < least * Minute
    BY <2>1, InMinutes
  <2> QED
    BY <2>1, <2>2
<1>9. /\ p \in Stretch /\ p.enter = e - least * Minute /\ p.leave = e /\ p.enter \in Int
      /\ p.enter < p.leave /\ Duration(p) = least * Minute
  BY <1>6, <1>8 DEF Stretch, Duration
<1>10. p.enter \in Whole
  <2>1. PICK i \in Int : e = i * Minute
    BY <1>7 DEF Whole
  <2>2. e - least * Minute = (i - least) * Minute /\ i - least \in Int
    BY <1>8, <2>1
  <2> QED
    BY <1>9, <2>2 DEF Whole
<1> HIDE DEF p
<1>11. p \in WholeMinutes
  BY <1>7, <1>9, <1>10 DEF WholeMinutes, Lasting
<1>12. p.enter >= Cursor(s, w, k)
  BY <1>6, <1>8, <1>9 DEF s
<1>13. ~OverlapsOneOf(p, L)
  <2>1. p.leave <= GapEnd(s, w, k)
    BY <1>6, <1>9 DEF e
  <2>2. \A j \in 1 .. Len(s) : ~Overlaps(p, s[j])
    BY <1>1, <1>4, <1>9, <1>12, <2>1, GapIsFree DEF s
  <2> QED
    BY <1>2, <2>2 DEF OverlapsOneOf, Range
<1>14. p.enter >= office.enter /\ p.leave <= office.leave /\ p.enter >= now
  BY <1>3, <1>4, <1>5, <1>6, <1>7, <1>9, <1>12
<1> QED
  BY <1>9, <1>11, <1>13, <1>14

\* For any desk, bookings, status of the answer and present: unless a slot is too short for the
\* organization or no duration is asked for, what is not shown as full can be booked.
THEOREM FreeIsBookableEverywhere ==
    ASSUME NEW d \in AnyDesk, d.office \in WholeMinutes, d.office.enter >= 0,
           NEW table \in SUBSET BookedMinutes, IsFiniteSet(table), NEW status, NEW now \in Int,
           isFixedSlotSpace(d) =>
               \A slot \in d.type.slots :
                  slot \in WholeMinutes /\ Duration(slot) >= d.minHours * Hour * Minute,
           ~isFixedSlotSpace(d) => getEffectiveMinimum(d) > 0,
           getEffectiveDayStatus(d, status, BookingsOfDay(table, d.office), now) # "full"
    PROVE  \E p \in WholeMinutes :
             /\ isFixedSlotSpace(d) => p \in d.type.slots
             /\ Offered(d, status, BookingsOfDay(table, d.office), now, p)
             /\ isValidBooking(d, table, now, AsSent(p))
<1> DEFINE L == BookingsOfDay(table, d.office)
           office == d.office
<1>1. /\ L \in SUBSET Lasting /\ IsFiniteSet(L)
      /\ \A c \in L : c.enter \in Whole /\ c.leave <= office.leave
  BY ListedLast
<1>2. /\ office \in Stretch /\ office.enter \in Int /\ office.leave \in Int /\ Minute \in Nat \ {0}
  BY MinutesAndHours, WholeMinutesLast
<1>3. table \in SUBSET Stretch
  BY WholeMinutesLast DEF BookedMinutes, Lasting
<1> SUFFICES \E p \in WholeMinutes :
               /\ isFixedSlotSpace(d) => p \in d.type.slots
               /\ Offered(d, status, L, now, p)
  <2> PICK p \in WholeMinutes : /\ isFixedSlotSpace(d) => p \in d.type.slots
                                /\ Offered(d, status, L, now, p)
    OBVIOUS
  <2>1. /\ p \in Stretch /\ p.enter \in Int /\ Duration(p) > 1
    BY WholeMinutesLast DEF Duration
  <2>2. p.enter >= office.enter
    BY DEF Offered, isRangeAllowed, isWithinOfficeHours
  <2>3. p.enter >= 0
    BY <1>2, <2>1, <2>2
  <2>4. isFixedSlotSpace(d) => Duration(p) >= d.minHours * Hour * Minute
    OBVIOUS
  <2> QED
    BY <1>3, <2>1, <2>3, <2>4, OfferedIsAcceptedEverywhere
<1>4. getEffectiveDayStatus(d, status, L, now) # "full"
  OBVIOUS
<1> HIDE DEF L, office
<1>5. CASE isFixedSlotSpace(d)
  <2>1. PICK p \in d.type.slots : p \in getAvailableFixedSlots(d, L, now) /\ isRangeAllowed(d, p, L, now)
    BY <1>4, <1>5 DEF getEffectiveDayStatus, getAvailableFixedSlots
  <2>2. p \in WholeMinutes
    BY <1>5
  <2>3. Duration(p) \in Nat /\ Duration(p) > 0
    BY <2>2, WholeMinutesLast DEF Duration
  <2>4. getEffectiveMinimum(d) = 0
    BY <1>5 DEF getEffectiveMinimum, isFixedSlotSpace
  <2>5. Duration(p) \div Minute >= getEffectiveMinimum(d)
    BY <1>2, <2>3, <2>4
  <2>6. Offered(d, status, L, now, p)
    BY <1>4, <2>1, <2>3, <2>5 DEF Offered
  <2> QED
    BY <1>5, <2>2, <2>6
<1>6. CASE ~isFixedSlotSpace(d)
  <2> DEFINE w == BookableWindow(d, now)
             least == getEffectiveMinimum(d)
  <2>1. least \in Nat /\ least > 0
    BY <1>6, MinimumIsEnough DEF isFixedSlotSpace
  <2>2. hasBookableTimeRange(d, L, least, now)
    BY <1>4, <1>6 DEF getEffectiveDayStatus
  <2>3. w = [office EXCEPT !.enter = Max({@, now})]
    BY DEF BookableWindow, office
  <2>4. PICK k \in 1 .. Len(ByEnter(L)) + 1 : Gap(ByEnter(L), w, k) >= least * Minute
    <3>1. Len(ByEnter(L)) \in Nat /\ DOMAIN ByEnter(L) = 1 .. Len(ByEnter(L))
      <4>1. ByEnter(L) \in Seq(Lasting)
        BY <1>1, Normalized DEF InEnterOrder
      <4> QED
        BY <4>1
    <3> HIDE DEF w, least
    <3> QED
      BY <2>2, <3>1 DEF hasBookableTimeRange, w
  <2> HIDE DEF w, least
  <2>5. office \in WholeMinutes
    BY DEF office
  <2>6. PICK p \in WholeMinutes :
           /\ p.enter >= office.enter /\ p.leave <= office.leave /\ p.enter >= now
           /\ Duration(p) = least * Minute /\ ~OverlapsOneOf(p, L)
    BY <1>1, <2>1, <2>3, <2>4, <2>5, LastOfGap
  <2>7. p.enter \in Int /\ p.leave \in Int /\ p.enter < p.leave /\ Duration(p) \in Nat /\ Duration(p) > 0
    BY WholeMinutesLast DEF Duration
  <2>8. Duration(p) \div Minute >= least
    <3>1. Duration(p) >= least * Minute
      BY <2>6, <2>7
    <3> QED
      BY <1>2, <2>1, <2>7, <3>1, WholeParts
  <2>9. isRangeAllowed(d, p, L, now)
    BY <1>2, <2>6, <2>7 DEF isRangeAllowed, isInBookableFuture, isWithinOfficeHours,
                            doesOverlapDayStatus, office
  <2>10. Offered(d, status, L, now, p)
    BY <1>4, <1>6, <2>7, <2>8, <2>9 DEF Offered, least
  <2> QED
    BY <1>6, <2>10
<1> QED
  BY <1>5, <1>6
-----------------------------------------------------------------------------
(* The desks of the instance.                                              *)

\* What can be picked lies on whole minutes, and all whole minutes of the office hours can be.
LEMMA PeriodsOnMinutes ==
    /\ Office \in WholeMinutes /\ Office.enter >= 0 /\ Periods \subseteq WholeMinutes
    /\ \A p \in WholeMinutes : p.enter >= Office.enter /\ p.leave <= Office.leave => p \in Periods
<1>1. Minute \in Nat /\ Minute > 1 /\ 1 * Minute = Minute /\ 5 * Minute \in Nat
  BY MinutesAndHours
<1>2. \A i \in Int : i * Minute \in Int /\ i * Minute \in Whole
  BY <1>1 DEF Whole
<1>3. Office \in WholeMinutes /\ Office.enter >= 0
  <2>1. Minute < 5 * Minute
    BY <1>1
  <2> QED
    BY <1>1, <1>2, <2>1 DEF Office, WholeMinutes, Lasting, Stretch
<1>4. ASSUME NEW p \in Periods PROVE p \in WholeMinutes
  <2>1. PICK i \in 0 .. 5, j \in 1 .. 6 : p = [enter |-> i * Minute, leave |-> j * Minute] /\ p.enter < p.leave
    BY DEF Periods
  <2>2. i * Minute \in Int /\ j * Minute \in Int /\ i * Minute \in Whole /\ j * Minute \in Whole
    BY <1>2
  <2> QED
    BY <2>1, <2>2 DEF WholeMinutes, Lasting, Stretch
<1>5. ASSUME NEW p \in WholeMinutes, p.enter >= Office.enter, p.leave <= Office.leave
      PROVE  p \in Periods
  <2>1. PICK i \in Int, j \in Int : p = [enter |-> i * Minute, leave |-> j * Minute]
    BY DEF WholeMinutes, Lasting, Stretch, Whole
  <2>2. 1 * Minute <= i * Minute + 1 /\ j * Minute <= 5 * Minute + 1
    <3>1. p.enter = i * Minute /\ p.leave = j * Minute /\ Office.enter = Minute /\ Office.leave = 5 * Minute
      BY <2>1 DEF Office
    <3> QED
      BY <1>1, <1>2, <1>5, <3>1
  <2>3. 1 <= i /\ j <= 5
    BY <2>2, OrderOfMinutes
  <2>4. p.enter < p.leave
    BY WholeMinutesLast DEF WholeMinutes, Lasting
  <2>5. ~(j <= i)
    <3>1. i * Minute < j * Minute
      BY <2>1, <2>4
    <3> QED
      BY <1>2, <3>1, InMinutes
  <2>6. i \in 0 .. 5 /\ j \in 1 .. 6
    BY <2>3, <2>5
  <2> QED
    BY <2>1, <2>4, <2>6 DEF Periods
<1> QED
  BY <1>3, <1>4, <1>5

\* The table holds bookings of whole minutes, and nobody asks in the future.
DayInv == desk # None =>
            /\ desk \in Desks
            /\ day \in [book : SUBSET BookedMinutes, asked : Int, now : Int]
            /\ IsFiniteSet(day.book) /\ day.asked <= day.now

LEMMA DayInvariant == Spec => []DayInv
<1> DEFINE Days == [book : SUBSET BookedMinutes, asked : Int, now : Int]
<1>1. ASSUME InitStays \/ InitSeries \/ InitDay PROVE DayInv
  <2>1. CASE InitDay
    BY <2>1, FS_EmptySet DEF InitDay, DayInv
  <2> QED
    BY <1>1, <2>1 DEF InitStays, InitSeries, DayInv
<1>2. ASSUME DayInv, [Reserve \/ Ask \/ Extend \/ BookDesk \/ Tick]_<<query, book, series, desk, day>>
      PROVE  DayInv'
  <2>1. CASE BookDesk
    <3>1. PICK p \in Periods : desk # None /\ desk' = desk /\ day' = [day EXCEPT !.book = @ \cup {AsSent(p)}]
      BY <2>1 DEF BookDesk
    <3>2. AsSent(p) \in BookedMinutes
      BY PeriodsOnMinutes DEF BookedMinutes
    <3>3. /\ desk \in Desks /\ day \in Days /\ IsFiniteSet(day.book) /\ day.asked <= day.now
      BY <1>2, <3>1 DEF DayInv
    <3>4. IsFiniteSet(day.book \cup {AsSent(p)})
      BY <3>3, FS_AddElement
    <3>5. PICK b : b = day.book \cup {AsSent(p)}
      OBVIOUS
    <3>6. b \in SUBSET BookedMinutes /\ IsFiniteSet(b) /\ day' = [day EXCEPT !.book = b]
      BY <3>1, <3>2, <3>3, <3>4, <3>5
    <3>7. /\ day' \in Days /\ day'.book = b /\ day'.asked = day.asked /\ day'.now = day.now
      BY <3>3, <3>6
    <3> QED
      BY <3>1, <3>3, <3>6, <3>7 DEF DayInv
  <2>2. CASE Tick
    <3>1. /\ desk # None /\ desk' = desk /\ desk \in Desks
          /\ day \in Days /\ IsFiniteSet(day.book) /\ day.asked <= day.now
      BY <1>2, <2>2 DEF Tick, DayInv
    <3>2. PICK n \in Int, a \in Int : n = day.now + 1 /\ a = day.asked + 1
      BY <3>1
    <3>3. day' = [day EXCEPT !.now = n] \/ day' = [day EXCEPT !.now = n, !.asked = a]
      BY <2>2, <3>2 DEF Tick
    <3>4. day.asked \in Int /\ day.now \in Int
      BY <3>1
    <3>5. ASSUME day' = [day EXCEPT !.now = n]
          PROVE  day' \in Days /\ day'.book = day.book /\ day'.asked <= day'.now
      BY <3>1, <3>2, <3>4, <3>5
    <3>6. ASSUME day' = [day EXCEPT !.now = n, !.asked = a]
          PROVE  day' \in Days /\ day'.book = day.book /\ day'.asked <= day'.now
      <4>1. day' \in Days
        BY <3>1, <3>6
      <4>2. day'.book = day.book /\ day'.asked = a /\ day'.now = n
        BY <3>1, <3>6
      <4>3. a <= n
        BY <3>1, <3>2, <3>4
      <4> QED
        BY <4>1, <4>2, <4>3
    <3> QED
      BY <3>1, <3>3, <3>5, <3>6 DEF DayInv
  <2>3. CASE UNCHANGED <<desk, day>>
    BY <1>2, <2>3 DEF DayInv
  <2> QED
    BY <1>2, <2>1, <2>2, <2>3 DEF Reserve, Ask, Extend
<1> QED
  BY <1>1, <1>2, PTL DEF Spec

\* The desks of the instance, and what can be picked at them.
LEMMA DesksOfAnyKind ==
    ASSUME NEW d \in Desks
    PROVE  /\ d \in AnyDesk /\ d.office = Office
           /\ isFixedSlotSpace(d) => d.type.slots \subseteq Periods
<1>1. /\ Minute \in Nat /\ Minute > 1
      /\ 0 * Minute = 0 /\ 1 * Minute = Minute /\ Minute < 2 * Minute /\ 2 * Minute < 3 * Minute
  BY MinutesAndHours
<1>2. TwoSlots \subseteq Periods
  <2>1. [enter |-> 0 * Minute, leave |-> 2 * Minute] \in Periods
    BY <1>1 DEF Periods
  <2>2. [enter |-> 2 * Minute, leave |-> 3 * Minute] \in Periods
    BY <1>1 DEF Periods
  <2> QED
    BY <1>1, <2>1, <2>2 DEF TwoSlots
<1>3. Periods \subseteq Stretch /\ Office \in Stretch
  BY PeriodsOnMinutes, WholeMinutesLast
<1>4. d.office = Office /\ d.minHours \in Nat /\ d.type \in DeskTypes
  BY DEF Desks
<1>5. CASE d.type \in [mode : {"none"}] \cup [mode : {"flexible_time"}, minDuration : {0, 1, 3}]
  <2>1. d.type \in AnyType /\ ~isFixedSlotSpace(d)
    BY <1>5 DEF AnyType, isFixedSlotSpace
  <2> QED
    BY <1>3, <1>4, <2>1 DEF Desks, AnyDesk
<1>6. CASE d.type \in [mode : {"fixed_slots"}, slots : {{p} : p \in Slots} \cup {TwoSlots}]
  <2>1. d.type.slots \subseteq Periods
    BY <1>2, <1>6 DEF Slots
  <2>2. d.type \in AnyType
    BY <1>3, <1>6, <2>1 DEF AnyType
  <2> QED
    BY <1>3, <1>4, <2>1, <2>2 DEF Desks, AnyDesk
<1> QED
  BY <1>4, <1>5, <1>6 DEF DeskTypes

\* In every behaviour of the instance, for any length of a minute and an hour and any number of
\* bookings, server and client agree on what can be booked: full is full, what is offered is
\* accepted, and what is free is bookable.
THEOREM DayStatusHolds == Spec => []DayStatusIsTrue
<1>1. DayInv => DayStatusIsTrue
  <2> SUFFICES ASSUME DayInv, desk # None PROVE DayStatusIsTrue
    BY DEF DayStatusIsTrue
  <2>1. /\ desk \in AnyDesk /\ desk.office = Office /\ Office \in WholeMinutes /\ Office.enter >= 0
        /\ isFixedSlotSpace(desk) => desk.type.slots \subseteq Periods
        /\ day.book \in SUBSET BookedMinutes /\ IsFiniteSet(day.book)
        /\ day.asked \in Int /\ day.now \in Int /\ day.asked <= day.now
    BY DesksOfAnyKind, PeriodsOnMinutes DEF DayInv
  <2>2. /\ \A p \in CanPick : p \in Periods /\ p \in WholeMinutes /\ Duration(p) \in Int
        /\ \A p \in CanPick : isFixedSlotSpace(desk) => p \in desk.type.slots
    <3>1. \A p \in CanPick : p \in Periods
      BY <2>1 DEF CanPick
    <3>2. \A p \in CanPick : isFixedSlotSpace(desk) => p \in desk.type.slots
      BY DEF CanPick
    <3>3. \A p \in WholeMinutes : Duration(p) \in Int
      BY WholeMinutesLast DEF Duration
    <3> QED
      BY <3>1, <3>2, <3>3, PeriodsOnMinutes
  <2>3. Listed = BookingsOfDay(day.book, desk.office)
    BY <2>1 DEF Listed
  <2>4. ~ShortSlots => \A p \in CanPick :
            isFixedSlotSpace(desk) => Duration(p) >= desk.minHours * Hour * Minute
    <3>1. desk.minHours * Hour * Minute \in Int
      BY <2>1, MinutesAndHours DEF AnyDesk
    <3> QED
      BY <2>2, <3>1 DEF ShortSlots
  <2>5. FullIsFull
    <3> SUFFICES ASSUME NEW p \in CanPick, CanBook(p, day.now) PROVE Shown(day.now) # "full"
      BY DEF FullIsFull
    <3> QED
      BY <2>1, <2>2, <2>3, FullIsFullEverywhere DEF CanBook, Shown, Status
  <2>6. ASSUME ~ShortSlots PROVE OfferedIsAccepted
    <3> SUFFICES ASSUME NEW p \in CanPick, Offered(desk, Status, Listed, day.now, p)
                 PROVE  CanBook(p, day.now)
      BY DEF OfferedIsAccepted
    <3>1. p \in Stretch /\ p.enter \in Int /\ Duration(p) > 1
      BY <2>2, WholeMinutesLast DEF Duration
    <3>2. p.enter >= 0
      <4>1. Office.enter \in Int
        BY <2>1, WholeMinutesLast
      <4>2. p.enter >= Office.enter
        BY <2>1 DEF Offered, isRangeAllowed, isWithinOfficeHours
      <4> QED
        BY <2>1, <3>1, <4>1, <4>2
    <3>3. day.book \in SUBSET Stretch
      BY <2>1, WholeMinutesLast DEF BookedMinutes, Lasting
    <3>4. isFixedSlotSpace(desk) => Duration(p) >= desk.minHours * Hour * Minute
      BY <2>4, <2>6
    <3>5. isValidBooking(desk, day.book, day.now, AsSent(p))
      BY <2>1, <2>3, <3>1, <3>2, <3>3, <3>4, OfferedIsAcceptedEverywhere
    <3> QED
      BY <3>5 DEF CanBook
  <2>7. ASSUME ~ShortSlots, ~AnyLength PROVE FreeIsBookable
    <3> SUFFICES ASSUME Shown(day.now) # "full"
                 PROVE  \E p \in CanPick : /\ CanBook(p, day.now)
                                           /\ Offered(desk, Status, Listed, day.now, p)
      BY DEF FreeIsBookable
    <3>1. isFixedSlotSpace(desk) =>
            \A slot \in desk.type.slots :
               slot \in WholeMinutes /\ Duration(slot) >= desk.minHours * Hour * Minute
      BY <2>2, <2>4, <2>7 DEF CanPick
    <3>2. ~isFixedSlotSpace(desk) => getEffectiveMinimum(desk) > 0
      <4>1. ~isFixedSlotSpace(desk) => getEffectiveMinimum(desk) \in Nat /\ getEffectiveMinimum(desk) # 0
        BY <2>1, <2>7, MinimumIsEnough DEF AnyLength, isFixedSlotSpace
      <4> QED
        BY <4>1
    <3>3. getEffectiveDayStatus(desk, Status, BookingsOfDay(day.book, desk.office), day.now) # "full"
      BY <2>3 DEF Shown
    <3>4. PICK p \in WholeMinutes :
             /\ isFixedSlotSpace(desk) => p \in desk.type.slots
             /\ Offered(desk, Status, BookingsOfDay(day.book, desk.office), day.now, p)
             /\ isValidBooking(desk, day.book, day.now, AsSent(p))
      BY <2>1, <3>1, <3>2, <3>3, FreeIsBookableEverywhere
    <3>5. p \in CanPick
      <4>1. p.enter >= Office.enter /\ p.leave <= Office.leave
        BY <2>1, <3>4 DEF Offered, isRangeAllowed, isWithinOfficeHours
      <4>2. p \in Periods
        BY <4>1, PeriodsOnMinutes
      <4> QED
        BY <3>4, <4>2 DEF CanPick
    <3> QED
      BY <2>3, <3>4, <3>5 DEF CanBook
  <2> QED
    BY <2>5, <2>6, <2>7 DEF DayStatusIsTrue
<1> QED
  BY <1>1, DayInvariant, PTL
=============================================================================

--------------------------- MODULE OperatorProofs ---------------------------
(***************************************************************************)
(* What the WHERE clauses of GetTimeRangeByUser and GetConflicts select,   *)
(* for stays of any length at any time; what the sampling of GetConcurrent *)
(* counts, for any finite table of them; and which days CreateBookings     *)
(* makes of a recurrence whose weekdays come in order, whenever it ends.   *)
(* Induction is by a least counterexample (LeastNatural).                  *)
(***************************************************************************)
EXTENDS Intervals, Cadence, FiniteSetTheorems, SequenceTheorems, WellFoundedInduction, TLAPS

\* The three cases of GetTimeRangeByUser select exactly the bookings that
\* GetConflicts would: no case is missing ("bigger than" is covered), and stays
\* that only meet at an end are not selected.
THEOREM UserRangeIsOverlapEverywhere ==
    ASSUME NEW q \in Interval, NEW b \in Interval
    PROVE  InUserRange(q, b) <=> Overlaps(q, b)
BY DEF Interval, InUserRange, Overlaps

\* GetConflicts selects a booking if and only if the two stays want one minute.
THEOREM ConflictIsSharedMinuteEverywhere ==
    ASSUME NEW q \in Interval, NEW b \in Interval
    PROVE  Overlaps(q, b) <=> ShareMinute(q, b)
<1> /\ q.enter \in Nat /\ q.leave \in Nat /\ q.enter < q.leave
    /\ b.enter \in Nat /\ b.leave \in Nat /\ b.enter < b.leave
  BY DEF Interval
<1>1. ASSUME Overlaps(q, b) PROVE ShareMinute(q, b)
  <2>1. CASE q.enter <= b.enter
    <3>1. b.enter \in Minutes(q) \cap Minutes(b)
      BY <1>1, <2>1 DEF Overlaps, Minutes
    <3> QED
      BY <3>1 DEF ShareMinute
  <2>2. CASE b.enter < q.enter
    <3>1. q.enter \in Minutes(q) \cap Minutes(b)
      BY <1>1, <2>2 DEF Overlaps, Minutes
    <3> QED
      BY <3>1 DEF ShareMinute
  <2> QED
    BY <2>1, <2>2
<1>2. ASSUME ShareMinute(q, b) PROVE Overlaps(q, b)
  BY <1>2 DEF ShareMinute, Minutes, Overlaps
<1> QED
  BY <1>1, <1>2

\* A booking that counts at a sampled instant of GetConcurrent occupies the
\* minute before and the minute after it: the sampling sees only overlaps of two
\* minutes or more.
THEOREM SampledLastsTwoMinutes ==
    ASSUME NEW b \in Interval, NEW t \in Nat, StrictlyInside(b, t)
    PROVE  {t - 1, t} \subseteq Minutes(b)
BY DEF Interval, StrictlyInside, Minutes
-----------------------------------------------------------------------------
(* The largest of some counts.                                             *)

LEMMA LeastNatural ==
    ASSUME NEW S \in SUBSET Nat, S # {}
    PROVE  \E m \in S : \A k \in S : m <= k
<1> DEFINE R == OpToRel(<, Nat)
<1>1. IsWellFoundedOn(R, Nat)
  BY NatLessThanWellFounded
<1>2. \A i, j \in Nat : <<i, j>> \in R <=> i < j
  BY DEF OpToRel
<1> HIDE DEF R
<1>3. PICK m \in S : \A k \in S : <<k, m>> \notin R
  BY <1>1, WFMin
<1>4. ASSUME NEW k \in S PROVE m <= k
  <2>1. m \in Nat /\ k \in Nat
    OBVIOUS
  <2>2. ~(k < m)
    BY <1>2, <1>3, <2>1
  <2> QED
    BY <2>1, <2>2
<1> QED
  BY <1>4

LEMMA MaxOfBounded ==
    ASSUME NEW S \in SUBSET Nat, S # {}, NEW n \in Nat, \A x \in S : x <= n
    PROVE  Max(S) \in S /\ \A x \in S : x <= Max(S)
<1> DEFINE Below == {n - x : x \in S}
<1>1. Below \in SUBSET Nat /\ Below # {}
  <2>1. \A x \in S : n - x \in Nat
    OBVIOUS
  <2> QED
    BY <2>1
<1>2. PICK m \in Below : \A k \in Below : m <= k
  BY <1>1, LeastNatural
<1>3. PICK x \in S : m = n - x
  OBVIOUS
<1>4. \A y \in S : x >= y
  <2> TAKE y \in S
  <2>1. n - x <= n - y
    BY <1>2, <1>3
  <2> QED
    BY <2>1
<1> QED
  BY <1>3, <1>4 DEF Max
\* What holds of 0, and of k + 1 if it holds of k, holds up to n.
LEMMA UpTo ==
    ASSUME NEW n \in Nat, NEW S, 0 \in S, \A k \in 0 .. n - 1 : k \in S => k + 1 \in S
    PROVE  0 .. n \subseteq S
<1> DEFINE Bad == (0 .. n) \ S
<1> SUFFICES ASSUME Bad # {} PROVE FALSE
  OBVIOUS
<1>1. Bad \in SUBSET Nat
  OBVIOUS
<1>2. PICK m \in Bad : \A k \in Bad : m <= k
  <2> HIDE DEF Bad
  <2> QED
    BY <1>1, LeastNatural
<1>3. m \in 1 .. n
  BY <1>2
<1>4. m - 1 \in 0 .. n - 1 /\ m - 1 \notin Bad
  <2>1. m - 1 \in 0 .. n - 1 /\ m - 1 \in Nat /\ ~(m <= m - 1)
    BY <1>3
  <2> QED
    BY <1>2, <2>1
<1>5. m - 1 \in S /\ (m - 1) + 1 = m
  BY <1>3, <1>4
<1> QED
  BY <1>2, <1>4, <1>5

\* A value at which a function on a finite set is largest.
LEMMA LargestExists ==
    ASSUME NEW S, IsFiniteSet(S), S # {}, NEW f \in [S -> Int]
    PROVE  \E x \in S : \A y \in S : f[y] <= f[x]
<1> DEFINE Largest(T) == \E x \in T : \A y \in T : f[y] <= f[x]
           Good == {n \in Nat : \A T \in SUBSET S : Cardinality(T) = n /\ T # {} => Largest(T)}
<1>1. \A T \in SUBSET S : IsFiniteSet(T)
  BY FS_Subset
<1>2. 0 \in Good
  BY <1>1, FS_EmptySet
<1>3. ASSUME NEW n \in Nat, n \in Good PROVE n + 1 \in Good
  <2> SUFFICES ASSUME NEW T \in SUBSET S, Cardinality(T) = n + 1, T # {} PROVE Largest(T)
    OBVIOUS
  <2>1. PICK z \in T : TRUE
    OBVIOUS
  <2> DEFINE U == T \ {z}
  <2>2. Cardinality(U) = n /\ U \in SUBSET S
    <3>1. Cardinality(U) = Cardinality(T) - 1
      BY <1>1, <2>1, FS_RemoveElement
    <3> QED
      BY <3>1
  <2>3. CASE U = {}
    <3>1. \A y \in T : y = z
      BY <2>3
    <3> QED
      BY <3>1
  <2>4. CASE U # {}
    <3>1. PICK x \in U : \A y \in U : f[y] <= f[x]
      BY <1>3, <2>2, <2>4
    <3>2. CASE f[z] <= f[x]
      <4>1. \A y \in T : f[y] <= f[x]
        BY <3>1, <3>2
      <4> QED
        BY <4>1
    <3>3. CASE f[x] <= f[z]
      <4>1. \A y \in T : f[y] <= f[z]
        <5> TAKE y \in T
        <5>1. f[x] \in Int /\ f[y] \in Int /\ f[z] \in Int
          OBVIOUS
        <5>2. y = z \/ f[y] <= f[x]
          BY <3>1
        <5> QED
          BY <3>3, <5>1, <5>2
      <4> QED
        BY <4>1
    <3>4. f[x] \in Int /\ f[z] \in Int
      OBVIOUS
    <3> QED
      BY <3>2, <3>3, <3>4
  <2> QED
    BY <2>3, <2>4
<1>4. Cardinality(S) \in Nat
  BY FS_CardinalityType
<1> HIDE DEF Good
<1>5. 0 .. Cardinality(S) \subseteq Good
  BY <1>2, <1>3, <1>4, UpTo
<1>6. Cardinality(S) \in Good
  BY <1>4, <1>5
<1> QED
  BY <1>6 DEF Good

\* A function that is defined by its step from k - 1 to k exists, and has the type of the step.
IsRecursion(g, n, x0, step) == \A k \in 0 .. n : g[k] = IF k = 0 THEN x0 ELSE step[k][g[k - 1]]

LEMMA RecursionExists ==
    ASSUME NEW n \in Nat, NEW X, NEW x0 \in X, NEW step \in [1 .. n -> [X -> X]]
    PROVE  \E g \in [0 .. n -> X] : IsRecursion(g, n, x0, step)
<1> DEFINE Is(g, m) == \A k \in 0 .. m : g[k] = IF k = 0 THEN x0 ELSE step[k][g[k - 1]]
           Good == {m \in 0 .. n : \E g \in [0 .. m -> X] : Is(g, m)}
<1>1. 0 \in Good
  <2> DEFINE g == [k \in 0 .. 0 |-> x0]
  <2>1. g \in [0 .. 0 -> X] /\ Is(g, 0)
    OBVIOUS
  <2> HIDE DEF g, Is
  <2>2. 0 \in 0 .. n
    OBVIOUS
  <2> QED
    BY <2>1, <2>2
<1>2. ASSUME NEW m \in 0 .. n - 1, m \in Good PROVE m + 1 \in Good
  <2>1. PICK g \in [0 .. m -> X] : Is(g, m)
    BY <1>2
  <2> DEFINE h == [k \in 0 .. m + 1 |-> IF k = m + 1 THEN step[m + 1][g[m]] ELSE g[k]]
  <2>2. m + 1 \in 1 .. n /\ g[m] \in X /\ \A k \in 0 .. m + 1 : k = m + 1 \/ k \in 0 .. m
    OBVIOUS
  <2>3. step[m + 1][g[m]] \in X
    BY <2>2
  <2>4. h \in [0 .. m + 1 -> X]
    BY <2>2, <2>3
  <2>5. h[m + 1] = step[m + 1][g[m]] /\ \A k \in 0 .. m : h[k] = g[k]
    BY <2>2
  <2> HIDE DEF h
  <2>6. ASSUME NEW k \in 0 .. m + 1 PROVE h[k] = IF k = 0 THEN x0 ELSE step[k][h[k - 1]]
    <3>1. CASE k = m + 1
      <4>1. k - 1 = m /\ k # 0 /\ m \in 0 .. m
        BY <3>1
      <4> QED
        BY <2>5, <3>1, <4>1
    <3>2. CASE k \in 0 .. m
      <4>1. k = 0 \/ k - 1 \in 0 .. m
        BY <3>2
      <4> QED
        BY <2>1, <2>5, <3>2, <4>1
    <3> QED
      BY <2>2, <3>1, <3>2
  <2>7. Is(h, m + 1)
    BY <2>6
  <2>8. m + 1 \in 0 .. n
    OBVIOUS
  <2> HIDE DEF Is
  <2> QED
    BY <2>4, <2>7, <2>8
<1> HIDE DEF Good
<1>3. 0 .. n \subseteq Good
  BY <1>1, <1>2, UpTo
<1>4. n \in Good
  BY <1>3
<1> QED
  BY <1>4 DEF Good, IsRecursion
-----------------------------------------------------------------------------
(* GetConcurrent.                                                          *)

LEMMA CountedMore ==
    ASSUME NEW S, IsFiniteSet(S), NEW T \in SUBSET S
    PROVE  Cardinality(T) \in Nat /\ Cardinality(S) \in Nat /\ Cardinality(T) <= Cardinality(S)
BY FS_Subset, FS_CardinalityType

IsTable(book) == IsFiniteSet(DOMAIN book) /\ \A b \in DOMAIN book : book[b] \in Interval

\* What is active at an instant of the stay asked for is among the selected bookings.
LEMMA ActiveIsSelected ==
    ASSUME NEW q \in Interval, NEW b \in Interval, NEW t \in q.enter .. q.leave, StrictlyInside(b, t)
    PROVE  Touches(q, b)
BY DEF Interval, StrictlyInside, Touches

\* GetConcurrent is the number of bookings at one of the instants of the stay, and no less
\* than that of any other.
LEMMA ConcurrentIsLargest ==
    ASSUME NEW q \in Interval, NEW book, IsTable(book)
    PROVE  /\ \E t \in q.enter .. q.leave : Concurrent(q, book) = NumActive(book, DOMAIN book, t)
           /\ \A t \in q.enter .. q.leave : NumActive(book, DOMAIN book, t) <= Concurrent(q, book)
           /\ Concurrent(q, book) \in Nat
<1> DEFINE selected == {b \in DOMAIN book : Touches(q, book[b])}
           counts == {NumActive(book, selected, t) : t \in q.enter .. q.leave}
<1>1. q.enter \in Nat /\ q.leave \in Nat /\ q.enter < q.leave
  BY DEF Interval
<1>2. \A t \in q.enter .. q.leave : NumActive(book, selected, t) = NumActive(book, DOMAIN book, t)
  <2> TAKE t \in q.enter .. q.leave
  <2>1. {b \in selected : StrictlyInside(book[b], t)} = {b \in DOMAIN book : StrictlyInside(book[b], t)}
    BY ActiveIsSelected DEF IsTable
  <2> QED
    BY <2>1 DEF NumActive
<1>3. \A t \in q.enter .. q.leave :
         /\ NumActive(book, selected, t) \in Nat
         /\ NumActive(book, selected, t) <= Cardinality(DOMAIN book)
  BY CountedMore DEF IsTable, NumActive
<1>4. Cardinality(DOMAIN book) \in Nat
  BY FS_CardinalityType DEF IsTable
<1>5. counts \in SUBSET Nat /\ counts # {}
  <2> HIDE DEF selected
  <2>1. counts \in SUBSET Nat
    BY <1>3
  <2>2. NumActive(book, selected, q.enter) \in counts
    BY <1>1
  <2> QED
    BY <2>1, <2>2
<1>6. Max(counts) \in counts /\ \A x \in counts : x <= Max(counts)
  <2> HIDE DEF counts
  <2>1. \A x \in counts : x <= Cardinality(DOMAIN book)
    BY <1>3 DEF counts
  <2> QED
    BY <1>4, <1>5, <2>1, MaxOfBounded
<1>7. Concurrent(q, book) = Max(counts)
  BY DEF Concurrent
<1> HIDE DEF selected
<1> QED
  BY <1>2, <1>5, <1>6, <1>7

\* Peak, likewise, over the minutes of the stay.
LEMMA PeakIsLargest ==
    ASSUME NEW q \in Interval, NEW book, IsTable(book)
    PROVE  LET During(k) == Cardinality({b \in DOMAIN book : k \in Minutes(book[b])})
           IN  /\ \E k \in Minutes(q) : Peak(q, book) = During(k)
               /\ \A k \in Minutes(q) : During(k) <= Peak(q, book)
               /\ Peak(q, book) \in Nat
<1> DEFINE During(k) == Cardinality({b \in DOMAIN book : k \in Minutes(book[b])})
           counts == {During(k) : k \in Minutes(q)}
<1>1. q.enter \in Minutes(q)
  BY DEF Interval, Minutes
<1>2. \A k \in Minutes(q) : During(k) \in Nat /\ During(k) <= Cardinality(DOMAIN book)
  BY CountedMore DEF IsTable
<1>3. Cardinality(DOMAIN book) \in Nat
  BY FS_CardinalityType DEF IsTable
<1> HIDE DEF During
<1>4. counts \in SUBSET Nat /\ counts # {}
  BY <1>1, <1>2
<1>5. Max(counts) \in counts /\ \A x \in counts : x <= Max(counts)
  <2>1. \A x \in counts : x <= Cardinality(DOMAIN book)
    BY <1>2
  <2> HIDE DEF counts
  <2> QED
    BY <1>3, <1>4, <2>1, MaxOfBounded
<1>6. Peak(q, book) = Max(counts)
  BY DEF Peak, During
<1>7. /\ \E k \in Minutes(q) : Peak(q, book) = During(k)
      /\ \A k \in Minutes(q) : During(k) <= Peak(q, book)
      /\ Peak(q, book) \in Nat
  BY <1>4, <1>5, <1>6
<1> QED
  BY <1>7 DEF During

\* On a grid of two minutes, a stay takes a minute exactly if it is active at the instant
\* in the middle of the two that the minute belongs to.
OnGrid(i) == i.enter % 2 = 0 /\ i.leave % 2 = 0
Middle(k) == 2 * (k \div 2) + 1

LEMMA MiddleIsInside ==
    ASSUME NEW i \in Interval, OnGrid(i), NEW k \in Nat
    PROVE  /\ k \in Minutes(i) <=> StrictlyInside(i, Middle(k))
           /\ k \in Minutes(i) => Middle(k) \in i.enter .. i.leave
BY DEF Interval, OnGrid, Minutes, StrictlyInside, Middle

\* The sampling never counts more bookings than there are at some minute of the stay.
THEOREM SamplingCountsNoMore ==
    ASSUME NEW q \in Interval, NEW book, IsTable(book)
    PROVE  Concurrent(q, book) <= Peak(q, book)
<1> DEFINE During(k) == Cardinality({b \in DOMAIN book : k \in Minutes(book[b])})
<1>1. PICK t \in q.enter .. q.leave : Concurrent(q, book) = NumActive(book, DOMAIN book, t)
  BY ConcurrentIsLargest
<1>2. t \in Nat /\ q.enter \in Nat /\ q.leave \in Nat /\ q.enter < q.leave
  BY DEF Interval
<1>3. PICK k \in Minutes(q) : k \in {t, t - 1}
  <2>1. CASE t < q.leave
    BY <1>2, <2>1 DEF Minutes
  <2>2. CASE t = q.leave
    BY <1>2, <2>2 DEF Minutes
  <2> QED
    BY <1>2, <2>1, <2>2
<1>4. {b \in DOMAIN book : StrictlyInside(book[b], t)} \subseteq {b \in DOMAIN book : k \in Minutes(book[b])}
  BY <1>2, <1>3, SampledLastsTwoMinutes DEF IsTable
<1>5. NumActive(book, DOMAIN book, t) <= During(k) /\ During(k) \in Nat
      /\ NumActive(book, DOMAIN book, t) \in Nat
  <2>1. IsFiniteSet({b \in DOMAIN book : k \in Minutes(book[b])})
    BY FS_Subset DEF IsTable
  <2> QED
    BY <1>4, <2>1, CountedMore DEF NumActive
<1>6. During(k) <= Peak(q, book) /\ Peak(q, book) \in Nat
  BY PeakIsLargest
<1> HIDE DEF During
<1> QED
  BY <1>1, <1>5, <1>6

\* Where all stays lie on a grid of two minutes or more, it misses none.
THEOREM SamplingIsExactOnGrid ==
    ASSUME NEW q \in Interval, NEW book, IsTable(book),
           OnGrid(q), \A b \in DOMAIN book : OnGrid(book[b])
    PROVE  Concurrent(q, book) = Peak(q, book)
<1> DEFINE During(k) == Cardinality({b \in DOMAIN book : k \in Minutes(book[b])})
<1>1. PICK k \in Minutes(q) : Peak(q, book) = During(k)
  BY PeakIsLargest
<1>2. k \in Nat
  BY DEF Minutes, Interval
<1>3. {b \in DOMAIN book : k \in Minutes(book[b])} = {b \in DOMAIN book : StrictlyInside(book[b], Middle(k))}
  BY <1>2, MiddleIsInside DEF IsTable
<1>4. Middle(k) \in q.enter .. q.leave
  BY <1>2, MiddleIsInside
<1>5. Peak(q, book) = NumActive(book, DOMAIN book, Middle(k))
  BY <1>1, <1>3 DEF NumActive
<1>6. Peak(q, book) <= Concurrent(q, book)
  BY <1>4, <1>5, ConcurrentIsLargest
<1>7. Concurrent(q, book) <= Peak(q, book) /\ Concurrent(q, book) \in Nat /\ Peak(q, book) \in Nat
  BY SamplingCountsNoMore, ConcurrentIsLargest, PeakIsLargest
<1> QED
  BY <1>6, <1>7
-----------------------------------------------------------------------------

(* getNextBookingTime.                                                     *)

\* A recurrence whose weekdays come in order, as the tests of the code send them.
InOrder(e) == e \in Recurrence /\ Increasing(e.weekdays)

\* slices.Index finds a weekday that is in the list.
LEMMA IndexFound ==
    ASSUME NEW s \in Seq(0 .. 6), Increasing(s), NEW x \in Range(s)
    PROVE  Index(s, x) \in DOMAIN s /\ s[Index(s, x)] = x
<1>1. PICK i \in DOMAIN s : s[i] = x
  BY DEF Range
<1>2. \A j \in 1 .. i - 1 : s[j] # x
  BY <1>1 DEF Increasing
<1>3. \E k \in DOMAIN s : s[k] = x /\ \A j \in 1 .. k - 1 : s[j] # x
  BY <1>1, <1>2
<1> QED
  BY <1>3 DEF Index

\* The days from the last weekday of a week, and from any other.
LEMMA NextWeekArithmetic ==
    ASSUME NEW d \in Nat, NEW a \in 0 .. 6, NEW b \in 0 .. 6, NEW c \in Nat \ {0}
    PROVE  LET n == d + 7 - a + b + 7 * (c - 1)
           IN  n \in Nat /\ n > d /\ (a = d % 7 => n % 7 = b)
OBVIOUS

LEMMA SameWeekArithmetic ==
    ASSUME NEW d \in Nat, NEW a \in 0 .. 6, NEW b \in 0 .. 6
    PROVE  LET n == d + b - a
           IN  (a < b => n \in Nat /\ n > d) /\ (a = d % 7 => n % 7 = b)
OBVIOUS

\* CreateBookings ends: from an occurrence, the next one is at least a day later.
THEOREM NextIsLater ==
    ASSUME NEW e, InOrder(e), NEW d \in Nat,
           e.cadence = "weekly" => Weekday(d) \in Range(e.weekdays)
    PROVE  GetNextBookingTime(e, d) \in Nat /\ GetNextBookingTime(e, d) > d
<1>1. e.cycle \in Nat \ {0} /\ e.weekdays \in Seq(0 .. 6) /\ e.cadence \in {"daily", "weekly"}
  BY DEF InOrder, Recurrence
<1>2. CASE e.cadence = "daily"
  BY <1>1, <1>2 DEF GetNextBookingTime
<1>3. CASE e.cadence = "weekly"
  <2> DEFINE w == e.weekdays
             i == Index(w, Weekday(d))
  <2>1. i \in 1 .. Len(w)
    BY <1>1, <1>3, IndexFound DEF InOrder
  <2>2. w[1] \in 0 .. 6 /\ w[i] \in 0 .. 6 /\ (i # Len(w) => w[i + 1] \in 0 .. 6)
    BY <1>1, <2>1
  <2>3. CASE i = Len(w)
    <3> DEFINE a == w[i]
               b == w[1]
               c == e.cycle
    <3>1. GetNextBookingTime(e, d) = d + 7 - a + b + 7 * (c - 1)
      BY <1>3, <2>3 DEF GetNextBookingTime
    <3>2. a \in 0 .. 6 /\ b \in 0 .. 6 /\ c \in Nat \ {0}
      BY <1>1, <2>2
    <3> HIDE DEF a, b, c
    <3> QED
      BY <3>1, <3>2, NextWeekArithmetic
  <2>4. CASE i # Len(w)
    <3>1. GetNextBookingTime(e, d) = d + w[i + 1] - w[i]
      BY <1>3, <2>4 DEF GetNextBookingTime
    <3>2. w[i] < w[i + 1]
      BY <1>1, <2>1, <2>4 DEF InOrder, Increasing
    <3> HIDE DEF w, i
    <3> QED
      BY <2>2, <2>4, <3>1, <3>2, SameWeekArithmetic
  <2> QED
    BY <2>3, <2>4
<1> QED
  BY <1>1, <1>2, <1>3

\* From a weekday asked for, a weekly series goes to a weekday asked for.
THEOREM NextIsAWeekdayOfTheList ==
    ASSUME NEW e, InOrder(e), e.cadence = "weekly", NEW d \in Nat,
           Weekday(d) \in Range(e.weekdays)
    PROVE  Weekday(GetNextBookingTime(e, d)) \in Range(e.weekdays)
<1>1. e.cycle \in Nat \ {0} /\ e.weekdays \in Seq(0 .. 6)
  BY DEF InOrder, Recurrence
<1> DEFINE w == e.weekdays
           i == Index(w, Weekday(d))
<1>2. i \in 1 .. Len(w) /\ w[i] = d % 7
  BY <1>1, IndexFound DEF InOrder, Weekday
<1>3. w[1] \in 0 .. 6 /\ w[i] \in 0 .. 6 /\ (i # Len(w) => w[i + 1] \in 0 .. 6)
  BY <1>1, <1>2
<1>4. w[1] \in Range(w) /\ (i # Len(w) => w[i + 1] \in Range(w))
  BY <1>1, <1>2 DEF Range
<1>5. CASE i = Len(w)
  <2> DEFINE a == w[i]
             b == w[1]
             c == e.cycle
  <2>1. GetNextBookingTime(e, d) = d + 7 - a + b + 7 * (c - 1)
    BY <1>5 DEF GetNextBookingTime
  <2>2. a \in 0 .. 6 /\ b \in 0 .. 6 /\ c \in Nat \ {0} /\ a = d % 7
    BY <1>1, <1>2, <1>3
  <2> HIDE DEF a, b, c
  <2>3. GetNextBookingTime(e, d) % 7 = b
    BY <2>1, <2>2, NextWeekArithmetic
  <2> QED
    BY <1>4, <2>3 DEF Weekday, b
<1>6. CASE i # Len(w)
  <2>1. GetNextBookingTime(e, d) = d + w[i + 1] - w[i]
    BY <1>6 DEF GetNextBookingTime
  <2> HIDE DEF w, i
  <2>2. GetNextBookingTime(e, d) % 7 = w[i + 1]
    BY <1>2, <1>3, <1>6, <2>1, SameWeekArithmetic
  <2> QED
    BY <1>4, <1>6, <2>2 DEF Weekday, w
<1> QED
  BY <1>5, <1>6
-----------------------------------------------------------------------------
(* CreateBookings: the days a recurrence names.                            *)

OnSchedule(e, d) ==
    IF e.cadence = "daily" THEN (d - e.enter) % e.cycle = 0
    ELSE /\ Weekday(d) \in Range(e.weekdays)
         /\ ((d \div 7) - (FirstDay(e) \div 7)) % e.cycle = 0

LEMMA MinOfNat ==
    ASSUME NEW S \in SUBSET Nat, S # {}
    PROVE  Min(S) \in S /\ \A x \in S : Min(S) <= x
BY LeastNatural DEF Min

LEMMA Remainder ==
    ASSUME NEW c \in Nat \ {0}, NEW q \in Int, NEW y \in 0 .. c - 1
    PROVE  ((c * q) + y) % c = y
<1>1. c * q \in Int /\ (c * q) + y \in Int
  OBVIOUS
<1> QED
  BY <1>1

LEMMA NextMultiple ==
    ASSUME NEW z \in Int, NEW c \in Nat \ {0}, z % c = 0
    PROVE  (z + c) % c = 0 /\ \A y \in 1 .. c - 1 : (z + y) % c # 0
<1> DEFINE q == z \div c
<1>1. q \in Int /\ z = c * q
  <2>1. z = (c * (z \div c)) + (z % c) /\ z \div c \in Int
    OBVIOUS
  <2>2. c * (z \div c) \in Int
    BY <2>1
  <2> QED
    BY <2>1, <2>2
<1> HIDE DEF q
<1>2. z + c = (c * (q + 1)) + 0 /\ q + 1 \in Int
  BY <1>1
<1>3. (z + c) % c = 0
  BY <1>2, Remainder
<1>4. ASSUME NEW y \in 1 .. c - 1 PROVE (z + y) % c # 0
  <2>1. (z + y) % c = y
    BY <1>1, Remainder
  <2>2. y # 0
    OBVIOUS
  <2> QED
    BY <2>1, <2>2
<1> QED
  BY <1>3, <1>4

\* The weeks of a day and of the next one: after the last weekday of a week, and after
\* any other.
LEMMA LaterWeek ==
    ASSUME NEW d \in Nat, NEW a \in 0 .. 6, a = d % 7, NEW b \in 0 .. 6, NEW c \in Nat \ {0},
           NEW n, n = d + 7 - a + b + 7 * (c - 1)
    PROVE  /\ n \div 7 = (d \div 7) + c
           /\ \A x \in d + 1 .. n - 1 :
                \/ x \div 7 = d \div 7 /\ x % 7 > a
                \/ (x \div 7) - (d \div 7) \in 1 .. c - 1
                \/ x \div 7 = (d \div 7) + c /\ x % 7 < b
<1>1. d = 7 * (d \div 7) + a /\ d \div 7 \in Nat
  OBVIOUS
<1>2. \A x \in Nat : x = 7 * (x \div 7) + (x % 7) /\ x % 7 \in 0 .. 6 /\ x \div 7 \in Nat
  OBVIOUS
<1> QED
  BY <1>1, <1>2

LEMMA SameWeek ==
    ASSUME NEW d \in Nat, NEW a \in 0 .. 6, a = d % 7, NEW b \in a + 1 .. 6, NEW n, n = d + b - a
    PROVE  /\ n \div 7 = d \div 7
           /\ \A x \in d + 1 .. n - 1 : x % 7 \in a + 1 .. b - 1
<1>1. d = 7 * (d \div 7) + a /\ d \div 7 \in Nat
  OBVIOUS
<1>2. \A x \in Nat : x = 7 * (x \div 7) + (x % 7) /\ x % 7 \in 0 .. 6 /\ x \div 7 \in Nat
  OBVIOUS
<1> QED
  BY <1>1, <1>2

\* The loop over the first seven days finds a day for a recurrence that names one.
NamesADay(e) == e.cadence = "weekly" => e.weekdays # <<>>

LEMMA FirstDayIsFirst ==
    ASSUME NEW e, InOrder(e), NamesADay(e)
    PROVE  /\ FirstDay(e) \in Candidates(e) /\ FirstDay(e) >= e.enter
           /\ OnSchedule(e, FirstDay(e))
           /\ \A x \in e.enter .. FirstDay(e) - 1 : ~OnSchedule(e, x)
<1>1. /\ e.enter \in Nat /\ e.cycle \in Nat \ {0} /\ e.weekdays \in Seq(0 .. 6)
      /\ e.cadence \in {"daily", "weekly"}
  BY DEF InOrder, Recurrence
<1>2. CASE e.cadence = "daily"
  <2>1. FirstDay(e) = e.enter
    BY <1>2 DEF FirstDay
  <2>2. (e.enter - e.enter) % e.cycle = 0
    BY <1>1
  <2> QED
    BY <1>1, <1>2, <2>1, <2>2 DEF Candidates, OnSchedule
<1>3. CASE e.cadence = "weekly"
  <2> DEFINE S == {d \in e.enter .. e.enter + 6 : Weekday(d) \in Range(e.weekdays)}
  <2>1. S # {}
    <3>1. 1 \in DOMAIN e.weekdays /\ e.weekdays[1] \in 0 .. 6
      BY <1>1, <1>3 DEF NamesADay
    <3>2. e.weekdays[1] \in Range(e.weekdays)
      BY <3>1 DEF Range
    <3>3. PICK d \in e.enter .. e.enter + 6 : d % 7 = e.weekdays[1]
      <4> DEFINE shift == (e.weekdays[1] - e.enter) % 7
      <4>1. shift \in 0 .. 6 /\ (e.enter + shift) % 7 = e.weekdays[1]
        <5>1. \A a \in Nat, b \in 0 .. 6 : (b - a) % 7 \in 0 .. 6 /\ (a + ((b - a) % 7)) % 7 = b
          OBVIOUS
        <5> QED
          BY <1>1, <3>1, <5>1
      <4> HIDE DEF shift
      <4>2. e.enter + shift \in e.enter .. e.enter + 6
        BY <1>1, <4>1
      <4> QED
        BY <4>1, <4>2
    <3> QED
      BY <3>2, <3>3 DEF Weekday
  <2>2. S \in SUBSET Nat
    BY <1>1
  <2>3. FirstDay(e) = Min(S)
    BY <1>3 DEF FirstDay
  <2>4. FirstDay(e) \in S /\ \A x \in S : FirstDay(e) <= x
    <3> HIDE DEF S
    <3> QED
      BY <2>1, <2>2, <2>3, MinOfNat
  <2>5. FirstDay(e) \in Nat /\ FirstDay(e) >= e.enter /\ FirstDay(e) <= e.enter + 6
    BY <1>1, <2>4
  <2>6. ASSUME NEW x \in e.enter .. FirstDay(e) - 1 PROVE ~OnSchedule(e, x)
    <3>1. x \in e.enter .. e.enter + 6 /\ x < FirstDay(e) /\ x \in Nat
      BY <1>1, <2>5
    <3>2. x \notin S
      BY <2>4, <2>5, <3>1
    <3> QED
      BY <1>3, <3>1, <3>2 DEF OnSchedule
  <2>7. ((FirstDay(e) \div 7) - (FirstDay(e) \div 7)) % e.cycle = 0
    <3>1. FirstDay(e) \div 7 \in Int
      BY <2>5
    <3> QED
      BY <1>1, <3>1
  <2> QED
    BY <1>3, <2>4, <2>5, <2>6, <2>7 DEF Candidates, OnSchedule
<1> QED
  BY <1>1, <1>2, <1>3

\* No day between is skipped.
LEMMA NextDayOnSchedule ==
    ASSUME NEW e, InOrder(e), NamesADay(e), NEW d \in Candidates(e), OnSchedule(e, d)
    PROVE  LET n == GetNextBookingTime(e, d)
           IN  /\ n \in Candidates(e) /\ n > d
               /\ OnSchedule(e, n)
               /\ \A x \in d + 1 .. n - 1 : ~OnSchedule(e, x)
<1> DEFINE n == GetNextBookingTime(e, d)
<1>1. /\ e.enter \in Nat /\ e.cycle \in Nat \ {0} /\ e.weekdays \in Seq(0 .. 6)
      /\ e.cadence \in {"daily", "weekly"} /\ d \in Nat
      /\ e.cadence = "weekly" => Weekday(d) \in Range(e.weekdays)
  BY DEF InOrder, Recurrence, Candidates
<1>2. n \in Nat /\ n > d
  BY <1>1, NextIsLater
<1>3. CASE e.cadence = "daily"
  <2>1. n = d + e.cycle
    BY <1>3 DEF GetNextBookingTime
  <2> HIDE DEF n
  <2>2. (d - e.enter) % e.cycle = 0 /\ d - e.enter \in Int
    BY <1>1, <1>3 DEF OnSchedule
  <2>3. /\ ((d - e.enter) + e.cycle) % e.cycle = 0
        /\ \A y \in 1 .. e.cycle - 1 : ((d - e.enter) + y) % e.cycle # 0
    BY <1>1, <2>2, NextMultiple
  <2>4. n - e.enter = (d - e.enter) + e.cycle
    BY <1>1, <2>1
  <2>5. ASSUME NEW x \in d + 1 .. n - 1 PROVE ~OnSchedule(e, x)
    <3>1. x - d \in 1 .. e.cycle - 1 /\ x - e.enter = (d - e.enter) + (x - d)
      <4>1. \A a, b \in Nat, c \in Nat \ {0} : \A y \in b + 1 .. (b + c) - 1 :
               y - b \in 1 .. c - 1 /\ y - a = (b - a) + (y - b)
        OBVIOUS
      <4> QED
        BY <1>1, <2>1, <4>1
    <3>2. (x - e.enter) % e.cycle # 0
      BY <2>3, <3>1
    <3> QED
      BY <1>3, <3>2 DEF OnSchedule
  <2> QED
    BY <1>2, <1>3, <2>3, <2>4, <2>5 DEF Candidates, OnSchedule, n
<1>4. CASE e.cadence = "weekly"
  <2> DEFINE w == e.weekdays
             i == Index(w, Weekday(d))
             first == FirstDay(e) \div 7
  <2>1. i \in 1 .. Len(w) /\ w[i] = d % 7
    BY <1>1, <1>4, IndexFound DEF InOrder, Weekday
  <2>2. /\ w[1] \in 0 .. 6 /\ w[i] \in 0 .. 6 /\ (i # Len(w) => w[i + 1] \in 0 .. 6)
        /\ w \in Seq(0 .. 6)
    BY <1>1, <2>1
  <2>3. \A j, k \in 1 .. Len(w) : j < k => w[j] < w[k]
    BY <1>1 DEF InOrder, Increasing
  <2>4. \A v \in Range(w) : \E j \in 1 .. Len(w) : v = w[j]
    BY <1>1 DEF Range
  <2>5. ((d \div 7) - first) % e.cycle = 0 /\ d \div 7 \in Int /\ first \in Int
    <3>1. FirstDay(e) \in Nat
      BY FirstDayIsFirst DEF Candidates
    <3> QED
      BY <1>1, <1>4, <3>1 DEF OnSchedule
  <2>6. Weekday(n) \in Range(w)
    BY <1>1, <1>4, NextIsAWeekdayOfTheList
  <2>7. n \in Candidates(e)
    BY <1>2, <2>6 DEF Candidates
  <2> HIDE DEF first
  <2>8. CASE i = Len(w)
    <3> DEFINE a == w[i]
               b == w[1]
               c == e.cycle
    <3>1. n = d + 7 - a + b + 7 * (c - 1)
      BY <1>4, <2>8 DEF GetNextBookingTime
    <3>2. a \in 0 .. 6 /\ b \in 0 .. 6 /\ c \in Nat \ {0} /\ a = d % 7
      BY <1>1, <2>1, <2>2
    <3>3. \A v \in Range(w) : v \in 0 .. 6 /\ b <= v /\ v <= a
      <4> SUFFICES ASSUME NEW j \in 1 .. Len(w) PROVE w[j] \in 0 .. 6 /\ w[1] <= w[j] /\ w[j] <= w[i]
        BY <2>4
      <4>1. w[j] \in 0 .. 6 /\ w[1] \in 0 .. 6 /\ w[i] \in 0 .. 6
        BY <2>2
      <4>2. (j = 1 \/ w[1] < w[j]) /\ (j = Len(w) \/ w[j] < w[Len(w)])
        BY <2>1, <2>3
      <4> QED
        BY <2>8, <4>1, <4>2
    <3> HIDE DEF a, b, c, n, w, i
    <3>4. /\ n \div 7 = (d \div 7) + c
          /\ \A x \in d + 1 .. n - 1 :
               \/ x \div 7 = d \div 7 /\ x % 7 > a
               \/ (x \div 7) - (d \div 7) \in 1 .. c - 1
               \/ x \div 7 = (d \div 7) + c /\ x % 7 < b
      BY <1>1, <3>1, <3>2, LaterWeek
    <3>5. /\ (((d \div 7) - first) + c) % c = 0
          /\ \A y \in 1 .. c - 1 : (((d \div 7) - first) + y) % c # 0
      <4>1. (d \div 7) - first \in Int /\ ((d \div 7) - first) % c = 0
        BY <2>5 DEF c
      <4> QED
        BY <3>2, <4>1, NextMultiple
    <3>6. ((n \div 7) - first) % c = 0
      <4>1. (n \div 7) - first = ((d \div 7) - first) + c
        BY <2>5, <3>2, <3>4
      <4> QED
        BY <3>5, <4>1
    <3>7. ASSUME NEW x \in d + 1 .. n - 1 PROVE ~OnSchedule(e, x)
      <4>1. CASE (x \div 7) - (d \div 7) \in 1 .. c - 1
        <5>1. x \div 7 \in Int
          BY <1>1, <1>2
        <5>2. (x \div 7) - first = ((d \div 7) - first) + ((x \div 7) - (d \div 7))
          BY <2>5, <5>1
        <5>3. ((x \div 7) - first) % c # 0
          BY <3>5, <4>1, <5>2
        <5> QED
          BY <1>4, <5>3 DEF OnSchedule, first, c
      <4>2. CASE x % 7 > a \/ x % 7 < b
        <5>1. x % 7 \in 0 .. 6
          BY <1>1, <1>2
        <5>2. x % 7 \notin Range(w)
          BY <3>2, <3>3, <4>2, <5>1
        <5> QED
          BY <1>4, <5>2 DEF OnSchedule, Weekday, w
      <4> QED
        BY <3>4, <4>1, <4>2
    <3> QED
      BY <1>2, <1>4, <2>6, <2>7, <3>6, <3>7 DEF OnSchedule, n, w, c, first
  <2>9. CASE i # Len(w)
    <3> DEFINE a == w[i]
               b == w[i + 1]
    <3>1. n = d + b - a
      BY <1>4, <2>9 DEF GetNextBookingTime
    <3>2. a \in 0 .. 6 /\ b \in a + 1 .. 6 /\ a = d % 7
      <4>1. w[i] < w[i + 1]
        BY <2>1, <2>3, <2>9
      <4> QED
        BY <2>1, <2>2, <2>9, <4>1
    <3>3. \A v \in Range(w) : v \in 0 .. 6 /\ (v <= a \/ b <= v)
      <4> SUFFICES ASSUME NEW j \in 1 .. Len(w) PROVE w[j] \in 0 .. 6 /\ (w[j] <= w[i] \/ w[i + 1] <= w[j])
        BY <2>4
      <4>1. w[j] \in 0 .. 6 /\ w[i + 1] \in 0 .. 6 /\ w[i] \in 0 .. 6
        BY <2>2, <2>9
      <4>2. w[j] = w[i] \/ w[j] < w[i] \/ w[j] = w[i + 1] \/ w[i + 1] < w[j]
        <5>1. j = i \/ j < i \/ j = i + 1 \/ i + 1 < j
          BY <2>1
        <5> QED
          BY <2>1, <2>3, <2>9, <5>1
      <4> HIDE DEF w, i
      <4> QED
        BY <4>1, <4>2
    <3> HIDE DEF a, b, n, w, i
    <3>4. /\ n \div 7 = d \div 7
          /\ \A x \in d + 1 .. n - 1 : x % 7 \in a + 1 .. b - 1
      BY <1>1, <3>1, <3>2, SameWeek
    <3>5. ASSUME NEW x \in d + 1 .. n - 1 PROVE ~OnSchedule(e, x)
      <4>1. x % 7 \notin Range(w)
        BY <3>2, <3>3, <3>4
      <4> QED
        BY <1>4, <4>1 DEF OnSchedule, Weekday, w
    <3> QED
      BY <1>2, <1>4, <2>5, <2>6, <2>7, <3>4, <3>5 DEF OnSchedule, n, w, first
  <2> QED
    BY <2>8, <2>9
<1> QED
  BY <1>1, <1>3, <1>4

\* The recursion of CreateBookings is that of a function: it ends, for every day from which
\* the next one is asked for.
IsFrom(e, D, f) ==
    f = [d \in D |-> IF d < e.end THEN <<d>> \o f[GetNextBookingTime(e, d)] ELSE <<>>]

LEMMA FromExists ==
    ASSUME NEW e, InOrder(e)
    PROVE  \E f : IsFrom(e, Candidates(e), f)
<1> DEFINE C(n) == {d \in Candidates(e) : d + n >= e.end}
           Bad == {n \in Nat : ~ \E f : IsFrom(e, C(n), f)}
<1>1. e.end \in Nat /\ Candidates(e) \subseteq Nat
  BY DEF InOrder, Recurrence, Candidates
<1>2. \A d \in Candidates(e) : GetNextBookingTime(e, d) \in Candidates(e) /\ GetNextBookingTime(e, d) > d
  <2> TAKE d \in Candidates(e)
  <2>1. d \in Nat /\ (e.cadence = "weekly" => Weekday(d) \in Range(e.weekdays))
    BY DEF Candidates
  <2> QED
    BY <2>1, NextIsLater, NextIsAWeekdayOfTheList DEF Candidates
<1>3. 0 \notin Bad
  <2> DEFINE f == [d \in C(0) |-> <<>>]
  <2>1. \A d \in C(0) : ~(d < e.end)
    BY <1>1
  <2>2. IsFrom(e, C(0), f)
    BY <2>1 DEF IsFrom
  <2> QED
    BY <2>2
<1>4. ASSUME NEW n \in Nat, n \notin Bad PROVE n + 1 \notin Bad
  <2>1. PICK f : IsFrom(e, C(n), f)
    BY <1>4
  <2> DEFINE g == [d \in C(n + 1) |-> IF d < e.end THEN <<d>> \o f[GetNextBookingTime(e, d)] ELSE <<>>]
  <2>2. \A d \in C(n) : d \in C(n + 1)
    BY <1>1
  <2>3. \A d \in C(n + 1) : GetNextBookingTime(e, d) \in C(n)
    <3> TAKE d \in C(n + 1)
    <3>1. d \in Nat /\ GetNextBookingTime(e, d) \in Nat /\ d + (n + 1) >= e.end
          /\ GetNextBookingTime(e, d) > d /\ GetNextBookingTime(e, d) \in Candidates(e)
      BY <1>1, <1>2
    <3>2. GetNextBookingTime(e, d) + n >= e.end
      BY <1>1, <3>1
    <3> QED
      BY <3>1, <3>2
  <2> HIDE DEF C
  <2>4. \A d \in C(n) : f[d] = IF d < e.end THEN <<d>> \o f[GetNextBookingTime(e, d)] ELSE <<>>
    BY <2>1 DEF IsFrom
  <2>5. \A d \in C(n) : g[d] = f[d]
    BY <2>2, <2>4
  <2>6. \A d \in C(n + 1) : g[GetNextBookingTime(e, d)] = f[GetNextBookingTime(e, d)]
    BY <2>3, <2>5
  <2>7. IsFrom(e, C(n + 1), g)
    BY <2>6 DEF IsFrom
  <2> QED
    BY <2>7
<1>5. Bad = {}
  <2> SUFFICES ASSUME Bad # {} PROVE FALSE
    OBVIOUS
  <2>1. Bad \in SUBSET Nat
    OBVIOUS
  <2> HIDE DEF Bad
  <2>2. PICK m \in Bad : \A k \in Bad : m <= k
    BY <2>1, LeastNatural
  <2>3. m # 0 /\ m \in Nat
    BY <1>3, <2>1, <2>2
  <2>4. m - 1 \in Nat /\ m - 1 \notin Bad
    BY <2>1, <2>2, <2>3
  <2>5. (m - 1) + 1 \notin Bad
    BY <1>4, <2>4
  <2>6. (m - 1) + 1 = m
    BY <2>3
  <2> QED
    BY <2>2, <2>5, <2>6
<1>6. C(e.end) = Candidates(e)
  BY <1>1
<1>7. \E f : IsFrom(e, C(e.end), f)
  BY <1>1, <1>5
<1> QED
  BY <1>6, <1>7

\* From a day on the schedule: the days on the schedule, each once and in order.
Books(e, d, s) ==
    /\ s \in Seq(Nat) /\ Increasing(s)
    /\ \A x : x \in Range(s) <=> x \in d .. e.end - 1 /\ OnSchedule(e, x)

LEMMA LaterFirst ==
    ASSUME NEW d \in Nat, NEW s \in Seq(Nat), Increasing(s), \A x \in Range(s) : x > d
    PROVE  /\ <<d>> \o s \in Seq(Nat) /\ Increasing(<<d>> \o s)
           /\ Range(<<d>> \o s) = {d} \cup Range(s)
<1> DEFINE t == <<d>> \o s
<1>1. /\ t \in Seq(Nat) /\ Len(t) = Len(s) + 1 /\ t[1] = d
      /\ \A i \in 2 .. Len(t) : t[i] = s[i - 1]
      /\ \A i \in 1 .. Len(s) : t[i + 1] = s[i]
  OBVIOUS
<1>2. \A i \in 1 .. Len(s) : s[i] \in Range(s) /\ s[i] > d
  BY DEF Range
<1>3. Increasing(t)
  <2> SUFFICES ASSUME NEW i \in 1 .. Len(t), NEW j \in 1 .. Len(t), i < j PROVE t[i] < t[j]
    BY <1>1 DEF Increasing
  <2>1. j \in 2 .. Len(t) /\ t[j] = s[j - 1] /\ j - 1 \in 1 .. Len(s)
    BY <1>1
  <2>2. CASE i = 1
    BY <1>1, <1>2, <2>1, <2>2
  <2>3. CASE i # 1
    <3>1. t[i] = s[i - 1] /\ i - 1 \in 1 .. Len(s) /\ i - 1 < j - 1
      BY <1>1, <2>1, <2>3
    <3> QED
      BY <2>1, <3>1 DEF Increasing
  <2> QED
    BY <2>2, <2>3
<1>4. Range(t) = {d} \cup Range(s)
  <2>1. DOMAIN t = 1 .. Len(t) /\ DOMAIN s = 1 .. Len(s) /\ Len(s) \in Nat
    BY <1>1
  <2>2. \A x \in Range(t) : x \in {d} \cup Range(s)
    <3> SUFFICES ASSUME NEW i \in 1 .. Len(t) PROVE t[i] \in {d} \cup Range(s)
      BY <2>1 DEF Range
    <3>1. i = 1 \/ (t[i] = s[i - 1] /\ i - 1 \in 1 .. Len(s))
      BY <1>1
    <3> QED
      BY <1>1, <1>2, <3>1
  <2>3. d \in Range(t)
    BY <1>1, <2>1 DEF Range
  <2>4. \A x \in Range(s) : x \in Range(t)
    <3> SUFFICES ASSUME NEW i \in 1 .. Len(s) PROVE s[i] \in Range(t)
      BY <2>1 DEF Range
    <3>1. i + 1 \in 1 .. Len(t) /\ t[i + 1] = s[i]
      BY <1>1
    <3> QED
      BY <2>1, <3>1 DEF Range
  <2> QED
    BY <2>2, <2>3, <2>4
<1> QED
  BY <1>1, <1>3, <1>4

LEMMA FromBooks ==
    ASSUME NEW e, InOrder(e), NamesADay(e), NEW f, IsFrom(e, Candidates(e), f)
    PROVE  \A d \in Candidates(e) : OnSchedule(e, d) => Books(e, d, f[d])
<1> DEFINE Good(d) == d \in Candidates(e) /\ OnSchedule(e, d) => Books(e, d, f[d])
           Bad == {n \in Nat : \E d \in Candidates(e) : d + n >= e.end /\ ~Good(d)}
<1>1. e.end \in Nat /\ Candidates(e) \subseteq Nat
  BY DEF InOrder, Recurrence, Candidates
<1>2. \A d \in Candidates(e) :
         f[d] = IF d < e.end THEN <<d>> \o f[GetNextBookingTime(e, d)] ELSE <<>>
  BY DEF IsFrom
<1>3. ASSUME NEW d \in Candidates(e), OnSchedule(e, d), ~(d < e.end)
      PROVE  Books(e, d, f[d])
  <2>1. f[d] = <<>>
    BY <1>2, <1>3
  <2>2. Range(f[d]) = {} /\ Increasing(f[d]) /\ f[d] \in Seq(Nat)
    BY <2>1 DEF Range, Increasing
  <2>3. d .. e.end - 1 = {}
    BY <1>1, <1>3
  <2> QED
    BY <2>2, <2>3 DEF Books
<1>4. ASSUME NEW d \in Candidates(e), OnSchedule(e, d), d < e.end, Good(GetNextBookingTime(e, d))
      PROVE  Books(e, d, f[d])
  <2> DEFINE n == GetNextBookingTime(e, d)
  <2>1. n \in Candidates(e) /\ n > d /\ OnSchedule(e, n) /\ \A x \in d + 1 .. n - 1 : ~OnSchedule(e, x)
    BY <1>4, NextDayOnSchedule
  <2>2. Books(e, n, f[n]) /\ f[d] = <<d>> \o f[n]
    BY <1>2, <1>4, <2>1
  <2> HIDE DEF n
  <2>3. d \in Nat /\ n \in Nat
    BY <1>1, <2>1
  <2>4. \A x \in Range(f[n]) : x > d
    BY <1>1, <2>1, <2>2, <2>3 DEF Books
  <2>5. f[d] \in Seq(Nat) /\ Increasing(f[d]) /\ Range(f[d]) = {d} \cup Range(f[n])
    BY <2>2, <2>3, <2>4, LaterFirst DEF Books
  <2>6. ASSUME NEW x PROVE x \in Range(f[d]) <=> x \in d .. e.end - 1 /\ OnSchedule(e, x)
    <3>1. CASE x \in d .. e.end - 1
      <4>1. x = d \/ x \in d + 1 .. n - 1 \/ x \in n .. e.end - 1
        BY <1>1, <2>3, <3>1
      <4>2. ~(d \in n .. e.end - 1) /\ \A y \in d + 1 .. n - 1 : y # d /\ ~(y \in n .. e.end - 1)
        BY <1>1, <2>1, <2>3
      <4> QED
        BY <1>4, <2>1, <2>2, <2>5, <3>1, <4>1, <4>2 DEF Books
    <3>2. CASE x \notin d .. e.end - 1
      <4>1. x \notin n .. e.end - 1 /\ x # d
        BY <1>1, <1>4, <2>1, <2>3, <3>2
      <4> QED
        BY <2>2, <2>5, <3>2, <4>1 DEF Books
    <3> QED
      BY <3>1, <3>2
  <2> QED
    BY <2>5, <2>6 DEF Books
<1>5. Bad = {}
  <2> SUFFICES ASSUME Bad # {} PROVE FALSE
    OBVIOUS
  <2>1. Bad \in SUBSET Nat
    OBVIOUS
  <2>2. PICK m \in Bad : \A k \in Bad : m <= k
    <3> HIDE DEF Bad
    <3> QED
      BY <2>1, LeastNatural
  <2>3. PICK d \in Candidates(e) : d + m >= e.end /\ ~Good(d)
    OBVIOUS
  <2>4. OnSchedule(e, d) /\ ~Books(e, d, f[d])
    BY <2>3
  <2>5. d < e.end
    BY <1>3, <2>4
  <2> DEFINE n == GetNextBookingTime(e, d)
  <2>6. n \in Candidates(e) /\ n > d
    BY <2>4, NextDayOnSchedule
  <2>7. ~Good(n)
    BY <1>4, <2>4, <2>5
  <2> HIDE DEF n, Good
  <2>8. m - 1 \in Nat /\ n + (m - 1) >= e.end
    BY <1>1, <2>1, <2>3, <2>5, <2>6
  <2>9. m - 1 \in Bad
    BY <2>6, <2>7, <2>8
  <2> HIDE DEF Bad
  <2> QED
    BY <2>1, <2>2, <2>9
<1>6. ASSUME NEW d \in Candidates(e), ~Good(d) PROVE FALSE
  <2> HIDE DEF Good
  <2>1. d + e.end >= e.end
    BY <1>1
  <2>2. e.end \in Bad
    BY <1>1, <1>6, <2>1
  <2> HIDE DEF Bad
  <2> QED
    BY <1>5, <2>2
<1> QED
  BY <1>6

\* CreateBookings makes the days the recurrence names, each once and in order, whatever the
\* weekday it starts on.
THEOREM OccurrencesAreBooked ==
    ASSUME NEW e, InOrder(e)
    PROVE  /\ CreateBookings(e) \in Seq(Nat) /\ Increasing(CreateBookings(e))
           /\ Range(CreateBookings(e)) = IF NamesADay(e) THEN Occurrences(e) ELSE {}
<1>1. CASE ~NamesADay(e)
  <2>1. CreateBookings(e) = <<>>
    BY <1>1 DEF CreateBookings, NamesADay
  <2> QED
    BY <1>1, <2>1 DEF Increasing, Range
<1>2. CASE NamesADay(e)
  <2> DEFINE f == CHOOSE g : IsFrom(e, Candidates(e), g)
             d == FirstDay(e)
  <2>1. CreateBookings(e) = f[d]
    BY <1>2 DEF CreateBookings, NamesADay, IsFrom
  <2>2. IsFrom(e, Candidates(e), f)
    BY FromExists
  <2>3. /\ d \in Candidates(e) /\ d >= e.enter /\ OnSchedule(e, d)
        /\ \A x \in e.enter .. d - 1 : ~OnSchedule(e, x)
    BY <1>2, FirstDayIsFirst
  <2> HIDE DEF f, d
  <2>4. Books(e, d, f[d])
    BY <1>2, <2>2, <2>3, FromBooks
  <2>5. Range(f[d]) = Occurrences(e)
    <3>1. e.enter \in Nat /\ e.end \in Nat /\ d \in Nat
      BY <2>3 DEF InOrder, Recurrence, Candidates
    <3>2. Occurrences(e) = {x \in e.enter .. e.end - 1 : OnSchedule(e, x)}
      BY DEF Occurrences, OnSchedule
    <3>3. ASSUME NEW x PROVE x \in Range(f[d]) <=> x \in Occurrences(e)
      <4>1. x \in d .. e.end - 1 => x \in e.enter .. e.end - 1
        BY <2>3, <3>1
      <4>2. x \in e.enter .. e.end - 1 => x \in d .. e.end - 1 \/ x \in e.enter .. d - 1
        BY <2>3, <3>1
      <4> QED
        BY <2>3, <2>4, <3>2, <4>1, <4>2 DEF Books
    <3> QED
      BY <3>3
  <2> QED
    BY <1>2, <2>1, <2>4, <2>5 DEF Books
<1> QED
  BY <1>1, <1>2
=============================================================================

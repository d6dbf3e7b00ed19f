--------------------------- MODULE SearchPageProofs ---------------------------
(* Theorems about SearchPage, for every value of its constants.            *)
EXTENDS SearchPage, TLAPS

\* The chains that ask for the spaces of an area and a period.
Loading(c) == c.at \in {"availability", "daystatus"}
LoadsSpaces(c) == Loading(c) /\ c.kind \notin {"status", "check"}

\* Each chain has a number of its own.
Numbered == /\ \A c \in calls : c.id <= sent
            /\ \A c, d \in calls : c.id = d.id => c = d

\* The chains that count on an area and a period know them.
CallsKnowTheirs == \A c \in calls :
    /\ Loading(c) => c.loc \in Locations /\ c.when \in Whens
    /\ c.kind \in {"status", "check"} => c.at = "daystatus"

\* The last chain that asked for spaces asked for those of the period that is chosen,
\* unless that has been moved since without asking.
LastAsksForPresent == \A c \in calls :
    LoadsSpaces(c) /\ dayStatusRequestSeq = c.id /\ ~unasked => c.when = when

SearchInv == TypeOK /\ Numbered /\ CallsKnowTheirs /\ LastAsksForPresent

-----------------------------------------------------------------------------
(* What becomes of the chains.                                             *)

LEMMA CallsInRange ==
    ASSUME SearchInv
    PROVE  /\ sent \in Nat /\ sent >= 1 /\ MaxCalls \in Nat
           /\ \A c \in calls : c \in Call /\ c.id \in Nat /\ c.id >= 1 /\ c.id <= sent
BY SearchAssumption DEF SearchInv, TypeOK, Numbered, Call

\* Some end.
LEMMA FewerCalls ==
    ASSUME SearchInv, calls' \subseteq calls, UNCHANGED <<sent>>
    PROVE  calls' \subseteq Call /\ Numbered' /\ CallsKnowTheirs'
BY DEF SearchInv, TypeOK, Numbered, CallsKnowTheirs

\* One goes on.
LEMMA NextCall ==
    ASSUME SearchInv, NEW c \in calls, NEW d \in Call, d.id = c.id, Next_(c, d),
           UNCHANGED sent,
           Loading(d) => d.loc \in Locations /\ d.when \in Whens,
           d.kind \in {"status", "check"} => d.at = "daystatus"
    PROVE  calls' \subseteq Call /\ Numbered' /\ CallsKnowTheirs'
<1>1. calls' = (calls \ {c}) \cup {d}
  BY DEF Next_
<1>2. calls' \subseteq Call
  BY <1>1 DEF SearchInv, TypeOK
<1>3. \A e \in calls \ {c} : e.id # d.id
  BY DEF SearchInv, Numbered
<1>4. d.id <= sent
  BY DEF SearchInv, Numbered
<1>5. Numbered'
  BY <1>1, <1>3, <1>4 DEF SearchInv, Numbered
<1>6. CallsKnowTheirs'
  BY <1>1 DEF SearchInv, CallsKnowTheirs
<1> QED
  BY <1>2, <1>5, <1>6

\* One begins.
LEMMA NewCall ==
    ASSUME SearchInv, sent < MaxCalls, NEW d \in Call, d.id = sent + 1,
           calls' = calls \cup {d}, sent' = sent + 1,
           Loading(d) => d.loc \in Locations /\ d.when \in Whens,
           d.kind \in {"status", "check"} => d.at = "daystatus"
    PROVE  /\ calls' \subseteq Call /\ sent' \in 1 .. MaxCalls
           /\ Numbered' /\ CallsKnowTheirs'
           /\ \A c \in calls : c.id # sent'
<1>1. \A c \in calls : c.id <= sent' /\ c.id # sent'
  BY CallsInRange
<1>2. sent' \in 1 .. MaxCalls
  BY CallsInRange
<1>3. d.id <= sent'
  BY CallsInRange
<1>4. calls' \subseteq Call
  BY DEF SearchInv, TypeOK
<1>5. Numbered'
  BY <1>1, <1>3 DEF SearchInv, Numbered
<1>6. CallsKnowTheirs'
  BY DEF SearchInv, CallsKnowTheirs
<1> QED
  BY <1>1, <1>2, <1>4, <1>5, <1>6

\* The first request of a chain.
LEMMA NewType ==
    ASSUME SearchInv, sent < MaxCalls, NEW kind \in Kinds, NEW at \in Stages,
           NEW l \in Locations \cup {None}
    PROVE  /\ New(kind, at, l) \in Call
           /\ New(kind, at, l).id = sent + 1
           /\ New(kind, at, l).kind = kind /\ New(kind, at, l).at = at
           /\ New(kind, at, l).loc = l
<1>1. sent + 1 \in 1 .. MaxCalls
  BY CallsInRange
<1> QED
  BY <1>1 DEF New, Call

\* The chains that load no spaces do not matter to what was asked for last.
LEMMA AsksPreserved ==
    ASSUME SearchInv, UNCHANGED <<dayStatusRequestSeq, when, unasked>>,
           \A d \in calls' \ calls : ~LoadsSpaces(d)
    PROVE  LastAsksForPresent'
BY DEF SearchInv, LastAsksForPresent, LoadsSpaces, Loading

\* What loadMap, Loaded and End do to the chains and the spinner.
LEMMA EndKeeps ==
    ASSUME SearchInv, NEW c \in calls, End(c), UNCHANGED sent
    PROVE  /\ calls' \subseteq Call /\ Numbered' /\ CallsKnowTheirs'
           /\ calls' \ calls = {}
BY FewerCalls DEF End

LEMMA LoadMapKeeps ==
    ASSUME SearchInv, NEW c \in calls, c.kind \notin {"status", "check"},
           NEW l \in Locations \cup {None}, loadMap(c, l), UNCHANGED sent
    PROVE  /\ calls' \subseteq Call /\ Numbered' /\ CallsKnowTheirs'
           /\ \A d \in calls' \ calls : ~LoadsSpaces(d)
           /\ loading' = TRUE
<1> DEFINE d == [c EXCEPT !.at = "location", !.loc = l]
<1>1. d \in Call /\ d.id = c.id /\ d.kind = c.kind /\ d.at = "location"
  BY DEF SearchInv, TypeOK, Call, Stages
<1>2. Next_(c, d) /\ loading' = TRUE
  BY DEF loadMap
<1>3. ~Loading(d)
  BY <1>1 DEF Loading
<1> HIDE DEF d
<1>4. calls' \subseteq Call /\ Numbered' /\ CallsKnowTheirs'
  BY <1>1, <1>2, <1>3, NextCall
<1> QED
  BY <1>2, <1>3, <1>4 DEF Next_, LoadsSpaces

LEMMA LoadedKeeps ==
    ASSUME SearchInv, NEW c \in calls, c.kind \notin {"status", "check"},
           Loaded(c), UNCHANGED sent
    PROVE  /\ calls' \subseteq Call /\ Numbered' /\ CallsKnowTheirs'
           /\ \A d \in calls' \ calls : ~LoadsSpaces(d)
           /\ loading' \in BOOLEAN
<1>1. loading' \in BOOLEAN
  BY DEF Loaded, SearchInv, TypeOK
<1>2. CASE End(c)
  BY <1>1, <1>2, EndKeeps
<1>3. CASE Next_(c, [c EXCEPT !.at = "attributes", !.loc = None, !.when = None, !.seen = 0])
  <2> DEFINE d == [c EXCEPT !.at = "attributes", !.loc = None, !.when = None, !.seen = 0]
  <2>1. d \in Call /\ d.id = c.id /\ d.kind = c.kind /\ d.at = "attributes"
    BY DEF SearchInv, TypeOK, Call, Stages
  <2>2. ~Loading(d)
    BY <2>1 DEF Loading
  <2>3. Next_(c, d)
    BY <1>3
  <2> HIDE DEF d
  <2>4. calls' \subseteq Call /\ Numbered' /\ CallsKnowTheirs'
    BY <2>1, <2>2, <2>3, NextCall
  <2> QED
    BY <1>1, <2>2, <2>3, <2>4 DEF Next_, LoadsSpaces
<1> QED
  BY <1>2, <1>3 DEF Loaded

-----------------------------------------------------------------------------
(* The steps of the user.                                                  *)

\* What is sent with Send for an area and no period.
LEMMA SendKeeps ==
    ASSUME SearchInv, sent < MaxCalls, NEW kind \in Kinds \ {"status", "check"},
           NEW at \in {"attributes", "search", "location"},
           NEW l \in Locations \cup {None}, Send(kind, at, l)
    PROVE  /\ calls' \subseteq Call /\ sent' \in 1 .. MaxCalls
           /\ Numbered' /\ CallsKnowTheirs'
           /\ \A d \in calls' \ calls : ~LoadsSpaces(d)
<1> DEFINE d == New(kind, at, l)
<1>1. d \in Call /\ d.id = sent + 1 /\ d.kind = kind /\ d.at = at
  BY NewType DEF Stages
<1>2. ~Loading(d)
  BY <1>1 DEF Loading
<1>3. calls' = calls \cup {d} /\ sent' = sent + 1
  BY DEF Send
<1> HIDE DEF d
<1> QED
  BY <1>1, <1>2, <1>3, NewCall DEF LoadsSpaces

LEMMA UserKeeps ==
    ASSUME SearchInv,
           \/ \E l \in Locations : changeLocation(l)
           \/ applySearch \/ refreshPage
    PROVE  SearchInv'
<1>1. sent < MaxCalls
  BY DEF changeLocation, applySearch, refreshPage, CanSend
<1>2. locationId \in Locations \cup {None}
  BY DEF SearchInv, TypeOK
<1>3. PICK kind \in Kinds \ {"status", "check"}, at \in {"attributes", "search", "location"},
           l \in Locations \cup {None} : Send(kind, at, l)
  BY <1>2 DEF changeLocation, applySearch, refreshPage, Kinds
<1>4. /\ calls' \subseteq Call /\ sent' \in 1 .. MaxCalls
      /\ Numbered' /\ CallsKnowTheirs'
      /\ \A d \in calls' \ calls : ~LoadsSpaces(d)
  BY <1>1, <1>3, SendKeeps
<1>5. written' \in Nat
  BY DEF changeLocation, applySearch, refreshPage, SearchInv, TypeOK
<1>6. TypeOK'
  BY <1>4, <1>5 DEF changeLocation, applySearch, refreshPage, SearchInv, TypeOK, shown, seqs,
     chosen
<1>7. LastAsksForPresent'
  BY <1>4, AsksPreserved DEF changeLocation, applySearch, refreshPage, shown, seqs, chosen
<1> QED
  BY <1>4, <1>6, <1>7 DEF SearchInv

LEMMA SelectSpaceKeeps ==
    ASSUME SearchInv, onSpaceSelect
    PROVE  SearchInv'
<1> DEFINE d == [New("check", "daystatus", data.loc) EXCEPT !.when = when]
<1>1. sent < MaxCalls /\ calls' = calls \cup {d} /\ sent' = sent + 1
  BY DEF onSpaceSelect, CanSend
<1>2. data.loc \in Locations /\ when \in Whens
  BY DEF SearchInv, TypeOK, onSpaceSelect, Period
<1>3. /\ New("check", "daystatus", data.loc) \in Call
      /\ New("check", "daystatus", data.loc).id = sent + 1
      /\ New("check", "daystatus", data.loc).kind = "check"
      /\ New("check", "daystatus", data.loc).at = "daystatus"
      /\ New("check", "daystatus", data.loc).loc = data.loc
  BY <1>1, <1>2, NewType DEF Kinds, Stages
<1>4. /\ d \in Call /\ d.id = sent + 1 /\ d.kind = "check" /\ d.at = "daystatus"
      /\ d.loc = data.loc /\ d.when = when
  BY <1>2, <1>3 DEF Call
<1> HIDE DEF d
<1>5. /\ calls' \subseteq Call /\ sent' \in 1 .. MaxCalls /\ Numbered' /\ CallsKnowTheirs'
  BY <1>1, <1>2, <1>4, NewCall
<1>6. LastAsksForPresent'
  BY <1>1, <1>4, AsksPreserved DEF onSpaceSelect, chosen, LoadsSpaces
<1>7. sent' \in 0 .. MaxCalls /\ modalAvailabilityRequestSeq' = sent'
  BY <1>1, <1>5, CallsInRange DEF onSpaceSelect
<1>8. TypeOK'
  BY <1>5, <1>7 DEF SearchInv, TypeOK, onSpaceSelect, chosen, shown
<1> QED
  BY <1>5, <1>6, <1>8 DEF SearchInv

\* The period moves: what was asked for before does not count any more, and what is asked
\* for now is asked for the new one.
LEMMA MoveKeeps ==
    ASSUME SearchInv, NEW w \in Whens, updateEnterAndLeaveDate(w)
    PROVE  SearchInv'
<1>1. sent < MaxCalls /\ when' = w
  BY DEF updateEnterAndLeaveDate, Picked, CanSend
<1>2. locationId \in Locations \cup {None} /\ written \in Nat
  BY DEF SearchInv, TypeOK
<1>3. CASE /\ updateCanSearch(locationId, w, atLimit)
           /\ loadSpaces(sent + 1)
           /\ calls' = calls \cup {[New("dates", "availability", locationId)
                                     EXCEPT !.when = w, !.seen = written]}
           /\ sent' = sent + 1 /\ counting' = TRUE /\ UNCHANGED dayStatus
  <2> DEFINE n == New("dates", "availability", locationId)
  <2> DEFINE d == [n EXCEPT !.when = w, !.seen = written]
  <2>1. /\ n \in Call /\ n.id = sent + 1 /\ n.kind = "dates" /\ n.at = "availability"
        /\ n.loc = locationId
    BY <1>1, <1>2, NewType DEF Kinds, Stages
  <2>2. /\ d \in Call /\ d.id = sent + 1 /\ d.kind = "dates" /\ d.loc = locationId
        /\ d.when = w
    BY <1>2, <2>1 DEF Call
  <2>3. locationId \in Locations
    BY <1>2, <1>3 DEF updateCanSearch
  <2>4. calls' = calls \cup {d} /\ sent' = sent + 1
    BY <1>3
  <2> HIDE DEF d, n
  <2>5. /\ calls' \subseteq Call /\ sent' \in 1 .. MaxCalls /\ Numbered' /\ CallsKnowTheirs'
        /\ \A c \in calls : c.id # sent'
    BY <1>1, <2>2, <2>3, <2>4, NewCall
  <2>6. dayStatusRequestSeq' = sent' /\ sent' \in 0 .. MaxCalls
        /\ loading' = TRUE /\ unasked' = FALSE
    BY <1>3, <2>5, CallsInRange DEF loadSpaces
  <2>7. LastAsksForPresent'
    BY <1>1, <2>2, <2>4, <2>5, <2>6 DEF LastAsksForPresent
  <2>8. TypeOK'
    BY <1>1, <1>3, <2>5, <2>6 DEF SearchInv, TypeOK, updateEnterAndLeaveDate
  <2> QED
    BY <2>5, <2>7, <2>8 DEF SearchInv
<1>4. CASE /\ locationId # None /\ dayStatusRequestSeq' = sent + 1 /\ unasked' = TRUE
           /\ calls' = calls \cup {[New("status", "daystatus", locationId) EXCEPT !.when = w]}
           /\ sent' = sent + 1 /\ UNCHANGED <<counting, loading, dayStatus>>
  <2> DEFINE n == New("status", "daystatus", locationId)
  <2> DEFINE d == [n EXCEPT !.when = w]
  <2>1. /\ n \in Call /\ n.id = sent + 1 /\ n.kind = "status" /\ n.at = "daystatus"
        /\ n.loc = locationId
    BY <1>1, <1>2, NewType DEF Kinds, Stages
  <2>2. /\ d \in Call /\ d.id = sent + 1 /\ d.kind = "status" /\ d.at = "daystatus"
        /\ d.loc = locationId /\ d.when = w
    BY <2>1 DEF Call
  <2>4. calls' = calls \cup {d} /\ sent' = sent + 1
    BY <1>4
  <2> HIDE DEF d, n
  <2>5. /\ calls' \subseteq Call /\ sent' \in 1 .. MaxCalls /\ Numbered' /\ CallsKnowTheirs'
    BY <1>1, <1>2, <1>4, <2>2, <2>4, NewCall
  <2>6. dayStatusRequestSeq' = sent' /\ sent' \in 0 .. MaxCalls
    BY <1>4, <2>5, CallsInRange
  <2>8. TypeOK'
    BY <1>1, <1>4, <2>5, <2>6 DEF SearchInv, TypeOK, updateEnterAndLeaveDate
  <2> QED
    BY <1>4, <2>5, <2>8 DEF SearchInv, LastAsksForPresent
<1>5. CASE /\ dayStatus' = None /\ loading' = FALSE /\ unasked' = TRUE
           /\ UNCHANGED <<calls, sent, counting, dayStatusRequestSeq>>
  <2>1. TypeOK'
    BY <1>1, <1>5 DEF SearchInv, TypeOK, updateEnterAndLeaveDate
  <2> QED
    BY <1>5, <2>1 DEF SearchInv, LastAsksForPresent, Numbered, CallsKnowTheirs
<1> QED
  BY <1>3, <1>4, <1>5 DEF updateEnterAndLeaveDate

-----------------------------------------------------------------------------
(* The answers.                                                            *)

\* The lists come in: the period is chosen again, and its spaces are yet to be asked for.
LEMMA ItemsKeep ==
    ASSUME SearchInv, NEW c \in calls, loadItems(c)
    PROVE  SearchInv'
<1>1. /\ listed' = Locations /\ when' \in Whens /\ unasked' = TRUE
      /\ c.kind \notin {"status", "check"}
  BY SearchAssumption DEF loadItems, initDates, SearchInv, CallsKnowTheirs
<1>2. /\ calls' \subseteq Call /\ Numbered' /\ CallsKnowTheirs'
      /\ locationId' \in Locations \cup {None} /\ loading' \in BOOLEAN
  <2>1. CASE End(c) /\ loading' = FALSE /\ UNCHANGED locationId
    BY <2>1, EndKeeps DEF loadItems, SearchInv, TypeOK
  <2>2. CASE /\ \E l \in Locations : locationId' = l
             /\ Next_(c, [c EXCEPT !.at = "attributes"]) /\ UNCHANGED loading
    <3> DEFINE d == [c EXCEPT !.at = "attributes"]
    <3>1. d \in Call /\ d.id = c.id /\ d.kind = c.kind /\ d.at = "attributes"
      BY DEF SearchInv, TypeOK, Call, Stages
    <3>2. ~Loading(d) /\ Next_(c, d)
      BY <2>2, <3>1 DEF Loading
    <3> HIDE DEF d
    <3>3. calls' \subseteq Call /\ Numbered' /\ CallsKnowTheirs'
      BY <1>1, <3>1, <3>2, NextCall DEF loadItems
    <3> QED
      BY <2>2, <3>3 DEF SearchInv, TypeOK
  <2> QED
    BY <2>1, <2>2 DEF loadItems
<1>3. TypeOK'
  BY <1>1, <1>2 DEF SearchInv, TypeOK, loadItems, shown, seqs
<1> QED
  BY <1>1, <1>2, <1>3 DEF SearchInv, LastAsksForPresent

\* The answers after which no spaces are asked for.
LEMMA OtherAnswersKeep ==
    ASSUME SearchInv, NEW c \in calls,
           \/ searched(c) \/ attributesAnswered(c) \/ mapAnswered(c)
           \/ refreshDayStatusOnly(c) \/ checkAnswered(c) \/ Fail(c)
    PROVE  SearchInv'
<1> USE DEF chosen, shown, seqs
<1>1. ASSUME NEW ls \in SUBSET Locations, NEW l \in getPreferredLocationId(locationId, ls),
             listed' = ls, locationId' = l, searched(c),
             IF l = None THEN loading' = FALSE /\ End(c) ELSE loadMap(c, l)
      PROVE  SearchInv'
  <2>1. l \in Locations \cup {None}
    BY <1>1, SearchAssumption DEF getPreferredLocationId
  <2>2. c.kind \notin {"status", "check"}
    BY <1>1 DEF searched, SearchInv, CallsKnowTheirs
  <2>3. UNCHANGED sent
    BY <1>1 DEF searched
  <2>4. /\ calls' \subseteq Call /\ Numbered' /\ CallsKnowTheirs'
        /\ \A d \in calls' \ calls : ~LoadsSpaces(d)
        /\ loading' \in BOOLEAN
    BY <1>1, <2>1, <2>2, <2>3, EndKeeps, LoadMapKeeps
  <2>5. TypeOK'
    BY <1>1, <2>1, <2>4 DEF SearchInv, TypeOK, searched
  <2>6. LastAsksForPresent'
    BY <1>1, <2>4, AsksPreserved DEF searched
  <2> QED
    BY <2>4, <2>5, <2>6 DEF SearchInv
<1>2. CASE attributesAnswered(c)
  <2>1. c.kind \notin {"status", "check"}
    BY <1>2 DEF attributesAnswered, SearchInv, CallsKnowTheirs
  <2>2. c.loc \in Locations \cup {None} /\ locationId \in Locations \cup {None}
    BY DEF SearchInv, TypeOK, Call
  <2>3. UNCHANGED sent
    BY <1>2 DEF attributesAnswered
  <2>4. \/ loadMap(c, locationId) \/ loadMap(c, c.loc)
        \/ loading' = FALSE /\ End(c)
    BY <1>2 DEF attributesAnswered
  <2>5. /\ calls' \subseteq Call /\ Numbered' /\ CallsKnowTheirs'
        /\ \A d \in calls' \ calls : ~LoadsSpaces(d)
        /\ loading' \in BOOLEAN
    BY <2>1, <2>2, <2>3, <2>4, EndKeeps, LoadMapKeeps
  <2>6. TypeOK'
    BY <1>2, <2>5 DEF SearchInv, TypeOK, attributesAnswered
  <2>7. LastAsksForPresent'
    BY <1>2, <2>5, AsksPreserved DEF attributesAnswered
  <2> QED
    BY <2>5, <2>6, <2>7 DEF SearchInv
<1>3. CASE mapAnswered(c)
  <2>1. c.kind \notin {"status", "check"}
    BY <1>3 DEF mapAnswered, SearchInv, CallsKnowTheirs
  <2>2. /\ calls' \subseteq Call /\ Numbered' /\ CallsKnowTheirs'
        /\ \A d \in calls' \ calls : ~LoadsSpaces(d)
        /\ loading' \in BOOLEAN
    BY <1>3, <2>1, LoadedKeeps DEF mapAnswered
  <2>3. TypeOK'
    BY <1>3, <2>2 DEF SearchInv, TypeOK, mapAnswered
  <2>4. LastAsksForPresent'
    BY <1>3, <2>2, AsksPreserved DEF mapAnswered
  <2> QED
    BY <2>2, <2>3, <2>4 DEF SearchInv
<1>4. CASE refreshDayStatusOnly(c) \/ checkAnswered(c) \/ Fail(c)
  <2>1. End(c) /\ UNCHANGED <<sent, dayStatusRequestSeq, when, unasked>>
    BY <1>4 DEF refreshDayStatusOnly, checkAnswered, Fail
  <2>2. calls' \subseteq Call /\ Numbered' /\ CallsKnowTheirs' /\ calls' \ calls = {}
    BY <2>1, EndKeeps
  <2>3. LastAsksForPresent'
    BY <2>1, <2>2, AsksPreserved
  <2>4. dayStatus' \in Status \cup {None} /\ loading' \in BOOLEAN
    <3>1. CASE Fail(c)
      BY <3>1 DEF Fail, SearchInv, TypeOK
    <3>2. CASE refreshDayStatusOnly(c) \/ checkAnswered(c)
      <4>1. c.loc \in Locations /\ c.when \in Whens
        BY <3>2 DEF refreshDayStatusOnly, checkAnswered, SearchInv, CallsKnowTheirs, Loading
      <4>2. c.when.day \in Nat
        BY <4>1, SearchAssumption
      <4>3. [loc |-> c.loc, day |-> c.when.day] \in Status
        BY <4>1, <4>2 DEF Status
      <4> QED
        BY <3>2, <4>3 DEF refreshDayStatusOnly, checkAnswered, SearchInv, TypeOK
    <3> QED
      BY <1>4, <3>1, <3>2
  <2>5. TypeOK'
    BY <1>4, <2>2, <2>4 DEF SearchInv, TypeOK, refreshDayStatusOnly, checkAnswered, Fail
  <2> QED
    BY <2>2, <2>3, <2>5 DEF SearchInv
<1> QED
  BY <1>1, <1>2, <1>3, <1>4 DEF searched

\* loadSpaces takes the number for its chain, which no other has, and the present period.
LEMMA LocationKeeps ==
    ASSUME SearchInv, NEW c \in calls, locationAnswered(c)
    PROVE  SearchInv'
<1> USE DEF shown
<1>1. c.kind \notin {"status", "check"}
  BY DEF locationAnswered, SearchInv, CallsKnowTheirs
<1>2. CASE /\ locationId = c.loc /\ c.loc # None /\ loadSpaces(c.id)
           /\ Next_(c, [c EXCEPT !.at = "availability", !.when = when, !.seen = written])
  <2> DEFINE d == [c EXCEPT !.at = "availability", !.when = when, !.seen = written]
  <2>1. /\ d \in Call /\ d.id = c.id /\ d.kind = c.kind /\ d.at = "availability"
        /\ d.when = when /\ d.loc = c.loc
    BY DEF SearchInv, TypeOK, Call, Stages
  <2>2. d.loc \in Locations /\ d.when \in Whens /\ Next_(c, d)
    BY <1>2, <2>1 DEF SearchInv, TypeOK
  <2> HIDE DEF d
  <2>3. calls' \subseteq Call /\ Numbered' /\ CallsKnowTheirs'
    BY <1>1, <2>1, <2>2, NextCall DEF locationAnswered
  <2>4. \A e \in calls' : e.id = c.id => e = d
    BY <2>2 DEF Next_, SearchInv, Numbered
  <2>5. LastAsksForPresent'
    BY <1>2, <2>1, <2>4 DEF locationAnswered, loadSpaces, LastAsksForPresent
  <2>6. c.id \in 0 .. MaxCalls
    BY CallsInRange DEF Call
  <2>7. TypeOK'
    BY <1>2, <2>3, <2>6 DEF SearchInv, TypeOK, locationAnswered, loadSpaces
  <2> QED
    BY <2>3, <2>5, <2>7 DEF SearchInv
<1>3. CASE Loaded(c) /\ UNCHANGED <<dayStatusRequestSeq, unasked>>
  <2>1. /\ calls' \subseteq Call /\ Numbered' /\ CallsKnowTheirs'
        /\ \A d \in calls' \ calls : ~LoadsSpaces(d)
        /\ loading' \in BOOLEAN
    BY <1>1, <1>3, LoadedKeeps DEF locationAnswered
  <2>2. TypeOK'
    BY <1>3, <2>1 DEF SearchInv, TypeOK, locationAnswered
  <2>3. LastAsksForPresent'
    BY <1>3, <2>1, AsksPreserved DEF locationAnswered
  <2> QED
    BY <2>1, <2>2, <2>3 DEF SearchInv
<1> QED
  BY <1>2, <1>3 DEF locationAnswered

LEMMA AvailabilityKeeps ==
    ASSUME SearchInv, NEW c \in calls, availabilityAnswered(c)
    PROVE  SearchInv'
<1> USE DEF shown, seqs, chosen
<1>1. c.kind \notin {"status", "check"} /\ c.loc \in Locations /\ c.when \in Whens
  BY DEF availabilityAnswered, SearchInv, CallsKnowTheirs, Loading
<1>2. ASSUME NEW v \in c.seen .. written,
             Next_(c, [c EXCEPT !.at = "daystatus", !.seen = v]), UNCHANGED loading
      PROVE  SearchInv'
  <2> DEFINE d == [c EXCEPT !.at = "daystatus", !.seen = v]
  <2>1. v \in Nat
    BY DEF SearchInv, TypeOK, Call
  <2>2. /\ d \in Call /\ d.id = c.id /\ d.kind = c.kind /\ d.at = "daystatus"
        /\ d.when = c.when /\ d.loc = c.loc
    BY <2>1 DEF SearchInv, TypeOK, Call, Stages
  <2>3. Next_(c, d)
    BY <1>2
  <2> HIDE DEF d
  <2>4. calls' \subseteq Call /\ Numbered' /\ CallsKnowTheirs'
    BY <1>1, <2>2, <2>3, NextCall DEF availabilityAnswered
  <2>5. LoadsSpaces(c)
    BY <1>1 DEF LoadsSpaces, Loading, availabilityAnswered
  <2>6. LastAsksForPresent'
    BY <2>2, <2>3, <2>5 DEF Next_, SearchInv, LastAsksForPresent, availabilityAnswered
  <2>7. TypeOK'
    BY <1>2, <2>4 DEF SearchInv, TypeOK, availabilityAnswered
  <2> QED
    BY <2>4, <2>6, <2>7 DEF SearchInv
<1>3. CASE Loaded(c)
  <2>1. /\ calls' \subseteq Call /\ Numbered' /\ CallsKnowTheirs'
        /\ \A d \in calls' \ calls : ~LoadsSpaces(d)
        /\ loading' \in BOOLEAN
    BY <1>1, <1>3, LoadedKeeps DEF availabilityAnswered
  <2>2. TypeOK'
    BY <1>3, <2>1 DEF SearchInv, TypeOK, availabilityAnswered
  <2>3. LastAsksForPresent'
    BY <1>3, <2>1, AsksPreserved DEF availabilityAnswered
  <2> QED
    BY <2>1, <2>2, <2>3 DEF SearchInv
<1> QED
  BY <1>2, <1>3 DEF availabilityAnswered

LEMMA DayStatusKeeps ==
    ASSUME SearchInv, NEW c \in calls, dayStatusAnswered(c)
    PROVE  SearchInv'
<1> USE DEF shown, seqs, chosen
<1>1. c.kind \notin {"status", "check"} /\ c.loc \in Locations /\ c.when \in Whens
  BY DEF dayStatusAnswered, SearchInv, CallsKnowTheirs, Loading
<1>2. data' \in Period \cup {None} /\ dayStatus' \in Status \cup {None}
  <2>1. c.when.day \in Nat /\ c.seen \in Nat
    BY <1>1, SearchAssumption DEF SearchInv, TypeOK, Call
  <2>2. /\ [loc |-> c.loc, when |-> c.when, seen |-> c.seen] \in Period
        /\ [loc |-> c.loc, day |-> c.when.day] \in Status
    BY <1>1, <2>1 DEF Period, Status
  <2> QED
    BY <2>2 DEF dayStatusAnswered, SearchInv, TypeOK
<1>3. /\ calls' \subseteq Call /\ Numbered' /\ CallsKnowTheirs'
      /\ \A d \in calls' \ calls : ~LoadsSpaces(d)
      /\ loading' \in BOOLEAN
  <2>1. CASE Loaded(c)
    BY <1>1, <2>1, LoadedKeeps DEF dayStatusAnswered
  <2>2. CASE Next_(c, [c EXCEPT !.at = "map", !.when = None, !.seen = 0]) /\ UNCHANGED loading
    <3> DEFINE d == [c EXCEPT !.at = "map", !.when = None, !.seen = 0]
    <3>1. d \in Call /\ d.id = c.id /\ d.kind = c.kind /\ d.at = "map"
      BY DEF SearchInv, TypeOK, Call, Stages
    <3>2. Next_(c, d) /\ ~Loading(d)
      BY <2>2, <3>1 DEF Loading
    <3> HIDE DEF d
    <3>3. calls' \subseteq Call /\ Numbered' /\ CallsKnowTheirs'
      BY <1>1, <3>1, <3>2, NextCall DEF dayStatusAnswered
    <3> QED
      BY <2>2, <3>2, <3>3 DEF Next_, LoadsSpaces, SearchInv, TypeOK
  <2> QED
    BY <2>1, <2>2 DEF dayStatusAnswered
<1>4. TypeOK'
  BY <1>2, <1>3 DEF SearchInv, TypeOK, dayStatusAnswered
<1>5. LastAsksForPresent'
  BY <1>3, AsksPreserved DEF dayStatusAnswered
<1> QED
  BY <1>3, <1>4, <1>5 DEF SearchInv

LEMMA CountKeeps ==
    ASSUME SearchInv, initCurrentBookingCount
    PROVE  SearchInv'
<1>1. TypeOK'
  BY DEF SearchInv, TypeOK, initCurrentBookingCount, shown, seqs
<1>2. UNCHANGED <<calls, sent, dayStatusRequestSeq, when, unasked>>
  BY DEF initCurrentBookingCount, seqs
<1> QED
  BY <1>1, <1>2 DEF SearchInv, Numbered, CallsKnowTheirs, LastAsksForPresent

-----------------------------------------------------------------------------
LEMMA InitInv == Init => SearchInv
<1> SUFFICES ASSUME Init PROVE SearchInv
  OBVIOUS
<1>1. 1 \in 1 .. MaxCalls /\ 0 \in 0 .. MaxCalls /\ 0 \in Nat
  BY SearchAssumption
<1> DEFINE d == [id |-> 1, kind |-> "init", at |-> "items", loc |-> None,
                 when |-> None, seen |-> 0]
<1>2. /\ d \in Call /\ d.id = 1 /\ ~Loading(d) /\ d.kind = "init"
  BY <1>1 DEF Call, Kinds, Stages, Loading
<1>3. calls = {d}
  BY DEF Init
<1> HIDE DEF d
<1>4. TypeOK
  BY <1>1, <1>2, <1>3, SearchAssumption DEF Init, TypeOK
<1>5. Numbered
  BY <1>2, <1>3 DEF Init, Numbered
<1>6. CallsKnowTheirs /\ LastAsksForPresent
  BY <1>2, <1>3 DEF Init, CallsKnowTheirs, LastAsksForPresent, LoadsSpaces
<1> QED
  BY <1>4, <1>5, <1>6 DEF SearchInv

LEMMA StepInv == SearchInv /\ [Next]_vars => SearchInv'
<1> SUFFICES ASSUME SearchInv, [Next]_vars PROVE SearchInv'
  OBVIOUS
<1>1. CASE Next
  BY <1>1, UserKeeps, MoveKeeps, SelectSpaceKeeps, CountKeeps, ItemsKeep, OtherAnswersKeep,
     LocationKeeps, AvailabilityKeeps, DayStatusKeeps DEF Next, User, Answer
<1>2. CASE UNCHANGED vars
  BY <1>2 DEF vars, SearchInv, TypeOK, Numbered, CallsKnowTheirs, LastAsksForPresent
<1> QED
  BY <1>1, <1>2

LEMMA SearchInvariant == Spec => []SearchInv
BY InitInv, StepInv, PTL DEF Spec

\* The variables of the search page have their types whatever answers come, and when.
THEOREM SearchTypeCorrect == Spec => []TypeOK
<1>1. SearchInv => TypeOK
  BY DEF SearchInv
<1> QED
  BY <1>1, SearchInvariant, PTL

-----------------------------------------------------------------------------
(* The refinement.                                                         *)

Selection == [loc |-> locationId, when |-> when]
Shown == IF data = None THEN None ELSE [loc |-> data.loc, when |-> data.when]

\* Only the answer on the status of the day changes what is shown.
LEMMA OnlyDayStatusShows ==
    ASSUME SearchInv, [Next]_vars
    PROVE  UNCHANGED data \/ \E c \in calls : dayStatusAnswered(c) /\ Current(c)
BY DEF Next, User, Answer, vars, shown, chosen, changeLocation, updateEnterAndLeaveDate,
   applySearch, onSpaceSelect, refreshPage, initCurrentBookingCount, loadItems, searched,
   attributesAnswered, locationAnswered, availabilityAnswered, dayStatusAnswered,
   mapAnswered, refreshDayStatusOnly, checkAnswered, Fail

\* What it shows is the selection, unless nothing has been asked for that.
LEMMA ShowsSelection ==
    ASSUME SearchInv, NEW c \in calls, dayStatusAnswered(c), Current(c)
    PROVE  View!Show
<1>1. c.loc \in Locations /\ c.when \in Whens /\ LoadsSpaces(c)
  BY DEF dayStatusAnswered, SearchInv, CallsKnowTheirs, Loading, LoadsSpaces
<1>2. data' = [loc |-> c.loc, when |-> c.when, seen |-> c.seen]
  BY DEF dayStatusAnswered
<1>3. data' # None
  <2>1. c.seen \in Nat
    BY DEF SearchInv, TypeOK, Call
  <2>2. data' \in Period
    BY <1>1, <1>2, <2>1 DEF Period
  <2> QED
    BY <2>2, SearchAssumption DEF Period
<1>4. Shown' = [loc |-> c.loc, when |-> c.when]
  BY <1>2, <1>3 DEF Shown
<1>5. Shown' \in Selections
  BY <1>1, <1>4 DEF Selections
<1>6. ~unasked => Shown' = Selection
  BY <1>1, <1>4 DEF SearchInv, LastAsksForPresent, Current, Selection
<1>7. UNCHANGED <<Selection, unasked>>
  BY DEF dayStatusAnswered, chosen, Selection
<1> QED
  BY <1>5, <1>6, <1>7 DEF View!Show, Shown, Selection

\* What the search page shows is, at the moment it comes in, what the user has chosen: the
\* steps of search.tsx implement LatestWins, whatever the order of the answers.
THEOREM SearchShowsTheSelection == Spec => ShowsTheSelection
<1>1. Init => View!Init
  <2> SUFFICES ASSUME Init PROVE View!Init
    OBVIOUS
  <2>1. TypeOK
    BY InitInv DEF SearchInv
  <2> QED
    BY <2>1 DEF Init, View!Init, TypeOK, Selections
<1>2. SearchInv /\ SearchInv' /\ [Next]_vars => [View!Select \/ View!Show]_View!vars
  <2> SUFFICES ASSUME SearchInv, SearchInv', [Next]_vars
               PROVE  View!Select \/ View!Show
    OBVIOUS
  <2>1. CASE UNCHANGED data
    <3>1. Selection' \in Selections /\ (~unasked)' \in BOOLEAN
      BY DEF SearchInv, TypeOK, Selection, Selections
    <3>2. UNCHANGED Shown
      BY <2>1 DEF Shown
    <3> QED
      BY <3>1, <3>2 DEF View!Select, Selection, Shown
  <2>2. CASE \E c \in calls : dayStatusAnswered(c) /\ Current(c)
    BY <2>2, ShowsSelection
  <2> QED
    BY <2>1, <2>2, OnlyDayStatusShows
<1> QED
  BY <1>1, <1>2, SearchInvariant, PTL DEF Spec, ShowsTheSelection, View!Spec

-----------------------------------------------------------------------------
(* What is shown in the end.                                               *)

\* A chain that will ask for the spaces of the area that is chosen.
Asks(c) == \/ c.at \in {"items", "search"}
           \/ c.at = "attributes" /\ c.kind = "init"
           \/ c.at = "attributes" /\ c.kind = "change" /\ c.loc = locationId
           \/ c.at = "location" /\ c.loc = locationId

\* The chain that asked for them last, and has what the user stored last.
Last(c) == LoadsSpaces(c) /\ c.id = dayStatusRequestSeq /\ c.loc = locationId
Brings(c) == Last(c) /\ c.when = when /\ c.seen = written
Shows == data = [loc |-> locationId, when |-> when, seen |-> written]

\* The spaces of the present choice will be asked for, or they have been, and then they are
\* shown or come with the last chain.
SpacesCome ==
    failed \/ unasked \/ locationId = None
    \/ (\E c \in calls : Asks(c))
    \/ /\ Shows \/ \E c \in calls : Brings(c)
       /\ \A c \in calls : Last(c) => c.seen = written

LEMMA AskingIsEnough ==
    ASSUME NEW c \in calls', Asks(c)'
    PROVE  SpacesCome'
BY DEF SpacesCome

\* A step that does not move the choice, and at which no chain begins or ends that matters.
LEMMA OthersCome ==
    ASSUME SpacesCome, UNCHANGED <<locationId, when, dayStatusRequestSeq, written, data, unasked, failed>>,
           \A c \in calls : Asks(c) \/ Brings(c) => c \in calls',
           \A c \in calls' \ calls : ~LoadsSpaces(c)
    PROVE  SpacesCome'
<1>1. \A c : /\ Asks(c)' <=> Asks(c)
             /\ Last(c)' <=> Last(c)
             /\ Brings(c)' <=> Brings(c)
  BY DEF Asks, Last, Brings, LoadsSpaces, Loading
<1>2. Shows' <=> Shows
  BY DEF Shows
<1>3. CASE failed \/ unasked \/ locationId = None
  BY <1>3 DEF SpacesCome
<1>4. CASE \E c \in calls : Asks(c)
  BY <1>1, <1>4 DEF SpacesCome
<1>5. CASE /\ Shows \/ \E c \in calls : Brings(c)
           /\ \A c \in calls : Last(c) => c.seen = written
  <2>1. Shows' \/ \E c \in calls' : Brings(c)'
    BY <1>1, <1>2, <1>5
  <2>2. \A c \in calls' : Last(c)' => c.seen = written'
    BY <1>1, <1>5 DEF Last
  <2> QED
    BY <2>1, <2>2 DEF SpacesCome
<1> QED
  BY <1>3, <1>4, <1>5 DEF SpacesCome

LEMMA SentAsks ==
    ASSUME NEW kind, NEW at, NEW l, Send(kind, at, l),
           \/ at = "search"
           \/ at = "attributes" /\ kind = "change" /\ l = locationId'
           \/ at = "location" /\ l = locationId'
    PROVE  SpacesCome'
<1>1. PICK d : d = New(kind, at, l)
  OBVIOUS
<1>2. d \in calls' /\ d.at = at /\ d.kind = kind /\ d.loc = l
  BY <1>1 DEF Send, New
<1>3. Asks(d)'
  BY <1>2 DEF Asks
<1> QED
  BY <1>2, <1>3, AskingIsEnough

LEMMA UserAsks ==
    ASSUME \/ \E l \in Locations : changeLocation(l)
           \/ applySearch \/ refreshPage
    PROVE  SpacesCome'
<1>1. CASE \E l \in Locations : changeLocation(l)
  BY <1>1, SentAsks DEF changeLocation
<1>2. CASE applySearch
  BY <1>2, SentAsks DEF applySearch
<1>3. CASE refreshPage
  BY <1>3, SentAsks DEF refreshPage, chosen
<1> QED
  BY <1>1, <1>2, <1>3

LEMMA SelectSpaceBrings ==
    ASSUME SearchInv, SpacesCome, onSpaceSelect
    PROVE  SpacesCome'
<1>1. PICK d : d = [New("check", "daystatus", data.loc) EXCEPT !.when = when]
  OBVIOUS
<1>2. d.kind = "check" /\ calls' = calls \cup {d}
  BY <1>1 DEF New, onSpaceSelect
<1> QED
  BY <1>2, OthersCome DEF onSpaceSelect, chosen, shown, LoadsSpaces

\* The period moves: its chain is the last, or nothing is asked for.
LEMMA MoveBrings ==
    ASSUME SearchInv, NEW w \in Whens, updateEnterAndLeaveDate(w)
    PROVE  SpacesCome'
<1>1. CASE unasked'
  BY <1>1 DEF SpacesCome
<1>2. CASE ~unasked'
  <2>1. PICK d : d = [New("dates", "availability", locationId) EXCEPT !.when = w, !.seen = written]
    OBVIOUS
  <2>2. /\ calls' = calls \cup {d} /\ dayStatusRequestSeq' = sent + 1
        /\ when' = w /\ locationId' = locationId /\ written' = written
    BY <1>2, <2>1 DEF updateEnterAndLeaveDate, loadSpaces
  <2>3. /\ d.at = "availability" /\ d.kind = "dates" /\ d.loc = locationId /\ d.when = w
        /\ d.seen = written /\ d.id = sent + 1
    BY <2>1 DEF New
  <2>4. \A c \in calls : c.id # sent + 1
    BY CallsInRange
  <2>5. Brings(d)'
    BY <2>2, <2>3 DEF Brings, Last, LoadsSpaces, Loading
  <2>6. \A c \in calls' : Last(c)' => c.seen = written'
    BY <2>2, <2>3, <2>4 DEF Last
  <2> QED
    BY <2>2, <2>5, <2>6 DEF SpacesCome
<1> QED
  BY <1>1, <1>2

\* What the ends of loadMap and loadSpaces leave behind loads no spaces.
LEMMA LoadedBrings ==
    ASSUME SearchInv, SpacesCome, NEW c \in calls, Loaded(c), ~Asks(c), ~Brings(c),
           UNCHANGED <<locationId, when, dayStatusRequestSeq, written, data, unasked, failed>>
    PROVE  SpacesCome'
<1>1. PICK d : d = [c EXCEPT !.at = "attributes", !.loc = None, !.when = None, !.seen = 0]
  OBVIOUS
<1>2. d.at = "attributes"
  BY <1>1 DEF SearchInv, TypeOK, Call
<1>3. calls' = calls \ {c} \/ calls' = (calls \ {c}) \cup {d}
  BY <1>1 DEF Loaded, End, Next_
<1>4. \A e \in calls' \ calls : ~LoadsSpaces(e)
  BY <1>2, <1>3 DEF LoadsSpaces, Loading
<1>5. \A e \in calls : Asks(e) \/ Brings(e) => e \in calls'
  BY <1>3
<1> QED
  BY <1>4, <1>5, OthersCome

LEMMA SearchedBrings ==
    ASSUME SearchInv, NEW c \in calls, searched(c)
    PROVE  SpacesCome'
<1>1. CASE locationId' = None
  BY <1>1 DEF SpacesCome
<1>2. CASE locationId' # None
  <2>1. PICK d : d = [c EXCEPT !.at = "location", !.loc = locationId']
    OBVIOUS
  <2>2. d \in calls'
    BY <1>2, <2>1 DEF searched, loadMap, Next_
  <2>3. d.at = "location" /\ d.loc = locationId'
    BY <2>1 DEF SearchInv, TypeOK, Call
  <2> QED
    BY <2>2, <2>3, AskingIsEnough DEF Asks
<1> QED
  BY <1>1, <1>2

LEMMA AttributesBring ==
    ASSUME SearchInv, SpacesCome, NEW c \in calls, attributesAnswered(c)
    PROVE  SpacesCome'
<1>1. UNCHANGED <<locationId, when, dayStatusRequestSeq, written, data, unasked, failed>>
  BY DEF attributesAnswered, chosen, shown, seqs
<1>2. c.at = "attributes"
  BY DEF attributesAnswered
<1>3. CASE c.kind = "search"
  <2>1. calls' = calls \ {c} /\ ~Asks(c) /\ ~Brings(c)
    BY <1>2, <1>3 DEF attributesAnswered, End, Asks, Brings, Last, LoadsSpaces, Loading
  <2> QED
    BY <1>1, <2>1, OthersCome
<1>4. CASE c.kind \in {"init", "change"}
  <2>1. PICK l : l = IF c.kind = "init" THEN locationId ELSE c.loc
    OBVIOUS
  <2>2. PICK d : d = [c EXCEPT !.at = "location", !.loc = l]
    OBVIOUS
  <2>3. d.at = "location" /\ d.loc = l
    BY <2>2 DEF SearchInv, TypeOK, Call
  <2>4. calls' = (calls \ {c}) \cup {d}
    BY <1>4, <2>1, <2>2 DEF attributesAnswered, loadMap, Next_
  <2>5. CASE Asks(c)
    <3>1. l = locationId'
      BY <1>1, <1>2, <1>4, <2>1, <2>5 DEF Asks
    <3> QED
      BY <2>3, <2>4, <3>1, AskingIsEnough DEF Asks
  <2>6. CASE ~Asks(c)
    <3>1. ~Brings(c) /\ ~LoadsSpaces(d)
      BY <1>2, <2>3 DEF Brings, Last, LoadsSpaces, Loading
    <3> QED
      BY <1>1, <2>4, <2>6, <3>1, OthersCome
  <2> QED
    BY <2>5, <2>6
<1> QED
  BY <1>3, <1>4 DEF attributesAnswered

\* Its spaces are asked for, and no chain is later.
LEMMA LocationBrings ==
    ASSUME SearchInv, SpacesCome, NEW c \in calls, locationAnswered(c)
    PROVE  SpacesCome'
<1>1. CASE locationId = c.loc /\ c.loc # None
  <2>1. PICK d : d = [c EXCEPT !.at = "availability", !.when = when, !.seen = written]
    OBVIOUS
  <2>2. /\ calls' = (calls \ {c}) \cup {d} /\ dayStatusRequestSeq' = c.id
        /\ when' = when /\ locationId' = locationId /\ written' = written
    BY <1>1, <2>1 DEF locationAnswered, loadSpaces, Next_
  <2>3. /\ d.at = "availability" /\ d.kind = c.kind /\ d.loc = c.loc /\ d.when = when
        /\ d.seen = written /\ d.id = c.id
    BY <2>1 DEF SearchInv, TypeOK, Call
  <2>4. c.kind \notin {"status", "check"}
    BY DEF SearchInv, CallsKnowTheirs, locationAnswered
  <2>5. \A e \in calls \ {c} : e.id # c.id
    BY DEF SearchInv, Numbered
  <2>6. Brings(d)'
    BY <1>1, <2>2, <2>3, <2>4 DEF Brings, Last, LoadsSpaces, Loading
  <2>7. \A e \in calls' : Last(e)' => e.seen = written'
    BY <2>2, <2>3, <2>5 DEF Last
  <2> QED
    BY <2>2, <2>6, <2>7 DEF SpacesCome
<1>2. CASE ~(locationId = c.loc /\ c.loc # None)
  <2>1. Loaded(c) /\ UNCHANGED <<locationId, when, dayStatusRequestSeq, written, data, unasked, failed>>
    BY <1>2 DEF locationAnswered, shown
  <2>2. CASE locationId = None
    BY <2>1, <2>2 DEF SpacesCome
  <2>3. CASE locationId # None
    <3>1. ~Asks(c) /\ ~Brings(c)
      BY <1>2, <2>3 DEF locationAnswered, Asks, Brings, Last, LoadsSpaces, Loading
    <3> QED
      BY <2>1, <3>1, LoadedBrings
  <2> QED
    BY <2>2, <2>3
<1> QED
  BY <1>1, <1>2

LEMMA BringsIsCurrent ==
    ASSUME SearchInv, NEW c \in calls
    PROVE  /\ Brings(c) => Current(c)
           /\ LoadsSpaces(c) /\ Current(c) => Last(c)
           /\ LoadsSpaces(c) /\ Current(c) /\ ~unasked => c.when = when
BY DEF Brings, Last, Current, SearchInv, LastAsksForPresent

LEMMA AvailabilityBrings ==
    ASSUME SearchInv, SpacesCome, NEW c \in calls, availabilityAnswered(c)
    PROVE  SpacesCome'
<1>1. UNCHANGED <<locationId, when, dayStatusRequestSeq, written, data, unasked, failed>>
  BY DEF availabilityAnswered, chosen, shown, seqs
<1>2. c.at = "availability" /\ ~Asks(c)
  BY DEF availabilityAnswered, Asks
<1>3. LoadsSpaces(c)
  BY <1>2 DEF LoadsSpaces, Loading, SearchInv, CallsKnowTheirs
<1>4. CASE ~Current(c)
  BY <1>1, <1>2, <1>4, LoadedBrings, BringsIsCurrent DEF availabilityAnswered
<1>5. CASE Current(c)
  <2>1. PICK v \in c.seen .. written : Next_(c, [c EXCEPT !.at = "daystatus", !.seen = v])
    BY <1>5 DEF availabilityAnswered
  <2>2. PICK d : d = [c EXCEPT !.at = "daystatus", !.seen = v]
    OBVIOUS
  <2>3. calls' = (calls \ {c}) \cup {d}
    BY <2>1, <2>2 DEF Next_
  <2>4. /\ d.at = "daystatus" /\ d.kind = c.kind /\ d.loc = c.loc /\ d.when = c.when
        /\ d.seen = v /\ d.id = c.id
    BY <2>2 DEF SearchInv, TypeOK, Call
  <2>5. CASE failed \/ unasked \/ locationId = None
    BY <1>1, <2>5 DEF SpacesCome
  <2>6. CASE \E e \in calls : Asks(e)
    <3>1. PICK e \in calls : Asks(e)
      BY <2>6
    <3>2. e \in calls' /\ Asks(e)'
      BY <1>1, <1>2, <2>3, <3>1 DEF Asks
    <3> QED
      BY <3>2, AskingIsEnough
  <2>7. CASE ~unasked /\ \A e \in calls : Last(e) => e.seen = written
    <3>1. Last(c) /\ c.when = when
      BY <1>3, <1>5, <2>7, BringsIsCurrent
    <3>2. c.seen = written /\ written \in Nat
      BY <2>7, <3>1 DEF SearchInv, TypeOK
    <3>3. v = written
      BY <3>2
    <3>4. Brings(d)'
      BY <1>1, <2>4, <3>1, <3>3 DEF Brings, Last, LoadsSpaces, Loading
    <3>5. \A e \in calls' : Last(e)' => e.seen = written'
      <4>1. \A e \in calls : Last(e)' <=> Last(e)
        BY <1>1 DEF Last, LoadsSpaces, Loading
      <4> QED
        BY <1>1, <2>3, <2>4, <2>7, <3>3, <4>1
    <3> QED
      BY <2>3, <3>4, <3>5 DEF SpacesCome
  <2> QED
    BY <2>5, <2>6, <2>7 DEF SpacesCome
<1> QED
  BY <1>4, <1>5

\* The answer of the last chain is what is to be shown.
LEMMA DayStatusBrings ==
    ASSUME SearchInv, SpacesCome, NEW c \in calls, dayStatusAnswered(c)
    PROVE  SpacesCome'
<1>1. UNCHANGED <<locationId, when, dayStatusRequestSeq, written, unasked, failed>>
  BY DEF dayStatusAnswered, chosen, seqs
<1>2. c.at = "daystatus" /\ ~Asks(c) /\ LoadsSpaces(c)
  BY DEF dayStatusAnswered, Asks, LoadsSpaces, Loading
<1>3. CASE ~Current(c)
  BY <1>1, <1>2, <1>3, LoadedBrings, BringsIsCurrent DEF dayStatusAnswered
<1>4. CASE Current(c)
  <2>1. PICK d : d = [c EXCEPT !.at = "attributes", !.loc = None, !.when = None, !.seen = 0]
    OBVIOUS
  <2>2. PICK e : e = [c EXCEPT !.at = "map", !.when = None, !.seen = 0]
    OBVIOUS
  <2>3. d.at = "attributes" /\ e.at = "map"
    BY <2>1, <2>2 DEF SearchInv, TypeOK, Call
  <2>4. /\ calls \ {c} \subseteq calls' /\ calls' \subseteq (calls \ {c}) \cup {d, e}
        /\ data' = [loc |-> c.loc, when |-> c.when, seen |-> c.seen]
    BY <1>4, <2>1, <2>2 DEF dayStatusAnswered, Loaded, End, Next_
  <2>5. CASE failed \/ unasked \/ locationId = None
    BY <1>1, <2>5 DEF SpacesCome
  <2>6. CASE \E a \in calls : Asks(a)
    <3>1. PICK a \in calls : Asks(a)
      BY <2>6
    <3>2. a \in calls' /\ Asks(a)'
      BY <1>1, <1>2, <2>4, <3>1 DEF Asks
    <3> QED
      BY <3>2, AskingIsEnough
  <2>7. CASE ~unasked /\ \A a \in calls : Last(a) => a.seen = written
    <3>1. Last(c) /\ c.when = when /\ c.seen = written
      BY <1>2, <1>4, <2>7, BringsIsCurrent
    <3>2. Shows'
      BY <1>1, <2>4, <3>1 DEF Shows, Last
    <3>3. \A a \in calls' : Last(a)' => a.seen = written'
      <4>1. \A a \in calls : Last(a)' <=> Last(a)
        BY <1>1 DEF Last, LoadsSpaces, Loading
      <4>2. ~Last(d)' /\ ~Last(e)'
        BY <2>3 DEF Last, LoadsSpaces, Loading
      <4> QED
        BY <1>1, <2>4, <2>7, <4>1, <4>2
    <3> QED
      BY <3>2, <3>3 DEF SpacesCome
  <2> QED
    BY <2>5, <2>6, <2>7 DEF SpacesCome
<1> QED
  BY <1>3, <1>4

\* A chain that asks for no spaces comes to its end.
LEMMA OtherAnswersBring ==
    ASSUME SearchInv, SpacesCome, NEW c \in calls,
           mapAnswered(c) \/ refreshDayStatusOnly(c) \/ checkAnswered(c)
    PROVE  SpacesCome'
<1>1. CASE mapAnswered(c)
  <2>1. ~Asks(c) /\ ~Brings(c) /\ Loaded(c)
    BY <1>1 DEF mapAnswered, Asks, Brings, Last, LoadsSpaces, Loading
  <2> QED
    BY <1>1, <2>1, LoadedBrings DEF mapAnswered, chosen, shown, seqs
<1>2. CASE refreshDayStatusOnly(c) \/ checkAnswered(c)
  <2>1. c.at = "daystatus" /\ c.kind \in {"status", "check"} /\ calls' = calls \ {c}
    BY <1>2 DEF refreshDayStatusOnly, checkAnswered, End, SearchInv, CallsKnowTheirs
  <2>2. ~Asks(c) /\ ~Brings(c)
    BY <2>1 DEF Asks, Brings, Last, LoadsSpaces
  <2> QED
    BY <1>2, <2>1, <2>2, OthersCome DEF refreshDayStatusOnly, checkAnswered, chosen, seqs
<1> QED
  BY <1>1, <1>2

LEMMA SpacesComeStep == SearchInv /\ SpacesCome /\ [Next]_vars => SpacesCome'
<1> SUFFICES ASSUME SearchInv, SpacesCome, [Next]_vars PROVE SpacesCome'
  OBVIOUS
<1>1. CASE User
  BY <1>1, UserAsks, MoveBrings, SelectSpaceBrings DEF User
<1>2. CASE initCurrentBookingCount
  BY <1>2, OthersCome DEF initCurrentBookingCount, shown, seqs
<1>3. ASSUME NEW c \in calls, Answer(c) PROVE SpacesCome'
  <2>1. CASE loadItems(c) \/ Fail(c)
    BY <2>1 DEF loadItems, Fail, SpacesCome
  <2> QED
    BY <1>3, <2>1, SearchedBrings, AttributesBring, LocationBrings, AvailabilityBrings,
       DayStatusBrings, OtherAnswersBring DEF Answer
<1>4. CASE UNCHANGED vars
  BY <1>4, OthersCome DEF vars
<1> QED
  BY <1>1, <1>2, <1>3, <1>4 DEF Next

\* When everything is answered and nothing has failed, the page shows the spaces of the area
\* and the period that are chosen, with what the user has booked or cancelled last: however
\* many areas and periods were chosen, and whatever order the answers of search.tsx came in.
THEOREM SearchSettles == Spec => []SettledIsCurrent
<1>1. Init => SpacesCome
  BY DEF Init, SpacesCome
<1>2. SpacesCome => SettledIsCurrent
  BY DEF SpacesCome, SettledIsCurrent, Shows
<1> QED
  BY <1>1, <1>2, SpacesComeStep, SearchInvariant, PTL DEF Spec

=============================================================================

------------------------------ MODULE SearchPage ------------------------------
(***************************************************************************)
(* The search page of the web client: the user picks an area and a period, *)
(* and the page asks the server for the area's attributes, its spaces and  *)
(* their bookings, the status of the day and the floor plan.  The answers  *)
(* come in any order, or not at all, while the user goes on.               *)
(*                                                                         *)
(* A chain of requests, each sent when the one before is answered, is a    *)
(* record in calls; `at' is the request that is out.                       *)
(***************************************************************************)
EXTENDS Integers, FiniteSets

CONSTANTS Locations, Whens,   \* areas; periods [day, until]
          Searchable,         \* those in the future and of a lawful length
          InitDates,          \* the period initDates begins with
          Preferred,          \* the user's preferred area
          Now,                \* the period before that: the moment the page is opened
          None,
          MaxCalls, MaxOpen   \* bounds on the chains started, and at work at a time

ASSUME SearchAssumption ==
    /\ None \notin Locations \cup [loc : Locations, when : Whens, seen : Nat]
    /\ Preferred \in Locations \cup {None}
    /\ \A w \in Whens : w.day \in Nat
    /\ Searchable \subseteq Whens /\ {Now, InitDates} \subseteq Whens
    /\ MaxCalls \in Nat \ {0} /\ MaxOpen \in Nat

VARIABLES listed,        \* this.locations: the areas that can be chosen
          locationId, when, loading,
          data,          \* this.data: the spaces shown, of an area and a period
          dayStatus,     \* the area and day of dayStatusBySpaceId
          atLimit,       \* curBookingCount >= maxBookingsPerUser
          counting,      \* initCurrentBookingCount has asked for the user's bookings
          calls, sent,
          dayStatusRequestSeq, modalAvailabilityRequestSeq, \* the last chain to count on
          written,       \* the user's bookings and cancellations stored
          failed,        \* a request of a chain failed and nobody catches it
          unasked        \* the period was moved without asking for its spaces

vars == <<listed, locationId, when, loading, data, dayStatus, atLimit, counting, calls,
          sent, dayStatusRequestSeq, modalAvailabilityRequestSeq, written, failed,
          unasked>>

chosen == <<listed, locationId, when, atLimit, counting, unasked>>
shown == <<data, dayStatus>>
seqs == <<dayStatusRequestSeq, modalAvailabilityRequestSeq>>

Kinds == {"init", "change", "search", "refresh", "dates", "status", "check"}
Stages == {"items", "attributes", "location", "availability", "daystatus", "map",
           "search"}
Call == [id : 1 .. MaxCalls, kind : Kinds, at : Stages, loc : Locations \cup {None},
         when : Whens \cup {None}, seen : Nat]

\* The first request of a new chain, for area l.
New(kind, at, l) ==
    [id |-> sent + 1, kind |-> kind, at |-> at, loc |-> l, when |-> None, seen |-> 0]
Send(kind, at, l) == /\ calls' = calls \cup {New(kind, at, l)}
                     /\ sent' = sent + 1
CanSend == sent < MaxCalls /\ Cardinality(calls) < MaxOpen

\* The answer to c has come and the chain sends its next request.
Next_(c, d) == calls' = (calls \ {c}) \cup {d}
End(c) == calls' = calls \ {c}

-----------------------------------------------------------------------------
Init ==
    /\ listed = {} /\ locationId = None /\ when = Now
    /\ loading = TRUE
    /\ data = None /\ dayStatus = None
    /\ atLimit = FALSE /\ counting = FALSE
    /\ calls = {[id |-> 1, kind |-> "init", at |-> "items", loc |-> None,
                 when |-> None, seen |-> 0]}
    /\ sent = 1 /\ dayStatusRequestSeq = 0 /\ modalAvailabilityRequestSeq = 0
    /\ written = 0 /\ failed = FALSE /\ unasked = TRUE

\* The next day, or hours of today, that the preferences ask for.
initDates == when' = InitDates

\* The area to select when prev was selected: kept, preferred, or the first.
getPreferredLocationId(prev, ls) ==
    IF prev \in ls THEN {prev}
    ELSE IF Preferred \in ls THEN {Preferred}
    ELSE IF ls = {} THEN {None} ELSE ls

updateCanSearch(l, w, limit) == l # None /\ w \in Searchable /\ ~limit

\* loadMap: the first request for an area.
loadMap(c, l) == loading' = TRUE /\ Next_(c, [c EXCEPT !.at = "location", !.loc = l])

\* loadSpaces asks for the present period; its answer counts until the next one asks.
loadSpaces(id) == /\ loading' = TRUE
                  /\ dayStatusRequestSeq' = id
                  /\ unasked' = FALSE

\* Mutants of Current: without the number of the request; with the number alone.
CurrentOfAnyRequest(c) == locationId = c.loc /\ when.day = c.when.day
CurrentByRequest(c) == dayStatusRequestSeq = c.id

Current(c) == /\ dayStatusRequestSeq = c.id
              /\ locationId = c.loc
              /\ when.day = c.when.day

\* Mutant of Loaded: the spinner is left to another chain.
LoadedLeavesSpinner(c) == End(c) /\ UNCHANGED loading

\* What the caller of loadMap or loadSpaces does when that ends, with or without
\* having loaded anything: applySearch still asks for the attributes of the area.
Loaded(c) ==
    IF c.kind # "search" THEN loading' = FALSE /\ End(c)
    ELSE /\ UNCHANGED loading
         /\ IF locationId \in listed
            THEN Next_(c, [c EXCEPT !.at = "attributes", !.loc = None, !.when = None, !.seen = 0])
            ELSE End(c)

-----------------------------------------------------------------------------
\* The user at the controls of the page: an area of the list, a period.
Picked(w) == w # when /\ CanSend
changeLocation(l) ==
    /\ l \in listed \ {locationId} /\ CanSend
    /\ locationId' = l /\ loading' = TRUE
    /\ Send("change", "attributes", l)
    /\ UNCHANGED <<listed, when, shown, atLimit, counting, seqs, written,
                   failed, unasked>>

\* The period moves: its spaces are loaded if it can be searched, else only the
\* status of the day.
updateEnterAndLeaveDate(w) ==
    /\ Picked(w)
    /\ when' = w
    /\ \/ /\ updateCanSearch(locationId, w, atLimit)
          /\ loadSpaces(sent + 1)
          /\ calls' = calls \cup
                {[New("dates", "availability", locationId) EXCEPT !.when = w, !.seen = written]}
          /\ sent' = sent + 1 /\ counting' = TRUE /\ UNCHANGED dayStatus
       \/ /\ ~updateCanSearch(locationId, w, atLimit) /\ locationId # None
          /\ dayStatusRequestSeq' = sent + 1 /\ unasked' = TRUE
          /\ calls' = calls \cup
                {[New("status", "daystatus", locationId) EXCEPT !.when = w]}
          /\ sent' = sent + 1 /\ UNCHANGED <<counting, loading, dayStatus>>
       \/ /\ ~updateCanSearch(locationId, w, atLimit) /\ locationId = None
          /\ dayStatus' = None /\ loading' = FALSE /\ unasked' = TRUE
          /\ UNCHANGED <<calls, sent, counting, dayStatusRequestSeq>>
    /\ UNCHANGED <<listed, locationId, data, atLimit, modalAvailabilityRequestSeq, written, failed>>

applySearch ==
    /\ CanSend
    /\ loading' = TRUE /\ Send("search", "search", None)
    /\ UNCHANGED <<chosen, shown, seqs, written, failed>>

\* onSpaceSelect opens the dialog and checks the space for its period.
onSpaceSelect ==
    /\ ~loading /\ data # None /\ CanSend
    /\ calls' = calls \cup {[New("check", "daystatus", data.loc) EXCEPT !.when = when]}
    /\ sent' = sent + 1
    /\ modalAvailabilityRequestSeq' = sent + 1
    /\ UNCHANGED <<chosen, loading, shown, dayStatusRequestSeq, written, failed>>

\* The dialog ends with a booking or a cancellation stored, or refused, and the page
\* loads again: the button of the success message, or the answer to cancelBooking.
refreshPage ==
    /\ data # None /\ CanSend /\ written' \in {written, written + 1}
    /\ loading' = TRUE /\ Send("refresh", "location", locationId)
    /\ UNCHANGED <<chosen, shown, seqs, failed>>

-----------------------------------------------------------------------------
\* The four lists of loadItems are there, all areas among them: dates and area are
\* chosen.  (That a space named in the address is then opened is onSpaceSelect.)
loadItems(c) ==
    /\ c.at = "items"
    /\ listed' = Locations /\ initDates /\ unasked' = TRUE
    /\ \/ /\ locationId = None
          /\ \E l \in Locations : /\ locationId' = l
                                  /\ Next_(c, [c EXCEPT !.at = "attributes"])
          /\ UNCHANGED loading
       \/ /\ locationId # None \/ Locations = {}
          /\ loading' = FALSE /\ End(c) /\ UNCHANGED locationId
    /\ UNCHANGED <<shown, atLimit, counting, sent, seqs, written, failed>>

searched(c) ==
    /\ c.at = "search"
    /\ \E ls \in SUBSET Locations : \E l \in getPreferredLocationId(locationId, ls) :
         /\ listed' = ls /\ locationId' = l
         /\ IF l = None THEN loading' = FALSE /\ End(c) ELSE loadMap(c, l)
    /\ UNCHANGED <<when, atLimit, counting, unasked, shown, sent, seqs, written, failed>>

\* The attributes of the area: asked for first when it is selected, last in applySearch.
attributesAnswered(c) ==
    /\ c.at = "attributes"
    /\ \/ c.kind \in {"init", "change"}
          /\ loadMap(c, IF c.kind = "init" THEN locationId ELSE c.loc)
       \/ c.kind = "search" /\ loading' = FALSE /\ End(c)
    /\ UNCHANGED <<chosen, shown, sent, seqs, written, failed>>

locationAnswered(c) ==
    /\ c.at = "location"
    /\ \/ /\ locationId = c.loc /\ c.loc # None
          /\ loadSpaces(c.id)
          /\ Next_(c, [c EXCEPT !.at = "availability", !.when = when, !.seen = written])
       \/ /\ locationId # c.loc \/ c.loc = None
          /\ Loaded(c) /\ UNCHANGED <<dayStatusRequestSeq, unasked>>
    /\ UNCHANGED <<listed, locationId, when, atLimit, counting, shown, sent, modalAvailabilityRequestSeq, written, failed>>

\* The server read the bookings at some moment since it was asked.
availabilityAnswered(c) ==
    /\ c.at = "availability"
    /\ \/ /\ Current(c)
          /\ \E v \in c.seen .. written :
               Next_(c, [c EXCEPT !.at = "daystatus", !.seen = v])
          /\ UNCHANGED loading
       \/ ~Current(c) /\ Loaded(c)
    /\ UNCHANGED <<chosen, shown, sent, seqs, written, failed>>

\* A failure to read the status of the day leaves it empty.
dayStatusAnswered(c) ==
    /\ c.at = "daystatus" /\ c.kind \notin {"status", "check"}
    /\ \/ /\ Current(c)
          /\ data' = [loc |-> c.loc, when |-> c.when, seen |-> c.seen]
          /\ dayStatus' \in {None, [loc |-> c.loc, day |-> c.when.day]}
          /\ \/ c.kind = "dates" /\ Loaded(c)
             \/ /\ c.kind # "dates" /\ UNCHANGED loading
                /\ Next_(c, [c EXCEPT !.at = "map", !.when = None, !.seen = 0])
       \/ ~Current(c) /\ Loaded(c) /\ UNCHANGED <<data, dayStatus>>
    /\ UNCHANGED <<chosen, sent, seqs, written, failed>>

mapAnswered(c) ==
    /\ c.at = "map" /\ Loaded(c)
    /\ UNCHANGED <<chosen, shown, sent, seqs, written, failed>>

refreshDayStatusOnly(c) ==
    /\ c.kind = "status"
    /\ \/ /\ Current(c) /\ loading' = FALSE
          /\ dayStatus' \in {None, [loc |-> c.loc, day |-> c.when.day]}
       \/ ~Current(c) /\ UNCHANGED <<loading, dayStatus>>
    /\ End(c)
    /\ UNCHANGED <<chosen, data, sent, seqs, written, failed>>

\* One of the answers to Booking.list that are out; curBookingCount is the last.
initCurrentBookingCount ==
    /\ counting /\ counting' \in BOOLEAN /\ atLimit' \in BOOLEAN
    /\ UNCHANGED <<listed, locationId, when, unasked, loading, shown, calls, sent, seqs,
                   written, failed>>

\* The first answer of checkModalAvailability replaces the status of the day.
checkAnswered(c) ==
    /\ c.kind = "check" /\ End(c)
    /\ dayStatus' \in IF modalAvailabilityRequestSeq = c.id
                      THEN {dayStatus, [loc |-> c.loc, day |-> c.when.day]} ELSE {dayStatus}
    /\ UNCHANGED <<chosen, loading, data, sent, seqs,
                   written, failed>>

\* A request whose failure nobody catches: the chain ends there.
Fail(c) ==
    /\ ~failed /\ c.at # "daystatus" /\ End(c)
    /\ failed' = TRUE
    /\ UNCHANGED <<chosen, loading, shown, sent, seqs, written>>

Answer(c) ==
    \/ loadItems(c) \/ searched(c) \/ attributesAnswered(c) \/ locationAnswered(c)
    \/ availabilityAnswered(c) \/ dayStatusAnswered(c) \/ mapAnswered(c)
    \/ refreshDayStatusOnly(c) \/ checkAnswered(c) \/ Fail(c)

User ==
    \/ \E l \in Locations : changeLocation(l)
    \/ \E w \in Whens : updateEnterAndLeaveDate(w)
    \/ applySearch \/ onSpaceSelect \/ refreshPage

Next == User \/ initCurrentBookingCount \/ \E c \in calls : Answer(c)

\* Every request is answered or fails, in the end; the user need not do anything.
Fairness == \A n \in 1 .. MaxCalls : WF_vars(\E c \in calls : c.id = n /\ Answer(c))
Spec == Init /\ [][Next]_vars /\ Fairness
-----------------------------------------------------------------------------
Period == [loc : Locations, when : Whens, seen : Nat]
Status == [loc : Locations, day : Nat]

TypeOK ==
    /\ listed \subseteq Locations /\ locationId \in Locations \cup {None}
    /\ when \in Whens /\ loading \in BOOLEAN
    /\ data \in Period \cup {None} /\ dayStatus \in Status \cup {None}
    /\ atLimit \in BOOLEAN /\ counting \in BOOLEAN
    /\ calls \subseteq Call /\ sent \in 1 .. MaxCalls
    /\ dayStatusRequestSeq \in 0 .. MaxCalls /\ modalAvailabilityRequestSeq \in 0 .. MaxCalls
    /\ written \in Nat /\ failed \in BOOLEAN /\ unasked \in BOOLEAN

\* What the page shows are the spaces of the area and the period that were chosen
\* when they came in: no answer to an earlier choice gets through the guards of
\* loadSpaces (the area, the day, the number of the request).
Selections == [loc : Locations \cup {None}, when : Whens]
View == INSTANCE LatestWins WITH
            Nothing <- None,
            selection <- [loc |-> locationId, when |-> when],
            asked <- ~unasked,
            shown <- IF data = None THEN None ELSE [loc |-> data.loc, when |-> data.when]
ShowsTheSelection == View!Spec

\* Once every answer is in and none failed, the spaces shown are those of the chosen
\* area and period with the user's last booking or cancellation in them.
SettledIsCurrent ==
    calls = {} /\ ~failed /\ ~unasked /\ locationId # None =>
        data = [loc |-> locationId, when |-> when, seen |-> written]

\* The page does not stay covered by the spinner, unless a request failed.
LoadingEnds == loading ~> ~loading \/ failed
=============================================================================

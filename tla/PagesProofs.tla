----------------------------- MODULE PagesProofs -----------------------------
(***************************************************************************)
(* Theorems about the pages and dialogs of the client and the cache of the *)
(* settings, for every value of their constants: each section has the      *)
(* inductive invariant of a page, one step per action of it, and the       *)
(* theorem that the page keeps its promise.  The last section puts them    *)
(* together, with the pages and sessions of LoginProofs.                   *)
(***************************************************************************)
EXTENDS MCPages, LoginProofs, FiniteSetTheorems, TLAPS

-----------------------------------------------------------------------------
(* The booking dialog                                                      *)
Writing == {"save", "series", "delete"}

\* The dialog that is shown is that of a space and a period.
Opened == showConfirm => selectedSpace \in Spaces /\ range \in Ranges

\* The checks that are out are of a space and a period, too.
ChecksAreOfSpaces ==
    \A r \in requests : r.fn \in {"status", "availability"} =>
        r.space \in Spaces /\ r.range \in Ranges

\* While a request that writes is out, no other can be sent.
WritersConfirm == \A r \in requests : r.fn \in Writing => confirmingBooking

\* What the dialog calls available the server has called free, or no slot is chosen.
AvailableWasAnswered ==
    showConfirm /\ ~modalAvailabilityLoading /\ modalSpaceAvailable =>
        \/ selectedSpace \in Fixed /\ ~slotChosen
        \/ <<selectedSpace, range>> \in answered

DialogInv == /\ DialogTypeOK /\ Opened /\ ChecksAreOfSpaces
             /\ WritersConfirm /\ OneWriteAtATime /\ AvailableWasAnswered

-----------------------------------------------------------------------------
\* The recurrences that the actions write.
LEMMA NoRecurrenceType == NoRecurrence \in Recurrences
BY DEF NoRecurrence, Recurrences

LEMMA RecurrenceTypes ==
    ASSUME NEW rec \in Recurrences, NEW v \in BOOLEAN
    PROVE  /\ [rec EXCEPT !.active = v] \in Recurrences
           /\ [rec EXCEPT !.checked = v] \in Recurrences
           /\ [rec EXCEPT !.loading = v] \in Recurrences
BY DEF Recurrences

LEMMA PrecheckedType ==
    ASSUME NEW rec \in Recurrences, NEW n \in 0 .. 1
    PROVE  [rec EXCEPT !.loading = FALSE, !.finalNumBookings = n, !.checked = TRUE]
               \in Recurrences
BY DEF Recurrences

-----------------------------------------------------------------------------
(* The requests that are out, under the ways in which they change.         *)

\* A request for nothing but fn.
LEMMA AskForRequests ==
    ASSUME DialogInv, NEW fn \in {"precheck", "save", "series", "delete"}, AskFor(fn)
    PROVE  /\ requests' \subseteq Requests /\ requestsSent' \in 0 .. MaxRequests
           /\ \E n \in requests' : n.fn = fn /\ requests' = requests \cup {n}
<1>1. Ask(fn) \in Requests
  BY DialogAssumption DEF DialogInv, DialogTypeOK, AskFor, MayAsk, Ask, Requests
<1>2. Ask(fn).fn = fn
  BY DEF Ask
<1> QED
  BY <1>1, <1>2, DialogAssumption DEF DialogInv, DialogTypeOK, AskFor, MayAsk

\* A check of a space and a period.
LEMMA CheckRequests ==
    ASSUME DialogInv, NEW s \in Spaces, NEW g \in Ranges, checkModalAvailability(s, g)
    PROVE  /\ requests' \subseteq Requests /\ requestsSent' \in 0 .. MaxRequests
           /\ modalSeq' \in 0 .. MaxRequests
           /\ \E n \in requests' : /\ n.fn = "status" /\ n.space = s /\ n.range = g
                                   /\ requests' = requests \cup {n}
<1> DEFINE n == [id |-> requestsSent + 1, fn |-> "status", space |-> s, range |-> g]
<1>1. n \in Requests
  BY DialogAssumption DEF DialogInv, DialogTypeOK, checkModalAvailability, MayAsk, Requests
<1>2. requests' = requests \cup {n}
  BY DEF checkModalAvailability
<1>3. n.fn = "status" /\ n.space = s /\ n.range = g
  OBVIOUS
<1>4. requestsSent' \in 0 .. MaxRequests /\ modalSeq' \in 0 .. MaxRequests
  BY DialogAssumption DEF DialogInv, DialogTypeOK, checkModalAvailability, MayAsk
<1> HIDE DEF n
<1> QED
  BY <1>1, <1>2, <1>3, <1>4 DEF DialogInv, DialogTypeOK

\* The next request of the same task takes the place of the one that was answered.
LEMMA ThenRequests ==
    ASSUME DialogInv, NEW r \in requests,
           NEW fn \in {"availability", "delete"}, Then(r, fn)
    PROVE  /\ requests' \subseteq Requests /\ requestsSent' = requestsSent
           /\ \E n \in requests' : /\ n.fn = fn /\ n.space = r.space /\ n.range = r.range
                                   /\ requests' = (requests \ {r}) \cup {n}
<1> DEFINE n == [r EXCEPT !.fn = fn]
<1>1. n \in Requests /\ n.fn = fn /\ n.space = r.space /\ n.range = r.range
  BY DEF DialogInv, DialogTypeOK, Requests
<1>2. requests' = (requests \ {r}) \cup {n} /\ requestsSent' = requestsSent
  BY DEF Then
<1> HIDE DEF n
<1> QED
  BY <1>1, <1>2 DEF DialogInv, DialogTypeOK

-----------------------------------------------------------------------------
(* One lemma for each group of actions.                                    *)

LEMMA OpenKeeps ==
    ASSUME DialogInv, NEW s \in Spaces, onSpaceSelect(s)
    PROVE  DialogInv'
<1>1. /\ selectedSpace' = s /\ range' \in Ranges /\ slotChosen' \in BOOLEAN
      /\ open' \subseteq Ranges
  BY DEF onSpaceSelect, initializeModalBookingRange
<1>2. CASE checkModalAvailability(s, range')
  <2>1. PICK n \in requests' : n.fn = "status" /\ n.space = s /\ n.range = range'
                               /\ requests' = requests \cup {n}
    BY <1>1, <1>2, CheckRequests
  <2>2. requests' \subseteq Requests /\ requestsSent' \in 0 .. MaxRequests
        /\ modalSeq' \in 0 .. MaxRequests
    BY <1>1, <1>2, CheckRequests
  <2>3. modalAvailabilityLoading'
    BY <1>2 DEF checkModalAvailability
  <2>4. DialogTypeOK'
    BY <1>1, <1>2, <2>2, NoRecurrenceType DEF DialogInv, DialogTypeOK, onSpaceSelect, checkModalAvailability
  <2>5. OneWriteAtATime' /\ WritersConfirm'
    BY <2>1 DEF DialogInv, onSpaceSelect, OneWriteAtATime, WritersConfirm, Writing
  <2> QED
    BY <1>1, <2>1, <2>3, <2>4, <2>5
       DEF DialogInv, onSpaceSelect, Opened, ChecksAreOfSpaces, AvailableWasAnswered
<1>3. CASE s \in Fixed /\ ~slotChosen' /\ modalAvailabilityLoading' = FALSE
           /\ UNCHANGED <<requests, requestsSent, modalSeq>>
  <2>1. DialogTypeOK'
    BY <1>1, <1>3, NoRecurrenceType DEF DialogInv, DialogTypeOK, onSpaceSelect
  <2> QED
    BY <1>1, <1>3, <2>1 DEF DialogInv, onSpaceSelect, Opened, ChecksAreOfSpaces,
       WritersConfirm, OneWriteAtATime, AvailableWasAnswered
<1> QED
  BY <1>2, <1>3 DEF onSpaceSelect

LEMMA MoveKeeps ==
    ASSUME DialogInv, NEW g \in Ranges, updateModalBookingRange(g)
    PROVE  DialogInv'
<1>1. selectedSpace \in Spaces /\ checkModalAvailability(selectedSpace, g)
  BY DEF DialogInv, Opened, updateModalBookingRange
<1>2. PICK n \in requests' : n.fn = "status" /\ n.space = selectedSpace /\ n.range = g
                             /\ requests' = requests \cup {n}
  BY <1>1, CheckRequests
<1>3. requests' \subseteq Requests /\ requestsSent' \in 0 .. MaxRequests
      /\ modalSeq' \in 0 .. MaxRequests
  BY <1>1, CheckRequests
<1>4. modalAvailabilityLoading' = TRUE
  BY <1>1 DEF checkModalAvailability
<1>5. recurrence' \in Recurrences
  BY RecurrenceTypes DEF DialogInv, DialogTypeOK, updateModalBookingRange
<1>6. DialogTypeOK'
  <2>1. slotChosen' \in BOOLEAN
    BY DEF updateModalBookingRange
  <2> QED
    BY <1>1, <1>3, <1>4, <1>5, <2>1 DEF DialogInv, DialogTypeOK, updateModalBookingRange
<1>7. OneWriteAtATime' /\ WritersConfirm'
  BY <1>2 DEF DialogInv, updateModalBookingRange, OneWriteAtATime, WritersConfirm, Writing
<1> QED
  BY <1>1, <1>2, <1>4, <1>6, <1>7
     DEF DialogInv, updateModalBookingRange, Opened, ChecksAreOfSpaces, AvailableWasAnswered

LEMMA CheckAnswersKeep ==
    ASSUME DialogInv, NEW r \in requests, statusAnswered(r) \/ availabilityAnswered(r)
    PROVE  DialogInv'
<1>1. CASE statusAnswered(r)
  <2>1. open' \subseteq Ranges
    BY <1>1 DEF DialogInv, DialogTypeOK, statusAnswered
  <2>2. CASE Then(r, "availability") /\ UNCHANGED <<modalAvailabilityLoading, modalSpaceAvailable>>
    <3>1. PICK n \in requests' : n.fn = "availability" /\ n.space = r.space /\ n.range = r.range
                                 /\ requests' = (requests \ {r}) \cup {n}
      BY <2>2, ThenRequests
    <3>2. DialogTypeOK'
      BY <1>1, <2>1, <2>2, ThenRequests DEF DialogInv, DialogTypeOK, statusAnswered, target
    <3>3. OneWriteAtATime' /\ WritersConfirm'
      BY <1>1, <3>1 DEF DialogInv, statusAnswered, OneWriteAtATime, WritersConfirm, Writing
    <3> QED
      BY <1>1, <2>2, <3>1, <3>2, <3>3 DEF DialogInv, statusAnswered, target, Opened,
         ChecksAreOfSpaces, AvailableWasAnswered
  <2>3. CASE /\ Done(r)
             /\ \/ ~modalAvailabilityLoading' /\ ~modalSpaceAvailable'
                \/ UNCHANGED <<modalAvailabilityLoading, modalSpaceAvailable>>
    <3>1. DialogTypeOK'
      BY <1>1, <2>1, <2>3 DEF DialogInv, DialogTypeOK, statusAnswered, target, Done
    <3> QED
      BY <1>1, <2>3, <3>1 DEF DialogInv, statusAnswered, target, Done, Opened,
         ChecksAreOfSpaces, WritersConfirm, OneWriteAtATime, AvailableWasAnswered
  <2> QED
    BY <1>1, <2>2, <2>3 DEF statusAnswered
<1>2. CASE availabilityAnswered(r)
  <2>1. requests' = requests \ {r} /\ requestsSent' = requestsSent
    BY <1>2 DEF availabilityAnswered, Done
  <2>2. r.space \in Spaces /\ r.range \in Ranges
    BY <1>2 DEF DialogInv, ChecksAreOfSpaces, availabilityAnswered
  <2>3. /\ modalAvailabilityLoading' \in BOOLEAN /\ modalSpaceAvailable' \in BOOLEAN
        /\ answered' \subseteq Spaces \X Ranges
    <3>1. /\ modalAvailabilityLoading' \in BOOLEAN /\ modalSpaceAvailable' \in BOOLEAN
          /\ answered' \in {answered, answered \cup {<<r.space, r.range>>}}
      BY <1>2 DEF DialogInv, DialogTypeOK, availabilityAnswered
    <3>2. answered \subseteq Spaces \X Ranges
      BY DEF DialogInv, DialogTypeOK
    <3> QED
      BY <2>2, <3>1, <3>2
  <2>4. DialogTypeOK'
    BY <1>2, <2>1, <2>3 DEF DialogInv, DialogTypeOK, availabilityAnswered, target
  <2>5. AvailableWasAnswered'
    <3>1. CASE isCurrentRequest(r) /\ ~modalSpaceAvailable'
      BY <3>1 DEF AvailableWasAnswered
    <3>2. CASE isCurrentRequest(r) /\ modalSpaceAvailable'
      <4>1. answered' = answered \cup {<<selectedSpace, range>>}
        BY <1>2, <3>2 DEF availabilityAnswered, isCurrentRequest
      <4> QED
        BY <1>2, <4>1 DEF AvailableWasAnswered, availabilityAnswered, target
    <3>3. CASE ~isCurrentRequest(r)
      <4>1. UNCHANGED <<modalAvailabilityLoading, modalSpaceAvailable, answered,
                        target, showConfirm>>
        BY <1>2, <3>3 DEF availabilityAnswered
      <4> QED
        BY <4>1 DEF DialogInv, AvailableWasAnswered, target
    <3> QED
      BY <3>1, <3>2, <3>3
  <2> QED
    BY <1>2, <2>1, <2>4, <2>5 DEF DialogInv, availabilityAnswered, target, Opened,
       ChecksAreOfSpaces, WritersConfirm, OneWriteAtATime
<1> QED
  BY <1>1, <1>2

\* The recurrence and its precheck.
LEMMA RecurrenceKeeps ==
    ASSUME DialogInv,
           \/ onRecurrenceOptionsChanged \/ resetRecurrence \/ applyRecurrence
           \/ \E r \in requests : precheckAnswered(r)
    PROVE  DialogInv'
<1> USE DEF target, check
<1>1. CASE onRecurrenceOptionsChanged \/ resetRecurrence
  <2>1. recurrence' \in Recurrences
    <3>1. CASE onRecurrenceOptionsChanged
      <4>1. PICK repeat \in BOOLEAN :
                recurrence' = [[recurrence EXCEPT !.active = repeat] EXCEPT !.checked = FALSE]
        BY <3>1 DEF onRecurrenceOptionsChanged, RecurrenceOptions
      <4>2. [recurrence EXCEPT !.active = repeat] \in Recurrences
        BY RecurrenceTypes DEF DialogInv, DialogTypeOK
      <4> QED
        BY <4>1, <4>2, RecurrenceTypes
    <3>2. CASE resetRecurrence
      BY <3>2, NoRecurrenceType DEF resetRecurrence
    <3> QED
      BY <1>1, <3>1, <3>2
  <2>2. DialogTypeOK'
    BY <1>1, <2>1 DEF DialogInv, DialogTypeOK, onRecurrenceOptionsChanged, resetRecurrence
  <2> QED
    BY <1>1, <2>2 DEF DialogInv, onRecurrenceOptionsChanged, resetRecurrence,
       Opened, ChecksAreOfSpaces, WritersConfirm, OneWriteAtATime, AvailableWasAnswered
<1>2. CASE applyRecurrence
  <2>1. recurrence' \in Recurrences
    BY <1>2, RecurrenceTypes DEF DialogInv, DialogTypeOK, applyRecurrence
  <2>2. CASE AskFor("precheck")
    <3>1. PICK n \in requests' : n.fn = "precheck" /\ requests' = requests \cup {n}
      BY <2>2, AskForRequests
    <3>2. DialogTypeOK'
      BY <1>2, <2>1, <2>2, AskForRequests DEF DialogInv, DialogTypeOK, applyRecurrence
    <3>3. OneWriteAtATime' /\ WritersConfirm'
      BY <1>2, <3>1 DEF DialogInv, applyRecurrence, OneWriteAtATime, WritersConfirm, Writing
    <3> QED
      BY <1>2, <3>1, <3>2, <3>3 DEF DialogInv, applyRecurrence, Opened, ChecksAreOfSpaces,
         AvailableWasAnswered
  <2>3. CASE UNCHANGED <<requests, requestsSent>>
    <3>1. DialogTypeOK'
      BY <1>2, <2>1, <2>3 DEF DialogInv, DialogTypeOK, applyRecurrence
    <3> QED
      BY <1>2, <2>3, <3>1 DEF DialogInv, applyRecurrence, Opened, ChecksAreOfSpaces,
         WritersConfirm, OneWriteAtATime, AvailableWasAnswered
  <2> QED
    BY <1>2, <2>2, <2>3 DEF applyRecurrence
<1>3. ASSUME NEW r \in requests, precheckAnswered(r)
      PROVE  DialogInv'
  <2>1. recurrence' \in Recurrences
    BY <1>3, PrecheckedType DEF DialogInv, DialogTypeOK, precheckAnswered
  <2> QED
    <3>1. DialogTypeOK'
      BY <1>3, <2>1 DEF DialogInv, DialogTypeOK, precheckAnswered, Done
    <3> QED
      BY <1>3, <3>1 DEF DialogInv, precheckAnswered, Done, Opened, ChecksAreOfSpaces,
         WritersConfirm, OneWriteAtATime, AvailableWasAnswered
<1> QED
  BY <1>1, <1>2, <1>3

\* A booking or a cancellation begins: only when no other is out.
LEMMA WriteBeginsKeeps ==
    ASSUME DialogInv, onConfirmBooking \/ cancelBooking
    PROVE  DialogInv'
<1> USE DEF target, check
<1>1. PICK fn \in Writing : AskFor(fn)
  BY DEF onConfirmBooking, cancelBooking, Writing
<1>2. PICK n \in requests' : n.fn = fn /\ requests' = requests \cup {n}
  BY <1>1, AskForRequests DEF Writing
<1>3. \A r \in requests : r.fn \notin Writing
  BY DEF DialogInv, WritersConfirm, onConfirmBooking, ConfirmEnabled, cancelBooking, MayCancel
<1>4. DialogTypeOK'
  BY <1>1, AskForRequests
     DEF DialogInv, DialogTypeOK, onConfirmBooking, cancelBooking, Writing
<1>5. OneWriteAtATime' /\ WritersConfirm'
  <2>1. confirmingBooking'
    BY DEF onConfirmBooking, cancelBooking
  <2>2. \A r, s \in requests' : {r.fn, s.fn} \subseteq Writing => r = n /\ s = n
    BY <1>2, <1>3
  <2> QED
    BY <2>1, <2>2 DEF OneWriteAtATime, WritersConfirm, Writing
<1> QED
  BY <1>2, <1>4, <1>5 DEF DialogInv, onConfirmBooking, cancelBooking, Opened,
     ChecksAreOfSpaces, AvailableWasAnswered, Writing

\* ... and ends.
LEMMA WriteEndsKeeps ==
    ASSUME DialogInv, NEW r \in requests,
           saveAnswered(r) \/ seriesRead(r) \/ deleteAnswered(r) \/ RequestFails(r)
    PROVE  DialogInv'
<1> USE DEF target, check
<1>1. CASE saveAnswered(r) \/ deleteAnswered(r)
  <2>1. \A s \in requests \ {r} : s.fn \notin Writing
    BY <1>1 DEF DialogInv, OneWriteAtATime, saveAnswered, deleteAnswered, Writing
  <2>2. DialogTypeOK'
    BY <1>1 DEF DialogInv, DialogTypeOK, saveAnswered, deleteAnswered, Done
  <2>3. requests' = requests \ {r}
    BY <1>1 DEF saveAnswered, deleteAnswered, Done
  <2> QED
    BY <1>1, <2>1, <2>2, <2>3 DEF DialogInv, saveAnswered, deleteAnswered, Opened,
       ChecksAreOfSpaces, WritersConfirm, OneWriteAtATime, AvailableWasAnswered
<1>2. CASE seriesRead(r)
  <2>1. PICK n \in requests' : n.fn = "delete" /\ requests' = (requests \ {r}) \cup {n}
    BY <1>2, ThenRequests DEF seriesRead
  <2>2. \A s \in requests \ {r} : s.fn \notin Writing
    BY <1>2 DEF DialogInv, OneWriteAtATime, seriesRead, Writing
  <2>3. confirmingBooking' /\ DialogTypeOK'
    BY <1>2, ThenRequests DEF DialogInv, DialogTypeOK, WritersConfirm, seriesRead, Writing
  <2>4. OneWriteAtATime' /\ WritersConfirm'
    BY <2>1, <2>2, <2>3 DEF OneWriteAtATime, WritersConfirm, Writing
  <2> QED
    BY <1>2, <2>1, <2>3, <2>4 DEF DialogInv, seriesRead, Opened, ChecksAreOfSpaces,
       AvailableWasAnswered
<1>3. CASE RequestFails(r)
  <2>1. DialogTypeOK'
    BY <1>3 DEF DialogInv, DialogTypeOK, RequestFails, Done
  <2> QED
    BY <1>3, <2>1 DEF DialogInv, RequestFails, Done, Opened, ChecksAreOfSpaces,
       WritersConfirm, OneWriteAtATime, AvailableWasAnswered
<1> QED
  BY <1>1, <1>2, <1>3

LEMMA WindowKeeps ==
    ASSUME DialogInv, messageRead \/ closeDialog
    PROVE  DialogInv'
<1>1. DialogTypeOK'
  BY DEF DialogInv, DialogTypeOK, messageRead, closeDialog, target, check
<1> QED
  BY <1>1 DEF DialogInv, messageRead, closeDialog, target, check, Opened,
     ChecksAreOfSpaces, WritersConfirm, OneWriteAtATime, AvailableWasAnswered

-----------------------------------------------------------------------------
LEMMA DialogBegins == DialogInit => DialogInv
<1>1. DialogInit => DialogTypeOK
  <2>1. 0 \in 0 .. MaxRequests
    BY DialogAssumption
  <2> QED
    BY <2>1, NoRecurrenceType DEF DialogInit, DialogTypeOK
<1> QED
  BY <1>1 DEF DialogInit, DialogInv, Opened, ChecksAreOfSpaces, WritersConfirm,
     OneWriteAtATime, AvailableWasAnswered

LEMMA DialogGoesOn ==
    ASSUME DialogInv, [DialogNext]_dialogVars
    PROVE  DialogInv'
<1>1. CASE UNCHANGED dialogVars
  BY <1>1 DEF dialogVars, DialogInv, DialogTypeOK, Opened, ChecksAreOfSpaces,
     WritersConfirm, OneWriteAtATime, AvailableWasAnswered
<1>2. CASE DialogNext
  BY <1>2, OpenKeeps, MoveKeeps, CheckAnswersKeep, RecurrenceKeeps, WriteBeginsKeeps,
     WriteEndsKeeps, WindowKeeps DEF DialogNext, DialogAnswers, DialogAnswer
<1> QED
  BY <1>1, <1>2

LEMMA DialogPromise ==
    ASSUME DialogInv
    PROVE  DialogTypeOK /\ OneWriteAtATime /\ ConfirmsWhatWasChecked
BY DEF DialogInv, AvailableWasAnswered, ConfirmsWhatWasChecked, ConfirmEnabled,
   getModalBookingError

LEMMA DialogInvariant == DialogSpec => []DialogInv
<1>1. DialogInv /\ [DialogNext]_dialogVars => DialogInv'
  BY DialogGoesOn
<1> QED
  BY <1>1, DialogBegins, PTL DEF DialogSpec

\* The variables of the dialog have their types whatever requests are answered, and when.
THEOREM DialogTypeCorrect == DialogSpec => []DialogTypeOK
<1>1. DialogInv => DialogTypeOK
  BY DEF DialogInv
<1> QED
  BY <1>1, DialogInvariant, PTL

\* However often the dialog of search.tsx is closed and opened again, with whatever
\* requests on their way, it has at most one out that books or cancels.
THEOREM DialogWritesOnce == DialogSpec => []OneWriteAtATime
<1>1. DialogInv => OneWriteAtATime
  BY DEF DialogInv
<1> QED
  BY <1>1, DialogInvariant, PTL

\* The button "confirm" is never enabled by an answer to another period, another space or
\* an earlier opening of the dialog.
THEOREM DialogConfirmsChecked == DialogSpec => []ConfirmsWhatWasChecked
<1>1. DialogInv => ConfirmsWhatWasChecked
  BY DialogPromise
<1> QED
  BY <1>1, DialogInvariant, PTL
-----------------------------------------------------------------------------
(* The filters of the search page                                          *)
\* A form that was not edited since has the filters that were applied.
FormIsApplied == ~editedSince => searchAttributes = lastApplied

\* A search that is out has got as far as it says, and no other is out unless two met.
SearchIsOfTheApplied ==
    \A q \in searches :
        /\ q = [no |-> q.no, at |-> q.at, filter |-> q.filter]
        /\ searchesMet \/
              /\ searches = {q}
              /\ q.at = "areas" => q.filter = lastApplied["location"]
              /\ q.at = "spaces" => /\ areasListed = lastApplied["location"]
                                    /\ ~editedSince => q.filter = lastApplied["space"]

FilterInv == /\ FilterTypeOK /\ DOMAIN searchAttributes = Types /\ DOMAIN lastApplied = Types
             /\ searchAttributes = [t \in Types |-> searchAttributes[t]]
             /\ FormIsApplied /\ SearchIsOfTheApplied /\ ListedIsApplied

LEMMA NoEntriesFilter == IsFilter(NoEntries)
BY DEF IsFilter, NoEntries

LEMMA FilterChanges ==
    ASSUME FilterInv, NEW t \in Types, NEW a \in Attributes,
           \/ \E c \in Comparators : setSearchAttributeComparator(t, a, c)
           \/ \E v \in FilterValues : setSearchAttributeValue(t, a, v)
    PROVE  \E entries : IsFilter(entries) /\ ChangesFilter(t, entries)
<1> DEFINE entries == searchAttributes[t]
<1>1. IsFilter(entries)
  BY DEF FilterInv, FilterTypeOK
<1>2. \A b \in DOMAIN entries : /\ b \in Attributes /\ entries[b].comparator \in Comparators
                                /\ entries[b].value \in FilterValues \cup {NoValue}
  BY <1>1 DEF IsFilter
<1>3. ASSUME NEW c \in Comparators, NEW v \in FilterValues \cup {NoValue}
      PROVE  IsFilter(WithEntry(entries, a, Entry(c, v)))
  <2> DEFINE made == WithEntry(entries, a, Entry(c, v))
  <2>1. made = [b \in DOMAIN entries \cup {a} |-> IF b = a THEN Entry(c, v) ELSE entries[b]]
    BY DEF WithEntry
  <2>2. Entry(c, v) \in [comparator : Comparators, value : FilterValues \cup {NoValue}]
    BY DEF Entry
  <2> HIDE DEF made, entries
  <2>3. DOMAIN made = {a} \cup DOMAIN entries
    BY <2>1
  <2>4. \A b \in DOMAIN made : made[b] = IF b = a THEN Entry(c, v) ELSE entries[b]
    BY <2>1, <2>3
  <2>5. \A b \in DOMAIN made : made[b] \in [comparator : Comparators, value : FilterValues \cup {NoValue}]
    BY <1>1, <2>2, <2>3, <2>4 DEF IsFilter
  <2>6. DOMAIN made \subseteq Attributes
    BY <1>1, <2>3 DEF IsFilter
  <2>7. IsFilter(made)
    BY <2>5, <2>6 DEF IsFilter
  <2> QED
    BY <2>7 DEF made
<1>4. InitialValue(a) \in FilterValues \cup {NoValue}
  BY FilterAssumption DEF InitialValue
<1>5. ASSUME NEW c \in Comparators, setSearchAttributeComparator(t, a, c)
      PROVE  \E e : IsFilter(e) /\ ChangesFilter(t, e)
  <2>1. CASE c = ""
    <3>1. IsFilter(WithoutEntry(entries, a))
      BY <1>1 DEF IsFilter, WithoutEntry
    <3>2. ChangesFilter(t, WithoutEntry(entries, a))
      BY <1>5, <2>1 DEF setSearchAttributeComparator
    <3> QED
      BY <3>1, <3>2
  <2>2. CASE c # ""
    <3> DEFINE value == IF a \in DOMAIN entries THEN entries[a].value ELSE NoValue
               v == IF value = NoValue THEN InitialValue(a) ELSE value
    <3>1. v \in FilterValues \cup {NoValue}
      BY <1>2, <1>4
    <3>2. ChangesFilter(t, WithEntry(entries, a, Entry(c, v)))
      BY <1>5, <2>2 DEF setSearchAttributeComparator
    <3> HIDE DEF v, entries
    <3> QED
      BY <1>3, <3>1, <3>2
  <2> QED
    BY <2>1, <2>2
<1>6. ASSUME NEW v \in FilterValues, setSearchAttributeValue(t, a, v)
      PROVE  \E e : IsFilter(e) /\ ChangesFilter(t, e)
  <2> DEFINE c == IF a \in DOMAIN entries THEN entries[a].comparator ELSE ""
  <2>1. c \in Comparators
    BY <1>2 DEF Comparators
  <2>2. ChangesFilter(t, WithEntry(entries, a, Entry(c, v)))
    BY <1>6 DEF setSearchAttributeValue
  <2> HIDE DEF c, entries
  <2> QED
    BY <1>3, <2>1, <2>2
<1> QED
  BY <1>5, <1>6

LEMMA EditKeepsFilter ==
    ASSUME FilterInv, NEW t \in Types, NEW entries, IsFilter(entries), ChangesFilter(t, entries)
    PROVE  FilterInv'
<1>1. /\ searchAttributes' = [searchAttributes EXCEPT ![t] = entries] /\ editedSince' = TRUE
      /\ UNCHANGED <<showSearchModal, searches, searchesSent, areasListed, spacesListed,
                     lastApplied, searchesMet>>
  BY DEF ChangesFilter, listings
<1>2. \A s \in Types : IsFilter(searchAttributes'[s])
  BY <1>1 DEF FilterInv, FilterTypeOK
<1>3. FilterTypeOK'
  BY <1>1, <1>2 DEF FilterInv, FilterTypeOK
<1>4. /\ DOMAIN searchAttributes' = Types
      /\ searchAttributes' = [s \in Types |-> searchAttributes'[s]]
  BY <1>1 DEF FilterInv
<1> QED
  BY <1>1, <1>3, <1>4 DEF FilterInv, FormIsApplied, SearchIsOfTheApplied, ListedIsApplied

LEMMA ApplyKeepsFilter ==
    ASSUME FilterInv, applyFilter \/ resetSearch
    PROVE  FilterInv'
<1>1. PICK filters : /\ Applies(filters) /\ searchAttributes' = filters
                     /\ filters = [t \in Types |-> filters[t]]
                     /\ \A t \in Types : IsFilter(filters[t])
  <2>1. CASE applyFilter
    BY <2>1 DEF applyFilter, FilterInv, FilterTypeOK
  <2>2. CASE resetSearch
    <3> DEFINE none == [t \in Types |-> NoEntries]
    <3>1. Applies(none) /\ searchAttributes' = none
      BY <2>2 DEF resetSearch
    <3>2. \A t \in Types : IsFilter(none[t])
      BY NoEntriesFilter
    <3> QED
      BY <3>1, <3>2
  <2> QED
    BY <2>1, <2>2
<1> DEFINE q == [no |-> searchesSent', at |-> "areas", filter |-> filters["location"]]
<1>2. /\ searches' = searches \cup {q} /\ lastApplied' = filters /\ editedSince' = FALSE
      /\ searchesMet' = (searchesMet \/ searches # {})
      /\ showSearchModal' = FALSE
      /\ UNCHANGED <<areasListed, spacesListed>>
  BY <1>1 DEF Applies, listings
<1>3. q = [no |-> q.no, at |-> q.at, filter |-> q.filter] /\ q.at = "areas" /\ IsFilter(q.filter)
      /\ q.filter = filters["location"]
  BY <1>1 DEF Types
<1> HIDE DEF q
<1>4. searchesMet' \in BOOLEAN /\ editedSince' \in BOOLEAN /\ showSearchModal' \in BOOLEAN
  BY <1>2
<1>5. FilterTypeOK'
  BY <1>1, <1>2, <1>3, <1>4 DEF FilterInv, FilterTypeOK
<1>6. ~searchesMet' => searches' = {q}
  BY <1>2
<1>7. SearchIsOfTheApplied'
  BY <1>2, <1>3, <1>6 DEF FilterInv, SearchIsOfTheApplied
<1>8. ListedIsApplied' /\ FormIsApplied'
  BY <1>1, <1>2 DEF ListedIsApplied, FormIsApplied
<1>9. DOMAIN searchAttributes' = Types
  BY <1>1
<1> QED
  BY <1>1, <1>2, <1>5, <1>7, <1>8, <1>9 DEF FilterInv

LEMMA AnswerKeepsFilter ==
    ASSUME FilterInv, NEW q \in searches,
           areasAnswered(q) \/ filteredSpacesAnswered(q) \/ searchLost(q)
    PROVE  FilterInv'
<1>1. /\ q = [no |-> q.no, at |-> q.at, filter |-> q.filter]
      /\ ~searchesMet => searches = {q}
  BY DEF FilterInv, SearchIsOfTheApplied
<1>2. CASE areasAnswered(q)
  <2> DEFINE r == [no |-> q.no, at |-> "spaces", filter |-> searchAttributes["space"]]
  <2>1. /\ q.at = "areas" /\ areasListed' = q.filter
        /\ searches' = (searches \ {q}) \cup {[q EXCEPT !.at = "spaces", !.filter = searchAttributes["space"]]}
        /\ UNCHANGED <<searchAttributes, showSearchModal, spacesListed, lastApplied,
                       editedSince, searchesMet>>
    BY <1>2 DEF areasAnswered
  <2>2. searches' = (searches \ {q}) \cup {r}
    <3> DEFINE moved == [q EXCEPT !.at = "spaces", !.filter = searchAttributes["space"]]
    <3>1. DOMAIN q = {"no", "at", "filter"} /\ DOMAIN r = {"no", "at", "filter"}
      BY <1>1
    <3>2. DOMAIN moved = DOMAIN q /\ moved = [x \in DOMAIN q |-> moved[x]]
      OBVIOUS
    <3>3. moved.no = r.no /\ moved.at = r.at /\ moved.filter = r.filter
      BY <3>1
    <3>4. r = [x \in {"no", "at", "filter"} |-> r[x]]
      OBVIOUS
    <3> HIDE DEF moved, r
    <3>5. moved = r
      BY <3>1, <3>2, <3>3, <3>4
    <3> QED
      BY <2>1, <3>5 DEF moved
  <2>3. /\ r = [no |-> r.no, at |-> r.at, filter |-> r.filter] /\ r.at = "spaces"
        /\ r.filter = searchAttributes["space"] /\ IsFilter(r.filter)
    BY DEF FilterInv, FilterTypeOK, Types
  <2> HIDE DEF r
  <2>4. FilterTypeOK'
    BY <2>1, <2>2, <2>3 DEF FilterInv, FilterTypeOK
  <2>5. ~searchesMet' => /\ searches' = {r} /\ areasListed' = lastApplied'["location"]
                         /\ ~editedSince' => r.filter = lastApplied'["space"]
    BY <1>1, <2>1, <2>2, <2>3 DEF FilterInv, SearchIsOfTheApplied, FormIsApplied
  <2>6. SearchIsOfTheApplied'
    BY <2>1, <2>2, <2>3, <2>5 DEF FilterInv, SearchIsOfTheApplied
  <2>7. ListedIsApplied' /\ FormIsApplied'
    BY <2>1, <2>5 DEF FilterInv, ListedIsApplied, FormIsApplied
  <2> QED
    BY <2>1, <2>4, <2>6, <2>7 DEF FilterInv
<1>3. CASE filteredSpacesAnswered(q)
  <2>1. /\ q.at = "spaces" /\ searches' = searches \ {q}
        /\ spacesListed' \in {q.filter} \cup
              (IF \E r \in searches : r.no # q.no THEN {spacesListed} ELSE {})
        /\ UNCHANGED <<searchAttributes, showSearchModal, areasListed, lastApplied,
                       editedSince, searchesMet>>
    BY <1>3 DEF filteredSpacesAnswered
  <2>2. FilterTypeOK'
    BY <2>1 DEF FilterInv, FilterTypeOK
  <2>3. SearchIsOfTheApplied'
    BY <1>1, <2>1 DEF FilterInv, SearchIsOfTheApplied
  <2>4. ~searchesMet' => spacesListed' = q.filter
    BY <1>1, <2>1
  <2>5. ListedIsApplied' /\ FormIsApplied'
    BY <2>1, <2>4 DEF FilterInv, ListedIsApplied, FormIsApplied, SearchIsOfTheApplied
  <2> QED
    BY <2>1, <2>2, <2>3, <2>5 DEF FilterInv
<1>4. CASE searchLost(q)
  <2>1. /\ searches' = searches \ {q} /\ searchesMet' = TRUE
        /\ UNCHANGED <<searchAttributes, showSearchModal, areasListed, spacesListed,
                       lastApplied, editedSince>>
    BY <1>4 DEF searchLost, listings
  <2> QED
    BY <2>1 DEF FilterInv, FilterTypeOK, SearchIsOfTheApplied, ListedIsApplied, FormIsApplied
<1> QED
  BY <1>2, <1>3, <1>4

LEMMA FilterBegins ==
    ASSUME FilterInit PROVE FilterInv
BY NoEntriesFilter DEF FilterInit, FilterInv, FilterTypeOK, FormIsApplied, SearchIsOfTheApplied,
   ListedIsApplied, Types

LEMMA FilterGoesOn ==
    ASSUME FilterInv, [FilterNext]_filterVars
    PROVE  FilterInv'
<1>1. CASE toggleSearchModal \/ UNCHANGED filterVars
  <2>1. /\ UNCHANGED <<searchAttributes, searches, areasListed, spacesListed, lastApplied,
                       editedSince, searchesMet>>
        /\ showSearchModal' \in BOOLEAN
    BY <1>1 DEF toggleSearchModal, filterVars, listings, FilterInv, FilterTypeOK
  <2> QED
    BY <2>1 DEF FilterInv, FilterTypeOK, SearchIsOfTheApplied, ListedIsApplied, FormIsApplied
<1> QED
  BY <1>1, FilterChanges, EditKeepsFilter, ApplyKeepsFilter, AnswerKeepsFilter DEF FilterNext

\* What is listed matches the filters that were applied last, though the form is edited in
\* place while a search is on its way (search.tsx).
THEOREM FilterListsTheApplied == FilterSpec => []ListedIsApplied
<1>1. FilterInv => ListedIsApplied
  BY DEF FilterInv
<1> QED
  BY <1>1, FilterBegins, FilterGoesOn, PTL DEF FilterSpec
-----------------------------------------------------------------------------
(* The preferences page                                                    *)
\* The requests that one of the page's forms waits for.
Submissions == {"save", "disconnect", "calendars", "password"}
Saves == {"save", "disconnect"}
PrefRequests == [id : 1 .. MaxPrefRequests, fn : Submissions \cup {"end", "list"},
                 form : PrefForms \cup {"caldav", "none"}, caldav : CalDav,
                 field : 0 .. MaxPrefEdits, sessions : SUBSET AllSessions, done : BOOLEAN]

\* One form is submitted at a time, though the page forgets that it has failed to change
\* the password.
OneSubmission ==
    /\ \A q \in prefOut : q.fn \in Submissions => prefs.submitting
    /\ \A q, r \in prefOut : q.fn \in Submissions /\ r.fn \in Submissions => q = r
    /\ prefs.hint = "saved" => ~prefs.submitting
    /\ \A q \in prefOut : q.fn = "calendars" => q.caldav.account \in Accounts

\* The calendars on offer, and those on their way, are those of the account in the form.
OfItsAccount(c) == c.calendar \in {c.account, NoAccount}
CalendarsAreOfTheAccount ==
    prefPast.midway \/
    /\ OfItsAccount(prefStored.caldav)
    /\ prefs.loaded => prefs.calendars \subseteq {prefs.caldav.account} /\ OfItsAccount(prefs.caldav)
    /\ \A q \in prefOut :
          /\ q.fn = "calendars" => q.caldav.account = prefs.caldav.account
          /\ q.fn \in Saves /\ q.form = "caldav" => OfItsAccount(q.caldav)

\* What a form was last sent with is stored, or on its way.
IsLast(q) == IF q.form = "caldav" THEN q.caldav = lastSaved.caldav
             ELSE q.form \in PrefForms /\ q.fn = "save" /\ q.field = lastSaved.fields[q.form]
OnItsWay(form) == \E q \in prefOut : q.fn \in Saves /\ q.form = form /\ ~q.done
SavesAreTheLast ==
    /\ \A q \in prefOut : q.fn \in Saves => IsLast(q)
    /\ ~prefPast.lost =>
          /\ \A f \in PrefForms : prefStored.fields[f] = lastSaved.fields[f] \/ OnItsWay(f)
          /\ prefStored.caldav = lastSaved.caldav \/ OnItsWay("caldav")

\* When no session is being ended, the page has the sessions or is about to get them.
ListsAreFresh ==
    prefPast.overlap \/
    /\ \A q, r \in prefOut : q.fn = "list" /\ r.fn = "list" => q = r
    /\ LoggedIn /\ Usable /\ (\A q \in prefOut : q.fn # "end") =>
          /\ \A q \in prefOut : q.fn = "list" => ~q.done \/ q.sessions = prefStored.sessions
          /\ (\A q \in prefOut : q.fn # "list") => prefs.sessions = prefStored.sessions

PrefInv == /\ PreferencesTypeOK /\ prefOut \subseteq PrefRequests
           /\ OneSubmission /\ CalendarsAreOfTheAccount /\ SavesAreTheLast /\ ListsAreFresh

PrefStates == [submitting : BOOLEAN, dialog : BOOLEAN, left : BOOLEAN,
               hint : {"none", "saved", "error", "caldavError"},
               fields : [PrefForms -> 0 .. MaxPrefEdits], caldav : CalDav, loaded : BOOLEAN,
               calendars : SUBSET Accounts, sessions : SUBSET AllSessions]
PrefRows == [caldav : CalDav, fields : [PrefForms -> 0 .. MaxPrefEdits],
             sessions : SUBSET AllSessions]
PrefSaves == [caldav : CalDav, fields : [PrefForms -> 0 .. MaxPrefEdits]]
PrefPasts == [midway : BOOLEAN, lost : BOOLEAN, stuck : BOOLEAN, overlap : BOOLEAN]

LEMMA TypesOfPrefs ==
    ASSUME PrefInv
    PROVE  /\ prefs \in PrefStates /\ prefStored \in PrefRows /\ lastSaved \in PrefSaves
           /\ prefPast \in PrefPasts /\ prefSent \in 0 .. MaxPrefRequests
           /\ prefOut \subseteq PrefRequests
BY DEF PrefInv, PreferencesTypeOK, PrefStates, PrefRows, PrefSaves, PrefPasts

LEMMA TypesMakePrefs ==
    ASSUME prefs' \in PrefStates, prefStored' \in PrefRows, lastSaved' \in PrefSaves,
           prefPast' \in PrefPasts, prefSent' \in 0 .. MaxPrefRequests,
           prefOut' \subseteq PrefRequests
    PROVE  PreferencesTypeOK'
BY DEF PreferencesTypeOK, PrefStates, PrefRows, PrefSaves, PrefPasts, PrefRequests, Submissions

LEMMA PrefNumbers ==
    ASSUME PrefInv
    PROVE  /\ prefSent < MaxPrefRequests =>
                  prefSent + 1 \in 1 .. MaxPrefRequests /\ prefSent + 1 \in 0 .. MaxPrefRequests
           /\ 0 \in 0 .. MaxPrefEdits
BY TypesOfPrefs, PreferencesAssumption

-----------------------------------------------------------------------------
LEMMA PrefEditsKeep ==
    ASSUME PrefInv,
           \/ \E f \in PrefForms : editField(f)
           \/ \E a \in Accounts : editCalDav(a) \/ selectCalendar(a)
           \/ showTab \/ UNCHANGED prefVars
    PROVE  PrefInv'
<1>1. CASE \E f \in PrefForms : editField(f)
  <2>1. PICK f \in PrefForms : editField(f)
    BY <1>1
  <2>2. prefs.fields[f] + 1 \in 0 .. MaxPrefEdits
    BY <2>1, TypesOfPrefs, PreferencesAssumption DEF editField, prefEdits, PrefStates, PrefForms
  <2>3. prefs' \in PrefStates
    BY <2>1, <2>2, TypesOfPrefs DEF editField, PrefStates
  <2>4. /\ \A x \in {"submitting", "hint", "dialog", "left", "caldav", "loaded", "calendars", "sessions"} :
               prefs'[x] = prefs[x]
        /\ UNCHANGED <<prefStored, prefOut, prefSent, lastSaved, prefPast>>
    BY <2>1, TypesOfPrefs DEF editField, PrefStates
  <2>5. PreferencesTypeOK'
    BY <2>3, <2>4, TypesOfPrefs, TypesMakePrefs
  <2> QED
    BY <2>4, <2>5 DEF PrefInv, OneSubmission, CalendarsAreOfTheAccount, SavesAreTheLast, IsLast,
       OnItsWay, ListsAreFresh, LoggedIn, Usable, OfItsAccount
<1>2. CASE \E a \in Accounts : editCalDav(a)
  <2>1. PICK a \in Accounts : editCalDav(a)
    BY <1>2
  <2>2. prefs' \in PrefStates /\ prefPast' \in PrefPasts
    BY <2>1, TypesOfPrefs DEF editCalDav, PrefStates, PrefPasts, CalDav
  <2>3. /\ \A x \in {"submitting", "hint", "dialog", "left", "sessions", "fields", "calendars"} :
               prefs'[x] = prefs[x]
        /\ prefs'.loaded = FALSE
        /\ UNCHANGED <<prefStored, prefOut, prefSent, lastSaved>>
        /\ prefPast'.lost = prefPast.lost /\ prefPast'.overlap = prefPast.overlap
        /\ prefPast'.midway = (prefPast.midway \/ \E q \in prefOut : q.fn = "calendars")
    BY <2>1, TypesOfPrefs DEF editCalDav, PrefStates, PrefPasts
  <2>4. PreferencesTypeOK'
    BY <2>2, <2>3, TypesOfPrefs, TypesMakePrefs
  <2>5. CalendarsAreOfTheAccount'
    BY <2>3 DEF PrefInv, CalendarsAreOfTheAccount, OfItsAccount
  <2> QED
    BY <2>3, <2>4, <2>5, TypesOfPrefs DEF PrefInv, OneSubmission, SavesAreTheLast, IsLast,
       OnItsWay, ListsAreFresh, LoggedIn, Usable
<1>3. CASE \E c \in Accounts : selectCalendar(c)
  <2>1. PICK c \in Accounts : selectCalendar(c)
    BY <1>3
  <2>2. prefs' \in PrefStates
    BY <2>1, TypesOfPrefs DEF selectCalendar, PrefStates, CalDav
  <2>3. /\ \A x \in {"submitting", "hint", "dialog", "left", "sessions", "fields", "calendars", "loaded"} :
               prefs'[x] = prefs[x]
        /\ prefs'.caldav.account = prefs.caldav.account /\ prefs'.caldav.calendar = c
        /\ prefs.loaded /\ c \in prefs.calendars
        /\ UNCHANGED <<prefStored, prefOut, prefSent, lastSaved, prefPast>>
    BY <2>1, TypesOfPrefs DEF selectCalendar, PrefStates, CalDav
  <2>4. PreferencesTypeOK'
    BY <2>2, <2>3, TypesOfPrefs, TypesMakePrefs
  <2>5. CalendarsAreOfTheAccount'
    BY <2>3 DEF PrefInv, CalendarsAreOfTheAccount, OfItsAccount
  <2> QED
    BY <2>3, <2>4, <2>5, TypesOfPrefs DEF PrefInv, OneSubmission, SavesAreTheLast, IsLast,
       OnItsWay, ListsAreFresh, LoggedIn, Usable
<1>4. CASE showTab
  <2>1. prefs' \in PrefStates
    BY <1>4, TypesOfPrefs DEF showTab, PrefStates
  <2>2. /\ \A x \in {"submitting", "dialog", "left", "sessions", "fields", "calendars", "loaded", "caldav"} :
               prefs'[x] = prefs[x]
        /\ prefs'.hint = "none"
        /\ UNCHANGED <<prefStored, prefOut, prefSent, lastSaved, prefPast>>
    BY <1>4, TypesOfPrefs DEF showTab, PrefStates
  <2>3. PreferencesTypeOK'
    BY <2>1, <2>2, TypesOfPrefs, TypesMakePrefs
  <2> QED
    BY <2>2, <2>3 DEF PrefInv, OneSubmission, CalendarsAreOfTheAccount, SavesAreTheLast, IsLast,
       OnItsWay, ListsAreFresh, LoggedIn, Usable, OfItsAccount
<1>5. CASE UNCHANGED prefVars
  <2>1. UNCHANGED <<prefs, prefStored, prefOut, prefSent, lastSaved, prefPast>>
    BY <1>5 DEF prefVars
  <2>2. PreferencesTypeOK'
    BY <2>1, TypesOfPrefs, TypesMakePrefs
  <2> QED
    BY <2>1, <2>2 DEF PrefInv, OneSubmission, CalendarsAreOfTheAccount, SavesAreTheLast, IsLast,
       OnItsWay, ListsAreFresh, LoggedIn, Usable, OfItsAccount
<1> QED
  BY <1>1, <1>2, <1>3, <1>4, <1>5

-----------------------------------------------------------------------------
\* A form is submitted.
LEMMA PrefSubmissionKeeps ==
    ASSUME PrefInv, ~prefs.submitting, NEW q \in PrefRequests, q.fn \in Submissions, q.done = FALSE,
           prefOut' = prefOut \cup {q}, prefSent' \in 0 .. MaxPrefRequests,
           prefs' \in PrefStates, prefs'.submitting = TRUE, prefs'.hint = "none",
           prefs'.loaded \in {prefs.loaded, FALSE},
           \A x \in {"dialog", "left", "sessions", "fields", "calendars", "caldav"} : prefs'[x] = prefs[x],
           UNCHANGED <<prefStored, prefPast>>, lastSaved' \in PrefSaves,
           q.fn \in Saves => IsLast(q)',
           \A f \in PrefForms : lastSaved'.fields[f] = lastSaved.fields[f] \/ (q.fn \in Saves /\ q.form = f),
           lastSaved'.caldav = lastSaved.caldav \/ (q.fn \in Saves /\ q.form = "caldav"),
           q.fn = "calendars" => /\ q.caldav.account = prefs.caldav.account
                                 /\ prefs.caldav.account \in Accounts,
           q.fn \in Saves /\ q.form = "caldav" => OfItsAccount(q.caldav) \/ prefPast.midway
    PROVE  PrefInv'
<1>1. prefOut' \subseteq PrefRequests
  BY TypesOfPrefs
<1>2. PreferencesTypeOK'
  BY <1>1, TypesOfPrefs, TypesMakePrefs
<1>3. \A r \in prefOut : r.fn \notin Submissions /\ r.fn \notin Saves
  BY DEF PrefInv, OneSubmission, Submissions, Saves
<1>4. OneSubmission'
  BY <1>3 DEF PrefInv, OneSubmission
<1>5. CalendarsAreOfTheAccount'
  BY <1>3 DEF PrefInv, CalendarsAreOfTheAccount, OfItsAccount, Submissions
<1>6. SavesAreTheLast'
  <2>1. \A r \in prefOut' : r.fn \in Saves => IsLast(r)'
    BY <1>3
  <2>2. \A f : ~OnItsWay(f)
    BY <1>3 DEF OnItsWay
  <2>3. \A f : q.fn \in Saves /\ q.form = f => OnItsWay(f)'
    BY DEF OnItsWay
  <2> QED
    BY <2>1, <2>2, <2>3 DEF PrefInv, SavesAreTheLast
<1>7. ListsAreFresh'
  <2>1. q.fn # "list" /\ q.fn # "end"
    BY DEF Submissions
  <2>2. LoggedIn' = LoggedIn /\ Usable' = Usable
    BY DEF LoggedIn, Usable
  <2> QED
    BY <2>1, <2>2 DEF PrefInv, ListsAreFresh
<1> QED
  BY <1>1, <1>2, <1>4, <1>5, <1>6, <1>7 DEF PrefInv

LEMMA PrefSubmitsKeep ==
    ASSUME PrefInv,
           \/ \E f \in PrefForms : onSubmitForm(f)
           \/ connectCalDav \/ disconnectCalDav \/ saveCaldavSettings \/ onSubmitSecurity
    PROVE  PrefInv'
<1>0. prefs.caldav \in CalDav /\ Disconnected \in CalDav
  BY TypesOfPrefs DEF PrefStates, CalDav, Disconnected
<1>1. CASE \E f \in PrefForms : onSubmitForm(f)
  <2>1. PICK f \in PrefForms : onSubmitForm(f)
    BY <1>1
  <2>2. PICK q \in PrefRequests :
           /\ prefOut' = prefOut \cup {q} /\ prefSent' \in 0 .. MaxPrefRequests
           /\ q.fn = "save" /\ q.form = f /\ q.done = FALSE /\ q.field = prefs.fields[f]
    <3> DEFINE r == PrefRequest("save", f, prefs.caldav, {})
    <3>1. prefSent < MaxPrefRequests /\ prefSent' = prefSent + 1 /\ prefOut' = prefOut \cup {r}
      BY <2>1 DEF onSubmitForm, PrefSave, PrefAsk
    <3>2. r \in PrefRequests /\ prefSent' \in 0 .. MaxPrefRequests
      BY <1>0, <3>1, PrefNumbers, TypesOfPrefs DEF PrefRequest, PrefRequests, Submissions, PrefForms, PrefStates
    <3>3. /\ r.fn = "save" /\ r.form = f /\ r.done = FALSE /\ r.field = prefs.fields[f]
      BY DEF PrefRequest, PrefForms
    <3> HIDE DEF r
    <3> QED
      BY <3>1, <3>2, <3>3
  <2>3. /\ ~prefs.submitting /\ prefs' \in PrefStates /\ prefs'.submitting = TRUE /\ prefs'.hint = "none"
        /\ \A x \in {"dialog", "left", "sessions", "fields", "calendars", "caldav", "loaded"} :
              prefs'[x] = prefs[x]
        /\ UNCHANGED <<prefStored, prefPast>>
    BY <2>1, TypesOfPrefs DEF onSubmitForm, Submits, PrefSave, PrefStates
  <2>4. /\ lastSaved' \in PrefSaves /\ lastSaved'.fields[f] = prefs.fields[f]
        /\ \A g \in PrefForms : g # f => lastSaved'.fields[g] = lastSaved.fields[g]
        /\ lastSaved'.caldav = lastSaved.caldav
    BY <2>1, TypesOfPrefs DEF onSubmitForm, PrefSaves, PrefStates
  <2>5. q.form # "caldav"
    BY <2>2 DEF PrefForms
  <2>6. IsLast(q)'
    BY <2>2, <2>4, <2>5 DEF IsLast
  <2> QED
    BY <2>2, <2>3, <2>4, <2>5, <2>6, PrefSubmissionKeeps DEF Submissions, Saves
<1>2. CASE connectCalDav
  <2>1. PICK q \in PrefRequests :
           /\ prefOut' = prefOut \cup {q} /\ prefSent' \in 0 .. MaxPrefRequests
           /\ q.fn = "calendars" /\ q.done = FALSE /\ q.caldav = prefs.caldav
    <3> DEFINE r == PrefRequest("calendars", "caldav", prefs.caldav, {})
    <3>1. prefSent < MaxPrefRequests /\ prefSent' = prefSent + 1 /\ prefOut' = prefOut \cup {r}
      BY <1>2 DEF connectCalDav, PrefAsk
    <3>2. r \in PrefRequests /\ prefSent' \in 0 .. MaxPrefRequests
      BY <1>0, <3>1, PrefNumbers, TypesOfPrefs DEF PrefRequest, PrefRequests, Submissions, PrefForms, PrefStates
    <3>3. /\ r.fn = "calendars" /\ r.done = FALSE /\ r.caldav = prefs.caldav
      BY DEF PrefRequest, PrefForms
    <3> HIDE DEF r
    <3> QED
      BY <3>1, <3>2, <3>3
  <2>2. /\ ~prefs.submitting /\ prefs' \in PrefStates /\ prefs'.submitting = TRUE /\ prefs'.hint = "none"
        /\ \A x \in {"dialog", "left", "sessions", "fields", "calendars", "caldav"} : prefs'[x] = prefs[x]
        /\ prefs'.loaded = FALSE /\ UNCHANGED <<prefStored, prefPast, lastSaved>>
        /\ prefs.caldav.account \in Accounts
    BY <1>2, TypesOfPrefs DEF connectCalDav, PrefStates, CalDav
  <2> QED
    BY <2>1, <2>2, TypesOfPrefs, PrefSubmissionKeeps DEF Submissions, Saves
<1>3. CASE disconnectCalDav
  <2>1. PICK q \in PrefRequests :
           /\ prefOut' = prefOut \cup {q} /\ prefSent' \in 0 .. MaxPrefRequests
           /\ q.fn = "disconnect" /\ q.form = "caldav" /\ q.done = FALSE /\ q.caldav = Disconnected
    <3> DEFINE r == PrefRequest("disconnect", "caldav", Disconnected, {})
    <3>1. prefSent < MaxPrefRequests /\ prefSent' = prefSent + 1 /\ prefOut' = prefOut \cup {r}
      BY <1>3 DEF disconnectCalDav, PrefAsk
    <3>2. r \in PrefRequests /\ prefSent' \in 0 .. MaxPrefRequests
      BY <1>0, <3>1, PrefNumbers, TypesOfPrefs DEF PrefRequest, PrefRequests, Submissions, PrefForms, PrefStates
    <3>3. /\ r.fn = "disconnect" /\ r.form = "caldav" /\ r.done = FALSE /\ r.caldav = Disconnected
      BY DEF PrefRequest, PrefForms
    <3> HIDE DEF r
    <3> QED
      BY <3>1, <3>2, <3>3
  <2>2. /\ ~prefs.submitting /\ prefs' \in PrefStates /\ prefs'.submitting = TRUE /\ prefs'.hint = "none"
        /\ \A x \in {"dialog", "left", "sessions", "fields", "calendars", "caldav"} : prefs'[x] = prefs[x]
        /\ prefs'.loaded = FALSE /\ UNCHANGED <<prefStored, prefPast>>
    BY <1>3, TypesOfPrefs DEF disconnectCalDav, PrefStates
  <2>3. /\ lastSaved' \in PrefSaves /\ lastSaved'.fields = lastSaved.fields
        /\ lastSaved'.caldav = Disconnected
    BY <1>0, <1>3, TypesOfPrefs DEF disconnectCalDav, PrefSaves
  <2>4. IsLast(q)' /\ OfItsAccount(q.caldav)
    BY <2>1, <2>3 DEF IsLast, OfItsAccount, Disconnected
  <2> QED
    BY <2>1, <2>2, <2>3, <2>4, PrefSubmissionKeeps DEF Submissions, Saves
<1>4. CASE saveCaldavSettings
  <2>1. PICK q \in PrefRequests :
           /\ prefOut' = prefOut \cup {q} /\ prefSent' \in 0 .. MaxPrefRequests
           /\ q.fn = "save" /\ q.form = "caldav" /\ q.done = FALSE /\ q.caldav = prefs.caldav
    <3> DEFINE r == PrefRequest("save", "caldav", prefs.caldav, {})
    <3>1. prefSent < MaxPrefRequests /\ prefSent' = prefSent + 1 /\ prefOut' = prefOut \cup {r}
      BY <1>4 DEF saveCaldavSettings, PrefSave, PrefAsk
    <3>2. r \in PrefRequests /\ prefSent' \in 0 .. MaxPrefRequests
      BY <1>0, <3>1, PrefNumbers, TypesOfPrefs DEF PrefRequest, PrefRequests, Submissions, PrefForms, PrefStates
    <3>3. /\ r.fn = "save" /\ r.form = "caldav" /\ r.done = FALSE /\ r.caldav = prefs.caldav
      BY DEF PrefRequest, PrefForms
    <3> HIDE DEF r
    <3> QED
      BY <3>1, <3>2, <3>3
  <2>2. /\ ~prefs.submitting /\ prefs' \in PrefStates /\ prefs'.submitting = TRUE /\ prefs'.hint = "none"
        /\ \A x \in {"dialog", "left", "sessions", "fields", "calendars", "caldav", "loaded"} :
              prefs'[x] = prefs[x]
        /\ prefs.loaded /\ UNCHANGED <<prefStored, prefPast>>
    BY <1>4, TypesOfPrefs DEF saveCaldavSettings, Submits, PrefSave, PrefStates
  <2>3. /\ lastSaved' \in PrefSaves /\ lastSaved'.fields = lastSaved.fields
        /\ lastSaved'.caldav = prefs.caldav
    BY <1>0, <1>4, TypesOfPrefs DEF saveCaldavSettings, PrefSaves
  <2>4. IsLast(q)' /\ (OfItsAccount(q.caldav) \/ prefPast.midway)
    BY <2>1, <2>2, <2>3 DEF IsLast, PrefInv, CalendarsAreOfTheAccount
  <2> QED
    BY <2>1, <2>2, <2>3, <2>4, PrefSubmissionKeeps DEF Submissions, Saves
<1>5. CASE onSubmitSecurity
  <2>1. PICK q \in PrefRequests :
           /\ prefOut' = prefOut \cup {q} /\ prefSent' \in 0 .. MaxPrefRequests
           /\ q.fn = "password" /\ q.done = FALSE
    <3> DEFINE r == PrefRequest("password", "none", prefs.caldav, {})
    <3>1. prefSent < MaxPrefRequests /\ prefSent' = prefSent + 1 /\ prefOut' = prefOut \cup {r}
      BY <1>5 DEF onSubmitSecurity, PrefAsk
    <3>2. r \in PrefRequests /\ prefSent' \in 0 .. MaxPrefRequests
      BY <1>0, <3>1, PrefNumbers, TypesOfPrefs DEF PrefRequest, PrefRequests, Submissions, PrefForms, PrefStates
    <3>3. /\ r.fn = "password" /\ r.done = FALSE
      BY DEF PrefRequest, PrefForms
    <3> HIDE DEF r
    <3> QED
      BY <3>1, <3>2, <3>3
  <2>2. /\ ~prefs.submitting /\ prefs' \in PrefStates /\ prefs'.submitting = TRUE /\ prefs'.hint = "none"
        /\ \A x \in {"dialog", "left", "sessions", "fields", "calendars", "caldav", "loaded"} :
              prefs'[x] = prefs[x]
        /\ UNCHANGED <<prefStored, prefPast, lastSaved>>
    BY <1>5, TypesOfPrefs DEF onSubmitSecurity, Submits, PrefStates
  <2> QED
    BY <2>1, <2>2, TypesOfPrefs, PrefSubmissionKeeps DEF Submissions, Saves
<1> QED
  BY <1>1, <1>2, <1>3, <1>4, <1>5

LEMMA PrefEndingKeeps ==
    ASSUME PrefInv, NEW ss \in SUBSET AllSessions, endSessions(ss)
    PROVE  PrefInv'
<1>0. prefs.caldav \in CalDav
  BY TypesOfPrefs DEF PrefStates
<1>1. PICK q \in PrefRequests :
         /\ prefOut' = prefOut \cup {q} /\ prefSent' \in 0 .. MaxPrefRequests /\ q.fn = "end"
  <2> DEFINE r == PrefRequest("end", "none", prefs.caldav, ss)
  <2>1. prefSent < MaxPrefRequests /\ prefSent' = prefSent + 1 /\ prefOut' = prefOut \cup {r}
    BY DEF endSessions, PrefAsk
  <2>2. r \in PrefRequests /\ prefSent' \in 0 .. MaxPrefRequests
    BY <1>0, <2>1, PrefNumbers, TypesOfPrefs DEF PrefRequest, PrefRequests, Submissions, PrefForms, PrefStates
  <2>3. /\ r.fn = "end"
    BY DEF PrefRequest, PrefForms
  <2> HIDE DEF r
  <2> QED
    BY <2>1, <2>2, <2>3
<1>2. UNCHANGED <<prefs, prefStored, lastSaved, prefPast>>
  BY DEF endSessions
<1>3. PreferencesTypeOK' /\ prefOut' \subseteq PrefRequests
  BY <1>1, <1>2, TypesOfPrefs, TypesMakePrefs
<1>4. \A f : OnItsWay(f)' = OnItsWay(f)
  BY <1>1 DEF OnItsWay, Saves
<1> QED
  BY <1>1, <1>2, <1>3, <1>4 DEF PrefInv, OneSubmission, CalendarsAreOfTheAccount, SavesAreTheLast,
     IsLast, ListsAreFresh, LoggedIn, Usable, Submissions, Saves, OfItsAccount

-----------------------------------------------------------------------------
\* The server has done a part of a request.
LEMMA PrefServedKeeps ==
    ASSUME PrefInv, NEW q \in prefOut, prefServed(q)
    PROVE  PrefInv'
<1>1. PICK r \in PrefRequests :
         /\ prefOut' = (prefOut \ {q}) \cup {r}
         /\ \A x \in {"fn", "form", "caldav", "field"} : r[x] = q[x]
         /\ q.fn \in Saves => r.done = TRUE
         /\ q.fn = "list" => r.sessions = prefStored.sessions
  <2>1. q \in PrefRequests
    BY TypesOfPrefs
  <2>2. PICK ss \in SUBSET AllSessions, done \in BOOLEAN :
           /\ PrefMoves(q, ss, done) /\ (q.fn \in Saves => done = TRUE)
           /\ (q.fn = "list" => ss = prefStored.sessions)
    <3>1. prefStored.sessions \in SUBSET AllSessions
      BY TypesOfPrefs DEF PrefRows
    <3>2. CASE q.fn = "end"
      <4>1. PICK s \in q.sessions : PrefMoves(q, q.sessions \ {s}, q.sessions = {s})
        BY <3>2 DEF prefServed
      <4>2. q.sessions \ {s} \in SUBSET AllSessions /\ (q.sessions = {s}) \in BOOLEAN
        BY <2>1 DEF PrefRequests
      <4> QED
        BY <3>2, <4>1, <4>2 DEF Saves
    <3>3. CASE q.fn # "end"
      BY <3>1, <3>3 DEF prefServed, Saves
    <3> QED
      BY <3>2, <3>3
  <2> DEFINE r == [q EXCEPT !.sessions = ss, !.done = done]
  <2>3. /\ r \in PrefRequests /\ r.sessions = ss /\ r.done = done
        /\ \A x \in {"fn", "form", "caldav", "field"} : r[x] = q[x]
    BY <2>1 DEF PrefRequests
  <2>4. prefOut' = (prefOut \ {q}) \cup {r}
    BY <2>2 DEF PrefMoves
  <2> HIDE DEF r
  <2> QED
    BY <2>2, <2>3, <2>4
<1>2. LoggedIn /\ UNCHANGED <<prefs, prefSent, lastSaved, prefPast>>
  BY DEF prefServed
<1>3. q.fn \in Saves \/ q.fn = "calendars" \/ q.fn = "password" \/ q.fn = "end" \/ q.fn = "list"
  BY DEF prefServed, Saves
<1>4. q \in PrefRequests /\ prefStored \in PrefRows
  BY TypesOfPrefs
<1>5. /\ prefStored' \in PrefRows
      /\ \A f \in PrefForms :
            IF q.fn \in Saves /\ q.form # "caldav" /\ f = q.form
            THEN prefStored'.fields[f] = q.field ELSE prefStored'.fields[f] = prefStored.fields[f]
      /\ prefStored'.caldav = IF q.fn \in Saves /\ q.form = "caldav" THEN q.caldav
                              ELSE prefStored.caldav
      /\ prefStored'.sessions \subseteq prefStored.sessions
      /\ q.fn \notin {"password", "end"} => prefStored'.sessions = prefStored.sessions
      /\ q.fn = "password" => prefStored'.sessions = {}
  <2>1. CASE q.fn \in Saves
    <3>1. prefStored' = IF q.form = "caldav" THEN [prefStored EXCEPT !.caldav = q.caldav]
                        ELSE [prefStored EXCEPT !.fields[q.form] = q.field]
      BY <2>1 DEF prefServed, Saves
    <3>2. q.form \in PrefForms \cup {"caldav"} /\ "caldav" \notin PrefForms
      BY <2>1 DEF PrefInv, SavesAreTheLast, IsLast, PrefForms
    <3>3. q.caldav \in CalDav /\ q.field \in 0 .. MaxPrefEdits
      BY <1>4 DEF PrefRequests
    <3>4. CASE q.form = "caldav"
      BY <1>4, <2>1, <3>1, <3>3, <3>4 DEF PrefRows, Saves
    <3>5. CASE q.form # "caldav"
      BY <1>4, <2>1, <3>1, <3>2, <3>3, <3>5 DEF PrefRows, Saves
    <3> QED
      BY <3>4, <3>5
  <2>2. CASE q.fn = "calendars" \/ q.fn = "list"
    BY <1>4, <2>2 DEF prefServed, Saves, PrefRows
  <2>3. CASE q.fn = "password"
    BY <1>4, <2>3 DEF prefServed, Saves, PrefRows
  <2>4. CASE q.fn = "end"
    BY <1>4, <2>4 DEF prefServed, Saves, PrefRows
  <2> QED
    BY <1>3, <2>1, <2>2, <2>3, <2>4
<1>6. prefOut' \subseteq PrefRequests
  BY <1>1, TypesOfPrefs
<1>7. PreferencesTypeOK'
  BY <1>2, <1>5, <1>6, TypesOfPrefs, TypesMakePrefs DEF prefServed
<1>8. OneSubmission'
  BY <1>1, <1>2 DEF PrefInv, OneSubmission
<1>9. CalendarsAreOfTheAccount'
  BY <1>1, <1>2, <1>5 DEF PrefInv, CalendarsAreOfTheAccount, OfItsAccount
<1>10. SavesAreTheLast'
  <2>1. \A p \in prefOut' : p.fn \in Saves => IsLast(p)'
    BY <1>1, <1>2 DEF PrefInv, SavesAreTheLast, IsLast
  <2>2. \A g : OnItsWay(g) => OnItsWay(g)' \/ (q.fn \in Saves /\ q.form = g)
    BY <1>1 DEF OnItsWay
  <2>3. q.fn \in Saves => IsLast(q)
    BY DEF PrefInv, SavesAreTheLast
  <2>4. "caldav" \notin PrefForms
    BY DEF PrefForms
  <2>5. ASSUME ~prefPast.lost, NEW f \in PrefForms
        PROVE  prefStored'.fields[f] = lastSaved'.fields[f] \/ OnItsWay(f)'
    BY <1>2, <1>5, <2>2, <2>3, <2>4, <2>5 DEF PrefInv, SavesAreTheLast, IsLast
  <2>6. ASSUME ~prefPast.lost
        PROVE  prefStored'.caldav = lastSaved'.caldav \/ OnItsWay("caldav")'
    BY <1>2, <1>5, <2>2, <2>3, <2>6 DEF PrefInv, SavesAreTheLast, IsLast
  <2> QED
    BY <1>2, <2>1, <2>5, <2>6 DEF SavesAreTheLast
<1>11. ListsAreFresh'
  <2>1. (Usable' = Usable) /\ LoggedIn
    BY <1>2 DEF Usable
  <2>2. (\A p \in prefOut' : p.fn # "end") <=> (\A p \in prefOut : p.fn # "end")
    BY <1>1
  <2>3. (\A p \in prefOut' : p.fn # "list") <=> (\A p \in prefOut : p.fn # "list")
    BY <1>1
  <2>4. LoggedIn' /\ (\A p \in prefOut' : p.fn # "end") => prefStored'.sessions = prefStored.sessions
    BY <1>5, <2>2 DEF LoggedIn
  <2>5. \A p, s \in prefOut' : (prefPast'.overlap \/ (p.fn = "list" /\ s.fn = "list" => p = s))
    BY <1>1, <1>2 DEF PrefInv, ListsAreFresh
  <2> QED
    BY <1>1, <1>2, <2>1, <2>2, <2>3, <2>4, <2>5 DEF PrefInv, ListsAreFresh
<1> QED
  BY <1>6, <1>7, <1>8, <1>9, <1>10, <1>11 DEF PrefInv

-----------------------------------------------------------------------------
\* An answer ends a request: the request is gone, and what the page waits for with it.
LEMMA PrefEndKeeps ==
    ASSUME PrefInv, NEW q \in prefOut, prefOut' = prefOut \ {q},
           UNCHANGED <<prefStored, prefSent, lastSaved>>,
           prefs' \in PrefStates, prefPast' \in PrefPasts,
           prefPast'.midway = prefPast.midway, prefPast'.overlap = prefPast.overlap,
           prefPast.lost => prefPast'.lost,
           q.fn \in Saves /\ ~q.done => prefPast'.lost,
           prefs'.submitting = prefs.submitting \/ q.fn \in Submissions,
           prefs'.hint = "saved" => ~prefs'.submitting,
           prefPast'.midway \/
              /\ prefs'.loaded => prefs'.calendars \subseteq {prefs'.caldav.account} /\ OfItsAccount(prefs'.caldav)
              /\ prefs'.caldav.account = prefs.caldav.account
                 \/ \A r \in prefOut' : r.fn # "calendars",
           Usable' => Usable,
           Usable' => (q.fn # "end" /\ (IF q.fn = "list" THEN q.done /\ prefs'.sessions = q.sessions
                                        ELSE prefs'.sessions = prefs.sessions))
    PROVE  PrefInv'
<1>1. prefOut' \subseteq PrefRequests
  BY TypesOfPrefs
<1>2. PreferencesTypeOK'
  BY <1>1, TypesOfPrefs, TypesMakePrefs
<1>3. OneSubmission'
  BY DEF PrefInv, OneSubmission
<1>4. CalendarsAreOfTheAccount'
  BY DEF PrefInv, CalendarsAreOfTheAccount, OfItsAccount
<1>5. SavesAreTheLast'
  <2>1. \A g : OnItsWay(g) => OnItsWay(g)' \/ prefPast'.lost
    BY DEF OnItsWay
  <2> QED
    BY <2>1 DEF PrefInv, SavesAreTheLast, IsLast
<1>6. ListsAreFresh'
  BY DEF PrefInv, ListsAreFresh, LoggedIn
<1> QED
  BY <1>1, <1>2, <1>3, <1>4, <1>5, <1>6 DEF PrefInv

LEMMA PrefAnswersKeep ==
    ASSUME PrefInv, NEW q \in prefOut,
           \/ listCalendarsAnswered(q) \/ setAllAnswered(q) \/ newPasswordAnswered(q)
           \/ loadActiveSessions(q) \/ prefFailed(q)
    PROVE  PrefInv'
<1>1. /\ q \in PrefRequests /\ prefs \in PrefStates /\ prefPast \in PrefPasts
      /\ prefs.hint = "saved" => ~prefs.submitting
      /\ prefPast.midway \/ (prefs.loaded => prefs.calendars \subseteq {prefs.caldav.account}
                                             /\ OfItsAccount(prefs.caldav))
  BY TypesOfPrefs DEF PrefInv, OneSubmission, CalendarsAreOfTheAccount
<1>2. /\ q.fn \in Submissions => \A r \in prefOut : r.fn \in Submissions => r = q
      /\ q.fn = "calendars" => q.caldav.account = prefs.caldav.account \/ prefPast.midway
      /\ q.caldav \in CalDav /\ q.sessions \in SUBSET AllSessions
  BY <1>1 DEF PrefInv, OneSubmission, CalendarsAreOfTheAccount, PrefRequests
<1>3. CASE listCalendarsAnswered(q)
  <2>1. PICK cs \in {{}, {q.caldav.account}} :
           prefs' = [prefs EXCEPT !.submitting = FALSE, !.loaded = TRUE, !.calendars = cs,
                        !.caldav.calendar = IF cs = {} THEN NoAccount ELSE q.caldav.account]
    BY <1>3 DEF listCalendarsAnswered
  <2>2. /\ q.fn = "calendars" /\ prefOut' = prefOut \ {q}
        /\ UNCHANGED <<prefStored, prefSent, lastSaved, prefPast>>
    BY <1>3 DEF listCalendarsAnswered, PrefDone
  <2>3. prefs' \in PrefStates /\ prefs'.submitting = FALSE
    <3>1. q.caldav.account \in Accounts
      BY <2>2 DEF PrefInv, OneSubmission
    <3>2. cs \in SUBSET Accounts
      BY <2>1, <3>1
    <3> QED
      BY <1>1, <2>1, <3>1, <3>2 DEF PrefStates, CalDav
  <2>4. /\ prefs'.caldav.account = prefs.caldav.account
        /\ prefs'.caldav.calendar = IF cs = {} THEN NoAccount ELSE q.caldav.account
        /\ prefs'.calendars = cs
        /\ \A x \in {"dialog", "left", "sessions"} : prefs'[x] = prefs[x]
    BY <1>1, <2>1 DEF PrefStates, CalDav
  <2>5. prefPast'.midway \/ (prefs'.calendars \subseteq {prefs'.caldav.account} /\ OfItsAccount(prefs'.caldav))
    BY <1>2, <2>1, <2>2, <2>4 DEF OfItsAccount
  <2>6. Usable' = Usable
    BY <2>4 DEF Usable
  <2> QED
    BY <1>1, <1>2, <2>2, <2>3, <2>4, <2>5, <2>6, PrefEndKeeps DEF Submissions, Saves
<1>4. CASE setAllAnswered(q)
  <2>1. q.fn \in Saves /\ q.done /\ prefOut' = prefOut \ {q}
        /\ UNCHANGED <<prefStored, prefSent, lastSaved, prefPast>>
    BY <1>4 DEF setAllAnswered, PrefDone, Saves
  <2>2. /\ prefs' \in PrefStates /\ prefs'.submitting = FALSE
        /\ \A x \in {"dialog", "left", "sessions", "loaded"} : prefs'[x] = prefs[x]
        /\ \/ \A x \in {"caldav", "calendars"} : prefs'[x] = prefs[x]
           \/ prefs'.caldav = Disconnected /\ prefs'.calendars = {}
    <3>1. Disconnected \in CalDav
      BY DEF Disconnected, CalDav
    <3>2. CASE q.fn = "save"
      BY <1>1, <1>4, <3>2 DEF setAllAnswered, PrefSaved, PrefStates
    <3>3. CASE q.fn # "save"
      <4>1. prefs' = [PrefSaved(prefs) EXCEPT !.caldav = Disconnected, !.calendars = {}]
        BY <1>4, <3>3 DEF setAllAnswered
      <4> QED
        BY <1>1, <3>1, <4>1 DEF PrefSaved, PrefStates
    <3> QED
      BY <3>2, <3>3
  <2>3. prefPast'.midway \/ (prefs'.loaded => prefs'.calendars \subseteq {prefs'.caldav.account}
                                             /\ OfItsAccount(prefs'.caldav))
    BY <1>1, <2>1, <2>2 DEF OfItsAccount, Disconnected
  <2>4. \A r \in prefOut' : r.fn # "calendars"
    BY <1>2, <2>1 DEF Submissions, Saves
  <2>5. Usable' = Usable /\ q.fn # "end" /\ q.fn # "list" /\ q.fn \in Submissions
    BY <2>1, <2>2 DEF Usable, Saves, Submissions
  <2> QED
    BY <1>1, <2>1, <2>2, <2>3, <2>4, <2>5, PrefEndKeeps
<1>5. CASE newPasswordAnswered(q)
  <2>1. /\ q.fn = "password" /\ prefOut' = prefOut \ {q}
        /\ UNCHANGED <<prefStored, prefSent, lastSaved, prefPast>>
    BY <1>5 DEF newPasswordAnswered, PrefDone
  <2>2. /\ prefs' \in PrefStates /\ prefs'.submitting = FALSE /\ prefs'.dialog = TRUE
        /\ \A x \in {"caldav", "calendars", "sessions", "loaded"} : prefs'[x] = prefs[x]
    BY <1>1, <1>5 DEF newPasswordAnswered, PrefStates
  <2>3. ~Usable'
    BY <2>2 DEF Usable
  <2> QED
    BY <1>1, <2>1, <2>2, <2>3, PrefEndKeeps DEF Submissions, Saves
<1>6. CASE loadActiveSessions(q)
  <2>1. /\ q.fn = "list" /\ q.done /\ prefOut' = prefOut \ {q}
        /\ UNCHANGED <<prefStored, prefSent, lastSaved, prefPast>>
    BY <1>6 DEF loadActiveSessions, PrefDone
  <2>2. /\ prefs' \in PrefStates /\ prefs'.sessions = q.sessions
        /\ \A x \in {"caldav", "calendars", "submitting", "hint", "dialog", "left", "loaded"} :
              prefs'[x] = prefs[x]
    BY <1>1, <1>2, <1>6 DEF loadActiveSessions, PrefStates
  <2>3. Usable' = Usable
    BY <2>2 DEF Usable
  <2>4. prefs'.submitting = prefs.submitting \/ q.fn \in Submissions
    BY <2>2
  <2> QED
    BY <1>1, <2>1, <2>2, <2>3, <2>4, PrefEndKeeps DEF Submissions, Saves
<1>7. CASE prefFailed(q)
  <2>1. /\ prefOut' = prefOut \ {q} /\ UNCHANGED <<prefStored, prefSent, lastSaved>>
        /\ prefPast' \in PrefPasts
        /\ prefPast'.midway = prefPast.midway /\ prefPast'.overlap = prefPast.overlap
        /\ prefPast.lost => prefPast'.lost
        /\ q.fn \in Saves => prefPast'.lost
    BY <1>1, <1>7 DEF prefFailed, PrefDone, PrefPasts, Saves
  <2>2. CASE q.fn \in Saves \/ q.fn = "calendars"
    <3>1. /\ prefs' \in PrefStates /\ prefs'.submitting = FALSE
          /\ \A x \in {"caldav", "calendars", "sessions", "dialog", "left", "loaded"} :
                prefs'[x] = prefs[x]
      BY <1>1, <1>7, <2>2 DEF prefFailed, PrefStates, Saves
    <3>2. Usable' = Usable
      BY <3>1 DEF Usable
    <3> QED
      BY <1>1, <2>1, <2>2, <3>1, <3>2, PrefEndKeeps DEF Submissions, Saves
  <2>3. CASE q.fn = "password"
    <3>1. prefs' = prefs
      BY <1>7, <2>3 DEF prefFailed
    <3>2. Usable' = Usable
      BY <3>1 DEF Usable
    <3> QED
      BY <1>1, <2>1, <2>3, <3>1, <3>2, PrefEndKeeps DEF Submissions, Saves
  <2>4. CASE q.fn \in {"end", "list"}
    <3>1. prefs' = [prefs EXCEPT !.left = TRUE]
      BY <1>7, <2>4 DEF prefFailed
    <3>2. /\ prefs' \in PrefStates /\ prefs'.left = TRUE
          /\ \A x \in {"caldav", "calendars", "sessions", "dialog", "submitting", "hint", "loaded"} :
                prefs'[x] = prefs[x]
      BY <1>1, <3>1 DEF PrefStates
    <3>3. ~Usable'
      BY <3>2 DEF Usable
    <3>4. prefs'.submitting = prefs.submitting \/ q.fn \in Submissions
      BY <3>2
    <3> QED
      BY <1>1, <2>1, <2>4, <3>2, <3>3, <3>4, PrefEndKeeps DEF Submissions, Saves
  <2> QED
    BY <1>1, <2>2, <2>3, <2>4 DEF PrefRequests, Submissions, Saves
<1> QED
  BY <1>3, <1>4, <1>5, <1>6, <1>7

\* A session was ended: the list is asked for.
LEMMA PrefListKeeps ==
    ASSUME PrefInv, NEW q \in prefOut, endAnswered(q)
    PROVE  PrefInv'
<1>1. PICK r \in PrefRequests :
         prefOut' = (prefOut \ {q}) \cup {r} /\ r.fn = "list" /\ r.done = FALSE
  <2> DEFINE r == [q EXCEPT !.fn = "list", !.sessions = {}, !.done = FALSE]
  <2>1. q \in PrefRequests
    BY TypesOfPrefs
  <2>2. r \in PrefRequests /\ r.fn = "list" /\ r.done = FALSE
    BY <2>1 DEF PrefRequests
  <2>3. prefOut' = (prefOut \ {q}) \cup {r}
    BY DEF endAnswered
  <2> HIDE DEF r
  <2> QED
    BY <2>2, <2>3
<1>2. /\ q.fn = "end" /\ UNCHANGED <<prefs, prefStored, prefSent, lastSaved>>
      /\ prefPast' \in PrefPasts
      /\ prefPast'.midway = prefPast.midway /\ prefPast'.lost = prefPast.lost
      /\ prefPast'.overlap = (prefPast.overlap \/ \E s \in prefOut : s.fn = "list")
  BY TypesOfPrefs DEF endAnswered, PrefPasts
<1>3. PreferencesTypeOK' /\ prefOut' \subseteq PrefRequests
  BY <1>1, <1>2, TypesOfPrefs, TypesMakePrefs
<1>4. \A f : OnItsWay(f)' = OnItsWay(f)
  BY <1>1, <1>2 DEF OnItsWay, Saves
<1>5. ListsAreFresh'
  BY <1>1, <1>2 DEF ListsAreFresh
<1> QED
  BY <1>1, <1>2, <1>3, <1>4, <1>5 DEF PrefInv, OneSubmission, CalendarsAreOfTheAccount,
     SavesAreTheLast, IsLast, Submissions, Saves, OfItsAccount

LEMMA PrefBegins ==
    ASSUME PreferencesInit
    PROVE  PrefInv
<1>1. PICK c \in CalDav :
         /\ c.calendar = c.account
         /\ prefs = [submitting |-> FALSE, hint |-> "none", dialog |-> FALSE, left |-> FALSE,
                     fields |-> [f \in PrefForms |-> 0],
                     caldav |-> c, loaded |-> FALSE, calendars |-> {},
                     sessions |-> AllSessions]
         /\ prefStored = [caldav |-> c, fields |-> [f \in PrefForms |-> 0], sessions |-> AllSessions]
         /\ lastSaved = [caldav |-> c, fields |-> [f \in PrefForms |-> 0]]
         /\ prefOut = {} /\ prefSent = 0
         /\ prefPast = [midway |-> FALSE, lost |-> FALSE, stuck |-> FALSE, overlap |-> FALSE]
  BY DEF PreferencesInit
<1>2. MaxPrefEdits \in Nat /\ MaxPrefRequests \in Nat
  BY PreferencesAssumption
<1>3. PreferencesTypeOK /\ prefOut \subseteq PrefRequests
  BY <1>1, <1>2 DEF PreferencesTypeOK
<1> QED
  BY <1>1, <1>3 DEF PrefInv, OneSubmission, CalendarsAreOfTheAccount, SavesAreTheLast, ListsAreFresh,
     OfItsAccount

LEMMA PrefGoesOn ==
    ASSUME PrefInv, [PreferencesNext]_prefVars
    PROVE  PrefInv'
<1>1. CASE editBookings \/ editColors
  BY <1>1, PrefEditsKeep DEF editBookings, editColors, PrefForms
<1>2. CASE onSubmitBookings \/ onSubmitColors
  BY <1>2, PrefSubmitsKeep DEF onSubmitBookings, onSubmitColors, PrefForms
<1>3. CASE \E a \in Accounts : editCalDav(a) \/ selectCalendar(a)
  BY <1>3, PrefEditsKeep
<1>4. CASE connectCalDav \/ disconnectCalDav \/ saveCaldavSettings \/ onSubmitSecurity
  BY <1>4, PrefSubmitsKeep
<1>5. CASE \E ss \in {{s} : s \in prefs.sessions} \cup {prefs.sessions \ {This}} : endSessions(ss)
  <2>1. prefs.sessions \in SUBSET AllSessions
    BY TypesOfPrefs DEF PrefStates
  <2> QED
    BY <1>5, <2>1, PrefEndingKeeps
<1>6. CASE showTab \/ UNCHANGED prefVars
  BY <1>6, PrefEditsKeep
<1>7. CASE PrefAnswers
  BY <1>7, PrefServedKeeps, PrefAnswersKeep, PrefListKeeps DEF PrefAnswers, PrefAnswer
<1> QED
  BY <1>1, <1>2, <1>3, <1>4, <1>5, <1>6, <1>7 DEF PreferencesNext

LEMMA PrefInvHolds == PreferencesSpec => []PrefInv
<1>1. PreferencesInit => PrefInv
  BY PrefBegins
<1>2. PrefInv /\ [PreferencesNext]_prefVars => PrefInv'
  BY PrefGoesOn
<1> QED
  BY <1>1, <1>2, PTL DEF PreferencesSpec

LEMMA PrefPromise ==
    ASSUME PrefInv
    PROVE  PreferencesKept
<1>1. CalendarOfItsAccount
  BY DEF PrefInv, CalendarsAreOfTheAccount, OfItsAccount, CalendarOfItsAccount
<1>2. LastSaveStays
  <2> SUFFICES ASSUME prefs.hint = "saved", ~prefPast.lost
               PROVE  prefStored.fields = lastSaved.fields /\ prefStored.caldav = lastSaved.caldav
    BY DEF LastSaveStays
  <2>1. \A f : ~OnItsWay(f)
    BY DEF PrefInv, OneSubmission, OnItsWay, Saves, Submissions
  <2>2. /\ \A f \in PrefForms : prefStored.fields[f] = lastSaved.fields[f]
        /\ prefStored.caldav = lastSaved.caldav
    BY <2>1 DEF PrefInv, SavesAreTheLast
  <2>3. prefStored.fields \in [PrefForms -> 0 .. MaxPrefEdits]
        /\ lastSaved.fields \in [PrefForms -> 0 .. MaxPrefEdits]
    BY TypesOfPrefs DEF PrefRows, PrefSaves
  <2> QED
    BY <2>2, <2>3
<1>3. SessionsListed
  BY DEF PrefInv, ListsAreFresh, SessionsListed
<1> QED
  BY <1>1, <1>2, <1>3 DEF PreferencesKept

\* Whatever is edited, connected, sent and ended on the preferences' page, in whatever order
\* the answers come: the stored calendar is one of its account, the forms do not undo each
\* other's saves, and the list of the sessions is that of the server.
THEOREM PreferencesAreKept == PreferencesSpec => []PreferencesKept
<1>1. PrefInv => PreferencesKept
  BY PrefPromise
<1> QED
  BY <1>1, PrefInvHolds, PTL
-----------------------------------------------------------------------------
(* The settings page                                                       *)
SettingRequests == [id : 1 .. MaxSettingRequests,
                    at : SaveSteps \cup DomainSteps \cup {"list"},
                    domain : Domains \cup {""}, value : 0 .. MaxSettingEdits,
                    got : SUBSET DomainRow, answered : BOOLEAN]
SettingStates == [form : 0 .. MaxSettingEdits, hoursValid : BOOLEAN, submitting : BOOLEAN,
                  saved : BOOLEAN, error : BOOLEAN, domains : SUBSET DomainRow,
                  infos : 0 .. MaxSettingEdits]
OrgRows == [office : 0 .. MaxSettingEdits, settings : 0 .. MaxSettingEdits, rows : SUBSET DomainRow]
SettingPasts == [saves : BOOLEAN, stuck : BOOLEAN, changes : BOOLEAN, unlisted : BOOLEAN]

\* A save has stored, by the time it has come to a step, what was sent last.
SaveIsAt(q) ==
    /\ q.at # "infos" \/ q.answered => q.value = settingsSubmitted
    /\ q.at # "office" \/ q.answered => orgStored.office = settingsSubmitted
    /\ q.at = "infos" \/ (q.at = "all" /\ q.answered) => orgStored.settings = settingsSubmitted
OneSave ==
    ~settingPast.saves =>
        /\ \A q, r \in settingOut : q.at \in SaveSteps /\ r.at \in SaveSteps => q = r
        /\ \A q \in settingOut : q.at \in SaveSteps => ~settings.saved /\ SaveIsAt(q)
        /\ settings.saved =>
              /\ orgStored.office = settingsSubmitted /\ orgStored.settings = settingsSubmitted
              /\ settings.infos = settingsSubmitted

\* A change of a domain has done nothing before its first statement, and makes a domain the
\* primary one when none is; what the page has given up is not listed.
Untouched == {"insert", "activate", "primary", "delete"}
OneRowEach == \A r, s \in orgStored.rows : r.name = s.name => r = s
OneChange ==
    ~settingPast.changes =>
        /\ \A q, r \in settingOut : q.at \notin SaveSteps /\ r.at \notin SaveSteps => q = r
        /\ \A r, s \in orgStored.rows : r.primary /\ s.primary => r = s
        /\ \A q \in settingOut : q.at = "set" => \A r \in orgStored.rows : ~r.primary
        /\ \A q \in settingOut : q.at = "list" /\ q.answered => q.got = orgStored.rows
        /\ \A q \in settingOut : q.at \in DomainSteps /\ q.answered => settingPast.unlisted
        /\ ~settingPast.unlisted /\ (\A q \in settingOut : q.at \in SaveSteps \cup Untouched)
              => settings.domains = orgStored.rows

ChangesWait == \A q \in settingOut : q.at = "insert" => q.domain \in Domains

SettingInv == SettingsTypeOK /\ OneSave /\ OneRowEach /\ OneChange /\ ChangesWait

LEMMA TypesOfSettings ==
    SettingsTypeOK <=> /\ settings \in SettingStates /\ orgStored \in OrgRows
                       /\ settingOut \subseteq SettingRequests
                       /\ settingSent \in 0 .. MaxSettingRequests
                       /\ settingsSubmitted \in 0 .. MaxSettingEdits
                       /\ settingPast \in SettingPasts
BY DEF SettingsTypeOK, SettingStates, OrgRows, SettingRequests, SettingPasts

LEMMA SettingNumbers ==
    ASSUME SettingsTypeOK
    PROVE  /\ settingSent < MaxSettingRequests =>
                  /\ settingSent + 1 \in 0 .. MaxSettingRequests
                  /\ settingSent + 1 \in 1 .. MaxSettingRequests
           /\ 0 \in 0 .. MaxSettingEdits
<1>1. MaxSettingRequests \in Nat /\ MaxSettingEdits \in Nat
  BY SettingsAssumption
<1>2. settingSent \in 0 .. MaxSettingRequests
  BY DEF SettingsTypeOK
<1> QED
  BY <1>1, <1>2

LEMMA TypesMakeSettings ==
    ASSUME settings' \in SettingStates, orgStored' \in OrgRows, settingOut' \subseteq SettingRequests,
           settingSent' \in 0 .. MaxSettingRequests, settingsSubmitted' \in 0 .. MaxSettingEdits,
           settingPast' \in SettingPasts
    PROVE  SettingsTypeOK'
BY DEF SettingsTypeOK, SettingStates, OrgRows, SettingRequests, SettingPasts

\* The two kinds of requests do not get into each other's way.
LEMMA SavesKeepDomains ==
    ASSUME OneRowEach, OneChange, ChangesWait, orgStored'.rows = orgStored.rows,
           settings'.domains = settings.domains, settingPast'.changes = settingPast.changes,
           settingPast'.unlisted = settingPast.unlisted,
           \A q : q.at \notin SaveSteps => (q \in settingOut' <=> q \in settingOut)
    PROVE  OneRowEach' /\ OneChange' /\ ChangesWait'
BY DEF OneRowEach, OneChange, ChangesWait, SaveSteps, Untouched, DomainSteps

LEMMA DomainsKeepSaves ==
    ASSUME OneSave, orgStored'.office = orgStored.office, orgStored'.settings = orgStored.settings,
           settings'.saved = settings.saved, settings'.infos = settings.infos,
           settingsSubmitted' = settingsSubmitted, settingPast'.saves = settingPast.saves,
           \A q : q.at \in SaveSteps => (q \in settingOut' <=> q \in settingOut)
    PROVE  OneSave'
BY DEF OneSave, SaveIsAt

LEMMA SettingEditsKeep ==
    ASSUME SettingInv, editOfficeHours \/ editSettings \/ UNCHANGED settingVars
    PROVE  SettingInv'
<1>1. CASE UNCHANGED settingVars
  BY <1>1 DEF SettingInv, SettingsTypeOK, OneSave, SaveIsAt, OneRowEach, OneChange, ChangesWait, settingVars
<1>2. CASE editOfficeHours \/ editSettings
  <2>1. PICK valid \in BOOLEAN : Edited(valid)
    BY <1>2, TypesOfSettings DEF editOfficeHours, editSettings, SettingInv, SettingStates
  <2>2. settings.form + 1 \in 0 .. MaxSettingEdits
    BY <2>1, TypesOfSettings, SettingsAssumption DEF Edited, SettingInv, SettingStates
  <2>3. /\ settings' \in SettingStates
        /\ \A x \in {"saved", "infos", "domains"} : settings'[x] = settings[x]
        /\ UNCHANGED <<orgStored, settingOut, settingSent, settingsSubmitted, settingPast>>
    BY <2>1, <2>2, TypesOfSettings DEF Edited, SettingInv, SettingStates
  <2>4. SettingsTypeOK'
    BY <2>3, TypesOfSettings, TypesMakeSettings DEF SettingInv
  <2> QED
    BY <2>3, <2>4, SavesKeepDomains, DomainsKeepSaves DEF SettingInv
<1> QED
  BY <1>1, <1>2

LEMMA SettingSubmitKeeps ==
    ASSUME SettingInv, onSubmitSettings
    PROVE  SettingInv'
<1>1. /\ settings \in SettingStates /\ orgStored \in OrgRows /\ settingOut \subseteq SettingRequests
      /\ settingSent \in 0 .. MaxSettingRequests /\ settingsSubmitted \in 0 .. MaxSettingEdits
      /\ settingPast \in SettingPasts
  BY TypesOfSettings DEF SettingInv
<1>2. CASE ~settings.hoursValid
  <2>1. /\ settings' \in SettingStates /\ settings'.saved = FALSE
        /\ \A x \in {"infos", "domains"} : settings'[x] = settings[x]
        /\ UNCHANGED <<orgStored, settingOut, settingSent, settingsSubmitted, settingPast>>
    BY <1>1, <1>2 DEF onSubmitSettings, SettingStates
  <2>2. SettingsTypeOK'
    BY <1>1, <2>1, TypesMakeSettings
  <2>3. OneSave'
    BY <2>1 DEF SettingInv, OneSave, SaveIsAt
  <2> QED
    BY <2>1, <2>2, <2>3, SavesKeepDomains DEF SettingInv
<1>3. CASE settings.hoursValid
  <2>1. PICK q \in SettingRequests :
           /\ settingOut' = settingOut \cup {q} /\ settingSent' \in 0 .. MaxSettingRequests
           /\ q.at = "office" /\ q.answered = FALSE /\ q.value = settings.form
    <3> DEFINE r == SettingRequest("office", "")
    <3>1. settingSent < MaxSettingRequests /\ settingSent' = settingSent + 1
          /\ settingOut' = settingOut \cup {r}
      BY <1>3 DEF onSubmitSettings, SettingAsk, MayRequest
    <3>2. settingSent' \in 0 .. MaxSettingRequests /\ settingSent' \in 1 .. MaxSettingRequests
      BY <3>1, SettingNumbers DEF SettingInv
    <3>3. r \in SettingRequests
      BY <1>1, <3>1, <3>2 DEF SettingRequest, SettingRequests, SaveSteps, SettingStates
    <3>4. r.at = "office" /\ r.answered = FALSE /\ r.value = settings.form
      BY DEF SettingRequest
    <3> HIDE DEF r
    <3> QED
      BY <3>1, <3>2, <3>3, <3>4
  <2>2. /\ settings' \in SettingStates /\ settings'.saved = FALSE
        /\ \A x \in {"infos", "domains"} : settings'[x] = settings[x]
        /\ orgStored' = orgStored /\ settingsSubmitted' = settings.form
        /\ settingPast' \in SettingPasts /\ settingPast'.changes = settingPast.changes
        /\ settingPast'.unlisted = settingPast.unlisted
        /\ settingPast'.saves = (settingPast.saves \/ \E p \in settingOut : p.at \in SaveSteps)
    BY <1>1, <1>3 DEF onSubmitSettings, SettingStates, SettingPasts
  <2>3. SettingsTypeOK'
    BY <1>1, <2>1, <2>2, TypesMakeSettings DEF SettingStates
  <2>4. OneSave'
    BY <2>1, <2>2 DEF OneSave, SaveIsAt, SaveSteps
  <2> QED
    BY <2>1, <2>2, <2>3, <2>4, SavesKeepDomains DEF SettingInv, SaveSteps
<1> QED
  BY <1>2, <1>3

LEMMA SaveStepsKeep ==
    ASSUME SettingInv, NEW q \in settingOut, SaveServed(q) \/ SaveAnswered(q) \/ SaveFailed(q)
    PROVE  SettingInv'
<1>1. /\ settings \in SettingStates /\ orgStored \in OrgRows /\ settingOut \subseteq SettingRequests
      /\ settingSent \in 0 .. MaxSettingRequests /\ settingsSubmitted \in 0 .. MaxSettingEdits
      /\ settingPast \in SettingPasts /\ q \in SettingRequests
  BY TypesOfSettings DEF SettingInv
<1>2. CASE SaveServed(q)
  <2>1. PICK r \in SettingRequests :
           /\ settingOut' = (settingOut \ {q}) \cup {r} /\ r.at = q.at /\ r.answered = TRUE
           /\ r.value = IF q.at = "infos" THEN orgStored.settings ELSE q.value
    <3> DEFINE r == [q EXCEPT !.answered = TRUE,
                              !.value = IF q.at = "infos" THEN orgStored.settings ELSE @]
    <3>1. settingOut' = (settingOut \ {q}) \cup {r}
      BY <1>2 DEF SaveServed, SettingMoves
    <3>2. /\ r \in SettingRequests /\ r.at = q.at /\ r.answered = TRUE
          /\ r.value = IF q.at = "infos" THEN orgStored.settings ELSE q.value
      BY <1>1 DEF SettingRequests, OrgRows
    <3> HIDE DEF r
    <3> QED
      BY <3>1, <3>2
  <2>2. /\ q.at \in SaveSteps /\ ~q.answered
        /\ UNCHANGED <<settings, settingSent, settingsSubmitted, settingPast>>
    BY <1>2 DEF SaveServed
  <2>3. /\ orgStored' \in OrgRows /\ orgStored'.rows = orgStored.rows
        /\ orgStored'.office = IF q.at = "office" THEN q.value ELSE orgStored.office
        /\ orgStored'.settings = IF q.at = "all" THEN q.value ELSE orgStored.settings
    <3>1. q.value \in 0 .. MaxSettingEdits
      BY <1>1 DEF SettingRequests
    <3>2. CASE q.at = "office"
      <4>1. orgStored' = [orgStored EXCEPT !.office = q.value]
        BY <1>2, <3>2 DEF SaveServed
      <4> QED
        BY <1>1, <3>1, <3>2, <4>1 DEF OrgRows
    <3>3. CASE q.at = "all"
      <4>1. orgStored' = [orgStored EXCEPT !.settings = q.value]
        BY <1>2, <3>3 DEF SaveServed
      <4> QED
        BY <1>1, <3>1, <3>3, <4>1 DEF OrgRows
    <3>4. CASE q.at = "infos"
      BY <1>1, <1>2, <3>4 DEF SaveServed
    <3> QED
      BY <2>2, <3>2, <3>3, <3>4 DEF SaveSteps
  <2>4. SettingsTypeOK'
    BY <1>1, <2>1, <2>2, <2>3, TypesMakeSettings
  <2>5. OneSave'
    BY <2>1, <2>2, <2>3 DEF SettingInv, OneSave, SaveIsAt, SaveSteps
  <2> QED
    BY <2>1, <2>2, <2>3, <2>4, <2>5, SavesKeepDomains DEF SettingInv
<1>3. CASE SaveAnswered(q) /\ q.at # "infos"
  <2>1. PICK r \in SettingRequests :
           /\ settingOut' = (settingOut \ {q}) \cup {r} /\ r.answered = FALSE /\ r.value = q.value
           /\ r.at = IF q.at = "office" THEN "all" ELSE "infos"
    <3>1. CASE q.at = "office"
      <4> DEFINE r == [q EXCEPT !.at = "all", !.answered = FALSE]
      <4>1. settingOut' = (settingOut \ {q}) \cup {r}
        BY <1>3, <3>1 DEF SaveAnswered, AfterOffice, SettingMoves
      <4>2. r \in SettingRequests /\ r.answered = FALSE /\ r.value = q.value /\ r.at = "all"
        BY <1>1 DEF SettingRequests, SaveSteps
      <4> HIDE DEF r
      <4> QED
        BY <3>1, <4>1, <4>2
    <3>2. CASE q.at # "office"
      <4> DEFINE r == [q EXCEPT !.at = "infos", !.answered = FALSE]
      <4>1. settingOut' = (settingOut \ {q}) \cup {r}
        BY <1>3, <3>2 DEF SaveAnswered, SettingMoves
      <4>2. r \in SettingRequests /\ r.answered = FALSE /\ r.value = q.value /\ r.at = "infos"
        BY <1>1 DEF SettingRequests, SaveSteps
      <4> HIDE DEF r
      <4> QED
        BY <3>2, <4>1, <4>2
    <3> QED
      BY <3>1, <3>2
  <2>2. /\ q.at \in SaveSteps /\ q.answered
        /\ UNCHANGED <<settings, orgStored, settingSent, settingsSubmitted, settingPast>>
    BY <1>3 DEF SaveAnswered
  <2>3. SettingsTypeOK'
    BY <1>1, <2>1, <2>2, TypesMakeSettings
  <2>4. OneSave'
    BY <1>3, <2>1, <2>2 DEF SettingInv, OneSave, SaveIsAt, SaveSteps
  <2> QED
    BY <2>1, <2>2, <2>3, <2>4, SavesKeepDomains DEF SettingInv, SaveSteps
<1>4. CASE SaveAnswered(q) /\ q.at = "infos"
  <2>1. /\ q.answered /\ settingOut' = settingOut \ {q}
        /\ UNCHANGED <<orgStored, settingSent, settingsSubmitted, settingPast>>
        /\ settings' \in SettingStates /\ settings'.saved = TRUE /\ settings'.infos = q.value
        /\ settings'.domains = settings.domains
    BY <1>1, <1>4 DEF SaveAnswered, SettingEnds, SettingStates, SettingRequests
  <2>2. SettingsTypeOK'
    BY <1>1, <2>1, TypesMakeSettings
  <2>3. OneSave'
    BY <1>4, <2>1 DEF SettingInv, OneSave, SaveIsAt, SaveSteps
  <2> QED
    BY <1>4, <2>1, <2>2, <2>3, SavesKeepDomains DEF SettingInv, SaveSteps
<1>5. CASE SaveFailed(q)
  <2>1. /\ q.at \in SaveSteps /\ settingOut' = settingOut \ {q}
        /\ UNCHANGED <<orgStored, settingSent, settingsSubmitted>>
        /\ settings' \in SettingStates
        /\ \A x \in {"saved", "infos", "domains"} : settings'[x] = settings[x]
        /\ settingPast' \in SettingPasts /\ settingPast'.saves = settingPast.saves
        /\ settingPast'.changes = settingPast.changes
        /\ settingPast'.unlisted = settingPast.unlisted
    BY <1>1, <1>5 DEF SaveFailed, SettingEnds, SettingStates, SettingPasts
  <2>2. SettingsTypeOK'
    BY <1>1, <2>1, TypesMakeSettings
  <2>3. OneSave'
    BY <2>1 DEF SettingInv, OneSave, SaveIsAt
  <2> QED
    BY <2>1, <2>2, <2>3, SavesKeepDomains DEF SettingInv
<1> QED
  BY <1>2, <1>3, <1>4, <1>5

-----------------------------------------------------------------------------
LEMMA ChangeBeginsKeeps ==
    ASSUME SettingInv, NEW d \in Domains, NEW at \in Untouched, ChangeDomain(at, d)
    PROVE  SettingInv'
<1>1. /\ settings \in SettingStates /\ orgStored \in OrgRows /\ settingOut \subseteq SettingRequests
      /\ settingSent \in 0 .. MaxSettingRequests /\ settingsSubmitted \in 0 .. MaxSettingEdits
      /\ settingPast \in SettingPasts
  BY TypesOfSettings DEF SettingInv
<1>2. PICK q \in SettingRequests :
         /\ settingOut' = settingOut \cup {q} /\ settingSent' \in 0 .. MaxSettingRequests /\ q.at = at
         /\ q.answered = FALSE /\ q.domain = d
  <2> DEFINE r == SettingRequest(at, d)
  <2>1. settingSent < MaxSettingRequests /\ settingSent' = settingSent + 1
        /\ settingOut' = settingOut \cup {r}
    BY DEF ChangeDomain, SettingAsk, MayRequest
  <2>2. settingSent' \in 0 .. MaxSettingRequests /\ settingSent' \in 1 .. MaxSettingRequests
    BY <2>1, SettingNumbers DEF SettingInv
  <2>3. settings.form \in 0 .. MaxSettingEdits /\ 0 \in 0 .. MaxSettingEdits
    BY <1>1, SettingNumbers DEF SettingStates, SettingInv
  <2>4. r \in SettingRequests
    BY <1>1, <2>1, <2>2, <2>3 DEF SettingRequest, SettingRequests, DomainSteps, Untouched
  <2>5. r.at = at /\ r.answered = FALSE /\ r.domain = d
    BY DEF SettingRequest
  <2> HIDE DEF r
  <2> QED
    BY <2>1, <2>2, <2>4, <2>5
<1>3. /\ UNCHANGED <<settings, orgStored, settingsSubmitted>>
      /\ settingPast' \in SettingPasts /\ settingPast'.saves = settingPast.saves
      /\ settingPast'.unlisted = settingPast.unlisted
      /\ settingPast'.changes = (settingPast.changes \/ \E p \in settingOut : p.at \notin SaveSteps)
  BY <1>1 DEF ChangeDomain, SettingPasts, Changing, SettingRequests, SaveSteps, DomainSteps
<1>4. SettingsTypeOK'
  BY <1>1, <1>2, <1>3, TypesMakeSettings
<1>5. OneSave'
  BY <1>2, <1>3, DomainsKeepSaves DEF SettingInv, SaveSteps, Untouched
<1>6. OneRowEach' /\ OneChange' /\ ChangesWait'
  BY <1>2, <1>3 DEF SettingInv, OneRowEach, OneChange, ChangesWait, SaveSteps, Untouched
<1> QED
  BY <1>4, <1>5, <1>6 DEF SettingInv

\* What happens to a change without a new one: the list may be missed.
OneChangeOn ==
    /\ settingPast' \in SettingPasts /\ settingPast'.saves = settingPast.saves
    /\ settingPast'.changes = settingPast.changes
    /\ settings' \in SettingStates /\ settings'.saved = settings.saved
    /\ settings'.infos = settings.infos
    /\ orgStored' \in OrgRows /\ orgStored'.office = orgStored.office
    /\ orgStored'.settings = orgStored.settings
    /\ UNCHANGED <<settingSent, settingsSubmitted>>
    /\ OneRowEach'
    /\ \A r, s \in orgStored'.rows : r.primary /\ s.primary => settingPast.changes \/ r = s

\* A statement of a change: what remains of the change is at `to' afterwards.
LEMMA ChangeGoesOnKeeps ==
    ASSUME SettingInv, NEW q \in settingOut, q.at \notin SaveSteps,
           NEW to \in SettingRequests, to.at \notin SaveSteps,
           settingOut' = (settingOut \ {q}) \cup {to}, OneChangeOn,
           to.at \in Untouched => settingPast'.unlisted,
           to.at = "insert" => to.domain \in Domains,
           to.at = "set" => settingPast.changes \/ \A r \in orgStored'.rows : ~r.primary,
           to.at = "list" /\ to.answered => to.got = orgStored'.rows,
           to.at \in DomainSteps /\ to.answered => settingPast.changes \/ settingPast'.unlisted
    PROVE  SettingInv'
<1>1. SettingsTypeOK'
  BY TypesOfSettings, TypesMakeSettings DEF SettingInv, OneChangeOn
<1>2. OneSave'
  BY DomainsKeepSaves DEF SettingInv, OneChangeOn
<1>3. OneChange'
  <2> SUFFICES ASSUME ~settingPast.changes
               PROVE  OneChange'
    BY DEF OneChange, OneChangeOn
  <2>1. \A p \in settingOut : p.at \notin SaveSteps => p = q
    BY DEF SettingInv, OneChange
  <2>2. \A p \in settingOut' : p.at \notin SaveSteps => p = to
    BY <2>1
  <2>3. \A r, s \in orgStored'.rows : r.primary /\ s.primary => r = s
    BY DEF OneChangeOn
  <2>4. \A at \in DomainSteps \cup {"set", "list"} : at \notin SaveSteps
    BY DEF SaveSteps, DomainSteps
  <2>5. settingPast'.unlisted \/ to.at \notin SaveSteps \cup Untouched
    OBVIOUS
  <2>6. to \in settingOut'
    OBVIOUS
  <2> QED
    BY <2>2, <2>3, <2>4, <2>5, <2>6 DEF OneChange
<1> QED
  BY <1>1, <1>2, <1>3 DEF SettingInv, ChangesWait, OneChangeOn

LEMMA ChangeEndsKeeps ==
    ASSUME SettingInv, NEW q \in settingOut, q.at \notin SaveSteps,
           settingOut' = settingOut \ {q}, OneChangeOn,
           settingPast.changes \/ settingPast'.unlisted \/ settings'.domains = orgStored'.rows
    PROVE  SettingInv'
<1>1. SettingsTypeOK'
  BY TypesOfSettings, TypesMakeSettings DEF SettingInv, OneChangeOn
<1>2. OneSave'
  BY DomainsKeepSaves DEF SettingInv, OneChangeOn
<1>3. OneChange'
  <2> SUFFICES ASSUME ~settingPast.changes
               PROVE  OneChange'
    BY DEF OneChange, OneChangeOn
  <2>1. \A p \in settingOut' : p.at \in SaveSteps
    BY DEF SettingInv, OneChange
  <2>2. \A at \in DomainSteps \cup {"set", "list"} : at \notin SaveSteps
    BY DEF SaveSteps, DomainSteps
  <2>3. \A r, s \in orgStored'.rows : r.primary /\ s.primary => r = s
    BY DEF OneChangeOn
  <2> QED
    BY <2>1, <2>2, <2>3 DEF OneChange
<1> QED
  BY <1>1, <1>2, <1>3 DEF SettingInv, ChangesWait, OneChangeOn

\* What follows on a statement.
After(at) == CASE at = "insert" -> {"look"}
               [] at = "activate" -> {"list"}
               [] at = "primary" -> {"clear"}
               [] at = "delete" -> {"look"}
               [] at = "look" -> {"list", "clear"}
               [] at = "clear" -> {"set", "list"}
               [] at = "set" -> {"list"}
Cleared == orgStored' = [orgStored EXCEPT !.rows = {[r EXCEPT !.primary = FALSE] : r \in orgStored.rows}]

LEMMA DomainStepsKeep ==
    ASSUME SettingInv, NEW q \in settingOut, DomainStep(q)
    PROVE  SettingInv'
<1>1. /\ orgStored \in OrgRows /\ q \in SettingRequests
      /\ UNCHANGED <<settings, settingSent, settingsSubmitted, settingPast>>
  BY TypesOfSettings DEF SettingInv, DomainStep
<1>2. q.at \notin SaveSteps /\ q.at \in DomainSteps
  BY DEF DomainStep, SaveSteps, DomainSteps
<1>3. \/ q.answered /\ settingOut' = settingOut \ {q}
      \/ \E to \in SettingRequests :
            /\ settingOut' = (settingOut \ {q}) \cup {to}
            /\ to.at \notin SaveSteps \cup Untouched /\ to.answered = q.answered
            /\ to.at \in After(q.at) /\ (to.at = "list" => ~to.answered) /\ (to.at = "set" => Cleared)
  <2> SUFFICES ASSUME ~(q.answered /\ settingOut' = settingOut \ {q})
               PROVE  \E to \in SettingRequests :
                         /\ settingOut' = (settingOut \ {q}) \cup {to}
                         /\ to.at \notin SaveSteps \cup Untouched /\ to.answered = q.answered
                         /\ to.at \in After(q.at) /\ (to.at = "list" => ~to.answered)
                         /\ (to.at = "set" => Cleared)
    OBVIOUS
  <2>1. \A at \in {"look", "list", "clear", "set"}, d \in Domains \cup {""} :
           /\ [q EXCEPT !.at = at, !.domain = d] \in SettingRequests
           /\ [q EXCEPT !.at = at, !.domain = d].at = at
           /\ [q EXCEPT !.at = at, !.domain = d].answered = q.answered
           /\ [q EXCEPT !.at = at] = [q EXCEPT !.at = at, !.domain = q.domain]
           /\ at \notin SaveSteps \cup Untouched
    BY <1>1 DEF SettingRequests, SaveSteps, Untouched, DomainSteps
  <2>2. q.domain \in Domains \cup {""} /\ "" \in Domains \cup {""}
    BY <1>1 DEF SettingRequests
  <2> DEFINE Goes(at) == \E d \in Domains \cup {""} :
                           settingOut' = (settingOut \ {q}) \cup {[q EXCEPT !.at = at, !.domain = d]}
  <2>3. ASSUME NEW at \in {"look", "list", "clear", "set"}, SettingMoves(q, [q EXCEPT !.at = at])
        PROVE  Goes(at)
    <3>1. [q EXCEPT !.at = at] = [q EXCEPT !.at = at, !.domain = q.domain]
      BY <2>1, <2>2
    <3>2. settingOut' = (settingOut \ {q}) \cup {[q EXCEPT !.at = at]}
      BY <2>3 DEF SettingMoves
    <3>3. settingOut' = (settingOut \ {q}) \cup {[q EXCEPT !.at = at, !.domain = q.domain]}
      BY <3>1, <3>2, Zenon
    <3> QED
      BY <2>2, <3>3, Zenon
  <2>4. DomainDone(q) => Goes("list") /\ ~q.answered
    BY <2>3 DEF DomainDone, SettingEnds
  <2>5. \A d \in Domains \cup {""} : SettingMoves(q, [q EXCEPT !.at = "clear", !.domain = d]) => Goes("clear")
    BY DEF SettingMoves
  <2>6. \E at \in {"look", "list", "clear", "set"} :
           Goes(at) /\ at \in After(q.at) /\ (at = "list" => ~q.answered) /\ (at = "set" => Cleared)
    <3>1. CASE q.at = "insert"
      BY <2>3, <3>1 DEF DomainStep, After
    <3>2. CASE q.at = "activate"
      BY <2>4, <3>2 DEF DomainStep, After
    <3>3. CASE q.at = "primary"
      BY <2>3, <3>3 DEF DomainStep, After
    <3>4. CASE q.at = "delete"
      <4>1. SettingMoves(q, [q EXCEPT !.at = "look", !.domain = ""])
        BY <3>4 DEF DomainStep
      <4>2. settingOut' = (settingOut \ {q}) \cup {[q EXCEPT !.at = "look", !.domain = ""]}
        BY <4>1 DEF SettingMoves
      <4>3. Goes("look")
        BY <2>2, <4>2, Zenon
      <4> QED
        BY <3>4, <4>3 DEF After
    <3>5. CASE q.at = "look"
      <4>1. CASE DomainDone(q)
        BY <2>4, <3>5, <4>1 DEF After
      <4>2. CASE \E d \in Successors(q) : SettingMoves(q, [q EXCEPT !.at = "clear", !.domain = d])
        <5>1. Successors(q) \subseteq Domains \cup {""}
          <6>1. \A rows \in SUBSET DomainRow : Names(rows) \subseteq Domains
            BY DEF Names, DomainRow
          <6>2. orgStored.rows \in SUBSET DomainRow
            BY <1>1 DEF OrgRows
          <6>3. /\ Names({r \in orgStored.rows : r.active}) \subseteq Domains
                /\ Names({r \in {s \in orgStored.rows : s.active} : r.primary}) \subseteq Domains
            BY <6>1, <6>2
          <6> QED
            BY <2>2, <6>3 DEF Successors, PrimaryDomains
        <5> QED
          BY <2>5, <3>5, <4>2, <5>1 DEF After
      <4> QED
        BY <3>5, <4>1, <4>2 DEF DomainStep
    <3>6. CASE q.at = "clear"
      <4>1. CASE DomainDone(q)
        BY <2>4, <3>6, <4>1 DEF After
      <4>2. CASE Cleared /\ SettingMoves(q, [q EXCEPT !.at = "set"])
        BY <2>3, <3>6, <4>2 DEF After
      <4> QED
        BY <3>6, <4>1, <4>2 DEF DomainStep, Stores, Cleared
    <3>7. CASE q.at = "set"
      BY <2>4, <3>7 DEF DomainStep, After
    <3> QED
      BY <1>2, <3>1, <3>2, <3>3, <3>4, <3>5, <3>6, <3>7 DEF DomainSteps
  <2>7. PICK at \in {"look", "list", "clear", "set"}, d \in Domains \cup {""} :
           /\ settingOut' = (settingOut \ {q}) \cup {[q EXCEPT !.at = at, !.domain = d]}
           /\ at \in After(q.at) /\ (at = "list" => ~q.answered) /\ (at = "set" => Cleared)
    BY <2>6
  <2> HIDE DEF Goes
  <2> DEFINE to == [q EXCEPT !.at = at, !.domain = d]
  <2>8. /\ to \in SettingRequests /\ to.at = at /\ to.answered = q.answered
        /\ at \notin SaveSteps \cup Untouched
    BY <1>1 DEF SettingRequests, SaveSteps, Untouched, DomainSteps
  <2>9. settingOut' = (settingOut \ {q}) \cup {to}
    BY <2>7
  <2> HIDE DEF to
  <2> QED
    BY <2>7, <2>8, <2>9
<1>4. /\ orgStored' = orgStored \/ \E rows : orgStored' = [orgStored EXCEPT !.rows = rows]
      /\ q.at \in {"primary", "look"} => orgStored' = orgStored
  BY <1>2 DEF DomainStep, Stores, DomainSteps
<1>5. orgStored'.office = orgStored.office /\ orgStored'.settings = orgStored.settings
  BY <1>1, <1>4 DEF OrgRows
<1>6. /\ orgStored'.rows \subseteq DomainRow /\ OneRowEach' /\ orgStored' \in OrgRows
      /\ \A r, s \in orgStored'.rows : r.primary /\ s.primary => settingPast.changes \/ r = s
      /\ Cleared => \A r \in orgStored'.rows : ~r.primary
  <2>1. /\ orgStored.rows \subseteq DomainRow
        /\ \A r, s \in orgStored.rows : r.name = s.name => r = s
        /\ \A r, s \in orgStored.rows : r.primary /\ s.primary => settingPast.changes \/ r = s
        /\ q.at = "set" => settingPast.changes \/ \A r \in orgStored.rows : ~r.primary
    BY <1>1 DEF SettingInv, OneRowEach, OneChange, OrgRows
  <2>2. \A rows \in SUBSET DomainRow :
           /\ [orgStored EXCEPT !.rows = rows] \in OrgRows
           /\ [orgStored EXCEPT !.rows = rows].rows = rows
    BY <1>1 DEF OrgRows
  <2>3. CASE Cleared
    <3> DEFINE Off(r) == [r EXCEPT !.primary = FALSE]
    <3>1. orgStored' = [orgStored EXCEPT !.rows = {Off(r) : r \in orgStored.rows}]
      BY <2>3 DEF Cleared
    <3>2. \A r \in orgStored.rows : Off(r) \in DomainRow /\ Off(r).name = r.name /\ ~Off(r).primary
      BY <2>1 DEF DomainRow
    <3> HIDE DEF Off
    <3>3. {Off(r) : r \in orgStored.rows} \in SUBSET DomainRow
      BY <3>2
    <3>4. orgStored' \in OrgRows /\ orgStored'.rows = {Off(r) : r \in orgStored.rows}
      BY <2>2, <3>1, <3>3
    <3>5. \A r, s \in {Off(t) : t \in orgStored.rows} : ~r.primary /\ (r.name = s.name => r = s)
      BY <2>1, <3>2
    <3> QED
      BY <3>3, <3>4, <3>5 DEF OneRowEach
  <2> SUFFICES ASSUME ~Cleared
               PROVE  /\ orgStored'.rows \subseteq DomainRow /\ OneRowEach' /\ orgStored' \in OrgRows
                      /\ \A r, s \in orgStored'.rows :
                            r.primary /\ s.primary => settingPast.changes \/ r = s
    BY <2>3
  <2>7. CASE orgStored' = orgStored
    BY <1>1, <2>1, <2>7 DEF OneRowEach
  <2>4. CASE q.at = "insert"
    <3>1. PICK superAdmin \in BOOLEAN :
             Stores(orgStored.rows \cup {[name |-> q.domain, active |-> superAdmin, primary |-> FALSE]})
      BY <2>4 DEF DomainStep
    <3>2. q.domain \in Domains /\ \A r \in orgStored.rows : r.name # q.domain
      BY <2>4 DEF DomainStep, Names, SettingInv, ChangesWait
    <3> DEFINE new == [name |-> q.domain, active |-> superAdmin, primary |-> FALSE]
    <3>3. new \in DomainRow /\ new.name = q.domain /\ ~new.primary
      BY <3>2 DEF DomainRow
    <3>4. orgStored' = [orgStored EXCEPT !.rows = orgStored.rows \cup {new}]
      BY <3>1 DEF Stores
    <3> HIDE DEF new
    <3>5. orgStored.rows \cup {new} \in SUBSET DomainRow
      BY <2>1, <3>3
    <3>6. orgStored' \in OrgRows /\ orgStored'.rows = orgStored.rows \cup {new}
      BY <2>2, <3>4, <3>5
    <3> QED
      BY <2>1, <2>4, <3>2, <3>3, <3>5, <3>6 DEF OneRowEach
  <2>5. CASE q.at = "delete"
    <3>1. orgStored' = [orgStored EXCEPT !.rows = {r \in orgStored.rows : r.name # q.domain}]
      BY <2>5 DEF DomainStep, Stores
    <3>2. {r \in orgStored.rows : r.name # q.domain} \in SUBSET DomainRow
      BY <2>1
    <3>3. orgStored' \in OrgRows /\ orgStored'.rows = {r \in orgStored.rows : r.name # q.domain}
      BY <2>2, <3>1, <3>2
    <3> QED
      BY <2>1, <2>5, <3>2, <3>3 DEF OneRowEach
  <2>6. CASE q.at = "activate"
    <3> DEFINE On(r) == [r EXCEPT !.active = @ \/ r.name = q.domain]
    <3>1. orgStored' = [orgStored EXCEPT !.rows = {On(r) : r \in orgStored.rows}]
      BY <2>6 DEF DomainStep, Stores
    <3>2. \A r \in orgStored.rows :
             On(r) \in DomainRow /\ On(r).name = r.name /\ On(r).primary = r.primary
      BY <2>1 DEF DomainRow
    <3> HIDE DEF On
    <3>3. {On(r) : r \in orgStored.rows} \in SUBSET DomainRow
      BY <3>2
    <3>4. orgStored' \in OrgRows /\ orgStored'.rows = {On(r) : r \in orgStored.rows}
      BY <2>2, <3>1, <3>3
    <3>5. \A r, s \in {On(t) : t \in orgStored.rows} :
             /\ r.name = s.name => r = s
             /\ r.primary /\ s.primary => settingPast.changes \/ r = s
      BY <2>1, <3>2
    <3> QED
      BY <2>6, <3>3, <3>4, <3>5 DEF OneRowEach
  <2>8. CASE q.at = "set" /\ Stores(Only(q.domain))
    <3> DEFINE First(r) == [r EXCEPT !.primary = (r.name = q.domain) \/ @]
    <3>1. orgStored' = [orgStored EXCEPT !.rows = {First(r) : r \in orgStored.rows}]
      BY <2>8 DEF Stores, Only
    <3>2. \A r \in orgStored.rows :
             /\ First(r) \in DomainRow /\ First(r).name = r.name
             /\ First(r).primary = (r.name = q.domain \/ r.primary)
      BY <2>1 DEF DomainRow
    <3> HIDE DEF First
    <3>3. {First(r) : r \in orgStored.rows} \in SUBSET DomainRow
      BY <3>2
    <3>4. orgStored' \in OrgRows /\ orgStored'.rows = {First(r) : r \in orgStored.rows}
      BY <2>2, <3>1, <3>3
    <3>5. ASSUME NEW t \in orgStored.rows, NEW u \in orgStored.rows
          PROVE  /\ First(t).name = First(u).name => First(t) = First(u)
                 /\ First(t).primary /\ First(u).primary
                       => settingPast.changes \/ First(t) = First(u)
      <4>1. First(t).name = First(u).name => t = u
        BY <2>1, <3>2
      <4>2. CASE settingPast.changes
        BY <4>1, <4>2
      <4>3. CASE ~settingPast.changes
        <5>1. ~t.primary /\ ~u.primary
          BY <2>1, <2>8, <4>3
        <5>2. First(t).primary => t.name = q.domain
          BY <3>2, <5>1
        <5>3. First(u).primary => u.name = q.domain
          BY <3>2, <5>1
        <5> QED
          BY <3>2, <4>1, <5>2, <5>3
      <4> QED
        BY <4>2, <4>3
    <3> QED
      BY <3>3, <3>4, <3>5 DEF OneRowEach
  <2>9. \/ orgStored' = orgStored \/ q.at \in {"insert", "delete", "activate"}
        \/ q.at = "set" /\ Stores(Only(q.domain))
    BY <1>2 DEF DomainStep, DomainSteps, Stores, Cleared
  <2> QED
    BY <2>4, <2>5, <2>6, <2>7, <2>8, <2>9
<1>7. OneChangeOn
  BY <1>1, <1>5, <1>6, TypesOfSettings DEF OneChangeOn, SettingInv
<1>8. q.answered => settingPast.changes \/ settingPast'.unlisted
  BY <1>1, <1>2 DEF SettingInv, OneChange
<1>9. CASE q.answered /\ settingOut' = settingOut \ {q}
  BY <1>2, <1>7, <1>8, <1>9, ChangeEndsKeeps
<1>10. CASE ~(q.answered /\ settingOut' = settingOut \ {q})
  <2>1. PICK to \in SettingRequests :
           /\ settingOut' = (settingOut \ {q}) \cup {to}
           /\ to.at \notin SaveSteps \cup Untouched /\ to.answered = q.answered
           /\ (to.at = "list" => ~to.answered) /\ (to.at = "set" => Cleared)
    BY <1>3, <1>10
  <2>2. to.at # "insert"
    BY <2>1 DEF Untouched
  <2> QED
    BY <1>2, <1>6, <1>7, <1>8, <2>1, <2>2, ChangeGoesOnKeeps
<1> QED
  BY <1>9, <1>10

LEMMA DomainAnswersKeep ==
    ASSUME SettingInv, NEW q \in settingOut,
           \/ DomainRefused(q) \/ DomainLost(q)
           \/ DomainsRead(q) \/ DomainsAnswered(q) \/ DomainsLost(q)
    PROVE  SettingInv'
<1>1. /\ settings \in SettingStates /\ orgStored \in OrgRows /\ q \in SettingRequests
      /\ settingPast \in SettingPasts
  BY TypesOfSettings DEF SettingInv
<1>2. /\ orgStored' = orgStored => OneRowEach'
      /\ \A r, s \in orgStored.rows : r.primary /\ s.primary => settingPast.changes \/ r = s
  BY DEF SettingInv, OneRowEach, OneChange
<1>3. CASE DomainRefused(q)
  <2>1. /\ q.at \in Untouched /\ q.at \notin SaveSteps /\ settingOut' = settingOut \ {q}
        /\ UNCHANGED <<settings, orgStored, settingSent, settingsSubmitted, settingPast>>
    BY <1>3 DEF DomainRefused, SettingEnds, Untouched, SaveSteps
  <2>2. settingPast.changes \/ settingPast.unlisted \/ settings.domains = orgStored.rows
    <3> SUFFICES ASSUME ~settingPast.changes
                 PROVE  settingPast.unlisted \/ settings.domains = orgStored.rows
      OBVIOUS
    <3>1. \A p \in settingOut : p.at \in SaveSteps \cup Untouched
      BY <2>1 DEF SettingInv, OneChange
    <3> QED
      BY <3>1 DEF SettingInv, OneChange
  <2>3. OneChangeOn
    BY <1>1, <1>2, <2>1 DEF OneChangeOn
  <2> QED
    BY <2>1, <2>2, <2>3, ChangeEndsKeeps
<1>4. CASE DomainsRead(q)
  <2>1. PICK to \in SettingRequests :
           /\ settingOut' = (settingOut \ {q}) \cup {to}
           /\ to.at = "list" /\ to.got = orgStored.rows
    <3> DEFINE r == [q EXCEPT !.answered = TRUE, !.got = orgStored.rows]
    <3>1. settingOut' = (settingOut \ {q}) \cup {r}
      BY <1>4 DEF DomainsRead, SettingMoves
    <3>2. r \in SettingRequests /\ r.at = "list" /\ r.got = orgStored.rows
      BY <1>1, <1>4 DEF DomainsRead, SettingRequests, OrgRows
    <3> HIDE DEF r
    <3> QED
      BY <3>1, <3>2
  <2>2. q.at = "list" /\ UNCHANGED <<settings, orgStored, settingSent, settingsSubmitted, settingPast>>
    BY <1>4 DEF DomainsRead
  <2>3. "list" \notin SaveSteps \cup Untouched /\ "list" \notin DomainSteps
    BY DEF SaveSteps, Untouched, DomainSteps
  <2>4. OneChangeOn
    BY <1>1, <1>2, <2>2 DEF OneChangeOn
  <2> QED
    BY <2>1, <2>2, <2>3, <2>4, ChangeGoesOnKeeps
<1>5. CASE DomainsAnswered(q)
  <2>1. /\ q.at = "list" /\ q.answered /\ settingOut' = settingOut \ {q}
        /\ UNCHANGED <<orgStored, settingSent, settingsSubmitted>>
        /\ settings' \in SettingStates /\ settings'.domains = q.got
        /\ settings'.saved = settings.saved /\ settings'.infos = settings.infos
        /\ settingPast' \in SettingPasts /\ settingPast'.saves = settingPast.saves
        /\ settingPast'.changes = settingPast.changes
    BY <1>1, <1>5 DEF DomainsAnswered, SettingEnds, SettingStates, SettingRequests, SettingPasts
  <2>2. q.at \notin SaveSteps
    BY <2>1 DEF SaveSteps
  <2>3. settingPast.changes \/ settings'.domains = orgStored'.rows
    BY <2>1 DEF SettingInv, OneChange
  <2>4. OneChangeOn
    BY <1>1, <1>2, <2>1 DEF OneChangeOn
  <2> QED
    BY <2>1, <2>2, <2>3, <2>4, ChangeEndsKeeps
<1>6. CASE DomainLost(q) \/ DomainsLost(q)
  <2>1. /\ UNCHANGED <<settings, orgStored, settingSent, settingsSubmitted>>
        /\ settingPast' \in SettingPasts /\ settingPast'.saves = settingPast.saves
        /\ settingPast'.changes = settingPast.changes /\ settingPast'.unlisted
    BY <1>1, <1>6 DEF DomainLost, DomainsLost, NothingListed, SettingPasts
  <2>2. q.at \notin SaveSteps
    BY <1>6 DEF DomainLost, DomainsLost, SaveSteps, DomainSteps
  <2>3. OneChangeOn
    BY <1>1, <1>2, <2>1 DEF OneChangeOn
  <2>4. CASE settingOut' = settingOut \ {q}
    BY <2>1, <2>2, <2>3, <2>4, ChangeEndsKeeps
  <2>5. CASE DomainLost(q) /\ SettingMoves(q, [q EXCEPT !.answered = TRUE])
    <3> DEFINE to == [q EXCEPT !.answered = TRUE]
    <3>1. settingOut' = (settingOut \ {q}) \cup {to}
      BY <2>5 DEF SettingMoves
    <3>2. to \in SettingRequests /\ to.at = q.at /\ to.domain = q.domain
      BY <1>1 DEF SettingRequests
    <3> HIDE DEF to
    <3>3. q.at # "list" /\ (q.at = "insert" => q.domain \in Domains)
      BY <2>5 DEF DomainLost, DomainSteps, SettingInv, ChangesWait
    <3>4. q.at = "set" => settingPast.changes \/ \A r \in orgStored.rows : ~r.primary
      BY DEF SettingInv, OneChange
    <3> QED
      BY <2>1, <2>2, <2>3, <3>1, <3>2, <3>3, <3>4, ChangeGoesOnKeeps
  <2> QED
    BY <1>6, <2>4, <2>5 DEF DomainLost, DomainsLost, SettingEnds
<1> QED
  BY <1>3, <1>4, <1>5, <1>6

LEMMA SettingsBegin ==
    ASSUME SettingsInit
    PROVE  SettingInv
<1>1. PICK rows \in SUBSET [name : Domains, active : {TRUE}, primary : BOOLEAN] :
         /\ \A r, s \in rows : r.name = s.name => r = s
         /\ \A r, s \in rows : r.primary /\ s.primary => r = s
         /\ orgStored = [office |-> 0, settings |-> 0, rows |-> rows]
         /\ settings = [form |-> 0, hoursValid |-> TRUE, submitting |-> FALSE, saved |-> FALSE,
                        error |-> FALSE, domains |-> rows, infos |-> 0]
         /\ settingOut = {} /\ settingSent = 0 /\ settingsSubmitted = 0
         /\ settingPast = [saves |-> FALSE, stuck |-> FALSE, changes |-> FALSE, unlisted |-> FALSE]
  BY DEF SettingsInit
<1>2. MaxSettingEdits \in Nat /\ MaxSettingRequests \in Nat
  BY SettingsAssumption
<1>3. rows \subseteq DomainRow
  BY DEF DomainRow
<1>4. SettingsTypeOK
  BY <1>1, <1>2, <1>3 DEF SettingsTypeOK
<1> QED
  BY <1>1, <1>4 DEF SettingInv, OneSave, OneRowEach, OneChange, ChangesWait

LEMMA SettingsGoOn ==
    ASSUME SettingInv, [SettingsNext]_settingVars
    PROVE  SettingInv'
<1>1. CASE editOfficeHours \/ editSettings \/ UNCHANGED settingVars
  BY <1>1, SettingEditsKeep
<1>2. CASE onSubmitSettings
  BY <1>2, SettingSubmitKeeps
<1>3. CASE \E d \in Domains :
             addDomain(d) \/ verifyDomain(d) \/ setPrimaryDomain(d) \/ removeDomain(d)
  <2>1. PICK d \in Domains, at \in Untouched : ChangeDomain(at, d)
    BY <1>3 DEF addDomain, verifyDomain, setPrimaryDomain, removeDomain, Untouched
  <2> QED
    BY <2>1, ChangeBeginsKeeps
<1>4. CASE SettingSteps
  BY <1>4, SaveStepsKeep, DomainStepsKeep, DomainAnswersKeep DEF SettingSteps, SettingStep
<1> QED
  BY <1>1, <1>2, <1>3, <1>4 DEF SettingsNext

LEMMA SettingInvHolds == SettingsSpec => []SettingInv
<1>1. SettingsInit => SettingInv
  BY SettingsBegin
<1>2. SettingInv /\ [SettingsNext]_settingVars => SettingInv'
  BY SettingsGoOn
<1> QED
  BY <1>1, <1>2, PTL DEF SettingsSpec

LEMMA SettingsPromise ==
    ASSUME SettingInv
    PROVE  SettingsKept
<1>1. SavedIsStored
  BY DEF SettingInv, OneSave, SavedIsStored
<1>2. DomainsInOrder
  <2> SUFFICES ASSUME Changing = {}, ~settingPast.changes
               PROVE  /\ Cardinality({r \in orgStored.rows : r.primary}) <= 1
                      /\ ~settingPast.unlisted => settings.domains = orgStored.rows
    BY DEF DomainsInOrder
  <2>1. \A q \in settingOut : q.at \in SaveSteps
    BY TypesOfSettings DEF SettingInv, Changing, SettingRequests
  <2>2. ~settingPast.unlisted => settings.domains = orgStored.rows
    BY <2>1 DEF SettingInv, OneChange
  <2> DEFINE first == {r \in orgStored.rows : r.primary}
  <2>3. first = {} \/ \E r : first = {r}
    BY DEF SettingInv, OneChange
  <2>4. Cardinality(first) = 0 \/ Cardinality(first) = 1
    BY <2>3, FS_EmptySet, FS_Singleton
  <2> QED
    BY <2>2, <2>4
<1> QED
  BY <1>1, <1>2 DEF SettingsKept

\* Whatever administrators save and change of the organization, in whatever order the answers
\* come, and whatever fails or is lost: saves that did not overlap are stored where the page
\* says "saved", and changes of domains that did not overlap leave one primary domain at most,
\* and the list true unless no list has come since one that the page could not follow.
THEOREM SettingsAreKept == SettingsSpec => []SettingsKept
<1>1. SettingInv => SettingsKept
  BY SettingsPromise
<1> QED
  BY <1>1, SettingInvHolds, PTL
-----------------------------------------------------------------------------
(* The booking editor                                                      *)
SpaceLists == [location : Areas, enter : Int, leave : Int]
BookingStates == [enter : Hours, leave : Leaves, user : BookingUsers \cup {NoUser},
                  location : Areas \cup {NoArea}, space : Areas \cup {NoArea},
                  spaces : SpaceLists \cup {NoListing},
                  isDisabledSpace : BOOLEAN, canEdit : BOOLEAN, canSearch : BOOLEAN,
                  saved : BOOLEAN, goBack : BOOLEAN]
SentForms == [space : Areas \cup {NoArea}, enter : Hours, leave : Leaves,
              user : BookingUsers \cup {NoUser}]
BookingSaves == [no : 1 .. MaxBookingSaves, kind : {"save", "delete"},
                 at : {"sent", "done", "refused"}, id : 0 .. MaxBookingSaves + 1,
                 form : SentForms]
BookingTypes ==
    /\ bookingEditor \in BookingStates /\ isNewBooking \in BOOLEAN
    /\ entityId \in 0 .. MaxBookingSaves + 1
    /\ changeTimer \in (Hours \cup {0}) \X (Leaves \cup {0})
    /\ spaceLists \subseteq SpaceLists /\ bookingSaves \subseteq BookingSaves
    /\ \A q \in bookingSaves : q.kind = "save" => q.form \in BookingForms
    /\ \A i \in DOMAIN bookingRows : bookingRows[i] \in BookingForms
    /\ bookingSent \in 0 .. MaxBookingSaves
    /\ bookingSeen \subseteq {"shifted", "lists", "form", "saves"}

\* The one list that is on its way, or is shown, is that of the form, once it is not the
\* first one of a stored booking.
OneList ==
    bookingSeen \cap {"lists", "shifted"} = {} =>
        /\ \A l, m \in spaceLists : l = m
        /\ \A l \in spaceLists :
              l = Listing(bookingEditor.location, bookingEditor.enter, bookingEditor.leave)
        /\ bookingEditor.location = NoArea => spaceLists = {}
        /\ bookingEditor.location # NoArea /\ spaceLists = {} => bookingEditor.spaces =
              Listing(bookingEditor.location, bookingEditor.enter, bookingEditor.leave)

\* The one row is that of the id, which the form has or is about to get.
OneRow ==
    "saves" \notin bookingSeen =>
        /\ \A q, r \in bookingSaves : q = r
        /\ \A q \in bookingSaves :
              /\ q.at = "sent" => q.id = entityId
              /\ q.kind = "save" /\ q.at = "done" =>
                    q.id # 0 /\ \A i \in DOMAIN bookingRows : i = q.id
        /\ (\A q \in bookingSaves : q.kind = "save" => q.at # "done")
              => \A i \in DOMAIN bookingRows : i = entityId /\ i # 0

\* What the timer holds, and the form otherwise, is what was picked last.
PickedDates == <<IF changeTimer[1] > 0 THEN changeTimer[1] ELSE bookingEditor.enter,
                 IF changeTimer[2] > 0 THEN changeTimer[2] ELSE bookingEditor.leave>>
PicksWait ==
    /\ changeTimer = NoPick \/ changeTimer[2] > 0
    /\ "form" \notin bookingSeen => /\ picked = PickedDates
                                    /\ bookingEditor.space \in {NoArea, bookingEditor.location}

BookingInv == BookingTypes /\ OneList /\ OneRow /\ PicksWait

LEMMA HoursAreLater ==
    /\ \A h \in Hours : h \in Nat /\ h > 0 /\ h + 1 \in Leaves
    /\ \A l \in Leaves : l \in Nat /\ l > 0
    /\ 1 \in Hours /\ 2 \in Leaves
<1>1. LastHour \in Nat /\ LastHour > 0
  BY BookingEditorAssumption
<1> QED
  BY <1>1 DEF Hours, Leaves

LEMMA BookingNumbers ==
    /\ MaxBookingSaves \in Nat
    /\ \A n \in 0 .. MaxBookingSaves : n < MaxBookingSaves =>
          n + 1 \in 1 .. MaxBookingSaves /\ n + 1 \in 0 .. MaxBookingSaves
    /\ \A n \in 1 .. MaxBookingSaves : n + 1 \in 0 .. MaxBookingSaves + 1 /\ n + 1 # 0
    /\ 0 \in 0 .. MaxBookingSaves + 1 /\ 1 \in 0 .. MaxBookingSaves + 1 /\ 0 \in 0 .. MaxBookingSaves
<1>1. MaxBookingSaves \in Nat
  BY BookingEditorAssumption
<1> QED
  BY <1>1

LEMMA BookingPromise ==
    ASSUME BookingInv
    PROVE  BookingTypeOK /\ BookingIsThePicked
<1>1. BookingTypeOK
  BY DEF BookingInv, BookingTypes, BookingTypeOK, BookingSeenTypeOK, BookingStates, SpaceLists,
         BookingSaves
<1>2. ListIsOfTheForm
  BY DEF BookingInv, OneList, ListIsOfTheForm
<1>3. OneBookingPerForm
  <2> SUFFICES ASSUME "saves" \notin bookingSeen
               PROVE  Cardinality(DOMAIN bookingRows) <= 1
    BY DEF OneBookingPerForm
  <2>1. \A i, j \in DOMAIN bookingRows : i = j
    BY DEF BookingInv, OneRow
  <2>2. DOMAIN bookingRows = {} \/ \E i : DOMAIN bookingRows = {i}
    BY <2>1
  <2>3. Cardinality(DOMAIN bookingRows) = 0 \/ Cardinality(DOMAIN bookingRows) = 1
    BY <2>2, FS_EmptySet, FS_Singleton
  <2> QED
    BY <2>3
<1>4. SavedIsPicked
  <2> SUFFICES ASSUME changeTimer = NoPick, "form" \notin bookingSeen, entityId \in DOMAIN bookingRows,
                      bookingRows[entityId] = BookingOf(bookingEditor)
               PROVE  /\ <<bookingRows[entityId].enter, bookingRows[entityId].leave>> = picked
                      /\ bookingRows[entityId].space = bookingEditor.location
    BY DEF SavedIsPicked
  <2>1. /\ bookingRows[entityId].enter = bookingEditor.enter
        /\ bookingRows[entityId].leave = bookingEditor.leave
        /\ bookingRows[entityId].space = bookingEditor.space
    BY DEF BookingOf
  <2>2. picked = <<bookingEditor.enter, bookingEditor.leave>>
    BY DEF BookingInv, PicksWait, PickedDates, NoPick
  <2>3. bookingEditor.space \in Areas /\ bookingEditor.space \in {NoArea, bookingEditor.location}
    BY <2>1 DEF BookingInv, BookingTypes, BookingForms, PicksWait
  <2> QED
    BY <2>1, <2>2, <2>3, BookingEditorAssumption
<1> QED
  BY <1>1, <1>2, <1>3, <1>4 DEF BookingIsThePicked

-----------------------------------------------------------------------------
\* What an action leaves alone.
LEMMA ListsStay ==
    ASSUME OneList, spaceLists' = spaceLists,
           \A x \in {"location", "enter", "leave", "spaces"} : bookingEditor'[x] = bookingEditor[x],
           \A x \in {"lists", "shifted"} : x \in bookingSeen => x \in bookingSeen'
    PROVE  OneList'
BY DEF OneList

LEMMA RowsStay ==
    ASSUME OneRow, UNCHANGED <<bookingSaves, bookingRows, entityId>>,
           "saves" \in bookingSeen => "saves" \in bookingSeen'
    PROVE  OneRow'
BY DEF OneRow

LEMMA PicksStay ==
    ASSUME PicksWait, UNCHANGED <<changeTimer, picked>>,
           \A x \in {"location", "enter", "leave", "space"} : bookingEditor'[x] = bookingEditor[x],
           "form" \in bookingSeen => "form" \in bookingSeen'
    PROVE  PicksWait'
BY DEF PicksWait, PickedDates

\* The spaces are asked for, for a form that has changed.
LEMMA ListsAsked ==
    ASSUME bookingEditor'.location # NoArea,
           loadSpaces(bookingEditor'.location, bookingEditor'.enter, bookingEditor'.leave)
    PROVE  OneList'
<1> SUFFICES ASSUME "lists" \notin bookingSeen'
             PROVE  OneList'
  BY DEF OneList
<1> DEFINE l == Listing(bookingEditor'.location, bookingEditor'.enter, bookingEditor'.leave)
<1>1. spaceLists = {} /\ spaceLists' = {l}
  BY DEF loadSpaces
<1> QED
  BY <1>1 DEF OneList

LEMMA BookingBegins ==
    ASSUME BookingEditorInit
    PROVE  BookingInv
<1>1. /\ picked = <<bookingEditor.enter, bookingEditor.leave>>
      /\ changeTimer = <<0, 0>> /\ bookingSaves = {} /\ bookingSent = 0
  BY DEF BookingEditorInit, NoPick
<1>2. CASE /\ bookingEditor = NewForm /\ isNewBooking = TRUE /\ entityId = 0
           /\ bookingRows = <<>> /\ spaceLists = {} /\ bookingSeen = {}
  <2>1. /\ bookingEditor \in BookingStates /\ bookingEditor.location = NoArea
        /\ bookingEditor.space = NoArea
    BY <1>2, HoursAreLater DEF NewForm, BookingForm, PreferredDates, BookingStates
  <2>2. DOMAIN bookingRows = {}
    BY <1>2
  <2>3. BookingTypes
    BY <1>1, <1>2, <2>1, <2>2, BookingNumbers DEF BookingTypes
  <2>4. OneList
    BY <1>2, <2>1 DEF OneList
  <2>5. OneRow
    BY <1>1, <2>2 DEF OneRow
  <2>6. PicksWait
    <3>1. PickedDates = <<bookingEditor.enter, bookingEditor.leave>>
      BY <1>1 DEF PickedDates
    <3> QED
      BY <1>1, <2>1, <3>1 DEF PicksWait, NoPick
  <2> QED
    BY <2>3, <2>4, <2>5, <2>6 DEF BookingInv
<1>3. ASSUME NEW u \in BookingUsers, NEW a \in Areas, NEW canEdit \in BOOLEAN,
             NEW offset \in UtcOffsets, bookingEditor = StoredForm(u, a, canEdit),
             isNewBooking = FALSE, entityId = 1,
             bookingRows = [id \in {entityId} |-> BookingOf(bookingEditor)],
             spaceLists = {Listing(bookingEditor.location, bookingEditor.enter + offset,
                                   bookingEditor.leave + offset)},
             bookingSeen = IF offset = 0 THEN {} ELSE {"shifted"}
      PROVE  BookingInv
  <2>1. offset \in Int
    BY BookingEditorAssumption
  <2>2. /\ bookingEditor \in BookingStates /\ bookingEditor.location = a
        /\ bookingEditor.space = a /\ bookingEditor.user = u
        /\ bookingEditor.enter = 1 /\ bookingEditor.leave = 2
    <3>1. bookingEditor =
             [enter |-> 1, leave |-> 2, user |-> u, location |-> a, space |-> a,
              spaces |-> NoListing, isDisabledSpace |-> FALSE, canEdit |-> canEdit,
              canSearch |-> FALSE, saved |-> FALSE, goBack |-> FALSE]
      BY <1>3 DEF StoredForm, BookingForm
    <3> QED
      BY <3>1, HoursAreLater DEF BookingStates
  <2>3. BookingOf(bookingEditor) \in BookingForms
    BY <2>2 DEF BookingOf, BookingForms, BookingStates
  <2>4. spaceLists \subseteq SpaceLists
    BY <1>3, <2>1, <2>2 DEF Listing, SpaceLists
  <2>5. BookingTypes
    BY <1>1, <1>3, <2>2, <2>3, <2>4, BookingNumbers DEF BookingTypes
  <2>6. OneList
    <3> SUFFICES ASSUME offset = 0
                 PROVE  OneList
      BY <1>3 DEF OneList
    <3>1. spaceLists = {Listing(a, 1, 2)} /\ a # NoArea
      BY <1>3, <2>2, BookingEditorAssumption
    <3> QED
      BY <2>2, <3>1 DEF OneList
  <2>7. OneRow
    BY <1>1, <1>3 DEF OneRow
  <2>8. PicksWait
    <3>1. PickedDates = <<bookingEditor.enter, bookingEditor.leave>>
      BY <1>1 DEF PickedDates
    <3> QED
      BY <1>1, <2>2, <3>1 DEF PicksWait, NoPick
  <2> QED
    BY <2>5, <2>6, <2>7, <2>8 DEF BookingInv
<1> QED
  BY <1>2, <1>3, Zenon DEF BookingEditorInit

-----------------------------------------------------------------------------
\* The form is edited, and its changes take effect.
LEMMA PicksKeep ==
    ASSUME BookingInv, NEW h \in Hours,
           \/ Picks(h, h + 1) /\ picked' = <<h, h + 1>>
           \/ Picks(0, h + 1) /\ picked' = [picked EXCEPT ![2] = h + 1]
    PROVE  BookingInv'
<1>1. PICK first \in {0, h} :
         /\ changeTimer' = <<first, h + 1>>
         /\ bookingSeen' = bookingSeen \cup (IF changeTimer[1] > 0 /\ first = 0 THEN {"form"} ELSE {})
         /\ picked' = IF first = 0 THEN [picked EXCEPT ![2] = h + 1] ELSE <<h, h + 1>>
         /\ UNCHANGED <<bookingEditor, isNewBooking, entityId, spaceLists, bookingSaves, bookingRows,
                        bookingSent>>
  <2>1. h # 0
    BY HoursAreLater
  <2>2. CASE Picks(h, h + 1) /\ picked' = <<h, h + 1>>
    BY <2>1, <2>2 DEF Picks, Sees, bookingEntity, bookingRequests
  <2>3. CASE Picks(0, h + 1) /\ picked' = [picked EXCEPT ![2] = h + 1]
    BY <2>3 DEF Picks, Sees, bookingEntity, bookingRequests
  <2> QED
    BY <2>2, <2>3
<1>2. changeTimer' \in (Hours \cup {0}) \X (Leaves \cup {0}) /\ h > 0 /\ h + 1 > 0
  BY <1>1, HoursAreLater
<1>3. BookingTypes'
  BY <1>1, <1>2 DEF BookingInv, BookingTypes
<1>4. OneList'
  BY <1>1, ListsStay DEF BookingInv
<1>5. OneRow'
  BY <1>1, RowsStay DEF BookingInv
<1>6. PicksWait'
  <2>1. changeTimer'[2] > 0
    BY <1>1, <1>2
  <2> SUFFICES ASSUME "form" \notin bookingSeen'
               PROVE  picked' = PickedDates' /\ bookingEditor.space \in {NoArea, bookingEditor.location}
    BY <1>1, <2>1 DEF PicksWait
  <2>2. "form" \notin bookingSeen /\ (first = 0 => ~(changeTimer[1] > 0))
    BY <1>1
  <2>3. picked = PickedDates /\ bookingEditor.space \in {NoArea, bookingEditor.location}
    BY <2>2 DEF BookingInv, PicksWait
  <2>4. PickedDates' = <<IF first > 0 THEN first ELSE bookingEditor.enter, h + 1>>
    BY <1>1, <1>2, <2>1 DEF PickedDates
  <2>5. CASE first = 0
    <3>1. picked = <<bookingEditor.enter, IF changeTimer[2] > 0 THEN changeTimer[2] ELSE bookingEditor.leave>>
      BY <2>2, <2>3, <2>5 DEF PickedDates
    <3>2. picked' = <<bookingEditor.enter, h + 1>>
      BY <1>1, <2>5, <3>1
    <3> QED
      BY <2>3, <2>4, <2>5, <3>2
  <2>6. CASE first = h
    <3>1. first # 0 /\ first > 0
      BY <1>2, <2>6, HoursAreLater
    <3> QED
      BY <1>1, <2>3, <2>4, <2>6, <3>1
  <2> QED
    BY <1>1, <2>5, <2>6
<1> QED
  BY <1>3, <1>4, <1>5, <1>6 DEF BookingInv

LEMMA ChangeKeeps ==
    ASSUME BookingInv, performChange
    PROVE  BookingInv'
<1> DEFINE enter == IF changeTimer[1] > 0 THEN changeTimer[1] ELSE bookingEditor.enter
<1>1. /\ bookingEditor \in BookingStates /\ changeTimer \in (Hours \cup {0}) \X (Leaves \cup {0})
      /\ changeTimer[2] > 0
  BY DEF BookingInv, BookingTypes, PicksWait, performChange
<1>2. enter \in Hours /\ changeTimer[2] \in Leaves
  BY <1>1, HoursAreLater DEF BookingStates
<1>3. /\ bookingEditor' = [bookingEditor EXCEPT !.enter = enter, !.leave = changeTimer[2],
                               !.isDisabledSpace = TRUE,
                               !.canSearch = updateCanSearch(enter, changeTimer[2])]
      /\ IF bookingEditor.location # NoArea
         THEN loadSpaces(bookingEditor.location, enter, changeTimer[2])
         ELSE UNCHANGED <<spaceLists, bookingSeen>>
      /\ changeTimer' = <<0, 0>>
      /\ UNCHANGED <<isNewBooking, entityId, bookingSaves, bookingRows, bookingSent, picked>>
  BY DEF performChange, NoPick, bookingEntity, bookingRequests
<1>4. updateCanSearch(enter, changeTimer[2]) \in BOOLEAN
  BY DEF updateCanSearch
<1> HIDE DEF enter
<1>5. /\ bookingEditor' \in BookingStates /\ bookingEditor'.enter = enter
      /\ bookingEditor'.leave = changeTimer[2]
      /\ \A x \in {"location", "space", "spaces"} : bookingEditor'[x] = bookingEditor[x]
  BY <1>1, <1>2, <1>3, <1>4 DEF BookingStates
<1>6. /\ bookingSeen \ {"shifted"} \subseteq bookingSeen'
      /\ bookingSeen' \subseteq bookingSeen \cup {"lists"}
      /\ spaceLists' \subseteq SpaceLists
  <2>1. spaceLists \subseteq SpaceLists
    BY DEF BookingInv, BookingTypes
  <2>2. CASE bookingEditor.location # NoArea
    <3>1. Listing(bookingEditor.location, enter, changeTimer[2]) \in SpaceLists
      BY <1>1, <1>2, <2>2, HoursAreLater DEF Listing, SpaceLists, BookingStates
    <3> QED
      BY <1>3, <2>1, <2>2, <3>1 DEF loadSpaces
  <2> QED
    BY <1>3, <2>1, <2>2
<1>7. BookingTypes'
  <2>1. changeTimer' \in (Hours \cup {0}) \X (Leaves \cup {0})
    BY <1>3
  <2> QED
    BY <1>3, <1>5, <1>6, <2>1 DEF BookingInv, BookingTypes
<1>8. OneList'
  <2>1. CASE bookingEditor.location # NoArea
    BY <1>3, <1>5, <2>1, ListsAsked DEF BookingInv
  <2>2. CASE bookingEditor.location = NoArea
    BY <1>3, <1>5, <2>2 DEF BookingInv, OneList
  <2> QED
    BY <2>1, <2>2
<1>9. OneRow'
  BY <1>3, <1>6, RowsStay DEF BookingInv
<1>10. PicksWait'
  <2>1. PickedDates' = <<enter, changeTimer[2]>>
    BY <1>3, <1>5 DEF PickedDates
  <2>2. PickedDates = <<enter, changeTimer[2]>>
    BY <1>1 DEF PickedDates, enter
  <2> QED
    BY <1>3, <1>5, <1>6, <2>1, <2>2 DEF BookingInv, PicksWait, NoPick
<1> QED
  BY <1>7, <1>8, <1>9, <1>10 DEF BookingInv

LEMMA LocationKeeps ==
    ASSUME BookingInv, NEW a \in Areas, selectLocation(a)
    PROVE  BookingInv'
<1>1. bookingEditor \in BookingStates
  BY DEF BookingInv, BookingTypes
<1>2. /\ bookingEditor' = [bookingEditor EXCEPT !.location = a, !.space = NoArea,
                                                 !.isDisabledSpace = FALSE]
      /\ loadSpaces(a, bookingEditor.enter, bookingEditor.leave)
      /\ UNCHANGED <<isNewBooking, entityId, changeTimer, bookingSaves, bookingRows, bookingSent, picked>>
  BY DEF selectLocation, bookingEntity, bookingRequests
<1>3. /\ bookingEditor' \in BookingStates /\ bookingEditor'.location = a
      /\ bookingEditor'.space = NoArea
      /\ \A x \in {"enter", "leave"} : bookingEditor'[x] = bookingEditor[x]
  BY <1>1, <1>2 DEF BookingStates
<1>4. /\ bookingSeen \ {"shifted"} \subseteq bookingSeen'
      /\ bookingSeen' \subseteq bookingSeen \cup {"lists"}
      /\ spaceLists' \subseteq SpaceLists
  <2>1. spaceLists \subseteq SpaceLists
    BY DEF BookingInv, BookingTypes
  <2>2. Listing(a, bookingEditor.enter, bookingEditor.leave) \in SpaceLists
    BY <1>1, HoursAreLater DEF Listing, SpaceLists, BookingStates
  <2> QED
    BY <1>2, <2>1, <2>2 DEF loadSpaces
<1>5. BookingTypes'
  BY <1>2, <1>3, <1>4 DEF BookingInv, BookingTypes
<1>6. OneList'
  BY <1>2, <1>3, ListsAsked, BookingEditorAssumption DEF BookingInv
<1>7. OneRow'
  BY <1>2, <1>4, RowsStay DEF BookingInv
<1>8. PicksWait'
  <2>1. PickedDates' = PickedDates
    BY <1>2, <1>3 DEF PickedDates
  <2> QED
    BY <1>2, <1>3, <1>4, <2>1 DEF BookingInv, PicksWait
<1> QED
  BY <1>5, <1>6, <1>7, <1>8 DEF BookingInv

LEMMA BookingEditsKeep ==
    ASSUME BookingInv,
           selectSpace \/ (\E u \in BookingUsers \cup {NoUser} : onSearchSelected(u))
           \/ (\E l \in spaceLists : spacesAnswered(l)) \/ UNCHANGED bookingVars
    PROVE  BookingInv'
<1>1. bookingEditor \in BookingStates /\ spaceLists \subseteq SpaceLists
  BY DEF BookingInv, BookingTypes
<1>2. CASE selectSpace
  <2>1. /\ bookingEditor.spaces.location # NoArea
        /\ bookingEditor' = [bookingEditor EXCEPT !.space = bookingEditor.spaces.location]
        /\ bookingSeen' = bookingSeen \cup
              (IF bookingEditor.spaces.location # bookingEditor.location THEN {"form"} ELSE {})
        /\ UNCHANGED <<isNewBooking, entityId, changeTimer, spaceLists, bookingSaves, bookingRows,
                       bookingSent, picked>>
    BY <1>2 DEF selectSpace, Sees, bookingEntity, bookingRequests
  <2>2. bookingEditor.spaces.location \in Areas
    BY <1>1, <2>1 DEF BookingStates, SpaceLists, NoListing, Listing
  <2>3. /\ bookingEditor' \in BookingStates
        /\ bookingEditor'.space = bookingEditor.spaces.location
        /\ \A x \in {"location", "enter", "leave", "spaces"} : bookingEditor'[x] = bookingEditor[x]
    BY <1>1, <2>1, <2>2 DEF BookingStates
  <2>4. BookingTypes'
    BY <2>1, <2>3 DEF BookingInv, BookingTypes
  <2>5. PicksWait'
    <3>1. PickedDates' = PickedDates
      BY <2>1, <2>3 DEF PickedDates
    <3> QED
      BY <2>1, <2>3, <3>1 DEF BookingInv, PicksWait
  <2> QED
    BY <2>1, <2>3, <2>4, <2>5, ListsStay, RowsStay DEF BookingInv
<1>3. ASSUME NEW u \in BookingUsers \cup {NoUser}, onSearchSelected(u)
      PROVE  BookingInv'
  <2>1. /\ bookingEditor' = [bookingEditor EXCEPT !.user = u]
        /\ UNCHANGED <<isNewBooking, entityId, changeTimer, spaceLists, bookingSaves, bookingRows,
                       bookingSent, picked, bookingSeen>>
    BY <1>3 DEF onSearchSelected, bookingEntity, bookingRequests
  <2>2. /\ bookingEditor' \in BookingStates
        /\ \A x \in {"location", "enter", "leave", "spaces", "space"} :
              bookingEditor'[x] = bookingEditor[x]
    BY <1>1, <2>1 DEF BookingStates
  <2>3. BookingTypes'
    BY <2>1, <2>2 DEF BookingInv, BookingTypes
  <2> QED
    BY <2>1, <2>2, <2>3, ListsStay, RowsStay, PicksStay DEF BookingInv
<1>4. ASSUME NEW l \in spaceLists, spacesAnswered(l)
      PROVE  BookingInv'
  <2>1. /\ spaceLists' = spaceLists \ {l}
        /\ UNCHANGED <<isNewBooking, entityId, changeTimer, bookingSaves, bookingRows, bookingSent, picked>>
        /\ bookingSeen \subseteq bookingSeen' /\ bookingSeen' \subseteq bookingSeen \cup {"lists"}
        /\ \/ bookingEditor' = [bookingEditor EXCEPT !.spaces = l, !.isDisabledSpace = FALSE]
           \/ bookingEditor' = bookingEditor /\ "lists" \in bookingSeen'
    BY <1>4 DEF spacesAnswered, Sees, bookingEntity, bookingRequests
  <2>2. /\ bookingEditor' \in BookingStates
        /\ \A x \in {"location", "enter", "leave", "space"} : bookingEditor'[x] = bookingEditor[x]
        /\ bookingEditor'.spaces = l \/ "lists" \in bookingSeen'
    BY <1>1, <2>1 DEF BookingStates
  <2>3. BookingTypes'
    BY <2>1, <2>2 DEF BookingInv, BookingTypes
  <2>4. OneList'
    BY <2>1, <2>2 DEF BookingInv, OneList
  <2> QED
    BY <2>1, <2>2, <2>3, <2>4, RowsStay, PicksStay DEF BookingInv
<1>5. CASE UNCHANGED bookingVars
  <2>1. UNCHANGED <<bookingEditor, isNewBooking, entityId, changeTimer, spaceLists, bookingSaves,
                    bookingRows, bookingSent, picked, bookingSeen>>
    BY <1>5 DEF bookingVars
  <2>2. BookingTypes'
    BY <2>1 DEF BookingInv, BookingTypes
  <2> QED
    BY <2>1, <2>2, ListsStay, RowsStay, PicksStay DEF BookingInv
<1> QED
  BY <1>2, <1>3, <1>4, <1>5

-----------------------------------------------------------------------------
\* The booking is sent, served and answered.
LEMMA BookingSends ==
    ASSUME BookingInv, NEW kind \in {"save", "delete"}, NEW form \in SentForms,
           Sends(kind, entityId, form)
    PROVE  \E q \in BookingSaves :
              /\ bookingSaves' = bookingSaves \cup {q} /\ bookingSent' \in 0 .. MaxBookingSaves
              /\ q.kind = kind /\ q.at = "sent" /\ q.id = entityId /\ q.form = form
<1> DEFINE q == [no |-> bookingSent', kind |-> kind, at |-> "sent", id |-> entityId, form |-> form]
<1>1. /\ bookingSent < MaxBookingSaves /\ bookingSent' = bookingSent + 1
      /\ bookingSaves' = bookingSaves \cup {q}
  BY DEF Sends
<1>2. bookingSent' \in 1 .. MaxBookingSaves /\ bookingSent' \in 0 .. MaxBookingSaves
  BY <1>1, BookingNumbers DEF BookingInv, BookingTypes
<1>3. q \in BookingSaves
  BY <1>2 DEF BookingSaves, BookingInv, BookingTypes
<1>4. q.kind = kind /\ q.at = "sent" /\ q.id = entityId /\ q.form = form
  OBVIOUS
<1> HIDE DEF q
<1> QED
  BY <1>1, <1>2, <1>3, <1>4

LEMMA BookingSendKeeps ==
    ASSUME BookingInv, NEW q \in BookingSaves, bookingSaves' = bookingSaves \cup {q},
           bookingSent' \in 0 .. MaxBookingSaves, q.at = "sent", q.id = entityId,
           q.kind = "save" => q.form \in BookingForms,
           bookingSeen \subseteq bookingSeen', bookingSeen' \subseteq bookingSeen \cup {"saves", "form"},
           bookingSaves # {} => "saves" \in bookingSeen',
           bookingEditor' \in BookingStates,
           \A x \in {"location", "enter", "leave", "spaces", "space"} :
              bookingEditor'[x] = bookingEditor[x],
           UNCHANGED <<isNewBooking, entityId, changeTimer, spaceLists, bookingRows, picked>>
    PROVE  BookingInv'
<1>1. BookingTypes'
  BY DEF BookingInv, BookingTypes
<1>2. OneRow'
  <2> SUFFICES ASSUME "saves" \notin bookingSeen'
               PROVE  OneRow'
    BY DEF OneRow
  <2>1. bookingSaves = {} /\ bookingSaves' = {q} /\ "saves" \notin bookingSeen
    OBVIOUS
  <2>2. \A i \in DOMAIN bookingRows : i = entityId /\ i # 0
    BY <2>1 DEF BookingInv, OneRow
  <2>3. q.at # "done"
    OBVIOUS
  <2> QED
    BY <2>1, <2>2, <2>3 DEF OneRow
<1> QED
  BY <1>1, <1>2, ListsStay, PicksStay DEF BookingInv

LEMMA BookingSubmitKeeps ==
    ASSUME BookingInv, bookingSubmit \/ deleteBooking
    PROVE  BookingInv'
<1>1. bookingEditor \in BookingStates
  BY DEF BookingInv, BookingTypes
<1>2. CASE deleteBooking
  <2>1. /\ Sends("delete", entityId, BookingOf(bookingEditor))
        /\ bookingSeen' = bookingSeen \cup (IF bookingSaves # {} THEN {"saves"} ELSE {})
        /\ UNCHANGED <<bookingEditor, isNewBooking, entityId, changeTimer, spaceLists, bookingRows, picked>>
    BY <1>2 DEF deleteBooking, Sees, bookingEntity
  <2>2. BookingOf(bookingEditor) \in SentForms
    BY <1>1 DEF BookingOf, SentForms, BookingStates
  <2>3. PICK q \in BookingSaves :
           /\ bookingSaves' = bookingSaves \cup {q} /\ bookingSent' \in 0 .. MaxBookingSaves
           /\ q.kind = "delete" /\ q.at = "sent" /\ q.id = entityId
    BY <2>1, <2>2, BookingSends
  <2> QED
    BY <1>1, <2>1, <2>3, BookingSendKeeps
<1>3. CASE bookingSubmit
  <2>1. /\ bookingEditor.space # NoArea
        /\ bookingEditor' = [bookingEditor EXCEPT !.saved = FALSE]
        /\ UNCHANGED <<isNewBooking, entityId, changeTimer, spaceLists, bookingRows, picked>>
    BY <1>3 DEF bookingSubmit, bookingEntity
  <2>2. /\ bookingEditor' \in BookingStates
        /\ \A x \in {"location", "enter", "leave", "spaces", "space"} :
              bookingEditor'[x] = bookingEditor[x]
    BY <1>1, <2>1 DEF BookingStates
  <2>3. CASE UNCHANGED <<bookingSaves, bookingSent, bookingSeen>>
    <3>1. BookingTypes'
      BY <2>1, <2>2, <2>3 DEF BookingInv, BookingTypes
    <3> QED
      BY <2>1, <2>2, <2>3, <3>1, ListsStay, RowsStay, PicksStay DEF BookingInv
  <2>4. CASE /\ Sends("save", entityId,
                     BookingOf([bookingEditor EXCEPT !.user = IF @ = NoUser THEN Self ELSE @]))
             /\ bookingSeen' = bookingSeen \cup
                   ((IF bookingSaves # {} THEN {"saves"} ELSE {})
                    \cup (IF changeTimer # NoPick THEN {"form"} ELSE {}))
    <3> DEFINE form == BookingOf([bookingEditor EXCEPT !.user = IF @ = NoUser THEN Self ELSE @])
    <3>1. form \in BookingForms /\ form \in SentForms
      BY <1>1, <2>1, BookingEditorAssumption DEF BookingOf, BookingForms, SentForms, BookingStates
    <3>2. PICK f \in BookingForms : f = form
      BY <3>1
    <3>3. PICK q \in BookingSaves :
             /\ bookingSaves' = bookingSaves \cup {q} /\ bookingSent' \in 0 .. MaxBookingSaves
             /\ q.kind = "save" /\ q.at = "sent" /\ q.id = entityId /\ q.form = f
      BY <2>4, <3>1, <3>2, BookingSends
    <3> HIDE DEF form
    <3> QED
      BY <2>1, <2>2, <2>4, <3>3, BookingSendKeeps
  <2> QED
    BY <1>3, <2>3, <2>4 DEF bookingSubmit, Sees
<1> QED
  BY <1>2, <1>3

LEMMA BookingServedKeeps ==
    ASSUME BookingInv, NEW q \in bookingSaves, bookingServed(q)
    PROVE  BookingInv'
<1>1. /\ bookingSaves \subseteq BookingSaves /\ q \in BookingSaves /\ q.at = "sent"
      /\ UNCHANGED <<bookingEditor, isNewBooking, entityId, changeTimer, spaceLists, bookingSent,
                     picked, bookingSeen>>
  BY DEF bookingServed, bookingEntity, BookingInv, BookingTypes
<1>2. PICK to \in BookingSaves :
         /\ bookingSaves' = (bookingSaves \ {q}) \cup {to} /\ to.kind = q.kind /\ to.form = q.form
         /\ \/ to.at = "refused" /\ bookingRows' = bookingRows
            \/ /\ to.at = "done" /\ q.kind = "save" /\ to.id # 0
               /\ to.id = q.id \/ (q.id = 0 /\ to.id # 0)
               /\ DOMAIN bookingRows' = DOMAIN bookingRows \cup {to.id}
               /\ \A i \in DOMAIN bookingRows' : bookingRows'[i] = q.form \/ (i \in DOMAIN bookingRows
                                                 /\ bookingRows'[i] = bookingRows[i])
            \/ /\ to.at = "done" /\ q.kind = "delete"
               /\ bookingRows' = [i \in DOMAIN bookingRows \ {q.id} |-> bookingRows[i]]
  <2>1. \A at \in {"done", "refused"}, id \in 0 .. MaxBookingSaves + 1 :
           /\ [q EXCEPT !.at = at, !.id = id] \in BookingSaves
           /\ [q EXCEPT !.at = at, !.id = id].at = at
           /\ [q EXCEPT !.at = at, !.id = id].id = id
           /\ [q EXCEPT !.at = at, !.id = id].kind = q.kind
           /\ [q EXCEPT !.at = at, !.id = id].form = q.form
           /\ [q EXCEPT !.at = at] = [q EXCEPT !.at = at, !.id = q.id]
    BY <1>1 DEF BookingSaves
  <2>2. q.id \in 0 .. MaxBookingSaves + 1 /\ q.no + 1 \in 0 .. MaxBookingSaves + 1 /\ q.no + 1 # 0
    BY <1>1, BookingNumbers DEF BookingSaves
  <2>3. CASE Moves(q, [q EXCEPT !.at = "refused"]) /\ UNCHANGED bookingRows
    <3>1. PICK to \in BookingSaves :
             /\ to = [q EXCEPT !.at = "refused", !.id = q.id]
             /\ to.kind = q.kind /\ to.form = q.form /\ to.at = "refused"
      BY <2>1, <2>2
    <3>2. [q EXCEPT !.at = "refused"] = to
      BY <2>1, <2>2, <3>1
    <3> QED
      BY <2>3, <3>1, <3>2 DEF Moves
  <2>4. CASE /\ q.kind = "save"
             /\ LET id == IF q.id = 0 THEN q.no + 1 ELSE q.id
                IN /\ bookingRows' = [i \in DOMAIN bookingRows \cup {id} |->
                                        IF i = id THEN q.form ELSE bookingRows[i]]
                   /\ Moves(q, [q EXCEPT !.at = "done", !.id = id])
    <3>1. PICK id \in 0 .. MaxBookingSaves + 1 : id = IF q.id = 0 THEN q.no + 1 ELSE q.id
      BY <2>2
    <3>2. id # 0 /\ (id = q.id \/ q.id = 0)
      BY <2>2, <3>1
    <3>3. /\ bookingRows' = [i \in DOMAIN bookingRows \cup {id} |->
                               IF i = id THEN q.form ELSE bookingRows[i]]
          /\ bookingSaves' = (bookingSaves \ {q}) \cup {[q EXCEPT !.at = "done", !.id = id]}
      BY <2>4, <3>1 DEF Moves
    <3>4. PICK to \in BookingSaves :
             /\ to = [q EXCEPT !.at = "done", !.id = id]
             /\ to.kind = q.kind /\ to.form = q.form /\ to.at = "done" /\ to.id = id
      BY <2>1
    <3>5. /\ DOMAIN bookingRows' = DOMAIN bookingRows \cup {id}
          /\ \A i \in DOMAIN bookingRows' : bookingRows'[i] = q.form \/ (i \in DOMAIN bookingRows
                                                 /\ bookingRows'[i] = bookingRows[i])
      BY <3>3
    <3> QED
      BY <2>4, <3>2, <3>3, <3>4, <3>5
  <2>5. CASE /\ q.kind = "delete"
             /\ bookingRows' = [i \in DOMAIN bookingRows \ {q.id} |-> bookingRows[i]]
             /\ Moves(q, [q EXCEPT !.at = "done"])
    <3>1. PICK to \in BookingSaves :
             /\ to = [q EXCEPT !.at = "done", !.id = q.id]
             /\ to.kind = q.kind /\ to.form = q.form /\ to.at = "done"
      BY <2>1, <2>2
    <3>2. [q EXCEPT !.at = "done"] = to
      BY <2>1, <2>2, <3>1
    <3> QED
      BY <2>5, <3>1, <3>2 DEF Moves
  <2> QED
    BY <2>3, <2>4, <2>5 DEF bookingServed
<1>3. BookingTypes'
  <2>1. \A i \in DOMAIN bookingRows' : bookingRows'[i] \in BookingForms
    <3>1. q.kind = "save" => q.form \in BookingForms
      BY DEF BookingInv, BookingTypes
    <3> QED
      BY <1>2, <3>1 DEF BookingInv, BookingTypes
  <2> QED
    BY <1>1, <1>2, <2>1 DEF BookingInv, BookingTypes
<1>4. OneRow'
  <2> SUFFICES ASSUME "saves" \notin bookingSeen
               PROVE  OneRow'
    BY <1>1 DEF OneRow
  <2>1. /\ bookingSaves = {q} /\ bookingSaves' = {to} /\ q.id = entityId
        /\ \A i \in DOMAIN bookingRows : i = entityId /\ i # 0
    BY <1>1, <1>2 DEF BookingInv, OneRow
  <2>2. CASE to.at = "refused" /\ bookingRows' = bookingRows
    BY <1>1, <2>1, <2>2 DEF OneRow
  <2>3. CASE /\ to.at = "done" /\ q.kind = "save" /\ to.id # 0
             /\ to.id = q.id \/ (q.id = 0 /\ to.id # 0)
             /\ DOMAIN bookingRows' = DOMAIN bookingRows \cup {to.id}
    <3>1. DOMAIN bookingRows' = DOMAIN bookingRows \cup {to.id}
      BY <2>3
    <3>2. \A i \in DOMAIN bookingRows' : i = to.id
      BY <2>1, <2>3, <3>1
    <3> QED
      BY <1>2, <2>1, <2>3, <3>2 DEF OneRow
  <2>4. CASE /\ to.at = "done" /\ q.kind = "delete"
             /\ bookingRows' = [i \in DOMAIN bookingRows \ {q.id} |-> bookingRows[i]]
    <3>1. DOMAIN bookingRows' = {}
      BY <2>1, <2>4
    <3> QED
      BY <1>2, <2>1, <2>4, <3>1 DEF OneRow
  <2> QED
    BY <1>2, <2>2, <2>3, <2>4
<1> QED
  BY <1>1, <1>3, <1>4, ListsStay, PicksStay DEF BookingInv

LEMMA BookingAnsweredKeeps ==
    ASSUME BookingInv, NEW q \in bookingSaves, bookingAnswered(q)
    PROVE  BookingInv'
<1>1. /\ bookingEditor \in BookingStates /\ isNewBooking \in BOOLEAN /\ q \in BookingSaves
      /\ q.kind = "save" => q.form \in BookingForms
      /\ q.at # "sent" /\ bookingSaves' = bookingSaves \ {q}
      /\ UNCHANGED <<changeTimer, spaceLists, bookingRows, bookingSent, picked>>
  BY DEF bookingAnswered, BookingInv, BookingTypes
<1>2. /\ bookingEditor' \in BookingStates
      /\ \A x \in {"location", "enter", "leave", "spaces", "space"} : bookingEditor'[x] = bookingEditor[x]
      /\ isNewBooking' \in BOOLEAN /\ bookingSeen \subseteq bookingSeen'
      /\ bookingSeen' \subseteq bookingSeen \cup {"saves"}
      /\ \/ q.at = "done" /\ q.kind = "save" /\ entityId' = q.id
         \/ entityId' = entityId /\ ((q.at = "done" /\ q.kind = "save") => "saves" \in bookingSeen')
  <2>1. CASE /\ q.at = "done" /\ q.kind = "save"
             /\ entityId' = q.id /\ isNewBooking' = FALSE
             /\ bookingEditor' = [bookingEditor EXCEPT !.saved = TRUE,
                            !.user = IF isNewBooking THEN q.form.user ELSE @,
                            !.isDisabledSpace = @ /\ ~isNewBooking]
             /\ UNCHANGED bookingSeen
    <3>1. q.form.user \in BookingUsers \cup {NoUser}
      BY <1>1, <2>1 DEF BookingForms
    <3>2. PICK user \in BookingUsers \cup {NoUser} :
             user = IF isNewBooking THEN q.form.user ELSE bookingEditor.user
      BY <1>1, <3>1 DEF BookingStates
    <3>3. PICK disabled \in BOOLEAN : disabled = (bookingEditor.isDisabledSpace /\ ~isNewBooking)
      OBVIOUS
    <3>4. bookingEditor' = [bookingEditor EXCEPT !.saved = TRUE, !.user = user,
                                                 !.isDisabledSpace = disabled]
      BY <2>1, <3>2, <3>3
    <3>5. /\ bookingEditor' \in BookingStates
          /\ \A x \in {"location", "enter", "leave", "spaces", "space"} :
                bookingEditor'[x] = bookingEditor[x]
      BY <1>1, <3>4 DEF BookingStates
    <3> QED
      BY <2>1, <3>5
  <2>2. CASE /\ q.at = "done" /\ q.kind = "delete"
             /\ bookingEditor' = [bookingEditor EXCEPT !.goBack = TRUE]
             /\ UNCHANGED <<bookingEntity, bookingSeen>>
    BY <1>1, <2>2 DEF BookingStates, bookingEntity
  <2>3. CASE /\ bookingEditor' = IF q.kind = "save" THEN [bookingEditor EXCEPT !.saved = FALSE]
                                          ELSE bookingEditor
             /\ Sees(IF q.at = "done" THEN {"saves"} ELSE {})
             /\ UNCHANGED bookingEntity
    BY <1>1, <2>3 DEF BookingStates, bookingEntity, Sees
  <2> QED
    BY <2>1, <2>2, <2>3 DEF bookingAnswered
<1>3. BookingTypes'
  <2>1. entityId' \in 0 .. MaxBookingSaves + 1
    BY <1>1, <1>2 DEF BookingSaves, BookingInv, BookingTypes
  <2> QED
    BY <1>1, <1>2, <2>1 DEF BookingInv, BookingTypes
<1>4. OneRow'
  <2> SUFFICES ASSUME "saves" \notin bookingSeen'
               PROVE  OneRow'
    BY DEF OneRow
  <2>1. bookingSaves = {q} /\ bookingSaves' = {} /\ "saves" \notin bookingSeen
    BY <1>1, <1>2 DEF BookingInv, OneRow
  <2>2. \A i \in DOMAIN bookingRows : i = entityId' /\ i # 0
    <3>1. CASE q.at = "done" /\ q.kind = "save"
      BY <1>2, <2>1, <3>1 DEF BookingInv, OneRow
    <3>2. CASE ~(q.at = "done" /\ q.kind = "save")
      BY <1>2, <2>1, <3>2 DEF BookingInv, OneRow
    <3> QED
      BY <3>1, <3>2
  <2> QED
    BY <1>1, <2>1, <2>2 DEF OneRow
<1> QED
  BY <1>1, <1>2, <1>3, <1>4, ListsStay, PicksStay DEF BookingInv

LEMMA BookingGoesOn ==
    ASSUME BookingInv, [BookingEditorNext]_bookingVars
    PROVE  BookingInv'
<1>1. CASE setEnterDate
  <2>1. PICK h \in Hours : Picks(h, h + 1) /\ picked' = <<h, h + 1>>
    BY <1>1 DEF setEnterDate
  <2> QED
    BY <2>1, PicksKeep
<1>2. CASE setLeaveDate
  <2>1. PICK h \in Hours : Picks(0, h + 1) /\ picked' = [picked EXCEPT ![2] = h + 1]
    BY <1>2 DEF setLeaveDate
  <2> QED
    BY <2>1, PicksKeep
<1> QED
  BY <1>1, <1>2, ChangeKeeps, LocationKeeps, BookingEditsKeep, BookingSubmitKeeps,
     BookingServedKeeps, BookingAnsweredKeeps DEF BookingEditorNext, BookingEditorAnswers

LEMMA BookingInvHolds == BookingEditorSpec => []BookingInv
<1>1. BookingEditorInit => BookingInv
  BY BookingBegins
<1>2. BookingInv /\ [BookingEditorNext]_bookingVars => BookingInv'
  BY BookingGoesOn
<1> QED
  BY <1>1, <1>2, PTL DEF BookingEditorSpec

\* Whatever the administrator picks, however the answers overtake each other and whatever is
\* refused: the form offers the spaces of its area and dates, makes one booking, and stores
\* what was picked, unless lists, pickers or requests got into each other's way, or the list
\* is the first one of a stored booking in a browser that is not in UTC.
THEOREM BookingIsKept == BookingEditorSpec => []BookingIsThePicked
<1>1. BookingInv => BookingIsThePicked
  BY BookingPromise
<1> QED
  BY <1>1, BookingInvHolds, PTL
-----------------------------------------------------------------------------
(* The user editor                                                         *)
UserForms == [id : BOOLEAN, own : BOOLEAN,
              adminUserRole : {UserRoleOrgAdmin, UserRoleSuperAdmin},
              role : Roles,
              email : Emails, originalEmail : Emails, authMethod : Methods,
              changePassword : BOOLEAN, resendInvitation : BOOLEAN,
              factors : SUBSET Factors, saved : BOOLEAN, goBack : BOOLEAN]
UserRequests == [no : 1 .. MaxUserRequests, kind : {"save", "reset", "delete"},
                 at : {"sent", "done", "refused"}, new : BOOLEAN, email : Emails,
                 role : Roles, carried : Methods \cup Factors \cup {"none"}]
StoredUsers == [stored : {TRUE}, email : Emails, role : Roles,
                method : Methods, factors : SUBSET Factors]
SubmittedForms == [email : Emails, role : Roles, authMethod : Methods,
                 changePassword : BOOLEAN]
UserTypes ==
    /\ userForm \in UserForms /\ userRow \in {NoUserRow} \cup StoredUsers
    /\ leftUsers \subseteq Emails
    /\ userRequests \subseteq UserRequests /\ userSubmitted \in SubmittedForms
    /\ userRequestsSent \in 0 .. MaxUserRequests
    /\ userSeen \subseteq {"together", "lost"}
    /\ invitations \in Nat /\ reasons \in Nat
    /\ \A q \in userRequests : q.carried \in (IF q.kind = "save" THEN Methods ELSE Factors) \cup {"none"}

\* A role that the form does not let one change is that of the server, and of what was sent.
Settled(role) == userForm.own \/ (role > userForm.adminUserRole /\ ~isServiceAccount(role))
RolesStay ==
    /\ \A q \in userRequests : q.kind = "save" =>
          /\ Settled(q.role) \/ Settled(userForm.role) => q.role = userForm.role
          /\ q.new => ~Settled(q.role)
    /\ userRow.stored /\ Settled(userForm.role) => userRow.role = userForm.role
    /\ ~userForm.id => ~Settled(userForm.role)

\* What was sent last is what is on its way, and what the server has when it is done.
CarriesMethod == \/ userSubmitted.authMethod = "provider"
                 \/ userSubmitted.authMethod = "password" /\ userSubmitted.changePassword
AsSubmitted == userRow.stored =>
    /\ userRow.email = userSubmitted.email /\ userRow.role = userSubmitted.role
    /\ CarriesMethod => userRow.method = userSubmitted.authMethod
OneUserRequest ==
    userSeen = {} =>
        /\ \A q, r \in userRequests : q = r
        /\ \A q \in userRequests : q.kind = "save" =>
              /\ q.email = userSubmitted.email /\ q.role = userSubmitted.role
              /\ CarriesMethod => q.carried = userSubmitted.authMethod
              /\ ~userForm.saved
              /\ q.at = "done" => AsSubmitted
        /\ userForm.saved => AsSubmitted

\* There is a reason left for an invitation that the form would ask for, and for one that it
\* has asked for.
Wish == IF sendInvitation THEN 1 ELSE 0
NewAddress == IF userForm.email = userSubmitted.email THEN 0 ELSE 1
ReasonsLeft ==
    userSeen = {} =>
        /\ invitations + NewAddress <= reasons
        /\ \/ \E q \in userRequests : q.at = "done" /\ q.carried = "invitation"
           \/ invitations + Wish <= reasons
        /\ \A q \in userRequests : q.at = "sent" /\ q.carried = "invitation" =>
              invitations + 1 + NewAddress <= reasons

UserInv == UserTypes /\ RolesStay /\ OneUserRequest /\ ReasonsLeft

LEMMA WishIsOne == Wish \in {0, 1} /\ NewAddress \in {0, 1}
BY DEF Wish, NewAddress

LEMMA OneMoreReason ==
    \A i, r \in Nat, c, d \in {0, 1} :
        /\ i + c <= r => i + d <= r + 1
        /\ i + 1 + c <= r => i + 1 + d <= r + 1
OBVIOUS

LEMMA BothMore ==
    \A i, r, j, s \in Nat, c \in {0, 1} :
        /\ i + c <= r
        /\ (j = i /\ s = r) \/ (j = i + 1 /\ s = r + 1)
        => j + c <= s
OBVIOUS

LEMMA UserPromise ==
    ASSUME UserInv
    PROVE  UserIsAsSaved
<1>1. InvitedOncePerReason
  <2> SUFFICES ASSUME userSeen = {}
               PROVE  invitations <= reasons
    BY DEF InvitedOncePerReason
  <2>1. invitations + NewAddress <= reasons /\ invitations \in Nat /\ reasons \in Nat
    BY DEF UserInv, ReasonsLeft, UserTypes
  <2> HIDE DEF NewAddress
  <2> QED
    BY <2>1, WishIsOne
<1>2. SavedUserIsStored
  BY DEF UserInv, OneUserRequest, AsSubmitted, CarriesMethod, SavedUserIsStored
<1> QED
  BY <1>1, <1>2 DEF UserIsAsSaved

LEMMA UserBegins ==
    ASSUME UserEditorInit
    PROVE  UserInv
<1> DEFINE first == CHOOSE e \in Emails : TRUE
<1>1. PICK new \in BOOLEAN, own \in BOOLEAN, admin \in {UserRoleOrgAdmin, UserRoleSuperAdmin},
           role \in Roles, method \in Methods, factors \in {{}, {"passkeys"}, Factors} :
         /\ new => ~own /\ role = UserRoleUser /\ method = "password" /\ factors = {}
         /\ own => role = admin
         /\ isServiceAccount(role) => "totp" \notin factors
         /\ leftUsers = {} /\ userRow = IF new THEN NoUserRow ELSE UserRow(first, role, method, factors)
         /\ userForm = [id |-> ~new, own |-> own, adminUserRole |-> admin, role |-> role,
                        email |-> first, originalEmail |-> first, authMethod |-> method,
                        changePassword |-> FALSE, resendInvitation |-> FALSE,
                        factors |-> factors, saved |-> FALSE, goBack |-> FALSE]
         /\ userSubmitted = Submitted(userForm)
         /\ userRequests = {} /\ userRequestsSent = 0 /\ userEdits = 0
         /\ invitations = 0 /\ reasons = (IF new THEN 1 ELSE 0) /\ userSeen = {}
  BY DEF UserEditorInit
<1>2. first \in Emails /\ MaxUserRequests \in Nat
  BY UserEditorAssumption
<1> HIDE DEF first
<1>3. userForm \in UserForms /\ factors \in SUBSET Factors
  BY <1>1, <1>2 DEF UserForms, Factors
<1>4. userRow \in {NoUserRow} \cup StoredUsers /\ (userRow.stored => ~new /\ userRow.role = role)
  BY <1>1, <1>2, <1>3 DEF StoredUsers, UserRow, NoUserRow
<1>5. /\ userSubmitted \in SubmittedForms /\ userSubmitted.email = first
      /\ userForm.email = first /\ userForm.originalEmail = first /\ userForm.role = role
      /\ userForm.id = ~new /\ ~userForm.resendInvitation /\ ~userForm.saved
      /\ userForm.own = own /\ userForm.adminUserRole = admin
  BY <1>1, <1>2 DEF SubmittedForms, Submitted
<1>6. UserTypes
  BY <1>1, <1>2, <1>3, <1>4, <1>5 DEF UserTypes
<1>7. RolesStay
  <2>1. new => ~Settled(userForm.role)
    BY <1>1, <1>5 DEF Settled, UserRoleUser, UserRoleOrgAdmin, UserRoleSuperAdmin
  <2> QED
    BY <1>1, <1>4, <1>5, <2>1 DEF RolesStay
<1>8. OneUserRequest
  BY <1>1, <1>5 DEF OneUserRequest
<1>9. ReasonsLeft
  <2>1. NewAddress = 0 /\ Wish = reasons /\ reasons \in {0, 1}
    BY <1>1, <1>5 DEF Wish, NewAddress, sendInvitation
  <2> QED
    BY <1>1, <2>1 DEF ReasonsLeft
<1> QED
  BY <1>6, <1>7, <1>8, <1>9 DEF UserInv

-----------------------------------------------------------------------------
\* The form is edited.
LEMMA FormEditKeeps ==
    ASSUME UserInv, userForm' \in UserForms,
           \A x \in {"id", "own", "adminUserRole", "originalEmail", "saved"} : userForm'[x] = userForm[x],
           UNCHANGED <<userRow, leftUsers, invitations, userRequests, userRequestsSent, userSubmitted, userSeen>>,
           \/ /\ reasons' = reasons /\ userForm'.email = userForm.email
              /\ userForm'.resendInvitation = userForm.resendInvitation
           \/ reasons' = reasons + 1,
           \/ userForm'.role = userForm.role
           \/ /\ ~userForm.own /\ userForm.adminUserRole >= userForm.role
              /\ userForm.adminUserRole >= userForm'.role \/ isServiceAccount(userForm'.role)
    PROVE  UserInv'
<1>1. UserTypes'
  BY DEF UserInv, UserTypes
<1>2. RolesStay'
  <2>1. \A r \in Roles : Settled(r)' <=> Settled(r)
    BY DEF Settled
  <2>2. /\ userForm.role \in Roles
        /\ userForm'.role \in Roles
        /\ userForm.adminUserRole \in {UserRoleOrgAdmin, UserRoleSuperAdmin}
    BY DEF UserForms, UserInv, UserTypes
  <2>3. userForm'.role # userForm.role => ~Settled(userForm.role) /\ ~Settled(userForm'.role)
    BY <2>2 DEF Settled, Roles, UserRoleUser, UserRoleOrgAdmin, UserRoleServiceAccountRO,
       UserRoleSuperAdmin
  <2>4. Settled(userForm.role)' <=> Settled(userForm'.role)
    BY DEF Settled
  <2>5. \A q \in userRequests : Settled(q.role)' <=> Settled(q.role)
    BY DEF Settled
  <2> HIDE DEF Settled
  <2> QED
    BY <2>2, <2>3, <2>4, <2>5 DEF UserInv, RolesStay
<1>3. OneUserRequest'
  BY DEF UserInv, OneUserRequest, AsSubmitted, CarriesMethod
<1>4. ReasonsLeft'
  <2> SUFFICES ASSUME userSeen = {}
               PROVE  ReasonsLeft'
    BY DEF ReasonsLeft
  <2>1. /\ Wish \in {0, 1} /\ NewAddress \in {0, 1} /\ Wish' \in {0, 1} /\ NewAddress' \in {0, 1}
        /\ invitations \in Nat /\ reasons \in Nat
    BY DEF Wish, NewAddress, UserInv, UserTypes
  <2>2. CASE reasons' = reasons + 1
    <3>1. invitations' + NewAddress' <= reasons' /\ invitations' + Wish' <= reasons'
      <4>1. invitations + NewAddress <= reasons
        BY DEF UserInv, ReasonsLeft
      <4> QED
        BY <2>1, <2>2, <4>1, OneMoreReason, Zenon
    <3>2. ASSUME invitations + 1 + NewAddress <= reasons
          PROVE  invitations' + 1 + NewAddress' <= reasons'
      BY <2>1, <2>2, <3>2, OneMoreReason, Zenon
    <3> QED
      BY <3>1, <3>2 DEF UserInv, ReasonsLeft
  <2>3. CASE reasons' = reasons /\ userForm'.email = userForm.email
             /\ userForm'.resendInvitation = userForm.resendInvitation
    <3>1. Wish' = Wish /\ NewAddress' = NewAddress
      BY <2>3 DEF Wish, NewAddress, sendInvitation
    <3> QED
      BY <2>3, <3>1 DEF UserInv, ReasonsLeft
  <2> QED
    BY <2>2, <2>3
<1> QED
  BY <1>1, <1>2, <1>3, <1>4 DEF UserInv

LEMMA UserEditsKeep ==
    ASSUME UserInv, setEmail \/ changeRole \/ setAuthMethod \/ setChangePassword \/ generatePassword
                    \/ setResendInvitation \/ UNCHANGED userVars
    PROVE  UserInv'
<1>1. userForm \in UserForms /\ reasons \in Nat
  BY DEF UserInv, UserTypes
<1>2. ASSUME NEW f, FormEdit(f)
      PROVE  userForm' = f /\ UNCHANGED <<userRow, leftUsers, invitations, userRequests, userRequestsSent,
                                          userSubmitted, userSeen>>
  BY <1>2 DEF FormEdit, userServer, userSending
<1>3. CASE setEmail
  <2>1. PICK email \in Emails : FormEdit([userForm EXCEPT !.email = email]) /\ reasons' = reasons + 1
    BY <1>3 DEF setEmail, Reasons
  <2>2. userForm' = [userForm EXCEPT !.email = email]
    BY <1>2, <2>1
  <2>3. /\ userForm' \in UserForms
        /\ \A x \in {"id", "own", "adminUserRole", "originalEmail", "saved", "role"} :
              userForm'[x] = userForm[x]
    BY <1>1, <2>2 DEF UserForms
  <2> QED
    BY <1>2, <2>1, <2>3, FormEditKeeps
<1>4. CASE changeRole
  <2>1. PICK role \in Roles :
           /\ ~userForm.own /\ userForm.adminUserRole >= userForm.role
           /\ userForm.adminUserRole >= role \/ isServiceAccount(role)
           /\ FormEdit([userForm EXCEPT !.role = role,
                                        !.changePassword = @ \/ isServiceAccount(role)])
           /\ reasons' = reasons
    <3>1. PICK role \in Roles :
             /\ roleSelect /\ (userForm.adminUserRole >= role \/ isServiceAccount(role))
             /\ FormEdit([userForm EXCEPT !.role = role,
                                          !.changePassword = @ \/ isServiceAccount(role)])
             /\ Reasons(0)
      BY <1>4, Zenon DEF changeRole
    <3>2. reasons' = reasons
      BY <1>1, <3>1 DEF Reasons
    <3> QED
      BY <3>1, <3>2, Zenon DEF roleSelect
  <2>2. userForm' = [userForm EXCEPT !.role = role, !.changePassword = @ \/ isServiceAccount(role)]
    BY <1>2, <2>1
  <2>3. /\ userForm' \in UserForms /\ userForm'.role = role
        /\ \A x \in {"id", "own", "adminUserRole", "originalEmail", "saved", "email", "resendInvitation"} :
              userForm'[x] = userForm[x]
    BY <1>1, <2>2 DEF UserForms, isServiceAccount
  <2> QED
    BY <1>2, <2>1, <2>3, FormEditKeeps
<1>5. CASE setAuthMethod
  <2>1. PICK method \in Methods :
           FormEdit([userForm EXCEPT !.authMethod = method]) /\ reasons' = reasons
    BY <1>1, <1>5 DEF setAuthMethod, Reasons
  <2>2. userForm' = [userForm EXCEPT !.authMethod = method]
    BY <1>2, <2>1
  <2>3. /\ userForm' \in UserForms
        /\ \A x \in {"id", "own", "adminUserRole", "originalEmail", "saved", "email",
                     "resendInvitation", "role"} : userForm'[x] = userForm[x]
    BY <1>1, <2>2 DEF UserForms
  <2> QED
    BY <1>2, <2>1, <2>3, FormEditKeeps
<1>6. CASE setChangePassword \/ generatePassword
  <2>1. PICK change \in BOOLEAN :
           FormEdit([userForm EXCEPT !.changePassword = change]) /\ reasons' = reasons
    <3>1. reasons' = reasons
      BY <1>1, <1>6 DEF setChangePassword, generatePassword, Reasons
    <3>2. CASE setChangePassword
      <4>1. FormEdit([userForm EXCEPT !.changePassword = ~userForm.changePassword])
        BY <3>2, Zenon DEF setChangePassword
      <4>2. (~userForm.changePassword) \in BOOLEAN
        OBVIOUS
      <4> QED
        BY <3>1, <4>1, <4>2, Zenon
    <3>3. CASE generatePassword
      BY <3>1, <3>3, Zenon DEF generatePassword
    <3> QED
      BY <1>6, <3>2, <3>3
  <2>2. userForm' = [userForm EXCEPT !.changePassword = change]
    BY <1>2, <2>1
  <2>3. /\ userForm' \in UserForms
        /\ \A x \in {"id", "own", "adminUserRole", "originalEmail", "saved", "email",
                     "resendInvitation", "role"} : userForm'[x] = userForm[x]
    BY <1>1, <2>2 DEF UserForms
  <2> QED
    BY <1>2, <2>1, <2>3, FormEditKeeps
<1>7. CASE setResendInvitation
  <2>1. FormEdit([userForm EXCEPT !.resendInvitation = ~@]) /\ reasons' = reasons + 1
    BY <1>7 DEF setResendInvitation, Reasons
  <2>2. userForm' = [userForm EXCEPT !.resendInvitation = ~@]
    BY <1>2, <2>1
  <2>3. /\ userForm' \in UserForms
        /\ \A x \in {"id", "own", "adminUserRole", "originalEmail", "saved", "role"} :
              userForm'[x] = userForm[x]
    BY <1>1, <2>2 DEF UserForms
  <2> QED
    BY <1>2, <2>1, <2>3, FormEditKeeps
<1>8. CASE UNCHANGED userVars
  BY <1>1, <1>8, FormEditKeeps DEF userVars
<1> QED
  BY <1>3, <1>4, <1>5, <1>6, <1>7, <1>8

-----------------------------------------------------------------------------
\* A request is sent.
LEMMA InvitationIsWished ==
    \A i, r \in Nat, w \in {0, 1} : (i + w <= r => i <= r) /\ (w = 1 /\ i + w <= r => i + 1 <= r)
OBVIOUS

LEMMA NoMoreUserRequests ==
    ASSUME UserInv, userRequestsSent < MaxUserRequests
    PROVE  userRequestsSent + 1 \in 1 .. MaxUserRequests /\ userRequestsSent + 1 \in 0 .. MaxUserRequests
<1>1. MaxUserRequests \in Nat
  BY UserEditorAssumption
<1> QED
  BY <1>1 DEF UserInv, UserTypes

LEMMA UserAsks ==
    ASSUME UserInv, NEW kind \in {"save", "reset", "delete"},
           NEW carried \in Methods \cup Factors \cup {"none"}, Asks(kind, carried)
    PROVE  \E q \in UserRequests :
              /\ userRequests' = userRequests \cup {q} /\ userRequestsSent' \in 0 .. MaxUserRequests
              /\ q.kind = kind /\ q.at = "sent" /\ q.new = ~userForm.id /\ q.email = userForm.email
              /\ q.role = userForm.role /\ q.carried = carried
              /\ userSeen' = userSeen \cup (IF userRequests # {} THEN {"together"} ELSE {})
<1> DEFINE q == [no |-> userRequestsSent', kind |-> kind, at |-> "sent", new |-> ~userForm.id,
                 email |-> userForm.email, role |-> userForm.role, carried |-> carried]
<1>1. /\ userRequestsSent < MaxUserRequests /\ userRequestsSent' = userRequestsSent + 1
      /\ userRequests' = userRequests \cup {q}
      /\ userSeen' = userSeen \cup (IF userRequests # {} THEN {"together"} ELSE {})
  BY DEF Asks, Marks
<1>2. userRequestsSent' \in 1 .. MaxUserRequests /\ userRequestsSent' \in 0 .. MaxUserRequests
  BY <1>1, NoMoreUserRequests
<1>3. userForm \in UserForms
  BY DEF UserInv, UserTypes
<1>4. q \in UserRequests
  BY <1>2, <1>3 DEF UserForms, UserRequests
<1>5. /\ q.kind = kind /\ q.at = "sent" /\ q.new = ~userForm.id /\ q.email = userForm.email
      /\ q.role = userForm.role /\ q.carried = carried
  OBVIOUS
<1> HIDE DEF q
<1> QED
  BY <1>1, <1>2, <1>4, <1>5

LEMMA UserSubmitKeeps ==
    ASSUME UserInv, userSubmit
    PROVE  UserInv'
<1>1. /\ userForm \in UserForms /\ userRow \in {NoUserRow} \cup StoredUsers
      /\ userRequests \subseteq UserRequests /\ userSeen \subseteq {"together", "lost"}
      /\ invitations \in Nat /\ reasons \in Nat /\ leftUsers \subseteq Emails
      /\ \A q \in userRequests : q.carried \in (IF q.kind = "save" THEN Methods ELSE Factors) \cup {"none"}
  BY DEF UserInv, UserTypes
<1>2. /\ Carried \in Methods \cup {"none"}
      /\ Carried = "invitation" => Wish = 1
      /\ userForm.authMethod = "provider" => Carried = "provider"
      /\ userForm.authMethod = "password" /\ userForm.changePassword => Carried = "password"
  <2>1. userForm.authMethod \in {"password", "provider", "invitation"}
    BY <1>1 DEF UserForms, Methods
  <2>2. CASE userForm.authMethod = "invitation"
    BY <2>2 DEF Carried, Wish, Methods
  <2>3. CASE userForm.authMethod = "provider"
    BY <2>3 DEF Carried, Methods
  <2>4. CASE userForm.authMethod = "password"
    BY <2>4 DEF Carried, Methods
  <2> QED
    BY <2>1, <2>2, <2>3, <2>4
<1>3. PICK q \in UserRequests :
         /\ userRequests' = userRequests \cup {q} /\ userRequestsSent' \in 0 .. MaxUserRequests
         /\ q.kind = "save" /\ q.at = "sent" /\ q.new = ~userForm.id /\ q.email = userForm.email
         /\ q.role = userForm.role /\ q.carried = Carried
         /\ userSeen' = userSeen \cup (IF userRequests # {} THEN {"together"} ELSE {})
  <2>1. Asks("save", Carried) /\ Carried \in Methods \cup Factors \cup {"none"}
    BY <1>2 DEF userSubmit
  <2> HIDE DEF Carried
  <2> QED
    BY <2>1, UserAsks
<1>4. /\ userForm' \in UserForms /\ userForm'.saved = FALSE
      /\ \A x \in {"id", "own", "adminUserRole", "role", "email", "originalEmail", "authMethod",
                   "changePassword", "resendInvitation"} : userForm'[x] = userForm[x]
      /\ userSubmitted' = Submitted(userForm) /\ UNCHANGED <<userRow, leftUsers, invitations, reasons>>
  BY <1>1 DEF userSubmit, UserForms, userServer
<1>5. /\ userSubmitted' \in SubmittedForms /\ userSubmitted'.email = userForm.email
      /\ userSubmitted'.role = userForm.role /\ userSubmitted'.authMethod = userForm.authMethod
      /\ userSubmitted'.changePassword = userForm.changePassword
  BY <1>1, <1>4 DEF Submitted, SubmittedForms, UserForms
<1> HIDE DEF Carried
<1>6. UserTypes'
  <2>1. q.carried \in (IF q.kind = "save" THEN Methods ELSE Factors) \cup {"none"}
    BY <1>2, <1>3
  <2> QED
    BY <1>1, <1>3, <1>4, <1>5, <2>1 DEF UserTypes
<1>7. RolesStay'
  <2>1. \A r \in Roles : Settled(r)' <=> Settled(r)
    BY <1>4 DEF Settled
  <2>2. userForm'.role = userForm.role /\ userForm'.id = userForm.id /\ userForm.role \in Roles
        /\ \A p \in userRequests : p.role \in Roles
    BY <1>1, <1>4 DEF UserForms, UserRequests
  <2>3. /\ Settled(userForm.role)' <=> Settled(userForm.role)
        /\ \A p \in userRequests \cup {q} : Settled(p.role)' <=> Settled(p.role)
    BY <1>4, <2>2 DEF Settled
  <2> HIDE DEF Settled
  <2>4. \A p \in userRequests \cup {q} : p.kind = "save" =>
           /\ Settled(p.role) \/ Settled(userForm.role) => p.role = userForm.role
           /\ p.new => ~Settled(p.role)
    BY <1>3 DEF UserInv, RolesStay
  <2> QED
    BY <1>3, <1>4, <2>2, <2>3, <2>4 DEF UserInv, RolesStay
<1>8. OneUserRequest'
  <2>1. CarriesMethod' => Carried = userSubmitted'.authMethod
    BY <1>2, <1>5 DEF CarriesMethod
  <2> SUFFICES ASSUME userSeen' = {}
               PROVE  OneUserRequest'
    BY DEF OneUserRequest
  <2>2. userRequests' = {q}
    BY <1>3
  <2> HIDE DEF CarriesMethod
  <2> QED
    BY <1>3, <1>4, <1>5, <2>1, <2>2 DEF OneUserRequest
<1>9. ReasonsLeft'
  <2> SUFFICES ASSUME userSeen' = {}
               PROVE  ReasonsLeft'
    BY DEF ReasonsLeft
  <2>1. userSeen = {} /\ userRequests = {} /\ userRequests' = {q}
    BY <1>3
  <2>2. invitations + Wish <= reasons
    BY <2>1 DEF UserInv, ReasonsLeft
  <2>3. Wish' = Wish /\ NewAddress' = 0
    BY <1>4, <1>5 DEF Wish, NewAddress, sendInvitation
  <2> HIDE DEF Wish, NewAddress
  <2>4. invitations <= reasons /\ (Wish = 1 => invitations + 1 <= reasons)
    BY <1>1, <2>2, WishIsOne, InvitationIsWished, Zenon
  <2>5. q.carried = "invitation" => invitations + 1 <= reasons
    BY <1>2, <1>3, <2>4
  <2>6. invitations + 0 = invitations /\ invitations + 1 + 0 = invitations + 1
    BY <1>1
  <2> QED
    BY <1>3, <1>4, <2>1, <2>2, <2>3, <2>4, <2>5, <2>6 DEF ReasonsLeft
<1> QED
  BY <1>6, <1>7, <1>8, <1>9 DEF UserInv

LEMMA UserAsksMoreKeep ==
    ASSUME UserInv, resetTotp \/ resetPasskeys \/ deleteUser
    PROVE  UserInv'
<1>1. PICK kind \in {"reset", "delete"}, carried \in Factors \cup {"none"} :
         /\ Asks(kind, carried)
         /\ UNCHANGED <<userForm, userRow, leftUsers, invitations, userSubmitted, reasons>>
  <2>1. CASE resetTotp \/ resetPasskeys
    <3>1. PICK x \in Factors : resets(x)
      BY <2>1 DEF resetTotp, resetPasskeys, Factors
    <3> QED
      BY <3>1 DEF resets, userServer
  <2>2. CASE deleteUser
    BY <2>2 DEF deleteUser, userServer
  <2> QED
    BY <2>1, <2>2
<1>2. PICK q \in UserRequests :
         /\ userRequests' = userRequests \cup {q} /\ userRequestsSent' \in 0 .. MaxUserRequests
         /\ q.kind = kind /\ q.carried = carried
         /\ userSeen' = userSeen \cup (IF userRequests # {} THEN {"together"} ELSE {})
  BY <1>1, UserAsks
<1>3. q.kind # "save" /\ q.carried # "invitation"
  BY <1>1, <1>2 DEF Factors
<1>4. UserTypes'
  BY <1>1, <1>2, <1>3 DEF UserInv, UserTypes
<1>5. RolesStay'
  BY <1>1, <1>2, <1>3 DEF UserInv, RolesStay, Settled
<1>6. OneUserRequest'
  BY <1>1, <1>2, <1>3 DEF UserInv, OneUserRequest, AsSubmitted, CarriesMethod
<1>7. ReasonsLeft'
  <2> SUFFICES ASSUME userSeen' = {}
               PROVE  ReasonsLeft'
    BY DEF ReasonsLeft
  <2>1. userSeen = {} /\ userRequests = {}
    BY <1>2
  <2>2. Wish' = Wish /\ NewAddress' = NewAddress
    BY <1>1 DEF Wish, NewAddress, sendInvitation
  <2> HIDE DEF Wish, NewAddress
  <2> QED
    BY <1>1, <1>2, <1>3, <2>1, <2>2 DEF UserInv, ReasonsLeft
<1> QED
  BY <1>4, <1>5, <1>6, <1>7 DEF UserInv

-----------------------------------------------------------------------------
\* The server serves a request.
LEMMA UserServesKeeps ==
    ASSUME UserInv, NEW q \in userRequests, NEW at \in {"done", "refused"}, q.at = "sent",
           ServedAs(q, at), userRow' \in {NoUserRow} \cup StoredUsers, leftUsers' \subseteq Emails,
           UNCHANGED <<userForm, userRequestsSent, userSubmitted, userSeen>>,
           userRow'.stored /\ Settled(userForm.role) => userRow'.role = userForm.role,
           userSeen = {} /\ (userForm.saved \/ (at = "done" /\ q.kind = "save")) => AsSubmitted',
           \/ /\ invitations' = invitations + IF at = "done" /\ q.carried = "invitation" THEN 1 ELSE 0
              /\ reasons' = reasons
           \/ at = "refused" /\ invitations' = invitations + 1 /\ reasons' = reasons + 1
    PROVE  UserInv'
<1>1. /\ userRequests \subseteq UserRequests /\ q \in UserRequests
      /\ invitations \in Nat /\ reasons \in Nat /\ userForm \in UserForms
      /\ \A p \in userRequests : p.carried \in (IF p.kind = "save" THEN Methods ELSE Factors) \cup {"none"}
  BY DEF UserInv, UserTypes
<1>2. PICK to \in UserRequests :
         /\ userRequests' = (userRequests \ {q}) \cup {to} /\ to.at = at /\ to.kind = q.kind
         /\ to.new = q.new /\ to.email = q.email /\ to.role = q.role /\ to.carried = q.carried
  <2> DEFINE to == [q EXCEPT !.at = at]
  <2>1. userRequests' = (userRequests \ {q}) \cup {to}
    BY DEF ServedAs
  <2>2. /\ to \in UserRequests /\ to.at = at /\ to.kind = q.kind
        /\ to.new = q.new /\ to.email = q.email /\ to.role = q.role /\ to.carried = q.carried
    BY <1>1 DEF UserRequests
  <2> HIDE DEF to
  <2> QED
    BY <2>1, <2>2
<1>3. invitations' \in Nat /\ reasons' \in Nat
  BY <1>1
<1>4. UserTypes'
  BY <1>1, <1>2, <1>3 DEF UserInv, UserTypes
<1>5. RolesStay'
  <2>1. \A p \in userRequests : p.kind = "save" =>
           /\ Settled(p.role) \/ Settled(userForm.role) => p.role = userForm.role
           /\ p.new => ~Settled(p.role)
    BY DEF UserInv, RolesStay
  <2>2. \A p \in userRequests' : p.kind = "save" =>
           /\ Settled(p.role) \/ Settled(userForm.role) => p.role = userForm.role
           /\ p.new => ~Settled(p.role)
    BY <1>2, <2>1 DEF Settled
  <2>3. /\ Settled(userForm.role)' <=> Settled(userForm.role)
        /\ \A p \in userRequests' : Settled(p.role)' <=> Settled(p.role)
    BY DEF Settled
  <2> HIDE DEF Settled
  <2> QED
    BY <2>2, <2>3 DEF UserInv, RolesStay
<1>6. OneUserRequest'
  <2> SUFFICES ASSUME userSeen = {}
               PROVE  OneUserRequest'
    BY DEF OneUserRequest
  <2>1. userRequests = {q} /\ userRequests' = {to}
    BY <1>2 DEF UserInv, OneUserRequest
  <2>2. CarriesMethod' = CarriesMethod
    BY DEF CarriesMethod
  <2>3. q.kind = "save" => /\ q.email = userSubmitted.email /\ q.role = userSubmitted.role
                           /\ CarriesMethod => q.carried = userSubmitted.authMethod
                           /\ ~userForm.saved
    BY DEF UserInv, OneUserRequest
  <2> HIDE DEF AsSubmitted, CarriesMethod
  <2> QED
    <3>1. \A p, r \in userRequests' : p = r
      BY <2>1
    <3>2. \A p \in userRequests' : p.kind = "save" =>
              /\ p.email = userSubmitted'.email /\ p.role = userSubmitted'.role
              /\ CarriesMethod' => p.carried = userSubmitted'.authMethod
              /\ ~userForm'.saved
              /\ p.at = "done" => AsSubmitted'
      BY <1>2, <2>1, <2>2, <2>3
    <3>3. userForm'.saved => AsSubmitted'
      OBVIOUS
    <3> QED
      BY <3>1, <3>2, <3>3 DEF OneUserRequest
<1>7. ReasonsLeft'
  <2> SUFFICES ASSUME userSeen = {}
               PROVE  ReasonsLeft'
    BY DEF ReasonsLeft
  <2>1. userRequests = {q} /\ userRequests' = {to}
    BY <1>2 DEF UserInv, OneUserRequest
  <2>2. Wish' = Wish /\ NewAddress' = NewAddress
    BY DEF Wish, NewAddress, sendInvitation
  <2> HIDE DEF Wish, NewAddress
  <2>3. CASE at = "done" /\ q.carried = "invitation"
    BY <1>2, <2>1, <2>2, <2>3 DEF UserInv, ReasonsLeft
  <2>4. CASE ~(at = "done" /\ q.carried = "invitation")
    <3>1. \/ invitations' = invitations /\ reasons' = reasons
          \/ invitations' = invitations + 1 /\ reasons' = reasons + 1
      BY <1>1, <2>4
    <3>2. invitations + NewAddress <= reasons /\ invitations + Wish <= reasons
      BY <2>1 DEF UserInv, ReasonsLeft
    <3>3. invitations' + NewAddress <= reasons' /\ invitations' + Wish <= reasons'
      <4>1. Wish \in {0, 1} /\ NewAddress \in {0, 1}
        BY WishIsOne
      <4>2. invitations' + NewAddress <= reasons'
        BY <1>1, <1>3, <3>1, <3>2, <4>1, BothMore
      <4>3. invitations' + Wish <= reasons'
        BY <1>1, <1>3, <3>1, <3>2, <4>1, BothMore
      <4> QED
        BY <4>2, <4>3
    <3>4. to.at # "sent" /\ ~(to.at = "done" /\ to.carried = "invitation")
      BY <1>2, <2>4
    <3> QED
      BY <2>1, <2>2, <3>3, <3>4 DEF ReasonsLeft
  <2> QED
    BY <2>3, <2>4
<1> QED
  BY <1>4, <1>5, <1>6, <1>7 DEF UserInv

LEMMA UserServedKeeps ==
    ASSUME UserInv, NEW q \in userRequests, userServed(q)
    PROVE  UserInv'
<1>1. /\ q \in UserRequests /\ userForm \in UserForms /\ userRow \in {NoUserRow} \cup StoredUsers
      /\ invitations \in Nat /\ reasons \in Nat /\ leftUsers \subseteq Emails
      /\ q.carried \in (IF q.kind = "save" THEN Methods ELSE Factors) \cup {"none"}
  BY DEF UserInv, UserTypes
<1>2. /\ q.at = "sent"
      /\ UNCHANGED <<userForm, userRequestsSent, userSubmitted, userSeen>>
  BY DEF userServed
<1>3. /\ userRow.stored /\ Settled(userForm.role) => userRow.role = userForm.role
      /\ userSeen = {} /\ userForm.saved => AsSubmitted
  BY DEF UserInv, RolesStay, OneUserRequest
<1>4. userRow.stored <=> userRow \in StoredUsers
  <2>1. ~NoUserRow.stored /\ \A r \in StoredUsers : r.stored
    BY DEF StoredUsers, NoUserRow
  <2> QED
    BY <1>1, <2>1
<1>5. CASE ServedAs(q, "refused") /\ UNCHANGED userServer /\ Reasons(0)
  <2>1. /\ userRow' = userRow /\ leftUsers' = leftUsers /\ invitations' = invitations + 0
        /\ "refused" \in {"done", "refused"} /\ "refused" # "done" /\ reasons' = reasons
    BY <1>1, <1>5 DEF userServer, Reasons
  <2>2. userSeen = {} /\ userForm.saved => AsSubmitted'
    BY <1>2, <1>3, <2>1 DEF AsSubmitted, CarriesMethod
  <2> QED
    BY <1>1, <1>2, <1>3, <1>5, <2>1, <2>2, UserServesKeeps
<1>6. CASE saveUser(q)
  <2>9. createUser(q) \/ updateUser(q)
    BY <1>6 DEF saveUser
  <2>7. PICK at \in {"done", "refused"} :
           /\ ServedAs(q, at)
           /\ \/ /\ invitations' = invitations
                                    + IF at = "done" /\ q.carried = "invitation" THEN 1 ELSE 0
                 /\ reasons' = reasons
              \/ at = "refused" /\ invitations' = invitations + 1 /\ reasons' = reasons + 1
    <3>1. invitations + 0 = invitations /\ reasons + 0 = reasons /\ "refused" # "done"
      BY <1>1
    <3>2. CASE /\ ServedAs(q, "done") /\ Reasons(0)
               /\ invitations' = invitations + IF q.carried = "invitation" THEN 1 ELSE 0
      BY <3>1, <3>2, Zenon DEF Reasons
    <3>3. CASE /\ q.carried = "invitation" /\ ServedAs(q, "refused")
               /\ \E mailed \in {0, 1} : invitations' = invitations + mailed /\ Reasons(mailed)
      <4>1. \/ invitations' = invitations + 0 /\ reasons' = reasons
            \/ invitations' = invitations + 1 /\ reasons' = reasons + 1
        BY <3>1, <3>3, Zenon DEF Reasons
      <4> QED
        BY <3>1, <3>3, <4>1, Zenon
    <3> QED
      BY <1>6, <3>2, <3>3, Zenon DEF saveUser
  <2>8. leftUsers' \subseteq Emails
    <3>1. CASE createUser(q)
      <4>1. leftUsers' = leftUsers \cup (IF userRow.stored THEN {userRow.email} ELSE {})
        BY <3>1 DEF createUser
      <4>2. userRow.stored => userRow.email \in Emails
        BY <1>4 DEF StoredUsers
      <4> QED
        BY <1>1, <4>1, <4>2
    <3>2. CASE updateUser(q)
      BY <1>1, <3>2 DEF updateUser
    <3> QED
      BY <2>9, <3>1, <3>2
  <2>1. PICK role \in Roles, method \in Methods, factors \in SUBSET Factors :
           /\ userRow' = UserRow(q.email, role, method, factors)
           /\ q.carried # "none" => method = q.carried
           /\ role = q.role \/ (Settled(q.role) /\ ~q.new /\ userRow.stored /\ role = userRow.role)
           /\ q.kind = "save"
    <3>1. q.kind = "save" => q.carried \in Methods \cup {"none"}
      BY <1>1
    <3>2. CASE createUser(q)
      <4>1. ~Above(q)
        BY <3>2 DEF createUser, UserInv, RolesStay, Settled, Above
      <4>2. /\ q.kind = "save"
            /\ userRow' = UserRow(q.email, q.role,
                                  IF q.carried = "none" THEN "provider" ELSE q.carried, {})
        BY <3>2, <4>1 DEF createUser
      <4>3. /\ q.role \in Roles /\ {} \in SUBSET Factors
            /\ (IF q.carried = "none" THEN "provider" ELSE q.carried) \in Methods
        BY <1>1, <3>1, <4>2 DEF UserRequests, Methods
      <4> QED
        BY <4>2, <4>3
    <3>3. CASE updateUser(q)
      <4>1. /\ q.kind = "save" /\ ~q.new /\ userRow.stored
            /\ userRow' = UserRow(q.email, IF userForm.own \/ Above(q) THEN userRow.role ELSE q.role,
                          IF q.carried = "none" THEN userRow.method ELSE q.carried,
                          userRow.factors \ {"totp"})
        BY <3>3 DEF updateUser
      <4>2. userRow \in StoredUsers
        BY <1>4, <4>1
      <4>3. userForm.own \/ Above(q) => Settled(q.role)
        BY DEF Settled, Above
      <4>4. /\ (IF userForm.own \/ Above(q) THEN userRow.role ELSE q.role) \in Roles
            /\ (IF q.carried = "none" THEN userRow.method ELSE q.carried) \in Methods
            /\ userRow.factors \ {"totp"} \in SUBSET Factors
        BY <1>1, <3>1, <4>1, <4>2 DEF StoredUsers, UserRequests
      <4> HIDE DEF Settled, Above
      <4> QED
        BY <4>1, <4>3, <4>4
    <3> QED
      BY <2>9, <3>2, <3>3
  <2>2. /\ userRow' \in StoredUsers /\ userRow'.stored /\ userRow'.email = q.email
        /\ userRow'.role = role /\ userRow'.method = method
    BY <1>1, <2>1 DEF UserRow, StoredUsers, UserRequests
  <2>3. /\ Settled(q.role) \/ Settled(userForm.role) => q.role = userForm.role
        /\ q.new => ~Settled(q.role)
    BY <2>1 DEF UserInv, RolesStay
  <2>4. role = q.role
    BY <1>3, <2>1, <2>3
  <2>5. Settled(userForm.role) => userRow'.role = userForm.role
    BY <2>2, <2>3, <2>4
  <2>6. userSeen = {} => AsSubmitted'
    <3> SUFFICES ASSUME userSeen = {}
                 PROVE  AsSubmitted'
      OBVIOUS
    <3>1. /\ q.email = userSubmitted.email /\ q.role = userSubmitted.role
          /\ CarriesMethod => q.carried = userSubmitted.authMethod
      BY <2>1 DEF UserInv, OneUserRequest
    <3>2. CarriesMethod => q.carried # "none"
      BY <3>1 DEF CarriesMethod
    <3>3. CarriesMethod' = CarriesMethod
      BY <1>2 DEF CarriesMethod
    <3> HIDE DEF CarriesMethod
    <3> QED
      BY <1>2, <2>1, <2>2, <2>4, <3>1, <3>2, <3>3 DEF AsSubmitted
  <2> HIDE DEF Settled
  <2> QED
    BY <1>2, <2>2, <2>5, <2>6, <2>7, <2>8, UserServesKeeps
<1>7. CASE /\ q.kind \in {"reset", "delete"} /\ userRow.stored /\ ServedAs(q, "done")
           /\ \/ userRow' = [userRow EXCEPT !.factors = @ \ {q.carried}]
              \/ userRow' = NoUserRow
           /\ UNCHANGED <<leftUsers, invitations>> /\ Reasons(0)
  <2>1. userRow \in StoredUsers /\ q.carried # "invitation" /\ q.kind # "save"
        /\ invitations' = invitations + 0 /\ reasons' = reasons
    BY <1>1, <1>4, <1>7 DEF Factors, Reasons
  <2>2. /\ userRow' \in {NoUserRow} \cup StoredUsers
        /\ userRow'.stored => /\ userRow'.email = userRow.email /\ userRow'.role = userRow.role
                              /\ userRow'.method = userRow.method
    <3>1. CASE userRow' = [userRow EXCEPT !.factors = @ \ {q.carried}]
      BY <2>1, <3>1 DEF StoredUsers
    <3>2. CASE userRow' = NoUserRow
      BY <3>2 DEF NoUserRow
    <3> QED
      BY <1>7, <3>1, <3>2
  <2>3. userSeen = {} /\ userForm.saved => AsSubmitted'
    BY <1>2, <1>3, <1>7, <2>2 DEF AsSubmitted, CarriesMethod
  <2> QED
    BY <1>1, <1>2, <1>3, <1>7, <2>1, <2>2, <2>3, UserServesKeeps
<1> QED
  BY <1>5, <1>6, <1>7 DEF userServed, adminReset, removeUser

-----------------------------------------------------------------------------
\* The form has its answer, or misses it.
LEMMA UserAnsweredKeeps ==
    ASSUME UserInv, NEW q \in userRequests, userAnswered(q)
    PROVE  UserInv'
<1>1. /\ q \in UserRequests /\ userForm \in UserForms /\ userSubmitted \in SubmittedForms
      /\ q.carried \in (IF q.kind = "save" THEN Methods ELSE Factors) \cup {"none"}
      /\ invitations \in Nat /\ reasons \in Nat
  BY DEF UserInv, UserTypes
<1>2. /\ q.at # "sent" /\ userRequests' = userRequests \ {q} /\ userSeen \subseteq userSeen'
      /\ userSeen' \subseteq userSeen \cup {"lost"}
      /\ UNCHANGED <<userRow, leftUsers, invitations, userRequestsSent, userSubmitted, reasons>>
  BY DEF userAnswered, userServer, Marks
<1>3. /\ userForm' \in UserForms /\ userForm'.role = userForm.role /\ userForm'.own = userForm.own
      /\ userForm'.adminUserRole = userForm.adminUserRole /\ userForm'.email = userForm.email
      /\ userForm.id => userForm'.id
      /\ \/ UNCHANGED <<userForm.saved, userForm.resendInvitation, userForm.originalEmail, userForm.id>>
            /\ (q.kind # "save" \/ userSeen' # {} \/ q.at = "refused")
         \/ /\ q.at = "done" /\ q.kind = "save" /\ userForm'.id /\ ~userForm'.resendInvitation
            /\ userForm'.originalEmail = userSubmitted.email
  <2>1. CASE q.at = "done" /\ q.kind = "save" /\ userForm' =
               [userForm EXCEPT !.id = TRUE, !.saved = TRUE, !.resendInvitation = FALSE,
                                !.originalEmail = userSubmitted.email]
    BY <1>1, <2>1 DEF UserForms, SubmittedForms
  <2>2. CASE q.kind # "save" /\ userForm' = [userForm EXCEPT !.factors = @ \ {q.carried}]
    BY <1>1, <2>2 DEF UserForms
  <2>3. CASE q.kind # "save" /\ userForm' = [userForm EXCEPT !.goBack = TRUE]
    BY <1>1, <2>3 DEF UserForms
  <2>4. CASE userForm' = userForm /\ (userSeen' # {} \/ q.at # "done")
    BY <1>1, <1>2, <2>4 DEF UserRequests
  <2>5. q.kind \in {"save", "reset", "delete"}
    BY <1>1 DEF UserRequests
  <2> QED
    BY <2>1, <2>2, <2>3, <2>4, <2>5 DEF userAnswered, Marks
<1>4. UserTypes'
  BY <1>2, <1>3 DEF UserInv, UserTypes
<1>5. RolesStay'
  <2>1. \A role : Settled(role)' <=> Settled(role)
    BY <1>3 DEF Settled
  <2>2. Settled(userForm.role)' <=> Settled(userForm.role)
    BY <1>3 DEF Settled
  <2>3. \A p \in userRequests' : Settled(p.role)' <=> Settled(p.role)
    BY <1>3 DEF Settled
  <2> HIDE DEF Settled
  <2> QED
    BY <1>2, <1>3, <2>2, <2>3 DEF UserInv, RolesStay
<1>6. OneUserRequest'
  <2> SUFFICES ASSUME userSeen' = {}
               PROVE  OneUserRequest'
    BY DEF OneUserRequest
  <2>1. userSeen = {} /\ userRequests' = {}
    BY <1>2 DEF UserInv, OneUserRequest
  <2>2. AsSubmitted' <=> AsSubmitted
    BY <1>2 DEF AsSubmitted, CarriesMethod
  <2>3. /\ q.kind = "save" /\ q.at = "done" => AsSubmitted
        /\ userForm.saved => AsSubmitted
    BY <2>1 DEF UserInv, OneUserRequest
  <2>4. userForm'.saved => AsSubmitted
    BY <1>3, <2>3
  <2> QED
    BY <2>1, <2>2, <2>4 DEF OneUserRequest
<1>7. ReasonsLeft'
  <2> SUFFICES ASSUME userSeen' = {}
               PROVE  ReasonsLeft'
    BY DEF ReasonsLeft
  <2>1. userSeen = {} /\ userRequests' = {} /\ userRequests = {q}
    BY <1>2 DEF UserInv, OneUserRequest
  <2>2. invitations + NewAddress <= reasons /\ NewAddress' = NewAddress
    BY <1>2, <1>3, <2>1 DEF UserInv, ReasonsLeft, NewAddress
  <2>3. invitations + Wish' <= reasons
    <3>1. CASE /\ q.at = "done" /\ q.kind = "save" /\ userForm'.id /\ ~userForm'.resendInvitation
               /\ userForm'.originalEmail = userSubmitted.email
      <4>1. Wish' = NewAddress
        BY <1>3, <3>1 DEF Wish, NewAddress, sendInvitation
      <4> QED
        BY <2>2, <4>1
    <3>2. CASE UNCHANGED <<userForm.saved, userForm.resendInvitation, userForm.originalEmail, userForm.id>>
               /\ (q.kind # "save" \/ q.at = "refused")
      <4>1. Wish' = Wish
        BY <1>3, <3>2 DEF Wish, sendInvitation
      <4>2. ~(q.at = "done" /\ q.carried = "invitation")
        BY <1>1, <3>2 DEF Factors
      <4> QED
        BY <2>1, <4>1, <4>2 DEF UserInv, ReasonsLeft
    <3> QED
      BY <1>3, <3>1, <3>2
  <2> HIDE DEF Wish, NewAddress
  <2> QED
    BY <1>2, <2>1, <2>2, <2>3 DEF ReasonsLeft
<1> QED
  BY <1>4, <1>5, <1>6, <1>7 DEF UserInv

LEMMA UserGoesOn ==
    ASSUME UserInv, [UserEditorNext]_userVars
    PROVE  UserInv'
BY UserEditsKeep, UserSubmitKeeps, UserAsksMoreKeep, UserServedKeeps, UserAnsweredKeeps DEF UserEditorNext

LEMMA UserInvHolds == UserEditorSpec => []UserInv
<1>1. UserEditorInit => UserInv
  BY UserBegins
<1>2. UserInv /\ [UserEditorNext]_userVars => UserInv'
  BY UserGoesOn
<1> QED
  BY <1>1, <1>2, PTL DEF UserEditorSpec

\* Whatever the administrator edits and sends of a user, whatever the server refuses, and
\* whether the invitation of a user it has written fails: a form whose requests neither
\* overlapped nor were lost is stored as it was sent when the page says "saved", and there is
\* never an invitation without a reason of its own, sent again after a failure or not (a mail
\* that went out although it was reported as failed being a reason).
THEOREM UserIsKept == UserEditorSpec => []UserIsAsSaved
<1>1. UserInv => UserIsAsSaved
  BY UserPromise
<1> QED
  BY <1>1, UserInvHolds, PTL
-----------------------------------------------------------------------------
(* The cache of the settings                                               *)
\* What nobody has overtaken is what the table has.
FreshIsStored == \A r \in Accesses : NotAtWork(r) \/ access[r].late \/ access[r].value = settingRow

CacheInv == CacheTypeOK /\ FreshIsStored /\ CacheIsExplained

Accessing == [kind : {"get", "set"}, value : SettingValues, late : BOOLEAN]

LEMMA AccessTypes ==
    ASSUME CacheTypeOK, NEW r \in Accesses
    PROVE  /\ NotAtWork(r) => access[r].kind = "none"
           /\ ~NotAtWork(r) => access[r] \in Accessing
BY DEF CacheTypeOK, Accessing, NotAtWork, NoAccess

\* Every other request learns that it is late, and none forgets what it does.
LEMMA OvertakenAreLate ==
    ASSUME CacheTypeOK, NEW r \in Accesses
    PROVE  /\ Overtaken[r] \in {NoAccess} \cup Accessing
           /\ Overtaken[r] = NoAccess \/ Overtaken[r].late
BY AccessTypes DEF Overtaken, Accessing, NotAtWork

LEMMA CacheTypeStep == CacheTypeOK /\ [CacheNext]_cacheVars => CacheTypeOK'
<1> SUFFICES ASSUME CacheTypeOK, [CacheNext]_cacheVars PROVE CacheTypeOK'
  OBVIOUS
<1> USE SettingsCacheAssumption DEF CacheTypeOK
<1>1. ASSUME NEW r \in Accesses, GetUncached(r) \/ GetAll(r) PROVE CacheTypeOK'
  <2>1. Access("get", settingRow) \in Accessing
    BY <1>1 DEF GetUncached, GetAll, Reads, Access, Accessing
  <2>2. access' \in [Accesses -> {NoAccess} \cup Accessing]
    BY <1>1, <2>1 DEF GetUncached, GetAll, Reads, Accessing
  <2> QED
    BY <1>1, <2>2 DEF GetUncached, GetAll, Reads, Accessing
<1>2. ASSUME NEW r \in Accesses, NEW value \in SettingValues, Set(r, value) PROVE CacheTypeOK'
  <2>1. access' \in [Accesses -> {NoAccess} \cup Accessing]
    <3>1. Overtaken \in [Accesses -> {NoAccess} \cup Accessing]
      BY OvertakenAreLate DEF Overtaken
    <3>2. Access("set", value) \in Accessing
      BY DEF Access, Accessing
    <3> QED
      BY <1>2, <3>1, <3>2 DEF Set
  <2> QED
    BY <1>2, <2>1 DEF Set, Change, Accessing
<1>3. ASSUME NEW r \in Accesses, CacheSet(r) \/ CacheSetFails(r) PROVE CacheTypeOK'
  <2>1. access[r] \in Accessing
    BY <1>3, AccessTypes DEF CacheSet, CacheSetFails
  <2>2. access' \in [Accesses -> {NoAccess} \cup Accessing]
    BY <1>3 DEF CacheSet, CacheSetFails, AccessEnds, Accessing
  <2>3. Cached(access[r].value) \in [value : SettingValues, left : 1 .. CacheMinutes]
    BY <2>1 DEF Cached, Accessing
  <2>4. cacheEntry' \in [value : SettingValues, left : 1 .. CacheMinutes] \cup {Uncached}
    BY <1>3, <2>3 DEF CacheSet, CacheSetFails
  <2>5. access[r].late \in BOOLEAN
    BY <2>1 DEF Accessing
  <2>6. crossed' \in BOOLEAN
    BY <1>3, <2>5 DEF CacheSet, CacheSetFails
  <2>7. UNCHANGED <<settingRow, rowWrites>>
    BY <1>3 DEF CacheSet, CacheSetFails
  <2> QED
    BY <2>2, <2>4, <2>6, <2>7 DEF Accessing
<1>4. CASE DeleteAll
  <2>1. access' \in [Accesses -> {NoAccess} \cup Accessing]
    BY <1>4, OvertakenAreLate DEF DeleteAll, Overtaken
  <2> QED
    BY <1>4, <2>1 DEF DeleteAll, Change, Accessing
<1>5. CASE CacheTick \/ Evict
  BY <1>5 DEF CacheTick, Evict
<1>6. CASE StopServer
  BY <1>6 DEF StopServer
<1>7. CASE UNCHANGED cacheVars
  BY <1>7 DEF cacheVars
<1> QED
  BY <1>1, <1>2, <1>3, <1>4, <1>5, <1>6, <1>7 DEF CacheNext

LEMMA CacheInvStep == CacheInv /\ [CacheNext]_cacheVars => CacheInv'
<1> SUFFICES ASSUME CacheInv, [CacheNext]_cacheVars PROVE (FreshIsStored /\ CacheIsExplained)'
  BY CacheTypeStep DEF CacheInv
<1> USE DEF CacheInv, FreshIsStored, CacheIsExplained
<1>0. access = [r \in Accesses |-> access[r]]
  BY DEF CacheTypeOK
<1>1. ASSUME NEW r \in Accesses, GetUncached(r) \/ GetAll(r)
      PROVE  (FreshIsStored /\ CacheIsExplained)'
  <2>1. /\ access[r].kind = "none" /\ access' = [access EXCEPT ![r] = Access("get", settingRow)]
        /\ UNCHANGED <<settingRow, cacheEntry, crossed>>
    BY <1>1, AccessTypes DEF GetUncached, GetAll, Reads
  <2>2. \A q \in Accesses \ {r} : access'[q] = access[q]
    BY <1>0, <2>1
  <2>3. access'[r].value = settingRow
    BY <1>0, <2>1 DEF Access
  <2> QED
    BY <2>1, <2>2, <2>3 DEF NotAtWork
<1>2. ASSUME NEW r \in Accesses, NEW value \in SettingValues, Set(r, value)
      PROVE  (FreshIsStored /\ CacheIsExplained)'
  <2>1. access' = [Overtaken EXCEPT ![r] = Access("set", value)] /\ settingRow' = value
    BY <1>2 DEF Set, Change
  <2>2. access'[r].kind = "set" /\ access'[r].value = settingRow'
    BY <2>1 DEF Overtaken, Access
  <2>3. \A q \in Accesses \ {r} : access'[q] = Overtaken[q]
    BY <2>1 DEF Overtaken
  <2>4. FreshIsStored'
    BY <2>2, <2>3, OvertakenAreLate DEF NotAtWork
  <2> QED
    BY <2>2, <2>4
<1>3. ASSUME NEW r \in Accesses, CacheSet(r) PROVE (FreshIsStored /\ CacheIsExplained)'
  <2>1. /\ cacheEntry'.value = access[r].value /\ crossed' = access[r].late
        /\ ~NotAtWork(r) /\ UNCHANGED settingRow
        /\ access' = [access EXCEPT ![r] = NoAccess]
    BY <1>3 DEF CacheSet, Cached, AccessEnds
  <2>2. FreshIsStored'
    BY <1>0, <2>1 DEF NotAtWork
  <2>3. cacheEntry'.value = settingRow' \/ crossed'
    BY <2>1
  <2> QED
    BY <2>2, <2>3
<1>4. ASSUME NEW r \in Accesses, CacheSetFails(r) PROVE (FreshIsStored /\ CacheIsExplained)'
  <2>1. /\ UNCHANGED <<settingRow, cacheEntry>>
        /\ crossed' = (crossed \/ access[r].kind = "set")
        /\ access' = [access EXCEPT ![r] = NoAccess]
    BY <1>4 DEF CacheSetFails, AccessEnds
  <2>2. FreshIsStored'
    BY <1>0, <2>1 DEF NotAtWork
  <2>3. \A q \in Accesses : access[q].kind = "set" => crossed' \/ access'[q].kind = "set"
    BY <1>0, <2>1
  <2> QED
    BY <2>1, <2>2, <2>3
<1>5. CASE DeleteAll
  <2>1. access' = Overtaken /\ crossed'
    BY <1>5 DEF DeleteAll
  <2>2. FreshIsStored'
    BY <2>1, OvertakenAreLate DEF NotAtWork
  <2> QED
    BY <2>1, <2>2
<1>6. CASE CacheTick \/ Evict
  <2>1. UNCHANGED <<settingRow, access, crossed>>
    BY <1>6 DEF CacheTick, Evict
  <2>2. cacheEntry' = Uncached \/ (cacheEntry # Uncached /\ cacheEntry'.value = cacheEntry.value)
    BY <1>6 DEF CacheTick, Evict, CacheTypeOK
  <2> QED
    BY <2>1, <2>2 DEF NotAtWork
<1>7. CASE StopServer
  <2>1. FreshIsStored'
    BY <1>7 DEF StopServer, NotAtWork
  <2>2. CacheIsExplained'
    BY <1>7 DEF StopServer
  <2> QED
    BY <2>1, <2>2
<1>8. CASE UNCHANGED cacheVars
  BY <1>8 DEF cacheVars, NotAtWork
<1> QED
  BY <1>1, <1>2, <1>3, <1>4, <1>5, <1>6, <1>7, <1>8 DEF CacheNext

LEMMA CacheBegins ==
    ASSUME CacheInit
    PROVE  CacheInv
<1>1. CacheTypeOK
  <2>1. access \in [Accesses -> {NoAccess} \cup Accessing]
    BY DEF CacheInit
  <2>2. rowWrites \in 0 .. MaxWrites
    BY SettingsCacheAssumption DEF CacheInit
  <2>3. settingRow \in SettingValues /\ cacheEntry = Uncached /\ crossed \in BOOLEAN
    BY DEF CacheInit
  <2> QED
    BY <2>1, <2>2, <2>3 DEF CacheTypeOK, Accessing
<1>2. FreshIsStored /\ CacheIsExplained
  BY DEF CacheInit, FreshIsStored, CacheIsExplained, NotAtWork
<1> QED
  BY <1>1, <1>2 DEF CacheInv

\* What the cache serves is what the table has, or one of the named ways has led past it: for
\* any number of requests that read and write the setting, whatever calls of the cache fail and
\* whenever the server stops.
THEOREM CacheExplained == CacheSpec => []CacheIsExplained
<1>1. CacheInit => CacheInv
  BY CacheBegins
<1>2. CacheInv => CacheIsExplained
  BY DEF CacheInv
<1> QED
  BY <1>1, <1>2, CacheInvStep, PTL DEF CacheSpec
-----------------------------------------------------------------------------
(* The editor of an area                                                   *)
\* An id names one seat, wherever it is on its way.
Carries(id, key) ==
    \/ \E r \in stored.rows \cup reload.rows : r.id = id /\ r.key = key
    \/ \E s \in bulk.updates : s.id = id /\ s.key = key
    \/ \E i \in DOMAIN editor.seats : editor.seats[i].id = id /\ editor.seats[i].key = key

\* A save that may still create seats has no ids out yet.
MayCreate == chain = "entity" \/ (chain = "bulk" /\ ~bulk.done)
Used(id) == id[1] <= saves /\ (id[1] = saves => ~MayCreate)
IdsKnown ==
    /\ \A id \in Ids : \A k, l \in 0 .. MaxEdits : Carries(id, k) /\ Carries(id, l) => k = l
    /\ \A id \in Ids : \A k \in 0 .. MaxEdits : Carries(id, k) => Used(id)
    /\ \A id \in editor.deleteIds : Used(id)

\* What every save and load finds.
SavesCounted ==
    /\ IsFiniteSet(stored.rows) /\ IsFiniteSet(reload.rows) /\ IsFiniteSet(bulk.creates)
    /\ \A c, d \in bulk.creates : c.place = d.place => c = d
    /\ chain # "none" => saves > 0
    /\ editor.loading => chain = "none" /\ reload.at = "none" /\ editor.deleteIds = {}

\* A seat of the page is in the table as it is shown: in the row with its id, or, if the page
\* has not been told its id, in one that the page does not know.
ShownId(id) == id \in editor.deleteIds \/ \E i \in DOMAIN editor.seats : editor.seats[i].id = id
IsRowOf(s, r) == /\ r.key = s.key /\ r.rev = s.rev
                 /\ r.details = s.details \/ s.astray
                 /\ s.id # NoId => r.id = s.id
                 /\ s.id = NoId => ~ShownId(r.id)
IsStored(s) == \E r \in stored.rows : IsRowOf(s, r)

SeatsDiffer ==
    /\ \A i, j \in DOMAIN editor.seats :
          editor.seats[i].id = editor.seats[j].id => editor.seats[i].id = NoId \/ i = j
    /\ \A r, q \in stored.rows : r.id = q.id => r = q
SeatsHaveRows ==
    \A i \in DOMAIN editor.seats :
        /\ editor.seats[i].id \notin editor.deleteIds
        /\ editor.seats[i].id # NoId => \E r \in stored.rows : r.id = editor.seats[i].id
Sent == chain = "bulk" /\ bulk.done
SeatsStored ==
    \A i \in DOMAIN editor.seats : ~editor.seats[i].changed \/ Sent => IsStored(editor.seats[i])

\* The bulk request is what the page shows, and when the picture is stored and the area loaded
\* again nothing is left to be saved.
SaveIsOfThePage ==
    /\ chain = "bulk" => /\ bulk.creates = Creates /\ bulk.updates = Updates
                         /\ bulk.deletes = editor.deleteIds
    /\ chain = "map" \/ reload.at # "none" => ChangedSeats = {} /\ editor.deleteIds = {}
    /\ reload.at # "none" => chain # "bulk"
    /\ reload.at = "read" => reload.rows = stored.rows

\* Nothing excuses that a seat is not stored.
Forgiven == past.touched \/ past.refused \/ stored.gone
SeatsTracked == ~Forgiven => SeatsDiffer /\ SeatsHaveRows /\ SeatsStored /\ SaveIsOfThePage

\* The one value that is on its way is the one that will stay.
AttributeWaits ==
    past.expected # "any" =>
        /\ \A w \in writes : w.value = past.expected
        /\ writes = {} => stored.gone \/ stored.value = past.expected
AreaCounted == ~past.lost => stored.areas <= 1 /\ (editor.id = NoId => stored.areas = 0)

EditorInv == /\ EditorTypeOK /\ SavesCounted /\ IdsKnown /\ SeatsTracked
             /\ AttributeWaits /\ AreaCounted

-----------------------------------------------------------------------------
LEMMA EditorPromise ==
    ASSUME EditorInv
    PROVE  EditorKeepsTrack
<1> USE EditorAssumption DEF EditorInv, EditorTypeOK
<1>1. IdsAreTheirs
  <2> SUFFICES ASSUME NEW i \in DOMAIN editor.seats, NEW r \in stored.rows,
                      editor.seats[i].id = r.id
               PROVE  editor.seats[i].key = r.key
    BY DEF IdsAreTheirs
  <2>1. r \in Rows /\ editor.seats[i] \in Seats
    OBVIOUS
  <2>2. r.id \in Ids /\ r.key \in 0 .. MaxEdits /\ editor.seats[i].key \in 0 .. MaxEdits
    BY <2>1 DEF Rows, Seats
  <2>3. Carries(r.id, r.key) /\ Carries(r.id, editor.seats[i].key)
    BY DEF Carries
  <2> QED
    BY <2>2, <2>3 DEF IdsKnown
<1>2. NothingForgotten
  BY DEF SeatsTracked, Forgiven, SeatsStored, IsStored, IsRowOf, NothingForgotten
<1>3. OneArea
  BY DEF AreaCounted, OneArea
<1>4. AttributeStays
  BY DEF AttributeWaits, AttributeStays
<1> QED
  BY <1>1, <1>2, <1>3, <1>4 DEF EditorKeepsTrack

LEMMA EditorInitInv == EditorInit => EditorInv
<1> SUFFICES ASSUME EditorInit PROVE EditorInv
  OBVIOUS
<1> USE EditorAssumption DEF EditorInit
<1>1. PICK id \in {0, NoId} :
         editor = [id |-> id, loading |-> TRUE, seats |-> <<>>, deleteIds |-> {},
                   file |-> FALSE, scaled |-> FALSE, submitting |-> FALSE, saved |-> FALSE,
                   errorSaving |-> FALSE, value |-> NoId, valueDeleted |-> FALSE,
                   left |-> FALSE]
  OBVIOUS
<1>2. stored.rows \in {{}, {[id |-> <<0, 1>>, key |-> 0, rev |-> 0, details |-> 0]}}
  BY <1>1
<1>3. \A r \in stored.rows : r = [id |-> <<0, 1>>, key |-> 0, rev |-> 0, details |-> 0]
  BY <1>2
<1>4. <<0, 1>> \in Ids
  BY DEF Ids
<1>5. stored.rows \subseteq Rows
  BY <1>3, <1>4 DEF Rows
<1>6. EditorTypeOK
  <2>1. <<>> \in Seq(Seats)
    OBVIOUS
  <2>2. editor \in [id : Nat \cup {NoId}, loading : BOOLEAN, seats : Seq(Seats),
                   deleteIds : SUBSET Ids, file : BOOLEAN, scaled : BOOLEAN,
                   submitting : BOOLEAN, saved : BOOLEAN, errorSaving : BOOLEAN,
                   value : Values \cup {NoId}, valueDeleted : BOOLEAN, left : BOOLEAN]
    BY <1>1, <2>1
  <2>3. stored \in [areas : Nat, value : Values \cup {NoId}, gone : BOOLEAN, rows : SUBSET Rows]
    BY <1>5
  <2> QED
    BY <2>2, <2>3 DEF EditorTypeOK, NoBulk, NoReload
<1>7. SavesCounted
  BY <1>1, <1>2, FS_EmptySet, FS_Singleton DEF SavesCounted, NoBulk, NoReload
<1>8. \A i, k : Carries(i, k) => i = <<0, 1>> /\ k = 0
  BY <1>1, <1>3 DEF Carries, NoBulk, NoReload
<1>9. IdsKnown
  BY <1>1, <1>8 DEF IdsKnown, Used, MayCreate
<1>10. SeatsTracked
  BY <1>1, <1>3 DEF SeatsTracked, SeatsDiffer, SeatsHaveRows, SeatsStored, SaveIsOfThePage, NoReload, ChangedSeats
<1> QED
  BY <1>1, <1>6, <1>7, <1>9, <1>10 DEF EditorInv, AttributeWaits, AreaCounted

-----------------------------------------------------------------------------
(* The lists of seats.                                                     *)
LEMMA Appended ==
    ASSUME NEW S, NEW x \in Seq(S), NEW y \in Seq(S)
    PROVE  /\ x \o y \in Seq(S) /\ Len(x \o y) = Len(x) + Len(y)
           /\ \A j \in 1 .. Len(x) + Len(y) :
                 (x \o y)[j] = IF j <= Len(x) THEN x[j] ELSE y[j - Len(x)]
OBVIOUS

LEMMA SeatsWithout ==
    ASSUME NEW s \in Seq(Seats), NEW i \in DOMAIN s
    PROVE  /\ Without(s, i) \in Seq(Seats)
           /\ Len(Without(s, i)) = Len(s) - 1
           /\ \A j \in DOMAIN Without(s, i) :
                 Without(s, i)[j] = IF j < i THEN s[j] ELSE s[j + 1]
<1> DEFINE a == SubSeq(s, 1, i - 1)
           b == SubSeq(s, i + 1, Len(s))
<1>1. i \in 1 .. Len(s) /\ Len(s) \in Nat
  OBVIOUS
<1>2. a \in Seq(Seats) /\ Len(a) = i - 1 /\ \A j \in 1 .. (i - 1) : a[j] = s[j]
  BY <1>1
<1>3. b \in Seq(Seats) /\ Len(b) = Len(s) - i /\ \A j \in 1 .. (Len(s) - i) : b[j] = s[i + j]
  BY <1>1
<1> HIDE DEF a, b
<1>4. /\ a \o b \in Seq(Seats) /\ Len(a \o b) = Len(s) - 1
      /\ \A j \in 1 .. Len(s) - 1 : (a \o b)[j] = IF j < i THEN s[j] ELSE s[j + 1]
  <2>1. /\ a \o b \in Seq(Seats) /\ Len(a \o b) = Len(a) + Len(b)
        /\ \A j \in 1 .. Len(a) + Len(b) :
              (a \o b)[j] = IF j <= Len(a) THEN a[j] ELSE b[j - Len(a)]
    BY <1>2, <1>3, Appended
  <2>2. Len(a) + Len(b) = Len(s) - 1
    BY <1>1, <1>2, <1>3
  <2>3. ASSUME NEW j \in 1 .. Len(s) - 1
        PROVE  (a \o b)[j] = IF j < i THEN s[j] ELSE s[j + 1]
    <3>1. CASE j < i
      BY <1>1, <1>2, <2>1, <2>2, <3>1
    <3>2. CASE ~(j < i)
      <4>1. j - Len(a) \in 1 .. (Len(s) - i) /\ i + (j - Len(a)) = j + 1
        <5>1. Len(a) = i - 1 /\ i \in Int /\ j \in Int /\ Len(s) \in Int
          BY <1>1, <1>2
        <5>2. j >= i /\ j <= Len(s) - 1
          BY <3>2, <5>1
        <5> HIDE DEF a
        <5> QED
          BY <5>1, <5>2
      <4>2. (a \o b)[j] = b[j - Len(a)]
        BY <1>1, <1>2, <2>1, <2>2, <3>2
      <4>3. b[j - Len(a)] = s[i + (j - Len(a))]
        BY <1>3, <4>1
      <4> QED
        BY <3>2, <4>1, <4>2, <4>3
    <3> QED
      BY <3>1, <3>2
  <2> QED
    BY <2>1, <2>2, <2>3
<1>5. Without(s, i) = a \o b
  BY DEF Without, a, b
<1>6. DOMAIN (a \o b) = 1 .. Len(s) - 1
  BY <1>4
<1> QED
  BY <1>4, <1>5, <1>6

\* What is left are the seats but the i-th, each once.
LEMMA WithoutLeaves ==
    ASSUME NEW s \in Seq(Seats), NEW i \in DOMAIN s
    PROVE  /\ \A j \in DOMAIN Without(s, i) : \E k \in DOMAIN s \ {i} : Without(s, i)[j] = s[k]
           /\ \A j, l \in DOMAIN Without(s, i) : j # l =>
                 \E k, m \in DOMAIN s \ {i} : k # m /\ Without(s, i)[j] = s[k] /\ Without(s, i)[l] = s[m]
<1> DEFINE t == Without(s, i)
           Place(j) == IF j < i THEN j ELSE j + 1
<1>1. /\ t \in Seq(Seats) /\ Len(t) = Len(s) - 1
      /\ \A j \in DOMAIN t : t[j] = IF j < i THEN s[j] ELSE s[j + 1]
  BY SeatsWithout
<1> HIDE DEF t
<1>2. \A j \in DOMAIN t : Place(j) \in DOMAIN s \ {i} /\ t[j] = s[Place(j)]
  BY <1>1
<1>3. \A j, l \in DOMAIN t : j # l => Place(j) # Place(l)
  BY <1>1
<1>4. \A j \in DOMAIN t : \E k \in DOMAIN s \ {i} : t[j] = s[k]
  BY <1>2
<1>5. \A j, l \in DOMAIN t : j # l =>
         \E k, m \in DOMAIN s \ {i} : k # m /\ t[j] = s[k] /\ t[l] = s[m]
  BY <1>2, <1>3
<1> QED
  BY <1>4, <1>5 DEF t

\* The seats of a table: each row is one of them.
LEMMA SeatsOfRows ==
    ASSUME NEW rows \in SUBSET Rows, IsFiniteSet(rows), NEW s \in SeatsOf(rows)
    PROVE  /\ s \in Seq(Seats)
           /\ \A i \in DOMAIN s : \E r \in rows : s[i] = newSpaceState(r)
           /\ (\A r, q \in rows : r.id = q.id => r = q) =>
                 \A i, j \in DOMAIN s : s[i].id = s[j].id => i = j
<1> DEFINE n == Cardinality(rows)
           T == {newSpaceState(r) : r \in rows}
<1>1. n \in Nat
  BY FS_CardinalityType
<1>2. s \in [1 .. n -> T] /\ \A r \in rows : \E i \in DOMAIN s : s[i] = newSpaceState(r)
  BY DEF SeatsOf
<1>3. T \subseteq Seats
  <2> SUFFICES ASSUME NEW r \in rows PROVE newSpaceState(r) \in Seats
    OBVIOUS
  <2>1. /\ r.id \in Ids /\ r.key \in 0 .. MaxEdits /\ r.rev \in 0 .. MaxEdits
        /\ r.details \in 0 .. MaxEdits
    BY DEF Rows
  <2>2. r.id \in Nat \X Nat
    BY <2>1, EditorAssumption DEF Ids
  <2> QED
    BY <2>1, <2>2 DEF newSpaceState, Seat, Seats
<1>4. s \in Seq(Seats)
  BY <1>1, <1>2, <1>3
<1>5. \A i \in DOMAIN s : \E r \in rows : s[i] = newSpaceState(r)
  BY <1>2
<1>6. ASSUME \A r, q \in rows : r.id = q.id => r = q
      PROVE  \A i, j \in DOMAIN s : s[i].id = s[j].id => i = j
  <2>1. [r \in rows |-> newSpaceState(r)] \in Injection(rows, T)
    BY <1>6 DEF Injection, IsInjective, newSpaceState, Seat
  <2>2. [r \in rows |-> newSpaceState(r)] \in Surjection(rows, T)
    BY DEF Surjection
  <2>3. IsFiniteSet(T) /\ Cardinality(T) = n
    BY <2>1, <2>2, FS_Surjection DEF Bijection
  <2>4. s \in Surjection(1 .. n, T)
    BY <1>2 DEF Surjection
  <2>5. IsFiniteSet(1 .. n) /\ Cardinality(1 .. n) = n
    BY <1>1, FS_Interval
  <2> HIDE DEF n, T
  <2>6. s \in Injection(1 .. n, T)
    BY <2>3, <2>4, <2>5, FS_SurjSameCardinalityImpliesInj
  <2>7. \A i, j \in DOMAIN s : s[i] = s[j] => i = j
    BY <1>2, <2>6 DEF Injection, IsInjective
  <2>8. ASSUME NEW i \in DOMAIN s, NEW j \in DOMAIN s, s[i].id = s[j].id
        PROVE  s[i] = s[j]
    <3>1. PICK r \in rows, q \in rows : s[i] = newSpaceState(r) /\ s[j] = newSpaceState(q)
      BY <1>5
    <3>2. r = q
      BY <1>6, <2>8, <3>1 DEF newSpaceState, Seat
    <3> QED
      BY <3>1, <3>2
  <2>9. \A i, j \in DOMAIN s : s[i].id = s[j].id => s[i] = s[j]
    BY <2>8
  <2> QED
    BY <2>7, <2>9
<1> QED
  BY <1>4, <1>5, <1>6

-----------------------------------------------------------------------------
(* What the administrator does to the list.                                *)

\* A seat that was on the list, as it was, or marked as changed, or with attributes that have
\* been changed as those of another seat.
Kept(t, s) == /\ t.id = s.id /\ t.key = s.key
              /\ t.changed \/ t = s \/ (~s.changed /\ t.rev = s.rev /\ t.astray)
IsNew(t) == t.id = NoId /\ t.changed

\* Each seat is a new one or was on the list, and what is newly to be deleted is gone from it.
ListEdited ==
    /\ Editable /\ edits < MaxEdits /\ edits' = edits + 1
    /\ editor' = [editor EXCEPT !.seats = editor'.seats, !.deleteIds = editor'.deleteIds,
                                !.scaled = editor'.scaled]
    /\ editor'.seats \in Seq(Seats) /\ editor'.deleteIds \subseteq Ids /\ editor'.scaled \in BOOLEAN
    /\ past' = [past EXCEPT !.touched = past.touched \/ Busy]
    /\ \A j \in DOMAIN editor'.seats :
          IsNew(editor'.seats[j]) \/ \E k \in DOMAIN editor.seats : Kept(editor'.seats[j], editor.seats[k])
    /\ \A j, l \in DOMAIN editor'.seats : j # l =>
          \/ IsNew(editor'.seats[j]) \/ IsNew(editor'.seats[l])
          \/ \E k, m \in DOMAIN editor.seats :
                k # m /\ Kept(editor'.seats[j], editor.seats[k]) /\ Kept(editor'.seats[l], editor.seats[m])
    /\ \A id \in editor'.deleteIds : id \in editor.deleteIds \/
          \E k \in DOMAIN editor.seats :
             /\ id = editor.seats[k].id
             /\ \A j \in DOMAIN editor'.seats : \E m \in DOMAIN editor.seats \ {k} :
                   Kept(editor'.seats[j], editor.seats[m])
    /\ UNCHANGED <<stored, chain, bulk, reload, writes, saves>>

LEMMA EditedSeat ==
    ASSUME EditorInv, edits < MaxEdits
    PROVE  /\ \A details \in 0 .. MaxEdits, map \in Nat \X Nat :
                 New(details, map) \in Seats /\ IsNew(New(details, map))
           /\ <<edits + 1, 0>> \in Nat \X Nat
           /\ \A s \in Seats :
                 /\ Touched(s) \in Seats /\ Kept(Touched(s), s) /\ Kept(s, s)
                 /\ Detailed(s) \in Seats /\ Kept(Detailed(s), s)
                 /\ Kept(Detailed(Touched(s)), s)
<1> USE DEF EditorInv, EditorTypeOK, Seats
<1>1. MaxEdits \in Nat /\ edits + 1 \in 0 .. MaxEdits
  BY EditorAssumption
<1>2. \A details \in 0 .. MaxEdits, map \in Nat \X Nat :
         New(details, map) \in Seats /\ IsNew(New(details, map))
  BY <1>1 DEF New, Seat, IsNew
<1>3. \A s \in Seats : Touched(s) \in Seats /\ Kept(Touched(s), s) /\ Kept(s, s)
  BY <1>1 DEF Touched, Kept
<1>4. \A s \in Seats : Detailed(s) \in Seats /\ Kept(Detailed(s), s)
  BY <1>1 DEF Detailed, Kept
<1>5. ASSUME NEW s \in Seats PROVE Kept(Detailed(Touched(s)), s)
  <2>1. Touched(s) \in Seats /\ Touched(s).changed /\ Touched(s).id = s.id /\ Touched(s).key = s.key
    BY <1>3 DEF Touched
  <2>2. \A u \in Seats : /\ Detailed(u).changed = u.changed
                        /\ Detailed(u).id = u.id /\ Detailed(u).key = u.key
    BY DEF Detailed
  <2> QED
    BY <2>1, <2>2 DEF Kept
<1>6. <<edits + 1, 0>> \in Nat \X Nat
  BY <1>1
<1> HIDE DEF EditorInv, EditorTypeOK, Seats
<1> QED
  BY <1>2, <1>3, <1>4, <1>5, <1>6, Zenon

\* What the editing of the list has in common.
LEMMA ChangesEdit ==
    ASSUME EditorInv, NEW ss \in Seq(Seats), NEW ds \in SUBSET Ids, Changes(ss, ds),
           \A j \in DOMAIN ss : IsNew(ss[j]) \/ \E k \in DOMAIN editor.seats : Kept(ss[j], editor.seats[k]),
           \A j, l \in DOMAIN ss : j # l =>
               \/ IsNew(ss[j]) \/ IsNew(ss[l])
               \/ \E k, m \in DOMAIN editor.seats :
                     k # m /\ Kept(ss[j], editor.seats[k]) /\ Kept(ss[l], editor.seats[m]),
           \A id \in ds : id \in editor.deleteIds \/
               \E k \in DOMAIN editor.seats :
                  /\ id = editor.seats[k].id
                  /\ \A j \in DOMAIN ss : \E m \in DOMAIN editor.seats \ {k} : Kept(ss[j], editor.seats[m])
    PROVE  ListEdited
<1> USE DEF EditorInv, EditorTypeOK, Changes
<1>1. editor'.seats = ss /\ editor'.deleteIds = ds /\ editor'.scaled = editor.scaled
  OBVIOUS
<1>2. editor' = [editor EXCEPT !.seats = editor'.seats, !.deleteIds = editor'.deleteIds,
                               !.scaled = editor'.scaled]
  BY <1>1
<1>3. editor'.scaled \in BOOLEAN
  BY <1>1
<1> QED
  BY <1>1, <1>2, <1>3 DEF ListEdited

LEMMA AppendEdits ==
    ASSUME EditorInv, NEW details \in 0 .. MaxEdits, NEW map \in Nat \X Nat,
           Changes(Append(editor.seats, New(details, map)), editor.deleteIds)
    PROVE  ListEdited
<1> DEFINE s == editor.seats
           n == New(details, map)
           t == Append(s, n)
<1>1. edits < MaxEdits
  BY DEF Changes
<1>2. s \in Seq(Seats) /\ editor.deleteIds \in SUBSET Ids
  BY DEF EditorInv, EditorTypeOK
<1>3. n \in Seats /\ IsNew(n) /\ \A e \in Seats : Kept(e, e)
  BY <1>1, EditedSeat
<1>4. Changes(t, editor.deleteIds)
  OBVIOUS
<1>5. t \in Seq(Seats) /\ \A j \in DOMAIN t : t[j] = n \/ (j \in DOMAIN s /\ t[j] = s[j])
  BY <1>2, <1>3
<1> HIDE DEF t, n
<1>6. \A j \in DOMAIN t : IsNew(t[j]) \/ (j \in DOMAIN s /\ Kept(t[j], s[j]))
  BY <1>2, <1>3, <1>5
<1>7. /\ \A j \in DOMAIN t : IsNew(t[j]) \/ \E k \in DOMAIN s : Kept(t[j], s[k])
      /\ \A j, l \in DOMAIN t : j # l =>
            \/ IsNew(t[j]) \/ IsNew(t[l])
            \/ \E k, m \in DOMAIN s : k # m /\ Kept(t[j], s[k]) /\ Kept(t[l], s[m])
  BY <1>6
<1>8. \A id \in editor.deleteIds : id \in editor.deleteIds \/
         \E k \in DOMAIN editor.seats :
            /\ id = editor.seats[k].id
            /\ \A j \in DOMAIN t : \E m \in DOMAIN editor.seats \ {k} : Kept(t[j], editor.seats[m])
  OBVIOUS
<1> QED
  BY <1>2, <1>4, <1>5, <1>7, <1>8, ChangesEdit

LEMMA SetSpaceEdits ==
    ASSUME EditorInv, NEW i \in DOMAIN editor.seats, setSpace(i)
    PROVE  ListEdited
<1> DEFINE s == editor.seats
           t == [s EXCEPT ![i] = Touched(s[i])]
<1>1. edits < MaxEdits /\ Changes(t, editor.deleteIds)
  BY DEF setSpace, Changes
<1>2. s \in Seq(Seats) /\ editor.deleteIds \in SUBSET Ids
  BY DEF EditorInv, EditorTypeOK
<1>3. \A e \in Seats : Touched(e) \in Seats /\ Kept(Touched(e), e) /\ Kept(e, e)
  BY <1>1, EditedSeat
<1>4. t \in Seq(Seats) /\ DOMAIN t = DOMAIN s /\ \A j \in DOMAIN t : Kept(t[j], s[j])
  BY <1>2, <1>3
<1> HIDE DEF t
<1>5. /\ \A j \in DOMAIN t : IsNew(t[j]) \/ \E k \in DOMAIN s : Kept(t[j], s[k])
      /\ \A j, l \in DOMAIN t : j # l =>
            \/ IsNew(t[j]) \/ IsNew(t[l])
            \/ \E k, m \in DOMAIN s : k # m /\ Kept(t[j], s[k]) /\ Kept(t[l], s[m])
  BY <1>4
<1>6. \A id \in editor.deleteIds : id \in editor.deleteIds \/
         \E k \in DOMAIN editor.seats :
            /\ id = editor.seats[k].id
            /\ \A j \in DOMAIN t : \E m \in DOMAIN editor.seats \ {k} : Kept(t[j], editor.seats[m])
  OBVIOUS
<1> QED
  BY <1>1, <1>2, <1>4, <1>5, <1>6, ChangesEdit

LEMMA SetSpaceAttributeEdits ==
    ASSUME EditorInv, NEW i \in DOMAIN editor.seats, setSpaceAttribute(i)
    PROVE  ListEdited
<1> DEFINE s == editor.seats
           u == [s EXCEPT ![i] = Touched(s[i])]
           t == [j \in DOMAIN u |-> IF u[j].map = u[i].map THEN Detailed(u[j]) ELSE u[j]]
<1>1. edits < MaxEdits /\ Changes(t, editor.deleteIds)
  BY DEF setSpaceAttribute, Changes
<1>2. s \in Seq(Seats) /\ editor.deleteIds \in SUBSET Ids
  BY DEF EditorInv, EditorTypeOK
<1>3. \A e \in Seats : /\ Touched(e) \in Seats /\ Kept(Touched(e), e) /\ Kept(e, e)
                      /\ Detailed(e) \in Seats /\ Kept(Detailed(e), e)
                      /\ Kept(Detailed(Touched(e)), e)
  BY <1>1, EditedSeat
<1>4. u \in Seq(Seats) /\ DOMAIN u = DOMAIN s /\ \A j \in DOMAIN s : u[j] \in {s[j], Touched(s[j])}
  BY <1>2, <1>3
<1>5. \A j \in DOMAIN s : /\ Kept(u[j], s[j]) /\ Kept(Detailed(u[j]), s[j])
                         /\ u[j] \in Seats /\ Detailed(u[j]) \in Seats
  BY <1>2, <1>3, <1>4
<1> HIDE DEF u
<1>6. t \in Seq(Seats) /\ DOMAIN t = DOMAIN s /\ \A j \in DOMAIN t : Kept(t[j], s[j])
  BY <1>2, <1>4, <1>5
<1> HIDE DEF t
<1>7. /\ \A j \in DOMAIN t : IsNew(t[j]) \/ \E k \in DOMAIN s : Kept(t[j], s[k])
      /\ \A j, l \in DOMAIN t : j # l =>
            \/ IsNew(t[j]) \/ IsNew(t[l])
            \/ \E k, m \in DOMAIN s : k # m /\ Kept(t[j], s[k]) /\ Kept(t[l], s[m])
  BY <1>6
<1>8. \A id \in editor.deleteIds : id \in editor.deleteIds \/
         \E k \in DOMAIN editor.seats :
            /\ id = editor.seats[k].id
            /\ \A j \in DOMAIN t : \E m \in DOMAIN editor.seats \ {k} : Kept(t[j], editor.seats[m])
  OBVIOUS
<1> QED
  BY <1>1, <1>2, <1>6, <1>7, <1>8, ChangesEdit

LEMMA DeleteSpaceEdits ==
    ASSUME EditorInv, NEW i \in DOMAIN editor.seats, deleteSpace(i)
    PROVE  ListEdited
<1> DEFINE s == editor.seats
           t == Without(s, i)
           ds == editor.deleteIds \cup ({s[i].id} \ {NoId})
<1>1. edits < MaxEdits /\ Changes(t, ds)
  BY DEF deleteSpace, Changes
<1>2. s \in Seq(Seats) /\ editor.deleteIds \in SUBSET Ids
  BY DEF EditorInv, EditorTypeOK
<1>3. \A e \in Seats : Kept(e, e)
  BY <1>1, EditedSeat
<1>4. t \in Seq(Seats)
  BY <1>2, SeatsWithout
<1>5. ds \in SUBSET Ids
  <2>1. s[i] \in Seats
    BY <1>2
  <2> QED
    BY <1>2, <2>1 DEF Seats
<1>6. /\ \A j \in DOMAIN t : \E k \in DOMAIN s \ {i} : t[j] = s[k]
      /\ \A j, l \in DOMAIN t : j # l => \E k, m \in DOMAIN s \ {i} : k # m /\ t[j] = s[k] /\ t[l] = s[m]
  BY <1>2, WithoutLeaves
<1>7. \A k \in DOMAIN s : Kept(s[k], s[k])
  BY <1>2, <1>3
<1> HIDE DEF t
<1>8. /\ \A j \in DOMAIN t : IsNew(t[j]) \/ \E k \in DOMAIN s : Kept(t[j], s[k])
      /\ \A j, l \in DOMAIN t : j # l =>
            \/ IsNew(t[j]) \/ IsNew(t[l])
            \/ \E k, m \in DOMAIN s : k # m /\ Kept(t[j], s[k]) /\ Kept(t[l], s[m])
  <2>1. ASSUME NEW j \in DOMAIN t PROVE \E k \in DOMAIN s : Kept(t[j], s[k])
    BY <1>6, <1>7
  <2>2. ASSUME NEW j \in DOMAIN t, NEW l \in DOMAIN t, j # l
        PROVE  \E k, m \in DOMAIN s : k # m /\ Kept(t[j], s[k]) /\ Kept(t[l], s[m])
    <3>1. PICK k \in DOMAIN s \ {i}, m \in DOMAIN s \ {i} : k # m /\ t[j] = s[k] /\ t[l] = s[m]
      BY <1>6, <2>2
    <3>2. Kept(t[j], s[k]) /\ Kept(t[l], s[m])
      BY <1>7, <3>1
    <3> QED
      BY <3>1, <3>2
  <2> QED
    BY <2>1, <2>2
<1>9. \A id \in ds : id \in editor.deleteIds \/
         \E k \in DOMAIN editor.seats :
            /\ id = editor.seats[k].id
            /\ \A j \in DOMAIN t : \E m \in DOMAIN editor.seats \ {k} : Kept(t[j], editor.seats[m])
  <2>1. \A j \in DOMAIN t : \E m \in DOMAIN editor.seats \ {i} : Kept(t[j], editor.seats[m])
    BY <1>6, <1>7
  <2> QED
    BY <2>1
<1> HIDE DEF ds
<1> QED
  BY <1>1, <1>4, <1>5, <1>8, <1>9, ChangesEdit

LEMMA SetMapScaleEdits ==
    ASSUME EditorInv, setMapScale
    PROVE  ListEdited
<1> DEFINE s == editor.seats
           t == [j \in DOMAIN s |-> Touched(s[j])]
<1>1. edits < MaxEdits /\ edits' = edits + 1 /\ Editable
  BY DEF setMapScale
<1>2. s \in Seq(Seats) /\ editor.deleteIds \in SUBSET Ids
  BY DEF EditorInv, EditorTypeOK
<1>3. \A e \in Seats : Touched(e) \in Seats /\ Kept(Touched(e), e) /\ Kept(e, e)
  BY <1>1, EditedSeat
<1>4. t \in Seq(Seats) /\ DOMAIN t = DOMAIN s /\ \A j \in DOMAIN t : Kept(t[j], s[j])
  BY <1>2, <1>3
<1>5. editor' = [editor EXCEPT !.scaled = TRUE, !.seats = t]
  BY DEF setMapScale
<1> HIDE DEF t
<1>6. editor'.seats = t /\ editor'.deleteIds = editor.deleteIds /\ editor'.scaled = TRUE
  BY <1>5 DEF EditorInv, EditorTypeOK
<1>7. editor' = [editor EXCEPT !.seats = editor'.seats, !.deleteIds = editor'.deleteIds,
                               !.scaled = editor'.scaled]
  BY <1>5, <1>6 DEF EditorInv, EditorTypeOK
<1>8. past' = [past EXCEPT !.touched = past.touched \/ Busy]
      /\ UNCHANGED <<stored, chain, bulk, reload, writes, saves>>
  BY DEF setMapScale
<1>9. editor'.seats \in Seq(Seats) /\ editor'.deleteIds \subseteq Ids /\ editor'.scaled \in BOOLEAN
  BY <1>2, <1>4, <1>6
<1>10. /\ \A j \in DOMAIN t : IsNew(t[j]) \/ \E k \in DOMAIN s : Kept(t[j], s[k])
       /\ \A j, l \in DOMAIN t : j # l =>
             \/ IsNew(t[j]) \/ IsNew(t[l])
             \/ \E k, m \in DOMAIN s : k # m /\ Kept(t[j], s[k]) /\ Kept(t[l], s[m])
  BY <1>4
<1> QED
  BY <1>1, <1>6, <1>7, <1>8, <1>9, <1>10 DEF ListEdited

LEMMA ListActionsEdit ==
    ASSUME EditorInv, addRect \/ setMapScale \/
                      \E i \in DOMAIN editor.seats :
                          copySpace(i) \/ setSpace(i) \/ setSpaceAttribute(i) \/ deleteSpace(i)
    PROVE  ListEdited
<1>0. MaxEdits \in Nat /\ editor.seats \in Seq(Seats)
  BY EditorAssumption DEF EditorInv, EditorTypeOK
<1>1. CASE addRect
  <2>1. edits < MaxEdits /\ Changes(Append(editor.seats, New(0, <<edits + 1, 0>>)), editor.deleteIds)
    BY <1>1 DEF addRect, Changes
  <2>2. <<edits + 1, 0>> \in Nat \X Nat
    BY <2>1, EditedSeat
  <2> QED
    BY <1>0, <2>1, <2>2, AppendEdits
<1>2. ASSUME NEW i \in DOMAIN editor.seats, copySpace(i) PROVE ListEdited
  <2>1. editor.seats[i] \in Seats
    BY <1>0
  <2>2. editor.seats[i].details \in 0 .. MaxEdits /\ editor.seats[i].map \in Nat \X Nat
    BY <2>1 DEF Seats
  <2> QED
    BY <1>2, <2>2, AppendEdits DEF copySpace
<1> QED
  BY <1>1, <1>2, SetMapScaleEdits, SetSpaceEdits, SetSpaceAttributeEdits, DeleteSpaceEdits

-----------------------------------------------------------------------------
(* The types.                                                              *)
Editors == [id : Nat \cup {NoId}, loading : BOOLEAN, seats : Seq(Seats),
            deleteIds : SUBSET Ids, file : BOOLEAN, scaled : BOOLEAN,
            submitting : BOOLEAN, saved : BOOLEAN, errorSaving : BOOLEAN,
            value : Values \cup {NoId}, valueDeleted : BOOLEAN, left : BOOLEAN]
Servers == [areas : Nat, value : Values \cup {NoId}, gone : BOOLEAN, rows : SUBSET Rows]
Bulks == [creates : SUBSET NewSeats, updates : SUBSET Seats, deletes : SUBSET Ids,
          done : BOOLEAN, ids : SUBSET [place : Nat, id : Ids]]
Reloads == [at : {"none", "asked", "read"}, rows : SUBSET Rows]
AttributeWrites == [save : 1 .. MaxSaves, value : Values \cup {NoId}]
Pasts == [touched : BOOLEAN, refused : BOOLEAN, lost : BOOLEAN, uncaught : BOOLEAN,
          failed : SUBSET (1 .. MaxSaves), expected : Values \cup {NoId, "any"}]
EditorTyped ==
    /\ editor \in Editors /\ stored \in Servers
    /\ chain \in {"none", "entity", "bulk", "map"} /\ bulk \in Bulks /\ reload \in Reloads
    /\ writes \subseteq AttributeWrites /\ edits \in 0 .. MaxEdits /\ saves \in 0 .. MaxSaves
    /\ past \in Pasts

LEMMA TypedEditor == (EditorTypeOK <=> EditorTyped) /\ (EditorTypeOK' <=> EditorTyped')
BY DEF EditorTypeOK, EditorTyped, Editors, Servers, Bulks, Reloads, AttributeWrites, Pasts

LEMMA NothingSent == NoBulk \in Bulks /\ NoReload \in Reloads
BY DEF NoBulk, NoReload, Bulks, Reloads

LEMMA BulkTypes ==
    ASSUME EditorInv
    PROVE  /\ Creates \subseteq NewSeats /\ IsFiniteSet(Creates)
           /\ \A c, d \in Creates : c.place = d.place => c = d
           /\ Updates \subseteq Seats
<1> DEFINE s == editor.seats
           P == {j \in ChangedSeats : s[j].id = NoId}
<1>1. s \in Seq(Seats) /\ P \subseteq 1 .. Len(s) /\ Len(s) \in Nat
  BY DEF EditorInv, EditorTypeOK, ChangedSeats
<1>2. \A i \in P : NewSeat(i) \in NewSeats
  <2> SUFFICES ASSUME NEW i \in P PROVE NewSeat(i) \in NewSeats
    OBVIOUS
  <2>1. s[i] \in Seats /\ i \in Nat
    BY <1>1
  <2> QED
    BY <2>1 DEF NewSeat, NewSeats, Seats
<1>3. Creates = {NewSeat(i) : i \in P}
  BY DEF Creates
<1> HIDE DEF P
<1>4. IsFiniteSet(P)
  <2>1. IsFiniteSet(1 .. Len(s))
    BY <1>1, FS_Interval
  <2> QED
    BY <1>1, <2>1, FS_Subset
<1>5. [i \in P |-> NewSeat(i)] \in Surjection(P, Creates)
  BY <1>3 DEF Surjection
<1>6. IsFiniteSet(Creates)
  BY <1>4, <1>5, FS_Surjection
<1>7. Updates \subseteq Seats
  BY <1>1 DEF Updates, ChangedSeats
<1>8. \A c, d \in Creates : c.place = d.place => c = d
  BY <1>3 DEF NewSeat
<1> QED
  BY <1>2, <1>3, <1>6, <1>7, <1>8

\* The rows after the bulk update are those that are left, updated or not, and the new ones.
Kepts == {r \in stored.rows : r.id \notin bulk.deletes}
RowMade(c) == [id |-> IdOf(c), key |-> c.key, rev |-> c.rev, details |-> c.details]
Made == {RowMade(c) : c \in bulk.creates}
Update(no) ==
    /\ chain = "bulk" /\ ~bulk.done /\ ~stored.gone
    /\ stored' = [stored EXCEPT !.rows =
                    (IF no THEN Kepts ELSE {Updated(r) : r \in Kepts}) \cup (IF no THEN {} ELSE Made)]
    /\ bulk' = [bulk EXCEPT !.done = TRUE,
                  !.ids = {[place |-> c.place, id |-> IdOf(c)] : c \in IF no THEN {} ELSE bulk.creates}]
    /\ past' = [past EXCEPT !.refused = past.refused \/ (no /\ bulk.creates \cup bulk.updates # {})]
    /\ UNCHANGED <<editor, chain, reload, writes, edits, saves>>

LEMMA BulkUpdates ==
    ASSUME bulkUpdate
    PROVE  \E no \in BOOLEAN : Update(no)
<1>1. PICK no \in BOOLEAN :
         LET created == IF no THEN {} ELSE bulk.creates
             made == {[id |-> IdOf(c), key |-> c.key, rev |-> c.rev, details |-> c.details] : c \in created}
         IN /\ stored' = [stored EXCEPT !.rows =
                            (IF no THEN Kepts ELSE {Updated(r) : r \in Kepts}) \cup made]
            /\ bulk' = [bulk EXCEPT !.done = TRUE,
                                    !.ids = {[place |-> c.place, id |-> IdOf(c)] : c \in created}]
            /\ past' = [past EXCEPT !.refused = past.refused \/ (no /\ bulk.creates \cup bulk.updates # {})]
  BY DEF bulkUpdate, Kepts
<1>2. {[id |-> IdOf(c), key |-> c.key, rev |-> c.rev, details |-> c.details] : c \in IF no THEN {} ELSE bulk.creates}
        = IF no THEN {} ELSE Made
  BY DEF Made, RowMade
<1>3. Update(no)
  BY <1>1, <1>2 DEF Update, bulkUpdate
<1> QED
  BY <1>3

\* The page finds no ids in the answer, and takes the seats for unchanged.
LEMMA AnsweredSeats ==
    ASSUME EditorInv, bulkAnswered
    PROVE  LET seats == [i \in DOMAIN editor.seats |-> [editor.seats[i] EXCEPT !.changed = FALSE]]
               e == [editor EXCEPT !.seats = seats, !.deleteIds = {}]
           IN  /\ chain = "bulk" /\ bulk.done /\ bulk' = NoBulk
               /\ chain' = IF editor.file THEN "map" ELSE "none"
               /\ editor' = IF chain' = "none" THEN Finished(e) ELSE e
               /\ UNCHANGED <<stored, reload, writes, edits, saves, past>>
<1> DEFINE Before(i) == Cardinality({j \in ChangedSeats : j < i /\ editor.seats[j].id = NoId})
<1>1. ASSUME NEW i PROVE ~(Before(i) < Len(<<>>))
  <2>1. editor.seats \in Seq(Seats) /\ ChangedSeats \subseteq 1 .. Len(editor.seats) /\ Len(editor.seats) \in Nat
    BY DEF EditorInv, EditorTypeOK, ChangedSeats
  <2>2. IsFiniteSet(1 .. Len(editor.seats))
    BY <2>1, FS_Interval
  <2>3. IsFiniteSet({j \in ChangedSeats : j < i /\ editor.seats[j].id = NoId})
    BY <2>1, <2>2, FS_Subset
  <2>4. Before(i) \in Nat
    BY <2>3, FS_CardinalityType
  <2> QED
    BY <2>4
<1> QED
  BY <1>1 DEF bulkAnswered, deserializeCreates

LEMMA UpdatedRow ==
    ASSUME EditorInv, NEW r \in stored.rows
    PROVE  /\ Updated(r) \in Rows /\ Updated(r).id = r.id
           /\ UpdatesOf(r) = {} => Updated(r) = r
           /\ UpdatesOf(r) # {} => \E s \in bulk.updates :
                 s.id = r.id /\ Updated(r).key = s.key /\ Updated(r).rev = s.rev
                 /\ Updated(r).details = s.details
<1>1. r \in Rows
  BY DEF EditorInv, EditorTypeOK
<1>2. CASE UpdatesOf(r) = {}
  BY <1>1, <1>2 DEF Updated
<1>3. CASE UpdatesOf(r) # {}
  <2> DEFINE s == CHOOSE u \in UpdatesOf(r) : TRUE
  <2>1. s \in UpdatesOf(r)
    BY <1>3
  <2>2. s \in bulk.updates /\ s.id = r.id
    BY <2>1 DEF UpdatesOf
  <2>3. Updated(r) = [r EXCEPT !.key = s.key, !.rev = s.rev, !.details = s.details]
    BY <1>3 DEF Updated
  <2> HIDE DEF s
  <2>4. s \in Seats
    BY <2>2 DEF EditorInv, EditorTypeOK
  <2>5. s.key \in 0 .. MaxEdits /\ s.rev \in 0 .. MaxEdits /\ s.details \in 0 .. MaxEdits
    BY <2>4 DEF Seats
  <2>6. /\ Updated(r) \in Rows /\ Updated(r).id = r.id /\ Updated(r).key = s.key
        /\ Updated(r).rev = s.rev /\ Updated(r).details = s.details
    BY <1>1, <2>3, <2>5 DEF Rows
  <2> QED
    BY <1>3, <2>2, <2>6
<1> QED
  BY <1>2, <1>3

LEMMA UpdateTypes ==
    ASSUME EditorInv, NEW no \in BOOLEAN, Update(no)
    PROVE  EditorTypeOK' /\ IsFiniteSet(stored.rows')
<1> DEFINE kept == IF no THEN Kepts ELSE {Updated(r) : r \in Kepts}
           made == IF no THEN {} ELSE Made
           ids == {[place |-> c.place, id |-> IdOf(c)] : c \in IF no THEN {} ELSE bulk.creates}
<1>1. Kepts \subseteq stored.rows /\ stored.rows \subseteq Rows /\ IsFiniteSet(stored.rows) /\ IsFiniteSet(bulk.creates)
  BY DEF Kepts, EditorInv, EditorTypeOK, SavesCounted
<1>2. kept \subseteq Rows /\ IsFiniteSet(kept)
  <2>1. IsFiniteSet(Kepts)
    BY <1>1, FS_Subset
  <2>2. [r \in Kepts |-> Updated(r)] \in Surjection(Kepts, {Updated(r) : r \in Kepts})
    BY DEF Surjection
  <2>3. IsFiniteSet({Updated(r) : r \in Kepts})
    BY <2>1, <2>2, FS_Surjection
  <2>4. \A r \in Kepts : Updated(r) \in Rows
    BY <1>1, UpdatedRow
  <2> QED
    BY <1>1, <2>1, <2>3, <2>4
<1>3. \A c \in bulk.creates : /\ IdOf(c) \in Ids /\ c.place \in Nat /\ c.key \in 0 .. MaxEdits
                              /\ c.rev \in 0 .. MaxEdits /\ c.details \in 0 .. MaxEdits
  BY EditorAssumption DEF EditorInv, EditorTypeOK, IdOf, Ids, NewSeats
<1>4. Made \subseteq Rows
  BY <1>3 DEF Made, RowMade, Rows
<1>5. [c \in bulk.creates |-> RowMade(c)]
        \in Surjection(bulk.creates, Made)
  BY DEF Made, Surjection
<1>6. made \subseteq Rows /\ IsFiniteSet(made)
  BY <1>1, <1>4, <1>5, FS_Surjection, FS_EmptySet
<1>7. ids \subseteq [place : Nat, id : Ids]
  BY <1>3
<1>8. IsFiniteSet(kept \cup made) /\ kept \cup made \subseteq Rows
  BY <1>2, <1>6, FS_Union
<1>9. /\ stored' = [stored EXCEPT !.rows = kept \cup made]
      /\ bulk' = [bulk EXCEPT !.done = TRUE, !.ids = ids]
      /\ past' = [past EXCEPT !.refused = past.refused \/ (no /\ bulk.creates \cup bulk.updates # {})]
      /\ UNCHANGED <<editor, chain, reload, writes, edits, saves>>
  BY DEF Update
<1> HIDE DEF kept, made, ids
<1>10. EditorTyped
  BY TypedEditor DEF EditorInv
<1>11. stored' \in Servers
  BY <1>8, <1>9, <1>10 DEF EditorTyped, Servers
<1>12. bulk' \in Bulks
  BY <1>7, <1>9, <1>10 DEF EditorTyped, Bulks
<1>13. past' \in Pasts
  BY <1>9, <1>10 DEF EditorTyped, Pasts
<1>14. EditorTyped'
  BY <1>9, <1>10, <1>11, <1>12, <1>13 DEF EditorTyped
<1>15. stored'.rows = kept \cup made
  BY <1>9, <1>10 DEF EditorTyped, Servers
<1> QED
  BY <1>8, <1>14, <1>15, TypedEditor

LEMMA EditorTypes ==
    ASSUME EditorInv, EditorNext
    PROVE  EditorTypeOK'
<1> SUFFICES EditorTyped'
  BY TypedEditor
<1>0. EditorTyped
  BY TypedEditor DEF EditorInv
<1>a. SavesCounted
  BY DEF EditorInv
<1> USE <1>0, EditorAssumption, NothingSent DEF EditorTyped
<1>1. CASE ListEdited
  <2>1. edits' \in 0 .. MaxEdits
    BY <1>1 DEF ListEdited
  <2>2. editor' \in Editors
    BY <1>1 DEF ListEdited, Editors
  <2>3. past' \in Pasts
    <3>1. past' = [past EXCEPT !.touched = past.touched \/ Busy] /\ Busy \in BOOLEAN
      BY <1>1 DEF ListEdited, Busy
    <3> QED
      BY <3>1 DEF Pasts
  <2> QED
    BY <1>1, <2>1, <2>2, <2>3 DEF ListEdited
<1>2. CASE loadData
  <2>1. IsFiniteSet(stored.rows) /\ stored.rows \in SUBSET Rows
    BY <1>a DEF SavesCounted, Servers
  <2>2. PICK s \in SeatsOf(stored.rows) : editor' = [editor EXCEPT !.loading = FALSE, !.seats = s]
    BY <1>2 DEF loadData
  <2>3. s \in Seq(Seats)
    BY <2>1, SeatsOfRows
  <2>4. editor' \in Editors
    BY <2>2, <2>3 DEF Editors
  <2> QED
    BY <1>2, <2>4 DEF loadData
<1>3. CASE (\E v \in Values : setAttribute(v)) \/ deleteAttribute \/ chooseFile
  <2>1. ASSUME NEW e \in Editors, Puts(e) PROVE EditorTyped'
    <3>1. edits' \in 0 .. MaxEdits
      BY <2>1 DEF Puts
    <3> QED
      BY <2>1, <3>1 DEF Puts
  <2>2. ASSUME NEW v \in Values, setAttribute(v) PROVE EditorTyped'
    <3>1. [editor EXCEPT !.value = v] \in Editors
      BY DEF Editors
    <3> QED
      BY <2>1, <2>2, <3>1 DEF setAttribute
  <2>3. CASE deleteAttribute
    <3>1. [editor EXCEPT !.value = NoId, !.valueDeleted = TRUE] \in Editors
      BY DEF Editors
    <3> QED
      BY <2>1, <2>3, <3>1 DEF deleteAttribute
  <2>4. CASE chooseFile
    <3>1. \A scaled \in BOOLEAN : [editor EXCEPT !.file = TRUE, !.scaled = scaled] \in Editors
      BY DEF Editors
    <3> QED
      BY <2>1, <2>4, <3>1 DEF chooseFile
  <2> QED
    BY <1>3, <2>2, <2>3, <2>4
<1>4. CASE onSubmit
  <2>0. saves' \in 0 .. MaxSaves
    BY <1>4 DEF onSubmit
  <2>1. editor' \in Editors
    BY <1>4 DEF onSubmit, Editors
  <2> QED
    BY <1>4, <2>0, <2>1 DEF onSubmit
<1>5. CASE entitySaved
  <2>1. saves \in 1 .. MaxSaves
    BY <1>5, <1>a DEF entitySaved, SavesCounted
  <2>2. writes' \subseteq AttributeWrites
    BY <1>5, <2>1 DEF entitySaved, saveAttributes, AttributeWrites, Editors
  <2>3. past' \in Pasts
    BY <1>5 DEF entitySaved, saveAttributes, Pasts, Editors
  <2>4. /\ chain' \in {"none", "entity", "bulk", "map"}
        /\ bulk' = bulk \/ bulk' = [NoBulk EXCEPT !.creates = Creates, !.updates = Updates,
                                                  !.deletes = editor.deleteIds]
    BY <1>5 DEF entitySaved, saveSpaces
  <2>5. bulk' \in Bulks
    BY <2>4, BulkTypes DEF Bulks, Editors, EditorInv
  <2>6. SavedId \in Nat
    BY DEF SavedId, Editors, Servers
  <2>7. editor' \in Editors
    <3> DEFINE e == [editor EXCEPT !.id = SavedId]
    <3>1. e \in Editors /\ Finished(e) \in Editors
      BY <2>6 DEF Editors, Finished
    <3> QED
      BY <1>5, <3>1 DEF entitySaved
  <2>8. stored' \in Servers
    BY <1>5 DEF entitySaved, Servers
  <2> QED
    BY <1>5, <2>2, <2>3, <2>4, <2>5, <2>7, <2>8 DEF entitySaved
<1>6. CASE entityFailed
  <2>1. editor' \in Editors
    BY <1>6 DEF entityFailed, onError, Editors
  <2>2. stored' \in Servers
    BY <1>6 DEF entityFailed, Servers
  <2>3. PICK done \in {FALSE, ~stored.gone} : past' = [past EXCEPT !.lost = past.lost \/ done]
    BY <1>6 DEF entityFailed
  <2>4. past' \in Pasts
    BY <2>3 DEF Pasts, Servers
  <2> QED
    BY <1>6, <2>1, <2>2, <2>4 DEF entityFailed
<1>7. CASE bulkUpdate
  BY <1>7, BulkUpdates, UpdateTypes, TypedEditor
<1>8. CASE bulkAnswered
  <2> DEFINE seats == [i \in DOMAIN editor.seats |-> [editor.seats[i] EXCEPT !.changed = FALSE]]
             e == [editor EXCEPT !.seats = seats, !.deleteIds = {}]
  <2>1. /\ bulk' = NoBulk /\ chain' \in {"map", "none"}
        /\ editor' = IF chain' = "none" THEN Finished(e) ELSE e
        /\ UNCHANGED <<stored, reload, writes, edits, saves, past>>
    BY <1>8, AnsweredSeats
  <2>2. seats \in Seq(Seats)
    <3>1. editor.seats \in Seq(Seats)
      BY DEF Editors
    <3>2. \A t \in Seats : [t EXCEPT !.changed = FALSE] \in Seats
      BY DEF Seats
    <3> QED
      BY <3>1, <3>2
  <2>3. editor' \in Editors
    <3> HIDE DEF seats
    <3> QED
      BY <2>1, <2>2 DEF Editors, Finished
  <2> QED
    BY <2>1, <2>3
<1>9. CASE bulkFailed
  <2>1. editor' \in Editors /\ past' \in Pasts
    BY <1>9 DEF bulkFailed, onError, Editors, Pasts, Bulks
  <2> QED
    BY <1>9, <2>1 DEF bulkFailed
<1>10. CASE mapStored
  <2>1. editor' \in Editors /\ reload' \in Reloads
    BY <1>10 DEF mapStored, Finished, Editors, Reloads
  <2> QED
    BY <1>10, <2>1 DEF mapStored
<1>11. CASE mapFailed
  BY <1>11 DEF mapFailed, Pasts
<1>12. CASE reloadRead
  BY <1>12 DEF reloadRead, Reloads, Servers
<1>13. CASE reloadAnswered
  <2>1. IsFiniteSet(reload.rows) /\ reload.rows \in SUBSET Rows
    BY <1>a DEF SavesCounted, Reloads
  <2>2. PICK s \in SeatsOf(reload.rows) : editor' = [editor EXCEPT !.seats = s]
    BY <1>13 DEF reloadAnswered
  <2>3. s \in Seq(Seats)
    BY <2>1, SeatsOfRows
  <2>4. editor' \in Editors
    BY <2>2, <2>3 DEF Editors
  <2> QED
    BY <1>13, <2>4 DEF reloadAnswered
<1>14. CASE reloadFailed
  BY <1>14 DEF reloadFailed, Pasts
<1>15. ASSUME NEW w \in writes, attributeWritten(w) \/ attributeFailed(w) PROVE EditorTyped'
  <2>0. w \in AttributeWrites /\ writes' \subseteq AttributeWrites
    BY <1>15 DEF attributeWritten, attributeFailed
  <2>1. CASE attributeWritten(w)
    <3>1. editor' \in Editors /\ stored' \in Servers
      BY <2>0, <2>1 DEF attributeWritten, Editors, Servers, AttributeWrites
    <3> QED
      BY <2>0, <2>1, <3>1 DEF attributeWritten
  <2>2. CASE attributeFailed(w)
    <3>1. past' \in Pasts
      BY <2>0, <2>2 DEF attributeFailed, Pasts, AttributeWrites
    <3> QED
      BY <2>0, <2>2, <3>1 DEF attributeFailed
  <2> QED
    BY <1>15, <2>1, <2>2
<1>16. CASE onBackButtonClick
  <2>1. editor' \in Editors
    BY <1>16 DEF onBackButtonClick, Editors
  <2> QED
    BY <1>16, <2>1 DEF onBackButtonClick
<1>17. CASE deleteItem
  <2>1. editor' \in Editors /\ stored' \in Servers
    BY <1>17 DEF deleteItem, Editors, Servers
  <2> QED
    BY <1>17, <2>1 DEF deleteItem
<1> HIDE DEF EditorTyped
<1> QED
  BY <1>1, <1>2, <1>3, <1>4, <1>5, <1>6, <1>7, <1>8, <1>9, <1>10, <1>11, <1>12, <1>13, <1>14,
     <1>15, <1>16, <1>17, ListActionsEdit DEF EditorNext, EditorAnswer

-----------------------------------------------------------------------------
(* The counts, the attribute and the ids.                                  *)

\* The actions that leave the seats, the requests for them and the tables alone.
Aside ==
    /\ UNCHANGED <<editor.seats, editor.deleteIds, stored.rows, bulk, reload, saves>>
    /\ editor.loading = editor'.loading
    /\ chain' \in {"none", chain}
    /\ past'.touched = past.touched /\ past'.refused = past.refused /\ stored'.gone = stored.gone

LEMMA OthersAside ==
    ASSUME EditorInv,
           \/ (\E v \in Values : setAttribute(v)) \/ deleteAttribute \/ chooseFile
           \/ entityFailed \/ mapFailed \/ onBackButtonClick
           \/ \E w \in writes : attributeWritten(w) \/ attributeFailed(w)
    PROVE  Aside
<1>0. EditorTyped
  BY TypedEditor DEF EditorInv
<1> USE <1>0 DEF EditorTyped
<1>1. CASE (\E v \in Values : setAttribute(v)) \/ deleteAttribute \/ chooseFile
  BY <1>1 DEF setAttribute, deleteAttribute, chooseFile, Puts, Aside, Editors
<1>2. CASE entityFailed
  <2>1. PICK done \in {FALSE, ~stored.gone} :
          /\ stored' = [stored EXCEPT !.areas = IF done /\ editor.id = NoId THEN @ + 1 ELSE @]
          /\ past' = [past EXCEPT !.lost = past.lost \/ done]
    BY <1>2 DEF entityFailed
  <2>2. stored'.rows = stored.rows /\ stored'.gone = stored.gone
    BY <2>1 DEF Servers
  <2>3. past'.touched = past.touched /\ past'.refused = past.refused
    BY <2>1 DEF Pasts
  <2>4. UNCHANGED <<editor.seats, editor.deleteIds, editor.loading>>
    BY <1>2 DEF entityFailed, onError, Editors
  <2> QED
    BY <1>2, <2>2, <2>3, <2>4 DEF entityFailed, Aside
<1>3. CASE mapFailed \/ onBackButtonClick
  BY <1>3 DEF mapFailed, onBackButtonClick, Aside, Editors, Pasts
<1>4. ASSUME NEW w \in writes, attributeWritten(w) \/ attributeFailed(w) PROVE Aside
  BY <1>4 DEF attributeWritten, attributeFailed, Aside, Editors, Pasts, Servers
<1> QED
  BY <1>1, <1>2, <1>3, <1>4

LEMMA EditorCounts ==
    ASSUME EditorInv, EditorNext
    PROVE  SavesCounted'
<1>0. EditorTyped /\ SavesCounted
  BY TypedEditor DEF EditorInv
<1> USE <1>0, FS_EmptySet DEF SavesCounted, EditorTyped
<1>1. CASE Aside
  BY <1>1 DEF Aside
<1>2. CASE ListEdited
  BY <1>2 DEF ListEdited, Editable, Editors
<1>3. CASE loadData
  BY <1>3 DEF loadData, Editors
<1>4. CASE onSubmit
  BY <1>4 DEF onSubmit, Editable, Editors
<1>5. CASE entitySaved
  <2>1. IsFiniteSet(bulk'.creates) /\ \A c, d \in bulk'.creates : c.place = d.place => c = d
    <3>1. bulk' = bulk \/ bulk'.creates = Creates
      BY <1>5 DEF entitySaved, saveSpaces, NoBulk
    <3> QED
      BY <3>1, BulkTypes
  <2>2. editor'.loading = FALSE /\ stored'.rows = stored.rows /\ UNCHANGED <<reload, saves>> /\ saves > 0
    BY <1>5 DEF entitySaved, Finished, Editors, Servers
  <2> QED
    BY <2>1, <2>2
<1>6. CASE bulkUpdate
  <2>1. PICK no \in BOOLEAN : Update(no)
    BY <1>6, BulkUpdates
  <2>2. IsFiniteSet(stored'.rows)
    BY <2>1, UpdateTypes
  <2> QED
    BY <2>1, <2>2 DEF Update, Bulks
<1>7. CASE bulkAnswered
  <2>1. /\ chain = "bulk" /\ bulk' = NoBulk /\ UNCHANGED <<stored, reload, saves>>
        /\ editor'.loading = editor.loading
    BY <1>7, AnsweredSeats DEF Finished, Editors
  <2> QED
    BY <2>1 DEF NoBulk
<1>8. CASE bulkFailed
  BY <1>8 DEF bulkFailed, onError, NoBulk, Editors
<1>9. CASE mapStored
  BY <1>9 DEF mapStored, Finished, Editors
<1>10. CASE reloadRead
  BY <1>10 DEF reloadRead
<1>11. CASE reloadAnswered
  <2>1. reload' = NoReload /\ editor'.loading = editor.loading /\ editor'.deleteIds = editor.deleteIds
        /\ UNCHANGED <<stored, chain, bulk, saves>>
    BY <1>11 DEF reloadAnswered, Editors
  <2> QED
    BY <2>1 DEF NoReload
<1>12. CASE reloadFailed
  BY <1>12 DEF reloadFailed, NoReload
<1>13. CASE deleteItem
  BY <1>13 DEF deleteItem, Editable, Editors, Servers
<1> HIDE DEF SavesCounted, EditorTyped
<1> QED
  BY <1>1, <1>2, <1>3, <1>4, <1>5, <1>6, <1>7, <1>8, <1>9, <1>10, <1>11, <1>12, <1>13,
     ListActionsEdit, OthersAside DEF EditorNext, EditorAnswer

LEMMA EditorAreas ==
    ASSUME EditorInv, EditorNext
    PROVE  AreaCounted'
<1>0. EditorTyped /\ AreaCounted
  BY TypedEditor DEF EditorInv
<1> USE <1>0 DEF AreaCounted, EditorTyped
<1>1. CASE UNCHANGED <<stored.areas, editor.id, past.lost>>
  BY <1>1
<1>2. CASE ListEdited
  BY <1>2 DEF ListEdited, Editors, Pasts
<1>3. CASE entitySaved
  <2>1. stored'.areas = (IF editor.id = NoId THEN stored.areas + 1 ELSE stored.areas) /\ past'.lost = past.lost
    BY <1>3 DEF entitySaved, saveAttributes, Servers, Pasts
  <2>2. SavedId \in Nat /\ editor'.id = SavedId
    BY <1>3 DEF entitySaved, Finished, Editors, Servers, SavedId
  <2>3. editor'.id # NoId
    BY <2>2, EditorAssumption
  <2> QED
    BY <2>1, <2>3 DEF Servers
<1>4. CASE entityFailed
  <2>1. PICK done \in {FALSE, ~stored.gone} :
          /\ stored' = [stored EXCEPT !.areas = IF done /\ editor.id = NoId THEN @ + 1 ELSE @]
          /\ past' = [past EXCEPT !.lost = past.lost \/ done]
    BY <1>4 DEF entityFailed
  <2>2. editor'.id = editor.id
    BY <1>4 DEF entityFailed, onError, Editors
  <2>3. CASE ~done
    <3>1. stored'.areas = stored.areas /\ past'.lost = past.lost
      BY <2>1, <2>3 DEF Servers, Pasts
    <3> QED
      BY <2>2, <3>1
  <2>4. CASE done
    BY <2>1, <2>4 DEF Pasts
  <2> QED
    BY <2>3, <2>4
<1>5. CASE loadData \/ reloadAnswered
  BY <1>5 DEF loadData, reloadAnswered, Editors
<1>6. CASE (\E v \in Values : setAttribute(v)) \/ deleteAttribute \/ chooseFile \/ onSubmit
  BY <1>6 DEF setAttribute, deleteAttribute, chooseFile, Puts, onSubmit, Editors
<1>7. CASE bulkUpdate
  <2>1. PICK no \in BOOLEAN : Update(no)
    BY <1>7, BulkUpdates
  <2> QED
    BY <2>1 DEF Update, Servers, Pasts
<1>8. CASE bulkAnswered
  BY <1>8, AnsweredSeats DEF Finished, Editors
<1>9. CASE bulkFailed
  BY <1>9 DEF bulkFailed, onError, Editors, Pasts
<1>10. CASE mapStored \/ mapFailed \/ reloadRead \/ reloadFailed \/ onBackButtonClick \/ deleteItem
  BY <1>10 DEF mapStored, Finished, mapFailed, reloadRead, reloadFailed, onBackButtonClick, deleteItem,
               Editors, Pasts, Servers
<1>11. ASSUME NEW w \in writes, attributeWritten(w) \/ attributeFailed(w) PROVE AreaCounted'
  BY <1>11 DEF attributeWritten, attributeFailed, Editors, Pasts, Servers
<1> HIDE DEF AreaCounted, EditorTyped
<1> QED
  BY <1>1, <1>2, <1>3, <1>4, <1>5, <1>6, <1>7, <1>8, <1>9, <1>10, <1>11, ListActionsEdit
     DEF EditorNext, EditorAnswer

\* A save that sends one value for the attribute sends the one that is shown.
SentValues(n, v, deleted) == (IF v # NoId THEN {[save |-> n, value |-> v]} ELSE {})
                        \cup (IF deleted THEN {[save |-> n, value |-> NoId]} ELSE {})

LEMMA OneValue ==
    ASSUME NEW n, NEW v, NEW deleted \in BOOLEAN, Cardinality(SentValues(n, v, deleted)) = 1
    PROVE  \A w \in SentValues(n, v, deleted) : w.value = v
<1> USE DEF SentValues
<1>1. CASE v = NoId
  BY <1>1
<1>2. CASE v # NoId /\ deleted
  <2> DEFINE a == [save |-> n, value |-> v]
             b == [save |-> n, value |-> NoId]
  <2>1. a # b
    BY <1>2
  <2>2. IsFiniteSet({a}) /\ Cardinality({a}) = 1
    BY FS_Singleton
  <2> HIDE DEF a, b
  <2>3. Cardinality({a} \cup {b}) = 2
    BY <2>1, <2>2, FS_AddElement
  <2> QED
    BY <1>2, <2>3 DEF a, b
<1>3. CASE v # NoId /\ ~deleted
  BY <1>3
<1> QED
  BY <1>1, <1>2, <1>3

LEMMA EditorAttribute ==
    ASSUME EditorInv, EditorNext
    PROVE  AttributeWaits'
<1>0. EditorTyped /\ AttributeWaits
  BY TypedEditor DEF EditorInv
<1> USE <1>0 DEF AttributeWaits, EditorTyped
<1>1. CASE UNCHANGED <<stored.value, stored.gone, past.expected, writes>>
  BY <1>1
<1>2. CASE ListEdited
  BY <1>1, <1>2 DEF ListEdited, Pasts
<1>3. CASE entitySaved
  <2> DEFINE new == SentValues(saves, editor.value, editor.valueDeleted)
  <2>1. /\ writes' = writes \cup new
        /\ past' = [past EXCEPT !.expected =
                      IF new = {} THEN past.expected
                      ELSE IF writes = {} /\ Cardinality(new) = 1 THEN editor.value ELSE "any"]
    BY <1>3 DEF entitySaved, saveAttributes, SentValues
  <2>2. stored'.value = stored.value /\ stored'.gone = stored.gone
    BY <1>3 DEF entitySaved, Servers
  <2>3. Cardinality(new) = 1 => \A w \in new : w.value = editor.value
    <3>1. editor.valueDeleted \in BOOLEAN
      BY DEF Editors
    <3> QED
      BY <3>1, OneValue
  <2> HIDE DEF new
  <2>4. CASE new = {}
    BY <1>1, <2>1, <2>2, <2>4 DEF Pasts
  <2>5. CASE new # {} /\ writes = {} /\ Cardinality(new) = 1
    <3>1. past'.expected = editor.value /\ writes' = new
      BY <2>1, <2>5 DEF Pasts
    <3> QED
      BY <2>3, <2>5, <3>1
  <2>6. CASE new # {} /\ ~(writes = {} /\ Cardinality(new) = 1)
    <3>1. past'.expected = "any"
      BY <2>1, <2>6 DEF Pasts
    <3> QED
      BY <3>1
  <2> QED
    BY <2>4, <2>5, <2>6
<1>4. CASE Aside /\ entityFailed
  BY <1>1, <1>4 DEF entityFailed, Servers, Pasts
<1>5. CASE loadData \/ reloadAnswered \/ onSubmit
  BY <1>5 DEF loadData, reloadAnswered, onSubmit
<1>6. CASE (\E v \in Values : setAttribute(v)) \/ deleteAttribute \/ chooseFile
  BY <1>6 DEF setAttribute, deleteAttribute, chooseFile, Puts
<1>7. CASE bulkUpdate
  <2>1. PICK no \in BOOLEAN : Update(no)
    BY <1>7, BulkUpdates
  <2> QED
    BY <1>1, <2>1 DEF Update, Servers, Pasts
<1>8. CASE bulkAnswered
  BY <1>1, <1>8, AnsweredSeats
<1>9. CASE bulkFailed
  BY <1>1, <1>9 DEF bulkFailed, Pasts
<1>10. CASE mapStored \/ mapFailed \/ reloadRead \/ reloadFailed \/ onBackButtonClick
  BY <1>1, <1>10 DEF mapStored, mapFailed, reloadRead, reloadFailed, onBackButtonClick, Pasts
<1>11. CASE deleteItem
  BY <1>11 DEF deleteItem, Servers
<1>12. ASSUME NEW w \in writes, attributeWritten(w) PROVE AttributeWaits'
  <2>1. stored'.value = w.value /\ writes' = writes \ {w} /\ UNCHANGED past
    BY <1>12 DEF attributeWritten, Servers
  <2> QED
    BY <2>1
<1>13. ASSUME NEW w \in writes, attributeFailed(w) PROVE AttributeWaits'
  BY <1>13 DEF attributeFailed, Pasts
<1> HIDE DEF AttributeWaits, EditorTyped
<1> QED
  BY <1>1, <1>2, <1>3, <1>4, <1>5, <1>6, <1>7, <1>8, <1>9, <1>10, <1>11, <1>12, <1>13,
     ListActionsEdit, OthersAside DEF EditorNext, EditorAnswer

-----------------------------------------------------------------------------
(* The ids.                                                                *)

\* A step that carries on the ids that are there and leaves the present save its turn.
LEMMA NoNewIds ==
    ASSUME EditorInv, saves' \in 0 .. MaxSaves, editor'.deleteIds \subseteq Ids,
           \A id \in Ids : \A k \in 0 .. MaxEdits : Carries(id, k)' => Carries(id, k),
           \A id \in editor'.deleteIds : id \in editor.deleteIds \/ \E k \in 0 .. MaxEdits : Carries(id, k),
           \/ saves' = saves /\ (MayCreate' => MayCreate)
           \/ saves' = saves + 1
    PROVE  IdsKnown'
<1>1. IdsKnown /\ saves \in 0 .. MaxSaves /\ MaxSaves \in Nat /\ editor.deleteIds \subseteq Ids
  BY EditorAssumption DEF EditorInv, EditorTypeOK
<1>2. ASSUME NEW id \in Ids, Used(id) PROVE Used(id)'
  <2>1. id[1] \in Int
    BY DEF Ids
  <2> QED
    BY <1>1, <1>2, <2>1 DEF Used
<1>3. \A id \in editor'.deleteIds : Used(id)
  BY <1>1 DEF IdsKnown
<1> QED
  BY <1>1, <1>2, <1>3 DEF IdsKnown

LEMMA AsideIds ==
    ASSUME EditorInv, Aside
    PROVE  IdsKnown'
<1>1. \A id \in Ids : \A k \in 0 .. MaxEdits : Carries(id, k)' => Carries(id, k)
  BY DEF Aside, Carries
<1>2. MayCreate' => MayCreate
  BY DEF Aside, MayCreate
<1> QED
  BY <1>1, <1>2, NoNewIds DEF Aside, EditorInv, EditorTypeOK

\* The ids of the rows of a bulk update are not in use.
LEMMA UpdateIds ==
    ASSUME EditorInv, NEW no \in BOOLEAN, Update(no)
    PROVE  IdsKnown'
<1>0. EditorTyped /\ IdsKnown
  BY TypedEditor DEF EditorInv
<1> USE <1>0 DEF EditorTyped
<1> DEFINE K == 0 .. MaxEdits
<1>1. stored'.rows = (IF no THEN Kepts ELSE {Updated(r) : r \in Kepts}) \cup (IF no THEN {} ELSE Made)
      /\ bulk'.updates = bulk.updates /\ bulk'.creates = bulk.creates /\ UNCHANGED <<editor, reload, saves>>
  BY DEF Update, Servers, Bulks
<1>2. MayCreate /\ ~MayCreate'
  BY DEF Update, MayCreate, Bulks
<1>3. \A id \in Ids : \A k \in K : Carries(id, k) => id[1] < saves
  BY <1>2 DEF IdsKnown, Used, Ids
<1>4. ASSUME NEW id \in Ids, NEW k \in K, Carries(id, k)'
      PROVE  Carries(id, k) \/ \E c \in bulk.creates : id = IdOf(c) /\ k = c.key
  <2>1. CASE \E r \in stored'.rows : r.id = id /\ r.key = k
    <3>1. PICK r \in stored'.rows : r.id = id /\ r.key = k
      BY <2>1
    <3>2. CASE r \in Made
      BY <3>1, <3>2 DEF Made, RowMade
    <3>3. CASE r \in Kepts
      BY <3>1, <3>3 DEF Kepts, Carries
    <3>4. CASE \E q \in Kepts : r = Updated(q)
      <4>1. PICK q \in stored.rows : r = Updated(q)
        BY <3>4 DEF Kepts
      <4>2. CASE UpdatesOf(q) = {}
        BY <3>1, <4>1, <4>2, UpdatedRow DEF Carries
      <4>3. CASE UpdatesOf(q) # {}
        <5>1. PICK s \in bulk.updates : s.id = q.id /\ r.key = s.key
          BY <4>1, <4>3, UpdatedRow
        <5>2. r.id = q.id
          BY <4>1, UpdatedRow
        <5>3. s.id = id /\ s.key = k
          BY <3>1, <5>1, <5>2
        <5> QED
          BY <5>3 DEF Carries
      <4> QED
        BY <4>2, <4>3
    <3> QED
      BY <1>1, <3>1, <3>2, <3>3, <3>4
  <2>2. CASE ~\E r \in stored'.rows : r.id = id /\ r.key = k
    BY <1>1, <1>4, <2>2 DEF Carries
  <2> QED
    BY <2>1, <2>2
<1>5. \A c \in bulk.creates : IdOf(c)[1] = saves /\ IdOf(c) = <<saves, c.place>>
  BY DEF IdOf
<1>6. \A id \in Ids : \A k \in K : Carries(id, k)' => id[1] \in Int /\ id[1] <= saves
  BY <1>3, <1>4, <1>5 DEF Ids
<1>7. ASSUME NEW id \in Ids, NEW k \in K, NEW l \in K, Carries(id, k)', Carries(id, l)'
      PROVE  k = l
  <2>1. CASE id[1] = saves
    <3>1. ~Carries(id, k) /\ ~Carries(id, l)
      BY <1>3, <2>1
    <3>2. PICK c \in bulk.creates : id = IdOf(c) /\ k = c.key
      BY <1>4, <1>7, <3>1
    <3>3. PICK d \in bulk.creates : id = IdOf(d) /\ l = d.key
      BY <1>4, <1>7, <3>1
    <3>4. c.place = d.place
      <4>1. IdOf(c)[2] = c.place /\ IdOf(d)[2] = d.place
        BY DEF IdOf
      <4> QED
        BY <3>2, <3>3, <4>1
    <3> QED
      BY <3>2, <3>3, <3>4 DEF EditorInv, SavesCounted
  <2>2. CASE id[1] # saves
    <3>1. Carries(id, k) /\ Carries(id, l)
      BY <1>4, <1>5, <1>7, <2>2
    <3> QED
      BY <3>1 DEF IdsKnown
  <2> QED
    BY <2>1, <2>2
<1>8. \A id \in Ids : \A k \in K : Carries(id, k)' => Used(id)'
  BY <1>1, <1>2, <1>6 DEF Used
<1>9. \A id \in editor'.deleteIds : Used(id)'
  BY <1>1, <1>2 DEF IdsKnown, Used, Editors, Ids
<1> QED
  BY <1>7, <1>8, <1>9 DEF IdsKnown

LEMMA EditorIds ==
    ASSUME EditorInv, EditorNext
    PROVE  IdsKnown'
<1>0. EditorTyped /\ EditorTyped' /\ IdsKnown
  BY TypedEditor, EditorTypes DEF EditorInv
<1> USE <1>0 DEF EditorTyped
<1> DEFINE AllCarried == \A id \in Ids : \A k \in 0 .. MaxEdits : Carries(id, k)' => Carries(id, k)
<1>1. ASSUME AllCarried, editor'.deleteIds \subseteq editor.deleteIds,
             \/ saves' = saves /\ (MayCreate' => MayCreate)
             \/ saves' = saves + 1
      PROVE  IdsKnown'
  BY <1>1, NoNewIds DEF Editors
<1>2. CASE ListEdited
  <2>1. editor.seats \in Seq(Seats)
    BY DEF Editors
  <2>2. ASSUME NEW id \in Ids, NEW k \in 0 .. MaxEdits, NEW j \in DOMAIN editor'.seats,
               editor'.seats[j].id = id, editor'.seats[j].key = k
        PROVE  \E i \in DOMAIN editor.seats : editor.seats[i].id = id /\ editor.seats[i].key = k
    <3>1. NoId \notin Ids
      BY EditorAssumption DEF Ids
    <3>2. ~IsNew(editor'.seats[j])
      BY <2>2, <3>1 DEF IsNew
    <3> QED
      BY <1>2, <2>2, <3>2 DEF ListEdited, Kept
  <2>3. AllCarried
    BY <1>2, <2>2 DEF ListEdited, Carries
  <2>4. \A id \in editor'.deleteIds : id \in editor.deleteIds \/ \E k \in 0 .. MaxEdits : Carries(id, k)
    <3> SUFFICES ASSUME NEW id \in editor'.deleteIds, id \notin editor.deleteIds
                 PROVE  \E k \in 0 .. MaxEdits : Carries(id, k)
      OBVIOUS
    <3>1. PICK i \in DOMAIN editor.seats : id = editor.seats[i].id
      BY <1>2 DEF ListEdited
    <3>2. editor.seats[i] \in Seats
      BY <2>1
    <3>3. editor.seats[i].key \in 0 .. MaxEdits
      BY <3>2 DEF Seats
    <3> QED
      BY <3>1, <3>3 DEF Carries
  <2>5. saves' = saves /\ (MayCreate' => MayCreate)
    BY <1>2 DEF ListEdited, MayCreate
  <2> QED
    BY <2>3, <2>4, <2>5, NoNewIds DEF Editors
<1>3. CASE Aside
  BY <1>3, AsideIds
<1>4. CASE loadData
  <2>1. PICK s \in SeatsOf(stored.rows) : editor' = [editor EXCEPT !.loading = FALSE, !.seats = s]
    BY <1>4 DEF loadData
  <2>2. \A i \in DOMAIN s : \E r \in stored.rows : s[i] = newSpaceState(r)
    BY SeatsOfRows DEF EditorInv, SavesCounted, Servers
  <2>3. editor'.seats = s /\ editor'.deleteIds = editor.deleteIds /\ UNCHANGED <<stored, chain, bulk, reload, saves>>
    BY <1>4, <2>1 DEF loadData, Editors
  <2>4. AllCarried
    BY <2>2, <2>3 DEF Carries, newSpaceState, Seat
  <2> QED
    BY <1>1, <2>3, <2>4 DEF MayCreate
<1>5. CASE onSubmit
  <2>1. AllCarried /\ editor'.deleteIds = editor.deleteIds /\ saves' = saves + 1
    BY <1>5 DEF onSubmit, Carries, Editors
  <2> QED
    BY <1>1, <2>1
<1>6. CASE entitySaved
  <2>1. /\ editor'.seats = editor.seats /\ editor'.deleteIds = editor.deleteIds
        /\ stored'.rows = stored.rows /\ UNCHANGED <<reload, saves>>
    BY <1>6 DEF entitySaved, Finished, Editors, Servers
  <2>2. bulk'.updates = bulk.updates \/ bulk'.updates = Updates
    BY <1>6 DEF entitySaved, saveSpaces, NoBulk
  <2>3. AllCarried
    BY <2>1, <2>2 DEF Carries, Updates, ChangedSeats
  <2>4. MayCreate
    BY <1>6 DEF entitySaved, MayCreate
  <2> QED
    BY <1>1, <2>1, <2>3, <2>4
<1>7. CASE bulkUpdate
  BY <1>7, BulkUpdates, UpdateIds
<1>8. CASE bulkAnswered
  <2>1. /\ bulk' = NoBulk /\ chain' \in {"map", "none"} /\ UNCHANGED <<stored, reload, saves>>
        /\ editor'.seats = [i \in DOMAIN editor.seats |-> [editor.seats[i] EXCEPT !.changed = FALSE]]
        /\ editor'.deleteIds = {}
    BY <1>8, AnsweredSeats DEF Finished, Editors
  <2>2. \A i \in DOMAIN editor'.seats : /\ i \in DOMAIN editor.seats
                                        /\ editor'.seats[i].id = editor.seats[i].id
                                        /\ editor'.seats[i].key = editor.seats[i].key
    <3>1. editor.seats \in Seq(Seats)
      BY DEF Editors
    <3> QED
      BY <2>1, <3>1 DEF Seats
  <2>3. AllCarried
    BY <2>1, <2>2 DEF Carries, NoBulk
  <2> QED
    BY <1>1, <2>1, <2>3 DEF MayCreate
<1>9. CASE bulkFailed
  <2>1. /\ editor'.seats = editor.seats /\ editor'.deleteIds = editor.deleteIds
        /\ bulk' = NoBulk /\ chain' = "none" /\ UNCHANGED <<stored, reload, saves>>
    BY <1>9 DEF bulkFailed, onError, Editors
  <2>2. AllCarried
    BY <2>1 DEF Carries, NoBulk
  <2> QED
    BY <1>1, <2>1, <2>2 DEF MayCreate
<1>10. CASE mapStored
  <2>1. /\ editor'.seats = editor.seats /\ editor'.deleteIds = editor.deleteIds
        /\ reload'.rows = {} /\ chain' = "none" /\ UNCHANGED <<stored, bulk, saves>>
    BY <1>10 DEF mapStored, Finished, Editors
  <2>2. AllCarried
    BY <2>1 DEF Carries
  <2> QED
    BY <1>1, <2>1, <2>2 DEF MayCreate
<1>11. CASE reloadRead
  <2>1. AllCarried
    BY <1>11 DEF reloadRead, Carries
  <2> QED
    BY <1>1, <1>11, <2>1 DEF reloadRead, MayCreate
<1>12. CASE reloadAnswered
  <2>1. PICK s \in SeatsOf(reload.rows) : editor' = [editor EXCEPT !.seats = s]
    BY <1>12 DEF reloadAnswered
  <2>2. \A i \in DOMAIN s : \E r \in reload.rows : s[i] = newSpaceState(r)
    BY SeatsOfRows DEF EditorInv, SavesCounted, Reloads
  <2>3. editor'.seats = s /\ editor'.deleteIds = editor.deleteIds /\ reload' = NoReload
        /\ UNCHANGED <<stored, chain, bulk, saves>>
    BY <1>12, <2>1 DEF reloadAnswered, Editors
  <2>4. AllCarried
    BY <2>2, <2>3 DEF Carries, newSpaceState, Seat, NoReload
  <2> QED
    BY <1>1, <2>3, <2>4 DEF MayCreate
<1>13. CASE reloadFailed
  <2>1. AllCarried
    BY <1>13 DEF reloadFailed, NoReload, Carries
  <2> QED
    BY <1>1, <1>13, <2>1 DEF reloadFailed, MayCreate
<1>14. CASE deleteItem
  <2>1. /\ editor'.seats = editor.seats /\ editor'.deleteIds = editor.deleteIds
        /\ stored'.rows = {} /\ UNCHANGED <<chain, bulk, reload, saves>>
    BY <1>14 DEF deleteItem, Editors, Servers
  <2>2. AllCarried
    BY <2>1 DEF Carries
  <2> QED
    BY <1>1, <2>1, <2>2 DEF MayCreate
<1> HIDE DEF EditorTyped
<1> QED
  BY <1>2, <1>3, <1>4, <1>5, <1>6, <1>7, <1>8, <1>9, <1>10, <1>11, <1>12, <1>13, <1>14,
     ListActionsEdit, OthersAside DEF EditorNext, EditorAnswer

-----------------------------------------------------------------------------
(* The seats.                                                              *)

\* A step that leaves the seats and their rows.
LEMMA SameSeats ==
    ASSUME UNCHANGED <<editor.seats, editor.deleteIds, stored.rows>>,
           SeatsDiffer, SeatsHaveRows, SeatsStored, Sent' => Sent
    PROVE  /\ SeatsDiffer' /\ SeatsHaveRows' /\ SeatsStored'
           /\ ChangedSeats' = ChangedSeats /\ Creates' = Creates /\ Updates' = Updates
<1>1. SeatsDiffer' /\ SeatsHaveRows'
  BY DEF SeatsDiffer, SeatsHaveRows
<1>2. \A s : IsStored(s) => IsStored(s)'
  BY DEF IsStored, IsRowOf, ShownId
<1>3. SeatsStored'
  <2> SUFFICES ASSUME NEW i \in DOMAIN editor'.seats, NEW e, e = editor'.seats[i], ~e.changed \/ Sent'
               PROVE  IsStored(e)'
    BY DEF SeatsStored, IsStored, IsRowOf, ShownId, Sent
  <2> QED
    BY <1>2 DEF SeatsStored
<1>4. ChangedSeats' = ChangedSeats
  BY DEF ChangedSeats
<1>5. Creates' = Creates /\ Updates' = Updates
  BY <1>4 DEF Creates, NewSeat, Updates
<1> QED
  BY <1>1, <1>3, <1>4, <1>5

LEMMA AsideTracked ==
    ASSUME EditorInv, Aside
    PROVE  SeatsTracked'
<1> SUFFICES ASSUME ~Forgiven' PROVE SeatsDiffer' /\ SeatsHaveRows' /\ SeatsStored' /\ SaveIsOfThePage'
  BY DEF SeatsTracked
<1>1. SeatsDiffer /\ SeatsHaveRows /\ SeatsStored /\ SaveIsOfThePage
  BY DEF Aside, Forgiven, EditorInv, SeatsTracked
<1>2. Sent' => Sent
  BY DEF Aside, Sent
<1>3. /\ SeatsDiffer' /\ SeatsHaveRows' /\ SeatsStored'
      /\ ChangedSeats' = ChangedSeats /\ Creates' = Creates /\ Updates' = Updates
  BY <1>1, <1>2, SameSeats DEF Aside
<1>4. SaveIsOfThePage'
  BY <1>1, <1>3 DEF Aside, SaveIsOfThePage
<1> QED
  BY <1>3, <1>4

LEMMA EditedTracked ==
    ASSUME EditorInv, ListEdited
    PROVE  SeatsTracked'
<1> SUFFICES ASSUME ~Forgiven' PROVE SeatsDiffer' /\ SeatsHaveRows' /\ SeatsStored' /\ SaveIsOfThePage'
  BY DEF SeatsTracked
<1>0. EditorTyped
  BY TypedEditor DEF EditorInv
<1> DEFINE s == editor.seats
           t == editor'.seats
<1>1. ~Busy /\ ~Forgiven
  BY <1>0 DEF ListEdited, Forgiven, EditorTyped, Pasts
<1>2. SeatsDiffer /\ SeatsHaveRows /\ SeatsStored
  BY <1>1 DEF EditorInv, SeatsTracked
<1>3. chain \notin {"bulk", "map"} /\ reload.at = "none" /\ ~Sent'
      /\ UNCHANGED <<stored, chain, reload>>
  BY <1>1 DEF Busy, Sent, ListEdited
<1>4. NoId \notin Ids /\ editor'.deleteIds \subseteq Ids
      /\ editor.deleteIds \subseteq Ids
      /\ s \in Seq(Seats) /\ t \in Seq(Seats) /\ stored.rows \subseteq Rows
  BY <1>0, EditorAssumption DEF ListEdited, EditorTyped, Editors, Servers, Ids
<1>5. ASSUME NEW j \in DOMAIN t, t[j].id # NoId \/ ~t[j].changed
      PROVE  \E k \in DOMAIN s : Kept(t[j], s[k])
  BY <1>5 DEF ListEdited, IsNew
<1>6. SeatsDiffer'
  <2>1. ASSUME NEW j \in DOMAIN t, NEW l \in DOMAIN t, t[j].id = t[l].id, t[j].id # NoId, j # l
        PROVE  FALSE
    <3>1. ~IsNew(t[j]) /\ ~IsNew(t[l])
      BY <2>1 DEF IsNew
    <3>2. PICK k \in DOMAIN s, m \in DOMAIN s : k # m /\ Kept(t[j], s[k]) /\ Kept(t[l], s[m])
      BY <2>1, <3>1 DEF ListEdited
    <3> QED
      BY <1>2, <2>1, <3>2 DEF Kept, SeatsDiffer
  <2> QED
    BY <1>2, <1>3, <2>1 DEF SeatsDiffer
<1>7. \A id \in editor'.deleteIds : id \in editor.deleteIds \/ \E k \in DOMAIN s : s[k].id = id
  BY DEF ListEdited
<1>8. SeatsHaveRows'
  <2> SUFFICES ASSUME NEW j \in DOMAIN t
               PROVE  /\ t[j].id \notin editor'.deleteIds
                      /\ t[j].id # NoId => \E r \in stored.rows : r.id = t[j].id
    BY <1>3 DEF SeatsHaveRows
  <2>1. CASE t[j].id = NoId
    BY <1>4, <2>1
  <2>2. CASE t[j].id # NoId
    <3>1. PICK k \in DOMAIN s : Kept(t[j], s[k])
      BY <1>5, <2>2
    <3>2. \E r \in stored.rows : r.id = t[j].id
      BY <1>2, <2>2, <3>1 DEF Kept, SeatsHaveRows
    <3>3. ASSUME t[j].id \in editor'.deleteIds PROVE FALSE
      <4>1. t[j].id \notin editor.deleteIds
        BY <1>2, <3>1 DEF Kept, SeatsHaveRows
      <4>2. PICK n \in DOMAIN s : /\ t[j].id = s[n].id
                                  /\ \E m \in DOMAIN s \ {n} : Kept(t[j], s[m])
        BY <3>3, <4>1 DEF ListEdited
      <4> QED
        BY <1>2, <2>2, <4>2 DEF Kept, SeatsDiffer
    <3> QED
      BY <3>2, <3>3
  <2> QED
    BY <2>1, <2>2
<1>9. ASSUME NEW id \in Ids, ShownId(id)' PROVE ShownId(id)
  <2>1. CASE id \in editor'.deleteIds
    BY <1>7, <2>1 DEF ShownId
  <2>2. CASE \E j \in DOMAIN t : t[j].id = id
    <3>1. PICK j \in DOMAIN t : t[j].id = id
      BY <2>2
    <3>2. t[j].id # NoId
      BY <1>4, <3>1
    <3>3. PICK k \in DOMAIN s : Kept(t[j], s[k])
      BY <1>5, <3>2
    <3> QED
      BY <3>1, <3>3 DEF Kept, ShownId
  <2> QED
    BY <1>9, <2>1, <2>2 DEF ShownId
<1>10. SeatsStored'
  <2> SUFFICES ASSUME NEW j \in DOMAIN t, NEW e, e = t[j], ~e.changed
               PROVE  IsStored(e)'
    BY <1>3 DEF SeatsStored, IsStored, IsRowOf, ShownId, Sent
  <2>1. PICK k \in DOMAIN s : Kept(t[j], s[k])
    BY <1>5
  <2>2. ~s[k].changed /\ e.id = s[k].id /\ e.key = s[k].key
        /\ (e = s[k] \/ (e.rev = s[k].rev /\ e.astray))
    BY <2>1 DEF Kept
  <2>3. PICK r \in stored.rows : IsRowOf(e, r)
    BY <1>2, <2>2 DEF SeatsStored, IsStored, IsRowOf
  <2>4. r.id \in Ids
    BY <1>4 DEF Rows
  <2> QED
    BY <1>3, <1>9, <2>3, <2>4 DEF IsRowOf, IsStored
<1>11. SaveIsOfThePage'
  BY <1>3 DEF SaveIsOfThePage
<1> QED
  BY <1>6, <1>8, <1>10, <1>11

\* The page has the seats of the table.
LEMMA LoadedSeats ==
    ASSUME EditorInv, SeatsDiffer, NEW s \in SeatsOf(stored.rows), editor'.seats = s, editor'.deleteIds = {},
           UNCHANGED stored
    PROVE  SeatsDiffer' /\ SeatsHaveRows' /\ SeatsStored' /\ ChangedSeats' = {}
<1>1. stored.rows \in SUBSET Rows /\ IsFiniteSet(stored.rows)
  BY DEF EditorInv, EditorTypeOK, SavesCounted
<1>2. \A r, q \in stored.rows : r.id = q.id => r = q
  BY DEF SeatsDiffer
<1>3. /\ \A i \in DOMAIN s : \E r \in stored.rows : s[i] = newSpaceState(r)
      /\ \A i, j \in DOMAIN s : s[i].id = s[j].id => i = j
  BY <1>1, <1>2, SeatsOfRows
<1>4. \A i \in DOMAIN s : \E r \in stored.rows :
         /\ s[i].id = r.id /\ s[i].key = r.key /\ s[i].rev = r.rev /\ s[i].details = r.details /\ ~s[i].changed
         /\ r.id \in Ids /\ r.id # NoId
  BY <1>1, <1>3, EditorAssumption DEF newSpaceState, Seat, Rows, Ids
<1>5. SeatsDiffer'
  BY <1>2, <1>3 DEF SeatsDiffer
<1>6. SeatsHaveRows'
  BY <1>4 DEF SeatsHaveRows
<1>7. SeatsStored'
  BY <1>4 DEF SeatsStored, IsStored, IsRowOf
<1>8. ChangedSeats' = {}
  BY <1>4 DEF ChangedSeats
<1> QED
  BY <1>5, <1>6, <1>7, <1>8

\* What the server makes of a bulk request that nothing was refused of.
LEMMA UpdatedRows ==
    ASSUME EditorInv, NEW no \in BOOLEAN, Update(no), ~Forgiven'
    PROVE  /\ chain = "bulk" /\ ~Forgiven
           /\ stored'.rows = {Updated(r) : r \in Kepts} \cup Made
<1>0. EditorTyped
  BY TypedEditor DEF EditorInv
<1> USE <1>0 DEF EditorTyped
<1>1. stored'.gone = stored.gone /\ past'.touched = past.touched
      /\ past'.refused = (past.refused \/ (no /\ bulk.creates \cup bulk.updates # {}))
      /\ stored'.rows = (IF no THEN Kepts ELSE {Updated(r) : r \in Kepts}) \cup (IF no THEN {} ELSE Made)
  BY DEF Update, Servers, Pasts
<1>2. ~Forgiven /\ (no => bulk.creates = {} /\ bulk.updates = {})
  BY <1>1 DEF Forgiven
<1>3. CASE no
  <2>1. Made = {}
    BY <1>2, <1>3 DEF Made
  <2>2. \A r \in Kepts : Updated(r) = r
    BY <1>2, <1>3 DEF Updated, UpdatesOf
  <2> QED
    BY <1>1, <1>2, <1>3, <2>1, <2>2 DEF Update
<1> QED
  BY <1>1, <1>2, <1>3 DEF Update

LEMMA UpdateTracked ==
    ASSUME EditorInv, NEW no \in BOOLEAN, Update(no)
    PROVE  SeatsTracked'
<1> SUFFICES ASSUME ~Forgiven' PROVE SeatsDiffer' /\ SeatsHaveRows' /\ SeatsStored' /\ SaveIsOfThePage'
  BY DEF SeatsTracked
<1>0. EditorTyped /\ IdsKnown /\ SavesCounted
  <2>1. EditorTypeOK /\ IdsKnown /\ SavesCounted
    BY DEF EditorInv
  <2> QED
    BY <2>1, TypedEditor
<1> DEFINE s == editor.seats
<1>1. ~Forgiven /\ chain = "bulk" /\ stored'.rows = {Updated(r) : r \in Kepts} \cup Made
      /\ UNCHANGED <<editor, chain, reload, saves>>
  BY UpdatedRows DEF Update
<1>2. SeatsDiffer /\ SeatsHaveRows /\ SeatsStored /\ SaveIsOfThePage
  BY <1>1 DEF EditorInv, SeatsTracked
<1>3. bulk.creates = Creates /\ bulk.updates = Updates /\ bulk.deletes = editor.deleteIds /\ reload.at = "none"
  BY <1>1, <1>2 DEF SaveIsOfThePage
<1>4. MayCreate
  BY DEF Update, MayCreate
<1>5. /\ s \in Seq(Seats) /\ stored.rows \subseteq Rows /\ editor.deleteIds \subseteq Ids /\ NoId \notin Ids
      /\ saves \in Nat
  BY <1>0, EditorAssumption DEF EditorTyped, Editors, Servers, Ids
<1>6. /\ \A r \in stored.rows : r.id \in Ids /\ r.id[1] # saves
      /\ \A i \in DOMAIN s : s[i].id \in Ids => s[i].id[1] # saves
      /\ \A id \in editor.deleteIds : id[1] # saves
  <2>1. ASSUME NEW id \in Ids, Used(id) PROVE id[1] # saves
    BY <1>4, <2>1 DEF Used
  <2>2. ASSUME NEW r \in stored.rows PROVE r.id \in Ids /\ r.id[1] # saves
    <3>1. r \in Rows
      BY <1>5
    <3>2. r.id \in Ids /\ r.key \in 0 .. MaxEdits
      BY <3>1 DEF Rows
    <3>3. Carries(r.id, r.key)
      BY DEF Carries
    <3> QED
      BY <1>0, <2>1, <3>2, <3>3 DEF IdsKnown
  <2>3. ASSUME NEW i \in DOMAIN s, s[i].id \in Ids PROVE s[i].id[1] # saves
    <3>1. s[i] \in Seats
      BY <1>5
    <3>2. s[i].key \in 0 .. MaxEdits
      BY <3>1 DEF Seats
    <3>3. Carries(s[i].id, s[i].key)
      BY DEF Carries
    <3> QED
      BY <1>0, <2>1, <2>3, <3>2, <3>3 DEF IdsKnown
  <2>4. \A id \in editor.deleteIds : id[1] # saves
    BY <1>0, <1>5, <2>1 DEF IdsKnown
  <2> QED
    BY <2>2, <2>3, <2>4
<1>7. \A c \in bulk.creates : IdOf(c)[1] = saves /\ IdOf(c)[2] = c.place
  BY DEF IdOf
<1>8. \A r \in stored.rows : Updated(r).id = r.id
  BY UpdatedRow
<1>9. \A q \in stored'.rows : \/ \E r \in Kepts : q = Updated(r)
                              \/ \E c \in bulk.creates : q.id = IdOf(c) /\ q = RowMade(c)
  BY <1>1 DEF Made, RowMade
<1>10. ASSUME NEW p \in stored'.rows, NEW q \in stored'.rows, p.id = q.id
       PROVE  p = q
  <2>1. CASE (\E r \in Kepts : p = Updated(r)) /\ (\E r \in Kepts : q = Updated(r))
    <3>1. PICK r \in stored.rows, u \in stored.rows : p = Updated(r) /\ q = Updated(u)
      BY <2>1 DEF Kepts
    <3>2. r = u
      BY <1>2, <1>8, <1>10, <3>1 DEF SeatsDiffer
    <3> QED
      BY <3>1, <3>2
  <2>2. ASSUME NEW r \in Kepts, NEW c \in bulk.creates PROVE Updated(r).id # IdOf(c)
    BY <1>6, <1>7, <1>8 DEF Kepts
  <2>3. CASE /\ \E c \in bulk.creates : p.id = IdOf(c) /\ p = RowMade(c)
             /\ \E c \in bulk.creates : q.id = IdOf(c) /\ q = RowMade(c)
    <3>1. PICK c \in bulk.creates : p.id = IdOf(c) /\ p = RowMade(c)
      BY <2>3
    <3>2. PICK d \in bulk.creates : q.id = IdOf(d) /\ q = RowMade(d)
      BY <2>3
    <3>3. c = d
      <4>1. IdOf(c) = IdOf(d)
        BY <1>10, <3>1, <3>2
      <4>2. c.place = d.place
        BY <1>7, <4>1
      <4> QED
        BY <1>0, <4>2 DEF SavesCounted
    <3> QED
      BY <3>1, <3>2, <3>3
  <2> QED
    BY <1>9, <1>10, <2>1, <2>2, <2>3
<1>11. SeatsDiffer'
  BY <1>1, <1>2, <1>10 DEF SeatsDiffer
<1>12. ASSUME NEW r \in stored.rows, r.id \notin editor.deleteIds
       PROVE  Updated(r) \in stored'.rows
  BY <1>1, <1>3, <1>12 DEF Kepts
<1>13. SeatsHaveRows'
  <2> SUFFICES ASSUME NEW i \in DOMAIN s, s[i].id # NoId
               PROVE  \E q \in stored'.rows : q.id = s[i].id
    BY <1>1, <1>2 DEF SeatsHaveRows
  <2>1. PICK r \in stored.rows : r.id = s[i].id
    BY <1>2 DEF SeatsHaveRows
  <2>2. r.id \notin editor.deleteIds
    BY <1>2, <2>1 DEF SeatsHaveRows
  <2> QED
    BY <1>8, <1>12, <2>1, <2>2
<1>14. \A id : ShownId(id)' <=> ShownId(id)
  BY <1>1 DEF ShownId
<1>15. ASSUME NEW r \in stored.rows, UpdatesOf(r) # {}
       PROVE  \E j \in DOMAIN s : /\ s[j].changed /\ s[j].id = r.id /\ s[j].id # NoId
                                  /\ Updated(r).key = s[j].key /\ Updated(r).rev = s[j].rev
                                  /\ Updated(r).details = s[j].details
  <2>1. PICK u \in bulk.updates : /\ u.id = r.id /\ Updated(r).key = u.key
                                  /\ Updated(r).rev = u.rev /\ Updated(r).details = u.details
    BY <1>15, UpdatedRow
  <2> QED
    BY <1>3, <2>1 DEF Updates, ChangedSeats
<1>16. ASSUME NEW i \in DOMAIN s, NEW e, e = s[i] PROVE IsStored(e)'
  <2>1. CASE e.changed /\ e.id = NoId
    <3> DEFINE c == NewSeat(i)
               q == RowMade(c)
    <3>1. c \in bulk.creates
      BY <1>3, <1>16, <2>1 DEF Creates, ChangedSeats
    <3>2. q \in stored'.rows
      BY <1>1, <3>1 DEF Made
    <3>3. q.key = e.key /\ q.rev = e.rev /\ q.details = e.details
      BY <1>16 DEF NewSeat, RowMade
    <3>4. ~ShownId(q.id)
      <4>1. q.id = IdOf(c) /\ q.id[1] = saves
        BY <1>7, <3>1 DEF RowMade
      <4>2. q.id \in Ids
        BY <1>0, <1>5, <3>1, <4>1 DEF EditorTyped, Bulks, NewSeats, IdOf, Ids
      <4> QED
        BY <1>6, <4>1, <4>2 DEF ShownId
    <3> HIDE DEF q
    <3> QED
      BY <1>14, <2>1, <3>2, <3>3, <3>4 DEF IsStored, IsRowOf
  <2>2. CASE e.changed /\ e.id # NoId
    <3>1. PICK r \in stored.rows : r.id = e.id
      BY <1>2, <1>16, <2>2 DEF SeatsHaveRows
    <3>2. Updated(r) \in stored'.rows
      BY <1>2, <1>12, <1>16, <3>1 DEF SeatsHaveRows
    <3>3. e \in UpdatesOf(r)
      BY <1>3, <1>16, <2>2, <3>1 DEF UpdatesOf, Updates, ChangedSeats
    <3>4. PICK j \in DOMAIN s : /\ s[j].id = r.id
                                /\ Updated(r).key = s[j].key /\ Updated(r).rev = s[j].rev
                                /\ Updated(r).details = s[j].details
      BY <1>15, <3>3
    <3>5. j = i
      BY <1>2, <1>16, <2>2, <3>1, <3>4 DEF SeatsDiffer
    <3> QED
      BY <1>8, <1>16, <2>2, <3>1, <3>2, <3>4, <3>5 DEF IsStored, IsRowOf
  <2>3. CASE ~e.changed
    <3>1. PICK r \in stored.rows : IsRowOf(e, r)
      BY <1>2, <1>16, <2>3 DEF SeatsStored, IsStored
    <3>2. r.id \notin editor.deleteIds
      BY <1>2, <1>16, <3>1 DEF IsRowOf, ShownId, SeatsHaveRows
    <3>3. UpdatesOf(r) = {}
      <4> SUFFICES ASSUME UpdatesOf(r) # {} PROVE FALSE
        OBVIOUS
      <4>1. PICK j \in DOMAIN s : s[j].changed /\ s[j].id = r.id /\ s[j].id # NoId
        BY <1>15
      <4>2. CASE e.id = NoId
        BY <3>1, <4>1, <4>2 DEF IsRowOf, ShownId
      <4>3. CASE e.id # NoId
        <5>1. j = i
          BY <1>2, <1>16, <3>1, <4>1, <4>3 DEF IsRowOf, SeatsDiffer
        <5> QED
          BY <1>16, <2>3, <4>1, <5>1
      <4> QED
        BY <4>2, <4>3
    <3>4. r \in stored'.rows
      BY <1>12, <3>2, <3>3, UpdatedRow
    <3> QED
      BY <1>14, <3>1, <3>4 DEF IsStored, IsRowOf
  <2> QED
    BY <2>1, <2>2, <2>3, <1>5, <1>16 DEF Seats
<1>17. SeatsStored'
  <2> SUFFICES ASSUME NEW i \in DOMAIN editor'.seats, NEW e, e = editor'.seats[i]
               PROVE  IsStored(e)'
    BY DEF SeatsStored, IsStored, IsRowOf, ShownId, Sent
  <2> QED
    BY <1>1, <1>16
<1>18. SaveIsOfThePage'
  <2>1. /\ bulk'.creates = bulk.creates /\ bulk'.updates = bulk.updates /\ bulk'.deletes = bulk.deletes
    BY <1>0 DEF Update, EditorTyped, Bulks
  <2>2. Creates' = Creates /\ Updates' = Updates
    BY <1>1 DEF Creates, Updates, NewSeat, ChangedSeats
  <2> QED
    BY <1>1, <1>3, <2>1, <2>2 DEF SaveIsOfThePage
<1> QED
  BY <1>11, <1>13, <1>17, <1>18

LEMMA EditorTracks ==
    ASSUME EditorInv, EditorNext
    PROVE  SeatsTracked'
<1>0. EditorTyped
  BY TypedEditor DEF EditorInv
<1> USE <1>0 DEF EditorTyped
<1> DEFINE Tracks == SeatsDiffer' /\ SeatsHaveRows' /\ SeatsStored' /\ SaveIsOfThePage'
           Before == SeatsDiffer /\ SeatsHaveRows /\ SeatsStored /\ SaveIsOfThePage
           Same == /\ SeatsDiffer' /\ SeatsHaveRows' /\ SeatsStored'
                   /\ ChangedSeats' = ChangedSeats /\ Creates' = Creates /\ Updates' = Updates
<1>1. ~Forgiven => Before
  BY DEF EditorInv, SeatsTracked
<1>2. ASSUME ~Forgiven => (~Forgiven' => Tracks), Forgiven => Forgiven' PROVE SeatsTracked'
  BY <1>2 DEF SeatsTracked
<1>3. ASSUME Before, UNCHANGED <<editor.seats, editor.deleteIds, stored.rows>>, Sent' => Sent
      PROVE  Same
  BY <1>3, SameSeats
<1> HIDE DEF EditorTyped
<1>4. CASE loadData
  <2>1. PICK s \in SeatsOf(stored.rows) : editor' = [editor EXCEPT !.loading = FALSE, !.seats = s]
    BY <1>4 DEF loadData
  <2>2. editor'.seats = s /\ editor'.deleteIds = {} /\ UNCHANGED <<stored, chain, bulk, reload, past>>
        /\ chain = "none" /\ reload.at = "none"
    BY <1>0, <1>4, <2>1 DEF loadData, EditorTyped, Editors, EditorInv, SavesCounted
  <2>3. (Forgiven' <=> Forgiven)
    BY <2>2 DEF Forgiven
  <2>4. Before => Tracks
    BY <2>2, LoadedSeats DEF SaveIsOfThePage
  <2> QED
    BY <1>1, <1>2, <2>3, <2>4
<1>5. CASE onSubmit
  <2>1. editor'.seats = editor.seats /\ editor'.deleteIds = editor.deleteIds /\ chain' = "entity"
        /\ UNCHANGED <<stored, bulk, reload, past>>
    BY <1>0, <1>5 DEF onSubmit, EditorTyped, Editors
  <2>2. (Forgiven' <=> Forgiven) /\ ~Sent'
    BY <2>1 DEF Forgiven, Sent
  <2>3. Before => Tracks
    BY <1>3, <2>1, <2>2 DEF SaveIsOfThePage
  <2> QED
    BY <1>1, <1>2, <2>2, <2>3
<1>6. CASE entitySaved
  <2>1. /\ editor'.seats = editor.seats /\ editor'.deleteIds = editor.deleteIds
        /\ stored'.rows = stored.rows /\ stored'.gone = stored.gone /\ UNCHANGED reload
        /\ past'.touched = past.touched /\ past'.refused = past.refused
    BY <1>0, <1>6 DEF entitySaved, saveAttributes, Finished, EditorTyped, Editors, Servers, Pasts
  <2>2. \/ ChangedSeats = {} /\ editor.deleteIds = {} /\ chain' # "bulk"
        \/ /\ ~(ChangedSeats = {} /\ editor.deleteIds = {}) /\ chain' = "bulk"
           /\ bulk'.creates = Creates /\ bulk'.updates = Updates /\ bulk'.deletes = editor.deleteIds /\ ~bulk'.done
    BY <1>6 DEF entitySaved, saveSpaces, NoBulk
  <2>3. (Forgiven' <=> Forgiven) /\ ~Sent'
    BY <2>1, <2>2 DEF Forgiven, Sent
  <2>4. Before => Same
    BY <1>3, <2>1, <2>3
  <2>5. Before => Tracks
    BY <2>1, <2>2, <2>4 DEF SaveIsOfThePage
  <2> QED
    BY <1>1, <1>2, <2>3, <2>5
<1>7. CASE bulkUpdate
  BY <1>7, BulkUpdates, UpdateTracked
<1>8. CASE bulkAnswered
  <2>1. /\ Sent /\ chain' # "bulk" /\ UNCHANGED <<stored, reload, past>>
        /\ editor'.seats = [i \in DOMAIN editor.seats |-> [editor.seats[i] EXCEPT !.changed = FALSE]]
        /\ editor'.deleteIds = {} /\ chain = "bulk"
    BY <1>0, <1>8, AnsweredSeats DEF Finished, EditorTyped, Editors, Sent
  <2>2. /\ DOMAIN editor'.seats = DOMAIN editor.seats
        /\ \A i \in DOMAIN editor.seats : /\ editor'.seats[i].id = editor.seats[i].id
                                          /\ editor'.seats[i].key = editor.seats[i].key
                                          /\ editor'.seats[i].rev = editor.seats[i].rev
                                          /\ editor'.seats[i].details = editor.seats[i].details
                                          /\ editor'.seats[i].astray = editor.seats[i].astray
                                          /\ ~editor'.seats[i].changed
    <3>1. \A i \in DOMAIN editor.seats : editor.seats[i] \in Seats
      BY <1>0 DEF EditorTyped, Editors
    <3>2. DOMAIN editor'.seats = DOMAIN editor.seats
      BY <2>1
    <3>3. ASSUME NEW i \in DOMAIN editor.seats
          PROVE  editor'.seats[i] = [editor.seats[i] EXCEPT !.changed = FALSE]
      BY <2>1
    <3> QED
      BY <3>1, <3>2, <3>3 DEF Seats
  <2>3. Forgiven' <=> Forgiven
    BY <2>1 DEF Forgiven
  <2>4. ASSUME Before PROVE Tracks
    <3>1. SeatsDiffer' /\ SeatsHaveRows'
      <4>1. editor.seats \in Seq(Seats) /\ NoId \notin Ids
        BY <1>0, EditorAssumption DEF EditorTyped, Editors, Ids
      <4>2. SeatsDiffer'
        BY <2>1, <2>2, <2>4 DEF SeatsDiffer
      <4>3. stored' = stored /\ DOMAIN editor'.seats = DOMAIN editor.seats
        BY <2>1, <2>2
      <4>4. ASSUME NEW i \in DOMAIN editor.seats
            PROVE  /\ editor'.seats[i].id \notin editor'.deleteIds
                   /\ editor'.seats[i].id # NoId => \E r \in stored'.rows : r.id = editor'.seats[i].id
        BY <2>1, <2>2, <2>4, <4>3 DEF SeatsHaveRows
      <4>5. SeatsHaveRows'
        BY <4>3, <4>4 DEF SeatsHaveRows
      <4> QED
        BY <4>2, <4>5
    <3>2. \A id : ShownId(id)' => ShownId(id)
      BY <2>1, <2>2 DEF ShownId
    <3>3. ASSUME NEW i \in DOMAIN editor'.seats, NEW e, e = editor'.seats[i] PROVE IsStored(e)'
      <4>1. PICK r \in stored.rows : IsRowOf(editor.seats[i], r)
        BY <2>1, <2>2, <2>4 DEF SeatsStored, IsStored
      <4>2. /\ e.id = editor.seats[i].id /\ e.key = editor.seats[i].key /\ e.rev = editor.seats[i].rev
            /\ e.details = editor.seats[i].details /\ e.astray = editor.seats[i].astray
        BY <2>2, <3>3
      <4> QED
        BY <2>1, <3>2, <4>1, <4>2 DEF IsStored, IsRowOf
    <3>4. SeatsStored'
      <4> SUFFICES ASSUME NEW i \in DOMAIN editor'.seats, NEW e, e = editor'.seats[i]
                   PROVE  IsStored(e)'
        BY DEF SeatsStored, IsStored, IsRowOf, ShownId, Sent
      <4> QED
        BY <3>3
    <3>5. ChangedSeats' = {}
      BY <2>2 DEF ChangedSeats
    <3>6. reload.at = "none"
      BY <2>1, <2>4 DEF SaveIsOfThePage
    <3> QED
      BY <2>1, <3>1, <3>4, <3>5, <3>6 DEF SaveIsOfThePage
  <2> QED
    BY <1>1, <1>2, <2>3, <2>4
<1>9. CASE bulkFailed
  <2>1. /\ editor'.seats = editor.seats /\ editor'.deleteIds = editor.deleteIds
        /\ chain = "bulk" /\ chain' = "none" /\ UNCHANGED <<stored, reload>>
        /\ past'.touched = past.touched /\ past'.refused = past.refused
    BY <1>0, <1>9 DEF bulkFailed, onError, EditorTyped, Editors, Pasts
  <2>2. (Forgiven' <=> Forgiven) /\ ~Sent'
    BY <2>1 DEF Forgiven, Sent
  <2>3. Before => Tracks
    BY <1>3, <2>1, <2>2 DEF SaveIsOfThePage
  <2> QED
    BY <1>1, <1>2, <2>2, <2>3
<1>10. CASE mapStored
  <2>1. /\ editor'.seats = editor.seats /\ editor'.deleteIds = editor.deleteIds
        /\ chain = "map" /\ chain' = "none" /\ reload'.at = "asked" /\ UNCHANGED <<stored, bulk, past>>
    BY <1>0, <1>10 DEF mapStored, Finished, EditorTyped, Editors
  <2>2. (Forgiven' <=> Forgiven) /\ ~Sent'
    BY <2>1 DEF Forgiven, Sent
  <2>3. Before => Tracks
    BY <1>3, <2>1, <2>2 DEF SaveIsOfThePage
  <2> QED
    BY <1>1, <1>2, <2>2, <2>3
<1>11. CASE reloadRead
  <2>1. /\ reload.at = "asked" /\ reload'.at = "read" /\ reload'.rows = stored.rows
        /\ UNCHANGED <<editor, stored, chain, bulk, past>>
    BY <1>11 DEF reloadRead
  <2>2. (Forgiven' <=> Forgiven) /\ (Sent' => Sent)
    BY <2>1 DEF Forgiven, Sent
  <2>3. Before => Tracks
    BY <1>3, <2>1, <2>2 DEF SaveIsOfThePage
  <2> QED
    BY <1>1, <1>2, <2>2, <2>3
<1>12. CASE reloadAnswered
  <2>1. PICK s \in SeatsOf(reload.rows) : editor' = [editor EXCEPT !.seats = s]
    BY <1>12 DEF reloadAnswered
  <2>2. editor'.seats = s /\ editor'.deleteIds = editor.deleteIds /\ UNCHANGED <<stored, chain, bulk, past>>
        /\ reload.at = "read" /\ reload'.at = "none"
    BY <1>0, <1>12, <2>1 DEF reloadAnswered, NoReload, EditorTyped, Editors
  <2>3. Forgiven' <=> Forgiven
    BY <2>2 DEF Forgiven
  <2>4. ASSUME Before PROVE Tracks
    <3>1. reload.rows = stored.rows /\ editor'.deleteIds = {} /\ chain # "bulk"
      BY <2>2, <2>4 DEF SaveIsOfThePage
    <3>2. SeatsDiffer' /\ SeatsHaveRows' /\ SeatsStored' /\ ChangedSeats' = {}
      BY <2>1, <2>2, <2>4, <3>1, LoadedSeats
    <3> QED
      BY <2>2, <3>1, <3>2 DEF SaveIsOfThePage
  <2> QED
    BY <1>1, <1>2, <2>3, <2>4
<1>13. CASE reloadFailed
  <2>1. /\ reload'.at = "none" /\ UNCHANGED <<editor, stored, chain, bulk>>
        /\ past'.touched = past.touched /\ past'.refused = past.refused
    BY <1>0, <1>13 DEF reloadFailed, NoReload, EditorTyped, Pasts
  <2>2. (Forgiven' <=> Forgiven) /\ (Sent' => Sent) /\ reload.at = "asked"
    BY <1>13, <2>1 DEF Forgiven, Sent, reloadFailed
  <2>3. Before => Tracks
    BY <1>3, <2>1, <2>2 DEF SaveIsOfThePage
  <2> QED
    BY <1>1, <1>2, <2>2, <2>3
<1>14. CASE deleteItem
  <2>1. stored'.gone = TRUE
    BY <1>0, <1>14 DEF deleteItem, EditorTyped, Servers
  <2> QED
    BY <2>1 DEF SeatsTracked, Forgiven
<1> QED
  BY <1>4, <1>5, <1>6, <1>7, <1>8, <1>9, <1>10, <1>11, <1>12, <1>13, <1>14,
     ListActionsEdit, OthersAside, EditedTracked, AsideTracked DEF EditorNext, EditorAnswer

LEMMA EditorStutters ==
    ASSUME EditorInv, UNCHANGED editorVars
    PROVE  EditorInv'
<1> USE DEF editorVars
<1>1. EditorTypeOK' /\ SavesCounted'
  BY DEF EditorInv, EditorTypeOK, SavesCounted
<1>2. Aside
  BY DEF Aside
<1>3. IdsKnown' /\ SeatsTracked'
  BY <1>2, AsideIds, AsideTracked
<1>4. AttributeWaits' /\ AreaCounted'
  BY DEF EditorInv, AttributeWaits, AreaCounted
<1> QED
  BY <1>1, <1>3, <1>4 DEF EditorInv

LEMMA EditorStep == EditorInv /\ [EditorNext]_editorVars => EditorInv'
<1>1. ASSUME EditorInv, EditorNext PROVE EditorInv'
  BY <1>1, EditorTypes, EditorCounts, EditorIds, EditorTracks, EditorAttribute, EditorAreas DEF EditorInv
<1> QED
  BY <1>1, EditorStutters

\* The page that draws the seats of an area, its requests and the server's rows have their
\* types, whatever the administrator edits and whichever requests fail.
THEOREM EditorTypeCorrect == EditorSpec => []EditorTypeOK
<1>1. EditorInv => EditorTypeOK
  BY DEF EditorInv
<1> QED
  BY <1>1, EditorInitInv, EditorStep, PTL DEF EditorSpec

\* What the area editor of [id].tsx takes to be so is so on the server: a seat's id is that of
\* its row, a seat not marked as changed is stored as shown unless it was edited during a save
\* or refused, or shares the attributes of a copy that was edited; the area is there once unless
\* an answer was lost, and the last attribute stays.
THEOREM EditorIsKept == EditorSpec => []EditorKeepsTrack
  BY EditorPromise, EditorInitInv, EditorStep, PTL DEF EditorSpec

-----------------------------------------------------------------------------
(* The pages together                                                      *)
PagesInv == /\ DialogInv /\ FilterInv /\ EditorInv /\ BrowserInv /\ RoomIsLeft /\ PrefInv
            /\ SettingInv /\ BookingInv /\ LoginInv /\ UserInv /\ FactorInv /\ CacheInv

\* What each page promises, of MCPages' run.
PagePromises ==
    /\ OneWriteAtATime /\ ConfirmsWhatWasChecked /\ ListedIsApplied /\ EditorKeepsTrack
    /\ SessionLimit /\ PreferencesKept /\ SettingsKept /\ BookingIsThePicked
    /\ FactorIsOfTheAttempt /\ UserIsAsSaved /\ FactorsKept /\ CacheIsExplained

LEMMA PagesBegin == PagesInit => PagesInv
BY DialogBegins, FilterBegins, EditorInitInv, BrowserBegins, RoomBegins, PrefBegins,
   SettingsBegin, BookingBegins, LoginBegins, UserBegins, FactorBegins, CacheBegins
   DEF PagesInit, PagesInv

\* A step is one of the page that is open, and the others stutter.
LEMMA EachPageSteps ==
    ASSUME [PagesNext]_pagesVars
    PROVE  /\ [DialogNext]_dialogVars /\ [FilterNext]_filterVars /\ [EditorNext]_editorVars
           /\ [SessionsNext]_sessionVars /\ [PreferencesNext]_prefVars
           /\ [SettingsNext]_settingVars /\ [BookingEditorNext]_bookingVars
           /\ [LoginNext]_loginVars /\ [UserEditorNext]_userVars
           /\ [SecondFactorNext]_factorVars /\ [CacheNext]_cacheVars
<1>1. CASE UNCHANGED pagesVars
  BY <1>1 DEF pagesVars
<1>2. CASE PagesNext
  BY <1>2 DEF PagesNext, Dialog, Filter, Location, Browser, Preferences, Settings,
     BookingPage, Login, User, Security, ServerCache
<1> QED
  BY <1>1, <1>2

LEMMA PagesGoOn ==
    ASSUME PagesInv, [PagesNext]_pagesVars
    PROVE  PagesInv'
<1>1. DialogInv' /\ FilterInv' /\ EditorInv' /\ CacheInv'
  BY EachPageSteps, DialogGoesOn, FilterGoesOn, EditorStep, CacheInvStep DEF PagesInv
<1>2. BrowserInv' /\ RoomIsLeft'
  BY EachPageSteps, BrowserGoesOn, RoomGoesOn DEF PagesInv
<1>3. PrefInv' /\ SettingInv' /\ BookingInv'
  BY EachPageSteps, PrefGoesOn, SettingsGoOn, BookingGoesOn DEF PagesInv
<1>4. LoginInv' /\ UserInv' /\ FactorInv'
  BY EachPageSteps, LoginGoesOn, UserGoesOn, FactorGoesOn DEF PagesInv
<1> QED
  BY <1>1, <1>2, <1>3, <1>4 DEF PagesInv

LEMMA UserTyped ==
    ASSUME UserInv
    PROVE  UserTypeOK
BY DEF UserInv, UserTypes, UserTypeOK, UserForms, UserRows, StoredUsers, UserRequests

LEMMA PagesPromise ==
    ASSUME PagesInv
    PROVE  PagesTypeOK /\ PagePromises
<1>1. /\ DialogTypeOK /\ OneWriteAtATime /\ ConfirmsWhatWasChecked
      /\ FilterTypeOK /\ ListedIsApplied
  BY DialogPromise DEF PagesInv, FilterInv
<1>2. EditorTypeOK /\ EditorKeepsTrack /\ CacheTypeOK /\ CacheIsExplained
  BY EditorPromise DEF PagesInv, EditorInv, CacheInv
<1>3. SessionsTypeOK /\ SessionLimit
  BY RoomPromise DEF PagesInv, BrowserInv
<1>4. PreferencesTypeOK /\ PreferencesKept /\ SettingsTypeOK /\ SettingsKept
  BY PrefPromise, SettingsPromise DEF PagesInv, PrefInv, SettingInv
<1>5. BookingTypeOK /\ BookingIsThePicked /\ LoginTypeOK /\ FactorIsOfTheAttempt
  BY BookingPromise, LoginPromise DEF PagesInv
<1>6. UserTypeOK /\ UserIsAsSaved /\ SecondFactorTypeOK /\ FactorsKept
  BY UserTyped, UserPromise, FactorPromise DEF PagesInv
<1> QED
  BY <1>1, <1>2, <1>3, <1>4, <1>5, <1>6 DEF PagesTypeOK, PagePromises

LEMMA PagesInvHolds == PagesSpec => []PagesInv
<1>1. PagesInv /\ [PagesNext]_pagesVars => PagesInv'
  BY PagesGoOn
<1> QED
  BY <1>1, PagesBegin, PTL DEF PagesSpec

\* Whichever page is open, its variables have their types, whatever the user does on it and
\* whichever of its requests are answered, refused or lost.
THEOREM PagesTypeCorrect == PagesSpec => []PagesTypeOK
<1>1. PagesInv => PagesTypeOK
  BY PagesPromise
<1> QED
  BY <1>1, PagesInvHolds, PTL

\* The specification that the run checks is, for each page, a behaviour of that page: every
\* promise of a page is kept in it, and its browser stays logged in.
THEOREM PagesKeepTheirPromises == PagesSpec => []PagePromises /\ StaysLoggedIn
<1>1. PagesInv => PagePromises
  BY PagesPromise
<1>2. PagesInv /\ [PagesNext]_pagesVars =>
          [storage.pair # NoPair /\ storage'.pair = NoPair =>
             "excuse" \in happened']_sessionVars
  <2>1. PagesInv => BrowserInv
    BY DEF PagesInv
  <2> QED
    BY <2>1, EachPageSteps, LoggedOutExcused DEF Excused
<1> QED
  BY <1>1, <1>2, PagesInvHolds, PTL DEF PagesSpec, StaysLoggedIn
=============================================================================

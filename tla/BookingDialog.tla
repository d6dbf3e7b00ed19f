----------------------------- MODULE BookingDialog -----------------------------
(***************************************************************************)
(* The dialog of the search page that books a space or cancels a booking   *)
(* of it: the period or slot is checked with the server each time it       *)
(* moves, a recurrence is checked when it is applied, and the booking is    *)
(* sent once.  Closing the dialog stops none of the requests.              *)
(***************************************************************************)
EXTENDS Integers, FiniteSets

CONSTANTS Spaces, Fixed,      \* spaces, and those booked by slots
          Ranges,             \* periods or slots of the day
          NoSpace,
          MaxRequests, MaxAtWork  \* bounds on the requests sent, and out at a time

ASSUME DialogAssumption ==
    /\ Fixed \subseteq Spaces /\ NoSpace \notin Spaces
    /\ MaxRequests \in Nat /\ MaxAtWork \in Nat

VARIABLES selectedSpace, range,  \* modalEnter and modalLeave, or the slot
          showConfirm, message,  \* showSuccess and showError
          slotChosen,            \* modalSelectedSlotId is not empty
          open,                  \* what the status of the day leaves open of the space
          modalAvailabilityLoading, modalSpaceAvailable,
          recurrence,            \* [active, checked, finalNumBookings, loading]
          confirmingBooking,
          requests, requestsSent, modalSeq,
          answered,              \* what the server said was free since the dialog opened
          uncaught               \* a request failed and nobody noticed

dialogVars == <<selectedSpace, range, showConfirm, message, slotChosen, open,
                modalAvailabilityLoading, modalSpaceAvailable, recurrence,
                confirmingBooking, requests, requestsSent, modalSeq, answered, uncaught>>
check == <<modalAvailabilityLoading, modalSpaceAvailable, modalSeq, open, answered>>
target == <<selectedSpace, range, slotChosen>>

\* Cadence, cycle, weekdays and end are what is sent, and change nothing here.
NoRecurrence ==
    [active |-> FALSE, checked |-> FALSE, finalNumBookings |-> 0, loading |-> FALSE]
Recurrences == [active : BOOLEAN, checked : BOOLEAN, finalNumBookings : 0 .. 1,
                loading : BOOLEAN]
Requests == [id : 1 .. MaxRequests,
             fn : {"status", "availability", "precheck", "save", "series", "delete"},
             space : Spaces \cup {NoSpace}, range : Ranges \cup {NoSpace}]

Ask(fn) == [id |-> requestsSent + 1, fn |-> fn, space |-> NoSpace, range |-> NoSpace]
MayAsk == requestsSent < MaxRequests /\ Cardinality(requests) < MaxAtWork
AskFor(fn) == /\ MayAsk /\ requests' = requests \cup {Ask(fn)}
              /\ requestsSent' = requestsSent + 1
Then(r, fn) == /\ requests' = (requests \ {r}) \cup {[r EXCEPT !.fn = fn]}
               /\ UNCHANGED requestsSent
Done(r) == requests' = requests \ {r} /\ UNCHANGED requestsSent

DialogInit ==
    /\ selectedSpace = NoSpace /\ range = NoSpace /\ slotChosen = FALSE
    /\ showConfirm = FALSE /\ message = "none" /\ open = Ranges
    /\ modalAvailabilityLoading = FALSE /\ modalSpaceAvailable = TRUE
    /\ recurrence = NoRecurrence /\ confirmingBooking = FALSE
    /\ requests = {} /\ requestsSent = 0 /\ modalSeq = 0
    /\ answered = {} /\ uncaught = FALSE

-----------------------------------------------------------------------------
\* checkModalAvailability(enter, leave) of space s begins.
checkModalAvailability(s, r) ==
    /\ MayAsk
    /\ modalSeq' = requestsSent + 1 /\ modalAvailabilityLoading' = TRUE
    /\ requests' = requests \cup
          {[id |-> requestsSent + 1, fn |-> "status", space |-> s, range |-> r]}
    /\ requestsSent' = requestsSent + 1

isCurrentRequest(r) == modalSeq = r.id /\ selectedSpace = r.space /\ range = r.range

\* The period of the page, or the first slot that is open.  What the page knows of the
\* space may be old.
initializeModalBookingRange(s) ==
    \E known \in SUBSET Ranges, r \in Ranges :
        /\ open' = known /\ range' = r
        /\ slotChosen' = (s \in Fixed /\ known # {})
        /\ slotChosen' => r \in known

\* A space may be opened though it is booked, for its bookings.
onSpaceSelect(s) ==
    /\ ~showConfirm /\ message = "none"
    /\ selectedSpace' = s /\ showConfirm' = TRUE
    /\ initializeModalBookingRange(s) /\ modalSpaceAvailable' \in BOOLEAN
    /\ recurrence' = NoRecurrence /\ answered' = {}
    /\ IF s \notin Fixed \/ slotChosen' THEN checkModalAvailability(s, range')
       ELSE /\ modalAvailabilityLoading' = FALSE
            /\ UNCHANGED <<requests, requestsSent, modalSeq>>
    /\ UNCHANGED <<message, confirmingBooking, uncaught>>

\* The controls of the dialog: another period, or any of the slots that are open.
OfferedRanges ==
    IF open = {} THEN {} ELSE IF selectedSpace \in Fixed THEN open ELSE Ranges \ {range}

\* Checked again, and what the precheck found is forgotten but for the number of bookings.
updateModalBookingRange(r) ==
    /\ showConfirm /\ r \in OfferedRanges
    /\ range' = r /\ slotChosen' = (selectedSpace \in Fixed)
    /\ checkModalAvailability(selectedSpace, r)
    /\ modalSpaceAvailable' = FALSE
    /\ recurrence' = [recurrence EXCEPT !.checked = FALSE]
    /\ UNCHANGED <<selectedSpace, showConfirm, message, open, confirmingBooking, answered, uncaught>>

\* The status of the day is read anew; the period must be open by it before the server
\* is asked for the space.  If it cannot be read, the one there is has to do.
statusAnswered(r) ==
    /\ r.fn = "status"
    /\ \/ /\ isCurrentRequest(r)
          /\ open' \in SUBSET Ranges
          /\ IF r.range \in open'
             THEN /\ Then(r, "availability")
                  /\ UNCHANGED <<modalAvailabilityLoading, modalSpaceAvailable>>
             ELSE /\ modalAvailabilityLoading' = FALSE /\ modalSpaceAvailable' = FALSE
                  /\ Done(r)
       \/ /\ ~isCurrentRequest(r) /\ Done(r)
          /\ UNCHANGED <<open, modalAvailabilityLoading, modalSpaceAvailable>>
    /\ UNCHANGED <<target, showConfirm, message, recurrence, confirmingBooking, modalSeq, answered, uncaught>>

\* The space is free, or not, or the request failed, which counts as not.
availabilityAnswered(r) ==
    /\ r.fn = "availability" /\ Done(r)
    /\ \/ /\ isCurrentRequest(r) /\ modalAvailabilityLoading' = FALSE
          /\ modalSpaceAvailable' \in BOOLEAN
          /\ answered' = IF modalSpaceAvailable' THEN answered \cup {<<r.space, r.range>>}
                         ELSE answered
       \/ /\ ~isCurrentRequest(r)
          /\ UNCHANGED <<modalAvailabilityLoading, modalSpaceAvailable, answered>>
    /\ UNCHANGED <<target, showConfirm, message, open, recurrence, confirmingBooking, modalSeq, uncaught>>

getModalBookingError ==
    \/ open = {} \/ range \notin open
    \/ selectedSpace \in Fixed /\ ~slotChosen
    \/ ~modalSpaceAvailable

-----------------------------------------------------------------------------
\* The form of the recurrence: its cadence "never" makes the booking a single one.
RecurrenceOptions == {[recurrence EXCEPT !.active = repeat] : repeat \in BOOLEAN}

\* Any of them forgets what the precheck found.
onRecurrenceOptionsChanged ==
    /\ showConfirm
    /\ \E options \in RecurrenceOptions : recurrence' = [options EXCEPT !.checked = FALSE]
    /\ UNCHANGED <<target, showConfirm, message, check, confirmingBooking, requests, requestsSent, uncaught>>

\* The buttons of that form.
RecurrenceButtons == showConfirm /\ ~recurrence.loading

resetRecurrence ==
    /\ RecurrenceButtons /\ recurrence' = NoRecurrence
    /\ UNCHANGED <<target, showConfirm, message, check, confirmingBooking, requests, requestsSent, uncaught>>

\* The button "apply": a precheck, unless there is one and the user applies it anyway.
applyRecurrence ==
    /\ RecurrenceButtons
    /\ IF recurrence.active /\ ~recurrence.checked
       THEN /\ recurrence' = [recurrence EXCEPT !.loading = TRUE] /\ AskFor("precheck")
       ELSE /\ recurrence' = [recurrence EXCEPT !.checked = FALSE]
            /\ UNCHANGED <<requests, requestsSent>>
    /\ UNCHANGED <<target, showConfirm, message, check, confirmingBooking, uncaught>>

\* The answer is written into the recurrence as it is by then.
precheckAnswered(r) ==
    /\ r.fn = "precheck" /\ Done(r)
    /\ \E n \in 0 .. 1 :
         recurrence' = [recurrence EXCEPT !.loading = FALSE, !.finalNumBookings = n,
                                          !.checked = TRUE]
    /\ UNCHANGED <<target, showConfirm, message, check, confirmingBooking, uncaught>>

-----------------------------------------------------------------------------
\* Mutants of ConfirmEnabled: while the space is being checked; while a request that writes
\* is out.
ConfirmEnabledUnchecked ==
    /\ ~confirmingBooking /\ ~getModalBookingError
    /\ recurrence.active => recurrence.finalNumBookings > 0
ConfirmEnabledTwice ==
    /\ ~modalAvailabilityLoading /\ ~getModalBookingError
    /\ recurrence.active => recurrence.finalNumBookings > 0

\* The button of the dialog's form, which the key Enter presses too.
ConfirmEnabled ==
    /\ ~confirmingBooking /\ ~modalAvailabilityLoading /\ ~getModalBookingError
    /\ recurrence.active => recurrence.finalNumBookings > 0

onConfirmBooking ==
    /\ showConfirm /\ ConfirmEnabled /\ selectedSpace # NoSpace
    /\ confirmingBooking' = TRUE /\ AskFor("save")
    /\ UNCHANGED <<target, showConfirm, message, check, recurrence, uncaught>>

saveAnswered(r) ==
    /\ r.fn = "save" /\ Done(r)
    /\ confirmingBooking' = FALSE /\ showConfirm' = FALSE
    /\ message' \in {"success", "error"}
    /\ UNCHANGED <<target, check, recurrence, uncaught>>

\* The list of the space's bookings offers to cancel those of the user ...
MayCancel == showConfirm /\ ~confirmingBooking

\* ... each alone, or with its whole series, which is read first.
cancelBooking ==
    /\ MayCancel
    /\ confirmingBooking' = TRUE /\ (AskFor("series") \/ AskFor("delete"))
    /\ UNCHANGED <<target, showConfirm, message, check, recurrence, uncaught>>

seriesRead(r) ==
    /\ r.fn = "series" /\ Then(r, "delete")
    /\ UNCHANGED <<target, showConfirm, message, check, recurrence, confirmingBooking, uncaught>>

\* Cancelled or refused: the dialog closes (and refreshPage of SearchPage follows).
deleteAnswered(r) ==
    /\ r.fn = "delete" /\ Done(r)
    /\ selectedSpace' = NoSpace /\ showConfirm' = FALSE /\ confirmingBooking' = FALSE
    /\ UNCHANGED <<range, slotChosen, message, check, recurrence, uncaught>>

\* The only button left of the message (after a success, refreshPage follows).
messageRead ==
    /\ message # "none" /\ message' = "none"
    /\ UNCHANGED <<target, showConfirm, check, recurrence, confirmingBooking, requests,
                   requestsSent, uncaught>>

closeDialog ==
    /\ showConfirm /\ showConfirm' = FALSE
    /\ UNCHANGED <<target, message, check, recurrence, confirmingBooking, requests, requestsSent, uncaught>>

\* The requests whose failure is not caught.
RequestFails(r) ==
    /\ r.fn \in {"precheck", "series"} /\ Done(r) /\ uncaught' = TRUE
    /\ UNCHANGED <<target, showConfirm, message, check, recurrence, confirmingBooking>>

DialogAnswer(r) ==
    \/ statusAnswered(r) \/ availabilityAnswered(r) \/ precheckAnswered(r) \/ saveAnswered(r)
    \/ seriesRead(r) \/ deleteAnswered(r) \/ RequestFails(r)

DialogAnswers == \E r \in requests : DialogAnswer(r)

DialogNext ==
    \/ \E s \in Spaces : onSpaceSelect(s)
    \/ \E r \in Ranges : updateModalBookingRange(r)
    \/ onRecurrenceOptionsChanged \/ resetRecurrence \/ applyRecurrence \/ onConfirmBooking \/ cancelBooking
    \/ messageRead \/ closeDialog
    \/ DialogAnswers

DialogSpec == /\ DialogInit /\ [][DialogNext]_dialogVars
              /\ WF_dialogVars(DialogAnswers)

-----------------------------------------------------------------------------
DialogTypeOK ==
    /\ selectedSpace \in Spaces \cup {NoSpace} /\ range \in Ranges \cup {NoSpace}
    /\ slotChosen \in BOOLEAN /\ showConfirm \in BOOLEAN
    /\ message \in {"none", "success", "error"} /\ open \subseteq Ranges
    /\ modalAvailabilityLoading \in BOOLEAN /\ modalSpaceAvailable \in BOOLEAN
    /\ recurrence \in Recurrences
    /\ confirmingBooking \in BOOLEAN
    /\ requests \subseteq Requests /\ requestsSent \in 0 .. MaxRequests
    /\ modalSeq \in 0 .. MaxRequests /\ answered \subseteq Spaces \X Ranges
    /\ uncaught \in BOOLEAN

\* The button "confirm" is enabled only for a space and a period of which the server has
\* said, since the dialog was opened, that they are free: neither what the page knew, nor
\* an answer to an earlier period or an earlier dialog, will do.
ConfirmsWhatWasChecked ==
    showConfirm /\ ConfirmEnabled => <<selectedSpace, range>> \in answered

\* Of all the requests on their way at most one books or cancels, though the dialog can
\* be closed and opened again while it is.
OneWriteAtATime ==
    \A r, s \in requests : {r.fn, s.fn} \subseteq {"save", "series", "delete"} => r = s

\* In the end the dialog waits for nothing, unless a request failed that
\* nobody catches: the check, which the dialog of another space replaces, the booking or
\* cancellation, and the precheck.
DialogRecovered ==
    /\ modalAvailabilityLoading => selectedSpace = NoSpace
    /\ confirmingBooking \/ recurrence.loading => uncaught
=============================================================================

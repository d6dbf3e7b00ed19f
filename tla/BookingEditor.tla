---------------------------- MODULE BookingEditor ----------------------------
(***************************************************************************)
(* The administrator's form of one booking, new or stored.  A new date      *)
(* takes effect a second after it was picked, unless another one is picked  *)
(* until then: both pickers share one timer.  Each change of the area or of *)
(* the dates asks for the spaces again, and the answers are shown in the    *)
(* order in which they arrive.  Nothing keeps the user from saving again    *)
(* while a request to save is out.                                         *)
(*                                                                         *)
(* An area has one space, which is named by its area.  Times are hours.     *)
(***************************************************************************)
EXTENDS Integers, FiniteSets

CONSTANTS Areas, NoArea, BookingUsers, Self, NoUser,
          UtcOffsets,   \* of browsers, in hours
          LastHour, MaxBookingEdits, MaxBookingSaves, MaxBookingOut   \* bounds

ASSUME BookingEditorAssumption ==
    /\ UtcOffsets \subseteq Int
    /\ NoArea \notin Areas /\ NoUser \notin BookingUsers /\ Self \in BookingUsers
    /\ {LastHour, MaxBookingEdits, MaxBookingSaves, MaxBookingOut} \subseteq Nat /\ LastHour > 0

VARIABLES bookingEditor,         \* this.state
          isNewBooking, entityId,
          changeTimer,    \* leaveChangeTimer: what the pending change sets
          spaceLists,     \* the requests for spaces
          bookingSaves,   \* the requests to save or to delete
          bookingRows,    \* the bookings of this form on the server, by id
          bookingEdits, bookingSent,
          picked,         \* the dates the user picked last
          bookingSeen     \* what has happened: see BookingSeenTypeOK

bookingVars == <<bookingEditor, isNewBooking, entityId, changeTimer, spaceLists, bookingSaves,
                 bookingRows, bookingEdits, bookingSent, picked, bookingSeen>>
bookingRequests == <<bookingSaves, bookingRows, bookingSent>>
bookingEntity == <<isNewBooking, entityId>>

Hours == 1 .. LastHour             \* an hour ends with the next
Leaves == {h + 1 : h \in Hours}
NoPick == <<0, 0>>
Listing(a, enter, leave) == [location |-> a, enter |-> enter, leave |-> leave]
NoListing == Listing(NoArea, 0, 0)
BookingOf(e) == [space |-> e.space, enter |-> e.enter, leave |-> e.leave, user |-> e.user]
Sees(what) == bookingSeen' = bookingSeen \cup what

\* loadSpaces: the answers are not told apart.
loadSpaces(a, enter, leave) ==
    /\ spaceLists' = spaceLists \cup {Listing(a, enter, leave)}
    /\ bookingSeen' = (bookingSeen \ {"shifted"}) \cup (IF spaceLists # {} THEN {"lists"} ELSE {})

\* The page has loaded: a stored booking, with its spaces still out, which can be edited if
\* it is not over; or a new one with the dates of the preferences.  The dates of a stored
\* booking are in UTC: the form gets them as the local times of the same name (convertToUTC),
\* but the first list is asked for with what the browser makes of them where it is.
PreferredDates == <<1, 2>>
updateCanSearch(enter, leave) == enter < leave
BookingForm(dates, user, location, canEdit, canSearch) ==
    [enter |-> dates[1], leave |-> dates[2], user |-> user, location |-> location,
     space |-> location, spaces |-> NoListing, isDisabledSpace |-> FALSE,
     canEdit |-> canEdit, canSearch |-> canSearch, saved |-> FALSE, goBack |-> FALSE]
StoredForm(user, location, canEdit) == BookingForm(<<1, 2>>, user, location, canEdit, FALSE)
NewForm == BookingForm(PreferredDates, NoUser, NoArea, TRUE, FALSE)
BookingEditorInit ==
    /\ \/ /\ bookingEditor = NewForm /\ isNewBooking = TRUE /\ entityId = 0
          /\ bookingRows = <<>> /\ spaceLists = {} /\ bookingSeen = {}
       \/ /\ \E user \in BookingUsers, location \in Areas, canEdit \in BOOLEAN :
                bookingEditor = StoredForm(user, location, canEdit)
          /\ isNewBooking = FALSE /\ entityId = 1
          /\ bookingRows = [id \in {entityId} |-> BookingOf(bookingEditor)]
          /\ \E offset \in UtcOffsets :
                /\ spaceLists = {Listing(bookingEditor.location, bookingEditor.enter + offset,
                                         bookingEditor.leave + offset)}
                /\ bookingSeen = IF offset = 0 THEN {} ELSE {"shifted"}
    /\ picked = <<bookingEditor.enter, bookingEditor.leave>>
    /\ changeTimer = NoPick /\ bookingSaves = {}
    /\ bookingEdits = 0 /\ bookingSent = 0

-----------------------------------------------------------------------------
FormOpen == bookingEditor.canEdit /\ ~bookingEditor.goBack
FewOut == Cardinality(spaceLists) + Cardinality(bookingSaves) < MaxBookingOut
Edits == /\ FormOpen /\ bookingEdits < MaxBookingEdits /\ FewOut
         /\ bookingEdits' = bookingEdits + 1

\* The timer keeps the later of two changes only.  0 stands for a date it does not set.
Picks(enter, leave) ==
    /\ changeTimer' = <<enter, leave>>
    /\ Sees(IF changeTimer[1] > 0 /\ enter = 0 THEN {"form"} ELSE {})
    /\ UNCHANGED <<bookingEditor, bookingEntity, spaceLists, bookingRequests>>
setEnterDate ==
    /\ Edits /\ \E enter \in Hours :
                    Picks(enter, enter + 1) /\ picked' = <<enter, enter + 1>>
setLeaveDate ==
    /\ Edits /\ \E enter \in Hours :
                    Picks(0, enter + 1) /\ picked' = [picked EXCEPT ![2] = enter + 1]

performChange ==
    LET enter == IF changeTimer[1] > 0 THEN changeTimer[1] ELSE bookingEditor.enter
    IN /\ changeTimer # NoPick /\ ~bookingEditor.goBack
       /\ bookingEditor' = [bookingEditor EXCEPT !.enter = enter, !.leave = changeTimer[2],
                                   !.isDisabledSpace = TRUE,
                                   !.canSearch = updateCanSearch(enter, changeTimer[2])]
       /\ IF bookingEditor.location # NoArea THEN loadSpaces(bookingEditor.location, enter, changeTimer[2])
                                      ELSE UNCHANGED <<spaceLists, bookingSeen>>
       /\ changeTimer' = NoPick
       /\ UNCHANGED <<bookingEntity, bookingRequests, bookingEdits, picked>>

selectLocation(a) ==
    /\ Edits /\ a # bookingEditor.location
    /\ bookingEditor' = [bookingEditor EXCEPT !.location = a, !.space = NoArea, !.isDisabledSpace = FALSE]
    /\ loadSpaces(a, bookingEditor.enter, bookingEditor.leave)
    /\ UNCHANGED <<bookingEntity, changeTimer, bookingRequests, picked>>

\* A space of the list that is shown, if no one else has booked it.
selectSpace ==
    /\ Edits /\ ~bookingEditor.isDisabledSpace /\ bookingEditor.spaces.location # NoArea
    /\ bookingEditor' = [bookingEditor EXCEPT !.space = bookingEditor.spaces.location]
    /\ Sees(IF bookingEditor.spaces.location # bookingEditor.location THEN {"form"} ELSE {})
    /\ UNCHANGED <<bookingEntity, changeTimer, spaceLists, bookingRequests, picked>>

onSearchSelected(u) ==
    /\ Edits /\ u # bookingEditor.user /\ bookingEditor' = [bookingEditor EXCEPT !.user = u]
    /\ UNCHANGED <<bookingEntity, changeTimer, spaceLists, bookingRequests, picked, bookingSeen>>

\* A list that cannot be loaded leaves the page as it is.
spacesAnswered(l) ==
    /\ spaceLists' = spaceLists \ {l}
    /\ \/ bookingEditor' = [bookingEditor EXCEPT !.spaces = l, !.isDisabledSpace = FALSE] /\ UNCHANGED bookingSeen
       \/ UNCHANGED bookingEditor /\ Sees({"lists"})
    /\ UNCHANGED <<bookingEntity, changeTimer, bookingRequests, bookingEdits, picked>>

-----------------------------------------------------------------------------
\* Mutant of Sends: what is saved is always new.
SendsNew(kind, id, form) ==
    /\ bookingSent < MaxBookingSaves /\ FewOut /\ bookingSent' = bookingSent + 1
    /\ bookingSaves' = bookingSaves \cup
           {[no |-> bookingSent', kind |-> kind, at |-> "sent", form |-> form,
             id |-> IF kind = "save" THEN 0 ELSE id]}

Sends(kind, id, form) ==
    /\ bookingSent < MaxBookingSaves /\ FewOut /\ bookingSent' = bookingSent + 1
    /\ bookingSaves' = bookingSaves \cup
           {[no |-> bookingSent', kind |-> kind, at |-> "sent", id |-> id, form |-> form]}
Moves(q, r) == bookingSaves' = (bookingSaves \ {q}) \cup {r}

\* The browser wants the area and the space; a stored booking needs its user.  Dates that
\* cannot be (canSearch) are told, and sent.  The entity goes to its id if it has one by now.
bookingSubmit ==
    /\ FormOpen /\ bookingEditor.location # NoArea /\ bookingEditor.space # NoArea
    /\ bookingEditor' = [bookingEditor EXCEPT !.saved = FALSE]
    /\ IF bookingEditor.user = NoUser /\ ~isNewBooking
       THEN UNCHANGED <<bookingSaves, bookingSent, bookingSeen>>
       ELSE /\ Sends("save", entityId,
                     BookingOf([bookingEditor EXCEPT !.user = IF @ = NoUser THEN Self ELSE @]))
            /\ Sees((IF bookingSaves # {} THEN {"saves"} ELSE {})
                    \cup (IF changeTimer # NoPick THEN {"form"} ELSE {}))
    /\ UNCHANGED <<bookingEntity, changeTimer, spaceLists, bookingRows, bookingEdits, picked>>

deleteBooking ==
    /\ FormOpen /\ entityId # 0 /\ Sends("delete", entityId, BookingOf(bookingEditor))
    /\ Sees(IF bookingSaves # {} THEN {"saves"} ELSE {})
    /\ UNCHANGED <<bookingEditor, bookingEntity, changeTimer, spaceLists, bookingRows, bookingEdits,
                   picked>>

\* The server takes the booking, if it ends after it begins, or refuses it for its reasons.
bookingServed(q) ==
    /\ q.at = "sent"
    /\ \/ Moves(q, [q EXCEPT !.at = "refused"]) /\ UNCHANGED bookingRows
       \/ /\ q.kind = "save" /\ (q.id = 0 \/ q.id \in DOMAIN bookingRows)
          /\ q.form.enter < q.form.leave
          /\ LET id == IF q.id = 0 THEN q.no + 1 ELSE q.id
             IN /\ bookingRows' = [i \in DOMAIN bookingRows \cup {id} |->
                                    IF i = id THEN q.form ELSE bookingRows[i]]
                /\ Moves(q, [q EXCEPT !.at = "done", !.id = id])
       \/ /\ q.kind = "delete" /\ q.id \in DOMAIN bookingRows
          /\ bookingRows' = [i \in DOMAIN bookingRows \ {q.id} |-> bookingRows[i]]
          /\ Moves(q, [q EXCEPT !.at = "done"])
    /\ UNCHANGED <<bookingEditor, bookingEntity, changeTimer, spaceLists, bookingSent, bookingEdits,
                   picked, bookingSeen>>

\* saveEntity keeps the id; a request that fails to delete is not caught.
bookingAnswered(q) ==
    /\ q.at # "sent" /\ bookingSaves' = bookingSaves \ {q}
    /\ \/ /\ q.at = "done" /\ q.kind = "save"
          /\ entityId' = q.id /\ isNewBooking' = FALSE
          /\ bookingEditor' = [bookingEditor EXCEPT !.saved = TRUE,
                            !.user = IF isNewBooking THEN q.form.user ELSE @,
                            !.isDisabledSpace = @ /\ ~isNewBooking]
          /\ UNCHANGED bookingSeen
       \/ /\ q.at = "done" /\ q.kind = "delete"
          /\ bookingEditor' = [bookingEditor EXCEPT !.goBack = TRUE]
          /\ UNCHANGED <<bookingEntity, bookingSeen>>
       \/ /\ bookingEditor' = IF q.kind = "save" THEN [bookingEditor EXCEPT !.saved = FALSE]
                                          ELSE bookingEditor
          /\ Sees(IF q.at = "done" THEN {"saves"} ELSE {})
          /\ UNCHANGED bookingEntity
    /\ UNCHANGED <<changeTimer, spaceLists, bookingRows, bookingSent, bookingEdits, picked>>

-----------------------------------------------------------------------------
BookingEditorAnswers == \/ performChange
                        \/ \E l \in spaceLists : spacesAnswered(l)
                        \/ \E q \in bookingSaves : bookingServed(q) \/ bookingAnswered(q)
BookingEditorNext ==
    \/ setEnterDate \/ setLeaveDate \/ selectSpace \/ bookingSubmit \/ deleteBooking
    \/ \E a \in Areas : selectLocation(a)
    \/ \E u \in BookingUsers \cup {NoUser} : onSearchSelected(u)
    \/ BookingEditorAnswers
BookingEditorSpec == /\ BookingEditorInit /\ [][BookingEditorNext]_bookingVars
                     /\ WF_bookingVars(BookingEditorAnswers)

-----------------------------------------------------------------------------
BookingSeenTypeOK ==
    bookingSeen \subseteq
        {"shifted",  \* the list of the page as it was loaded is not that of its dates, and
                     \* no other has been asked for
         "lists",    \* a list was asked for while another one was, or was lost
         "form",     \* the other picker has taken the timer, a space of the area before
                     \* was selected, or the form was saved while the timer ran
         "saves"}    \* saved or deleted while another request was out, or an answer lost
BookingForms == [space : Areas, enter : Hours, leave : Leaves, user : BookingUsers \cup {NoUser}]
BookingTypeOK ==
    /\ bookingEditor \in [enter : Hours, leave : Leaves, user : BookingUsers \cup {NoUser},
                   location : Areas \cup {NoArea}, space : Areas \cup {NoArea},
                   spaces : [location : Areas, enter : Int, leave : Int] \cup {NoListing},
                   isDisabledSpace : BOOLEAN, canEdit : BOOLEAN, canSearch : BOOLEAN,
                   saved : BOOLEAN, goBack : BOOLEAN]
    /\ isNewBooking \in BOOLEAN /\ entityId \in 0 .. MaxBookingSaves + 1
    /\ changeTimer \in (Hours \cup {0}) \X (Leaves \cup {0})
    /\ \A l \in spaceLists : l \in [location : Areas, enter : Int, leave : Int]
    /\ \A q \in bookingSaves : q.at \in {"sent", "done", "refused"}
    /\ \A i \in DOMAIN bookingRows : bookingRows[i] \in BookingForms
    /\ BookingSeenTypeOK

\* The spaces offered are those of the area and of the dates of the form, once the changes
\* have been carried out, if no list has overtaken another or was lost; and with the first
\* list of a stored booking only in a browser that is in UTC.
ListIsOfTheForm ==
    spaceLists = {} /\ bookingSeen \cap {"lists", "shifted"} = {}
    /\ bookingEditor.location # NoArea /\ ~bookingEditor.isDisabledSpace
        => bookingEditor.spaces = Listing(bookingEditor.location, bookingEditor.enter, bookingEditor.leave)

\* The form makes one booking, however often it is saved, corrected and saved again, if
\* it is not saved while a request is out and no answer to one is lost.
OneBookingPerForm ==
    "saves" \notin bookingSeen => Cardinality(DOMAIN bookingRows) <= 1

\* What is stored when the page says so, and no change has been made since, is what was
\* picked: the dates, in spite of the timer, and a space of the area.
SavedIsPicked ==
    bookingEditor.saved /\ bookingSaves = {} /\ changeTimer = NoPick
    /\ bookingSeen \cap {"saves", "form"} = {}
    /\ entityId \in DOMAIN bookingRows /\ bookingRows[entityId] = BookingOf(bookingEditor)
        => /\ <<bookingRows[entityId].enter, bookingRows[entityId].leave>> = picked
           /\ bookingRows[entityId].space = bookingEditor.location

\* The form is offered, keeps and stores what it was asked for: the three above.
BookingIsThePicked == ListIsOfTheForm /\ OneBookingPerForm /\ SavedIsPicked

\* In the end a space can be chosen: a change of the dates closes the choice only until the
\* spaces are there.
SpacesBack ==
    bookingEditor.isDisabledSpace => bookingEditor.location = NoArea \/ "lists" \in bookingSeen
                                     \/ bookingEditor.goBack
=============================================================================

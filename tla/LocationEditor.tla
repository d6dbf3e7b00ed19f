---------------------------- MODULE LocationEditor ----------------------------
(***************************************************************************)
(* The page of an administrator that draws the seats of an area on its     *)
(* floor plan.  Save writes the area, then the attributes (which nobody    *)
(* waits for), then the seats that were changed in one bulk request, then  *)
(* the picture of the plan, after which the page loads the area again.     *)
(* The page can be edited all the while.                                   *)
(*                                                                         *)
(* A seat is known by its key, however often it is stored; each change     *)
(* that the administrator makes has a number, which the seat carries: rev  *)
(* the last that the page knows of, details the last of its attributes.    *)
(* The id that the database makes up for a stored seat names the save that *)
(* stored it and its place in the list by then.                            *)
(*                                                                         *)
(* The attributes of a seat are a Map that is changed in place.  A copy of *)
(* a seat has the Map of the seat: who changes the attributes of one       *)
(* changes those of the other, which is not marked as changed and, if it   *)
(* was not before, is not saved: it is astray.                             *)
(***************************************************************************)
EXTENDS Integers, Sequences, FiniteSets

CONSTANTS NoId, Values,          \* values of an attribute of the area
          MaxSeats, MaxEdits, MaxSaves   \* bounds

ASSUME EditorAssumption ==
    /\ NoId \notin Nat /\ NoId \notin Nat \X Nat /\ NoId \notin Values
    /\ {MaxSeats, MaxEdits, MaxSaves} \subseteq Nat

VARIABLES editor,    \* this.state of the page, and the id of the area
          stored,    \* the server's areas, seats of the area and value of the attribute
          chain,     \* the request of onSubmit that is out
          bulk,      \* the seats bulkUpdate was sent with, or what came of them
          reload,    \* loadData after the picture was stored, and the seats it has read
          writes,    \* requests for the attribute that are out
          edits, saves,
          past       \* what has happened: see EditorTypeOK

editorVars == <<editor, stored, chain, bulk, reload, writes, edits, saves, past>>

Seat(k, id, n, details, map, c) ==
    [key |-> k, id |-> id, rev |-> n, details |-> details, map |-> map, changed |-> c,
     astray |-> FALSE]
NoBulk == [creates |-> {}, updates |-> {}, deletes |-> {}, done |-> FALSE, ids |-> {}]
NoReload == [at |-> "none", rows |-> {}]
\* Each seat that is loaded has a Map of its own.
newSpaceState(row) == Seat(row.key, row.id, row.rev, row.details, row.id, FALSE)

\* Opened for an area with one seat, or to add an area.
EditorInit ==
    /\ \E id \in {0, NoId} :
         editor = [id |-> id, loading |-> TRUE, seats |-> <<>>, deleteIds |-> {},
                   file |-> FALSE, scaled |-> FALSE, submitting |-> FALSE, saved |-> FALSE,
                   errorSaving |-> FALSE, value |-> NoId, valueDeleted |-> FALSE,
                   left |-> FALSE]
    /\ stored = [areas |-> 0, value |-> NoId, gone |-> FALSE,
                 rows |-> IF editor.id = NoId THEN {}
                         ELSE {[id |-> <<0, 1>>, key |-> 0, rev |-> 0, details |-> 0]}]
    /\ chain = "none" /\ bulk = NoBulk /\ reload = NoReload /\ writes = {}
    /\ edits = 0 /\ saves = 0
    /\ past = [touched |-> FALSE, refused |-> FALSE, lost |-> FALSE, uncaught |-> FALSE,
               failed |-> {}, expected |-> NoId]

\* The seats of a table, in some order.
SeatsOf(rows) == {s \in [1 .. Cardinality(rows) -> {newSpaceState(r) : r \in rows}] :
                    \A r \in rows : \E i \in DOMAIN s : s[i] = newSpaceState(r)}

\* The chain of requests of loadData, the first time: nothing can be done before.
loadData ==
    /\ editor.loading
    /\ \E s \in SeatsOf(stored.rows) :
         editor' = [editor EXCEPT !.loading = FALSE, !.seats = s]
    /\ UNCHANGED <<stored, chain, bulk, reload, writes, edits, saves, past>>

-----------------------------------------------------------------------------
Editable == ~editor.loading /\ ~editor.left
\* What is changed now is not in the bulk request, or overwritten when the area is loaded.
Busy == chain \in {"bulk", "map"} \/ reload.at # "none"

\* The administrator changes the list of seats: the page does not mind a save going on.
Changes(seats, deleteIds) ==
    /\ Editable /\ edits < MaxEdits
    /\ edits' = edits + 1
    /\ editor' = [editor EXCEPT !.seats = seats, !.deleteIds = deleteIds]
    /\ past' = [past EXCEPT !.touched = @ \/ Busy]
    /\ UNCHANGED <<stored, chain, bulk, reload, writes, saves>>
New(details, map) == Seat(edits + 1, NoId, edits + 1, details, map, TRUE)
\* Mutant of Touched: a change does not mark the seat.
TouchedUnmarked(s) == [s EXCEPT !.rev = edits + 1]

Touched(s) == [s EXCEPT !.rev = edits + 1, !.changed = TRUE, !.astray = FALSE]

addRect ==
    /\ editor.id # NoId /\ ~editor.scaled /\ Len(editor.seats) < MaxSeats
    /\ Changes(Append(editor.seats, New(0, <<edits + 1, 0>>)), editor.deleteIds)

\* A copy of the selected seat is a new seat with the Map of that seat.
copySpace(i) ==
    /\ Len(editor.seats) < MaxSeats
    /\ Changes(Append(editor.seats, New(editor.seats[i].details, editor.seats[i].map)),
               editor.deleteIds)

\* The selected seat is moved, resized, renamed, or given to other groups.
setSpace(i) ==
    Changes([editor.seats EXCEPT ![i] = Touched(@)], editor.deleteIds)

\* An attribute of the selected seat is set, enabled or disabled: in the Map that it has,
\* and so in all seats that have it.  Only the selected seat is marked.
Detailed(s) == [s EXCEPT !.details = edits + 1, !.astray = ~s.changed]
setSpaceAttribute(i) ==
    LET seats == [editor.seats EXCEPT ![i] = Touched(@)]
    IN Changes([j \in DOMAIN seats |->
                  IF seats[j].map = seats[i].map THEN Detailed(seats[j]) ELSE seats[j]],
               editor.deleteIds)

setMapScale ==
    /\ editor.id # NoId /\ ~editor.file /\ Editable /\ edits < MaxEdits
    /\ edits' = edits + 1
    /\ editor' = [editor EXCEPT !.scaled = TRUE,
                    !.seats = [i \in DOMAIN editor.seats |-> Touched(editor.seats[i])]]
    /\ past' = [past EXCEPT !.touched = @ \/ Busy]
    /\ UNCHANGED <<stored, chain, bulk, reload, writes, saves>>

Without(s, i) == SubSeq(s, 1, i - 1) \o SubSeq(s, i + 1, Len(s))
deleteSpace(i) ==
    Changes(Without(editor.seats, i),
            editor.deleteIds \cup ({editor.seats[i].id} \ {NoId}))

Puts(new) == /\ Editable /\ edits < MaxEdits /\ edits' = edits + 1
             /\ editor' = new
             /\ UNCHANGED <<stored, chain, bulk, reload, writes, saves, past>>

\* An attribute that was deleted stays on the list of those to delete when it is set again.
setAttribute(v) == /\ editor.id # NoId /\ editor.value # v
                   /\ Puts([editor EXCEPT !.value = v])
deleteAttribute == /\ editor.value # NoId
                   /\ Puts([editor EXCEPT !.value = NoId, !.valueDeleted = TRUE])

chooseFile == /\ ~editor.file
              /\ \E scaled \in BOOLEAN : Puts([editor EXCEPT !.file = TRUE, !.scaled = scaled])

-----------------------------------------------------------------------------
ChangedSeats == {i \in DOMAIN editor.seats : editor.seats[i].changed}
NewSeat(i) == [place |-> i, key |-> editor.seats[i].key, rev |-> editor.seats[i].rev,
               details |-> editor.seats[i].details]
Creates == {NewSeat(i) : i \in {j \in ChangedSeats : editor.seats[j].id = NoId}}
Updates == {editor.seats[i] : i \in {j \in ChangedSeats : editor.seats[j].id # NoId}}

\* The button is disabled while a save is going on; a new area needs a picture.
onSubmit ==
    /\ Editable /\ ~editor.submitting /\ saves < MaxSaves
    /\ editor.id = NoId => editor.file
    /\ saves' = saves + 1 /\ chain' = "entity"
    /\ editor' = [editor EXCEPT !.submitting = TRUE, !.errorSaving = FALSE]
    /\ UNCHANGED <<stored, bulk, reload, writes, edits, past>>

onError == editor' = [editor EXCEPT !.saved = FALSE, !.errorSaving = TRUE, !.submitting = FALSE]
Finished(e) == [e EXCEPT !.saved = TRUE, !.submitting = FALSE, !.scaled = FALSE]

\* saveAttributes returns at once: all of what is shown is set, and what was deleted is deleted.
saveAttributes ==
    LET new == (IF editor.value # NoId THEN {[save |-> saves, value |-> editor.value]} ELSE {})
               \cup (IF editor.valueDeleted THEN {[save |-> saves, value |-> NoId]} ELSE {})
    IN /\ writes' = writes \cup new
       /\ past' = [past EXCEPT !.expected =
                     IF new = {} THEN @
                     ELSE IF writes = {} /\ Cardinality(new) = 1 THEN editor.value ELSE "any"]

\* saveSpaces as the area is stored: nothing is asked for if nothing was changed.
saveSpaces ==
    IF ChangedSeats = {} /\ editor.deleteIds = {}
    THEN /\ chain' = IF editor.file THEN "map" ELSE "none"
         /\ UNCHANGED bulk
    ELSE /\ chain' = "bulk"
         /\ bulk' = [NoBulk EXCEPT !.creates = Creates, !.updates = Updates,
                                   !.deletes = editor.deleteIds]

\* Ajax.saveEntity: a new area is created, and its id kept, an old one is updated.
SavedId == IF editor.id = NoId THEN stored.areas + 1 ELSE editor.id
entitySaved ==
    LET id == SavedId
        e == [editor EXCEPT !.id = id]
    IN /\ chain = "entity" /\ ~stored.gone
       /\ stored' = [stored EXCEPT !.areas = IF editor.id = NoId THEN @ + 1 ELSE @]
       /\ saveAttributes /\ saveSpaces
       /\ editor' = IF chain' = "none" THEN Finished(e) ELSE e
       /\ UNCHANGED <<reload, edits, saves>>

\* The server refuses, or it has done it and the answer is lost.
entityFailed ==
    /\ chain = "entity" /\ chain' = "none" /\ onError
    /\ \E done \in {FALSE, ~stored.gone} :
         /\ stored' = [stored EXCEPT !.areas = IF done /\ editor.id = NoId THEN @ + 1 ELSE @]
         /\ past' = [past EXCEPT !.lost = @ \/ done]
    /\ UNCHANGED <<bulk, reload, writes, edits, saves>>

\* The id of a seat that this save creates.
IdOf(c) == <<saves, c.place>>

\* What becomes of a row that is not deleted: the seats without an update leave it alone.
UpdatesOf(r) == {s \in bulk.updates : s.id = r.id}
Updated(r) == IF UpdatesOf(r) = {} THEN r
              ELSE [r EXCEPT !.key = (CHOOSE s \in UpdatesOf(r) : TRUE).key,
                             !.rev = (CHOOSE s \in UpdatesOf(r) : TRUE).rev,
                             !.details = (CHOOSE s \in UpdatesOf(r) : TRUE).details]

\* The server deletes, creates and updates, each on its own; what it refuses it reports.
bulkUpdate ==
    /\ chain = "bulk" /\ ~bulk.done /\ ~stored.gone
    /\ \E no \in BOOLEAN :
         LET kept == {r \in stored.rows : r.id \notin bulk.deletes}
             created == IF no THEN {} ELSE bulk.creates
             made == {[id |-> IdOf(c), key |-> c.key, rev |-> c.rev, details |-> c.details] :
                       c \in created}
         IN /\ stored' = [stored EXCEPT !.rows =
                            (IF no THEN kept ELSE {Updated(r) : r \in kept}) \cup made]
            /\ bulk' = [bulk EXCEPT !.done = TRUE,
                                    !.ids = {[place |-> c.place, id |-> IdOf(c)] : c \in created}]
            /\ past' = [past EXCEPT !.refused = @ \/ (no /\ bulk.creates \cup bulk.updates # {})]
    /\ UNCHANGED <<editor, chain, reload, writes, edits, saves>>

\* What the page finds of the created seats, in order, in the answer: deserialize is given the
\* result of the request and not its body, and finds no list in it.
deserializeCreates(ids) == <<>>

\* The ids go to the seats that have none, in order; no seat counts as changed any more.
bulkAnswered ==
    LET creates == deserializeCreates(bulk.ids)
        Before(i) == Cardinality({j \in ChangedSeats : j < i /\ editor.seats[j].id = NoId})
        Saved(i) == IF i \in ChangedSeats /\ editor.seats[i].id = NoId /\ Before(i) < Len(creates)
                    THEN [editor.seats[i] EXCEPT !.changed = FALSE, !.id = creates[Before(i) + 1]]
                    ELSE [editor.seats[i] EXCEPT !.changed = FALSE]
        e == [editor EXCEPT !.seats = [i \in DOMAIN editor.seats |-> Saved(i)], !.deleteIds = {}]
    IN /\ chain = "bulk" /\ bulk.done /\ bulk' = NoBulk
       /\ chain' = IF editor.file THEN "map" ELSE "none"
       /\ editor' = IF chain' = "none" THEN Finished(e) ELSE e
       /\ UNCHANGED <<stored, reload, writes, edits, saves, past>>

bulkFailed ==
    /\ chain = "bulk" /\ chain' = "none" /\ bulk' = NoBulk /\ onError
    /\ past' = [past EXCEPT !.lost = @ \/ bulk.done]
    /\ UNCHANGED <<stored, reload, writes, edits, saves>>

\* The picture is stored: the area is loaded again while the page goes on.
mapStored ==
    /\ chain = "map" /\ ~stored.gone /\ chain' = "none" /\ reload' = [at |-> "asked", rows |-> {}]
    /\ editor' = [Finished(editor) EXCEPT !.file = FALSE]
    /\ UNCHANGED <<stored, bulk, writes, edits, saves, past>>

\* Nobody catches this one.
mapFailed ==
    /\ chain = "map" /\ chain' = "none" /\ past' = [past EXCEPT !.uncaught = TRUE]
    /\ UNCHANGED <<editor, stored, bulk, reload, writes, edits, saves>>

\* loadData has read the seats, and puts them in the place of those on the page; what was
\* deleted there stays on the list.
reloadRead ==
    /\ reload.at = "asked" /\ ~stored.gone /\ reload' = [at |-> "read", rows |-> stored.rows]
    /\ UNCHANGED <<editor, stored, chain, bulk, writes, edits, saves, past>>

reloadAnswered ==
    /\ reload.at = "read" /\ reload' = NoReload
    /\ \E s \in SeatsOf(reload.rows) : editor' = [editor EXCEPT !.seats = s]
    /\ UNCHANGED <<stored, chain, bulk, writes, edits, saves, past>>

reloadFailed ==
    /\ reload.at = "asked" /\ reload' = NoReload /\ past' = [past EXCEPT !.uncaught = TRUE]
    /\ UNCHANGED <<editor, stored, chain, bulk, writes, edits, saves>>

\* The server has set or deleted the attribute.  When all the writes of a save are done
\* and none failed, nothing is left to delete, whatever was deleted since.
attributeWritten(w) ==
    /\ ~stored.gone /\ stored' = [stored EXCEPT !.value = w.value]
    /\ writes' = writes \ {w}
    /\ editor' = IF w.save \in past.failed \/ \E v \in writes' : v.save = w.save THEN editor
                 ELSE [editor EXCEPT !.valueDeleted = FALSE]
    /\ UNCHANGED <<chain, bulk, reload, edits, saves, past>>

attributeFailed(w) ==
    /\ writes' = writes \ {w}
    /\ past' = [past EXCEPT !.failed = @ \cup {w.save}, !.expected = "any"]
    /\ UNCHANGED <<editor, stored, chain, bulk, reload, edits, saves>>

\* The administrator leaves the page, or deletes the area.
onBackButtonClick ==
    /\ Editable /\ editor' = [editor EXCEPT !.left = TRUE]
    /\ UNCHANGED <<stored, chain, bulk, reload, writes, edits, saves, past>>
deleteItem ==
    /\ Editable /\ editor.id # NoId /\ editor' = [editor EXCEPT !.left = TRUE]
    /\ stored' = [stored EXCEPT !.gone = TRUE, !.rows = {}, !.value = NoId]
    /\ UNCHANGED <<chain, bulk, reload, writes, edits, saves, past>>

-----------------------------------------------------------------------------
EditorAnswer ==
    \/ entitySaved \/ entityFailed \/ bulkUpdate \/ bulkAnswered \/ bulkFailed
    \/ mapStored \/ mapFailed

EditorNext ==
    \/ loadData \/ addRect \/ setMapScale \/ deleteAttribute \/ chooseFile
    \/ \E i \in DOMAIN editor.seats :
         copySpace(i) \/ setSpace(i) \/ setSpaceAttribute(i) \/ deleteSpace(i)
    \/ \E v \in Values : setAttribute(v)
    \/ onSubmit \/ EditorAnswer
    \/ reloadRead \/ reloadAnswered \/ reloadFailed
    \/ \E w \in writes : attributeWritten(w) \/ attributeFailed(w)
    \/ onBackButtonClick \/ deleteItem

EditorSpec == EditorInit /\ [][EditorNext]_editorVars /\ WF_editorVars(EditorAnswer)

-----------------------------------------------------------------------------
Ids == (0 .. MaxSaves) \X Nat
Seats == [key : 0 .. MaxEdits, id : Ids \cup {NoId}, rev : 0 .. MaxEdits,
          details : 0 .. MaxEdits, map : Nat \X Nat, changed : BOOLEAN, astray : BOOLEAN]
NewSeats == [place : Nat, key : 0 .. MaxEdits, rev : 0 .. MaxEdits, details : 0 .. MaxEdits]
Rows == [id : Ids, key : 0 .. MaxEdits, rev : 0 .. MaxEdits, details : 0 .. MaxEdits]
EditorTypeOK ==
    /\ editor \in [id : Nat \cup {NoId}, loading : BOOLEAN, seats : Seq(Seats),
                   deleteIds : SUBSET Ids, file : BOOLEAN, scaled : BOOLEAN,
                   submitting : BOOLEAN, saved : BOOLEAN, errorSaving : BOOLEAN,
                   value : Values \cup {NoId}, valueDeleted : BOOLEAN, left : BOOLEAN]
    /\ stored \in [areas : Nat, value : Values \cup {NoId}, gone : BOOLEAN, rows : SUBSET Rows]
    /\ chain \in {"none", "entity", "bulk", "map"}
    /\ bulk \in [creates : SUBSET NewSeats, updates : SUBSET Seats, deletes : SUBSET Ids,
                 done : BOOLEAN, ids : SUBSET [place : Nat, id : Ids]]
    /\ reload \in [at : {"none", "asked", "read"}, rows : SUBSET Rows]
    /\ writes \subseteq [save : 1 .. MaxSaves, value : Values \cup {NoId}]
    /\ edits \in 0 .. MaxEdits /\ saves \in 0 .. MaxSaves
    \* seats changed during a save, refused in one; answers lost; failures nobody caught;
    \* saves some of whose attributes failed; the value they should have left
    /\ past \in [touched : BOOLEAN, refused : BOOLEAN, lost : BOOLEAN, uncaught : BOOLEAN,
                 failed : SUBSET (1 .. MaxSaves), expected : Values \cup {NoId, "any"}]

\* A seat of the page that has the id of a stored seat is that seat: a save whose seats
\* are deleted, copied or loaded again before its answer hands no seat the id of another.
IdsAreTheirs ==
    \A i \in DOMAIN editor.seats : \A r \in stored.rows :
        editor.seats[i].id = r.id => editor.seats[i].key = r.key

\* What is not marked as changed is stored as the page shows it, unless it was changed
\* while a save was going on or the server refused it, which the page does not look at; all
\* but the attributes of a seat that are astray, which the page forgets.
NothingForgotten ==
    past.touched \/ past.refused \/ stored.gone \/
    \A i \in DOMAIN editor.seats : ~editor.seats[i].changed =>
        \E r \in stored.rows :
            /\ r.key = editor.seats[i].key /\ r.rev = editor.seats[i].rev
            /\ r.details = editor.seats[i].details \/ editor.seats[i].astray

\* Saving again after a failure adds the area a second time only if an answer was lost.
OneArea == stored.areas > 1 => past.lost

\* A write of the attribute that no other was out with is what stays.
AttributeStays ==
    writes = {} /\ past.expected # "any" /\ ~stored.gone => stored.value = past.expected

\* What the page takes to be so is so on the server: the four above.
EditorKeepsTrack == IdsAreTheirs /\ NothingForgotten /\ OneArea /\ AttributeStays

\* In the end the button "save" can be pressed again, unless the picture could not be stored.
SaveEnded == editor.submitting => past.uncaught

\* After a save that went well and that nothing was changed since, the area has each of
\* its seats once, as the page shows it.
SavedMeansStored ==
    /\ editor.saved /\ ~editor.submitting /\ chain = "none" /\ reload.at = "none"
    /\ ~past.touched /\ ~past.refused /\ ~past.lost /\ ~stored.gone
    /\ ChangedSeats = {} /\ editor.deleteIds = {}
    => \A i \in DOMAIN editor.seats :
          Cardinality({r \in stored.rows : r.key = editor.seats[i].key}) = 1
=============================================================================

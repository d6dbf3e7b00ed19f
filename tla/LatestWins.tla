------------------------------ MODULE LatestWins ------------------------------
(***************************************************************************)
(* What a view that is loaded in the background promises: the user makes a *)
(* selection, and what the view then shows belongs to the selection of     *)
(* that moment, however many answers to earlier selections are still on    *)
(* their way and in whatever order they come.                              *)
(***************************************************************************)
CONSTANTS Selections, Nothing

VARIABLES selection,   \* what the user has chosen
          asked,       \* whether the view has asked for it
          shown        \* the selection whose answer the view shows

vars == <<selection, asked, shown>>

Init == /\ selection \in Selections
        /\ asked \in BOOLEAN
        /\ shown = Nothing

Select == /\ selection' \in Selections
          /\ asked' \in BOOLEAN
          /\ UNCHANGED shown

\* An answer: to the present selection, if the view has asked for that.
Show == /\ shown' \in Selections
        /\ asked => shown' = selection
        /\ UNCHANGED <<selection, asked>>

Spec == Init /\ [][Select \/ Show]_vars
=============================================================================

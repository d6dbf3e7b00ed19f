------------------------------- MODULE MCSearch -------------------------------
(* An instance of SearchPage for TLC.                                      *)
EXTENDS SearchPage

\* Two periods that begin on the same day and end that day and the next.
Today == [day |-> 1, until |-> 1]
ToTomorrow == [day |-> 1, until |-> 2]
TwoPeriods == {Today, ToTomorrow}
=============================================================================

--------------------------- MODULE PreferencesPage ---------------------------
(***************************************************************************)
(* The page of the user's preferences.  Its forms share one flag that      *)
(* disables their buttons while a save is going on; their fields can be    *)
(* edited all the while.  Beside them it shows the user's sessions, any of  *)
(* which can be ended, this one too.                                       *)
(*                                                                         *)
(* A CalDAV calendar is named by the account that has it, and what is in a  *)
(* form of plain fields by the number of the edit that it last saw.        *)
(***************************************************************************)
EXTENDS Integers, FiniteSets

CONSTANTS Accounts, NoAccount,   \* CalDAV: url, user and password; "" is NoAccount
          Others,                \* the user's other sessions
          This,                  \* the session of this browser
          MaxPrefEdits, MaxPrefRequests, MaxPrefOut   \* bounds

ASSUME PreferencesAssumption ==
    /\ NoAccount \notin Accounts /\ This \notin Others
    /\ {MaxPrefEdits, MaxPrefRequests, MaxPrefOut} \subseteq Nat

VARIABLES prefs,       \* this.state of the page
          prefStored,  \* on the server: the preferences and the sessions
          prefOut, prefSent,
          lastSaved,   \* what was last sent to be stored, of each form
          prefPast     \* what has happened, see PreferencesTypeOK

prefVars == <<prefs, prefStored, prefOut, prefSent, lastSaved, prefPast>>

PrefForms == {"bookings", "style"}
CalDav == [account : Accounts \cup {NoAccount}, calendar : Accounts \cup {NoAccount}]
Disconnected == [account |-> NoAccount, calendar |-> NoAccount]
AllSessions == Others \cup {This}

PreferencesInit ==
    \E c \in {d \in CalDav : d.calendar = d.account} :
        /\ prefs = [submitting |-> FALSE, hint |-> "none", dialog |-> FALSE, left |-> FALSE,
                    fields |-> [f \in PrefForms |-> 0],
                    caldav |-> c, loaded |-> FALSE, calendars |-> {},
                    sessions |-> AllSessions]
        /\ prefStored = [caldav |-> c, fields |-> [f \in PrefForms |-> 0], sessions |-> AllSessions]
        /\ lastSaved = [caldav |-> c, fields |-> [f \in PrefForms |-> 0]]
        /\ prefOut = {} /\ prefSent = 0
        /\ prefPast = [midway |-> FALSE, lost |-> FALSE, stuck |-> FALSE, overlap |-> FALSE]

\* A request, and what is sent with it or answered: what the page's forms have by now,
\* and sessions.
PrefRequest(fn, form, caldav, ss) ==
    [id |-> prefSent + 1, fn |-> fn, form |-> form, caldav |-> caldav,
     field |-> IF form \in PrefForms THEN prefs.fields[form] ELSE 0,
     sessions |-> ss, done |-> FALSE]
PrefAsk(fn, form, caldav, ss) ==
    /\ prefSent < MaxPrefRequests /\ Cardinality(prefOut) < MaxPrefOut
    /\ prefOut' = prefOut \cup {PrefRequest(fn, form, caldav, ss)}
    /\ prefSent' = prefSent + 1
PrefDone(q) == prefOut' = prefOut \ {q}
Usable == ~prefs.left /\ ~prefs.dialog
Submits == /\ Usable /\ ~prefs.submitting
           /\ prefs' = [prefs EXCEPT !.submitting = TRUE, !.hint = "none"]
PrefSave(form) == /\ PrefAsk("save", form, prefs.caldav, {})
                  /\ UNCHANGED <<prefStored, prefPast>>

-----------------------------------------------------------------------------
prefEdits == prefs.fields["bookings"] + prefs.fields["style"]
editField(f) ==
    /\ Usable /\ prefEdits < MaxPrefEdits
    /\ prefs' = [prefs EXCEPT !.fields[f] = @ + 1]
    /\ UNCHANGED <<prefStored, prefOut, prefSent, lastSaved, prefPast>>

\* Any field of the tab of the bookings, or a colour, or all colours (resetColors).
editBookings == editField("bookings")
editColors == editField("style")

onSubmitForm(f) ==
    /\ Submits /\ PrefSave(f)
    /\ lastSaved' = [lastSaved EXCEPT !.fields[f] = prefs.fields[f]]
onSubmitBookings == onSubmitForm("bookings")
onSubmitColors == onSubmitForm("style")

\* Mutant of editCalDav: the calendars of the account before stay on offer.
editCalDavOnly(a) ==
    /\ Usable /\ a # prefs.caldav.account
    /\ prefs' = [prefs EXCEPT !.caldav.account = a]
    /\ prefPast' = [prefPast EXCEPT !.midway = @ \/ \E q \in prefOut : q.fn = "calendars"]
    /\ UNCHANGED <<prefStored, prefOut, prefSent, lastSaved>>

\* The url, the user or the password is edited.
editCalDav(a) ==
    /\ Usable /\ a # prefs.caldav.account
    /\ prefs' = [prefs EXCEPT !.caldav.account = a, !.loaded = FALSE]
    /\ prefPast' = [prefPast EXCEPT !.midway = @ \/ \E q \in prefOut : q.fn = "calendars"]
    /\ UNCHANGED <<prefStored, prefOut, prefSent, lastSaved>>

selectCalendar(c) ==
    /\ Usable /\ prefs.loaded /\ c \in prefs.calendars \ {prefs.caldav.calendar}
    /\ prefs' = [prefs EXCEPT !.caldav.calendar = c]
    /\ UNCHANGED <<prefStored, prefOut, prefSent, lastSaved, prefPast>>

\* The calendars of the account are asked for.
connectCalDav ==
    /\ Usable /\ ~prefs.submitting /\ prefs.caldav.account # NoAccount
    /\ prefs' = [prefs EXCEPT !.submitting = TRUE, !.hint = "none", !.loaded = FALSE]
    /\ PrefAsk("calendars", "caldav", prefs.caldav, {})
    /\ UNCHANGED <<prefStored, lastSaved, prefPast>>

disconnectCalDav ==
    /\ Usable /\ ~prefs.submitting
    /\ prefs.caldav.account # NoAccount /\ prefs.caldav.calendar # NoAccount
    /\ prefs' = [prefs EXCEPT !.submitting = TRUE, !.hint = "none", !.loaded = FALSE]
    /\ PrefAsk("disconnect", "caldav", Disconnected, {})
    /\ lastSaved' = [lastSaved EXCEPT !.caldav = Disconnected]
    /\ UNCHANGED <<prefStored, prefPast>>

saveCaldavSettings ==
    /\ Submits /\ prefs.loaded /\ prefs.caldav.calendar # NoAccount
    /\ PrefSave("caldav")
    /\ lastSaved' = [lastSaved EXCEPT !.caldav = prefs.caldav]

onSubmitSecurity ==
    /\ Submits /\ PrefAsk("password", "none", prefs.caldav, {})
    /\ UNCHANGED <<prefStored, lastSaved, prefPast>>

\* One session is ended, or all others.
endSessions(ss) ==
    /\ Usable /\ ss # {} /\ PrefAsk("end", "none", prefs.caldav, ss)
    /\ UNCHANGED <<prefs, prefStored, lastSaved, prefPast>>

showTab ==
    /\ Usable /\ prefs.hint \in {"saved", "error"}
    /\ prefs' = [prefs EXCEPT !.hint = "none"]
    /\ UNCHANGED <<prefStored, prefOut, prefSent, lastSaved, prefPast>>

-----------------------------------------------------------------------------
LoggedIn == This \in prefStored.sessions
PrefMoves(q, ss, done) ==
    prefOut' = (prefOut \ {q}) \cup {[q EXCEPT !.sessions = ss, !.done = done]}

\* The server, as long as the session is there.
prefServed(q) ==
    /\ ~q.done /\ LoggedIn
    /\ \/ /\ q.fn \in {"save", "disconnect"} /\ PrefMoves(q, {}, TRUE)
          /\ prefStored' = IF q.form = "caldav" THEN [prefStored EXCEPT !.caldav = q.caldav]
                           ELSE [prefStored EXCEPT !.fields[q.form] = q.field]
       \/ q.fn = "calendars" /\ PrefMoves(q, {}, TRUE) /\ UNCHANGED prefStored
       \/ /\ q.fn = "password" /\ PrefMoves(q, {}, TRUE)
          /\ prefStored' = [prefStored EXCEPT !.sessions = {}]
       \/ /\ q.fn = "end"
          /\ \E s \in q.sessions :
               /\ prefStored' = [prefStored EXCEPT !.sessions = @ \ {s}]
               /\ PrefMoves(q, q.sessions \ {s}, q.sessions = {s})
       \/ /\ q.fn = "list" /\ PrefMoves(q, prefStored.sessions, TRUE)
          /\ UNCHANGED prefStored
    /\ UNCHANGED <<prefs, prefSent, lastSaved, prefPast>>

PrefSaved(p) == [p EXCEPT !.submitting = FALSE, !.hint = "saved"]

\* The first calendar of the account is chosen, whatever account the form has by then.
listCalendarsAnswered(q) ==
    /\ q.fn = "calendars" /\ q.done /\ PrefDone(q)
    /\ \E cs \in {{}, {q.caldav.account}} :
         prefs' = [prefs EXCEPT !.submitting = FALSE, !.loaded = TRUE, !.calendars = cs,
                     !.caldav.calendar = IF cs = {} THEN NoAccount ELSE q.caldav.account]
    /\ UNCHANGED <<prefStored, prefSent, lastSaved, prefPast>>

setAllAnswered(q) ==
    /\ q.fn \in {"save", "disconnect"} /\ q.done /\ PrefDone(q)
    /\ prefs' = IF q.fn = "save" THEN PrefSaved(prefs)
                ELSE [PrefSaved(prefs) EXCEPT !.caldav = Disconnected, !.calendars = {}]
    /\ UNCHANGED <<prefStored, prefSent, lastSaved, prefPast>>

\* The dialog that is shown reloads the page.
newPasswordAnswered(q) ==
    /\ q.fn = "password" /\ q.done /\ PrefDone(q)
    /\ prefs' = [prefs EXCEPT !.submitting = FALSE, !.dialog = TRUE]
    /\ UNCHANGED <<prefStored, prefSent, lastSaved, prefPast>>

\* loadActiveSessions follows; the answers of two are not told apart.
endAnswered(q) ==
    /\ q.fn = "end" /\ q.done
    /\ prefOut' = (prefOut \ {q}) \cup {[q EXCEPT !.fn = "list", !.sessions = {}, !.done = FALSE]}
    /\ prefPast' = [prefPast EXCEPT !.overlap = @ \/ \E r \in prefOut : r.fn = "list"]
    /\ UNCHANGED <<prefs, prefStored, prefSent, lastSaved>>

loadActiveSessions(q) ==
    /\ q.fn = "list" /\ q.done /\ PrefDone(q)
    /\ prefs' = [prefs EXCEPT !.sessions = q.sessions]
    /\ UNCHANGED <<prefStored, prefSent, lastSaved, prefPast>>

\* Mutant of prefFailed: a failure does not end the submission.
prefFailedSubmitting(q) ==
    /\ PrefDone(q)
    /\ prefs' = IF q.fn \in {"end", "list"} THEN [prefs EXCEPT !.left = TRUE]
                ELSE [prefs EXCEPT !.hint = "error"]
    /\ prefPast' = [prefPast EXCEPT !.stuck = @ \/ q.fn = "password",
                                    !.lost = @ \/ q.fn \in {"save", "disconnect"}]
    /\ UNCHANGED <<prefStored, prefSent, lastSaved>>

\* Refused for want of a session, or the connection is lost, before or after it was done.
prefFailed(q) ==
    /\ PrefDone(q)
    /\ prefs' = CASE q.fn \in {"save", "disconnect"} ->
                       [prefs EXCEPT !.submitting = FALSE, !.hint = "error"]
                  [] q.fn = "calendars" ->
                       [prefs EXCEPT !.submitting = FALSE, !.hint = "caldavError"]
                  [] q.fn = "password" -> prefs
                  [] OTHER -> [prefs EXCEPT !.left = TRUE]     \* RuntimeConfig.logOut
    /\ prefPast' = [prefPast EXCEPT !.stuck = @ \/ q.fn = "password",
                                    !.lost = @ \/ q.fn \in {"save", "disconnect"}]
    /\ UNCHANGED <<prefStored, prefSent, lastSaved>>

PrefAnswer(q) ==
    \/ prefServed(q) \/ listCalendarsAnswered(q) \/ setAllAnswered(q) \/ newPasswordAnswered(q)
    \/ endAnswered(q) \/ loadActiveSessions(q) \/ prefFailed(q)

PrefAnswers == \E q \in prefOut : PrefAnswer(q)

PreferencesNext ==
    \/ editBookings \/ editColors \/ onSubmitBookings \/ onSubmitColors
    \/ \E a \in Accounts : editCalDav(a) \/ selectCalendar(a)
    \/ connectCalDav \/ disconnectCalDav \/ saveCaldavSettings \/ onSubmitSecurity
    \/ \E ss \in {{s} : s \in prefs.sessions} \cup {prefs.sessions \ {This}} : endSessions(ss)
    \/ showTab
    \/ PrefAnswers

PreferencesSpec == PreferencesInit /\ [][PreferencesNext]_prefVars /\ WF_prefVars(PrefAnswers)

-----------------------------------------------------------------------------
PreferencesTypeOK ==
    /\ prefs \in [submitting : BOOLEAN, dialog : BOOLEAN, left : BOOLEAN,
                  hint : {"none", "saved", "error", "caldavError"},
                  fields : [PrefForms -> 0 .. MaxPrefEdits], caldav : CalDav, loaded : BOOLEAN,
                  calendars : SUBSET Accounts, sessions : SUBSET AllSessions]
    /\ prefStored \in [caldav : CalDav, fields : [PrefForms -> 0 .. MaxPrefEdits],
                       sessions : SUBSET AllSessions]
    /\ lastSaved \in [caldav : CalDav, fields : [PrefForms -> 0 .. MaxPrefEdits]]
    /\ prefSent \in 0 .. MaxPrefRequests
    /\ \A q \in prefOut :
         /\ q.id \in 1 .. MaxPrefRequests /\ q.done \in BOOLEAN
         /\ q.fn \in {"save", "disconnect", "calendars", "password", "end", "list"}
    \* the account was edited while its calendars were asked for; a save failed; the
    \* password could not be changed; two lists of sessions were out together
    /\ prefPast \in [midway : BOOLEAN, lost : BOOLEAN, stuck : BOOLEAN, overlap : BOOLEAN]

\* The calendar that is stored is one of the account that is stored with it, in whatever
\* order accounts were edited, connected, disconnected and saved: unless the account was
\* edited while its calendars were on their way.
CalendarOfItsAccount ==
    prefPast.midway \/ prefStored.caldav.calendar \in {prefStored.caldav.account, NoAccount}

\* When the page says "saved", what is stored is what each form was last sent with, if no
\* save before that failed: the forms do not undo each other's saves.
LastSaveStays ==
    prefs.hint = "saved" /\ ~prefPast.lost =>
        /\ prefStored.fields = lastSaved.fields
        /\ prefStored.caldav = lastSaved.caldav

\* When nothing is out, the sessions that are listed are those there are, though some of
\* them were ended; unless two lists were on their way together, or the user is logged out.
SessionsListed ==
    (\A q \in prefOut : q.fn \notin {"end", "list"}) /\ LoggedIn /\ Usable /\ ~prefPast.overlap
        => prefs.sessions = prefStored.sessions

\* The forms of the page leave the server as the page says: the three above.
PreferencesKept == CalendarOfItsAccount /\ LastSaveStays /\ SessionsListed

\* In the end the forms can be sent again, unless the password could not be changed.
SubmittingEnded == prefs.submitting => prefPast.stuck
=============================================================================

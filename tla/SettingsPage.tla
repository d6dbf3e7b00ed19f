----------------------------- MODULE SettingsPage -----------------------------
(***************************************************************************)
(* The settings of the organization: one form whose save writes the office  *)
(* hours, then all other settings, and then reads what the client keeps of *)
(* them; and the list of the organization's domains, each of whose changes  *)
(* is followed by a new list.  Nothing keeps two of them from overlapping.  *)
(* The server changes the primary domain in several statements.            *)
(*                                                                         *)
(* What the form holds is named by the number of its last edit.            *)
(***************************************************************************)
EXTENDS Integers, FiniteSets

CONSTANTS Domains,
          MaxSettingEdits, MaxSettingRequests, MaxSettingOut   \* bounds

ASSUME SettingsAssumption ==
    {MaxSettingEdits, MaxSettingRequests, MaxSettingOut} \subseteq Nat

VARIABLES settings,    \* this.state of the page, and RuntimeConfig.INFOS
          orgStored,   \* on the server: office hours, the other settings, the domains
          settingOut, settingSent,
          settingsSubmitted,   \* what was sent last
          settingPast  \* what has happened: see SettingsTypeOK

settingVars == <<settings, orgStored, settingOut, settingSent, settingsSubmitted, settingPast>>

DomainRow == [name : Domains, active : BOOLEAN, primary : BOOLEAN]
Names(rows) == {r.name : r \in rows}

SettingsInit ==
    \E rows \in SUBSET [name : Domains, active : {TRUE}, primary : BOOLEAN] :
        /\ \A r, s \in rows : r.name = s.name => r = s
        /\ \E p \in rows : \A r \in rows : r.primary <=> r = p
        /\ orgStored = [office |-> 0, settings |-> 0, rows |-> rows]
        /\ settings = [form |-> 0, hoursValid |-> TRUE, submitting |-> FALSE, saved |-> FALSE,
                       error |-> FALSE, domains |-> rows, infos |-> 0]
        /\ settingOut = {} /\ settingSent = 0 /\ settingsSubmitted = 0
        /\ settingPast = [saves |-> FALSE, stuck |-> FALSE, changes |-> FALSE,
                           unlisted |-> FALSE]

\* A save, or a change of domain d; `at' is what is asked next, and got what was read.  A
\* change that is answered before it is done is one whose answer the page has given up.
SettingRequest(at, d) ==
    [id |-> settingSent + 1, at |-> at, domain |-> d, got |-> {}, answered |-> FALSE,
     value |-> IF d = "" THEN settings.form ELSE 0]
SaveSteps == {"office", "all", "infos"}
MayRequest == settingSent < MaxSettingRequests /\ Cardinality(settingOut) < MaxSettingOut
SettingAsk(at, d) == /\ MayRequest /\ settingSent' = settingSent + 1
                     /\ settingOut' = settingOut \cup {SettingRequest(at, d)}
SettingMoves(q, to) == settingOut' = (settingOut \ {q}) \cup {to}
SettingEnds(q) == settingOut' = settingOut \ {q}

-----------------------------------------------------------------------------
Edited(valid) ==
    /\ settings.form < MaxSettingEdits
    /\ settings' = [settings EXCEPT !.form = @ + 1, !.hoursValid = valid]
    /\ UNCHANGED <<orgStored, settingOut, settingSent, settingsSubmitted, settingPast>>
editOfficeHours == \E valid \in BOOLEAN : Edited(valid)
\* Any other field.  (Days that are booked as a whole round the longest duration up to
\* whole days, here and in loadSettings.)
editSettings == Edited(settings.hoursValid)

onSubmitSettings ==
    \/ /\ ~settings.hoursValid
       /\ settings' = [settings EXCEPT !.saved = FALSE, !.error = TRUE]
       /\ UNCHANGED <<orgStored, settingOut, settingSent, settingsSubmitted, settingPast>>
    \/ /\ settings.hoursValid /\ SettingAsk("office", "")
       /\ settings' = [settings EXCEPT !.submitting = TRUE, !.saved = FALSE, !.error = FALSE]
       /\ settingsSubmitted' = settings.form
       /\ settingPast' = [settingPast EXCEPT !.saves = @ \/ \E q \in settingOut : q.at \in SaveSteps]
       /\ UNCHANGED orgStored

\* The server stores the office hours, then the other settings, and lists the settings.
SaveServed(q) ==
    /\ q.at \in SaveSteps /\ ~q.answered
    /\ orgStored' = CASE q.at = "office" -> [orgStored EXCEPT !.office = q.value]
                      [] q.at = "all" -> [orgStored EXCEPT !.settings = q.value]
                      [] q.at = "infos" -> orgStored
    /\ SettingMoves(q, [q EXCEPT !.answered = TRUE,
                          !.value = IF q.at = "infos" THEN orgStored.settings ELSE @])
    /\ UNCHANGED <<settings, settingSent, settingsSubmitted, settingPast>>

\* Mutant of AfterOffice: the settings are listed before they are stored.
AfterOfficeAtOnce(q) == SettingMoves(q, [q EXCEPT !.at = "infos", !.answered = FALSE])

AfterOffice(q) == SettingMoves(q, [q EXCEPT !.at = "all", !.answered = FALSE])

SaveAnswered(q) ==
    /\ q.at \in SaveSteps /\ q.answered
    /\ \/ q.at = "office" /\ AfterOffice(q) /\ UNCHANGED settings
       \/ /\ q.at = "all" /\ UNCHANGED settings
          /\ SettingMoves(q, [q EXCEPT !.at = "infos", !.answered = FALSE])
       \/ /\ q.at = "infos" /\ SettingEnds(q)
          /\ settings' = [settings EXCEPT !.infos = q.value, !.submitting = FALSE, !.saved = TRUE]
    /\ UNCHANGED <<orgStored, settingSent, settingsSubmitted, settingPast>>

\* The error does not take "saved" back; nobody learns that RuntimeConfig.loadSettings failed.
SaveFailed(q) ==
    /\ q.at \in SaveSteps /\ SettingEnds(q)
    /\ settings' = IF q.at = "infos" THEN settings
                   ELSE [settings EXCEPT !.submitting = FALSE, !.error = TRUE]
    /\ settingPast' = [settingPast EXCEPT !.stuck = @ \/ q.at = "infos"]
    /\ UNCHANGED <<orgStored, settingSent, settingsSubmitted>>

-----------------------------------------------------------------------------
DomainSteps == {"insert", "activate", "primary", "delete", "look", "clear", "set"}
Changing == {q \in settingOut : q.at \in DomainSteps \cup {"list"}}

ChangeDomain(at, d) ==
    /\ SettingAsk(at, d)
    /\ settingPast' = [settingPast EXCEPT !.changes = @ \/ Changing # {}]
    /\ UNCHANGED <<settings, orgStored, settingsSubmitted>>
addDomain(d) == ChangeDomain("insert", d)
verifyDomain(d) == [name |-> d, active |-> FALSE] \in
                     {[name |-> r.name, active |-> r.active] : r \in settings.domains}
                   /\ ChangeDomain("activate", d)
setPrimaryDomain(d) == /\ \E r \in settings.domains : r.name = d /\ ~r.primary
                       /\ ChangeDomain("primary", d)
removeDomain(d) == d \in Names(settings.domains) /\ ChangeDomain("delete", d)

Stores(rows) == orgStored' = [orgStored EXCEPT !.rows = rows]
\* The page lists the domains when it has the answer.
DomainDone(q) == IF q.answered THEN SettingEnds(q) ELSE SettingMoves(q, [q EXCEPT !.at = "list"])
Only(d) == {[r EXCEPT !.primary = (r.name = d) \/ @] : r \in orgStored.rows}

\* GetPrimaryDomain: an active one that is primary, or else an active one (the first in the
\* order of the names, which are not ordered here).
PrimaryDomains ==
    LET active == {r \in orgStored.rows : r.active}
        primary == {r \in active : r.primary}
    IN Names(IF primary # {} THEN primary ELSE active)

\* ensureOrgHasPrimaryDomain: the new domain is made primary where none is, or that of above.
Successors(q) == IF q.domain # "" THEN {q.domain} ELSE PrimaryDomains

\* A statement of the server: add and remove look for a primary domain in the end, and make
\* one if there is none.  Nobody minds when one of the statements for the primary domain
\* fails: the rest is left undone; a look that fails has found none.
DomainStep(q) ==
    /\ \/ /\ q.at = "insert" /\ q.domain \notin Names(orgStored.rows)
          /\ \E superAdmin \in BOOLEAN :
               Stores(orgStored.rows \cup {[name |-> q.domain, active |-> superAdmin, primary |-> FALSE]})
          /\ SettingMoves(q, [q EXCEPT !.at = "look"])
       \/ /\ q.at = "activate" /\ q.domain \in Names(orgStored.rows)
          /\ Stores({[r EXCEPT !.active = @ \/ r.name = q.domain] : r \in orgStored.rows})
          /\ DomainDone(q)
       \/ /\ q.at = "primary" /\ q.domain \in Names(orgStored.rows)
          /\ UNCHANGED orgStored /\ SettingMoves(q, [q EXCEPT !.at = "clear"])
       \/ /\ q.at = "delete" /\ Stores({r \in orgStored.rows : r.name # q.domain})
          /\ SettingMoves(q, [q EXCEPT !.at = "look", !.domain = ""])
       \/ /\ q.at = "look" /\ UNCHANGED orgStored
          /\ \/ (q.domain = "" \/ \E r \in orgStored.rows : r.primary) /\ DomainDone(q)
             \/ \E d \in Successors(q) : SettingMoves(q, [q EXCEPT !.at = "clear", !.domain = d])
       \/ /\ q.at = "clear" /\ SettingMoves(q, [q EXCEPT !.at = "set"])
          /\ Stores({[r EXCEPT !.primary = FALSE] : r \in orgStored.rows})
       \/ q.at = "set" /\ Stores(Only(q.domain)) /\ DomainDone(q)
       \/ q.at \in {"clear", "set"} /\ UNCHANGED orgStored /\ DomainDone(q)
    /\ UNCHANGED <<settings, settingSent, settingsSubmitted, settingPast>>

\* The domain is there already, or gone, or has no record, or the first statement fails:
\* nothing is listed again.
DomainRefused(q) ==
    /\ q.at \in {"insert", "activate", "primary", "delete"} /\ SettingEnds(q)
    /\ UNCHANGED <<settings, orgStored, settingSent, settingsSubmitted, settingPast>>

NothingListed == settingPast' = [settingPast EXCEPT !.unlisted = TRUE]

\* The page is told that the change failed, or nothing: the server goes on, or has stopped.
DomainLost(q) ==
    /\ q.at \in DomainSteps /\ NothingListed
    /\ \/ ~q.answered /\ SettingMoves(q, [q EXCEPT !.answered = TRUE])
       \/ SettingEnds(q)
    /\ UNCHANGED <<settings, orgStored, settingSent, settingsSubmitted>>

\* The answer to what was done is lost, or that to Domain.list, or the list fails, which
\* nobody catches: the old list stays.
DomainsLost(q) ==
    /\ q.at = "list" /\ SettingEnds(q) /\ NothingListed
    /\ UNCHANGED <<settings, orgStored, settingSent, settingsSubmitted>>

DomainsRead(q) ==
    /\ q.at = "list" /\ ~q.answered
    /\ SettingMoves(q, [q EXCEPT !.answered = TRUE, !.got = orgStored.rows])
    /\ UNCHANGED <<settings, orgStored, settingSent, settingsSubmitted, settingPast>>

\* Domain.list: the answers of two are not told apart.
DomainsAnswered(q) ==
    /\ q.at = "list" /\ q.answered /\ SettingEnds(q)
    /\ settings' = [settings EXCEPT !.domains = q.got]
    /\ settingPast' = [settingPast EXCEPT !.unlisted = FALSE]
    /\ UNCHANGED <<orgStored, settingSent, settingsSubmitted>>

SettingStep(q) ==
    \/ SaveServed(q) \/ SaveAnswered(q) \/ SaveFailed(q)
    \/ DomainStep(q) \/ DomainRefused(q) \/ DomainLost(q)
    \/ DomainsRead(q) \/ DomainsAnswered(q) \/ DomainsLost(q)

SettingSteps == \E q \in settingOut : SettingStep(q)

SettingsNext ==
    \/ editOfficeHours \/ editSettings \/ onSubmitSettings
    \/ \E d \in Domains :
         addDomain(d) \/ verifyDomain(d) \/ setPrimaryDomain(d) \/ removeDomain(d)
    \/ SettingSteps

SettingsSpec == SettingsInit /\ [][SettingsNext]_settingVars /\ WF_settingVars(SettingSteps)

-----------------------------------------------------------------------------
SettingsTypeOK ==
    /\ settings \in [form : 0 .. MaxSettingEdits, hoursValid : BOOLEAN, submitting : BOOLEAN,
                     saved : BOOLEAN, error : BOOLEAN, domains : SUBSET DomainRow,
                     infos : 0 .. MaxSettingEdits]
    /\ orgStored \in [office : 0 .. MaxSettingEdits, settings : 0 .. MaxSettingEdits,
                      rows : SUBSET DomainRow]
    /\ settingOut \subseteq [id : 1 .. MaxSettingRequests,
                             at : SaveSteps \cup DomainSteps \cup {"list"},
                             domain : Domains \cup {""}, value : 0 .. MaxSettingEdits,
                             got : SUBSET DomainRow, answered : BOOLEAN]
    /\ settingSent \in 0 .. MaxSettingRequests /\ settingsSubmitted \in 0 .. MaxSettingEdits
    \* two saves overlapped; the client's settings could not be read; two changes of domains
    \* overlapped; the last change of a domain was not followed by a list
    /\ settingPast \in [saves : BOOLEAN, stuck : BOOLEAN, changes : BOOLEAN, unlisted : BOOLEAN]

\* "Saved" means that the office hours, the other settings and what the client keeps of
\* them are those of the last save, unless saves overlapped.
SavedIsStored ==
    settings.saved /\ ~settingPast.saves =>
        /\ orgStored.office = settingsSubmitted /\ orgStored.settings = settingsSubmitted
        /\ settings.infos = settingsSubmitted

\* Changes made one after the other leave at most one primary domain, whatever statement
\* fails; and the page lists the domains as they are, unless no list has come since a change
\* that failed, or whose list did, after the server had changed them.
DomainsInOrder ==
    Changing = {} /\ ~settingPast.changes =>
        /\ Cardinality({r \in orgStored.rows : r.primary}) <= 1
        /\ ~settingPast.unlisted => settings.domains = orgStored.rows

\* The organization is as the page says, of its settings and of its domains.
SettingsKept == SavedIsStored /\ DomainsInOrder

\* In the end the spinner of the button is gone, unless the client's settings could not be
\* read.
SavingEnded == settings.submitting => settingPast.stuck
=============================================================================

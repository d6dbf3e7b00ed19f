------------------------------- MODULE MCPages -------------------------------
(***************************************************************************)
(* The pages and dialogs of the client, the login of its tabs, and the      *)
(* cache in which the server keeps the settings, for TLC: a behaviour is    *)
(* one of any of them, the one that is open.                               *)
(***************************************************************************)
EXTENDS BookingDialog, SearchFilter, LocationEditor, Sessions, PreferencesPage,
        SettingsPage, BookingEditor, LoginPage, UserEditor, SecondFactor,
        SettingsCache

VARIABLE page

pagesVars == <<page, dialogVars, filterVars, editorVars, sessionVars, prefVars, settingVars,
               bookingVars, loginVars, userVars, factorVars, cacheVars>>

\* A page that is not open is in one of its initial states.
PagesInit ==
    /\ page \in {"dialog", "filter", "location", "sessions", "preferences", "settings",
                 "booking", "login", "user", "factor", "cache"}
    /\ DialogInit /\ FilterInit
    /\ EditorInit /\ (page # "location" => editor.id = 0)
    /\ SessionsInit /\ (page # "sessions" => storage.pair = NoPair)
    /\ PreferencesInit /\ (page # "preferences" => prefs.caldav = Disconnected)
    /\ SettingsInit /\ (page # "settings" => settings.domains =
            {[name |-> CHOOSE d \in Domains : TRUE, active |-> TRUE, primary |-> TRUE]})
    /\ BookingEditorInit /\ (page # "booking" => isNewBooking)
    /\ bookingEditor.location \in {NoArea, CHOOSE a \in Areas : TRUE}     \* areas are alike
    /\ LoginInit /\ (page # "login" => account = [totp |-> FALSE, passkey |-> FALSE, update |-> FALSE])
    /\ UserEditorInit /\ (page # "user" => ~userForm.id /\ userForm.adminUserRole = UserRoleOrgAdmin)
    /\ SecondFactorInit /\ (page # "factor" => ~factor.enforced /\ ~HasFactor)
    /\ factor.passkeys \in {{}, {CHOOSE k \in Passkeys : TRUE}, Passkeys}   \* passkeys, too
    /\ CacheInit /\ settingRow = CHOOSE v \in SettingValues : TRUE         \* and values

Dialog(A) == /\ page = "dialog" /\ A
             /\ UNCHANGED <<page, filterVars, editorVars, sessionVars, prefVars,
                           settingVars, bookingVars, loginVars, userVars, factorVars, cacheVars>>
Filter(A) == /\ page = "filter" /\ A
             /\ UNCHANGED <<page, dialogVars, editorVars, sessionVars, prefVars,
                           settingVars, bookingVars, loginVars, userVars, factorVars, cacheVars>>
Location(A) == /\ page = "location" /\ A
               /\ UNCHANGED <<page, dialogVars, filterVars, sessionVars, prefVars,
                             settingVars, bookingVars, loginVars, userVars, factorVars, cacheVars>>
\* Tabs are alike: it is this one that asks first.
FirstTab == CHOOSE t \in Tabs : TRUE
Browser(A) == /\ page = "sessions" /\ A
              /\ asked = 0 => \A q \in queries' : q.tab = FirstTab
              /\ UNCHANGED <<page, dialogVars, filterVars, editorVars, prefVars,
                            settingVars, bookingVars, loginVars, userVars, factorVars, cacheVars>>
Preferences(A) == /\ page = "preferences" /\ A
                  /\ UNCHANGED <<page, dialogVars, filterVars, editorVars, sessionVars,
                                settingVars, bookingVars, loginVars, userVars,
                                factorVars, cacheVars>>
Settings(A) == /\ page = "settings" /\ A
               /\ UNCHANGED <<page, dialogVars, filterVars, editorVars, sessionVars,
                             prefVars, bookingVars, loginVars, userVars, factorVars, cacheVars>>
BookingPage(A) == /\ page = "booking" /\ A
                  /\ UNCHANGED <<page, dialogVars, filterVars, editorVars, sessionVars,
                                prefVars, settingVars, loginVars, userVars, factorVars, cacheVars>>
Login(A) == /\ page = "login" /\ A
            /\ UNCHANGED <<page, dialogVars, filterVars, editorVars, sessionVars,
                          prefVars, settingVars, bookingVars, userVars, factorVars, cacheVars>>
User(A) == /\ page = "user" /\ A
           /\ UNCHANGED <<page, dialogVars, filterVars, editorVars, sessionVars,
                         prefVars, settingVars, bookingVars, loginVars, factorVars, cacheVars>>
Security(A) == /\ page = "factor" /\ A
               /\ UNCHANGED <<page, dialogVars, filterVars, editorVars, sessionVars,
                             prefVars, settingVars, bookingVars, loginVars, userVars,
                             cacheVars>>

ServerCache(A) == /\ page = "cache" /\ A
                  /\ UNCHANGED <<page, dialogVars, filterVars, editorVars, sessionVars,
                                prefVars, settingVars, bookingVars, loginVars, userVars,
                                factorVars>>

PagesNext ==
    \/ Dialog(DialogNext) \/ Filter(FilterNext)
    \/ Location(EditorNext) \/ Browser(SessionsNext) \/ Preferences(PreferencesNext)
    \/ Settings(SettingsNext) \/ BookingPage(BookingEditorNext) \/ Login(LoginNext)
    \/ User(UserEditorNext) \/ Security(SecondFactorNext)
    \/ ServerCache(CacheNext)

\* The fairness of each page's specification, for the one that is open.
PagesFairness ==
    /\ WF_dialogVars(page = "dialog" /\ DialogAnswers)
    /\ WF_editorVars(page = "location" /\ EditorAnswer)
    /\ WF_sessionVars(page = "sessions" /\ QuerySteps)
    /\ WF_prefVars(page = "preferences" /\ PrefAnswers)
    /\ WF_settingVars(page = "settings" /\ SettingSteps)
    /\ WF_bookingVars(page = "booking" /\ BookingEditorAnswers)
    /\ WF_loginVars(page = "login" /\ LoginAnswers)
    /\ WF_factorVars(page = "factor" /\ (userLoaded \/ FactorSteps))
    /\ WF_cacheVars(page = "cache" /\ CacheTick)
    /\ \A r \in Accesses : WF_cacheVars(page = "cache" /\ (CacheSet(r) \/ CacheSetFails(r)))
PagesSpec == PagesInit /\ [][PagesNext]_pagesVars /\ PagesFairness

-----------------------------------------------------------------------------
\* The variables of the page that is open have their types, which its module states.
PagesTypeOK ==
    /\ page = "dialog" => DialogTypeOK
    /\ page = "filter" => FilterTypeOK
    /\ page = "location" => EditorTypeOK
    /\ page = "sessions" => SessionsTypeOK
    /\ page = "preferences" => PreferencesTypeOK
    /\ page = "settings" => SettingsTypeOK
    /\ page = "booking" => BookingTypeOK
    /\ page = "login" => LoginTypeOK
    /\ page = "user" => UserTypeOK
    /\ page = "factor" => SecondFactorTypeOK
    /\ page = "cache" => CacheTypeOK

\* No page waits forever for an answer that has come or has failed: its spinners go and
\* its buttons can be pressed again, but for the cases that the modules name.  Nor does the
\* server go on serving a setting from before its last change.
PagesRecover ==
    <>[](/\ DialogRecovered /\ SaveEnded /\ QueriesEnded /\ SubmittingEnded /\ SavingEnded
         /\ SpacesBack /\ LoginEnded /\ EnforcementCame /\ FactorFormsFree /\ CacheAgrees)
=============================================================================

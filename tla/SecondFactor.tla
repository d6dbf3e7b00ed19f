----------------------------- MODULE SecondFactor -----------------------------
(***************************************************************************)
(* The second factor of a user with a password: the dialog that the client  *)
(* opens by itself when the organization enforces one (_app.tsx), the two   *)
(* blocks of the preferences that set up and take away a TOTP secret and    *)
(* passkeys, and what the server does with their requests.  The client asks *)
(* INFOS, its own copy of the user, whether there is a factor; whoever      *)
(* changes a factor writes INFOS, and the app notices when it renders.      *)
(* A setup stands for its state on the server, its QR code and its secret.  *)
(* The other writers of the user's row (refresh, login) are not here.       *)
(***************************************************************************)
EXTENDS Integers, FiniteSets

CONSTANTS Passkeys,                               \* the ids of passkeys
          MaxFactorRequests, MaxFactorOut         \* bounds

ASSUME SecondFactorAssumption ==
    {MaxFactorRequests, MaxFactorOut} \subseteq Nat

VARIABLES factor,         \* the server: the user's secret and passkeys, the setups begun
          INFOS,          \* RuntimeConfig.INFOS
          app,            \* the state of App
          setupModal,     \* the TotpSetupModal of the app and that of the preferences
          security,       \* TotpSettings and PasskeySettings, and whether they are shown
          factorRequests, factorSent, setups,
          scanned,        \* the secrets that the user's authenticator has
          factorSeen      \* what has happened: see SecondFactorTypeOK

factorVars == <<factor, INFOS, app, setupModal, security, factorRequests, factorSent, setups,
                scanned, factorSeen>>
factorServer == <<factor, setups>>
factorSending == <<factorRequests, factorSent>>

Owners == {"app", "preferences"}
NoSetup == 0
NoSettings == [open |-> FALSE, totpEnabled |-> FALSE, listed |-> {}, loading |-> FALSE,
               registering |-> FALSE]
HiddenModal == [show |-> FALSE, setup |-> NoSetup, secret |-> NoSetup, secretLoading |-> FALSE,
                submitting |-> FALSE]
HasFactor == factor.secret # NoSetup \/ factor.passkeys # {}

FactorRequest(no, kind, owner, x) ==
    [no |-> no, kind |-> kind, owner |-> owner, x |-> x, code |-> NoSetup, at |-> "sent"]
\* What changes a factor, or tells INFOS of one.
ChangeKinds == {"validate", "disable", "register", "delete", "relist"}
RequestKinds == ChangeKinds \cup {"generate", "secret", "list"}
ChangeOut == \E r \in factorRequests : r.kind \in ChangeKinds
Overlaps(q) == IF q.kind \in ChangeKinds /\ ChangeOut THEN {"together"} ELSE {}
\* Room for n requests, with those that the answers may lead to.
Room(n) == factorSent + n <= MaxFactorRequests
Asking(q) == /\ Room(IF q.kind = "delete" THEN 2 ELSE 1)
             /\ Cardinality(factorRequests) < MaxFactorOut
             /\ factorSent' = factorSent + 1 /\ factorRequests' = factorRequests \cup {q}
             /\ factorSeen' = factorSeen \cup Overlaps(q)
NextRequest(kind, owner, x) == FactorRequest(factorSent + 1, kind, owner, x)

\* A user with a password who is logging in, with any factors; loadUserAndSettings.
SecondFactorInit ==
    \E enforce, totp \in BOOLEAN, keys \in SUBSET Passkeys :
        /\ factor = [enforced |-> enforce, secret |-> IF totp THEN 1 ELSE NoSetup,
                     passkeys |-> keys, begun |-> {}]
        /\ setups = (IF totp THEN 1 ELSE 0) /\ scanned = (IF totp THEN {1} ELSE {})
        /\ INFOS = [enforceTOTP |-> enforce, totpEnabled |-> totp, hasPasskeys |-> keys # {}]
        /\ app = [isLoading |-> TRUE, totpEnabled |-> FALSE, hasPasskeys |-> FALSE,
                  showMfaEncouragement |-> FALSE, dismissed |-> FALSE]
        /\ setupModal = [o \in Owners |-> HiddenModal] /\ security = NoSettings
        /\ factorRequests = {} /\ factorSent = 0 /\ factorSeen = {}

-----------------------------------------------------------------------------
\* checkTotpEnforcement and checkMfaEncouragement, after the step.
NoneKnown == ~INFOS.totpEnabled /\ ~INFOS.hasPasskeys
NeedsSetup == INFOS.enforceTOTP /\ NoneKnown
Encourages == ~INFOS.enforceTOTP /\ NoneKnown

\* The app renders with state a.  It is checked as often as asked, and once more when its
\* copy of INFOS is not that of INFOS (componentDidUpdate); each check may ask for a setup
\* of its own, after the one that the step itself may have asked for.
AppRenders(a, checks, left) ==
    LET stale == <<a.totpEnabled, a.hasPasskeys>> # <<INFOS'.totpEnabled, INFOS'.hasPasskeys>>
        n == checks + IF stale THEN 1 ELSE 0
        asked == IF NeedsSetup' THEN n ELSE 0
        own == IF \E q \in left : q.no = factorSent + 1 THEN 1 ELSE 0
    IN  /\ app' = [a EXCEPT !.totpEnabled = INFOS'.totpEnabled,
                            !.hasPasskeys = INFOS'.hasPasskeys,
                            !.showMfaEncouragement = @ \/ (n > 0 /\ Encourages' /\ ~a.dismissed)]
        /\ factorRequests' = left \cup {FactorRequest(factorSent + own + i, "generate", "app", {}) :
                                            i \in 1..asked}
        /\ factorSent' = factorSent + own + asked

\* componentDidMount: both the callback of setState and componentDidUpdate check.
userLoaded ==
    /\ app.isLoading
    /\ UNCHANGED <<factorServer, INFOS, setupModal, security, scanned, factorSeen>>
    /\ AppRenders([app EXCEPT !.isLoading = FALSE, !.totpEnabled = INFOS.totpEnabled,
                           !.hasPasskeys = INFOS.hasPasskeys], 2, factorRequests)

\* No dialog covers the pages.
Reachable == ~app.isLoading /\ ~setupModal["app"].show /\ ~app.showMfaEncouragement

\* The answers for a component that is gone reach no other.
Orphaned(owner, kinds) == {IF q.owner = owner /\ q.kind \in kinds
                          THEN [q EXCEPT !.owner = "gone"] ELSE q : q \in factorRequests}
\* PasskeySettings lists the passkeys when the preferences open.
OpensPreferences ==
    /\ security' = [NoSettings EXCEPT !.open = TRUE, !.totpEnabled = INFOS.totpEnabled,
                                      !.loading = TRUE]
    /\ setupModal' = [setupModal EXCEPT !["preferences"] = HiddenModal]
    /\ factorSeen' = factorSeen \cup IF ChangeOut THEN {"reopened"} ELSE {}
Lists == NextRequest("list", "preferences", {})

onRouteChangeComplete ==
    /\ Reachable /\ ~setupModal["preferences"].show
    /\ Room(2)
    /\ UNCHANGED <<factorServer, INFOS, scanned>>
    /\ \/ /\ security.open /\ security' = NoSettings /\ UNCHANGED factorSeen
          /\ setupModal' = [setupModal EXCEPT !["preferences"] = HiddenModal]
          /\ AppRenders(app, 1, Orphaned("preferences", RequestKinds))
       \/ ~security.open /\ OpensPreferences /\ AppRenders(app, 1, factorRequests \cup {Lists})

onMfaEncouragementDismiss ==
    /\ app.showMfaEncouragement /\ ~setupModal["app"].show
    /\ UNCHANGED <<factorServer, INFOS, scanned, factorSeen, setupModal, security>>
    /\ AppRenders([app EXCEPT !.showMfaEncouragement = FALSE, !.dismissed = TRUE], 0, factorRequests)
onMfaEncouragementSetup ==
    /\ app.showMfaEncouragement /\ ~setupModal["app"].show /\ ~security.open
    /\ Room(2)
    /\ UNCHANGED <<factorServer, INFOS, scanned>>
    /\ OpensPreferences
    /\ AppRenders([app EXCEPT !.showMfaEncouragement = FALSE, !.dismissed = TRUE], 1,
               factorRequests \cup {Lists})

-----------------------------------------------------------------------------
\* TotpSettings and PasskeySettings, when no dialog covers them.
ModalUsable(o) == IF o = "app" THEN setupModal["app"].show
             ELSE Reachable /\ security.open /\ setupModal["preferences"].show
OnPage == Reachable /\ security.open /\ ~setupModal["preferences"].show
AsksOf(kind, owner, x) ==
    /\ Asking(NextRequest(kind, owner, x)) /\ UNCHANGED <<factorServer, INFOS, app, scanned>>

setupTotp == /\ OnPage /\ ~security.totpEnabled /\ AsksOf("generate", "preferences", {})
             /\ UNCHANGED <<setupModal, security>>
disableTotp == /\ OnPage /\ security.totpEnabled /\ ~INFOS.enforceTOTP
               /\ AsksOf("disable", "preferences", {}) /\ UNCHANGED <<setupModal, security>>
hideModal == /\ ModalUsable("preferences")
             /\ setupModal' = [setupModal EXCEPT !["preferences"].show = FALSE]
             /\ UNCHANGED <<factorServer, factorSending, INFOS, app, security, scanned, factorSeen>>
loadSecret(o) ==
    /\ ModalUsable(o) /\ setupModal[o].secret = NoSetup /\ ~setupModal[o].secretLoading
    /\ AsksOf("secret", o, {setupModal[o].setup})
    /\ setupModal' = [setupModal EXCEPT ![o].secretLoading = TRUE] /\ UNCHANGED security

\* The secrets of which a code can be typed: that of the QR code, that which is shown, or
\* none that the server knows.
Typed(m) == {m.setup, m.secret, NoSetup}
onSubmitCode(o) ==
    /\ ModalUsable(o) /\ ~setupModal[o].submitting
    /\ \E code \in Typed(setupModal[o]) :
        /\ Asking([NextRequest("validate", o, {setupModal[o].setup}) EXCEPT !.code = code])
        /\ scanned' = scanned \cup ({code} \ {NoSetup})
    /\ setupModal' = [setupModal EXCEPT ![o].submitting = TRUE]
    /\ UNCHANGED <<factorServer, INFOS, app, security>>

registerPasskey ==
    /\ OnPage /\ ~security.loading /\ ~security.registering
    /\ AsksOf("register", "preferences", {})
    /\ security' = [security EXCEPT !.registering = TRUE] /\ UNCHANGED setupModal
deletePasskey(k) ==
    /\ OnPage /\ ~security.loading /\ k \in security.listed
    /\ AsksOf("delete", "preferences", {k}) /\ UNCHANGED <<setupModal, security>>

-----------------------------------------------------------------------------
\* The server.  A handler reads the user when it begins; deletePasskey counts the passkeys
\* and then deletes.
HandledAs(q, r) == factorRequests' = (factorRequests \ {q}) \cup {r}
At(q, at) == [q EXCEPT !.at = at]
OnServer == UNCHANGED <<INFOS, app, setupModal, security, factorSent, scanned, factorSeen>>
factorRefused(q) == /\ q.at \in {"sent", "counted"} /\ HandledAs(q, At(q, "refused"))
                    /\ UNCHANGED factorServer /\ OnServer

generateTotp(q) ==
    /\ q.kind = "generate" /\ q.at = "sent" /\ setups' = setups + 1
    /\ factor' = [factor EXCEPT !.begun = @ \cup {setups'}]
    /\ HandledAs(q, [At(q, "done") EXCEPT !.x = {setups'}]) /\ OnServer
getTotpSecret(q) ==
    /\ q.kind = "secret" /\ q.at = "sent" /\ q.x \subseteq factor.begun
    /\ HandledAs(q, At(q, "done")) /\ UNCHANGED factorServer /\ OnServer
\* Mutant of validateTotp: the secret of the newest setup is taken.
validateTotpNewest(q) ==
    /\ q.kind = "validate" /\ q.at = "sent" /\ q.x \subseteq factor.begun /\ {q.code} = q.x
    /\ factor' = [factor EXCEPT !.begun = @ \ q.x, !.secret = setups]
    /\ HandledAs(q, At(q, "done")) /\ UNCHANGED setups /\ OnServer

\* A code is right when it is of the secret of the setup that the request names.
validateTotp(q) ==
    /\ q.kind = "validate" /\ q.at = "sent" /\ q.x \subseteq factor.begun /\ {q.code} = q.x
    /\ factor' = [factor EXCEPT !.begun = @ \ q.x, !.secret = q.code]
    /\ HandledAs(q, At(q, "done")) /\ UNCHANGED setups /\ OnServer
disableServed(q) ==
    /\ q.kind = "disable" /\ q.at = "sent" /\ ~factor.enforced
    /\ factor' = [factor EXCEPT !.secret = NoSetup]
    /\ HandledAs(q, At(q, "done")) /\ UNCHANGED setups /\ OnServer
\* The beginning, the authenticator's part and finishPasskeyRegistration.  The id is new:
\* nothing that is shown or on its way has it.
Known == factor.passkeys \cup security.listed \cup UNION {r.x : r \in factorRequests}
finishPasskeyRegistration(q) ==
    /\ q.kind = "register" /\ q.at = "sent"
    /\ \E k \in Passkeys \ Known :
        /\ factor' = [factor EXCEPT !.passkeys = @ \cup {k}]
        /\ HandledAs(q, [At(q, "done") EXCEPT !.x = {k}])
    /\ UNCHANGED setups /\ OnServer
\* With an enforced factor and no secret the last passkey stays.
passkeysCounted(q) ==
    /\ q.kind = "delete" /\ q.at = "sent" /\ q.x \subseteq factor.passkeys
    /\ factor.enforced /\ factor.secret = NoSetup => Cardinality(factor.passkeys) > 1
    /\ HandledAs(q, At(q, "counted")) /\ UNCHANGED factorServer /\ OnServer
passkeyDeleted(q) ==
    /\ q.kind = "delete" /\ q.at = "counted"
    /\ factor' = [factor EXCEPT !.passkeys = @ \ q.x]
    /\ HandledAs(q, At(q, "done")) /\ UNCHANGED setups /\ OnServer
passkeysRead(q) ==
    /\ q.kind \in {"list", "relist"} /\ q.at = "sent"
    /\ HandledAs(q, [At(q, "done") EXCEPT !.x = factor.passkeys])
    /\ UNCHANGED factorServer /\ OnServer
\* A setup expires, or is dropped after too many codes.
setupExpires == \E n \in factor.begun :
    /\ factor' = [factor EXCEPT !.begun = @ \ {n}]
    /\ UNCHANGED <<setups, factorSending>> /\ OnServer
factorServed(q) ==
    \/ generateTotp(q) \/ getTotpSecret(q) \/ validateTotp(q) \/ disableServed(q)
    \/ finishPasskeyRegistration(q) \/ passkeysCounted(q) \/ passkeyDeleted(q)
    \/ passkeysRead(q) \/ factorRefused(q)

-----------------------------------------------------------------------------
\* The answers.  What is written to INFOS is written when the page is gone, too.
ModalAfter(o, m) == setupModal' = IF o \in Owners THEN [setupModal EXCEPT ![o] = m] ELSE setupModal
SecurityAfter(q, f) == security' = IF q.owner = "preferences" THEN f ELSE security
Rest(q) == factorRequests \ {q}
Taken(q) == factorRequests' = Rest(q) /\ UNCHANGED <<app, factorSent>>

\* The app opens its dialog anew; the other one keeps what it showed of an earlier setup.
generateAnswered(q) ==
    /\ q.kind = "generate" /\ UNCHANGED <<INFOS, security>>
    /\ \E n \in q.x :
        \/ /\ q.owner = "app" /\ AppRenders(app, 0, Rest(q))
           /\ LET m == IF setupModal["app"].show THEN setupModal["app"] ELSE HiddenModal
              IN  ModalAfter("app", [m EXCEPT !.show = TRUE, !.setup = n])
        \/ /\ q.owner = "preferences" /\ Taken(q)
           /\ ModalAfter("preferences", [setupModal["preferences"] EXCEPT !.show = TRUE, !.setup = n])
        \/ q.owner = "gone" /\ Taken(q) /\ UNCHANGED setupModal
secretAnswered(q) ==
    /\ q.kind = "secret" /\ Taken(q) /\ UNCHANGED <<INFOS, security>>
    /\ \E n \in q.x :
        IF q.owner \in Owners
        THEN ModalAfter(q.owner, [setupModal[q.owner] EXCEPT !.secret = n, !.secretLoading = FALSE])
        ELSE UNCHANGED setupModal
\* onTotpEnforcementSuccess and onTotpSuccess.
onSuccess(q) ==
    /\ q.kind = "validate" /\ INFOS' = [INFOS EXCEPT !.totpEnabled = TRUE]
    /\ SecurityAfter(q, [security EXCEPT !.totpEnabled = TRUE])
    /\ \/ /\ q.owner = "app" /\ ModalAfter("app", HiddenModal)
          /\ AppRenders([app EXCEPT !.totpEnabled = TRUE], 1, Orphaned("app", {"secret"}) \ {q})
       \/ /\ q.owner = "preferences" /\ Taken(q)
          /\ ModalAfter("preferences",
                        [setupModal["preferences"] EXCEPT !.show = FALSE, !.submitting = FALSE])
       \/ q.owner = "gone" /\ Taken(q) /\ UNCHANGED setupModal
\* Mutant of disableAnswered: INFOS is not told.
disableAnsweredLocally(q) ==
    /\ q.kind = "disable" /\ Taken(q) /\ UNCHANGED <<setupModal, INFOS>>
    /\ SecurityAfter(q, [security EXCEPT !.totpEnabled = FALSE])

disableAnswered(q) ==
    /\ q.kind = "disable" /\ Taken(q) /\ UNCHANGED setupModal
    /\ INFOS' = [INFOS EXCEPT !.totpEnabled = FALSE]
    /\ SecurityAfter(q, [security EXCEPT !.totpEnabled = FALSE])
registerAnswered(q) ==
    /\ q.kind = "register" /\ Taken(q) /\ UNCHANGED setupModal
    /\ SecurityAfter(q, [security EXCEPT !.listed = @ \cup q.x, !.registering = FALSE])
    /\ INFOS' = [INFOS EXCEPT !.hasPasskeys = TRUE]
\* onPasskeyDeleted asks for the list, to write INFOS.
passkeyDropped(q) ==
    /\ q.kind = "delete" /\ UNCHANGED <<INFOS, setupModal, app>>
    /\ SecurityAfter(q, [security EXCEPT !.listed = @ \ q.x])
    /\ factorRequests' = Rest(q) \cup {NextRequest("relist", "gone", {})}
    /\ factorSent' = factorSent + 1
listAnswered(q) ==
    /\ q.kind = "list" /\ Taken(q) /\ UNCHANGED <<INFOS, setupModal>>
    /\ SecurityAfter(q, [security EXCEPT !.listed = q.x, !.loading = FALSE])
relistAnswered(q) ==
    /\ q.kind = "relist" /\ Taken(q) /\ UNCHANGED <<setupModal, security>>
    /\ INFOS' = [INFOS EXCEPT !.hasPasskeys = q.x # {}]

\* Some failures are shown, some are not caught; each ends what waited for the answer.
factorFailed(q) ==
    /\ Taken(q) /\ UNCHANGED INFOS
    /\ SecurityAfter(q, [security EXCEPT !.registering = @ /\ q.kind # "register",
                                         !.loading = @ /\ q.kind # "list"])
    /\ IF q.owner \in Owners
       THEN ModalAfter(q.owner,
                       [setupModal[q.owner] EXCEPT !.submitting = @ /\ q.kind # "validate",
                                                   !.secretLoading = @ /\ q.kind # "secret"])
       ELSE UNCHANGED setupModal

factorAnswered(q) ==
    /\ q.at \in {"done", "refused"} /\ UNCHANGED <<factorServer, scanned>>
    /\ \/ /\ q.at = "done" /\ UNCHANGED factorSeen
          /\ \/ generateAnswered(q) \/ secretAnswered(q) \/ onSuccess(q) \/ disableAnswered(q)
             \/ registerAnswered(q) \/ passkeyDropped(q) \/ listAnswered(q) \/ relistAnswered(q)
       \/ /\ factorFailed(q)
          /\ factorSeen' = factorSeen \cup
                IF q.at = "done" \/ q.kind \in {"generate", "list", "relist"} THEN {"lost"} ELSE {}

FactorSteps == \E q \in factorRequests : factorServed(q) \/ factorAnswered(q)
SecondFactorNext ==
    \/ userLoaded \/ onRouteChangeComplete
    \/ onMfaEncouragementDismiss \/ onMfaEncouragementSetup
    \/ setupTotp \/ disableTotp \/ hideModal
    \/ \E o \in Owners : loadSecret(o) \/ onSubmitCode(o)
    \/ registerPasskey \/ \E k \in Passkeys : deletePasskey(k)
    \/ setupExpires \/ FactorSteps
SecondFactorSpec ==
    SecondFactorInit /\ [][SecondFactorNext]_factorVars
    /\ WF_factorVars(userLoaded \/ FactorSteps)

-----------------------------------------------------------------------------
Setups == 0..setups
SecondFactorTypeOK ==
    /\ factor \in [enforced : BOOLEAN, secret : Setups, passkeys : SUBSET Passkeys,
                   begun : SUBSET Setups]
    /\ INFOS \in [enforceTOTP : BOOLEAN, totpEnabled : BOOLEAN, hasPasskeys : BOOLEAN]
    /\ app \in [isLoading : BOOLEAN, totpEnabled : BOOLEAN, hasPasskeys : BOOLEAN,
                showMfaEncouragement : BOOLEAN, dismissed : BOOLEAN]
    /\ setupModal \in [Owners -> [show : BOOLEAN, setup : Setups, secret : Setups,
                                  secretLoading : BOOLEAN, submitting : BOOLEAN]]
    /\ \A o \in Owners : setupModal[o].show => setupModal[o].setup # NoSetup
    /\ security.listed \subseteq Passkeys
    /\ \A q, r \in factorRequests : q.no = r.no => q = r
    /\ factorSeen \subseteq {"together",  \* two requests were out that change or tell a factor
                             "reopened",  \* the preferences were opened while one was out
                             "lost"}      \* an answer, or a list or a setup was refused

\* The secret that the server will ask codes of is one that the user's authenticator has,
\* however many setups are begun, shown and answered out of order: nobody is locked out.
NotLockedOut == factor.secret # NoSetup => factor.secret \in scanned

\* Where a factor is enforced a user who has one keeps one, unless two changes were under
\* way together: two deletions are counted before either is done.
EverHadFactor == INFOS.totpEnabled \/ INFOS.hasPasskeys
LastFactorStays == factor.enforced /\ EverHadFactor /\ "together" \notin factorSeen => HasFactor

\* Once every answer has come, INFOS says of the user what the server does: the client neither
\* asks for a setup of one who has a factor nor lets one pass who has none.
FactorsAgree ==
    factorSeen = {} /\ (\A q \in factorRequests : q.kind \notin ChangeKinds) =>
        /\ INFOS.totpEnabled = (factor.secret # NoSetup)
        /\ INFOS.hasPasskeys = (factor.passkeys # {})

\* The list of the preferences is that of the server once its requests are answered, though
\* passkeys are deleted while one is registered.
PasskeysListed ==
    /\ security.open /\ factorSeen \subseteq {"together"}
    /\ \A q \in factorRequests : q.kind \notin {"register", "delete", "list"}
    => security.listed = factor.passkeys

\* A factor that can be used stays with the user, and the client knows it: the four above.
FactorsKept == NotLockedOut /\ LastFactorStays /\ FactorsAgree /\ PasskeysListed

\* In the end a user who must have a factor and has none is shown the dialog: no check
\* is missed when the page is loaded, left or told of a change.
EnforcementCame == NeedsSetup => setupModal["app"].show \/ factorSeen # {}

\* In the end neither block is disabled: what waits for an answer gets one.
FactorFormsFree == ~security.registering /\ \A o \in Owners : ~setupModal[o].submitting
=============================================================================

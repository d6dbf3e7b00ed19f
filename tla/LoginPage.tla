------------------------------ MODULE LoginPage ------------------------------
(***************************************************************************)
(* The login page: it finds the organization, takes a password or a         *)
(* passkey, and asks for a second factor, or for a new password, if the     *)
(* server answers that it wants one.  The fields are read-only while a      *)
(* password is out, but the form can be sent again.                        *)
(*                                                                         *)
(* A login in progress is a record in attempts; `at' is the request, or the *)
(* dialog of the browser, that is waited for.                              *)
(***************************************************************************)
EXTENDS Integers, FiniteSets

CONSTANTS MaxAttempts, MaxTyping     \* bounds

ASSUME LoginAssumption == {MaxAttempts, MaxTyping} \subseteq Nat

VARIABLES loginForm,        \* this.state
          account,      \* [totp, passkey, update] of the user on the server
          attempts, attempted, typings,
          asserted,     \* the challenges that were answered
          loginSeen     \* what has happened: see LoginTypeOK

loginVars == <<loginForm, account, attempts, attempted, typings, asserted, loginSeen>>
attemptVars == <<attempts, attempted>>

Attempt(n, at) == [no |-> n, at |-> at, typed |-> loginForm.typed, code |-> loginForm.code, challenge |-> 0]
Notes(what) == loginSeen' = loginSeen \cup what
Continues(a, at) == attempts' = (attempts \ {a}) \cup {[a EXCEPT !.at = at]}
Over(a) == attempts' = attempts \ {a}

\* With an access token stored, whatever renders the page leaves it.
Renders(state) ==
    loginForm' = IF loginForm.hasAccessToken THEN [loginForm EXCEPT !.form = "gone"] ELSE state

LoginInit ==
    /\ loginForm = [form |-> "loading", typed |-> "nothing", code |-> "nothing",
                requireTotp |-> FALSE, requirePasskey |-> FALSE, challenge |-> 0,
                allowTotpFallback |-> FALSE, requirePasswordUpdate |-> FALSE,
                invalid |-> FALSE, inPasswordSubmit |-> FALSE, inPasskeyLogin |-> FALSE,
                hasAccessToken |-> FALSE]
    /\ account \in [totp : BOOLEAN, passkey : BOOLEAN, update : BOOLEAN]
    /\ attempts = {Attempt(0, "org")} /\ attempted = 0 /\ typings = 0
    /\ asserted = {} /\ loginSeen = {}

\* applyOrg: a single provider is used at once if there are no passwords.
applyOrg(a) ==
    /\ a.at \in {"org", "singleorg"} /\ Over(a)
    /\ \E form \in {"gone", "providers", "disabled", "password"} :
          loginForm' = [loginForm EXCEPT !.form = form]
    /\ UNCHANGED <<account, attempted, typings, asserted, loginSeen>>

checkSingleOrg(a) ==
    /\ \/ a.at = "org" /\ Continues(a, "singleorg") /\ UNCHANGED loginForm
       \/ a.at = "singleorg" /\ Over(a) /\ loginForm' = [loginForm EXCEPT !.form = "nodomain"]
    /\ UNCHANGED <<account, attempted, typings, asserted, loginSeen>>

\* A provider is used, or the password instead of one.
useProvider ==
    /\ loginForm.form = "providers" /\ \E form \in {"gone", "password"} :
                                        loginForm' = [loginForm EXCEPT !.form = form]
    /\ UNCHANGED <<account, attemptVars, typings, asserted, loginSeen>>

-----------------------------------------------------------------------------
PasswordForm == /\ loginForm.form = "password" /\ ~loginForm.requireTotp
                /\ ~loginForm.requirePasskey /\ ~loginForm.requirePasswordUpdate
TotpForm == loginForm.form = "password" /\ loginForm.requireTotp
UpdateForm == /\ loginForm.form = "password" /\ loginForm.requirePasswordUpdate
              /\ ~loginForm.requireTotp /\ ~loginForm.requirePasskey
PasskeyForm == /\ loginForm.form = "password" /\ loginForm.requirePasskey
               /\ ~loginForm.requirePasswordUpdate

TypesPassword ==
    /\ PasswordForm /\ ~loginForm.inPasswordSubmit /\ typings < MaxTyping /\ typings' = typings + 1
    /\ \E typed \in {"right", "wrong"} :
          Renders([loginForm EXCEPT !.typed = typed, !.invalid = FALSE])
    /\ UNCHANGED <<account, attemptVars, asserted, loginSeen>>

\* A complete code is sent at once.
TypesCode ==
    /\ TotpForm /\ ~loginForm.inPasswordSubmit /\ \E code \in {"right", "wrong"} :
          Renders([loginForm EXCEPT !.code = code, !.invalid = FALSE, !.inPasswordSubmit = TRUE])

SendsLogin(at) ==
    /\ attempted < MaxAttempts /\ attempted' = attempted + 1
    /\ attempts' = attempts \cup {[Attempt(attempted + 1, at) EXCEPT !.code = loginForm'.code]}
    /\ Notes(IF attempts # {} THEN {"together"} ELSE {})

onPasswordSubmit ==
    /\ \/ PasswordForm /\ loginForm.typed # "nothing"
          /\ Renders([loginForm EXCEPT !.inPasswordSubmit = TRUE])
       \/ TypesCode
    /\ SendsLogin("login") /\ UNCHANGED <<account, typings, asserted>>

onNewPasswordSubmit ==
    /\ UpdateForm /\ Renders([loginForm EXCEPT !.inPasswordSubmit = TRUE])
    /\ SendsLogin("updatepw") /\ UNCHANGED <<account, typings, asserted>>

backToPassword ==
    /\ UpdateForm
    /\ Renders([loginForm EXCEPT !.requirePasswordUpdate = FALSE, !.typed = "nothing"])
    /\ UNCHANGED <<account, attemptVars, typings, asserted, loginSeen>>

loginWithPasskey ==
    /\ PasswordForm /\ ~loginForm.inPasskeyLogin /\ ~loginForm.inPasswordSubmit
    /\ Renders([loginForm EXCEPT !.inPasskeyLogin = TRUE, !.invalid = FALSE])
    /\ SendsLogin("begin") /\ UNCHANGED <<account, typings, asserted>>

\* The browser asks for the passkey; the challenge is answered with what it returns.
performPasskeyAssertion ==
    /\ PasskeyForm /\ ~loginForm.inPasskeyLogin /\ attempted < MaxAttempts
    /\ Renders([loginForm EXCEPT !.inPasskeyLogin = TRUE, !.invalid = FALSE])
    /\ attempted' = attempted + 1
    /\ attempts' = attempts \cup
          {[Attempt(attempted + 1, "assertion") EXCEPT !.challenge = loginForm.challenge]}
    /\ Notes(IF attempts # {} THEN {"together"} ELSE {})
    /\ UNCHANGED <<account, typings, asserted>>
useTotpInstead ==
    /\ PasskeyForm /\ loginForm.allowTotpFallback /\ ~loginForm.inPasskeyLogin
    /\ Renders([loginForm EXCEPT !.requirePasskey = FALSE, !.requireTotp = TRUE])
    /\ UNCHANGED <<account, attemptVars, typings, asserted, loginSeen>>

-----------------------------------------------------------------------------
\* What loginPassword and updatePassword answer.
WantsPasskey(a) == account.passkey /\ ~(a.code # "nothing" /\ account.totp)
loginPassword(a) ==
    IF a.typed # "right" THEN "refused"
    ELSE IF a.at = "updatepw" THEN "granted"
    ELSE IF account.update THEN "update"
    ELSE IF WantsPasskey(a) THEN "passkey"
    ELSE IF ~account.totp \/ a.code = "right" THEN "granted"
    ELSE IF a.code = "nothing" THEN "totp" ELSE "refused"

\* onSuccessfulLogin: the tokens are stored before the settings are loaded.
onSuccessfulLogin(a) ==
    /\ loginForm' = [loginForm EXCEPT !.hasAccessToken = TRUE] /\ Continues(a, "settings")

passwordRefused(a) ==
    /\ Over(a) /\ Renders([loginForm EXCEPT !.invalid = TRUE, !.inPasswordSubmit = FALSE])

\* The answer, or the request gets lost on its way to the server.
passwordAnswered(a) ==
    LET answer == loginPassword(a)
        ends == [loginForm EXCEPT !.invalid = FALSE, !.inPasswordSubmit = FALSE]
    IN /\ a.at \in {"login", "updatepw"}
       /\ \/ passwordRefused(a) /\ UNCHANGED account
          \/ /\ answer = "granted" /\ onSuccessfulLogin(a)
             /\ account' = [account EXCEPT !.update = @ /\ a.at # "updatepw"]
          \/ /\ answer = "update" /\ Over(a) /\ UNCHANGED account
             /\ Renders([ends EXCEPT !.requirePasswordUpdate = TRUE])
          \/ /\ answer = "totp" /\ Over(a) /\ UNCHANGED account
             /\ Renders([ends EXCEPT !.requireTotp = TRUE])
          \/ /\ answer = "passkey" /\ UNCHANGED account
             /\ attempts' = (attempts \ {a}) \cup
                    {[a EXCEPT !.at = "assertion", !.challenge = a.no]}
             /\ Renders([ends EXCEPT !.requirePasskey = TRUE, !.challenge = a.no,
                             !.allowTotpFallback = account.totp, !.inPasskeyLogin = TRUE])
       /\ UNCHANGED <<attempted, typings, asserted, loginSeen>>

\* Mutant of assertionFailed: the passkey can be tried again with the challenge.
assertionFailedAgain(a) ==
    /\ Over(a) /\ Renders([loginForm EXCEPT !.inPasskeyLogin = FALSE, !.invalid = TRUE])

assertionFailed(a) ==
    /\ Over(a)
    /\ Renders(IF loginForm.allowTotpFallback
               THEN [loginForm EXCEPT !.inPasskeyLogin = FALSE, !.requirePasskey = FALSE,
                                  !.requireTotp = TRUE, !.invalid = FALSE]
               ELSE [loginForm EXCEPT !.inPasskeyLogin = FALSE, !.requirePasskey = FALSE,
                                  !.invalid = TRUE])

\* The browser has the passkey, or the user dismissed its dialog, or it timed out.
assertionMade(a) ==
    /\ a.at = "assertion"
    /\ \/ /\ Continues(a, "assert") /\ asserted' = asserted \cup {a.challenge}
          /\ Notes(IF a.challenge \in asserted THEN {"twice"} ELSE {}) /\ UNCHANGED loginForm
       \/ assertionFailed(a) /\ UNCHANGED <<asserted, loginSeen>>
    /\ UNCHANGED <<account, attempted, typings>>
assertionAnswered(a) ==
    /\ a.at = "assert" /\ (onSuccessfulLogin(a) \/ assertionFailed(a))
    /\ UNCHANGED <<account, attempted, typings, asserted, loginSeen>>

\* Without a password: a challenge, the browser's dialog, and the answer to it.
passkeyAnswered(a) ==
    /\ \/ a.at = "begin" /\ Continues(a, "dialog") /\ UNCHANGED loginForm
       \/ a.at = "dialog" /\ Continues(a, "finish") /\ UNCHANGED loginForm
       \/ a.at = "finish" /\ account.passkey /\ onSuccessfulLogin(a)
       \/ /\ a.at \in {"begin", "dialog", "finish"} /\ Over(a)
          /\ Renders([loginForm EXCEPT !.inPasskeyLogin = FALSE])
    /\ UNCHANGED <<account, attempted, typings, asserted, loginSeen>>

\* getRedirectUrl once the settings are there; if they never come, the page stays.
settingsLoaded(a) ==
    /\ a.at = "settings" /\ Over(a)
    /\ \/ loginForm' = [loginForm EXCEPT !.form = "gone"] /\ UNCHANGED loginSeen
       \/ UNCHANGED loginForm /\ Notes({"stuck"})
    /\ UNCHANGED <<account, attempted, typings, asserted>>

LoginAnswer(a) ==
    /\ loginForm.form # "gone"
    /\ \/ applyOrg(a) \/ checkSingleOrg(a) \/ passwordAnswered(a) \/ assertionMade(a)
       \/ assertionAnswered(a) \/ passkeyAnswered(a) \/ settingsLoaded(a)
LoginAnswers == \E a \in attempts : LoginAnswer(a)
LoginNext ==
    \/ useProvider \/ TypesPassword \/ onPasswordSubmit \/ onNewPasswordSubmit \/ backToPassword
    \/ loginWithPasskey \/ performPasskeyAssertion \/ useTotpInstead \/ LoginAnswers
LoginSpec == LoginInit /\ [][LoginNext]_loginVars /\ WF_loginVars(LoginAnswers)

-----------------------------------------------------------------------------
LoginTypeOK ==
    /\ loginForm.form \in {"loading", "nodomain", "providers", "disabled", "password", "gone"}
    /\ loginForm.typed \in {"nothing", "right", "wrong"} /\ loginForm.code \in {"nothing", "right", "wrong"}
    /\ loginForm.challenge \in 0 .. MaxAttempts /\ asserted \subseteq 1 .. MaxAttempts
    /\ \A a \in attempts :
          /\ a.no \in 0 .. attempted
          /\ a.at \in {"org", "singleorg", "login", "updatepw", "assertion", "assert",
                       "begin", "dialog", "finish", "settings"}
    /\ loginSeen \subseteq {"together",  \* something was sent while an attempt was out
                            "twice",     \* a challenge was answered again
                            "stuck"}     \* the settings did not come

\* A second factor, or a new password, is asked for the name and the password that are in
\* the form and that the server has accepted: the answer to other ones does not open it.
FactorIsOfTheTyped ==
    "together" \notin loginSeen /\ loginForm.form = "password"
    /\ (loginForm.requireTotp \/ loginForm.requirePasskey \/ loginForm.requirePasswordUpdate)
        => loginForm.typed = "right"

\* The server deletes a challenge with the first answer to it: the page gives no second.
ChallengeUsedOnce == "together" \notin loginSeen => "twice" \notin loginSeen

\* The second step of a login belongs to its first: the two above.
FactorIsOfTheAttempt == FactorIsOfTheTyped /\ ChallengeUsedOnce

\* In the end the page is not busy: the login succeeds, or the user can try again.
LoginEnded ==
    loginForm.form # "gone" /\ (loginForm.inPasswordSubmit \/ loginForm.inPasskeyLogin)
        => "stuck" \in loginSeen
=============================================================================

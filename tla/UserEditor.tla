------------------------------ MODULE UserEditor ------------------------------
(***************************************************************************)
(* The administrator's form of one user, new or stored: the role, how the   *)
(* user is to log in (a password, a provider, an invitation by mail), and    *)
(* what the server makes of what the form sends.  A request carries at most  *)
(* one method; one that carries none leaves that of the server as it is.     *)
(***************************************************************************)
EXTENDS Integers, FiniteSets

CONSTANTS Emails, MaxUserEdits, MaxUserRequests, MaxUserOut     \* bounds

ASSUME UserEditorAssumption ==
    Emails # {} /\ {MaxUserEdits, MaxUserRequests, MaxUserOut} \subseteq Nat

VARIABLES userForm,        \* this.state, and whether entity.id is set
          userRow,         \* the user on the server
          leftUsers,       \* addresses of users it has made that the form does not know of
          userRequests, userRequestsSent, userEdits,
          userSubmitted,       \* what the form had when it was sent last
          invitations,     \* mails sent
          reasons,         \* the user's reasons to send one
          userSeen         \* what has happened: see UserTypeOK

userVars == <<userForm, userRow, leftUsers, userRequests, userRequestsSent, userEdits, userSubmitted,
              invitations, reasons, userSeen>>
userServer == <<userRow, leftUsers, invitations>>
userSending == <<userRequests, userRequestsSent>>

\* One role of each kind; those of the administrators are below and above the service's.
UserRoleUser == 0
UserRoleOrgAdmin == 20
UserRoleServiceAccountRO == 21
UserRoleSuperAdmin == 90
Roles == {UserRoleUser, UserRoleOrgAdmin, UserRoleServiceAccountRO, UserRoleSuperAdmin}
isServiceAccount(role) == role = UserRoleServiceAccountRO

Methods == {"password", "provider", "invitation"}
Factors == {"totp", "passkeys"}
NoUserRow == [stored |-> FALSE]
UserRow(email, role, method, factors) ==
    [stored |-> TRUE, email |-> email, role |-> role, method |-> method, factors |-> factors]
Submitted(f) == [email |-> f.email, role |-> f.role, authMethod |-> f.authMethod,
                 changePassword |-> f.changePassword]
Reasons(n) == reasons' = reasons + n
Marks(what) == userSeen' = userSeen \cup what

\* loadData: the method is that of the user; a new one gets a password.  A service account
\* has no TOTP.
UserEditorInit ==
    \E new, own \in BOOLEAN, admin \in {UserRoleOrgAdmin, UserRoleSuperAdmin},
       role \in Roles, method \in Methods, factors \in {{}, {"passkeys"}, Factors} :
       LET email == CHOOSE e \in Emails : TRUE IN
        /\ new => ~own /\ role = UserRoleUser /\ method = "password" /\ factors = {}
        /\ own => role = admin
        /\ isServiceAccount(role) => "totp" \notin factors
        /\ leftUsers = {} /\ userRow = IF new THEN NoUserRow ELSE UserRow(email, role, method, factors)
        /\ userForm = [id |-> ~new, own |-> own, adminUserRole |-> admin, role |-> role,
                       email |-> email, originalEmail |-> email, authMethod |-> method,
                       changePassword |-> FALSE, resendInvitation |-> FALSE,
                       factors |-> factors, saved |-> FALSE, goBack |-> FALSE]
        /\ userSubmitted = Submitted(userForm)
        /\ userRequests = {} /\ userRequestsSent = 0 /\ userEdits = 0
        /\ invitations = 0 /\ reasons = (IF new THEN 1 ELSE 0) /\ userSeen = {}

-----------------------------------------------------------------------------
FormEdit(form) ==
    /\ ~userForm.goBack /\ userEdits < MaxUserEdits /\ userEdits' = userEdits + 1
    /\ userForm' = form
    /\ UNCHANGED <<userServer, userSending, userSubmitted, userSeen>>

setEmail == \E email \in Emails \ {userForm.email} :
                FormEdit([userForm EXCEPT !.email = email]) /\ Reasons(1)
\* Roles up to one's own, and those of service accounts, if the role shown is one of them:
\* an administrator of the organization who has picked a service account cannot go back.
roleSelect == ~userForm.own /\ userForm.adminUserRole >= userForm.role
changeRole == \E role \in Roles \ {userForm.role} :
    /\ roleSelect /\ (userForm.adminUserRole >= role \/ isServiceAccount(role))
    /\ FormEdit([userForm EXCEPT !.role = role,
                                 !.changePassword = @ \/ isServiceAccount(role)]) /\ Reasons(0)
\* A service account has a password that is generated.
Chooses == ~isServiceAccount(userForm.role)
setAuthMethod == \E method \in Methods \ {userForm.authMethod} :
                Chooses /\ FormEdit([userForm EXCEPT !.authMethod = method]) /\ Reasons(0)
setChangePassword ==
    /\ Chooses /\ userForm.id /\ userForm.authMethod = "password"
    /\ FormEdit([userForm EXCEPT !.changePassword = ~@]) /\ Reasons(0)
generatePassword ==
    /\ ~Chooses /\ ~userForm.changePassword
    /\ FormEdit([userForm EXCEPT !.changePassword = TRUE]) /\ Reasons(0)
setResendInvitation ==
    /\ Chooses /\ userForm.id /\ userForm.authMethod = "invitation"
    /\ FormEdit([userForm EXCEPT !.resendInvitation = ~@]) /\ Reasons(1)

-----------------------------------------------------------------------------
\* Mutant of sendInvitation: with every save.
sendInvitationAlways == TRUE

\* An invitation is sent to a new user, to a changed address, or when it is asked for.
sendInvitation == ~userForm.id \/ userForm.email # userForm.originalEmail
                  \/ userForm.resendInvitation
Carried ==
    CASE userForm.authMethod = "invitation" -> IF sendInvitation THEN "invitation" ELSE "none"
      [] userForm.authMethod = "provider" -> "provider"
      [] userForm.authMethod = "password" ->
            IF userForm.changePassword \/ ~userForm.id THEN "password" ELSE "none"

Asks(kind, carried) ==
    /\ ~userForm.goBack /\ userRequestsSent < MaxUserRequests
    /\ Cardinality(userRequests) < MaxUserOut
    /\ userRequestsSent' = userRequestsSent + 1
    /\ userRequests' = userRequests \cup
          {[no |-> userRequestsSent', kind |-> kind, at |-> "sent", new |-> ~userForm.id,
            email |-> userForm.email, role |-> userForm.role, carried |-> carried]}
    /\ Marks(IF userRequests # {} THEN {"together"} ELSE {})

userSubmit ==
    /\ Asks("save", Carried)
    /\ userForm' = [userForm EXCEPT !.saved = FALSE] /\ userSubmitted' = Submitted(userForm)
    /\ UNCHANGED <<userServer, userEdits, reasons>>
resets(x) ==
    /\ userForm.id /\ Chooses /\ x \in userForm.factors /\ Asks("reset", x)
    /\ UNCHANGED <<userForm, userServer, userEdits, userSubmitted, reasons>>
resetTotp == resets("totp")
resetPasskeys == resets("passkeys")
deleteUser ==
    /\ userForm.id /\ ~userForm.own /\ Asks("delete", "none")
    /\ UNCHANGED <<userForm, userServer, userEdits, userSubmitted, reasons>>

-----------------------------------------------------------------------------
ServedAs(q, at) == userRequests' = (userRequests \ {q}) \cup {[q EXCEPT !.at = at]}

\* copyFromRestModel: without a method a new user is one of a provider.  A role above that
\* of the administrator is not given, nor an address that another user has.
Above(q) == q.role > userForm.adminUserRole /\ ~isServiceAccount(q.role)
createUser(q) ==
    /\ q.kind = "save" /\ q.new /\ ~(userRow.stored /\ userRow.email = q.email)
    /\ q.email \notin leftUsers
    /\ leftUsers' = leftUsers \cup (IF userRow.stored THEN {userRow.email} ELSE {})
    /\ userRow' = UserRow(q.email, IF Above(q) THEN UserRoleUser ELSE q.role,
                          IF q.carried = "none" THEN "provider" ELSE q.carried, {})
\* The row is written whole from the request: what it does not name, the secret of the
\* second factor among it, is emptied.  The passkeys have rows of their own.
updateUser(q) ==
    /\ q.kind = "save" /\ ~q.new /\ userRow.stored
    /\ q.email \notin leftUsers /\ UNCHANGED leftUsers
    /\ userRow' = UserRow(q.email, IF userForm.own \/ Above(q) THEN userRow.role ELSE q.role,
                          IF q.carried = "none" THEN userRow.method ELSE q.carried,
                          userRow.factors \ {"totp"})

\* The user is written first and invited then.  If the invitation fails the answer is an error
\* and what was written stays; the mail may have gone out for all that, when only the end of
\* the talk with the mail server fails, and counts as a reason of its own.
saveUser(q) ==
    /\ createUser(q) \/ updateUser(q)
    /\ \/ /\ ServedAs(q, "done") /\ Reasons(0)
          /\ invitations' = invitations + IF q.carried = "invitation" THEN 1 ELSE 0
       \/ /\ q.carried = "invitation" /\ ServedAs(q, "refused")
          /\ \E mailed \in {0, 1} : invitations' = invitations + mailed /\ Reasons(mailed)
adminReset(q) ==
    /\ q.kind = "reset" /\ userRow.stored /\ ServedAs(q, "done")
    /\ userRow' = [userRow EXCEPT !.factors = @ \ {q.carried}]
    /\ UNCHANGED <<leftUsers, invitations>> /\ Reasons(0)
removeUser(q) ==
    /\ q.kind = "delete" /\ userRow.stored /\ ServedAs(q, "done")
    /\ userRow' = NoUserRow /\ UNCHANGED <<leftUsers, invitations>> /\ Reasons(0)
userServed(q) ==
    /\ q.at = "sent"
    /\ \/ ServedAs(q, "refused") /\ UNCHANGED userServer /\ Reasons(0)
       \/ saveUser(q) \/ adminReset(q) \/ removeUser(q)
    /\ UNCHANGED <<userForm, userRequestsSent, userEdits, userSubmitted, userSeen>>

\* The address that was saved is not invited again; deletions and resets are not caught.
userAnswered(q) ==
    /\ q.at # "sent" /\ userRequests' = userRequests \ {q}
    /\ \/ /\ q.at = "done" /\ UNCHANGED userSeen
          /\ userForm' =
               CASE q.kind = "save" ->
                      [userForm EXCEPT !.id = TRUE, !.saved = TRUE, !.resendInvitation = FALSE,
                                       !.originalEmail = userSubmitted.email]
                 [] q.kind = "reset" -> [userForm EXCEPT !.factors = @ \ {q.carried}]
                 [] q.kind = "delete" -> [userForm EXCEPT !.goBack = TRUE]
       \/ UNCHANGED userForm /\ Marks(IF q.at = "done" THEN {"lost"} ELSE {})
    /\ UNCHANGED <<userServer, userRequestsSent, userEdits, userSubmitted, reasons>>

UserEditorNext ==
    \/ setEmail \/ changeRole \/ setAuthMethod \/ setChangePassword \/ generatePassword
    \/ setResendInvitation \/ userSubmit \/ resetTotp \/ resetPasskeys \/ deleteUser
    \/ \E q \in userRequests : userServed(q) \/ userAnswered(q)
UserEditorSpec == UserEditorInit /\ [][UserEditorNext]_userVars

-----------------------------------------------------------------------------
UserRows == {NoUserRow} \cup
            [stored : {TRUE}, email : Emails, role : Roles, method : Methods,
             factors : SUBSET Factors]
UserTypeOK ==
    /\ userForm \in [id : BOOLEAN, own : BOOLEAN,
                     adminUserRole : {UserRoleOrgAdmin, UserRoleSuperAdmin},
                     role : Roles,
                     email : Emails, originalEmail : Emails, authMethod : Methods,
                     changePassword : BOOLEAN, resendInvitation : BOOLEAN,
                     factors : SUBSET Factors, saved : BOOLEAN, goBack : BOOLEAN]
    /\ userRow \in UserRows /\ leftUsers \subseteq Emails
    /\ \A q \in userRequests : /\ q.at \in {"sent", "done", "refused"}
                               /\ q.carried \in Methods \cup Factors \cup {"none"}
    /\ userSeen \subseteq {"together",  \* a request was sent while another was out
                           "lost"}      \* the answer to one that was served

\* A user does not get more invitations than there were reasons to send one: a new user, a
\* new address, a wish to send it again, and a mail that went out although the server was told
\* it had failed.  Saving the form again is none, be it after an invitation that did fail.
InvitedOncePerReason == userSeen = {} => invitations <= reasons

\* When the page says "saved", the server has the address and the role of the form as it was
\* sent, and, if that carried a method, the method: no earlier request undoes it, and no role
\* that the form lets one pick is turned into another.  (A form that only selects another
\* method without a password, an address or an invitation carries none.)
SavedUserIsStored ==
    userForm.saved /\ userSeen = {} /\ userRequests = {} /\ userRow.stored =>
        /\ userRow.email = userSubmitted.email /\ userRow.role = userSubmitted.role
        /\ \/ userSubmitted.authMethod = "provider"
           \/ userSubmitted.authMethod = "password" /\ userSubmitted.changePassword
           => userRow.method = userSubmitted.authMethod

\* The form's user is stored as saved, and told once: the two above.
UserIsAsSaved == InvitedOncePerReason /\ SavedUserIsStored
=============================================================================

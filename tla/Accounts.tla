------------------------------- MODULE Accounts -------------------------------
(***************************************************************************)
(* The account of one user on the server: logins that fail or succeed, the *)
(* ban that too many failures bring (auth-attempt-repository.go) and the    *)
(* timer that ends it, refreshes, and changes of the password by the user   *)
(* or an administrator.  Each of these reads the user's row, works on its   *)
(* copy, and writes the whole row back some statements later.              *)
(*                                                                         *)
(* Times are relative, in minutes: failures have an age, a ban has a time  *)
(* that is left.  Only a request knows whether a password or code is right. *)
(***************************************************************************)
EXTENDS Naturals, Sequences, FiniteSets

CONSTANTS Handlers,                \* requests at work on the account
          Passwords, NoPassword,
          NoBan,                   \* ban_expiry is NULL
          LoginProtectionMaxFails, LoginProtectionBanMinutes,
          LoginProtectionWindow,   \* LoginProtectionSlidingWindowSeconds
          MaxFailed,               \* bound on the failures that count
          MaxPasskeyFails          \* bound on the passkeys that fail

ASSUME AccountsAssumption ==
    /\ NoPassword \notin Passwords /\ NoBan \notin Nat
    /\ {LoginProtectionMaxFails, LoginProtectionBanMinutes, LoginProtectionWindow} \subseteq Nat \ {0}
    /\ {MaxFailed, MaxPasskeyFails} \subseteq Nat

VARIABLES user,           \* the row
          failedLogins,   \* auth_attempts: the ages of the failures that may still count
          handler,        \* the requests, with their copies of the row
          passkeyFails,
          lastPassword,   \* the password that was set last
          overwritten,    \* a copy from before has brought another one back
          pardoned        \* a ban that is due was lifted, or not pronounced, since the last attempt

accountVars == <<user, failedLogins, handler, passkeyFails, lastPassword, overwritten, pardoned>>

Row == [password : Passwords, passwordUpdateRequired : BOOLEAN,
        disabled : BOOLEAN, banExpiry : 0 .. LoginProtectionBanMinutes \cup {NoBan}]

\* A request of the account: what it does next, its copy, whether it logs in, and whether
\* the row was written by another one since it was copied.
Request(at, copy, login) == [at |-> at, copy |-> copy, login |-> login, stale |-> FALSE]
None == [at |-> "none"]
Free(h) == handler[h] = None
Doing(h, at) == handler[h].at = at
Goes(h, q) == handler' = [handler EXCEPT ![h] = q]

AccountsInit ==
    /\ user \in [password : Passwords, passwordUpdateRequired : BOOLEAN,
                 disabled : {FALSE}, banExpiry : {NoBan}]
    /\ failedLogins = <<>>
    /\ handler = [h \in Handlers |-> None]
    /\ passkeyFails = 0
    /\ lastPassword = user.password
    /\ overwritten = FALSE /\ pardoned = FALSE

-----------------------------------------------------------------------------
\* What a request reads, and what it will write.
Begins(h, at, copy, login) ==
    /\ Free(h)
    /\ Goes(h, Request(at, copy, login))
    /\ UNCHANGED <<user, failedLogins, passkeyFails, lastPassword, overwritten, pardoned>>

\* A right password is of no use before the password is changed, if that is required.
loginPassword(h, right) ==
    /\ ~user.disabled
    /\ right => ~user.passwordUpdateRequired
    /\ Begins(h, "record", user, right)

\* A passkey that is not accepted counts before anything else of the user is looked at.
loginPasskey(h, right) ==
    /\ Free(h) /\ Goes(h, Request("record", user, right))
    /\ IF right THEN ~user.disabled /\ UNCHANGED passkeyFails
                ELSE passkeyFails < MaxPasskeyFails /\ passkeyFails' = passkeyFails + 1
    /\ UNCHANGED <<user, failedLogins, lastPassword, overwritten, pardoned>>

refreshAccessToken(h) == ~user.disabled /\ Begins(h, "write", user, FALSE)

\* Of an administrator, who may do it to a user who is banned.
adminResetTotp(h) == Begins(h, "write", user, FALSE)

updatePassword(h, p) ==
    /\ ~user.disabled /\ user.passwordUpdateRequired /\ p # user.password
    /\ Begins(h, "set", [user EXCEPT !.password = p, !.passwordUpdateRequired = FALSE], TRUE)

completePasswordReset(h, p) ==
    ~user.disabled /\ Begins(h, "set", [user EXCEPT !.password = p], FALSE)

\* The password of one's own, or of another user.
setPassword(h, p, own) ==
    /\ own => ~user.disabled
    /\ Begins(h, "set", [user EXCEPT !.password = p, !.passwordUpdateRequired = ~own], FALSE)

\* The row that an administrator saves is made from the request alone, but for the password.
update(h, p) ==
    Begins(h, IF p = NoPassword THEN "edit" ELSE "set",
           [password |-> IF p = NoPassword THEN user.password ELSE p,
            passwordUpdateRequired |-> p # NoPassword, disabled |-> FALSE, banExpiry |-> NoBan], FALSE)

-----------------------------------------------------------------------------
Pardons(now) == pardoned' = ((pardoned \/ now) /\ Len(failedLogins') >= LoginProtectionMaxFails)

\* UserRepository.Update with the copy of h, which then goes on as q.
Update(h, q) ==
    LET copy == handler[h].copy
        lifts == user.disabled /\ ~copy.disabled
    IN /\ user' = copy
       /\ handler' = [g \in Handlers |-> IF g = h THEN q
                                         ELSE IF Free(g) THEN None
                                         ELSE [handler[g] EXCEPT !.stale = TRUE]]
       /\ IF Doing(h, "set") THEN lastPassword' = copy.password /\ overwritten' = FALSE
          ELSE /\ UNCHANGED lastPassword
               /\ overwritten' = (copy.password # lastPassword /\ (overwritten \/ handler[h].stale))
       /\ UNCHANGED <<failedLogins, passkeyFails>>
       /\ Pardons(lifts /\ (handler[h].stale \/ Doing(h, "edit") \/ Doing(h, "set")))

WriteRow(h) == (Doing(h, "write") \/ Doing(h, "edit")) /\ Update(h, None)

WritePassword(h) ==
    Doing(h, "set") /\ Update(h, IF handler[h].login THEN Request("record", handler[h].copy, TRUE) ELSE None)

\* Failures before the last login that was right are never counted again.
RecordLoginAttempt(h) ==
    /\ Doing(h, "record") /\ (handler[h].login \/ Len(failedLogins) < MaxFailed)
    /\ failedLogins' = IF handler[h].login THEN <<>> ELSE Append(failedLogins, 0)
    /\ Goes(h, [handler[h] EXCEPT !.at = "count"])
    /\ pardoned' = FALSE
    /\ UNCHANGED <<user, passkeyFails, lastPassword, overwritten>>

numFailedLogins == Len(failedLogins)

\* Mutant of Ban: when it ends is forgotten.
BanForever(row) == [row EXCEPT !.disabled = TRUE]

Ban(row) == [row EXCEPT !.disabled = TRUE, !.banExpiry = LoginProtectionBanMinutes]

\* After its attempt is counted a login that was right writes the time of the activity.
Counted(q) == IF q.login THEN [q EXCEPT !.at = "write", !.login = FALSE] ELSE None

\* Mutant of checkBanUser: one failure more.
checkBanUserLater(h) ==
    /\ Doing(h, "count")
    /\ Goes(h, IF numFailedLogins > LoginProtectionMaxFails
               THEN [handler[h] EXCEPT !.at = "ban", !.copy = Ban(@)]
               ELSE Counted(handler[h]))
    /\ UNCHANGED <<user, failedLogins, passkeyFails, lastPassword, overwritten, pardoned>>

checkBanUser(h) ==
    /\ Doing(h, "count")
    /\ Goes(h, IF numFailedLogins >= LoginProtectionMaxFails
               THEN [handler[h] EXCEPT !.at = "ban", !.copy = Ban(@)]
               ELSE Counted(handler[h]))
    /\ UNCHANGED <<user, failedLogins, passkeyFails, lastPassword, overwritten, pardoned>>

BanUser(h) == Doing(h, "ban") /\ Update(h, Counted([handler[h] EXCEPT !.stale = FALSE]))

-----------------------------------------------------------------------------
Undecided(h) == handler[h].at \in {"record", "count", "ban"}

\* One UPDATE of the timer.
EnableUsersWithExpiredBan ==
    /\ user.disabled /\ user.banExpiry = 0
    /\ user' = [user EXCEPT !.disabled = FALSE, !.banExpiry = NoBan]
    /\ handler' = [g \in Handlers |-> IF Free(g) THEN None ELSE [handler[g] EXCEPT !.stale = TRUE]]
    /\ UNCHANGED <<failedLogins, passkeyFails, lastPassword, overwritten>>
    /\ Pardons(TRUE)

Older(row) == [row EXCEPT !.banExpiry = IF @ \in {NoBan, 0} THEN @ ELSE @ - 1]

\* A minute passes.
Tick ==
    /\ user' = Older(user)
    /\ handler' = [h \in Handlers |-> IF Free(h) THEN None ELSE [handler[h] EXCEPT !.copy = Older(@)]]
    /\ LET gone == Cardinality({i \in DOMAIN failedLogins : failedLogins[i] + 1 = LoginProtectionWindow})
       IN failedLogins' = [i \in 1 .. Len(failedLogins) - gone |-> failedLogins[i + gone] + 1]
    /\ Pardons(FALSE)
    /\ UNCHANGED <<passkeyFails, lastPassword, overwritten>>

\* The process ends, and its requests with it.
Stop ==
    /\ handler' = [h \in Handlers |-> None]
    /\ UNCHANGED <<user, failedLogins, passkeyFails, lastPassword, overwritten>>
    /\ Pardons(\E h \in Handlers : Undecided(h))

Serve(h) ==
    \/ \E right \in BOOLEAN : loginPassword(h, right) \/ loginPasskey(h, right)
    \/ refreshAccessToken(h) \/ adminResetTotp(h)
    \/ \E p \in Passwords :
          \/ updatePassword(h, p) \/ completePasswordReset(h, p)
          \/ \E own \in BOOLEAN : setPassword(h, p, own)
    \/ \E p \in Passwords \cup {NoPassword} : update(h, p)
    \/ RecordLoginAttempt(h) \/ checkBanUser(h) \/ BanUser(h)
    \/ WriteRow(h) \/ WritePassword(h)

AccountsNext == (\E h \in Handlers : Serve(h)) \/ EnableUsersWithExpiredBan \/ Tick \/ Stop

\* Time goes by, and the timer's goroutine goes on as long as the process runs.
AccountsFairness == WF_accountVars(EnableUsersWithExpiredBan) /\ WF_accountVars(Tick)
AccountsSpec == AccountsInit /\ [][AccountsNext]_accountVars /\ AccountsFairness
-----------------------------------------------------------------------------
(* Properties.                                                             *)

\* Every variable keeps its type; who is disabled has a ban, which ends.
AccountsTypeOK ==
    /\ user \in Row /\ (user.disabled <=> user.banExpiry # NoBan)
    /\ failedLogins \in Seq(Nat) /\ Len(failedLogins) <= MaxFailed
    /\ handler \in [Handlers -> {None} \cup
           [at : {"record", "count", "ban", "write", "edit", "set"}, copy : Row,
            login : BOOLEAN, stale : BOOLEAN]]
    /\ passkeyFails \in 0 .. MaxPasskeyFails
    /\ lastPassword \in Passwords /\ {overwritten, pardoned} \subseteq BOOLEAN

\* After so many failures in the window the user is banned once they have been counted, in
\* whatever order requests record, count and write: unless the ban was lifted since the last
\* attempt (by the timer, an administrator or a copy from before it), or the server stopped.
BannedWhenDue ==
    /\ ~pardoned /\ \A h \in Handlers : ~Undecided(h)
    /\ numFailedLogins >= LoginProtectionMaxFails
    => user.disabled

\* The password is the one that was set last, unless a request that had read the row before
\* has written its copy.
PasswordStays == user.password = lastPassword \/ overwritten

\* What logins, administrators and the timer make of an account: the two above.
AccountIsKept == BannedWhenDue /\ PasswordStays

\* A ban ends, whoever writes the row meanwhile: a copy brings it back with its end.
BanEnds == user.disabled ~> ~user.disabled
=============================================================================

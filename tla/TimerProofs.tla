----------------------------- MODULE TimerProofs -----------------------------
(***************************************************************************)
(* What the minute timer sees to, for every value of the constants.        *)
(*                                                                         *)
(* The safety of the daily report, for any number of recipients, days and  *)
(* failures.  The invariant that is inductive counts, for the day a run is *)
(* about, the failures of that run: they have been added to `failures`     *)
(* before anybody can be sent the report of the day again.                 *)
(*                                                                         *)
(* Then that of an account: what makes it inductive is what the copies of  *)
(* the row, with which the requests are at work, have to do with the row.  *)
(*                                                                         *)
(* At the end, both beside each other.                                     *)
(***************************************************************************)
EXTENDS MCTimer, FiniteSetTheorems, TLAPS

-----------------------------------------------------------------------------
(* The daily report.                                                       *)

LEMMA TypeStep == TypeOK /\ [Next]_vars => TypeOK'
  <1> SUFFICES ASSUME TypeOK, [Next]_vars PROVE TypeOK'
    OBVIOUS
  <1> USE ReportConstants DEF TypeOK, Days, Never, At, Idle, Job, Fails
  <1>1. CASE RunIfDue
    BY <1>1 DEF RunIfDue, Get
  <1>2. CASE BuildPreview
    BY <1>2 DEF BuildPreview
  <1>3. ASSUME NEW r \in Recipients, SendTo(r) PROVE TypeOK'
    <2>1. PICK failed \in SUBSET Recipients :
             job' = [pc |-> "send", today |-> job.today, left |-> job.left \ {r}, failed |-> failed]
      BY <1>3 DEF SendTo
    <2>2. job' \in [pc : {"idle", "build", "send"}, today : Days \cup {Never},
                    left : SUBSET Recipients, failed : SUBSET Recipients]
          /\ ~At("idle")' /\ job'.today # Never
      BY <1>3, <2>1 DEF SendTo
    <2>3. failures' \in Nat
      BY <1>3 DEF SendTo
    <2>4. mailed' \in [Days -> [Recipients -> Nat]]
      <3>1. CASE UNCHANGED mailed
        BY <3>1
      <3>2. CASE mailed' = [mailed EXCEPT ![job.today][r] = @ + 1]
        <4>1. job.today \in Days /\ mailed[job.today] \in [Recipients -> Nat]
          BY <1>3 DEF SendTo
        <4>2. [mailed[job.today] EXCEPT ![r] = @ + 1] \in [Recipients -> Nat]
          BY <4>1
        <4> QED
          BY <3>2, <4>1, <4>2
      <3> QED
        BY <1>3, <3>1, <3>2 DEF SendTo
    <2> QED
      BY <1>3, <2>2, <2>3, <2>4 DEF SendTo
  <1>4. CASE SetLastSent
    <2>1. job.today \in Days
      BY <1>4 DEF SetLastSent
    <2>2. /\ lastSent' \in Days \cup {Never} /\ cached' \in Days \cup {Miss}
          /\ failures' \in Nat
      BY <1>4, <2>1 DEF SetLastSent
    <2>3. job' = Idle
      BY <1>4 DEF SetLastSent
    <2> QED
      BY <1>4, <2>2, <2>3 DEF SetLastSent
  <1>5. CASE Expire
    BY <1>5 DEF Expire
  <1>6. CASE Clock
    <2>1. due' \in BOOLEAN
      BY <1>6 DEF Clock
    <2>2. day' \in Days
      BY <1>6 DEF Clock
    <2> QED
      BY <1>6, <2>1, <2>2 DEF Clock
  <1>7. CASE Restart
    BY <1>7 DEF Restart
  <1>8. CASE UNCHANGED vars
    BY <1>8 DEF vars
  <1> QED
    BY <1>1, <1>2, <1>3, <1>4, <1>5, <1>6, <1>7, <1>8 DEF Next, Timer

LEMMA TypeInit == Init => TypeOK
  <1>1. ASSUME Init PROVE TypeOK
    <2>1. mailed \in [Days -> [Recipients -> Nat]]
      BY <1>1 DEF Init
    <2>2. due \in BOOLEAN
      BY <1>1 DEF Init
    <2> QED
      BY <1>1, <2>1, <2>2, ReportConstants DEF Init, TypeOK, Idle, Job, Days, Never, At
  <1> QED
    BY <1>1

\* The variables have their types in every reachable state.
THEOREM ReportTypeCorrect == Spec => []TypeOK
  BY TypeInit, TypeStep, PTL DEF Spec
-----------------------------------------------------------------------------
\* What one run has done for the day it is about.
RunInv ==
    /\ \A d \in Days, r \in Recipients :
         IF ~At("idle") /\ d = job.today
         THEN /\ (At("build") \/ r \in job.left) /\ job.failed = {} => mailed[d][r] <= failures
              /\ (At("build") \/ r \in job.left) /\ job.failed # {} => mailed[d][r] + 1 <= failures
              /\ job.failed # {} => mailed[d][r] <= failures
              /\ mailed[d][r] <= failures + 1
         ELSE /\ d > lastSent => mailed[d][r] <= failures
              /\ mailed[d][r] <= failures + 1
    /\ At("build") => job.failed = {}
    /\ At("send") => \A r \in Recipients \ (job.left \cup job.failed) : mailed[job.today][r] > 0
    /\ DoneMeansMailed

\* Days go by in order, and the cache holds what the table holds.
OrderInv ==
    /\ cached = Miss \/ cached = lastSent
    /\ lastSent <= day
    /\ ~At("idle") => job.today <= day /\ lastSent <= job.today

LEMMA OrderStep == TypeOK /\ OrderInv /\ [Next]_vars => OrderInv'
  <1> SUFFICES ASSUME TypeOK, OrderInv, [Next]_vars PROVE OrderInv'
    OBVIOUS
  <1> USE ReportConstants DEF TypeOK, OrderInv, Days, Never, At, Idle, Job
  <1>1. CASE RunIfDue
    BY <1>1 DEF RunIfDue, Get
  <1>2. CASE BuildPreview
    BY <1>2 DEF BuildPreview
  <1>3. ASSUME NEW r \in Recipients, SendTo(r) PROVE OrderInv'
    BY <1>3 DEF SendTo
  <1>4. CASE SetLastSent
    BY <1>4 DEF SetLastSent
  <1>5. CASE Expire
    BY <1>5 DEF Expire
  <1>6. CASE Clock
    BY <1>6 DEF Clock
  <1>7. CASE Restart
    BY <1>7 DEF Restart
  <1>8. CASE UNCHANGED vars
    BY <1>8 DEF vars
  <1> QED
    BY <1>1, <1>2, <1>3, <1>4, <1>5, <1>6, <1>7, <1>8 DEF Next, Timer

LEMMA RunStep == TypeOK /\ OrderInv /\ RunInv /\ [Next]_vars => RunInv'
  <1> SUFFICES ASSUME TypeOK, OrderInv, RunInv, [Next]_vars PROVE RunInv'
    OBVIOUS
  <1>a. \A d \in Days, r \in Recipients : mailed[d][r] \in Nat
    BY DEF TypeOK
  <1>b. failures \in Nat /\ job.today \in Days \cup {Never} /\ lastSent \in Nat /\ Days \subseteq Nat
    BY ReportConstants DEF TypeOK, Days, Never
  <1>c. \A d \in Days, r \in Recipients : mailed[d][r] <= failures + 1
    BY <1>a, <1>b DEF RunInv
  <1>1. CASE RunIfDue
    <2>1. UNCHANGED <<lastSent, mailed>> /\ At("idle")
      BY <1>1 DEF RunIfDue
    <2>2. PICK last \in Days \cup {Never} :
             Get(last) /\ job' = IF ShouldRun(last) THEN Job("build", day, {}, {}) ELSE Idle
      BY <1>1 DEF RunIfDue
    <2>3. CASE job' = Job("build", day, {}, {}) /\ ShouldRun(last)
      <3>1. failures' = failures + 1 \/ (UNCHANGED failures /\ lastSent < day)
        BY <2>2, <2>3, ReportConstants DEF Get, ShouldRun, Fails, TypeOK, OrderInv, Days, Never
      <3> QED
        BY <1>a, <1>b, <2>1, <2>3, <3>1 DEF RunInv, DoneMeansMailed, At, Job
    <2>4. CASE job' = Idle
      <3>1. failures' = failures + 1 \/ UNCHANGED failures
        BY <2>2 DEF Get, Fails
      <3> QED
        BY <1>a, <1>b, <2>1, <2>4, <3>1 DEF RunInv, DoneMeansMailed, At, Idle, Job
    <2> QED
      BY <2>2, <2>3, <2>4
  <1>2. CASE BuildPreview
    <2>1. At("build") /\ UNCHANGED <<lastSent, mailed>>
      BY <1>2 DEF BuildPreview
    <2>2. CASE job' = Job("send", job.today, Recipients, {}) /\ UNCHANGED failures
      BY <1>a, <1>b, <2>1, <2>2 DEF RunInv, DoneMeansMailed, At, Job
    <2>3. CASE job' = Idle /\ Fails
      BY <1>a, <1>b, <2>1, <2>3 DEF RunInv, DoneMeansMailed, At, Idle, Job, Fails
    <2> QED
      BY <1>2, <2>2, <2>3 DEF BuildPreview
  <1>3. ASSUME NEW r \in Recipients, SendTo(r) PROVE RunInv'
    <2>1. At("send") /\ r \in job.left /\ UNCHANGED lastSent /\ job.today \in Days
      BY <1>3 DEF SendTo, TypeOK, At
    <2>2. CASE /\ mailed' = [mailed EXCEPT ![job.today][r] = @ + 1]
               /\ job' = Job("send", job.today, job.left \ {r}, job.failed)
               /\ UNCHANGED failures
      <3>1. \A d \in Days, q \in Recipients :
               mailed'[d][q] = IF d = job.today /\ q = r THEN mailed[d][q] + 1 ELSE mailed[d][q]
        BY <2>1, <2>2 DEF TypeOK
      <3>2. DoneMeansMailed'
        BY <1>a, <1>b, <2>1, <3>1 DEF RunInv, DoneMeansMailed, TypeOK
      <3> QED
        BY <1>a, <1>b, <2>1, <2>2, <3>1, <3>2 DEF RunInv, At, Job
    <2>3. CASE /\ job' = Job("send", job.today, job.left \ {r}, job.failed \cup {r})
               /\ failures' = failures + 1 /\ UNCHANGED mailed
      BY <1>a, <1>b, <2>1, <2>3 DEF RunInv, DoneMeansMailed, At, Job
    <2> QED
      BY <1>3, <2>2, <2>3 DEF SendTo, Fails
  <1>4. CASE SetLastSent
    <2>1. /\ At("send") /\ job.left = {} /\ job' = Idle /\ UNCHANGED mailed
          /\ job.today \in Days /\ lastSent <= job.today
      BY <1>4 DEF SetLastSent, TypeOK, OrderInv, At
    <2>2. CASE job.failed # {} /\ UNCHANGED <<lastSent, failures>>
      BY <1>a, <1>b, <2>1, <2>2 DEF RunInv, DoneMeansMailed, At, Idle, Job
    <2>3. CASE job.failed = {} /\ lastSent' = job.today /\ UNCHANGED failures
      <3>1. DoneMeansMailed'
        BY <2>1, <2>3 DEF RunInv, DoneMeansMailed
      <3>2. job'.pc = "idle"
        BY <2>1 DEF Idle, Job
      <3>3. ASSUME NEW d \in Days, NEW r \in Recipients, d > lastSent'
            PROVE  mailed[d][r] <= failures
        <4>0. d \in Nat /\ job.today \in Nat /\ lastSent \in Nat
          BY <1>b, <2>1
        <4>1. d # job.today /\ d > lastSent
          BY <2>1, <2>3, <3>3, <4>0
        <4> QED
          BY <4>1 DEF RunInv
      <3> QED
        BY <1>c, <2>1, <2>3, <3>1, <3>2, <3>3 DEF RunInv, At
    <2>4. CASE UNCHANGED lastSent /\ failures' = failures + 1
      BY <1>a, <1>b, <2>1, <2>4 DEF RunInv, DoneMeansMailed, At, Idle, Job
    <2> QED
      BY <1>4, <2>2, <2>3, <2>4 DEF SetLastSent, Fails
  <1>5. CASE Restart
    <2>1. job' = Idle /\ failures' = failures + 1 /\ UNCHANGED <<lastSent, mailed>>
      BY <1>5 DEF Restart, Fails
    <2>2. DoneMeansMailed' /\ job'.pc = "idle"
      BY <2>1 DEF RunInv, DoneMeansMailed, Idle, Job
    <2> QED
      BY <1>a, <1>b, <1>c, <2>1, <2>2 DEF RunInv, At
  <1>6. CASE Expire \/ Clock \/ UNCHANGED vars
    <2>1. UNCHANGED <<lastSent, job, mailed, failures>>
      BY <1>6 DEF Expire, Clock, vars
    <2> QED
      BY <2>1 DEF RunInv, DoneMeansMailed, At
  <1> QED
    BY <1>1, <1>2, <1>3, <1>4, <1>5, <1>6 DEF Next, Timer

LEMMA ReportBegins == Init => OrderInv /\ RunInv
  <1>1. ASSUME Init PROVE OrderInv /\ RunInv
    <2>1. \A d \in Days, r \in Recipients : mailed[d][r] = 0
      BY <1>1 DEF Init
    <2> QED
      BY <1>1, <2>1, ReportConstants
      DEF Init, OrderInv, RunInv, DoneMeansMailed, At, Idle, Job, Never, Days
  <1> QED
    BY <1>1

LEMMA ReportInvariant == Spec => [](TypeOK /\ OrderInv /\ RunInv)
  BY TypeInit, ReportBegins, TypeStep, OrderStep, RunStep, PTL DEF Spec

\* The setting names a day only after all recipients were sent the report of
\* that day, whatever calls fail and wherever the server stops.
THEOREM DoneIsMailed == Spec => []DoneMeansMailed
  <1>1. RunInv => DoneMeansMailed
    BY DEF RunInv
  <1> QED
    BY <1>1, ReportInvariant, PTL

\* Nobody is sent the report of a day more often than one time for each failure
\* and once more: the retry of a run never follows a run that succeeded.
THEOREM RepeatsAreRetries == Spec => []RepeatsOnlyAfterFailure
  <1>1. TypeOK /\ RunInv => RepeatsOnlyAfterFailure
    BY DEF RunInv, RepeatsOnlyAfterFailure
  <1> QED
    BY <1>1, ReportInvariant, PTL
-----------------------------------------------------------------------------
(* An account.                                                             *)

Consistent(row) == row.disabled <=> row.banExpiry # NoBan

\* A copy that nobody has written over has the password of the row, if it does not bring a
\* new one, and knows whether the user is disabled, if it is not about to change that.
CopyIsGood(h) ==
    /\ Consistent(handler[h].copy)
    /\ Doing(h, "ban") => handler[h].copy.disabled
    /\ ~handler[h].stale =>
          /\ ~Doing(h, "set") => handler[h].copy.password = user.password
          /\ handler[h].at \in {"record", "count", "write"}
                => handler[h].copy.disabled = user.disabled

CopiesAreGood == \A h \in Handlers : Free(h) \/ CopyIsGood(h)

AccountInv == AccountsTypeOK /\ CopiesAreGood /\ AccountIsKept

Requests == [at : {"record", "count", "ban", "write", "edit", "set"}, copy : Row,
             login : BOOLEAN, stale : BOOLEAN]

-----------------------------------------------------------------------------
LEMMA TypesOfAccount ==
    ASSUME AccountInv
    PROVE  /\ user \in Row /\ Consistent(user)
           /\ handler \in [Handlers -> {None} \cup Requests]
           /\ \A h \in Handlers : Free(h) \/ handler[h] \in Requests
           /\ failedLogins \in Seq(Nat) /\ Len(failedLogins) \in Nat /\ Len(failedLogins) <= MaxFailed
           /\ passkeyFails \in 0 .. MaxPasskeyFails /\ lastPassword \in Passwords
           /\ overwritten \in BOOLEAN /\ pardoned \in BOOLEAN
<1>1. handler \in [Handlers -> {None} \cup Requests]
  BY DEF AccountInv, AccountsTypeOK, Requests
<1>2. user \in Row /\ Consistent(user)
  BY DEF AccountInv, AccountsTypeOK, Consistent
<1>3. /\ failedLogins \in Seq(Nat) /\ Len(failedLogins) <= MaxFailed
      /\ passkeyFails \in 0 .. MaxPasskeyFails /\ lastPassword \in Passwords
      /\ overwritten \in BOOLEAN /\ pardoned \in BOOLEAN
  BY DEF AccountInv, AccountsTypeOK
<1>4. Len(failedLogins) \in Nat
  BY <1>3
<1> QED
  BY <1>1, <1>2, <1>3, <1>4 DEF Free

LEMMA TypesMakeAccount ==
    ASSUME user' \in Row, Consistent(user)',
           handler' \in [Handlers -> {None} \cup Requests],
           failedLogins' \in Seq(Nat), Len(failedLogins') <= MaxFailed,
           passkeyFails' \in 0 .. MaxPasskeyFails, lastPassword' \in Passwords,
           overwritten' \in BOOLEAN, pardoned' \in BOOLEAN
    PROVE  AccountsTypeOK'
BY DEF AccountsTypeOK, Consistent, Requests

LEMMA OlderIsARow ==
    ASSUME NEW row \in Row
    PROVE  /\ Older(row) \in Row /\ (Consistent(row) => Consistent(Older(row)))
           /\ Older(row).password = row.password /\ Older(row).disabled = row.disabled
<1>1. /\ row.banExpiry \in 0 .. LoginProtectionBanMinutes \cup {NoBan}
      /\ row = [password |-> row.password, passwordUpdateRequired |-> row.passwordUpdateRequired,
                disabled |-> row.disabled, banExpiry |-> row.banExpiry]
      /\ row.password \in Passwords /\ row.passwordUpdateRequired \in BOOLEAN /\ row.disabled \in BOOLEAN
  BY DEF Row
<1> DEFINE left == IF row.banExpiry \in {NoBan, 0} THEN row.banExpiry ELSE row.banExpiry - 1
<1>2. left \in 0 .. LoginProtectionBanMinutes \cup {NoBan}
  BY <1>1, AccountsAssumption
<1>3. left = NoBan <=> row.banExpiry = NoBan
  BY <1>1, AccountsAssumption
<1>4. Older(row) = [password |-> row.password, passwordUpdateRequired |-> row.passwordUpdateRequired,
                    disabled |-> row.disabled, banExpiry |-> left]
  BY <1>1 DEF Older
<1> HIDE DEF left
<1> QED
  BY <1>1, <1>2, <1>3, <1>4 DEF Row, Consistent

LEMMA BanIsARow ==
    ASSUME NEW row \in Row
    PROVE  /\ Ban(row) \in Row /\ Consistent(Ban(row))
           /\ Ban(row).password = row.password /\ Ban(row).disabled = TRUE
<1>1. LoginProtectionBanMinutes \in 0 .. LoginProtectionBanMinutes /\ LoginProtectionBanMinutes # NoBan
  BY AccountsAssumption
<1>2. Ban(row) \in Row
  BY <1>1 DEF Ban, Row
<1>3. Ban(row).password = row.password /\ Ban(row).banExpiry = LoginProtectionBanMinutes
  BY DEF Ban, Row
<1>4. Ban(row).disabled = TRUE
  BY Zenon DEF Ban, Row
<1> QED
  BY <1>1, <1>2, <1>3, <1>4 DEF Consistent

-----------------------------------------------------------------------------
(* A request that begins, with a copy that is fresh.                       *)

LEMMA BeginningKeeps ==
    ASSUME AccountInv, NEW h \in Handlers, Free(h),
           NEW at \in {"record", "write", "edit", "set"}, NEW copy \in Row, NEW login \in BOOLEAN,
           Consistent(copy),
           at # "set" => copy.password = user.password,
           at \in {"record", "write"} => copy.disabled = user.disabled,
           Goes(h, Request(at, copy, login)),
           passkeyFails' \in 0 .. MaxPasskeyFails,
           UNCHANGED <<user, failedLogins, lastPassword, overwritten, pardoned>>
    PROVE  AccountInv'
<1> DEFINE q == Request(at, copy, login)
<1>1. q \in Requests /\ q.at = at /\ q.copy = copy /\ q.stale = FALSE
  BY DEF Request, Requests
<1>2. handler' \in [Handlers -> {None} \cup Requests]
  BY <1>1, TypesOfAccount DEF Goes
<1>3. handler'[h] = q /\ \A g \in Handlers \ {h} : handler'[g] = handler[g]
  BY TypesOfAccount DEF Goes
<1>4. AccountsTypeOK'
  BY <1>2, TypesOfAccount, TypesMakeAccount DEF Consistent
<1> HIDE DEF q
<1>5. CopyIsGood(h)'
  BY <1>1, <1>3 DEF CopyIsGood, Doing, Consistent
<1>6. ASSUME NEW g \in Handlers, g # h
      PROVE  (Free(g) \/ CopyIsGood(g))' /\ (Undecided(g)' <=> Undecided(g))
  BY <1>3, <1>6 DEF AccountInv, CopiesAreGood, CopyIsGood, Free, Doing, Undecided, Consistent
<1>7. ~Undecided(h)
  BY DEF Free, None, Undecided
<1>8. CopiesAreGood'
  BY <1>5, <1>6 DEF CopiesAreGood
<1>9. AccountIsKept'
  BY <1>6, <1>7 DEF AccountInv, AccountIsKept, BannedWhenDue, PasswordStays, numFailedLogins
<1> QED
  BY <1>4, <1>8, <1>9 DEF AccountInv

LEMMA BeginsKeeps ==
    ASSUME AccountInv, NEW h \in Handlers,
           NEW at \in {"record", "write", "edit", "set"}, NEW copy \in Row, NEW login \in BOOLEAN,
           Consistent(copy),
           at # "set" => copy.password = user.password,
           at \in {"record", "write"} => copy.disabled = user.disabled,
           Begins(h, at, copy, login)
    PROVE  AccountInv'
BY BeginningKeeps, TypesOfAccount DEF Begins

-----------------------------------------------------------------------------
(* The row is written: all other copies are stale from then on.            *)

LEMMA UpdateKeeps ==
    ASSUME AccountInv, NEW h \in Handlers, handler[h].at \in {"write", "edit", "set", "ban"},
           NEW q \in {None} \cup Requests,
           q # None => /\ q.copy = handler[h].copy /\ q.at \in {"record", "write"} /\ ~q.stale,
           Update(h, q)
    PROVE  AccountInv'
<1> DEFINE copy == handler[h].copy
<1>1. handler[h] \in Requests /\ ~Free(h) /\ copy \in Row /\ handler[h].stale \in BOOLEAN
  <2>1. handler[h] \in Requests /\ ~Free(h)
    BY TypesOfAccount DEF Free, None
  <2> QED
    BY <2>1 DEF Requests
<1>2. CopyIsGood(h)
  BY <1>1 DEF AccountInv, CopiesAreGood
<1>3. /\ user' = copy /\ failedLogins' = failedLogins /\ passkeyFails' = passkeyFails
      /\ handler' = [g \in Handlers |-> IF g = h THEN q ELSE IF Free(g) THEN None
                                        ELSE [handler[g] EXCEPT !.stale = TRUE]]
  BY DEF Update
<1>4. ASSUME NEW g \in Handlers, g # h, ~Free(g)
      PROVE  /\ handler'[g] \in Requests /\ handler'[g].at = handler[g].at
             /\ handler'[g].copy = handler[g].copy /\ handler'[g].stale = TRUE
  <2>1. handler'[g] = [handler[g] EXCEPT !.stale = TRUE] /\ handler[g] \in Requests
    BY <1>3, <1>4, TypesOfAccount
  <2> QED
    BY <2>1 DEF Requests
<1>5. ASSUME NEW g \in Handlers, g # h, Free(g)
      PROVE  handler'[g] = None
  BY <1>3, <1>5
<1>6. handler'[h] = q
  BY <1>3
<1>7. handler' \in [Handlers -> {None} \cup Requests]
  <2>1. \A g \in Handlers : handler'[g] \in {None} \cup Requests
    BY <1>4, <1>5, <1>6
  <2> QED
    BY <1>3, <2>1
<1>8. CopiesAreGood'
  <2>1. ASSUME NEW g \in Handlers, g # h, ~Free(g)
        PROVE  CopyIsGood(g)'
    BY <1>4, <2>1 DEF AccountInv, CopiesAreGood, CopyIsGood, Doing, Consistent
  <2>2. ASSUME NEW g \in Handlers, g # h, Free(g)
        PROVE  Free(g)'
    BY <1>5, <2>2 DEF Free
  <2>3. CASE q = None
    BY <1>6, <2>1, <2>2, <2>3 DEF CopiesAreGood, Free
  <2>4. CASE q # None
    <3>1. CopyIsGood(h)'
      BY <1>2, <1>3, <1>6, <2>4 DEF CopyIsGood, Doing, Consistent
    <3> QED
      BY <2>1, <2>2, <3>1 DEF CopiesAreGood
  <2> QED
    BY <2>3, <2>4
<1>9. PasswordStays' /\ overwritten' \in BOOLEAN /\ lastPassword' \in Passwords
  <2>1. CASE Doing(h, "set")
    <3>1. lastPassword' = copy.password /\ overwritten' = FALSE
      BY <2>1 DEF Update
    <3> QED
      BY <1>1, <1>3, <3>1 DEF PasswordStays, Row
  <2>2. CASE ~Doing(h, "set")
    <3>1. /\ lastPassword' = lastPassword
          /\ overwritten' = (copy.password # lastPassword /\ (overwritten \/ handler[h].stale))
      BY <2>2 DEF Update
    <3>2. handler[h].stale \/ copy.password = user.password
      BY <1>2, <2>2 DEF CopyIsGood
    <3>3. user.password = lastPassword \/ overwritten
      BY DEF AccountInv, AccountIsKept, PasswordStays
    <3>4. copy.password = lastPassword \/ overwritten'
      BY <3>1, <3>2, <3>3
    <3>5. overwritten' \in BOOLEAN
      BY <3>1
    <3> QED
      BY <1>3, <3>1, <3>4, <3>5, TypesOfAccount DEF PasswordStays
  <2> QED
    BY <2>1, <2>2
<1>10. pardoned' = ((pardoned \/ (user.disabled /\ ~copy.disabled
                                  /\ (handler[h].stale \/ Doing(h, "edit") \/ Doing(h, "set"))))
                    /\ Len(failedLogins) >= LoginProtectionMaxFails)
  BY <1>3 DEF Update, Pardons
<1>11. BannedWhenDue'
  <2>1. SUFFICES ASSUME ~pardoned', \A g \in Handlers : ~Undecided(g)',
                        Len(failedLogins) >= LoginProtectionMaxFails, ~copy.disabled
                 PROVE  FALSE
    BY <1>3 DEF BannedWhenDue, numFailedLogins
  <2>2. ~Doing(h, "ban")
    BY <1>2, <2>1 DEF CopyIsGood
  <2>3. ~pardoned
    BY <1>10, <2>1
  <2>4. \A g \in Handlers : ~Undecided(g)
    <3>1. ~Undecided(h)
      BY <2>2 DEF Undecided, Doing
    <3>2. ASSUME NEW g \in Handlers, g # h, Free(g)
          PROVE  ~Undecided(g)
      BY <3>2 DEF Free, None, Undecided
    <3>3. ASSUME NEW g \in Handlers, g # h, ~Free(g)
          PROVE  ~Undecided(g)
      BY <1>4, <2>1, <3>3 DEF Undecided
    <3> QED
      BY <3>1, <3>2, <3>3
  <2>5. user.disabled
    BY <2>1, <2>3, <2>4 DEF AccountInv, AccountIsKept, BannedWhenDue, numFailedLogins
  <2>6. ~(handler[h].stale \/ Doing(h, "edit") \/ Doing(h, "set"))
    BY <1>10, <2>1, <2>5
  <2>7. handler[h].at = "write"
    BY <2>2, <2>6 DEF Doing
  <2> QED
    BY <1>2, <2>1, <2>5, <2>6, <2>7 DEF CopyIsGood
<1>12. AccountsTypeOK'
  <2>1. user' \in Row /\ Consistent(user)'
    BY <1>1, <1>2, <1>3 DEF CopyIsGood, Consistent
  <2>2. pardoned' \in BOOLEAN
    BY <1>10
  <2> QED
    BY <1>3, <1>7, <1>9, <2>1, <2>2, TypesOfAccount, TypesMakeAccount
<1> QED
  BY <1>8, <1>9, <1>11, <1>12 DEF AccountInv, AccountIsKept

-----------------------------------------------------------------------------
(* The steps between.                                                      *)

\* Only h goes on, with its copy, and the row stays.
LEMMA GoingOnKeeps ==
    ASSUME AccountInv, NEW h \in Handlers, ~Free(h), NEW q \in {None} \cup Requests,
           q # None => CopyIsGood(h)', Goes(h, q),
           UNCHANGED <<user, passkeyFails, lastPassword, overwritten>>,
           failedLogins' \in Seq(Nat), Len(failedLogins') <= MaxFailed, pardoned' \in BOOLEAN,
           BannedWhenDue'
    PROVE  AccountInv'
<1>1. handler'[h] = q /\ \A g \in Handlers \ {h} : handler'[g] = handler[g]
  BY TypesOfAccount DEF Goes
<1>2. handler' \in [Handlers -> {None} \cup Requests]
  BY TypesOfAccount DEF Goes
<1>3. AccountsTypeOK'
  BY <1>2, TypesOfAccount, TypesMakeAccount DEF Consistent
<1>4. ASSUME NEW g \in Handlers, g # h
      PROVE  (Free(g) \/ CopyIsGood(g))'
  BY <1>1, <1>4 DEF AccountInv, CopiesAreGood, CopyIsGood, Free, Doing, Consistent
<1>5. (Free(h) \/ CopyIsGood(h))'
  BY <1>1 DEF Free
<1>6. CopiesAreGood'
  BY <1>4, <1>5 DEF CopiesAreGood
<1>7. PasswordStays'
  BY DEF AccountInv, AccountIsKept, PasswordStays
<1> QED
  BY <1>3, <1>6, <1>7 DEF AccountInv, AccountIsKept

LEMMA RecordKeeps ==
    ASSUME AccountInv, NEW h \in Handlers, RecordLoginAttempt(h)
    PROVE  AccountInv'
<1> DEFINE q == [handler[h] EXCEPT !.at = "count"]
<1>1. handler[h] \in Requests /\ ~Free(h) /\ handler[h].at = "record"
  BY TypesOfAccount DEF RecordLoginAttempt, Doing, Free, None
<1>2. CopyIsGood(h)
  BY <1>1 DEF AccountInv, CopiesAreGood
<1>3. /\ q \in Requests /\ q.at = "count" /\ q.copy = handler[h].copy /\ q.stale = handler[h].stale
  BY <1>1 DEF Requests
<1> HIDE DEF q
<1>4. Goes(h, q) /\ handler'[h] = q /\ UNCHANGED <<user, passkeyFails, lastPassword, overwritten>>
  BY TypesOfAccount DEF RecordLoginAttempt, Goes, q
<1>5. CopyIsGood(h)'
  BY <1>1, <1>2, <1>3, <1>4 DEF CopyIsGood, Doing, Consistent
<1>6. failedLogins' \in Seq(Nat) /\ Len(failedLogins') <= MaxFailed
  <2>1. CASE handler[h].login
    <3>1. failedLogins' = <<>>
      BY <2>1 DEF RecordLoginAttempt
    <3> QED
      BY <3>1, AccountsAssumption
  <2>2. CASE ~handler[h].login
    <3>1. failedLogins' = Append(failedLogins, 0) /\ Len(failedLogins) < MaxFailed
      BY <2>2 DEF RecordLoginAttempt
    <3> QED
      BY <3>1, TypesOfAccount, AccountsAssumption
  <2> QED
    BY <2>1, <2>2
<1>7. BannedWhenDue'
  BY <1>3, <1>4 DEF BannedWhenDue, Undecided
<1>8. pardoned' \in BOOLEAN
  BY DEF RecordLoginAttempt
<1> QED
  BY <1>1, <1>3, <1>4, <1>5, <1>6, <1>7, <1>8, GoingOnKeeps

LEMMA CountKeeps ==
    ASSUME AccountInv, NEW h \in Handlers, checkBanUser(h)
    PROVE  AccountInv'
<1>1. handler[h] \in Requests /\ ~Free(h) /\ handler[h].at = "count"
  BY TypesOfAccount DEF checkBanUser, Doing, Free, None
<1>2. CopyIsGood(h)
  BY <1>1 DEF AccountInv, CopiesAreGood
<1>3. UNCHANGED <<user, failedLogins, passkeyFails, lastPassword, overwritten, pardoned>>
  BY DEF checkBanUser
<1>4. CASE numFailedLogins >= LoginProtectionMaxFails
  <2> DEFINE q == [handler[h] EXCEPT !.at = "ban", !.copy = Ban(@)]
  <2>1. /\ Ban(handler[h].copy) \in Row /\ Consistent(Ban(handler[h].copy))
        /\ Ban(handler[h].copy).password = handler[h].copy.password
        /\ Ban(handler[h].copy).disabled = TRUE
    BY <1>1, BanIsARow DEF Requests
  <2>2. /\ q \in Requests /\ q.at = "ban" /\ q.copy = Ban(handler[h].copy)
        /\ q.stale = handler[h].stale
    BY <1>1, <2>1 DEF Requests
  <2> HIDE DEF q
  <2>3. Goes(h, q) /\ handler'[h] = q
    BY <1>4, TypesOfAccount DEF checkBanUser, Goes, q
  <2>4. CopyIsGood(h)'
    BY <1>1, <1>2, <1>3, <2>1, <2>2, <2>3 DEF CopyIsGood, Doing, Consistent
  <2>5. BannedWhenDue'
    BY <2>2, <2>3 DEF BannedWhenDue, Undecided
  <2> QED
    BY <1>1, <1>3, <2>2, <2>3, <2>4, <2>5, TypesOfAccount, GoingOnKeeps
<1>5. CASE ~(numFailedLogins >= LoginProtectionMaxFails)
  <2> DEFINE q == Counted(handler[h])
  <2>1. /\ q \in {None} \cup Requests
        /\ q # None => /\ q.at = "write" /\ q.copy = handler[h].copy /\ q.stale = handler[h].stale
    BY <1>1 DEF Counted, Requests
  <2> HIDE DEF q
  <2>2. Goes(h, q) /\ handler'[h] = q
    BY <1>5, TypesOfAccount DEF checkBanUser, Goes, q
  <2>3. q # None => CopyIsGood(h)'
    BY <1>1, <1>2, <1>3, <2>1, <2>2 DEF CopyIsGood, Doing, Consistent
  <2>4. BannedWhenDue'
    BY <1>3, <1>5 DEF BannedWhenDue, numFailedLogins
  <2>5. /\ failedLogins' \in Seq(Nat) /\ Len(failedLogins') <= MaxFailed /\ pardoned' \in BOOLEAN
        /\ UNCHANGED <<user, passkeyFails, lastPassword, overwritten>>
    BY <1>3, TypesOfAccount
  <2> QED
    BY <1>1, <2>1, <2>2, <2>3, <2>4, <2>5, GoingOnKeeps
<1> QED
  BY <1>4, <1>5

LEMMA WritesKeep ==
    ASSUME AccountInv, NEW h \in Handlers,
           WriteRow(h) \/ WritePassword(h) \/ BanUser(h)
    PROVE  AccountInv'
<1>1. CASE WriteRow(h)
  BY <1>1, UpdateKeeps DEF WriteRow, Doing
<1>2. CASE WritePassword(h)
  <2> DEFINE r == Request("record", handler[h].copy, TRUE)
  <2>1. handler[h].at = "set" /\ handler[h] \in Requests
    BY <1>2, TypesOfAccount DEF WritePassword, Doing, Free, None
  <2>2. r \in Requests /\ r.copy = handler[h].copy /\ r.at = "record" /\ ~r.stale
    BY <2>1 DEF Request, Requests
  <2> HIDE DEF r
  <2>3. Update(h, None) \/ Update(h, r)
    BY <1>2 DEF WritePassword, r
  <2> QED
    BY <2>1, <2>2, <2>3, UpdateKeeps
<1>3. CASE BanUser(h)
  <2> DEFINE q == Counted([handler[h] EXCEPT !.stale = FALSE])
  <2>1. handler[h].at = "ban" /\ handler[h] \in Requests
    BY <1>3, TypesOfAccount DEF BanUser, Doing, Free, None
  <2>2. /\ q \in {None} \cup Requests
        /\ q # None => q.copy = handler[h].copy /\ q.at = "write" /\ ~q.stale
    BY <2>1 DEF Counted, Requests
  <2> HIDE DEF q
  <2>3. Update(h, q)
    BY <1>3 DEF BanUser, q
  <2> QED
    BY <2>1, <2>2, <2>3, UpdateKeeps
<1> QED
  BY <1>1, <1>2, <1>3

LEMMA ReadingKeeps ==
    ASSUME AccountInv, NEW h \in Handlers,
           \/ \E right \in BOOLEAN : loginPassword(h, right) \/ loginPasskey(h, right)
           \/ refreshAccessToken(h) \/ adminResetTotp(h)
           \/ \E p \in Passwords :
                 \/ updatePassword(h, p) \/ completePasswordReset(h, p)
                 \/ \E own \in BOOLEAN : setPassword(h, p, own)
           \/ \E p \in Passwords \cup {NoPassword} : update(h, p)
    PROVE  AccountInv'
<1>1. user \in Row /\ Consistent(user)
  BY TypesOfAccount
<1>2. ASSUME NEW right \in BOOLEAN, loginPassword(h, right)
      PROVE  AccountInv'
  BY <1>1, <1>2, BeginsKeeps DEF loginPassword
<1>3. ASSUME NEW right \in BOOLEAN, loginPasskey(h, right)
      PROVE  AccountInv'
  <2>1. passkeyFails' \in 0 .. MaxPasskeyFails
    BY <1>3, TypesOfAccount, AccountsAssumption DEF loginPasskey
  <2> QED
    BY <1>1, <1>3, <2>1, BeginningKeeps DEF loginPasskey
<1>4. CASE refreshAccessToken(h) \/ adminResetTotp(h)
  BY <1>1, <1>4, BeginsKeeps DEF refreshAccessToken, adminResetTotp
<1>5. ASSUME NEW p \in Passwords, NEW b \in BOOLEAN
      PROVE  LET copy == [user EXCEPT !.password = p, !.passwordUpdateRequired = b]
             IN  copy \in Row /\ Consistent(copy)
  BY <1>1 DEF Row, Consistent
<1>6. ASSUME NEW p \in Passwords, updatePassword(h, p)
      PROVE  AccountInv'
  <2> DEFINE copy == [user EXCEPT !.password = p, !.passwordUpdateRequired = FALSE]
  <2>1. Begins(h, "set", copy, TRUE)
    BY <1>6 DEF updatePassword
  <2> QED
    BY <1>5, <2>1, BeginsKeeps
<1>7. ASSUME NEW p \in Passwords, completePasswordReset(h, p)
      PROVE  AccountInv'
  <2> DEFINE copy == [user EXCEPT !.password = p]
  <2>1. copy \in Row /\ Consistent(copy)
    BY <1>1 DEF Row, Consistent
  <2>2. Begins(h, "set", copy, FALSE)
    BY <1>7 DEF completePasswordReset
  <2> QED
    BY <2>1, <2>2, BeginsKeeps
<1>8. ASSUME NEW p \in Passwords, NEW own \in BOOLEAN, setPassword(h, p, own)
      PROVE  AccountInv'
  <2> DEFINE copy == [user EXCEPT !.password = p, !.passwordUpdateRequired = ~own]
  <2>1. Begins(h, "set", copy, FALSE)
    BY <1>8 DEF setPassword
  <2> QED
    BY <1>5, <2>1, BeginsKeeps
<1>9. ASSUME NEW p \in Passwords \cup {NoPassword}, update(h, p)
      PROVE  AccountInv'
  <2> DEFINE at == IF p = NoPassword THEN "edit" ELSE "set"
             copy == [password |-> IF p = NoPassword THEN user.password ELSE p,
                      passwordUpdateRequired |-> p # NoPassword,
                      disabled |-> FALSE, banExpiry |-> NoBan]
  <2>1. copy \in Row /\ Consistent(copy)
    BY <1>1 DEF Row, Consistent
  <2>2. at \in {"record", "write", "edit", "set"} /\ at \notin {"record", "write"}
    OBVIOUS
  <2>3. at # "set" => copy.password = user.password
    OBVIOUS
  <2>4. Begins(h, at, copy, FALSE)
    BY <1>9 DEF update
  <2> HIDE DEF at, copy
  <2> QED
    BY <2>1, <2>2, <2>3, <2>4, BeginsKeeps
<1> QED
  BY <1>2, <1>3, <1>4, <1>6, <1>7, <1>8, <1>9

-----------------------------------------------------------------------------
(* Steps that no request takes.                                            *)

LEMMA EnablingKeeps ==
    ASSUME AccountInv, EnableUsersWithExpiredBan
    PROVE  AccountInv'
<1>1. /\ user' = [user EXCEPT !.disabled = FALSE, !.banExpiry = NoBan]
      /\ handler' = [g \in Handlers |-> IF Free(g) THEN None ELSE [handler[g] EXCEPT !.stale = TRUE]]
      /\ UNCHANGED <<failedLogins, passkeyFails, lastPassword, overwritten>>
      /\ Pardons(TRUE)
  BY DEF EnableUsersWithExpiredBan
<1>2. user' \in Row /\ Consistent(user)' /\ user'.password = user.password
  BY <1>1, TypesOfAccount DEF Row, Consistent
<1>3. ASSUME NEW g \in Handlers, ~Free(g)
      PROVE  /\ handler'[g] \in Requests /\ handler'[g].at = handler[g].at
             /\ handler'[g].copy = handler[g].copy /\ handler'[g].stale = TRUE
  <2>1. handler'[g] = [handler[g] EXCEPT !.stale = TRUE] /\ handler[g] \in Requests
    BY <1>1, <1>3, TypesOfAccount
  <2> QED
    BY <2>1 DEF Requests
<1>4. ASSUME NEW g \in Handlers, Free(g)
      PROVE  handler'[g] = None
  BY <1>1, <1>4
<1>5. handler' \in [Handlers -> {None} \cup Requests]
  <2>1. \A g \in Handlers : handler'[g] \in {None} \cup Requests
    BY <1>3, <1>4
  <2> QED
    BY <1>1, <2>1
<1>6. CopiesAreGood'
  <2>1. ASSUME NEW g \in Handlers, ~Free(g)
        PROVE  CopyIsGood(g)'
    BY <1>3, <2>1 DEF AccountInv, CopiesAreGood, CopyIsGood, Doing, Consistent
  <2> QED
    BY <1>4, <2>1 DEF CopiesAreGood, Free
<1>7. pardoned' = (Len(failedLogins) >= LoginProtectionMaxFails)
  BY <1>1 DEF Pardons
<1>8. AccountIsKept'
  BY <1>1, <1>2, <1>7 DEF AccountInv, AccountIsKept, BannedWhenDue, PasswordStays, numFailedLogins
<1> QED
  BY <1>1, <1>2, <1>5, <1>6, <1>7, <1>8, TypesOfAccount, TypesMakeAccount DEF AccountInv

\* As time passes failures are forgotten, and none comes up.
LEMMA TickForgets ==
    ASSUME AccountInv, Tick
    PROVE  failedLogins' \in Seq(Nat) /\ Len(failedLogins') \in Nat
           /\ Len(failedLogins') <= Len(failedLogins)
<1> DEFINE n == Len(failedLogins)
           Gone == {i \in DOMAIN failedLogins : failedLogins[i] + 1 = LoginProtectionWindow}
           gone == Cardinality(Gone)
<1>1. n \in Nat /\ DOMAIN failedLogins = 1 .. n /\ \A i \in 1 .. n : failedLogins[i] \in Nat
  BY TypesOfAccount
<1>2. IsFiniteSet(1 .. n) /\ Cardinality(1 .. n) = n
  BY <1>1, FS_Interval
<1>3. Gone \in SUBSET (1 .. n)
  BY <1>1
<1>4. gone \in Nat /\ gone <= n
  BY <1>2, <1>3, FS_Subset, FS_CardinalityType
<1>5. failedLogins' = [i \in 1 .. n - gone |-> failedLogins[i + gone] + 1]
  BY DEF Tick
<1> HIDE DEF gone, n, Gone
<1>6. n - gone \in Nat /\ n - gone <= n
  BY <1>1, <1>4
<1>7. \A i \in 1 .. n - gone : failedLogins[i + gone] + 1 \in Nat
  <2> TAKE i \in 1 .. n - gone
  <2>1. i + gone \in 1 .. n
    BY <1>1, <1>4
  <2> QED
    BY <1>1, <2>1
<1>8. failedLogins' \in [1 .. n - gone -> Nat]
  BY <1>5, <1>7
<1>9. failedLogins' \in Seq(Nat) /\ Len(failedLogins') = n - gone
  BY <1>6, <1>8
<1> QED
  BY <1>6, <1>9 DEF n

LEMMA TickKeeps ==
    ASSUME AccountInv, Tick
    PROVE  AccountInv'
<1>1. /\ user' = Older(user)
      /\ handler' = [h \in Handlers |-> IF Free(h) THEN None
                                        ELSE [handler[h] EXCEPT !.copy = Older(handler[h].copy)]]
      /\ UNCHANGED <<passkeyFails, lastPassword, overwritten>>
      /\ Pardons(FALSE)
  BY DEF Tick
<1>2. /\ user' \in Row /\ Consistent(user)' /\ user'.password = user.password
      /\ user'.disabled = user.disabled
  <2>1. Consistent(user)' <=> Consistent(Older(user))
    BY <1>1 DEF Consistent
  <2> QED
    BY <1>1, <2>1, TypesOfAccount, OlderIsARow
<1>3. ASSUME NEW g \in Handlers, ~Free(g)
      PROVE  /\ handler'[g] \in Requests /\ handler'[g].at = handler[g].at
             /\ handler'[g].copy = Older(handler[g].copy) /\ handler'[g].stale = handler[g].stale
             /\ handler[g].copy \in Row
  <2>1. handler'[g] = [handler[g] EXCEPT !.copy = Older(handler[g].copy)] /\ handler[g] \in Requests
    BY <1>1, <1>3, TypesOfAccount
  <2>2. handler[g].copy \in Row
    BY <2>1 DEF Requests
  <2>3. Older(handler[g].copy) \in Row
    BY <2>2, OlderIsARow
  <2> QED
    BY <2>1, <2>2, <2>3 DEF Requests
<1>4. ASSUME NEW g \in Handlers, Free(g)
      PROVE  handler'[g] = None
  BY <1>1, <1>4
<1>5. handler' \in [Handlers -> {None} \cup Requests]
  <2>1. \A g \in Handlers : handler'[g] \in {None} \cup Requests
    BY <1>3, <1>4
  <2> QED
    BY <1>1, <2>1
<1>6. CopiesAreGood'
  <2>1. ASSUME NEW g \in Handlers, ~Free(g)
        PROVE  CopyIsGood(g)'
    <3>1. CopyIsGood(g)
      BY <2>1 DEF AccountInv, CopiesAreGood
    <3>2. /\ Consistent(handler[g].copy) => Consistent(Older(handler[g].copy))
          /\ Older(handler[g].copy).password = handler[g].copy.password
          /\ Older(handler[g].copy).disabled = handler[g].copy.disabled
      BY <1>3, <2>1, OlderIsARow
    <3>3. /\ handler'[g].at = handler[g].at /\ handler'[g].stale = handler[g].stale
          /\ handler'[g].copy = Older(handler[g].copy)
      BY <1>3, <2>1
    <3>4. Consistent(handler'[g].copy)
      BY <3>1, <3>2, <3>3 DEF CopyIsGood
    <3>5. /\ handler'[g].copy.password = handler[g].copy.password
          /\ handler'[g].copy.disabled = handler[g].copy.disabled
      BY <3>2, <3>3
    <3> QED
      BY <1>2, <3>1, <3>3, <3>4, <3>5 DEF CopyIsGood, Doing, Consistent
  <2> QED
    BY <1>4, <2>1 DEF CopiesAreGood, Free
<1>7. pardoned' = (pardoned /\ Len(failedLogins') >= LoginProtectionMaxFails)
  BY <1>1 DEF Pardons
<1>8. BannedWhenDue'
  <2>1. \A g \in Handlers : Undecided(g)' <=> Undecided(g)
    BY <1>3, <1>4 DEF Undecided, Free
  <2>2. Len(failedLogins') >= LoginProtectionMaxFails => Len(failedLogins) >= LoginProtectionMaxFails
    BY TickForgets, TypesOfAccount, AccountsAssumption
  <2> QED
    BY <1>2, <1>7, <2>1, <2>2 DEF AccountInv, AccountIsKept, BannedWhenDue, numFailedLogins
<1>9. PasswordStays'
  BY <1>1, <1>2 DEF AccountInv, AccountIsKept, PasswordStays
<1>10. Len(failedLogins') <= MaxFailed
  BY TickForgets, TypesOfAccount, AccountsAssumption
<1> QED
  BY <1>1, <1>2, <1>5, <1>6, <1>7, <1>8, <1>9, <1>10, TickForgets, TypesOfAccount,
     TypesMakeAccount DEF AccountInv, AccountIsKept

LEMMA StopKeeps ==
    ASSUME AccountInv, Stop
    PROVE  AccountInv'
<1>1. /\ handler' = [h \in Handlers |-> None]
      /\ UNCHANGED <<user, failedLogins, passkeyFails, lastPassword, overwritten>>
      /\ pardoned' = ((pardoned \/ \E h \in Handlers : Undecided(h))
                      /\ Len(failedLogins) >= LoginProtectionMaxFails)
  BY DEF Stop, Pardons
<1>2. AccountsTypeOK'
  BY <1>1, TypesOfAccount, TypesMakeAccount DEF Consistent
<1>3. CopiesAreGood'
  BY <1>1 DEF CopiesAreGood, Free
<1>4. AccountIsKept'
  BY <1>1 DEF AccountInv, AccountIsKept, BannedWhenDue, PasswordStays, numFailedLogins
<1> QED
  BY <1>2, <1>3, <1>4 DEF AccountInv

LEMMA AccountStutters ==
    ASSUME AccountInv, UNCHANGED accountVars
    PROVE  AccountInv'
BY DEF AccountInv, AccountsTypeOK, CopiesAreGood, CopyIsGood, Consistent, Free, Doing,
       AccountIsKept, BannedWhenDue, PasswordStays, numFailedLogins, Undecided, accountVars

-----------------------------------------------------------------------------
LEMMA AccountBegins ==
    ASSUME AccountsInit
    PROVE  AccountInv
<1>1. user \in Row /\ user.disabled = FALSE /\ user.banExpiry = NoBan
  BY DEF AccountsInit, Row
<1>2. \A h \in Handlers : Free(h)
  BY DEF AccountsInit, Free
<1>3. handler \in [Handlers -> {None} \cup Requests]
  BY DEF AccountsInit
<1>4. failedLogins \in Seq(Nat) /\ Len(failedLogins) = 0
  BY DEF AccountsInit
<1>5. AccountsTypeOK
  <2>1. user.password \in Passwords
    BY <1>1 DEF Row
  <2>2. passkeyFails \in 0 .. MaxPasskeyFails /\ lastPassword \in Passwords
    BY <2>1, AccountsAssumption DEF AccountsInit
  <2>3. overwritten \in BOOLEAN /\ pardoned \in BOOLEAN
    BY DEF AccountsInit
  <2>4. Len(failedLogins) <= MaxFailed /\ (user.disabled <=> user.banExpiry # NoBan)
    BY <1>1, <1>4, AccountsAssumption
  <2> QED
    BY <1>1, <1>3, <1>4, <2>2, <2>3, <2>4 DEF AccountsTypeOK, Requests
<1>6. CopiesAreGood
  BY <1>2 DEF CopiesAreGood
<1>7. AccountIsKept
  BY <1>4, AccountsAssumption DEF AccountsInit, AccountIsKept, BannedWhenDue, PasswordStays, numFailedLogins
<1> QED
  BY <1>5, <1>6, <1>7 DEF AccountInv

LEMMA AccountGoesOn ==
    ASSUME AccountInv, [AccountsNext]_accountVars
    PROVE  AccountInv'
<1>1. ASSUME NEW h \in Handlers, Serve(h)
      PROVE  AccountInv'
  BY <1>1, ReadingKeeps, RecordKeeps, CountKeeps, WritesKeep DEF Serve
<1> QED
  BY <1>1, EnablingKeeps, TickKeeps, StopKeeps, AccountStutters DEF AccountsNext

\* Every reachable state of an account and of the requests at work on it has its type, for
\* any number of requests, passwords and limits (user-repository.go, auth-attempt-repository.go).
THEOREM AccountsTypeCorrect == AccountsSpec => []AccountsTypeOK
<1>1. AccountInv => AccountsTypeOK
  BY DEF AccountInv
<1> QED
  BY <1>1, AccountBegins, AccountGoesOn, PTL DEF AccountsSpec

\* Who fails too often is banned once the failures are counted, and a password stays, but for
\* copies of the row from before: in whatever order requests record, count and write
\* (checkBanUser, Update).
THEOREM AccountKept == AccountsSpec => []AccountIsKept
<1>1. AccountInv => AccountIsKept
  BY DEF AccountInv
<1> QED
  BY <1>1, AccountBegins, AccountGoesOn, PTL DEF AccountsSpec

-----------------------------------------------------------------------------
(* Both of them, one of which goes on.                                     *)

TimerInv == TypeOK /\ OrderInv /\ RunInv /\ AccountInv

LEMMA TimerBegins == TimerInit => TimerInv
<1>1. Init => OrderInv /\ RunInv
  BY ReportBegins
<1> QED
  BY <1>1, TypeInit, AccountBegins DEF TimerInit, TimerInv

LEMMA TimerGoesOn == TimerInv /\ [TimerNext]_timerVars => TimerInv'
<1> SUFFICES ASSUME TimerInv, [TimerNext]_timerVars PROVE TimerInv'
  OBVIOUS
<1>1. [Next]_vars /\ [AccountsNext]_accountVars
  BY DEF TimerNext, Report, Account, timerVars
<1> QED
  BY <1>1, TypeStep, OrderStep, RunStep, AccountGoesOn DEF TimerInv

\* Where the timer has both to see to, the variables of both have their types in every
\* reachable state (app.go's onTimerTick).
THEOREM TimerTypeCorrect == TimerSpec => []TimerTypeOK
<1>1. TimerInv => TimerTypeOK
  BY DEF TimerInv, TimerTypeOK, AccountInv
<1> QED
  BY <1>1, TimerBegins, TimerGoesOn, PTL DEF TimerSpec

\* And neither spoils what holds of the other: no day is taken for done whose report somebody
\* was not sent, no report is repeated but after a failure, bans and passwords are kept.
THEOREM TimerKeepsBoth ==
    TimerSpec => [](DoneMeansMailed /\ RepeatsOnlyAfterFailure /\ AccountIsKept)
<1>1. TimerInv => DoneMeansMailed /\ RepeatsOnlyAfterFailure /\ AccountIsKept
  BY DEF TimerInv, RunInv, RepeatsOnlyAfterFailure, AccountInv
<1> QED
  BY <1>1, TimerBegins, TimerGoesOn, PTL DEF TimerSpec
=============================================================================

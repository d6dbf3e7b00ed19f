------------------------------- MODULE MCTimer -------------------------------
(***************************************************************************)
(* What the minute timer has to see to, for TLC: a behaviour is one of the *)
(* daily report or one of an account that may be banned.                   *)
(***************************************************************************)
EXTENDS DailyReport, Accounts

CONSTANTS boss, desk    \* two recipients

VARIABLE part

timerVars == <<part, vars, accountVars>>

TimerInit == part \in {"report", "account"} /\ Init /\ AccountsInit

Report(A) == part = "report" /\ A /\ UNCHANGED <<part, accountVars>>
Account(A) == part = "account" /\ A /\ UNCHANGED <<part, vars>>
TimerNext == Report(Next) \/ Account(AccountsNext)

\* The fairness of each part's specification, for the one that goes on.
TimerFairness ==
    /\ WF_vars(part = "report" /\ Timer)
    /\ WF_accountVars(part = "account" /\ EnableUsersWithExpiredBan)
    /\ WF_accountVars(part = "account" /\ Tick)
TimerSpec == TimerInit /\ [][TimerNext]_timerVars /\ TimerFairness

-----------------------------------------------------------------------------
\* The variables of both parts have their types, which their modules state.
TimerTypeOK == TypeOK /\ AccountsTypeOK

\* What only the timer brings about comes about: a report that is due is sent, a ban ends.
TimerDoesItsWork == DueIsSent /\ BanEnds
=============================================================================

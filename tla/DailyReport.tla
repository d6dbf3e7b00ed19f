----------------------------- MODULE DailyReport -----------------------------
(***************************************************************************)
(* The daily booking report (daily-booking-report.go) as the minute timer  *)
(* runs it: once a day from 08:00 on, the bookings of the day before are   *)
(* mailed to every recipient, and the day is stored in the setting         *)
(* daily_booking_report_last_sent_date.  Settings are read through a cache *)
(* of five minutes (settings-repository.go) that a restart empties.        *)
(*                                                                         *)
(* Everything the service calls may fail; a report that could not be sent  *)
(* is tried again at the next tick.                                        *)
(***************************************************************************)
EXTENDS Naturals

CONSTANTS
    Recipients,     \* DAILY_BOOKING_REPORT_RECIPIENTS, at least one valid address
    MaxDay,         \* bound: the last day
    MaxFailures,    \* bound: how often a call fails or the server stops
    Miss            \* nothing in the cache

ASSUME ReportConstants == MaxDay \in Nat \ {0} /\ MaxFailures \in Nat /\ Miss \notin Nat

Never == 0
Days == 1 .. MaxDay

VARIABLES
    day, due,   \* the date in Vietnam, and whether it is 08:00 or later
    lastSent,   \* the row of the setting, Never if there is none
    cached,     \* what the cache holds for it
    job,        \* RunIfDue: step reached and local variables
    mailed,     \* external: how often a recipient was sent the report due on a day
    failures    \* how many calls failed so far

vars == <<day, due, lastSent, cached, job, mailed, failures>>

Job(pc, today, left, failed) == [pc |-> pc, today |-> today, left |-> left, failed |-> failed]
Idle == Job("idle", Never, {}, {})

Init ==
    /\ day = 1 /\ due = FALSE
    /\ lastSent = Never /\ cached = Miss
    /\ job = Idle
    /\ mailed = [d \in Days |-> [r \in Recipients |-> 0]]
    /\ failures = 0

At(pc) == job.pc = pc
Fails == failures < MaxFailures /\ failures' = failures + 1
-----------------------------------------------------------------------------
\* Mutant of ShouldRun: only if no report has been sent at all.
ShouldRunFirst(last) == due /\ last = Never

ShouldRun(last) == due /\ last # day

\* What the read of the setting returns; its error is ignored.
Get(last) ==
    \/ cached # Miss /\ last = cached /\ UNCHANGED <<cached, failures>>
    \/ /\ cached = Miss /\ last = lastSent
       /\ cached' = IF lastSent = Never THEN Miss ELSE lastSent
       /\ UNCHANGED failures
    \/ cached = Miss /\ last = Never /\ Fails /\ UNCHANGED cached

\* A tick of the timer, which may find the report due.
RunIfDue ==
    /\ At("idle")
    /\ \E last \in Days \cup {Never} :
          Get(last) /\ job' = IF ShouldRun(last) THEN Job("build", day, {}, {}) ELSE Idle
    /\ UNCHANGED <<day, due, lastSent, mailed>>

\* Mutant of BuildPreview: an error leaves the date of the run behind.
BuildPreviewNoReset ==
    /\ At("build")
    /\ \/ job' = Job("send", job.today, Recipients, {}) /\ UNCHANGED failures
       \/ job' = [job EXCEPT !.pc = "idle"] /\ Fails
    /\ UNCHANGED <<day, due, lastSent, cached, mailed>>

\* BuildPreview reads the bookings of the day before `today`.
BuildPreview ==
    /\ At("build")
    /\ \/ job' = Job("send", job.today, Recipients, {}) /\ UNCHANGED failures
       \/ job' = Idle /\ Fails
    /\ UNCHANGED <<day, due, lastSent, cached, mailed>>

\* Send goes through all recipients, whether or not one of them failed.
SendTo(r) ==
    /\ At("send") /\ r \in job.left
    /\ \/ /\ mailed' = [mailed EXCEPT ![job.today][r] = @ + 1]
          /\ job' = Job("send", job.today, job.left \ {r}, job.failed)
          /\ UNCHANGED failures
       \/ /\ job' = Job("send", job.today, job.left \ {r}, job.failed \cup {r})
          /\ Fails /\ UNCHANGED mailed
    /\ UNCHANGED <<day, due, lastSent, cached>>

\* Mutant of SetLastSent: the errors of Send are logged and forgotten.
SetLastSentAnyway ==
    /\ At("send") /\ job.left = {}
    /\ lastSent' = job.today /\ cached' = job.today
    /\ job' = Idle
    /\ UNCHANGED <<day, due, mailed, failures>>

\* Mutant of SetLastSent: only the cache is written.
SetLastSentInCache ==
    /\ At("send") /\ job.left = {}
    /\ IF job.failed # {} THEN UNCHANGED cached ELSE cached' = job.today
    /\ job' = Idle
    /\ UNCHANGED <<day, due, lastSent, mailed, failures>>

\* The day is stored if no recipient failed.
SetLastSent ==
    /\ At("send") /\ job.left = {}
    /\ \/ job.failed # {} /\ UNCHANGED <<lastSent, cached, failures>>
       \/ job.failed = {} /\ lastSent' = job.today /\ cached' = job.today /\ UNCHANGED failures
       \/ job.failed = {} /\ Fails /\ UNCHANGED <<lastSent, cached>>
    /\ job' = Idle
    /\ UNCHANGED <<day, due, mailed>>

\* The entry of the cache is five minutes old.
Expire ==
    /\ cached # Miss /\ cached' = Miss
    /\ UNCHANGED <<day, due, lastSent, job, mailed, failures>>

Clock ==
    /\ \/ ~due /\ due' = TRUE /\ day' = day
       \/ due /\ day < MaxDay /\ due' = FALSE /\ day' = day + 1
    /\ UNCHANGED <<lastSent, cached, job, mailed, failures>>

\* The server stops wherever it is, and is started again.
Restart ==
    /\ Fails
    /\ job' = Idle /\ cached' = Miss
    /\ UNCHANGED <<day, due, lastSent, mailed>>

Timer == RunIfDue \/ BuildPreview \/ (\E r \in Recipients : SendTo(r)) \/ SetLastSent

Next == Timer \/ Expire \/ Clock \/ Restart

\* The timer's goroutine goes on as long as the process runs.
Spec == Init /\ [][Next]_vars /\ WF_vars(Timer)
-----------------------------------------------------------------------------
(* Properties.                                                             *)

\* Every variable keeps its type: a run that was given up or has ended leaves
\* nothing behind, one under way is about a day.
TypeOK ==
    /\ day \in Days /\ due \in BOOLEAN
    /\ lastSent \in Days \cup {Never}
    /\ cached \in Days \cup {Miss}
    /\ job \in [pc : {"idle", "build", "send"}, today : Days \cup {Never},
                left : SUBSET Recipients, failed : SUBSET Recipients]
    /\ IF At("idle") THEN job = Idle ELSE job.today # Never
    /\ mailed \in [Days -> [Recipients -> Nat]]
    /\ failures \in Nat

\* The day is taken for done only after every recipient has been sent the
\* report, whatever failed in between.
DoneMeansMailed ==
    lastSent # Never => \A r \in Recipients : mailed[lastSent][r] > 0

\* A recipient gets the report of a day twice only if something failed, and
\* no more often than that: a retry is never a repetition of a success.
RepeatsOnlyAfterFailure ==
    \A d \in Days, r \in Recipients : mailed[d][r] <= failures + 1

\* A report that is due is sent to everybody, unless the day ends before.
DueIsSent ==
    \A d \in Days :
        (day = d /\ due) ~> (day > d \/ \A r \in Recipients : mailed[d][r] > 0)
=============================================================================

------------------------------ MODULE Reports ------------------------------
(***************************************************************************)
(* The monthly reports: the snapshots of a month that has ended            *)
(* (src/src/matrix/snapshot.ts, src/src/routes/admin-matrix.ts), the       *)
(* leadership digest (src/src/comms/digest.ts) and the batches that mail   *)
(* each member a report (src/src/comms/batch.ts), driven by the timer and  *)
(* by HTTP (src/src/jobs/scheduler.ts, src/src/routes/jobs.ts).            *)
(*                                                                         *)
(* A runner is one execution of runDailyTick: the timer's, guarded by      *)
(* `running', or one an HTTP request started.  Any of them can die at any  *)
(* step.  A row a batch has claimed is locked until its transaction ends,  *)
(* and the mail goes out inside that transaction.                          *)
(***************************************************************************)
EXTENDS Naturals

CONSTANTS
    Members,      \* members.id
    HasAccount,   \* members with a users row, and so an address
    Timer,        \* the scheduler's own runner
    Triggered,    \* runDailyTick executions started over HTTP
    Limit,        \* EMAIL_DAILY_BATCH_SIZE
    LastMonth,    \* bound: months go from 1 to LastMonth
    None          \* a runner that is not running

ASSUME ReportsAssumption ==
    /\ HasAccount \subseteq Members
    /\ Limit \in Nat \ {0}
    /\ LastMonth \in Nat \ {0}
    /\ Timer \notin Triggered

VARIABLES
    month,      \* the current month, Nairobi time
    first,      \* it is the 1st
    active,     \* members with membership_status 'active'
    sentToday,  \* some row has sent_at today (alreadySentToday)
    report,     \* email_status of the matrix_scores rows, "none" where there is no row
    runs,       \* where each runner is in runDailyTick
    inbox,      \* the mails that reached a member about a month: 0, 1, or 2 for more
    unsure,     \* the reports a mail reached somebody for without the row saying so
    digested    \* the months whose leadership digest has gone out

vars == <<month, first, active, sentToday, report, runs, inbox, unsure, digested>>

Periods == 1 .. LastMonth
Rows == Periods \X Members
Runners == {Timer} \cup Triggered

Run == [at : {"snapshot", "digest"}, period : Periods]
         \cup [at : {"pick"}]
         \cup [at : {"claim"}, period : Periods, attempted : 0 .. Limit]
         \cup [at : {"send"}, row : Rows, attempted : 0 .. Limit]
         \cup [at : {"mark"}, row : Rows, attempted : 0 .. Limit, delivered : BOOLEAN]

\* A runner at work is never idle.
ASSUME RunAssumption == None \notin Run

TypeOK ==
    /\ month \in Periods
    /\ first \in BOOLEAN
    /\ active \subseteq Members
    /\ sentToday \in BOOLEAN
    /\ report \in [Rows -> {"none", "pending", "sent", "failed"}]
    /\ runs \in [Runners -> Run \cup {None}]
    /\ inbox \in [Rows -> 0 .. 2]
    /\ unsure \subseteq Rows
    /\ digested \subseteq Periods

Init ==
    /\ month = 1
    /\ first = FALSE
    /\ active = Members
    /\ sentToday = FALSE
    /\ report = [row \in Rows |-> "none"]
    /\ runs = [x \in Runners |-> None]
    /\ inbox = [row \in Rows |-> 0]
    /\ unsure = {}
    /\ digested = {}
-----------------------------------------------------------------------------
At(x, where) == runs[x] # None /\ runs[x].at = where
GoTo(x, run) == runs' = [runs EXCEPT ![x] = run]
SetStatus(row, status) == report' = [report EXCEPT ![row] = status]

\* Mutant: the row is claimed without FOR UPDATE.
NeverClaimed(row) == row \notin Rows

\* FOR UPDATE: claimed by a batch whose transaction is open.
Claimed(row) == \E x \in Runners : (At(x, "send") \/ At(x, "mark")) /\ runs[x].row = row

Pending == {row \in Rows : report[row] = "pending"}

\* INSERT ... ON CONFLICT (member_id, period) DO NOTHING, for the members active now.
WithSnapshots(period) ==
    [row \in Rows |-> IF row[1] = period /\ row[2] \in active /\ report[row] = "none"
                     THEN "pending" ELSE report[row]]

PreviousMonth == month - 1

PeriodHasEnded(period) == period < month

\* One mail more than before; the inbox does not count past two.
MailArrives(row) == inbox' = [inbox EXCEPT ![row] = IF @ < 2 THEN @ + 1 ELSE @]
-----------------------------------------------------------------------------
(***************************************************************************)
(* runDailyTick, from either caller.  The timer looks first whether it is  *)
(* running already and whether anything was sent today; HTTP does not.     *)
(***************************************************************************)
StartTick(x) ==
    /\ runs[x] = None
    /\ x = Timer => ~sentToday
    /\ GoTo(x, IF first /\ month > 1 THEN [at |-> "snapshot", period |-> PreviousMonth]
                                     ELSE [at |-> "pick"])
    /\ UNCHANGED <<month, first, active, sentToday, report, inbox, unsure, digested>>

WriteSnapshots(x) ==
    /\ At(x, "snapshot")
    /\ LET period == runs[x].period
       IN /\ report' = WithSnapshots(period)
          /\ GoTo(x, IF WithSnapshots(period) # report THEN [at |-> "digest", period |-> period]
                                                       ELSE [at |-> "pick"])
    /\ UNCHANGED <<month, first, active, sentToday, inbox, unsure, digested>>

\* Every recipient is tried once; a refusal is counted and no more.
SendDigest(x) ==
    /\ At(x, "digest")
    /\ digested' = digested \cup {runs[x].period}
    /\ GoTo(x, [at |-> "pick"])
    /\ UNCHANGED <<month, first, active, sentToday, report, inbox, unsure>>

\* Mutant: only the month that has just ended is looked at.
JustEnded(p) == p = PreviousMonth

\* ORDER BY period DESC LIMIT 1
LatestPending(p) == (\E row \in Pending : row[1] = p) /\ \A row \in Pending : row[1] <= p

PickPeriod(x) ==
    /\ At(x, "pick")
    /\ \/ /\ Pending = {}
          /\ GoTo(x, None)
       \/ \E p \in Periods : /\ LatestPending(p)
                             /\ GoTo(x, [at |-> "claim", period |-> p, attempted |-> 0])
    /\ UNCHANGED <<month, first, active, sentToday, report, inbox, unsure, digested>>

\* The rows of the period that SKIP LOCKED leaves to choose from.
Claimable(x) == {row \in Pending : row[1] = runs[x].period /\ ~Claimed(row)}

\* The batch is over: it reached its limit, or nothing is left to claim.
EndBatch(x) ==
    /\ At(x, "claim")
    /\ runs[x].attempted = Limit \/ Claimable(x) = {}
    /\ GoTo(x, None)
    /\ UNCHANGED <<month, first, active, sentToday, report, inbox, unsure, digested>>

\* A member without an account has nowhere to be written to: failed, at once.
ClaimRow(x, row) ==
    /\ At(x, "claim")
    /\ runs[x].attempted < Limit
    /\ row \in Claimable(x)
    /\ LET attempted == runs[x].attempted + 1
       IN \/ /\ row[2] \in HasAccount
             /\ GoTo(x, [at |-> "send", row |-> row, attempted |-> attempted])
             /\ UNCHANGED report
          \/ /\ row[2] \notin HasAccount
             /\ GoTo(x, [runs[x] EXCEPT !.attempted = attempted])
             /\ SetStatus(row, "failed")
    /\ UNCHANGED <<month, first, active, sentToday, inbox, unsure, digested>>

\* The provider takes the mail, refuses it, or takes it and its answer is lost.
SendReport(x) ==
    /\ At(x, "send")
    /\ LET row == runs[x].row
           marking(delivered) == [at |-> "mark", row |-> row, delivered |-> delivered,
                                  attempted |-> runs[x].attempted]
       IN \/ /\ MailArrives(row)
             /\ GoTo(x, marking(TRUE))
             /\ UNCHANGED unsure
          \/ /\ GoTo(x, marking(FALSE))
             /\ UNCHANGED <<inbox, unsure>>
          \/ /\ MailArrives(row)
             /\ GoTo(x, marking(FALSE))
             /\ unsure' = unsure \cup {row}
    /\ UNCHANGED <<month, first, active, sentToday, report, digested>>

\* Mutant: a refused mail is marked as sent too.
MarkedSent(delivered) == IF delivered \in BOOLEAN THEN "sent" ELSE "failed"

Outcome(delivered) == IF delivered THEN "sent" ELSE "failed"

MarkReport(x) ==
    /\ At(x, "mark")
    /\ LET run == runs[x]
       IN /\ SetStatus(run.row, Outcome(run.delivered))
          /\ sentToday' = (sentToday \/ run.delivered)
          /\ GoTo(x, [at |-> "claim", period |-> run.row[1], attempted |-> run.attempted])
    /\ UNCHANGED <<month, first, active, inbox, unsure, digested>>

\* A restart, an aborted batch, a serverless time-out: the transaction is rolled back,
\* and if a mail had gone out nothing remembers it.
Dies(x) ==
    /\ runs[x] # None
    /\ unsure' = IF At(x, "mark") /\ runs[x].delivered THEN unsure \cup {runs[x].row} ELSE unsure
    /\ GoTo(x, None)
    /\ UNCHANGED <<month, first, active, sentToday, report, inbox, digested>>
-----------------------------------------------------------------------------
(***************************************************************************)
(* The officers' own requests, and the calendar.                           *)
(***************************************************************************)
AdminSnapshot(period) ==
    /\ PeriodHasEnded(period)
    /\ report' = WithSnapshots(period)
    /\ UNCHANGED <<month, first, active, sentToday, runs, inbox, unsure, digested>>

ToRequeue(row) == report[row] = "failed"

RequeueFailed(period) ==
    /\ report' = [row \in Rows |-> IF row[1] = period /\ ToRequeue(row)
                                  THEN "pending" ELSE report[row]]
    /\ report' # report
    /\ UNCHANGED <<month, first, active, sentToday, runs, inbox, unsure, digested>>

NextDay ==
    /\ first \/ sentToday
    /\ first' = FALSE
    /\ sentToday' = FALSE
    /\ UNCHANGED <<month, active, report, runs, inbox, unsure, digested>>

\* An officer, or a death, changes who is active.
MembershipChanges(m) ==
    /\ active' = IF m \in active THEN active \ {m} ELSE active \cup {m}
    /\ UNCHANGED <<month, first, sentToday, report, runs, inbox, unsure, digested>>

NextMonth ==
    /\ month < LastMonth
    /\ month' = month + 1
    /\ first' = TRUE
    /\ sentToday' = FALSE
    /\ UNCHANGED <<active, report, runs, inbox, unsure, digested>>

Step(x) ==
    \/ WriteSnapshots(x)
    \/ SendDigest(x)
    \/ PickPeriod(x)
    \/ EndBatch(x)
    \/ \E row \in Rows : ClaimRow(x, row)
    \/ SendReport(x)
    \/ MarkReport(x)

Officers ==
    \/ \E period \in Periods : AdminSnapshot(period) \/ RequeueFailed(period)
    \/ \E m \in Members : MembershipChanges(m)

Next ==
    \/ \E x \in Runners : StartTick(x) \/ Step(x) \/ Dies(x)
    \/ Officers
    \/ NextDay
    \/ NextMonth

Spec == Init /\ [][Next]_vars

\* A tick that finds nothing left to do ends as if it had died there.
CutShort == \E x \in Runners : Dies(x) /\ ~Step(x)

\* The timer ticks every fifteen minutes and days pass; a runner gets on with its
\* work.  From some point on nothing dies and no officer sends a report again.
Fairness ==
    /\ WF_vars(StartTick(Timer))
    /\ WF_vars(NextDay)
    /\ \A x \in Runners : WF_vars(Step(x))
    /\ <>[][~CutShort]_vars
    /\ <>[][~\E period \in Periods : RequeueFailed(period)]_vars

FairSpec == Spec /\ Fairness
-----------------------------------------------------------------------------
\* A report is marked sent only when a mail did reach its member.
SentWasMailed == \A row \in Rows : report[row] = "sent" => inbox[row] > 0

\* Two batches, a restart and a requeue together do not write twice to a member about
\* a month, unless a mail went out of which the row never learned.
MailedTwiceOnlyWhenUnsure == \A row \in Rows : inbox[row] > 1 => row \in unsure

\* A snapshot, once taken, stays; and once its report is sent nothing sends it again.
SentIsFinal ==
    [][\A row \in Rows : /\ report[row] # "none" => report'[row] # "none"
                         /\ report[row] = "sent" => report'[row] = "sent"]_vars

\* Every report that waits is settled in the end: sent, or marked as failed where an
\* officer can see it; no month is left half delivered.
PendingIsSettled == \A row \in Rows : (report[row] = "pending") ~> (report[row] # "pending")
-----------------------------------------------------------------------------
\* "Both are idempotent, so a restart mid-run costs nothing" (README.md:502): a tick
\* that has taken a month's snapshots gets that month's digest out, if need be in a
\* later tick.
DigestGoesOut ==
    \A p \in Periods :
        (\E x \in Runners : At(x, "digest") /\ runs[x].period = p) ~> (p \in digested)
=============================================================================

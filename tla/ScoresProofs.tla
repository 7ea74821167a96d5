---------------------------- MODULE ScoresProofs ----------------------------
(***************************************************************************)
(* Theorems about the Matrix and about the monthly reports of its scores:  *)
(* for any number of members, periods and runs of the reports, and for any *)
(* rules, events and contributions.                                        *)
(***************************************************************************)
EXTENDS Reports, Matrix, FiniteSetTheorems, TLAPS


InFlight(x) == At(x, "send") \/ At(x, "mark")
Delivered(x) == At(x, "mark") /\ runs[x].delivered

\* No mail reached the member, or one did of which the row never learned.
Untold(row) == inbox[row] = 0 \/ row \in unsure

\* A row is claimed by one batch, and waits until that batch marks it.
ClaimsAreExclusive ==
    \A x, y \in Runners :
        InFlight(x) /\ InFlight(y) /\ runs[x].row = runs[y].row => x = y
ClaimsArePending == \A x \in Runners : InFlight(x) => report[runs[x].row] = "pending"

\* Where a mail is known to have gone out, the row says so or is about to.
DeliveredWasMailed == \A x \in Runners : Delivered(x) => inbox[runs[x].row] > 0
MailIsKnown ==
    \A row \in Rows : \/ report[row] = "sent"
                      \/ Untold(row)
                      \/ \E x \in Runners : Delivered(x) /\ runs[x].row = row

ReportsInv ==
    /\ TypeOK
    /\ ClaimsAreExclusive
    /\ ClaimsArePending
    /\ DeliveredWasMailed
    /\ MailIsKnown
    /\ SentWasMailed
    /\ MailedTwiceOnlyWhenUnsure

-----------------------------------------------------------------------------
\* What a runner holds at each point of its run.
LEMMA RunFields ==
    ASSUME TypeOK, NEW x \in Runners
    PROVE  /\ At(x, "snapshot") => runs[x].period \in Periods
           /\ At(x, "digest") => runs[x].period \in Periods
           /\ At(x, "claim") => runs[x].period \in Periods /\ runs[x].attempted \in 0 .. Limit
           /\ InFlight(x) => runs[x].row \in Rows /\ runs[x].attempted \in 0 .. Limit
           /\ At(x, "mark") => runs[x].delivered \in BOOLEAN
  BY DEF TypeOK, At, InFlight, Run

\* A runner that moves on leaves the others where they are.
LEMMA GoToMoves ==
    ASSUME TypeOK, NEW x \in Runners, NEW run \in Run \cup {None}, GoTo(x, run)
    PROVE  /\ runs' \in [Runners -> Run \cup {None}]
           /\ runs'[x] = run
           /\ \A y \in Runners \ {x} : runs'[y] = runs[y]
  BY DEF TypeOK, GoTo

\* A step that claims nothing, mails nobody and settles no report keeps the invariant.
LEMMA QuietStep ==
    ASSUME ReportsInv, TypeOK', UNCHANGED <<inbox, unsure>>,
           \A x \in Runners : InFlight(x)' => InFlight(x) /\ runs'[x] = runs[x],
           \A x \in Runners : Delivered(x) => Delivered(x)' /\ runs'[x] = runs[x],
           \A row \in Rows : report[row] # report'[row] =>
               /\ report[row] # "sent" /\ report'[row] # "sent"
               /\ \A x \in Runners : InFlight(x)' => runs[x].row # row
    PROVE  ReportsInv'
<1>1. ClaimsAreExclusive'
  BY DEF ReportsInv, ClaimsAreExclusive
<1>2. ClaimsArePending'
  BY RunFields DEF ReportsInv, ClaimsArePending
<1>3. DeliveredWasMailed'
  BY DEF ReportsInv, DeliveredWasMailed, Delivered, InFlight, At
<1>4. MailIsKnown'
  BY DEF ReportsInv, MailIsKnown, Untold
<1>5. SentWasMailed' /\ MailedTwiceOnlyWhenUnsure'
  BY DEF ReportsInv, SentWasMailed, MailedTwiceOnlyWhenUnsure
<1>6. QED  BY <1>1, <1>2, <1>3, <1>4, <1>5 DEF ReportsInv

\* The statuses a step may leave behind, whatever it does to the rest.
StatusSteps ==
    \A row \in Rows : /\ report[row] # "none" => report'[row] # "none"
                      /\ report[row] = "sent" => report'[row] = "sent"

-----------------------------------------------------------------------------
\* A runner that goes anywhere but to a claimed row, and did not hold one.
LEMMA IdleMove ==
    ASSUME ReportsInv, NEW x \in Runners, NEW run \in Run \cup {None}, GoTo(x, run),
           ~InFlight(x), run = None \/ run.at \notin {"send", "mark"}
    PROVE  /\ \A y \in Runners : InFlight(y)' => InFlight(y) /\ runs'[y] = runs[y]
           /\ \A y \in Runners : Delivered(y) => Delivered(y)' /\ runs'[y] = runs[y]
<1>1. runs'[x] = run /\ \A y \in Runners \ {x} : runs'[y] = runs[y]
  BY GoToMoves DEF ReportsInv
<1>2. ~InFlight(x)' /\ ~Delivered(x)
  BY <1>1 DEF InFlight, Delivered, At
<1>3. QED  BY <1>1, <1>2 DEF InFlight, Delivered, At

\* New snapshots are pending, where there was no row.
LEMMA NewSnapshots ==
    ASSUME ReportsInv, NEW period \in Periods, report' = WithSnapshots(period)
    PROVE  /\ report' \in [Rows -> {"none", "pending", "sent", "failed"}]
           /\ \A row \in Rows : report'[row] # report[row] =>
                 report[row] = "none" /\ report'[row] = "pending"
           /\ StatusSteps
           /\ \A x \in Runners, row \in Rows :
                 InFlight(x) /\ report[row] # report'[row] => runs[x].row # row
<1>1. report \in [Rows -> {"none", "pending", "sent", "failed"}]
  BY DEF ReportsInv, TypeOK
<1>2. \A row \in Rows : \/ report'[row] = report[row]
                        \/ report[row] = "none" /\ report'[row] = "pending"
  <2> SUFFICES ASSUME NEW row \in Rows
               PROVE  \/ report'[row] = report[row]
                      \/ report[row] = "none" /\ report'[row] = "pending"
    OBVIOUS
  <2>1. report'[row] = IF row[1] = period /\ row[2] \in active /\ report[row] = "none"
                       THEN "pending" ELSE report[row]
    BY DEF WithSnapshots
  <2>2. QED  BY <2>1
<1>3. report' \in [Rows -> {"none", "pending", "sent", "failed"}]
  BY <1>1 DEF WithSnapshots
<1>4. StatusSteps
  BY <1>2 DEF StatusSteps
<1>5. QED  BY <1>2, <1>3, <1>4 DEF ReportsInv, ClaimsArePending

LEMMA StartTickStep ==
    ASSUME ReportsInv, NEW x \in Runners, StartTick(x)
    PROVE  ReportsInv' /\ StatusSteps
<1> DEFINE run == IF first /\ month > 1 THEN [at |-> "snapshot", period |-> PreviousMonth]
                                        ELSE [at |-> "pick"]
<1>1. GoTo(x, run) /\ runs[x] = None
  BY DEF StartTick
<1>2. run \in Run /\ run.at \notin {"send", "mark"}
  BY ReportsAssumption DEF Run, PreviousMonth, Periods, ReportsInv, TypeOK
<1>3. ~InFlight(x)
  BY <1>1 DEF InFlight, At
<1>4. TypeOK'
  BY <1>1, <1>2, GoToMoves DEF StartTick, ReportsInv, TypeOK
<1>5. QED  BY <1>1, <1>2, <1>3, <1>4, IdleMove, QuietStep DEF StartTick, StatusSteps

LEMMA WriteSnapshotsStep ==
    ASSUME ReportsInv, NEW x \in Runners, WriteSnapshots(x)
    PROVE  ReportsInv' /\ StatusSteps
<1> DEFINE period == runs[x].period
           run == IF WithSnapshots(period) # report
                  THEN [at |-> "digest", period |-> period] ELSE [at |-> "pick"]
<1>1. period \in Periods /\ ~InFlight(x)
  BY RunFields DEF WriteSnapshots, ReportsInv, InFlight, At
<1>2. GoTo(x, run) /\ report' = WithSnapshots(period)
  BY DEF WriteSnapshots
<1>3. run \in Run /\ run.at \notin {"send", "mark"}
  BY <1>1 DEF Run
<1>4. /\ \A y \in Runners : InFlight(y)' => InFlight(y) /\ runs'[y] = runs[y]
      /\ \A y \in Runners : Delivered(y) => Delivered(y)' /\ runs'[y] = runs[y]
  BY <1>1, <1>2, <1>3, IdleMove
<1>5. TypeOK'
  BY <1>1, <1>2, <1>3, GoToMoves, NewSnapshots DEF WriteSnapshots, ReportsInv, TypeOK
<1>6. StatusSteps /\ \A row \in Rows : report[row] # report'[row] =>
          /\ report[row] # "sent" /\ report'[row] # "sent"
          /\ \A y \in Runners : InFlight(y)' => runs[y].row # row
  BY <1>1, <1>2, <1>4, NewSnapshots
<1>7. QED  BY <1>4, <1>5, <1>6, QuietStep DEF WriteSnapshots

LEMMA SendDigestStep ==
    ASSUME ReportsInv, NEW x \in Runners, SendDigest(x)
    PROVE  ReportsInv' /\ StatusSteps
<1>1. runs[x].period \in Periods /\ ~InFlight(x)
  BY RunFields DEF SendDigest, ReportsInv, InFlight, At
<1>2. GoTo(x, [at |-> "pick"]) /\ [at |-> "pick"] \in Run
  BY DEF SendDigest, Run
<1>3. TypeOK'
  BY <1>1, <1>2, GoToMoves DEF SendDigest, ReportsInv, TypeOK
<1>4. QED  BY <1>1, <1>2, <1>3, IdleMove, QuietStep DEF SendDigest, StatusSteps

LEMMA PickPeriodStep ==
    ASSUME ReportsInv, NEW x \in Runners, PickPeriod(x)
    PROVE  ReportsInv' /\ StatusSteps
<1>1. PICK run \in {None} \cup {[at |-> "claim", period |-> p, attempted |-> 0] : p \in Periods} :
          GoTo(x, run)
  BY DEF PickPeriod
<1>2. run \in Run \cup {None} /\ (run = None \/ run.at \notin {"send", "mark"})
  BY ReportsAssumption DEF Run
<1>3. ~InFlight(x)
  BY DEF PickPeriod, InFlight, At
<1>4. TypeOK'
  BY <1>1, <1>2, GoToMoves DEF PickPeriod, ReportsInv, TypeOK
<1>5. QED  BY <1>1, <1>2, <1>3, <1>4, IdleMove, QuietStep DEF PickPeriod, StatusSteps

LEMMA EndBatchStep ==
    ASSUME ReportsInv, NEW x \in Runners, EndBatch(x)
    PROVE  ReportsInv' /\ StatusSteps
<1>1. GoTo(x, None) /\ ~InFlight(x)
  BY DEF EndBatch, InFlight, At
<1>2. TypeOK'
  BY <1>1, GoToMoves DEF EndBatch, ReportsInv, TypeOK
<1>3. QED  BY <1>1, <1>2, IdleMove, QuietStep DEF EndBatch, StatusSteps

-----------------------------------------------------------------------------
LEMMA ClaimRowStep ==
    ASSUME ReportsInv, NEW x \in Runners, NEW row \in Rows, ClaimRow(x, row)
    PROVE  ReportsInv' /\ StatusSteps
<1> DEFINE attempted == runs[x].attempted + 1
           sending == [at |-> "send", row |-> row, attempted |-> attempted]
<1>1. /\ At(x, "claim") /\ ~InFlight(x)
      /\ attempted \in 0 .. Limit
      /\ report[row] = "pending"
      /\ \A y \in Runners : InFlight(y) => runs[y].row # row
  BY RunFields, ReportsAssumption
     DEF ClaimRow, Claimable, Claimed, Pending, ReportsInv, InFlight, At
<1>2. CASE row[2] \in HasAccount
  <2>1. GoTo(x, sending) /\ UNCHANGED report
    BY <1>2 DEF ClaimRow
  <2>2. sending \in Run /\ sending.at = "send" /\ sending.row = row
    BY <1>1 DEF Run
  <2>3. runs'[x] = sending /\ \A y \in Runners \ {x} : runs'[y] = runs[y]
    BY <2>1, <2>2, GoToMoves DEF ReportsInv
  <2>4. TypeOK'
    BY <2>1, <2>2, GoToMoves DEF ClaimRow, ReportsInv, TypeOK
  <2>5. /\ InFlight(x)' /\ ~Delivered(x)' /\ ~Delivered(x) /\ runs'[x].row = row
        /\ \A y \in Runners \ {x} : (InFlight(y)' <=> InFlight(y)) /\ (Delivered(y)' <=> Delivered(y))
    BY <1>1, <2>2, <2>3, RunAssumption DEF InFlight, Delivered, At
  <2>6. ClaimsAreExclusive' /\ ClaimsArePending'
    BY <1>1, <2>1, <2>3, <2>5 DEF ReportsInv, ClaimsAreExclusive, ClaimsArePending
  <2>7. DeliveredWasMailed' /\ MailIsKnown'
    BY <2>1, <2>3, <2>5 DEF ClaimRow, ReportsInv, DeliveredWasMailed, MailIsKnown, Untold
  <2>8. SentWasMailed' /\ MailedTwiceOnlyWhenUnsure' /\ StatusSteps
    BY <2>1 DEF ClaimRow, ReportsInv, SentWasMailed, MailedTwiceOnlyWhenUnsure, StatusSteps
  <2>9. QED  BY <2>4, <2>6, <2>7, <2>8 DEF ReportsInv
<1>3. CASE row[2] \notin HasAccount
  <2> DEFINE run == [runs[x] EXCEPT !.attempted = attempted]
  <2>1. GoTo(x, run) /\ report' = [report EXCEPT ![row] = "failed"]
    BY <1>3 DEF ClaimRow, SetStatus
  <2>2. run \in Run /\ run.at = "claim"
    BY <1>1 DEF ReportsInv, TypeOK, Run, At
  <2>3. /\ \A y \in Runners : InFlight(y)' => InFlight(y) /\ runs'[y] = runs[y]
        /\ \A y \in Runners : Delivered(y) => Delivered(y)' /\ runs'[y] = runs[y]
    BY <1>1, <2>1, <2>2, IdleMove
  <2>4. TypeOK'
    BY <2>1, <2>2, GoToMoves DEF ClaimRow, ReportsInv, TypeOK
  <2>5. \A other \in Rows : report[other] # report'[other] =>
            other = row /\ report'[other] = "failed"
    BY <2>1 DEF ReportsInv, TypeOK
  <2>6. \A other \in Rows : report[other] # report'[other] =>
            /\ report[other] # "sent" /\ report'[other] # "sent"
            /\ \A y \in Runners : InFlight(y)' => runs[y].row # other
    BY <1>1, <2>3, <2>5
  <2>7. ReportsInv'
    BY <2>3, <2>4, <2>6, QuietStep DEF ClaimRow
  <2>8. StatusSteps
    BY <1>1, <2>5 DEF StatusSteps
  <2>9. QED  BY <2>7, <2>8
<1>4. QED  BY <1>2, <1>3

\* A mail arrives for one row; the others' inboxes are as they were.
LEMMA OneMailMore ==
    ASSUME TypeOK, NEW row \in Rows, MailArrives(row)
    PROVE  /\ inbox' \in [Rows -> 0 .. 2]
           /\ inbox'[row] > 0
           /\ inbox[row] = 0 => inbox'[row] = 1
           /\ \A other \in Rows : other # row => inbox'[other] = inbox[other]
  BY DEF TypeOK, MailArrives

LEMMA SendReportStep ==
    ASSUME ReportsInv, NEW x \in Runners, SendReport(x)
    PROVE  ReportsInv' /\ StatusSteps
<1> DEFINE row == runs[x].row
           marking(delivered) == [at |-> "mark", row |-> row, delivered |-> delivered,
                                  attempted |-> runs[x].attempted]
<1>1. /\ At(x, "send") /\ InFlight(x) /\ ~Delivered(x)
      /\ row \in Rows /\ runs[x].attempted \in 0 .. Limit
  BY RunFields DEF SendReport, ReportsInv, InFlight, Delivered, At
<1>2. /\ report[row] = "pending"
      /\ Untold(row)
      /\ \A y \in Runners \ {x} : InFlight(y) => runs[y].row # row
  BY <1>1 DEF ReportsInv, ClaimsArePending, ClaimsAreExclusive, MailIsKnown, Delivered, InFlight
<1>3. PICK delivered \in BOOLEAN :
         /\ GoTo(x, marking(delivered))
         /\ \/ MailArrives(row)
            \/ ~delivered /\ UNCHANGED inbox
         /\ \/ unsure' = unsure \cup {row}
            \/ UNCHANGED unsure
         /\ delivered => MailArrives(row) /\ UNCHANGED unsure
         /\ MailArrives(row) /\ ~delivered => unsure' = unsure \cup {row} \/ UNCHANGED inbox
  BY DEF SendReport
<1>4. marking(delivered) \in Run
  BY <1>1 DEF Run
<1>5. /\ runs'[x] = marking(delivered)
      /\ \A y \in Runners \ {x} : runs'[y] = runs[y]
      /\ runs' \in [Runners -> Run \cup {None}]
  BY <1>3, <1>4, GoToMoves DEF ReportsInv
<1>6. /\ InFlight(x)' /\ runs'[x].row = row /\ (Delivered(x)' <=> delivered)
      /\ \A y \in Runners \ {x} : (InFlight(y)' <=> InFlight(y)) /\ (Delivered(y)' <=> Delivered(y))
  BY <1>4, <1>5, RunAssumption DEF InFlight, Delivered, At
<1>7. /\ inbox' \in [Rows -> 0 .. 2]
      /\ \A other \in Rows : other # row => inbox'[other] = inbox[other]
      /\ delivered => inbox'[row] > 0
      /\ inbox'[row] > 1 => row \in unsure'
      /\ ~delivered => inbox'[row] = 0 \/ row \in unsure'
  <2>1. TypeOK /\ MailedTwiceOnlyWhenUnsure
    BY DEF ReportsInv
  <2>2. CASE MailArrives(row)
    <3>1. /\ inbox' \in [Rows -> 0 .. 2]
          /\ inbox'[row] > 0
          /\ inbox[row] = 0 => inbox'[row] = 1
          /\ \A other \in Rows : other # row => inbox'[other] = inbox[other]
      BY <1>1, <2>1, <2>2, OneMailMore
    <3>2. CASE UNCHANGED inbox
      BY <1>2, <1>3, <3>1, <3>2 DEF Untold
    <3>3. CASE ~UNCHANGED inbox
      BY <1>2, <1>3, <2>2, <3>1, <3>3 DEF Untold
    <3>4. QED  BY <3>2, <3>3
  <2>3. CASE ~delivered /\ UNCHANGED inbox
    BY <1>1, <1>2, <1>3, <2>1, <2>3 DEF TypeOK, Untold, MailedTwiceOnlyWhenUnsure
  <2>4. QED  BY <1>3, <2>2, <2>3
<1>8. /\ UNCHANGED report /\ unsure \subseteq unsure' /\ unsure' \subseteq Rows
      /\ unsure' \subseteq unsure \cup {row}
  BY <1>1, <1>3 DEF SendReport, ReportsInv, TypeOK
<1>9. TypeOK'
  BY <1>5, <1>7, <1>8 DEF SendReport, ReportsInv, TypeOK
<1>10. ClaimsAreExclusive' /\ ClaimsArePending'
  BY <1>1, <1>2, <1>5, <1>6, <1>8 DEF ReportsInv, ClaimsAreExclusive, ClaimsArePending
<1>11. DeliveredWasMailed'
  BY <1>2, <1>5, <1>6, <1>7, RunFields
     DEF ReportsInv, DeliveredWasMailed, Delivered, InFlight
<1>12. MailIsKnown'
  <2> SUFFICES ASSUME NEW other \in Rows
               PROVE  \/ report'[other] = "sent"
                      \/ Untold(other)'
                      \/ \E y \in Runners : Delivered(y)' /\ runs'[y].row = other
    BY DEF MailIsKnown
  <2>1. CASE other = row
    BY <1>6, <1>7, <2>1 DEF Untold
  <2>2. CASE other # row
    <3>1. Untold(other) => Untold(other)'
      BY <1>7, <1>8, <2>2 DEF Untold
    <3>2. QED  BY <1>1, <1>5, <1>6, <1>8, <2>2, <3>1 DEF ReportsInv, MailIsKnown
  <2>3. QED  BY <2>1, <2>2
<1>13. SentWasMailed' /\ MailedTwiceOnlyWhenUnsure' /\ StatusSteps
  BY <1>2, <1>7, <1>8
     DEF ReportsInv, SentWasMailed, MailedTwiceOnlyWhenUnsure, StatusSteps
<1>14. QED  BY <1>9, <1>10, <1>11, <1>12, <1>13 DEF ReportsInv

LEMMA MarkReportStep ==
    ASSUME ReportsInv, NEW x \in Runners, MarkReport(x)
    PROVE  ReportsInv' /\ StatusSteps
<1> DEFINE row == runs[x].row
           next == [at |-> "claim", period |-> row[1], attempted |-> runs[x].attempted]
           status == Outcome(runs[x].delivered)
<1>1. /\ At(x, "mark") /\ InFlight(x)
      /\ row \in Rows /\ row[1] \in Periods
      /\ runs[x].attempted \in 0 .. Limit
      /\ runs[x].delivered \in BOOLEAN
  BY RunFields DEF MarkReport, ReportsInv, InFlight, At, Rows
<1>2. /\ report[row] = "pending"
      /\ \A y \in Runners \ {x} : InFlight(y) => runs[y].row # row
      /\ status = "sent" => inbox[row] > 0
      /\ status # "sent" => Untold(row)
      /\ status \in {"sent", "failed"}
  BY <1>1 DEF ReportsInv, ClaimsArePending, ClaimsAreExclusive, DeliveredWasMailed,
              MailIsKnown, Delivered, InFlight, Outcome
<1>3. next \in Run /\ next.at \notin {"send", "mark"}
  BY <1>1 DEF Run
<1>4. GoTo(x, next) /\ report' = [report EXCEPT ![row] = status]
  BY DEF MarkReport, SetStatus
<1>5. /\ runs'[x] = next
      /\ \A y \in Runners \ {x} : runs'[y] = runs[y]
      /\ runs' \in [Runners -> Run \cup {None}]
  BY <1>3, <1>4, GoToMoves DEF ReportsInv
<1>6. /\ ~InFlight(x)' /\ ~Delivered(x)'
      /\ \A y \in Runners \ {x} : (InFlight(y)' <=> InFlight(y)) /\ (Delivered(y)' <=> Delivered(y))
  BY <1>3, <1>5 DEF InFlight, Delivered, At
<1>7. report'[row] = status /\ \A other \in Rows \ {row} : report'[other] = report[other]
  BY <1>1, <1>4 DEF ReportsInv, TypeOK
<1>8. TypeOK'
  BY <1>1, <1>2, <1>4, <1>5 DEF MarkReport, ReportsInv, TypeOK
<1>9. ClaimsAreExclusive' /\ ClaimsArePending'
  BY <1>2, <1>5, <1>6, <1>7, RunFields
     DEF ReportsInv, ClaimsAreExclusive, ClaimsArePending
<1>10. DeliveredWasMailed'
  BY <1>5, <1>6 DEF MarkReport, ReportsInv, DeliveredWasMailed
<1>11. MailIsKnown'
  <2> SUFFICES ASSUME NEW other \in Rows
               PROVE  \/ report'[other] = "sent"
                      \/ Untold(other)'
                      \/ \E y \in Runners : Delivered(y)' /\ runs'[y].row = other
    BY DEF MailIsKnown
  <2>1. CASE other = row
    BY <1>2, <1>7, <2>1 DEF MarkReport, Untold
  <2>2. CASE other # row
    BY <1>5, <1>6, <1>7, <2>2 DEF MarkReport, ReportsInv, MailIsKnown, Untold
  <2>3. QED  BY <2>1, <2>2
<1>12. SentWasMailed' /\ MailedTwiceOnlyWhenUnsure' /\ StatusSteps
  BY <1>2, <1>7
     DEF MarkReport, ReportsInv, SentWasMailed, MailedTwiceOnlyWhenUnsure, StatusSteps
<1>13. QED  BY <1>8, <1>9, <1>10, <1>11, <1>12 DEF ReportsInv

\* A batch that dies lets go of its row; if a mail had gone out, the row is unsure.
LEMMA DiesStep ==
    ASSUME ReportsInv, NEW x \in Runners, Dies(x)
    PROVE  ReportsInv' /\ StatusSteps
<1>1. /\ runs'[x] = None
      /\ \A y \in Runners \ {x} : runs'[y] = runs[y]
      /\ runs' \in [Runners -> Run \cup {None}]
  BY GoToMoves DEF Dies, ReportsInv
<1>2. /\ ~InFlight(x)' /\ ~Delivered(x)'
      /\ \A y \in Runners \ {x} : (InFlight(y)' <=> InFlight(y)) /\ (Delivered(y)' <=> Delivered(y))
  BY <1>1 DEF InFlight, Delivered, At
<1>3. /\ unsure \subseteq unsure' /\ unsure' \subseteq Rows
      /\ Delivered(x) => runs[x].row \in unsure'
      /\ UNCHANGED <<report, inbox>>
  BY RunFields DEF Dies, ReportsInv, TypeOK, Delivered, InFlight
<1>4. TypeOK'
  BY <1>1, <1>3 DEF Dies, ReportsInv, TypeOK
<1>5. ClaimsAreExclusive' /\ ClaimsArePending' /\ DeliveredWasMailed'
  BY <1>1, <1>2, <1>3
     DEF ReportsInv, ClaimsAreExclusive, ClaimsArePending, DeliveredWasMailed
<1>6. MailIsKnown'
  BY <1>1, <1>2, <1>3 DEF ReportsInv, MailIsKnown, Untold
<1>7. SentWasMailed' /\ MailedTwiceOnlyWhenUnsure' /\ StatusSteps
  BY <1>3 DEF ReportsInv, SentWasMailed, MailedTwiceOnlyWhenUnsure, StatusSteps
<1>8. QED  BY <1>4, <1>5, <1>6, <1>7 DEF ReportsInv

LEMMA AdminSnapshotStep ==
    ASSUME ReportsInv, NEW period \in Periods, AdminSnapshot(period)
    PROVE  ReportsInv' /\ StatusSteps
<1>1. report' = WithSnapshots(period) /\ UNCHANGED runs
  BY DEF AdminSnapshot
<1>2. TypeOK'
  BY <1>1, NewSnapshots DEF AdminSnapshot, ReportsInv, TypeOK
<1>3. /\ \A y \in Runners : InFlight(y)' => InFlight(y) /\ runs'[y] = runs[y]
      /\ \A y \in Runners : Delivered(y) => Delivered(y)' /\ runs'[y] = runs[y]
  BY <1>1 DEF InFlight, Delivered, At
<1>4. StatusSteps /\ \A row \in Rows : report[row] # report'[row] =>
          /\ report[row] # "sent" /\ report'[row] # "sent"
          /\ \A y \in Runners : InFlight(y)' => runs[y].row # row
  BY <1>1, <1>3, NewSnapshots
<1>5. QED  BY <1>2, <1>3, <1>4, QuietStep DEF AdminSnapshot

LEMMA RequeueFailedStep ==
    ASSUME ReportsInv, NEW period \in Periods, RequeueFailed(period)
    PROVE  ReportsInv' /\ StatusSteps
<1>1. \A row \in Rows : \/ report'[row] = report[row]
                        \/ report[row] = "failed" /\ report'[row] = "pending"
  BY DEF RequeueFailed, ToRequeue
<1>2. report' \in [Rows -> {"none", "pending", "sent", "failed"}]
  BY DEF RequeueFailed, ReportsInv, TypeOK
<1>3. TypeOK'
  BY <1>2 DEF RequeueFailed, ReportsInv, TypeOK
<1>4. /\ \A y \in Runners : InFlight(y)' => InFlight(y) /\ runs'[y] = runs[y]
      /\ \A y \in Runners : Delivered(y) => Delivered(y)' /\ runs'[y] = runs[y]
  BY DEF RequeueFailed, InFlight, Delivered, At
<1>5. \A row \in Rows : report[row] # report'[row] =>
          /\ report[row] # "sent" /\ report'[row] # "sent"
          /\ \A y \in Runners : InFlight(y)' => runs[y].row # row
  BY <1>1, <1>4 DEF ReportsInv, ClaimsArePending
<1>6. ReportsInv'
  BY <1>3, <1>4, <1>5, QuietStep DEF RequeueFailed
<1>7. StatusSteps
  BY <1>1 DEF StatusSteps
<1>8. QED  BY <1>6, <1>7

\* The calendar, the roll of members and stuttering.
LEMMA ElsewhereStep ==
    ASSUME ReportsInv, UNCHANGED <<report, runs, inbox, unsure>>,
           NextDay \/ NextMonth \/ (\E m \in Members : MembershipChanges(m)) \/ UNCHANGED vars
    PROVE  ReportsInv' /\ StatusSteps
<1>1. TypeOK'
  <2> USE DEF ReportsInv, TypeOK
  <2>1. CASE NextDay
    BY <2>1 DEF NextDay
  <2>2. CASE NextMonth
    <3>1. month' \in Periods
      BY <2>2, ReportsAssumption DEF NextMonth, Periods
    <3>2. QED  BY <2>2, <3>1 DEF NextMonth
  <2>3. CASE \E m \in Members : MembershipChanges(m)
    BY <2>3 DEF MembershipChanges
  <2>4. CASE UNCHANGED vars
    BY <2>4 DEF vars
  <2>5. QED  BY <2>1, <2>2, <2>3, <2>4
<1>2. /\ \A y \in Runners : InFlight(y)' => InFlight(y) /\ runs'[y] = runs[y]
      /\ \A y \in Runners : Delivered(y) => Delivered(y)' /\ runs'[y] = runs[y]
  BY DEF InFlight, Delivered, At
<1>3. QED  BY <1>1, <1>2, QuietStep DEF StatusSteps
-----------------------------------------------------------------------------
LEMMA ReportsInit == Init => ReportsInv
<1> SUFFICES ASSUME Init PROVE ReportsInv
  OBVIOUS
<1>1. TypeOK
  <2>1. month \in Periods
    BY ReportsAssumption DEF Init, Periods
  <2>2. /\ report \in [Rows -> {"none", "pending", "sent", "failed"}]
        /\ runs \in [Runners -> Run \cup {None}]
        /\ inbox \in [Rows -> 0 .. 2]
    BY DEF Init
  <2>3. QED  BY <2>1, <2>2 DEF Init, TypeOK
<1>2. \A x \in Runners : ~InFlight(x) /\ ~Delivered(x)
  BY DEF Init, InFlight, Delivered, At
<1>3. QED
  BY <1>1, <1>2 DEF Init, ReportsInv, ClaimsAreExclusive, ClaimsArePending, DeliveredWasMailed,
                    MailIsKnown, Untold, SentWasMailed, MailedTwiceOnlyWhenUnsure

LEMMA ReportsStep ==
    ASSUME ReportsInv, [Next]_vars
    PROVE  ReportsInv' /\ StatusSteps
<1>1. ASSUME NEW x \in Runners, StartTick(x) \/ Step(x) \/ Dies(x)
      PROVE  ReportsInv' /\ StatusSteps
  BY <1>1, StartTickStep, WriteSnapshotsStep, SendDigestStep, PickPeriodStep, EndBatchStep,
     ClaimRowStep, SendReportStep, MarkReportStep, DiesStep DEF Step
<1>2. CASE Officers
  <2>1. ASSUME NEW m \in Members, MembershipChanges(m)
        PROVE  ReportsInv' /\ StatusSteps
    BY <2>1, ElsewhereStep DEF MembershipChanges
  <2>2. QED  BY <1>2, <2>1, AdminSnapshotStep, RequeueFailedStep DEF Officers
<1>3. CASE NextDay \/ NextMonth \/ UNCHANGED vars
  BY <1>3, ElsewhereStep DEF NextDay, NextMonth, vars
<1>4. QED  BY <1>1, <1>2, <1>3 DEF Next

\* Rows, batches in flight and mailboxes agree in every state.
LEMMA ReportsInvariant == Spec => []ReportsInv
<1>1. ReportsInv /\ [Next]_vars => ReportsInv'
  BY ReportsStep
<1>2. QED  BY <1>1, ReportsInit, PTL DEF Spec

\* Every reachable state of the rows, the runs and the mailboxes is well typed.
THEOREM ReportTypes == Spec => []TypeOK
<1>1. ReportsInv => TypeOK
  BY DEF ReportsInv
<1>2. QED  BY <1>1, ReportsInvariant, PTL

\* A report marked sent did reach its member: the mail goes out before the row is
\* marked (batch.ts:86-106).
THEOREM SentReportsWereMailed == Spec => []SentWasMailed
<1>1. ReportsInv => SentWasMailed
  BY DEF ReportsInv
<1>2. QED  BY <1>1, ReportsInvariant, PTL

\* Whatever the batches, restarts and requeues do, nobody is written to twice about a
\* month unless a mail went out of which its row never learned.
THEOREM ReportsReachOnce == Spec => []MailedTwiceOnlyWhenUnsure
<1>1. ReportsInv => MailedTwiceOnlyWhenUnsure
  BY DEF ReportsInv
<1>2. QED  BY <1>1, ReportsInvariant, PTL

\* No step takes a snapshot away, or makes a report that was sent anything else.
THEOREM SentReportsStaySent == Spec => SentIsFinal
<1>1. ReportsInv /\ [Next]_vars => ReportsInv'
  BY ReportsStep
<1>2. ReportsInv /\ [Next]_vars =>
         [\A row \in Rows : /\ report[row] # "none" => report'[row] # "none"
                            /\ report[row] = "sent" => report'[row] = "sent"]_vars
  BY ReportsStep DEF StatusSteps
<1>3. QED  BY <1>1, <1>2, ReportsInit, PTL DEF Spec, SentIsFinal

-----------------------------------------------------------------------------
(***************************************************************************)
(* The Matrix: what a member is measured against.                          *)
(***************************************************************************)
\* The events within a member's time are as they were.
SameEvents(m, asOf) ==
    \A e \in EventIds : events'[e] # events[e] => OutsideTime(e, m, asOf)

\* And so is what he was marked at them.
SameInTime(m, asOf) ==
    /\ contributions' = contributions
    /\ \A e \in Touched : OutsideTime(e, m, asOf)

\* The events held within the time of a member are those that were.
LEMMA HeldInTime ==
    ASSUME NEW m \in MemberIds, NEW asOf, SameEvents(m, asOf), NEW r
    PROVE  /\ HeldFor(r, m, asOf)' = HeldFor(r, m, asOf)
           /\ \A e \in HeldFor(r, m, asOf) : events'[e] = events[e]
<1>1. ASSUME NEW e \in EventIds, events'[e] # events[e]
      PROVE  /\ events[e] # Null => ~Within(m, events[e].date, asOf)
             /\ events'[e] # Null => ~Within(m, events'[e].date, asOf)
    BY <1>1 DEF SameEvents, OutsideTime, Within
<1>2. \A e \in HeldFor(r, m, asOf) : events'[e] = events[e]
    BY <1>1 DEF HeldFor, Held
<1>3. \A e : e \in HeldFor(r, m, asOf)' <=> e \in HeldFor(r, m, asOf)
    BY <1>1 DEF HeldFor, Held, Within
<1> QED
    BY <1>2, <1>3

\* What was marked at an event within the member's time stands.
LEMMA MarksInTime ==
    ASSUME NEW m \in MemberIds, NEW asOf, SameInTime(m, asOf), NEW r
    PROVE  /\ SameEvents(m, asOf)
           /\ \A e \in HeldFor(r, m, asOf) : attendance'[m][e] = attendance[m][e]
<1>1. ASSUME NEW e \in EventIds, e \in Touched
      PROVE  events[e] # Null => ~Within(m, events[e].date, asOf)
    BY <1>1 DEF SameInTime, OutsideTime, Within
<1>2. SameEvents(m, asOf)
    BY DEF SameInTime, SameEvents, Touched
<1>3. \A e \in HeldFor(r, m, asOf) : attendance'[m][e] = attendance[m][e]
    BY <1>1 DEF HeldFor, Held, Touched
<1> QED
    BY <1>2, <1>3

\* So are the weddings,
LEMMA WeddingsInTime ==
    ASSUME NEW m \in MemberIds, NEW asOf, SameEvents(m, asOf), NEW r
    PROVE  Weddings(r, m, asOf)' = Weddings(r, m, asOf)
<1>1. ASSUME NEW e \in EventIds, events'[e] # events[e]
      PROVE  /\ events[e] # Null => ~Within(m, events[e].date, asOf)
             /\ events'[e] # Null => ~Within(m, events'[e].date, asOf)
    BY <1>1 DEF SameEvents, OutsideTime, Within
<1>2. \A e : e \in Weddings(r, m, asOf)' <=> e \in Weddings(r, m, asOf)
    BY <1>1 DEF Weddings, Held, Within
<1> QED
    BY <1>2

\* what a rolling window counts,
LEMMA RollingInTime ==
    ASSUME NEW m \in MemberIds, NEW asOf, SameEvents(m, asOf), NEW r
    PROVE  Rolling(r, m, asOf)' = Rolling(r, m, asOf)
<1>1. \A e : e \in Rolling(r, m, asOf)' <=> e \in Rolling(r, m, asOf)
    BY HeldInTime DEF Rolling
<1> QED
    BY <1>1

\* the last occurrences,
LEMMA LastOccurrencesInTime ==
    ASSUME NEW m \in MemberIds, NEW asOf, SameEvents(m, asOf), NEW r
    PROVE  LastOccurrences(r, m, asOf)' = LastOccurrences(r, m, asOf)
<1> DEFINE Earlier(e) == {f \in HeldFor(r, m, asOf) :
               \/ events[f].date > events[e].date
               \/ (events[f].date = events[e].date /\ f < e)}
<1>1. LastOccurrences(r, m, asOf) =
          {e \in HeldFor(r, m, asOf) : Cardinality(Earlier(e)) < Rule[r].value}
    BY DEF LastOccurrences, First
<1>2. LastOccurrences(r, m, asOf)' =
          {e \in HeldFor(r, m, asOf)' : Cardinality(Earlier(e)') < Rule[r].value}
    BY DEF LastOccurrences, First
<1>3. \A e \in HeldFor(r, m, asOf) : Earlier(e)' = Earlier(e)
    BY HeldInTime
<1> HIDE DEF Earlier
<1> QED
    BY <1>1, <1>2, <1>3, HeldInTime

\* and the days of the last series.
LEMMA LastSeriesInTime ==
    ASSUME NEW m \in MemberIds, NEW asOf, SameEvents(m, asOf), NEW r
    PROVE  LastSeries(r, m, asOf)' = LastSeries(r, m, asOf)
<1> DEFINE days == HeldFor(r, m, asOf)
           Days(s) == {events[e].date : e \in {d \in days : SeriesOf(d) = s}}
           series == {SeriesOf(e) : e \in days}
           Earlier(s) == {t \in series : \/ Max(Days(t)) > Max(Days(s))
                                         \/ (Max(Days(t)) = Max(Days(s)) /\ t < s)}
           last == {s \in series : Cardinality(Earlier(s)) < Rule[r].value}
<1>1. LastSeries(r, m, asOf) = {e \in days : SeriesOf(e) \in last}
    BY DEF LastSeries, First
<1>2. LastSeries(r, m, asOf)' = {e \in days' : SeriesOf(e)' \in last'}
    BY DEF LastSeries, First
<1>3. days' = days /\ \A e \in days : events'[e] = events[e]
    BY HeldInTime
<1>4. \A e \in days : SeriesOf(e)' = SeriesOf(e)
    BY <1>3 DEF SeriesOf
<1> HIDE DEF days
<1>5. ASSUME NEW s PROVE Days(s)' = Days(s)
    BY <1>3, <1>4
<1>6. series' = series
    BY <1>3, <1>4
<1> HIDE DEF Days, series
<1>7. ASSUME NEW s PROVE Earlier(s)' = Earlier(s)
    BY <1>5, <1>6
<1> HIDE DEF Earlier
<1>8. last' = last
    BY <1>6, <1>7
<1> HIDE DEF last
<1> QED
    BY <1>1, <1>2, <1>3, <1>4, <1>8

-----------------------------------------------------------------------------
\* Money is counted by the table of contributions alone.
LEMMA DrawnStands ==
    ASSUME contributions' = contributions, NEW r, NEW m
    PROVE  Drawn(r)' = Drawn(r) /\ Of(m, Drawn(r))' = Of(m, Drawn(r))
<1>1. Recorded' = Recorded
    BY DEF Recorded
<1>2. Drawn(r)' = Drawn(r)
    BY <1>1 DEF Drawn
<1> QED
    BY <1>2 DEF Of

\* While no contribution changes, what was paid stands,
LEMMA PaidStands ==
    ASSUME contributions' = contributions, NEW r, NEW m, NEW asOf, NEW x
    PROVE  /\ AffiliationPaid(r, m, asOf)' <=> AffiliationPaid(r, m, asOf)
           /\ MonthPaid(r, m, x)' <=> MonthPaid(r, m, x)
           /\ WeddingPaid(r, m, x)' <=> WeddingPaid(r, m, x)
<1> DEFINE years == {p \in Of(m, Drawn(r)) : /\ contributions[p].year = YearOf(asOf)
                                             /\ contributions[p].date <= asOf}
           months == {p \in Of(m, Drawn(r)) : contributions[p].month = x}
           weddings == {p \in Of(m, Drawn(r)) : contributions[p].event = x}
<1>1. years' = years /\ months' = months /\ weddings' = weddings
    BY DrawnStands
<1> DEFINE enough == Config.affiliation <= SumOf(years)
           monthPaid == IF Config.partial THEN SumOf(months) > 0 ELSE SumOf(months) >= Config.monthly
           wedding == SumOf(weddings) > 0 /\ SumOf(weddings) >= LeastFloor(Rule[r].draws)
<1>2. /\ AffiliationPaid(r, m, asOf) <=> enough
      /\ MonthPaid(r, m, x) <=> monthPaid
      /\ WeddingPaid(r, m, x) <=> wedding
    BY DEF AffiliationPaid, MonthPaid, WeddingPaid
<1>3. /\ AffiliationPaid(r, m, asOf)' <=> enough'
      /\ MonthPaid(r, m, x)' <=> monthPaid'
      /\ WeddingPaid(r, m, x)' <=> wedding'
    BY DEF AffiliationPaid, MonthPaid, WeddingPaid
<1> HIDE DEF years, months, weddings
<1>4. /\ SumOf(years)' = SumOf(years)
      /\ SumOf(months)' = SumOf(months)
      /\ SumOf(weddings)' = SumOf(weddings)
    BY <1>1 DEF SumOf
<1>5. (enough' <=> enough) /\ (monthPaid' <=> monthPaid) /\ (wedding' <=> wedding)
    BY <1>4
<1> QED
    BY <1>2, <1>3, <1>5

\* and what it was toward,
LEMMA KeysStand ==
    ASSUME contributions' = contributions, NEW p
    PROVE  KeyOf(p)' = KeyOf(p)
    BY DEF KeyOf

\* and the last occurrences of a rule,
LEMMA OccurrencesStand ==
    ASSUME contributions' = contributions, NEW r, NEW m, NEW asOf
    PROVE  Occurrences(r, m, asOf)' = Occurrences(r, m, asOf)
<1> DEFINE dated == {p \in Drawn(r) : Within(m, contributions[p].date, asOf)}
           DatesOn(key) == {contributions[p].date : p \in {q \in dated : KeyOf(q) = key}}
           keys == {KeyOf(p) : p \in dated}
           Earlier(key) == {k \in keys : \/ Max(DatesOn(k)) > Max(DatesOn(key))
                                         \/ /\ Max(DatesOn(k)) = Max(DatesOn(key))
                                            /\ Rank(k) < Rank(key)}
           last == {key \in keys : Cardinality(Earlier(key)) < Rule[r].value}
<1>1. Occurrences(r, m, asOf) = last
    BY DEF Occurrences, First
<1>2. Occurrences(r, m, asOf)' = last'
    BY DEF Occurrences, First, Rank
<1>3. dated' = dated
    BY DrawnStands DEF Within
<1> HIDE DEF dated
<1>4. ASSUME NEW key PROVE DatesOn(key)' = DatesOn(key)
    BY <1>3, KeysStand
<1>5. keys' = keys
    BY <1>3, KeysStand
<1> HIDE DEF DatesOn, keys
<1>6. ASSUME NEW key PROVE Earlier(key)' = Earlier(key)
    BY <1>4, <1>5 DEF Rank
<1> HIDE DEF Earlier
<1>7. last' = last
    BY <1>5, <1>6
<1> HIDE DEF last
<1> QED
    BY <1>1, <1>2, <1>7

\* and whether one was paid.
LEMMA OccurrencePaidStands ==
    ASSUME contributions' = contributions, NEW r, NEW m, NEW asOf, NEW key
    PROVE  OccurrencePaid(r, m, key, asOf)' <=> OccurrencePaid(r, m, key, asOf)
<1> DEFINE mine == Of(m, Toward(r, key))
           within == {q \in Toward(r, key) : Within(m, contributions[q].date, asOf)}
           floor == LeastFloor({contributions[p].category : p \in within})
           paid == SumOf(mine) > 0 /\ SumOf(mine) >= floor
<1>1. OccurrencePaid(r, m, key, asOf) <=> paid
    BY DEF OccurrencePaid, Required
<1>2. OccurrencePaid(r, m, key, asOf)' <=> paid'
    BY DEF OccurrencePaid, Required
<1>3. Toward(r, key)' = Toward(r, key)
    BY DrawnStands, KeysStand DEF Toward
<1>4. mine' = mine
    BY <1>3 DEF Of
<1>5. within' = within
    BY <1>3 DEF Within
<1> HIDE DEF mine, within
<1>6. SumOf(mine)' = SumOf(mine)
    BY <1>4 DEF SumOf
<1> DEFINE asked == {contributions[p].category : p \in within}
<1>7. asked' = asked
    BY <1>5
<1> HIDE DEF asked
<1>8. floor = LeastFloor(asked) /\ floor' = LeastFloor(asked)'
    BY DEF asked
<1>9. LeastFloor(asked)' = LeastFloor(asked)
    BY <1>7 DEF LeastFloor
<1> HIDE DEF floor
<1>10. paid' <=> paid
    BY <1>6, <1>8, <1>9
<1> HIDE DEF paid
<1> QED
    BY <1>1, <1>2, <1>10

-----------------------------------------------------------------------------
\* What a rule counts of the events, whatever is paid.
LEMMA EventsCountedInTime ==
    ASSUME NEW m \in MemberIds, NEW asOf, SameEvents(m, asOf), NEW r \in Rules,
           Rule[r].window # "last_n_paid"
    PROVE  Counted(r, m, asOf)' = Counted(r, m, asOf)
<1>1. Rule[r].window \in Windows
    BY MatrixAssumption DEF MatrixRule
<1>2. MonthsCounted(r, m, asOf)' = MonthsCounted(r, m, asOf)
    BY DEF MonthsCounted
<1> QED
    BY <1>1, <1>2, RollingInTime, LastOccurrencesInTime, LastSeriesInTime, WeddingsInTime
       DEF Counted, Windows

\* What a rule counts, and what of it was met, is as it was.
LEMMA CountedInTime ==
    ASSUME NEW m \in MemberIds, NEW asOf, SameInTime(m, asOf), NEW r \in Rules
    PROVE  /\ Counted(r, m, asOf)' = Counted(r, m, asOf)
           /\ \A x \in Counted(r, m, asOf) : Met(r, m, asOf, x)' <=> Met(r, m, asOf, x)
<1>1. contributions' = contributions
    BY DEF SameInTime
<1>2. Rule[r].window \in Windows
    BY MatrixAssumption DEF MatrixRule
<1>3. Counted(r, m, asOf)' = Counted(r, m, asOf)
    <2>1. Occurrences(r, m, asOf)' = Occurrences(r, m, asOf)
        BY <1>1, OccurrencesStand
    <2> QED
        BY <2>1, MarksInTime, EventsCountedInTime DEF Counted
<1>4. ASSUME NEW x \in Counted(r, m, asOf) PROVE Met(r, m, asOf, x)' <=> Met(r, m, asOf, x)
    <2>1. CASE Rule[r].window \in AttendanceWindows
        <3>1. x \in HeldFor(r, m, asOf)
            BY <1>4, <2>1 DEF Counted, AttendanceWindows, Rolling, LastOccurrences, First, LastSeries
        <3>2. attendance'[m][x] = attendance[m][x]
            BY <3>1, MarksInTime
        <3> QED
            BY <2>1, <3>2 DEF Met, Satisfied, AttendanceWindows
    <2>2. CASE Rule[r].window \in {"mandatory", "monthly", "frequency", "last_n_paid"}
        <3>1. /\ AffiliationPaid(r, m, asOf)' <=> AffiliationPaid(r, m, asOf)
              /\ MonthPaid(r, m, x)' <=> MonthPaid(r, m, x)
              /\ WeddingPaid(r, m, x)' <=> WeddingPaid(r, m, x)
              /\ OccurrencePaid(r, m, x, asOf)' <=> OccurrencePaid(r, m, x, asOf)
            BY <1>1, PaidStands, OccurrencePaidStands
        <3> QED
            BY <2>2, <3>1 DEF Met, AttendanceWindows
    <2> QED
        BY <1>2, <2>1, <2>2 DEF Windows, AttendanceWindows
<1> QED
    BY <1>3, <1>4

\* So the items of a member stand.
LEMMA ItemsInTime ==
    ASSUME NEW m \in MemberIds, NEW asOf, SameInTime(m, asOf)
    PROVE  Items(m, asOf)' = Items(m, asOf)
<1>1. ASSUME NEW r \in Rules PROVE Tally(r, m, asOf)' = Tally(r, m, asOf)
    <2> DEFINE counted == Counted(r, m, asOf)
               met == {x \in counted : Met(r, m, asOf, x)}
    <2>1. counted' = counted
        BY CountedInTime
    <2>2. met' = met
        BY CountedInTime
    <2>3. Tally(r, m, asOf) = [item |-> r, total |-> Cardinality(counted),
                               count |-> Cardinality(met)]
        BY DEF Tally
    <2>4. Tally(r, m, asOf)' = [item |-> r, total |-> Cardinality(counted'),
                                count |-> Cardinality(met')]
        BY DEF Tally
    <2> HIDE DEF counted, met
    <2> QED
        BY <2>1, <2>2, <2>3, <2>4
<1>2. {Tally(r, m, asOf) : r \in Rules}' = {Tally(r, m, asOf) : r \in Rules}
    BY <1>1
<1> QED
    BY <1>2 DEF Items

\* A member's items as of a day are the same whatever is recorded, marked or deleted
\* of what was held before he joined or is held after that day: for every set of
\* rules, every calendar and every number of events.  (windows.ts:62-292)
THEOREM OnlyOnesOwnTime == MatrixSpec => OnlyItsTimeCounts
<1>1. [MatrixNext]_matrixVars =>
        [\A m \in MemberIds, asOf \in Snapshots :
           contributions' = contributions /\ (\A e \in Touched : OutsideTime(e, m, asOf)) =>
             Items(m, asOf)' = Items(m, asOf)]_matrixVars
    BY ItemsInTime DEF SameInTime
<1> QED
    BY <1>1, PTL DEF MatrixSpec, OnlyItsTimeCounts

-----------------------------------------------------------------------------
(***************************************************************************)
(* Totals.  A sum over a set is a recursive definition; what is needed of  *)
(* it follows from smallest counterexamples instead of induction.          *)
(***************************************************************************)
\* Among subsets of a finite set there is one that has no other within it.
LEMMA SmallestSet ==
    ASSUME NEW S, IsFiniteSet(S), NEW T \in SUBSET SUBSET S, T # {}
    PROVE  \E x \in T : \A y \in T : y \subseteq x => y = x
<1>1. IsWellFoundedOn(StrictSubsetOrdering(S), SUBSET S)
    BY FS_StrictSubsetOrderingWellFounded, FS_FiniteSubsetsOfFinite
<1>2. PICK x \in T : \A y \in T : <<y, x>> \notin StrictSubsetOrdering(S)
    BY <1>1, WFMin
<1> QED
    BY <1>2 DEF StrictSubsetOrdering

\* Partial sums: what the recursive definition computes for every subset of a set.
Some(s) == CHOOSE x \in s : TRUE
Partial(f, it, s) == IF s = {} THEN 0 ELSE f[Some(s)] + it[s \ {Some(s)}]
Sums(f, it, S) == it = [s \in SUBSET S |-> Partial(f, it, s)]

\* Some element of a set is one of it.
LEMMA SomeOf == ASSUME NEW s, s # {} PROVE Some(s) \in s
    BY DEF Some

\* What partial sums are at a subset.
LEMMA SumsApply ==
    ASSUME NEW f, NEW S, NEW it, Sums(f, it, S), NEW t \in SUBSET S
    PROVE  it[t] = Partial(f, it, t)
    BY DEF Sums

\* Partial sums over two sets agree on what is within both.
LEMMA SumsAgree ==
    ASSUME NEW f, NEW A, NEW B, IsFiniteSet(A), NEW a, NEW b, Sums(f, a, A), Sums(f, b, B),
           NEW t \in SUBSET (A \cap B)
    PROVE  a[t] = b[t]
<1> DEFINE bad == {s \in SUBSET (A \cap B) : a[s] # b[s]}
<1> SUFFICES ASSUME bad # {} PROVE FALSE
    OBVIOUS
<1>1. PICK s \in bad : \A y \in bad : y \subseteq s => y = s
    <2>1. bad \in SUBSET SUBSET A
        OBVIOUS
    <2> HIDE DEF bad
    <2> QED
        BY <2>1, SmallestSet
<1>2. a[s] = Partial(f, a, s) /\ b[s] = Partial(f, b, s)
    BY DEF Sums
<1>3. s # {}
    BY <1>2 DEF Partial
<1>4. Some(s) \in s
    BY <1>3, SomeOf
<1>5. a[s \ {Some(s)}] = b[s \ {Some(s)}]
    BY <1>1, <1>4
<1> QED
    BY <1>2, <1>3, <1>5 DEF Partial

\* Over a finite set they exist.
LEMMA SumsExist == ASSUME NEW f, NEW S, IsFiniteSet(S) PROVE \E it : Sums(f, it, S)
<1> DEFINE bad == {s \in SUBSET S : ~\E it : Sums(f, it, s)}
<1> SUFFICES ASSUME bad # {} PROVE FALSE
    OBVIOUS
<1>1. PICK s \in bad : \A y \in bad : y \subseteq s => y = s
    <2>1. bad \in SUBSET SUBSET S
        OBVIOUS
    <2> HIDE DEF bad
    <2> QED
        BY <2>1, SmallestSet
<1> DEFINE G(y) == CHOOSE it : Sums(f, it, y)
           less(y) == y \ {Some(y)}
           Value(y) == IF y = {} THEN 0 ELSE f[Some(y)] + G(less(y))[less(y)]
           h == [y \in SUBSET s |-> Value(y)]
<1>2. ASSUME NEW y \in SUBSET s, y # s PROVE Sums(f, G(y), y)
    BY <1>1, <1>2
<1>3. ASSUME NEW y \in SUBSET s, y # {} PROVE less(y) \in SUBSET s /\ less(y) # s /\ less(y) # y
    BY <1>3, SomeOf
<1>4. ASSUME NEW y \in SUBSET s, y # s PROVE G(y)[y] = h[y]
    <2>1. G(y)[y] = Partial(f, G(y), y)
        <3>1. Sums(f, G(y), y)
            BY <1>2, <1>4
        <3> HIDE DEF G
        <3> QED
            BY <3>1, SumsApply
    <2>2. CASE y = {}
        BY <2>1, <2>2 DEF Partial
    <2>3. CASE y # {}
        <3>1. less(y) \in SUBSET s /\ less(y) # s /\ less(y) \subseteq y
            BY <1>3, <2>3
        <3>2. IsFiniteSet(y)
            BY FS_Subset
        <3>3. Sums(f, G(y), y) /\ Sums(f, G(less(y)), less(y))
            BY <1>2, <1>4, <3>1
        <3>4. less(y) \in SUBSET (y \cap less(y))
            BY <3>1
        <3> HIDE DEF G, less
        <3>5. G(y)[less(y)] = G(less(y))[less(y)]
            BY <3>2, <3>3, <3>4, SumsAgree
        <3>6. Partial(f, G(y), y) = f[Some(y)] + G(y)[less(y)]
            BY <2>3 DEF Partial, less
        <3>7. h[y] = f[Some(y)] + G(less(y))[less(y)]
            BY <2>3
        <3> QED
            BY <2>1, <3>5, <3>6, <3>7
    <2> QED
        BY <2>2, <2>3
<1>5. ASSUME NEW y \in SUBSET s PROVE Value(y) = Partial(f, h, y)
    <2>1. CASE y = {}
        BY <2>1 DEF Partial
    <2>2. CASE y # {}
        <3>1. G(less(y))[less(y)] = h[less(y)]
            BY <1>3, <1>4, <2>2
        <3> HIDE DEF h, G
        <3> QED
            BY <2>2, <3>1 DEF Partial
    <2> QED
        BY <2>1, <2>2
<1>6. Sums(f, h, s)
    <2>1. h = [y \in SUBSET s |-> Partial(f, h, y)]
        <3> HIDE DEF G, less
        <3>1. [y \in SUBSET s |-> Value(y)] = [y \in SUBSET s |-> Partial(f, h, y)]
            <4> HIDE DEF Value, h
            <4> QED BY <1>5
        <3> QED BY <3>1
    <2> HIDE DEF h
    <2> QED
        BY <2>1 DEF Sums
<1> HIDE DEF h
<1> QED
    BY <1>1, <1>6

\* The sum over any set within the one the partial sums are over.
Sum(f, S) == (CHOOSE it : Sums(f, it, S))[S]

\* The total of a function is the sum over its domain.
LEMMA TotalIsSum == ASSUME NEW f PROVE Total(f) = Sum(f, DOMAIN f)
    BY DEF Total, MapThenSumSet, MapThenFoldSet, Sum, Sums, Partial, Some

\* A sum is one term and the sum of the rest.
LEMMA SumStep ==
    ASSUME NEW f, NEW S, IsFiniteSet(S)
    PROVE  Sum(f, S) = IF S = {} THEN 0 ELSE f[Some(S)] + Sum(f, S \ {Some(S)})
<1> DEFINE rest == S \ {Some(S)}
           a == CHOOSE it : Sums(f, it, S)
           b == CHOOSE it : Sums(f, it, rest)
<1>1. Sums(f, a, S)
    BY SumsExist
<1>2. Sums(f, b, rest)
    BY SumsExist, FS_Subset, rest \in SUBSET S
<1>3. Sum(f, S) = a[S] /\ Sum(f, rest) = b[rest]
    BY DEF Sum
<1> HIDE DEF a, b
<1>4. a[S] = Partial(f, a, S)
    BY <1>1 DEF Sums
<1>5. a[rest] = b[rest]
    BY <1>1, <1>2, SumsAgree
<1> QED
    BY <1>3, <1>4, <1>5 DEF Partial

\* A sum of numbers is a number.
LEMMA SumType ==
    ASSUME NEW f, NEW S, IsFiniteSet(S), \A x \in S : f[x] \in Nat
    PROVE  Sum(f, S) \in Nat
<1> DEFINE bad == {s \in SUBSET S : Sum(f, s) \notin Nat}
<1> SUFFICES ASSUME bad # {} PROVE FALSE
    OBVIOUS
<1>1. PICK s \in bad : \A y \in bad : y \subseteq s => y = s
    <2>1. bad \in SUBSET SUBSET S
        OBVIOUS
    <2> HIDE DEF bad
    <2> QED
        BY <2>1, SmallestSet
<1>2. Sum(f, s) = IF s = {} THEN 0 ELSE f[Some(s)] + Sum(f, s \ {Some(s)})
    BY SumStep, FS_Subset
<1>3. s # {}
    BY <1>1, <1>2
<1>4. Some(s) \in s
    BY <1>3, SomeOf
<1>5. Sum(f, s \ {Some(s)}) \in Nat /\ f[Some(s)] \in Nat
    BY <1>1, <1>4
<1> QED
    BY <1>1, <1>2, <1>3, <1>5

\* Any element may be taken out first.
LEMMA SumRemove ==
    ASSUME NEW f, NEW S, IsFiniteSet(S), \A x \in S : f[x] \in Nat, NEW x \in S
    PROVE  Sum(f, S) = f[x] + Sum(f, S \ {x})
<1> DEFINE bad == {s \in SUBSET S : \E z \in s : Sum(f, s) # f[z] + Sum(f, s \ {z})}
<1> SUFFICES ASSUME bad # {} PROVE FALSE
    BY S \in SUBSET S
<1>1. PICK s \in bad : \A y \in bad : y \subseteq s => y = s
    <2>1. bad \in SUBSET SUBSET S
        OBVIOUS
    <2> HIDE DEF bad
    <2> QED
        BY <2>1, SmallestSet
<1>2. PICK z \in s : Sum(f, s) # f[z] + Sum(f, s \ {z})
    BY <1>1
<1>3. IsFiniteSet(s) /\ s \subseteq S
    BY <1>1, FS_Subset
<1> PICK c : c = Some(s)
    OBVIOUS
<1>4. c \in s /\ Sum(f, s) = f[c] + Sum(f, s \ {c})
    BY <1>2, <1>3, SumStep, SomeOf
<1>5. c # z
    BY <1>2, <1>4
<1>6. Sum(f, s \ {c}) = f[z] + Sum(f, (s \ {c}) \ {z})
    <2>1. s \ {c} \notin bad /\ s \ {c} \in SUBSET S /\ z \in s \ {c}
        BY <1>1, <1>2, <1>3, <1>4, <1>5
    <2> QED BY <2>1
<1>7. Sum(f, s \ {z}) = f[c] + Sum(f, (s \ {z}) \ {c})
    <2>1. s \ {z} \notin bad /\ s \ {z} \in SUBSET S /\ c \in s \ {z}
        BY <1>1, <1>2, <1>3, <1>4, <1>5
    <2> QED BY <2>1
<1>8. (s \ {z}) \ {c} = (s \ {c}) \ {z}
    OBVIOUS
<1> PICK rest : rest = Sum(f, (s \ {c}) \ {z})
    OBVIOUS
<1>9. rest \in Nat /\ f[c] \in Nat /\ f[z] \in Nat
    BY <1>2, <1>3, <1>4, SumType, FS_RemoveElement
<1>10. Sum(f, s \ {c}) = f[z] + rest /\ Sum(f, s \ {z}) = f[c] + rest
    BY <1>6, <1>7, <1>8
<1> QED
    BY <1>2, <1>4, <1>9, <1>10

\* What is outside the set does not matter.
LEMMA SumsOfSame ==
    ASSUME NEW f, NEW g, NEW S, IsFiniteSet(S), \A x \in S : f[x] = g[x]
    PROVE  Sum(f, S) = Sum(g, S)
<1> DEFINE bad == {s \in SUBSET S : Sum(f, s) # Sum(g, s)}
<1> SUFFICES ASSUME bad # {} PROVE FALSE
    OBVIOUS
<1>1. PICK s \in bad : \A y \in bad : y \subseteq s => y = s
    <2>1. bad \in SUBSET SUBSET S
        OBVIOUS
    <2> HIDE DEF bad
    <2> QED
        BY <2>1, SmallestSet
<1>2. s \subseteq S /\ IsFiniteSet(s) /\ Sum(f, s) # Sum(g, s)
    BY <1>1, FS_Subset
<1>3. s # {}
    BY <1>2, SumStep
<1> PICK c : c = Some(s)
    OBVIOUS
<1>4. c \in s /\ Sum(f, s) = f[c] + Sum(f, s \ {c}) /\ Sum(g, s) = g[c] + Sum(g, s \ {c})
    BY <1>2, <1>3, SumStep, SomeOf
<1>5. s \ {c} \notin bad /\ s \ {c} \in SUBSET S
    BY <1>1, <1>4
<1> QED
    BY <1>2, <1>4, <1>5

\* The same of totals.
LEMMA TotalType ==
    ASSUME NEW S, IsFiniteSet(S), NEW f \in [S -> Nat]
    PROVE  Total(f) \in Nat
    BY TotalIsSum, SumType

\* Nothing adds up to nothing.
LEMMA TotalEmpty == ASSUME NEW f, DOMAIN f = {} PROVE Total(f) = 0
    BY TotalIsSum, SumStep, FS_EmptySet

\* A total is any one term and the total of the rest.
LEMMA TotalRemove ==
    ASSUME NEW S, IsFiniteSet(S), NEW f \in [S -> Nat], NEW x \in S,
           NEW g \in [S \ {x} -> Nat], \A y \in S \ {x} : g[y] = f[y]
    PROVE  Total(f) = f[x] + Total(g)
<1>1. Total(f) = f[x] + Sum(f, S \ {x})
    BY TotalIsSum, SumRemove
<1>2. Sum(f, S \ {x}) = Sum(g, S \ {x})
    BY SumsOfSame, FS_RemoveElement
<1> QED
    BY <1>1, <1>2, TotalIsSum
-----------------------------------------------------------------------------
(***************************************************************************)
(* The calendar.                                                           *)
(***************************************************************************)
LEMMA LeastNumber ==
    ASSUME NEW T \in SUBSET Nat, T # {}
    PROVE  \E n \in T : \A k \in T : n <= k
<1> PICK N \in T : TRUE
    OBVIOUS
<1> DEFINE below == {n \in T : n <= N}
           segments == {0..n : n \in below}
<1> PICK all : all = 0..N
    OBVIOUS
<1>1. segments \in SUBSET SUBSET all /\ segments # {}
    OBVIOUS
<1>0. IsFiniteSet(all)
    BY FS_Interval, 0 \in Int, N \in Int
<1>2. PICK s \in segments : \A y \in segments : y \subseteq s => y = s
    <2> HIDE DEF segments
    <2> QED
        BY ONLY <1>0, <1>1, SmallestSet
<1>3. PICK n \in below : s = 0..n
    BY <1>2
<1>4. ASSUME NEW k \in T, k < n PROVE FALSE
    <2>1. 0..k \in segments /\ 0..k \subseteq 0..n
        BY <1>3, <1>4
    <2>2. 0..k = 0..n
        BY <1>2, <1>3, <2>1
    <2>3. n \in 0..n /\ n \notin 0..k
        BY <1>4
    <2> QED
        BY <2>2, <2>3
<1> QED
    BY <1>3, <1>4

\* The lengths of the months.
LEMMA DaysInMonth == ASSUME NEW m \in Nat PROVE DaysIn(m) \in 28..31
    BY DEF DaysIn

\* A month begins where the one before it ends.
LEMMA FirstStep ==
    /\ FirstOf[0] = 1
    /\ \A m \in Months : FirstOf[m + 1] = FirstOf[m] + DaysIn(m)
    /\ \A m \in 0..Horizon : FirstOf[m] \in Nat \ {0}
<1> DEFINE days(m) == [k \in 0..(m - 1) |-> DaysIn(k)]
<1>1. ASSUME NEW m \in 0..Horizon
      PROVE  /\ FirstOf[m] = 1 + Total(days(m))
             /\ days(m) \in [0..(m - 1) -> Nat]
             /\ IsFiniteSet(0..(m - 1))
             /\ Total(days(m)) \in Nat
    <2>1. days(m) \in [0..(m - 1) -> Nat]
        BY DaysInMonth
    <2>2. IsFiniteSet(0..(m - 1))
        BY FS_Interval
    <2>3. FirstOf[m] = 1 + Total(days(m))
        BY DEF FirstOf
    <2> HIDE DEF days
    <2> QED
        BY <2>1, <2>2, <2>3, TotalType
<1>2. Horizon \in Nat /\ Horizon > 0
    BY CalendarAssumption
<1>3. FirstOf[0] = 1
    <2>1. DOMAIN days(0) = {}
        OBVIOUS
    <2> HIDE DEF days
    <2> QED
        BY <1>1, <1>2, <2>1, TotalEmpty
<1>4. ASSUME NEW m \in Months PROVE FirstOf[m + 1] = FirstOf[m] + DaysIn(m)
    <2>1. m \in 0..Horizon /\ m + 1 \in 0..Horizon
        BY <1>2 DEF Months
    <2>2. m \in 0..((m + 1) - 1) /\ (0..((m + 1) - 1)) \ {m} = 0..(m - 1)
        BY <2>1
    <2>3. days(m + 1)[m] = DaysIn(m) /\ \A k \in 0..(m - 1) : days(m)[k] = days(m + 1)[k]
        BY <2>1
    <2>4. DaysIn(m) \in Nat
        BY <2>1, DaysInMonth
    <2> HIDE DEF days
    <2>5. Total(days(m + 1)) = DaysIn(m) + Total(days(m))
        <3> PICK f, g, S : f = days(m + 1) /\ g = days(m) /\ S = 0..((m + 1) - 1)
            OBVIOUS
        <3>1. IsFiniteSet(S) /\ f \in [S -> Nat] /\ m \in S /\ g \in [S \ {m} -> Nat]
            BY <1>1, <2>1, <2>2
        <3>2. \A k \in S \ {m} : g[k] = f[k]
            BY <2>2, <2>3
        <3>3. Total(f) = f[m] + Total(g)
            BY ONLY <3>1, <3>2, TotalRemove
        <3> QED
            BY <2>3, <3>3
    <2> QED
        BY <1>1, <2>1, <2>4, <2>5
<1>5. ASSUME NEW m \in 0..Horizon PROVE FirstOf[m] \in Nat \ {0}
    <2> HIDE DEF days
    <2> QED BY <1>1
<1> QED
    BY <1>3, <1>4, <1>5

\* Later months begin later.
LEMMA FirstOrder ==
    ASSUME NEW i \in 0..Horizon, NEW j \in 0..Horizon, i <= j
    PROVE  FirstOf[i] <= FirstOf[j]
<1> DEFINE bad == {n \in Nat : n <= Horizon /\ i <= n /\ FirstOf[i] > FirstOf[n]}
<1>0. Horizon \in Nat
    BY CalendarAssumption
<1> SUFFICES ASSUME bad # {} PROVE FALSE
    BY <1>0, FirstStep
<1>1. PICK n \in bad : \A k \in bad : n <= k
    <2>1. bad \in SUBSET Nat
        OBVIOUS
    <2> HIDE DEF bad
    <2> QED
        BY <2>1, LeastNumber
<1>2. n \in Nat /\ n <= Horizon /\ i < n /\ FirstOf[i] > FirstOf[n]
    BY <1>0, <1>1, FirstStep
<1>3. n - 1 \in Months /\ n - 1 \in Nat /\ n - 1 \in 0..Horizon
    BY <1>0, <1>2 DEF Months
<1>4. FirstOf[i] <= FirstOf[n - 1]
    <2>1. n - 1 \notin bad
        BY <1>1, <1>3
    <2> QED
        BY <1>0, <1>2, <1>3, <2>1, FirstStep
<1>5. FirstOf[n] = FirstOf[n - 1] + DaysIn(n - 1) /\ DaysIn(n - 1) \in 28..31
    <2>1. FirstOf[(n - 1) + 1] = FirstOf[n - 1] + DaysIn(n - 1)
        BY <1>3, FirstStep
    <2>2. (n - 1) + 1 = n
        BY <1>2
    <2> QED
        BY <1>3, <2>1, <2>2, DaysInMonth
<1>6. FirstOf[n - 1] \in Nat /\ FirstOf[n] \in Nat /\ FirstOf[i] \in Nat
    BY <1>0, <1>2, <1>3, FirstStep
<1> QED
    BY <1>2, <1>4, <1>5, <1>6

\* The last day of a month the calendar reaches.
LEMMA PeriodEnds ==
    ASSUME NEW k \in Months
    PROVE  /\ k \in 0..Horizon /\ k + 1 \in 0..Horizon /\ k \in Nat
           /\ PeriodEnd(k) \in Dates
           /\ PeriodEnd(k) = FirstOf[k] + DaysIn(k) - 1
           /\ FirstOf[k] \in Nat \ {0}
           /\ DaysIn(k) \in 28..31
<1>1. Horizon \in Nat /\ Horizon > 0
    BY CalendarAssumption
<1>2. k \in 0..Horizon /\ k + 1 \in 0..Horizon /\ k \in Nat /\ Horizon \in 0..Horizon
    BY <1>1 DEF Months
<1>3. FirstOf[k + 1] = FirstOf[k] + DaysIn(k) /\ DaysIn(k) \in 28..31 /\ FirstOf[k] \in Nat \ {0}
    BY <1>2, FirstStep, DaysInMonth
<1>4. FirstOf[k + 1] <= FirstOf[Horizon] /\ FirstOf[Horizon] \in Nat
    BY <1>2, FirstOrder, FirstStep
<1>5. PeriodEnd(Horizon - 1) = FirstOf[Horizon] - 1
    BY <1>1 DEF PeriodEnd
<1> QED
    BY <1>2, <1>3, <1>4, <1>5 DEF PeriodEnd, Dates

\* Every day is in one month.
LEMMA DayInMonth ==
    ASSUME NEW day \in Dates
    PROVE  /\ day \in Nat \ {0}
           /\ MonthOf(day) \in Months
           /\ FirstOf[MonthOf(day)] <= day /\ day <= PeriodEnd(MonthOf(day))
           /\ DayOfMonth(day) \in 1..DaysIn(MonthOf(day))
           /\ YearOf(day) \in Nat
<1>1. Horizon \in Nat /\ Horizon > 0 /\ Horizon \in 0..Horizon /\ FirstYear \in Nat
    BY CalendarAssumption
<1>2. day \in Nat \ {0} /\ day < FirstOf[Horizon]
    <2>1. PeriodEnd(Horizon - 1) = FirstOf[Horizon] - 1 /\ FirstOf[Horizon] \in Nat
        BY <1>1, FirstStep DEF PeriodEnd
    <2> QED
        BY <2>1 DEF Dates
<1> DEFINE later == {n \in Nat : n <= Horizon /\ day < FirstOf[n]}
<1>3. PICK n \in later : \A k \in later : n <= k
    <2>1. later \in SUBSET Nat /\ later # {}
        BY <1>1, <1>2
    <2> HIDE DEF later
    <2> QED
        BY <2>1, LeastNumber
<1>4. n # 0
    BY <1>2, <1>3, FirstStep
<1>5. n - 1 \in Months /\ n - 1 \in Nat /\ (n - 1) + 1 = n /\ n - 1 \in 0..Horizon
    BY <1>1, <1>3, <1>4 DEF Months
<1>6. FirstOf[n - 1] <= day /\ day < FirstOf[(n - 1) + 1]
    <2>1. n - 1 \notin later
        BY <1>3, <1>5
    <2> QED
        BY <1>2, <1>3, <1>5, <2>1, FirstStep
<1>7. \E m \in Months : FirstOf[m] <= day /\ day < FirstOf[m + 1]
    BY <1>5, <1>6
<1> PICK m : m = MonthOf(day)
    OBVIOUS
<1>8. m \in Months /\ FirstOf[m] <= day /\ day < FirstOf[m + 1]
    BY <1>7 DEF MonthOf, MonthOn
<1>9. PeriodEnd(m) = FirstOf[m + 1] - 1 /\ FirstOf[m + 1] \in Nat
    BY <1>8, PeriodEnds, FirstStep DEF PeriodEnd
<1>10. /\ PeriodEnd(m) = FirstOf[m] + DaysIn(m) - 1
       /\ FirstOf[m] \in Nat /\ DaysIn(m) \in 28..31 /\ m \in Nat
    BY <1>8, PeriodEnds
<1>11. DayOfMonth(day) = day - FirstOf[m] + 1 /\ YearOf(day) = FirstYear + m \div 12
    BY DEF DayOfMonth, YearOf, YearOfMonth
<1>12. m \div 12 \in Nat
    BY <1>10
<1> QED
    BY <1>1, <1>2, <1>8, <1>9, <1>10, <1>11, <1>12

\* A day is in no other month.
LEMMA MonthsApart ==
    ASSUME NEW day \in Dates, NEW k \in Months, FirstOf[k] <= day, day <= PeriodEnd(k)
    PROVE  MonthOf(day) = k
<1> PICK m : m = MonthOf(day)
    OBVIOUS
<1>1. /\ m \in Months /\ FirstOf[m] <= day /\ day <= PeriodEnd(m) /\ day \in Nat
    BY DayInMonth
<1>2. /\ m \in Nat /\ m \in 0..Horizon /\ m + 1 \in 0..Horizon
      /\ k \in Nat /\ k \in 0..Horizon /\ k + 1 \in 0..Horizon
    BY <1>1, PeriodEnds
<1>3. /\ PeriodEnd(k) = FirstOf[k + 1] - 1 /\ PeriodEnd(m) = FirstOf[m + 1] - 1
      /\ FirstOf[k] \in Nat /\ FirstOf[m] \in Nat /\ FirstOf[k + 1] \in Nat /\ FirstOf[m + 1] \in Nat
    BY <1>2, FirstStep DEF PeriodEnd
<1>4. ~ m < k
    BY <1>1, <1>2, <1>3, FirstOrder
<1>5. ~ k < m
    BY <1>1, <1>2, <1>3, FirstOrder
<1> QED
    BY <1>2, <1>4, <1>5

\* A window of n months as of the end of a month begins at the latest with the month
\* that many before the next one.
LEMMA WindowReaches ==
    ASSUME NEW k \in Months, NEW n \in Nat, NEW day \in Dates, k < MonthOf(day) + n
    PROVE  RollingStart(n, PeriodEnd(k)) <= day
<1> PICK end, m : end = PeriodEnd(k) /\ m = k - n
    OBVIOUS
<1>1. /\ end \in Dates /\ k \in Nat /\ end = FirstOf[k] + DaysIn(k) - 1
      /\ FirstOf[k] \in Nat \ {0} /\ DaysIn(k) \in 28..31
    BY PeriodEnds
<1>2. MonthOf(end) = k
    <2>1. FirstOf[k] <= end /\ end <= PeriodEnd(k)
        BY <1>1
    <2> QED
        BY <1>1, <2>1, MonthsApart
<1>0. Horizon \in Nat
    BY CalendarAssumption
<1>3. MonthOf(day) \in Months /\ FirstOf[MonthOf(day)] <= day /\ day \in Nat \ {0}
    BY DayInMonth
<1>4. MonthOf(day) \in Nat /\ MonthOf(day) \in 0..Horizon
    BY <1>3, PeriodEnds
<1>5. CASE m < 0
    BY <1>2, <1>3, <1>5 DEF RollingStart, MinusMonths
<1>6. CASE m >= 0
    <2>1. m \in Months /\ m + 1 <= MonthOf(day) /\ m + 1 \in 0..Horizon
        BY <1>0, <1>1, <1>4, <1>6 DEF Months
    <2>2. FirstOf[m + 1] = FirstOf[m] + DaysIn(m) /\ FirstOf[m] \in Nat /\ DaysIn(m) \in Nat
        BY <2>1, FirstStep, PeriodEnds
    <2>3. FirstOf[m + 1] <= FirstOf[MonthOf(day)]
        BY <1>4, <2>1, FirstOrder
    <2>4. DayOfMonth(end) \in Nat
        BY <1>1, DayInMonth
    <2>5. \/ MinusMonths(end, n) = FirstOf[m] - 1 + DayOfMonth(end) /\ DayOfMonth(end) <= DaysIn(m)
          \/ MinusMonths(end, n) = FirstOf[m] - 1 + DaysIn(m)
        BY <1>2, <1>6 DEF MinusMonths
    <2>6. RollingStart(n, end) = MinusMonths(end, n) + 1
        BY DEF RollingStart
    <2>7. FirstOf[MonthOf(day)] \in Nat
        BY <1>4, FirstStep
    <2> QED
        BY <1>3, <2>2, <2>3, <2>4, <2>5, <2>6, <2>7
<1> QED
    BY <1>1, <1>5, <1>6

\* The days the calendar reaches are the first so many.
LEMMA DaysAreNumbers ==
    /\ Dates \subseteq Nat \ {0}
    /\ \A a, b \in Dates : a..b \subseteq Dates
    /\ \A b \in Dates : 1..b \subseteq Dates
<1>1. Horizon - 1 \in Months
    BY CalendarAssumption DEF Months
<1>2. PeriodEnd(Horizon - 1) \in Nat
    BY <1>1, PeriodEnds
<1> QED
    BY <1>2 DEF Dates

\* What is in the calendar was entered by an officer.
EventsDated ==
    \A e \in Held : events[e].date \in Dates /\ events[e].item \in Rules \cup {Null}

\* Rows added for dates of the calendar are dated.
LEMMA AddedEvents ==
    ASSUME NEW dates \in SUBSET Dates, NEW item \in Rules \cup {Null}, NEW type, NEW inSeries,
           EventsDated, AddEvents(dates, item, type, inSeries)
    PROVE  EventsDated'
<1> PICK id \in FreshIds(dates, EventIds \ Held) :
           events' = [e \in EventIds |->
             IF \E d \in dates : id[d] = e
             THEN [item |-> item, type |-> type, date |-> CHOOSE d \in dates : id[d] = e,
                   series |-> IF inSeries THEN id[Min(dates)] ELSE Null]
             ELSE events[e]]
    BY DEF AddEvents
<1> SUFFICES ASSUME NEW e \in EventIds, events'[e] # Null
             PROVE  events'[e].date \in Dates /\ events'[e].item \in Rules \cup {Null}
    BY DEF EventsDated, Held
<1>1. CASE \E d \in dates : id[d] = e
    BY <1>1
<1>2. CASE ~\E d \in dates : id[d] = e
    BY <1>2 DEF EventsDated, Held
<1> QED
    BY <1>1, <1>2

\* No operation leaves an event undated.
LEMMA EventsStayDated == EventsDated /\ [MatrixNext]_matrixVars => EventsDated'
<1> SUFFICES ASSUME EventsDated, [MatrixNext]_matrixVars PROVE EventsDated'
    OBVIOUS
<1>1. ASSUME NEW body \in NewEvents, CreateEvent(body) PROVE EventsDated'
    <2>1. {body.date} \in SUBSET Dates /\ body.item \in Rules \cup {Null}
        BY InputAssumption
    <2>2. AddEvents({body.date}, body.item, body.type, FALSE)
        BY <1>1 DEF CreateEvent
    <2> QED
        BY <2>1, <2>2, AddedEvents
<1>2. ASSUME NEW q \in Recurrences, CreateRecurring(q) PROVE EventsDated'
    <2>1. q.item \in Rules \cup {Null} /\ q.start \in Dates /\ q.end \in Dates
        BY InputAssumption
    <2>2. q.start..q.end \subseteq Dates
        BY <2>1, DaysAreNumbers
    <2>3. DatesOf[q] \subseteq q.start..q.end
        BY DEF DatesOf, RecurringDates, WeeklyDates, MonthlyOrdinalDates
    <2>4. AddEvents(DatesOf[q], q.item, q.type, FALSE)
        BY <1>2 DEF CreateRecurring
    <2> QED
        BY <2>1, <2>2, <2>3, <2>4, AddedEvents
<1>3. ASSUME NEW q \in Novenas, CreateNovena(q) PROVE EventsDated'
    <2> PICK dates : dates = q.start..(q.start + q.days - 1)
        OBVIOUS
    <2>1. dates \subseteq Dates /\ NovenaItem \in Rules \cup {Null}
        BY InputAssumption, MatrixAssumption, DaysAreNumbers
    <2>2. AddEvents(dates, NovenaItem, "other", TRUE)
        BY <1>3 DEF CreateNovena
    <2> QED
        BY <2>1, <2>2, AddedEvents
<1>4. ASSUME NEW e \in EventIds, DeleteEvent(e) PROVE EventsDated'
    BY <1>4 DEF DeleteEvent, EventsDated, Held
<1>5. CASE UNCHANGED events
    BY <1>5 DEF EventsDated, Held
<1>6. \/ \E body \in NewEvents : CreateEvent(body)
      \/ \E q \in Recurrences : CreateRecurring(q)
      \/ \E q \in Novenas : CreateNovena(q)
      \/ \E e \in EventIds : DeleteEvent(e)
      \/ UNCHANGED events
    BY DEF MatrixNext, matrixVars, SaveRegister, Contribute, EditContribution, DeleteContribution
<1> QED
    BY <1>1, <1>2, <1>3, <1>4, <1>5, <1>6

\* Whatever the lengths of the months, a rolling window of n months counts an event at
\* the end of n months, unless the member joined after it.  (windows.ts:46-60)
THEOREM WindowsLeaveNoGap == MatrixSpec => []NoEventFallsBetween
<1>1. EventsDated => NoEventFallsBetween
    <2> SUFFICES ASSUME EventsDated, NEW e \in Held, NEW m \in MemberIds,
                        events[e].item # Null, Joined[m] <= events[e].date,
                        Rule[events[e].item].window = "rolling_months",
                        NEW k \in Months, k >= MonthOf(events[e].date),
                        k < MonthOf(events[e].date) + Rule[events[e].item].value
                 PROVE  e \in Counted(events[e].item, m, PeriodEnd(k))
        BY DEF NoEventFallsBetween
    <2> PICK r, day : r = events[e].item /\ day = events[e].date
        OBVIOUS
    <2>1. r \in Rules /\ day \in Dates /\ Rule[r].value \in Nat
        BY MatrixAssumption DEF EventsDated, MatrixRule
    <2>2. RollingStart(Rule[r].value, PeriodEnd(k)) <= day
        BY <2>1, WindowReaches
    <2>3. day <= PeriodEnd(k)
        <3> PICK n : n = MonthOf(day)
            OBVIOUS
        <3>1. n \in Months /\ day <= PeriodEnd(n) /\ day \in Nat
            BY <2>1, DayInMonth
        <3>2. n + 1 \in 0..Horizon /\ k + 1 \in 0..Horizon /\ n + 1 <= k + 1
            BY <3>1, PeriodEnds
        <3>3. FirstOf[n + 1] <= FirstOf[k + 1] /\ FirstOf[n + 1] \in Nat /\ FirstOf[k + 1] \in Nat
            BY <3>2, FirstOrder, FirstStep
        <3> QED
            BY <3>1, <3>3 DEF PeriodEnd
    <2>4. e \in Rolling(r, m, PeriodEnd(k))
        <3>1. day \in Int
            BY <2>1, DaysAreNumbers
        <3> QED
            BY <2>2, <2>3, <3>1 DEF Rolling, HeldFor, Within
    <2>5. Counted(r, m, PeriodEnd(k)) = Rolling(r, m, PeriodEnd(k))
        BY DEF Counted
    <2> QED
        BY <2>4, <2>5
<1>2. MatrixInit => EventsDated
    BY DEF MatrixInit, EventsDated, Held
<1> QED
    BY <1>1, <1>2, EventsStayDated, PTL DEF MatrixSpec

\* Arithmetic the solver is not left to find.
LEMMA Times ==
    ASSUME NEW a \in Nat, NEW b \in Nat, NEW c \in Nat, a <= b
    PROVE  a * c <= b * c /\ a * c \in Nat /\ b * c \in Nat
<1>1. PICK d \in Nat : b = a + d
    BY b - a \in Nat, b = a + (b - a)
<1>2. b * c = a * c + d * c
    BY <1>1
<1>3. a * c \in Nat /\ d * c \in Nat
    OBVIOUS
<1> QED
    BY <1>2, <1>3

\* A multiple divides.
LEMMA Quotient == ASSUME NEW a \in Nat, NEW n \in Nat \ {0} PROVE (a * n) \div n = a
    OBVIOUS

\* The image of a finite set is finite.
LEMMA ImageFinite ==
    ASSUME NEW S, IsFiniteSet(S), NEW h
    PROVE  IsFiniteSet({h[x] : x \in S})
<1> PICK image, f : image = {h[x] : x \in S} /\ f = [x \in S |-> h[x]]
    OBVIOUS
<1>1. f \in Surjection(S, image)
    BY DEF Surjection
<1>2. IsFiniteSet(image)
    BY ONLY <1>1, IsFiniteSet(S), FS_Surjection
<1> QED
    BY <1>2

\* A sum over the image of a set under h, which tells its elements apart.
LEMMA SumImage ==
    ASSUME NEW S, IsFiniteSet(S), NEW f, NEW g, NEW h, NEW c \in Nat,
           \A x \in S : g[h[x]] \in Nat /\ f[x] = c * g[h[x]],
           \A x, y \in S : h[x] = h[y] => x = y
    PROVE  Sum(f, S) = c * Sum(g, {h[x] : x \in S})
<1> DEFINE Image(s) == {h[x] : x \in s}
           bad == {s \in SUBSET S : Sum(f, s) # c * Sum(g, Image(s))}
<1> SUFFICES ASSUME bad # {} PROVE FALSE
    BY S \in SUBSET S
<1>1. PICK s \in bad : \A y \in bad : y \subseteq s => y = s
    <2>1. bad \in SUBSET SUBSET S
        OBVIOUS
    <2> HIDE DEF bad
    <2> QED
        BY <2>1, SmallestSet
<1>2. s \subseteq S /\ IsFiniteSet(s) /\ Sum(f, s) # c * Sum(g, Image(s))
    BY <1>1, FS_Subset
<1>3. ASSUME NEW t \in SUBSET s PROVE IsFiniteSet(Image(t))
    <2>1. IsFiniteSet(t)
        BY <1>2, FS_Subset
    <2> QED
        BY <2>1, ImageFinite
<1>4. s # {}
    <2>1. Sum(f, {}) = 0 /\ Sum(g, {}) = 0 /\ Image({}) = {}
        BY SumStep, FS_EmptySet
    <2> HIDE DEF Image
    <2>2. c * 0 = 0
        OBVIOUS
    <2> QED
        BY <1>2, <2>1, <2>2
<1> PICK d : d = Some(s)
    OBVIOUS
<1>5. d \in s /\ Sum(f, s) = f[d] + Sum(f, s \ {d})
    BY <1>2, <1>4, SumStep, SomeOf
<1> PICK rest, image : rest = s \ {d} /\ image = Image(s)
    OBVIOUS
<1>6. image \ {h[d]} = Image(rest)
    BY <1>2, <1>5
<1>7. \A z \in image : g[z] \in Nat
    BY <1>2
<1>8. h[d] \in image /\ IsFiniteSet(image)
    BY <1>3, <1>5
<1>9. Sum(g, image) = g[h[d]] + Sum(g, Image(rest))
    <2> HIDE DEF Image
    <2>1. Sum(g, image) = g[h[d]] + Sum(g, image \ {h[d]})
        BY ONLY <1>7, <1>8, SumRemove
    <2> QED
        BY <1>6, <2>1
<1>10. Sum(f, rest) = c * Sum(g, Image(rest))
    BY <1>1, <1>2, <1>5
<1>11. Sum(g, Image(rest)) \in Nat
    <2>1. IsFiniteSet(Image(rest)) /\ \A z \in Image(rest) : g[z] \in Nat
        BY <1>2, <1>3
    <2> HIDE DEF Image
    <2> QED
        BY <2>1, SumType
<1>12. f[d] = c * g[h[d]] /\ g[h[d]] \in Nat
    BY <1>2, <1>5
<1> HIDE DEF Image
<1> PICK a, b : a = g[h[d]] /\ b = Sum(g, Image(rest))
    OBVIOUS
<1>13. c * (a + b) = c * a + c * b
    BY <1>11, <1>12
<1> QED
    BY <1>2, <1>5, <1>9, <1>10, <1>12, <1>13
-----------------------------------------------------------------------------
(***************************************************************************)
(* The scores.                                                             *)
(***************************************************************************)
LEMMA CountedFinite ==
    ASSUME NEW r \in Rules, NEW m, NEW asOf
    PROVE  IsFiniteSet(Counted(r, m, asOf))
<1>1. IsFiniteSet(EventIds) /\ IsFiniteSet(PaymentIds) /\ Rule[r].window \in Windows
    BY MatrixAssumption DEF MatrixRule
<1>2. IsFiniteSet(Months)
    BY CalendarAssumption, FS_Interval DEF Months
<1>3. IsFiniteSet({YearOf(asOf)})
    BY FS_Singleton
<1>4. /\ Rolling(r, m, asOf) \subseteq EventIds
      /\ LastOccurrences(r, m, asOf) \subseteq EventIds
      /\ LastSeries(r, m, asOf) \subseteq EventIds
      /\ Weddings(r, m, asOf) \subseteq EventIds
      /\ MonthsCounted(r, m, asOf) \subseteq Months
    BY DEF Rolling, LastOccurrences, LastSeries, Weddings, HeldFor, Held, First, MonthsCounted
<1>5. IsFiniteSet(Occurrences(r, m, asOf))
    <2> DEFINE dated == {p \in Drawn(r) : Within(m, contributions[p].date, asOf)}
    <2>1. dated \subseteq PaymentIds
        BY DEF Drawn, Recorded
    <2>2. IsFiniteSet(dated)
        BY <1>1, <2>1, FS_Subset
    <2> PICK key : key = [p \in PaymentIds |-> KeyOf(p)]
        OBVIOUS
    <2>3. Occurrences(r, m, asOf) \subseteq {KeyOf(p) : p \in dated}
        BY DEF Occurrences, First
    <2>4. {KeyOf(p) : p \in dated} = {key[p] : p \in dated}
        BY <2>1
    <2> HIDE DEF dated
    <2>5. IsFiniteSet({key[p] : p \in dated})
        BY <2>2, ImageFinite
    <2> QED
        BY <2>3, <2>4, <2>5, FS_Subset
<1>6. \/ Counted(r, m, asOf) \in SUBSET EventIds
      \/ Counted(r, m, asOf) \in SUBSET Months
      \/ Counted(r, m, asOf) = {YearOf(asOf)}
      \/ Counted(r, m, asOf) = Occurrences(r, m, asOf)
    BY <1>1, <1>4 DEF Counted, Windows
<1> QED
    BY <1>1, <1>2, <1>3, <1>5, <1>6, FS_Subset

\* An item that was tallied is of a rule, and had something to count.
LEMMA ItemFields ==
    ASSUME NEW m, NEW asOf, NEW i \in Items(m, asOf)
    PROVE  i.item \in Rules /\ i.total \in Nat \ {0} /\ i = Tally(i.item, m, asOf)
<1>1. PICK r \in Rules : i = Tally(r, m, asOf) /\ i.total > 0
    BY DEF Items
<1>2. i.item = r /\ i.total = Cardinality(Counted(r, m, asOf))
    BY <1>1 DEF Tally
<1>3. i.total \in Nat
    BY <1>2, CountedFinite, FS_CardinalityType
<1> QED
    BY <1>1, <1>2, <1>3

\* Points add up to a number.
LEMMA PointsAreNumbers ==
    ASSUME NEW rules \in SUBSET Rules
    PROVE  Points(rules) \in Nat
<1>1. IsFiniteSet(rules)
    BY MatrixAssumption, FS_Subset
<1>2. [r \in rules |-> Rule[r].points] \in [rules -> Nat]
    BY MatrixAssumption DEF MatrixRule
<1> QED
    BY <1>1, <1>2, TotalType DEF Points

\* Full marks are all the points there are to attain.
LEMMA FullMarks ==
    ASSUME NEW m, NEW asOf, NEW items \in SUBSET Items(m, asOf),
           \A i \in items : i.count = i.total
    PROVE  Attainable(items) \in Nat /\ Score(items) = Parts * Attainable(items)
<1> DEFINE f == [i \in items |-> ItemScore(i)]
           h == [i \in items |-> i.item]
           rules == {i.item : i \in items}
           g == [r \in rules |-> Rule[r].points]
<1>1. rules \in SUBSET Rules
    BY ItemFields
<1>2. Attainable(items) \in Nat /\ Attainable(items) = Sum(g, rules)
    BY <1>1, PointsAreNumbers, TotalIsSum DEF Attainable, Points
<1>3. Score(items) = Sum(f, items)
    BY TotalIsSum DEF Score
<1>4. ASSUME NEW i \in items PROVE ItemScore(i) = Parts * Rule[i.item].points
    <2> PICK p, n : p = Rule[i.item].points /\ n = i.total
        OBVIOUS
    <2>1. p \in Nat /\ n \in Nat \ {0} /\ Rule[i.item].threshold \in 0..100 /\ i.count = n
        BY ItemFields, MatrixAssumption DEF MatrixRule
    <2>2. ThresholdMet(i)
        BY <2>1, Times DEF ThresholdMet
    <2>3. ItemScore(i) = (p * Parts * n) \div n
        BY <2>1, <2>2 DEF ItemScore
    <2>4. p * Parts \in Nat /\ p * Parts = Parts * p
        BY <2>1 DEF Parts
    <2> QED
        BY <2>1, <2>3, <2>4, Quotient
<1>5. IsFiniteSet(items)
    <2> PICK tally : tally = [r \in Rules |-> Tally(r, m, asOf)]
        OBVIOUS
    <2>1. IsFiniteSet({tally[r] : r \in Rules})
        BY MatrixAssumption, ImageFinite
    <2>2. Items(m, asOf) \subseteq {tally[r] : r \in Rules}
        BY DEF Items
    <2> QED
        BY <2>1, <2>2, FS_Subset
<1>6. \A x \in items : g[h[x]] \in Nat /\ f[x] = Parts * g[h[x]]
    BY <1>1, <1>4, MatrixAssumption DEF MatrixRule
<1>7. \A x, y \in items : h[x] = h[y] => x = y
    BY ItemFields
<1>8. rules = {h[x] : x \in items}
    OBVIOUS
<1>9. Parts \in Nat
    BY DEF Parts
<1> HIDE DEF f, g, h, rules
<1>10. Sum(f, items) = Parts * Sum(g, {h[x] : x \in items})
    BY <1>5, <1>6, <1>7, <1>9, SumImage
<1> QED
    BY <1>2, <1>3, <1>8, <1>10

\* No minimum asks more than the points its rules give.
MinimumsFit ==
    /\ Config.overall <= Points(Rules)
    /\ Config.spirituality <= Points(In("spirituality"))
    /\ Config.financial <= Points(In("financial"))

\* A minimum can be reached if it asks no more than there is, and shrinks with it.
MinimumsAttainable == Config.rescale /\ MinimumsFit

\* Full marks reach a minimum that is no more than the points there are.
LEMMA FullMarksReach ==
    ASSUME NEW m, NEW asOf, \A i \in Items(m, asOf) : i.count = i.total,
           NEW rules \in SUBSET Rules, NEW least \in Nat, least <= Points(rules), Config.rescale
    PROVE  Reaches(Items(m, asOf), rules, least)
<1> PICK scored : scored = {i \in Items(m, asOf) : i.item \in rules}
    OBVIOUS
<1> PICK a, p : a = Attainable(scored) /\ p = Points(rules)
    OBVIOUS
<1>1. a \in Nat /\ Score(scored) = Parts * a
    BY FullMarks
<1>2. p \in Nat /\ least <= p
    BY PointsAreNumbers
<1>3. least * a <= p * a /\ least * a \in Nat /\ p * a \in Nat
    BY <1>1, <1>2, Times
<1>4. Parts * a * p >= least * a * Parts /\ Parts * a >= 0
    BY <1>1, <1>2, <1>3 DEF Parts
<1>5. CASE p > 0
    BY <1>1, <1>4, <1>5 DEF Reaches
<1>6. CASE p = 0
    <2>1. least = 0
        BY <1>2, <1>6
    <2> QED
        BY <1>1, <1>4, <1>6, <2>1 DEF Reaches, Parts
<1> QED
    BY <1>2, <1>5, <1>6

\* A member who did all there was to do is not below the threshold, however little of
\* the programme was held: where thresholds are rescaled, and no minimum is more than the
\* points its rules give.  (engine.ts:166-195)
THEOREM FullMarksSuffice ==
    ASSUME MinimumsAttainable PROVE MatrixSpec => []UnheldCostsNothing
<1>1. UnheldCostsNothing
    <2> SUFFICES ASSUME NEW m \in MemberIds, NEW asOf \in Snapshots,
                        \A i \in Items(m, asOf) : i.count = i.total
                 PROVE  Standing(m, asOf) # "below_threshold"
        BY DEF UnheldCostsNothing
    <2>1. /\ Reaches(Items(m, asOf), Rules, Config.overall)
          /\ Reaches(Items(m, asOf), In("spirituality"), Config.spirituality)
          /\ Reaches(Items(m, asOf), In("financial"), Config.financial)
        <3>1. /\ Config.overall \in Nat /\ Config.spirituality \in Nat /\ Config.financial \in Nat
            BY MatrixAssumption DEF Configuration
        <3>2. In("spirituality") \in SUBSET Rules /\ In("financial") \in SUBSET Rules
            BY DEF In
        <3> QED
            BY <3>1, <3>2, FullMarksReach DEF MinimumsAttainable, MinimumsFit
    <2> QED
        BY <2>1 DEF Standing
<1> QED
    BY <1>1, PTL

-----------------------------------------------------------------------------
\* The dates of a recurring event.

\* Sets whose elements pair up have the same size.
LEMMA Bijected ==
    ASSUME NEW S, IsFiniteSet(S), NEW T, NEW f \in [S -> T],
           \A x, y \in S : f[x] = f[y] => x = y, \A t \in T : \E x \in S : f[x] = t
    PROVE  IsFiniteSet(T) /\ Cardinality(T) = Cardinality(S)
<1>1. f \in Surjection(S, T) /\ f \in Injection(S, T)
    BY DEF Surjection, Injection, IsInjective
<1> QED
    BY <1>1, FS_Surjection

\* A whole number of weeks later.
WeeksAfter(n, day) == \E week \in Nat : day = n + 7 * week

\* From a day on, the days of a weekday are the next one and every seventh after it.
LEMMA WeekdaysRepeat ==
    ASSUME NEW start \in Nat, NEW day \in Nat, NEW weekday \in 1..7, start <= day,
           NEW n, n = NextWeekday(start, weekday)
    PROVE  /\ n \in start..(start + 6)
           /\ Weekday(day) = weekday <=> WeeksAfter(n, day)
<1> PICK F : F = FirstWeekday
    OBVIOUS
<1>1. F \in 1..7
    BY CalendarAssumption
<1>2. n = start + ((weekday - (((F + start - 2) % 7) + 1) + 7) % 7)
    BY DEF NextWeekday, Weekday
<1>3. n \in start..(start + 6) /\ (F + n - 2) % 7 = weekday - 1
    BY <1>1, <1>2, Z3
<1>4. Weekday(day) = ((F + day - 2) % 7) + 1
    BY DEF Weekday
<1>5. ASSUME NEW week \in Nat, day = n + 7 * week
      PROVE  (F + day - 2) % 7 = weekday - 1
    BY <1>1, <1>3, <1>5, Z3
<1>6. ASSUME (F + day - 2) % 7 = weekday - 1
      PROVE  WeeksAfter(n, day)
    <2>1. (F + n - 2) % 7 = (F + day - 2) % 7 /\ n \in Int
        BY <1>3, <1>6
    <2>2. (day - n) % 7 = 0
        BY <1>1, <2>1, Z3
    <2> PICK week : week = (day - n) \div 7
        OBVIOUS
    <2>3. day - n = 7 * week /\ week \in Int
        BY <2>1, <2>2, Z3
    <2>4. week \in Nat
        BY <1>3, <2>3
    <2> QED
        BY <2>1, <2>3, <2>4 DEF WeeksAfter
<1>7. Weekday(day) = weekday <=> (F + day - 2) % 7 = weekday - 1
    <2>1. (F + day - 2) % 7 \in Int
        BY <1>1
    <2> QED
        BY <1>4, <2>1
<1> QED
    BY <1>3, <1>5, <1>6, <1>7 DEF WeeksAfter

\* Weekly dates are every occurrence of the weekday in the range.  (admin-events.ts:81-90)
LEMMA WeeklySeries ==
    ASSUME NEW start \in Dates, NEW end \in Dates, NEW weekday \in 1..7, end - start <= 400
    PROVE  WeeklyDates(start, end, weekday) =
             {day \in start..end : IsOccasion(day, weekday, 1..5)}
<1>1. ASSUME NEW day \in start..end
      PROVE  (\E week \in 0..60 : day = NextWeekday(start, weekday) + 7 * week)
                <=> Weekday(day) = weekday
    <2>1. start \in Nat /\ day \in Nat /\ start <= day /\ end \in Nat /\ day <= end
        BY DaysAreNumbers
    <2> PICK n : n = NextWeekday(start, weekday)
        OBVIOUS
    <2>2. n = NextWeekday(start, weekday) /\ weekday \in 1..7
        OBVIOUS
    <2>3. /\ n \in start..(start + 6)
          /\ Weekday(day) = weekday <=> WeeksAfter(n, day)
        BY ONLY <2>1, <2>2, WeekdaysRepeat
    <2>4. ASSUME NEW week \in Nat, day = n + 7 * week PROVE week \in 0..60
        BY <2>1, <2>3, <2>4
    <2>5. (\E week \in 0..60 : day = n + 7 * week) <=> WeeksAfter(n, day)
        <3>1. ASSUME NEW week \in 0..60, day = n + 7 * week PROVE WeeksAfter(n, day)
            BY <3>1, week \in Nat DEF WeeksAfter
        <3>2. ASSUME WeeksAfter(n, day) PROVE \E week \in 0..60 : day = n + 7 * week
            <4>1. PICK week \in Nat : day = n + 7 * week
                BY <3>2 DEF WeeksAfter
            <4> QED
                BY <2>4, <4>1
        <3> QED
            BY <3>1, <3>2
    <2> QED
        BY ONLY <2>2, <2>3, <2>5
<1>2. ASSUME NEW day \in start..end
      PROVE  IsOccasion(day, weekday, 1..5) <=> Weekday(day) = weekday
    <2> PICK d, n : d = DayOfMonth(day) /\ n = DaysIn(MonthOf(day))
        OBVIOUS
    <2>1. day \in Dates
        BY DaysAreNumbers
    <2>2. d \in 1..n /\ n \in 28..31
        BY <2>1, DayInMonth, PeriodEnds
    <2>3. (d + 6) \div 7 \in 1..4 \/ d + 7 > n
        BY <2>2
    <2>4. 1..4 = (1..5) \ {5} /\ 5 \in 1..5
        OBVIOUS
    <2> QED
        BY <2>3, <2>4 DEF IsOccasion
<1> QED
    BY <1>1, <1>2 DEF WeeklyDates

\* The days of a month that fall on a weekday.
OnWeekday(m, weekday) ==
    {day \in FirstOf[m]..PeriodEnd(m) :
        \E week \in 0..4 : day = NextWeekday(FirstOf[m], weekday) + 7 * week}

\* A day of the month has its weekday for the so-manieth time that its number says.
LEMMA RankInMonth ==
    ASSUME NEW m \in Months, NEW weekday \in 1..7, NEW day \in OnWeekday(m, weekday)
    PROVE  /\ day \in Dates /\ MonthOf(day) = m /\ Weekday(day) = weekday
           /\ Cardinality({d \in OnWeekday(m, weekday) : d <= day}) = (DayOfMonth(day) + 6) \div 7
<1> PICK begin, n : begin = FirstOf[m] /\ n = NextWeekday(begin, weekday)
    OBVIOUS
<1>1. /\ begin \in Nat \ {0} /\ PeriodEnd(m) = begin + DaysIn(m) - 1 /\ DaysIn(m) \in 28..31
      /\ PeriodEnd(m) \in Dates
    BY PeriodEnds
<1>2. day \in Nat /\ begin <= day /\ day <= PeriodEnd(m)
    BY <1>1 DEF OnWeekday
<1>3. day \in Dates
    BY <1>1, <1>2, DaysAreNumbers
<1>4. MonthOf(day) = m
    BY <1>2, <1>3, MonthsApart
<1>5. n \in begin..(begin + 6) /\ Weekday(day) = weekday
    <2>1. WeeksAfter(n, day)
        BY DEF OnWeekday, WeeksAfter
    <2>2. n = NextWeekday(begin, weekday) /\ weekday \in 1..7
        OBVIOUS
    <2> QED
        BY ONLY <1>1, <1>2, <2>1, <2>2, WeekdaysRepeat
<1>6. PICK w \in 0..4 : day = n + 7 * w
    BY DEF OnWeekday
<1>7. (DayOfMonth(day) + 6) \div 7 = w + 1
    BY <1>1, <1>4, <1>5, <1>6 DEF DayOfMonth
<1> DEFINE upto == {d \in OnWeekday(m, weekday) : d <= day}
           f == [k \in 0..w |-> n + 7 * k]
<1>8. f \in [0..w -> upto]
    BY <1>1, <1>2, <1>5, <1>6 DEF OnWeekday
<1>9. \A x, y \in 0..w : f[x] = f[y] => x = y
    BY <1>5
<1>10. \A t \in upto : \E x \in 0..w : f[x] = t
    BY <1>5, <1>6 DEF OnWeekday
<1>11. IsFiniteSet(0..w) /\ Cardinality(0..w) = w + 1
    BY FS_Interval
<1> HIDE DEF f, upto
<1>12. Cardinality(upto) = w + 1
    BY <1>8, <1>9, <1>10, <1>11, Bijected
<1> QED
    BY <1>3, <1>4, <1>5, <1>7, <1>12 DEF upto

\* They are the days of that month and weekday.
LEMMA WeekdaysOfMonth ==
    ASSUME NEW m \in Months, NEW weekday \in 1..7, NEW day \in Dates
    PROVE  day \in OnWeekday(m, weekday) <=> MonthOf(day) = m /\ Weekday(day) = weekday
<1>1. day \in OnWeekday(m, weekday) => MonthOf(day) = m /\ Weekday(day) = weekday
    BY RankInMonth
<1>2. ASSUME MonthOf(day) = m, Weekday(day) = weekday PROVE day \in OnWeekday(m, weekday)
    <2> PICK begin, n : begin = FirstOf[m] /\ n = NextWeekday(begin, weekday)
        OBVIOUS
    <2>1. /\ begin \in Nat \ {0} /\ PeriodEnd(m) = begin + DaysIn(m) - 1 /\ DaysIn(m) \in 28..31
        BY PeriodEnds
    <2>2. begin <= day /\ day <= PeriodEnd(m) /\ day \in Nat
        BY <1>2, DayInMonth
    <2>3. n = NextWeekday(begin, weekday) /\ weekday \in 1..7
        OBVIOUS
    <2>4. n \in begin..(begin + 6) /\ WeeksAfter(n, day)
        BY ONLY <1>2, <2>1, <2>2, <2>3, WeekdaysRepeat
    <2>5. PICK week \in Nat : day = n + 7 * week
        BY <2>4 DEF WeeksAfter
    <2>6. week \in 0..4
        BY <2>1, <2>2, <2>4, <2>5
    <2> QED
        BY <2>1, <2>2, <2>3, <2>5, <2>6 DEF OnWeekday
<1> QED
    BY <1>1, <1>2

\* Which of them a pick is for: the last, or the one of that rank.
LEMMA PickedInMonth ==
    ASSUME NEW m \in Months, NEW weekday \in 1..7, NEW ordinal \in 1..5,
           NEW day \in OnWeekday(m, weekday)
    PROVE  day \in Picked(OnWeekday(m, weekday), ordinal) <=>
             IF ordinal = 5 THEN DayOfMonth(day) + 7 > DaysIn(m)
             ELSE (DayOfMonth(day) + 6) \div 7 = ordinal
<1> PICK all, upto, d : /\ all = OnWeekday(m, weekday) /\ upto = {x \in all : x <= day}
                        /\ d = DayOfMonth(day)
    OBVIOUS
<1>1. day \in Dates /\ MonthOf(day) = m /\ Weekday(day) = weekday
    BY RankInMonth
<1>2. Cardinality(upto) = (d + 6) \div 7
    BY RankInMonth
<1>3. day \in Picked(all, ordinal) <=>
        Cardinality(upto) = IF ordinal = 5 THEN Cardinality(all) ELSE ordinal
    BY DEF Picked
<1>4. CASE ordinal # 5
    BY <1>2, <1>3, <1>4
<1>5. CASE ordinal = 5
    <2>1. /\ FirstOf[m] \in Nat \ {0} /\ PeriodEnd(m) = FirstOf[m] + DaysIn(m) - 1
          /\ DaysIn(m) \in 28..31 /\ PeriodEnd(m) \in Dates
        BY PeriodEnds
    <2>2. d = day - FirstOf[m] + 1 /\ day \in Nat
        BY <1>1, DayInMonth DEF DayOfMonth
    <2>3. IsFiniteSet(all) /\ all \subseteq Nat
        <3>1. all \subseteq FirstOf[m]..PeriodEnd(m)
            BY DEF OnWeekday
        <3>2. IsFiniteSet(FirstOf[m]..PeriodEnd(m))
            <4>1. FirstOf[m] \in Int /\ PeriodEnd(m) \in Int
                BY <2>1
            <4> QED
                BY <4>1, FS_Interval
        <3> QED
            BY <2>1, <3>1, <3>2, FS_Subset
    <2>4. Cardinality(upto) = Cardinality(all) <=> upto = all
        BY <2>3, FS_Subset
    <2>5. ASSUME d + 7 > DaysIn(m), NEW x \in all PROVE x <= day
        <3>1. x \in Nat /\ x <= PeriodEnd(m) /\ FirstOf[m] <= x
            BY <2>1 DEF OnWeekday
        <3> PICK n : n = NextWeekday(FirstOf[m], weekday)
            OBVIOUS
        <3>2. PICK v \in 0..4 : x = n + 7 * v
            BY DEF OnWeekday
        <3>3. PICK w \in 0..4 : day = n + 7 * w
            BY DEF OnWeekday
        <3>4. n \in Int
            <4> PICK begin : begin = FirstOf[m]
                OBVIOUS
            <4>1. begin \in Nat /\ begin <= day
                BY <1>1, <2>1, DayInMonth
            <4>2. n \in begin..(begin + 6)
                BY <2>2, <4>1, WeekdaysRepeat
            <4> QED
                BY <4>1, <4>2
        <3> QED
            BY <2>1, <2>2, <2>5, <3>1, <3>2, <3>3, <3>4
    <2>6. ASSUME d + 7 <= DaysIn(m) PROVE day + 7 \in all
        <3>0. FirstOf[m] <= day
            BY <1>1, DayInMonth
        <3>1. FirstOf[m] <= day + 7 /\ day + 7 <= PeriodEnd(m)
            BY ONLY <2>1, <2>2, <2>6, <3>0
        <3>2. day + 7 \in Dates
            BY <2>1, <2>2, <3>1, DaysAreNumbers
        <3>3. Weekday(day + 7) = Weekday(day)
            <4> PICK F : F = FirstWeekday
                OBVIOUS
            <4>1. F \in 1..7
                BY CalendarAssumption
            <4>2. (F + (day + 7) - 2) % 7 = (F + day - 2) % 7
                BY <2>2, <4>1, Z3
            <4> QED
                BY <4>2 DEF Weekday
        <3>4. MonthOf(day + 7) = m
            BY <3>1, <3>2, MonthsApart
        <3> QED
            BY <1>1, <3>2, <3>3, <3>4, WeekdaysOfMonth
    <2>7. ASSUME d + 7 > DaysIn(m) PROVE upto = all
        BY <2>5, <2>7
    <2>8. ASSUME ~ d + 7 > DaysIn(m) PROVE upto # all
        <3>1. day + 7 \in all /\ ~ day + 7 <= day
            BY <2>1, <2>2, <2>6, <2>8
        <3> QED
            BY <3>1
    <2> QED
        BY <1>3, <1>5, <2>4, <2>7, <2>8
<1> QED
    BY <1>4, <1>5

\* Monthly dates are every occasion in the range, whole months or not.  (admin-events.ts:91-110)
LEMMA MonthlySeries ==
    ASSUME NEW start \in Dates, NEW end \in Dates, NEW weekday \in 1..7,
           NEW ordinals \in SUBSET (1..5)
    PROVE  MonthlyOrdinalDates(start, end, weekday, ordinals) =
             {day \in start..end : IsOccasion(day, weekday, ordinals)}
<1> DEFINE Reached == {m \in Months : m >= MonthOf(start) /\ FirstOf[m] <= end}
<1>1. MonthlyOrdinalDates(start, end, weekday, ordinals) =
        (start..end) \cap UNION {Picked(OnWeekday(m, weekday), ordinal) :
                                   m \in Reached, ordinal \in ordinals}
    BY DEF MonthlyOrdinalDates, OnWeekday
<1>2. ASSUME NEW m \in Months, NEW ordinal, NEW day \in Picked(OnWeekday(m, weekday), ordinal)
      PROVE  day \in OnWeekday(m, weekday)
    BY DEF Picked
<1>3. ASSUME NEW day \in start..end, NEW m \in Reached, NEW ordinal \in ordinals,
             day \in Picked(OnWeekday(m, weekday), ordinal)
      PROVE  IsOccasion(day, weekday, ordinals)
    <2>1. m \in Months /\ day \in OnWeekday(m, weekday)
        BY <1>2, <1>3
    <2>2. MonthOf(day) = m /\ Weekday(day) = weekday
        BY <2>1, RankInMonth
    <2>3. IF ordinal = 5 THEN DayOfMonth(day) + 7 > DaysIn(m)
          ELSE (DayOfMonth(day) + 6) \div 7 = ordinal
        BY <1>3, <2>1, PickedInMonth
    <2> QED
        BY <2>2, <2>3 DEF IsOccasion
<1>4. ASSUME NEW day \in start..end, IsOccasion(day, weekday, ordinals)
      PROVE  \E m \in Reached, ordinal \in ordinals :
                day \in Picked(OnWeekday(m, weekday), ordinal)
    <2> PICK m : m = MonthOf(day)
        OBVIOUS
    <2>1. day \in Dates /\ day \in Nat /\ start \in Nat /\ end \in Nat /\ start <= day /\ day <= end
        BY DaysAreNumbers
    <2>2. m \in Months /\ FirstOf[m] <= day /\ FirstOf[m] \in Nat
        BY <2>1, DayInMonth, PeriodEnds
    <2>3. MonthOf(start) <= m
        <3> PICK k : k = MonthOf(start)
            OBVIOUS
        <3>1. k \in Months /\ FirstOf[k] <= start /\ day <= PeriodEnd(m)
            BY <2>1, DayInMonth
        <3>2. /\ m \in Nat /\ m + 1 \in 0..Horizon /\ k \in Nat /\ k \in 0..Horizon
              /\ FirstOf[k] \in Nat
            BY <2>2, <3>1, PeriodEnds
        <3>3. PeriodEnd(m) = FirstOf[m + 1] - 1 /\ FirstOf[m + 1] \in Nat
            BY <3>2, FirstStep DEF PeriodEnd
        <3>4. ASSUME m + 1 <= k PROVE FALSE
            <4>1. FirstOf[m + 1] <= FirstOf[k]
                BY <3>2, <3>4, FirstOrder
            <4> QED
                BY <2>1, <3>1, <3>2, <3>3, <4>1
        <3> QED
            BY <3>2, <3>4
    <2>4. m \in Reached
        <3>1. m \in Int /\ MonthOf(start) \in Int
            BY <2>2, DayInMonth, PeriodEnds
        <3> QED
            BY <2>1, <2>2, <2>3, <3>1
    <2> HIDE DEF Reached
    <2>5. day \in OnWeekday(m, weekday)
        BY <1>4, <2>1, <2>2, WeekdaysOfMonth DEF IsOccasion
    <2>6. PICK ordinal \in ordinals :
            IF ordinal = 5 THEN DayOfMonth(day) + 7 > DaysIn(m)
            ELSE (DayOfMonth(day) + 6) \div 7 = ordinal
        BY <1>4 DEF IsOccasion
    <2>7. ordinal \in 1..5
        OBVIOUS
    <2>8. day \in Picked(OnWeekday(m, weekday), ordinal)
        BY <2>2, <2>5, <2>6, <2>7, PickedInMonth
    <2> QED
        BY <2>4, <2>8
<1> HIDE DEF Reached
<1> QED
    BY <1>1, <1>3, <1>4

\* The rows added are one for each of the dates.
LEMMA AddedDates ==
    ASSUME NEW dates \in SUBSET Dates, NEW item \in Rules \cup {Null}, NEW type \in EventTypes,
           AddEvents(dates, item, type, FALSE)
    PROVE  {events'[e].date : e \in {f \in EventIds : events'[f] # events[f]}} = dates
<1> PICK id \in FreshIds(dates, EventIds \ Held) :
           events' = [e \in EventIds |->
             IF \E d \in dates : id[d] = e
             THEN [item |-> item, type |-> type, date |-> CHOOSE d \in dates : id[d] = e,
                   series |-> Null]
             ELSE events[e]]
    BY DEF AddEvents
<1>1. /\ id \in [dates -> EventIds \ Held]
      /\ \A x, y \in dates : id[x] = id[y] => x = y
    BY DEF FreshIds
<1>2. ASSUME NEW d \in dates
      PROVE  /\ id[d] \in EventIds
             /\ events'[id[d]] = [item |-> item, type |-> type, date |-> d, series |-> Null]
             /\ events[id[d]] = Null
    <2>1. id[d] \in EventIds \ Held
        BY <1>1
    <2>2. (CHOOSE x \in dates : id[x] = id[d]) = d
        BY <1>1
    <2> QED
        BY <2>1, <2>2 DEF Held
<1>3. ASSUME NEW d \in dates PROVE events'[id[d]] # events[id[d]] /\ events'[id[d]].date = d
    <2>1. [item |-> item, type |-> type, date |-> d, series |-> Null] \in Event
        BY DEF Event
    <2> QED
        BY <1>2, <2>1, MatrixAssumption
<1>4. ASSUME NEW f \in EventIds, events'[f] # events[f] PROVE \E d \in dates : id[d] = f
    <2>1. SUFFICES ASSUME ~ \E d \in dates : id[d] = f PROVE FALSE
        OBVIOUS
    <2> QED
        BY <1>4, <2>1
<1>5. ASSUME NEW f \in EventIds, events'[f] # events[f] PROVE events'[f].date \in dates
    <2>1. PICK d \in dates : id[d] = f
        BY <1>4, <1>5
    <2> QED
        BY <1>3, <2>1
<1>6. ASSUME NEW d \in dates
      PROVE  \E e \in EventIds : events'[e] # events[e] /\ events'[e].date = d
    BY <1>2, <1>3
<1> DEFINE changed == {f \in EventIds : events'[f] # events[f]}
<1>7. \A x \in {events'[e].date : e \in changed} : x \in dates
    BY <1>5
<1>8. ASSUME NEW d \in dates PROVE d \in {events'[e].date : e \in changed}
    <2>1. PICK e \in EventIds : events'[e] # events[e] /\ events'[e].date = d
        BY <1>6
    <2>2. e \in changed
        BY <2>1
    <2> QED
        BY ONLY <2>1, <2>2
<1> QED
    BY <1>7, <1>8

\* Every date of a recurring event is one the calendar of the association knows, and
\* none is left out: for any first weekday and any horizon.  (admin-events.ts:76-124)
THEOREM SeriesAreOccasions == MatrixSpec => SeriesFallOnTheirDays
<1>1. ASSUME NEW q \in Recurrences, CreateRecurring(q)
      PROVE  {events'[e].date : e \in {f \in EventIds : events'[f] # events[f]}} =
               {day \in q.start..q.end :
                  IsOccasion(day, q.weekday, IF q.ordinals = {} THEN 1..5 ELSE q.ordinals)}
    <2>1. /\ q.item \in Rules \cup {Null} /\ q.type \in EventTypes
          /\ q.start \in Dates /\ q.end \in Dates
          /\ q.weekday \in 1..7 /\ q.ordinals \in SUBSET (1..5)
        BY InputAssumption
    <2>2. q.end - q.start <= 400 /\ AddEvents(DatesOf[q], q.item, q.type, FALSE)
        BY <1>1 DEF CreateRecurring
    <2>3. DatesOf[q] = {day \in q.start..q.end :
            IsOccasion(day, q.weekday, IF q.ordinals = {} THEN 1..5 ELSE q.ordinals)}
        BY <2>1, <2>2, WeeklySeries, MonthlySeries DEF DatesOf, RecurringDates
    <2>4. DatesOf[q] \in SUBSET Dates
        BY <2>1, <2>3, DaysAreNumbers
    <2>5. {events'[e].date : e \in {f \in EventIds : events'[f] # events[f]}} = DatesOf[q]
        BY <2>1, <2>2, <2>4, AddedDates
    <2> QED
        BY <2>3, <2>5
<1>2. [MatrixNext]_matrixVars =>
        [\A q \in Recurrences :
           events' # events /\ CreateRecurring(q) =>
             {events'[e].date : e \in {f \in EventIds : events'[f] # events[f]}} =
               {day \in q.start..q.end :
                  IsOccasion(day, q.weekday, IF q.ordinals = {} THEN 1..5 ELSE q.ordinals)}]_matrixVars
    BY <1>1
<1> QED
    BY <1>2, PTL DEF MatrixSpec, SeriesFallOnTheirDays

-----------------------------------------------------------------------------
(***************************************************************************)
(* The types of the tables.                                                *)
(***************************************************************************)
\* An event added has the type of an event.
LEMMA AddedTypes ==
    ASSUME MatrixTypeOK, NEW dates \in SUBSET Dates, NEW item \in Rules \cup {Null},
           NEW type \in EventTypes, NEW inSeries \in BOOLEAN,
           AddEvents(dates, item, type, inSeries)
    PROVE  MatrixTypeOK'
<1> PICK id \in FreshIds(dates, EventIds \ Held) :
           events' = [e \in EventIds |->
             IF \E d \in dates : id[d] = e
             THEN [item |-> item, type |-> type, date |-> CHOOSE d \in dates : id[d] = e,
                   series |-> IF inSeries THEN id[Min(dates)] ELSE Null]
             ELSE events[e]]
    BY DEF AddEvents
<1>1. \A d \in dates : id[d] \in EventIds
    BY DEF FreshIds
<1>2. ASSUME NEW e \in EventIds PROVE events'[e] \in Event \cup {Null}
    <2>1. CASE \E d \in dates : id[d] = e
        <3> PICK day : day = CHOOSE d \in dates : id[d] = e
            OBVIOUS
        <3> PICK series : series = IF inSeries THEN id[Min(dates)] ELSE Null
            OBVIOUS
        <3>1. day \in Dates
            BY <2>1
        <3>2. series \in EventIds \cup {Null}
            <4>0. dates \in SUBSET Nat /\ dates # {}
                BY <2>1, DaysAreNumbers
            <4>1. \E x \in dates : \A y \in dates : x <= y
                BY <4>0, LeastNumber
            <4>2. Min(dates) \in dates
                BY <4>1 DEF Min
            <4> QED
                BY <1>1, <4>2
        <3>3. events'[e] = [item |-> item, type |-> type, date |-> day, series |-> series]
            BY <2>1
        <3>4. [item |-> item, type |-> type, date |-> day, series |-> series] \in Event
            BY ONLY <3>1, <3>2, item \in Rules \cup {Null}, type \in EventTypes DEF Event
        <3> QED
            BY <3>3, <3>4
    <2>2. CASE ~\E d \in dates : id[d] = e
        BY <2>2 DEF MatrixTypeOK
    <2> QED
        BY <2>1, <2>2
<1>3. events' \in [EventIds -> Event \cup {Null}]
    BY <1>2
<1>4. UNCHANGED <<attendance, contributions>>
    BY DEF AddEvents
<1> QED
    BY <1>3, <1>4 DEF MatrixTypeOK

\* A row the schema let through, once normalised, has the type of a contribution.
LEMMA PaymentType ==
    ASSUME NEW m \in MemberIds, NEW body \in NewPayments
    PROVE  Payment(m, body) \in Contribution
<1>1. /\ body.event \in EventIds \cup {Null} /\ body.category \in Categories
      /\ body.amount \in Nat /\ body.date \in Dates
      /\ body.month \in Months \cup {Null} /\ body.year \in Nat \cup {Null}
    BY InputAssumption DEF Field
<1>2. MonthFor(body) \in Months \cup {Null}
    BY <1>1, DayInMonth DEF MonthFor
<1>3. YearFor(body) \in Nat \cup {Null}
    BY <1>1, DayInMonth DEF YearFor
<1> QED
    BY <1>1, <1>2, <1>3 DEF Payment, Contribution

\* Nor does a change of its fields take it away.
LEMMA EditType ==
    ASSUME NEW row \in Contribution, NEW fields \in Edits
    PROVE  [f \in DOMAIN row |-> IF f \in DOMAIN fields THEN fields[f] ELSE row[f]]
              \in Contribution
<1> PICK names : names = {"member", "event", "category", "amount", "month", "year", "date"}
    OBVIOUS
<1> PICK new : new = [f \in names |-> IF f \in DOMAIN fields THEN fields[f] ELSE row[f]]
    OBVIOUS
<1>1. DOMAIN row = names
    BY DEF Contribution
<1>2. \A f \in DOMAIN fields : f \in DOMAIN Field /\ fields[f] \in Field[f]
    BY InputAssumption
<1>3. DOMAIN Field = names \ {"member"}
    BY DEF Field
<1>4. new.member \in MemberIds
    BY <1>2, <1>3 DEF Contribution
<1>5. \A f \in DOMAIN Field : row[f] \in Field[f]
    BY DEF Field, Contribution
<1>6. \A f \in DOMAIN Field : new[f] \in Field[f]
    BY <1>2, <1>3, <1>5
<1>7. new = [member |-> new.member, event |-> new.event, category |-> new.category,
             amount |-> new.amount, month |-> new.month, year |-> new.year, date |-> new.date]
    OBVIOUS
<1> QED
    BY <1>1, <1>4, <1>6, <1>7 DEF Field, Contribution

\* The tables keep the types of their columns.
LEMMA TypesStep == MatrixTypeOK /\ [MatrixNext]_matrixVars => MatrixTypeOK'
<1> SUFFICES ASSUME MatrixTypeOK, [MatrixNext]_matrixVars PROVE MatrixTypeOK'
    OBVIOUS
<1>1. ASSUME NEW body \in NewEvents, CreateEvent(body) PROVE MatrixTypeOK'
    <2>1. {body.date} \in SUBSET Dates /\ body.item \in Rules \cup {Null} /\ body.type \in EventTypes
        BY InputAssumption
    <2> QED
        BY <1>1, <2>1, AddedTypes DEF CreateEvent
<1>2. ASSUME NEW q \in Recurrences, CreateRecurring(q) PROVE MatrixTypeOK'
    <2>1. /\ q.item \in Rules \cup {Null} /\ q.type \in EventTypes
          /\ q.start \in Dates /\ q.end \in Dates /\ q.start..q.end \in SUBSET Dates
        BY InputAssumption, DaysAreNumbers
    <2>2. DatesOf[q] \in SUBSET (q.start..q.end)
        BY DEF DatesOf, RecurringDates, WeeklyDates, MonthlyOrdinalDates
    <2> QED
        BY <1>2, <2>1, <2>2, AddedTypes DEF CreateRecurring
<1>3. ASSUME NEW q \in Novenas, CreateNovena(q) PROVE MatrixTypeOK'
    <2>1. q.start..(q.start + q.days - 1) \in SUBSET Dates
        BY InputAssumption, DaysAreNumbers
    <2> QED
        BY <1>3, <2>1, AddedTypes, MatrixAssumption DEF CreateNovena, EventTypes
<1>4. ASSUME NEW e \in EventIds, DeleteEvent(e) PROVE MatrixTypeOK'
    BY <1>4 DEF DeleteEvent, MatrixTypeOK
<1>5. ASSUME NEW e \in EventIds, NEW entries \in Registers, SaveRegister(e, entries)
      PROVE  MatrixTypeOK'
    <2>1. DOMAIN entries \subseteq MemberIds /\ \A m \in DOMAIN entries : entries[m] \in Statuses
        BY InputAssumption
    <2> QED
        BY <1>5, <2>1 DEF SaveRegister, MatrixTypeOK
<1>6. ASSUME NEW payers \in SUBSET MemberIds, NEW body \in NewPayments, Contribute(payers, body)
      PROVE  MatrixTypeOK'
    <2> PICK id \in FreshIds(payers, PaymentIds \ Recorded) :
               contributions' = [p \in PaymentIds |->
                 IF \E m \in payers : id[m] = p
                 THEN Payment(CHOOSE m \in payers : id[m] = p, body) ELSE contributions[p]]
        BY <1>6 DEF Contribute
    <2>1. ASSUME NEW p \in PaymentIds PROVE contributions'[p] \in Contribution \cup {Null}
        <3>1. CASE \E m \in payers : id[m] = p
            <4> PICK m : m = CHOOSE x \in payers : id[x] = p
                OBVIOUS
            <4>1. m \in MemberIds /\ contributions'[p] = Payment(m, body)
                BY <3>1
            <4> QED
                BY <4>1, PaymentType
        <3> QED
            BY <3>1 DEF MatrixTypeOK
    <2>2. contributions' \in [PaymentIds -> Contribution \cup {Null}]
        BY <2>1
    <2> QED
        BY <1>6, <2>2 DEF Contribute, MatrixTypeOK
<1>7. ASSUME NEW p \in PaymentIds, NEW fields \in Edits, EditContribution(p, fields)
      PROVE  MatrixTypeOK'
    <2> PICK row : row = contributions[p]
        OBVIOUS
    <2>1. row \in Contribution
        BY <1>7 DEF EditContribution, Recorded, MatrixTypeOK
    <2>2. [f \in DOMAIN row |-> IF f \in DOMAIN fields THEN fields[f] ELSE row[f]] \in Contribution
        BY <2>1, EditType
    <2> QED
        BY <1>7, <2>2 DEF EditContribution, MatrixTypeOK
<1>8. ASSUME NEW p \in PaymentIds, DeleteContribution(p) PROVE MatrixTypeOK'
    BY <1>8 DEF DeleteContribution, MatrixTypeOK
<1>9. CASE UNCHANGED matrixVars
    BY <1>9 DEF matrixVars, MatrixTypeOK
<1> QED
    BY <1>1, <1>2, <1>3, <1>4, <1>5, <1>6, <1>7, <1>8, <1>9 DEF MatrixNext

\* The types of the tables.
THEOREM MatrixTypes == MatrixSpec => []MatrixTypeOK
<1>1. MatrixInit => MatrixTypeOK
    BY DEF MatrixInit, MatrixTypeOK
<1> QED
    BY <1>1, TypesStep, PTL DEF MatrixSpec

-----------------------------------------------------------------------------
\* A larger sum: of more terms, none of which is smaller.
LEMMA SumMore ==
    ASSUME NEW S, IsFiniteSet(S), NEW T \in SUBSET S, NEW f, NEW g,
           \A x \in S : f[x] \in Nat, \A x \in T : g[x] \in Nat /\ g[x] <= f[x]
    PROVE  Sum(g, T) <= Sum(f, S)
<1> DEFINE bad == {s \in SUBSET S : ~(Sum(g, s \cap T) <= Sum(f, s))}
<1> SUFFICES ASSUME bad # {} PROVE FALSE
    <2>1. S \in SUBSET S /\ S \cap T = T
        OBVIOUS
    <2> QED
        BY <2>1
<1>1. PICK s \in bad : \A y \in bad : y \subseteq s => y = s
    <2>1. bad \in SUBSET SUBSET S
        OBVIOUS
    <2> HIDE DEF bad
    <2> QED
        BY <2>1, SmallestSet
<1>2. s \in SUBSET S /\ IsFiniteSet(s) /\ ~(Sum(g, s \cap T) <= Sum(f, s))
    BY <1>1, FS_Subset
<1>3. ASSUME s = {} PROVE FALSE
    <2>1. Sum(f, {}) = 0 /\ Sum(g, {}) = 0
        BY SumStep, FS_EmptySet
    <2>2. {} \cap T = {}
        OBVIOUS
    <2> QED
        BY <1>2, <1>3, <2>1, <2>2
<1>4. PICK x \in s : TRUE
    BY <1>3
<1> PICK less : less = s \ {x}
    OBVIOUS
<1>5. Sum(g, less \cap T) <= Sum(f, less)
    <2>1. less \in SUBSET S /\ less \subseteq s /\ less # s
        BY <1>2
    <2> QED
        BY <1>1, <2>1
<1>6. Sum(f, s) = f[x] + Sum(f, less)
    BY <1>2, <1>4, SumRemove
<1>7. Sum(f, less) \in Nat /\ Sum(g, less \cap T) \in Nat /\ f[x] \in Nat
    <2>1. IsFiniteSet(less) /\ IsFiniteSet(less \cap T)
        BY <1>2, FS_Subset
    <2> QED
        BY <1>2, <2>1, SumType
<1>8. CASE x \in T
    <2>1. x \in s \cap T /\ (s \cap T) \ {x} = less \cap T
        BY <1>4, <1>8
    <2>2. IsFiniteSet(s \cap T) /\ \A y \in s \cap T : g[y] \in Nat
        BY <1>2, FS_Subset
    <2>3. Sum(g, s \cap T) = g[x] + Sum(g, less \cap T)
        BY <2>1, <2>2, SumRemove
    <2>4. g[x] \in Nat /\ g[x] <= f[x]
        BY <1>8
    <2> QED
        BY <1>2, <1>5, <1>6, <1>7, <2>3, <2>4
<1>9. CASE x \notin T
    <2>1. s \cap T = less \cap T
        BY <1>9
    <2>2. Sum(g, s \cap T) = Sum(g, less \cap T)
        BY ONLY <2>1
    <2> QED
        BY ONLY <1>2, <1>5, <1>6, <1>7, <2>2
<1> QED
    BY <1>8, <1>9

\* A sum over two parts.
LEMMA SumSplit ==
    ASSUME NEW S, IsFiniteSet(S), NEW T \in SUBSET S, NEW f, \A x \in S : f[x] \in Nat
    PROVE  Sum(f, S) = Sum(f, T) + Sum(f, S \ T)
<1> DEFINE bad == {s \in SUBSET S : Sum(f, s) # Sum(f, s \cap T) + Sum(f, s \ T)}
<1> SUFFICES ASSUME bad # {} PROVE FALSE
    <2>1. S \in SUBSET S /\ S \cap T = T
        OBVIOUS
    <2> QED
        BY <2>1
<1>1. PICK s \in bad : \A y \in bad : y \subseteq s => y = s
    <2>1. bad \in SUBSET SUBSET S
        OBVIOUS
    <2> HIDE DEF bad
    <2> QED
        BY <2>1, SmallestSet
<1>2. s \in SUBSET S /\ IsFiniteSet(s) /\ Sum(f, s) # Sum(f, s \cap T) + Sum(f, s \ T)
    BY <1>1, FS_Subset
<1>3. ASSUME s = {} PROVE FALSE
    <2>1. Sum(f, {}) = 0
        BY SumStep, FS_EmptySet
    <2>2. {} \cap T = {} /\ {} \ T = {}
        OBVIOUS
    <2> QED
        BY <1>2, <1>3, <2>1, <2>2
<1>4. PICK x \in s : TRUE
    BY <1>3
<1> PICK less : less = s \ {x}
    OBVIOUS
<1>5. Sum(f, less) = Sum(f, less \cap T) + Sum(f, less \ T)
    <2>1. less \in SUBSET S /\ less \subseteq s /\ less # s
        BY <1>2
    <2> QED
        BY <1>1, <2>1
<1>6. Sum(f, s) = f[x] + Sum(f, less)
    BY <1>2, <1>4, SumRemove
<1>7. /\ f[x] \in Nat /\ Sum(f, less \cap T) \in Nat /\ Sum(f, less \ T) \in Nat
      /\ IsFiniteSet(s \cap T) /\ IsFiniteSet(s \ T)
    <2>1. /\ IsFiniteSet(less \cap T) /\ IsFiniteSet(less \ T)
          /\ IsFiniteSet(s \cap T) /\ IsFiniteSet(s \ T)
        BY <1>2, FS_Subset
    <2> QED
        BY <1>2, <2>1, SumType
<1>8. CASE x \in T
    <2>1. x \in s \cap T /\ (s \cap T) \ {x} = less \cap T /\ s \ T = less \ T
        BY <1>4, <1>8
    <2>2. Sum(f, s \cap T) = f[x] + Sum(f, less \cap T)
        BY <1>2, <1>7, <2>1, SumRemove
    <2> QED
        BY <1>2, <1>5, <1>6, <1>7, <2>1, <2>2
<1>9. CASE x \notin T
    <2>1. x \in s \ T /\ (s \ T) \ {x} = less \ T /\ s \cap T = less \cap T
        BY <1>4, <1>9
    <2>2. Sum(f, s \ T) = f[x] + Sum(f, less \ T)
        BY <1>2, <1>7, <2>1, SumRemove
    <2>3. Sum(f, s \cap T) = Sum(f, less \cap T)
        BY ONLY <2>1
    <2> QED
        BY ONLY <1>2, <1>5, <1>6, <1>7, <2>2, <2>3
<1> QED
    BY <1>8, <1>9

-----------------------------------------------------------------------------
(***************************************************************************)
(* Good deeds.                                                             *)
(***************************************************************************)
\* What was paid to one occurrence, by m and perhaps by others, more than any floor.
Paid(m, new, body) ==
    /\ UNCHANGED <<events, attendance>>
    /\ new \in SUBSET PaymentIds
    /\ Recorded' = Recorded \cup new /\ Recorded \cap new = {}
    /\ \A p \in Recorded : contributions'[p] = contributions[p]
    /\ \A p \in new : LET row == contributions'[p]
                      IN row.event = body.event /\ row.date = body.date /\ row.category = body.category
    /\ \A p \in new : Enough(contributions'[p])
    /\ \E p \in new : contributions'[p].member = m

\* Only one call of POST /contributions adds rows and changes none.
LEMMA PaymentsAreOne ==
    ASSUME MatrixTypeOK, MatrixTypeOK', [MatrixNext]_matrixVars, NEW m, PaidEnough(m)
    PROVE  \E new, body : Paid(m, new, body)
<1> PICK new : new = {p \in PaymentIds : contributions'[p] # contributions[p]}
    OBVIOUS
<1>0. /\ UNCHANGED <<events, attendance>>
      /\ \A p \in new : contributions[p] = Null /\ Enough(contributions'[p])
      /\ \E p \in new : contributions'[p].member = m
      /\ new \in SUBSET PaymentIds
    <2>1. /\ DOMAIN contributions = PaymentIds /\ DOMAIN contributions' = PaymentIds
        BY DEF MatrixTypeOK
    <2> QED
        BY <2>1 DEF PaidEnough
<1>1. \E payers \in SUBSET MemberIds, body \in NewPayments : Contribute(payers, body)
    <2>1. contributions' # contributions
        BY <1>0 DEF PaidEnough
    <2>2. ASSUME NEW p \in PaymentIds, contributions[p] # Null, contributions'[p] # contributions[p]
          PROVE  FALSE
        BY <2>2 DEF PaidEnough
    <2>3. ~\E p \in PaymentIds : DeleteContribution(p)
        BY <2>1, <2>2 DEF DeleteContribution, Recorded, MatrixTypeOK
    <2>4. ~\E p \in PaymentIds, fields \in Edits : EditContribution(p, fields)
        BY <2>1, <2>2 DEF EditContribution, Recorded, MatrixTypeOK
    <2> QED
        BY <2>1, <2>3, <2>4 DEF MatrixNext, matrixVars, CreateEvent, CreateRecurring, CreateNovena,
           AddEvents, DeleteEvent, SaveRegister
<1>2. PICK payers \in SUBSET MemberIds, body \in NewPayments : Contribute(payers, body)
    BY <1>1
<1> PICK id \in FreshIds(payers, PaymentIds \ Recorded) :
           contributions' = [p \in PaymentIds |->
             IF \E x \in payers : id[x] = p
             THEN Payment(CHOOSE x \in payers : id[x] = p, body) ELSE contributions[p]]
    BY <1>2 DEF Contribute
<1>3. ASSUME NEW p \in new
      PROVE  /\ contributions'[p].event = body.event /\ contributions'[p].date = body.date
             /\ contributions'[p].category = body.category
    <2>1. \E x \in payers : id[x] = p
        OBVIOUS
    <2> QED
        BY <2>1 DEF Payment
<1>5. ASSUME NEW p \in PaymentIds
      PROVE  (p \in Recorded' <=> p \in Recorded \/ p \in new) /\ ~(p \in Recorded /\ p \in new)
    BY <1>0 DEF Recorded
<1>6. Recorded' = Recorded \cup new /\ Recorded \cap new = {}
    BY <1>0, <1>5 DEF Recorded
<1>7. \A p \in Recorded : contributions'[p] = contributions[p]
    BY <1>6 DEF Recorded
<1>8. Paid(m, new, body)
    BY <1>0, <1>3, <1>6, <1>7 DEF Paid
<1> QED
    BY <1>8

\* What was given adds up to no less.
LEMMA AmountsGrow ==
    ASSUME MatrixTypeOK, MatrixTypeOK', NEW m, NEW new, NEW body, Paid(m, new, body),
           NEW S \in SUBSET Recorded, NEW T \in SUBSET Recorded', S \subseteq T
    PROVE  /\ Total([p \in S |-> contributions[p].amount]) \in Nat
           /\ Total([p \in T |-> contributions'[p].amount]) \in Nat
           /\ Total([p \in S |-> contributions[p].amount])
                <= Total([p \in T |-> contributions'[p].amount])
           /\ \A p \in T : contributions'[p].amount <= Total([q \in T |-> contributions'[q].amount])
<1> PICK f, g : f = [p \in T |-> contributions'[p].amount] /\ g = [p \in S |-> contributions[p].amount]
    OBVIOUS
<1>1. IsFiniteSet(S) /\ IsFiniteSet(T)
    BY MatrixAssumption, FS_Subset DEF Recorded
<1>2. ASSUME NEW p \in T PROVE f[p] \in Nat
    <2>1. contributions'[p] \in Contribution
        BY DEF MatrixTypeOK, Recorded
    <2> QED
        BY <2>1 DEF Contribution
<1>3. ASSUME NEW p \in S PROVE g[p] = f[p]
    BY DEF Paid
<1>4. Total(f) = Sum(f, T) /\ Total(g) = Sum(g, S)
    BY TotalIsSum
<1>5. Sum(f, T) \in Nat /\ Sum(g, S) \in Nat
    BY <1>1, <1>2, <1>3, SumType
<1>6. Sum(g, S) <= Sum(f, T)
    <2>1. ASSUME NEW p \in S PROVE g[p] \in Nat /\ g[p] <= f[p]
        <3>1. g[p] = f[p] /\ f[p] \in Nat
            BY <1>2, <1>3
        <3> QED
            BY ONLY <3>1
    <2> QED
        BY <1>1, <1>2, <2>1, SumMore
<1>7. ASSUME NEW p \in T PROVE f[p] <= Sum(f, T)
    <2>1. Sum(f, T) = f[p] + Sum(f, T \ {p})
        BY <1>1, <1>2, SumRemove
    <2>2. Sum(f, T \ {p}) \in Nat
        BY <1>1, <1>2, SumType, FS_Subset
    <2> QED
        BY <1>2, <2>1, <2>2
<1> QED
    BY <1>4, <1>5, <1>6, <1>7

\* The least floor of some categories is no more than any floor of theirs.
LEMMA FloorBounds ==
    ASSUME NEW categories \in SUBSET Categories
    PROVE  /\ LeastFloor(categories) \in Nat
           /\ \A amount \in Nat : (\A c \in categories : amount >= Floors[c]) =>
                                    amount >= LeastFloor(categories)
<1> PICK set : set = {Floors[c] : c \in categories} \ {0}
    OBVIOUS
<1>1. set \in SUBSET Nat
    BY MatrixAssumption
<1>2. LeastFloor(categories) = IF set = {} THEN 0 ELSE Min(set)
    BY DEF LeastFloor
<1>3. CASE set = {}
    BY <1>2, <1>3
<1>4. CASE set # {}
    <2>1. Min(set) \in set
        <3>1. \E x \in set : \A y \in set : x <= y
            BY <1>1, <1>4, LeastNumber
        <3> QED
            BY <3>1 DEF Min
    <2>2. PICK c \in categories : Min(set) = Floors[c]
        BY <2>1
    <2> QED
        BY <1>1, <1>2, <1>4, <2>1, <2>2
<1> QED
    BY <1>3, <1>4

\* Dues that were paid stay paid.
LEMMA DuesStayPaid ==
    ASSUME MatrixTypeOK, MatrixTypeOK', NEW m, NEW new, NEW body, Paid(m, new, body),
           NEW r \in Rules, NEW who, NEW asOf, NEW x
    PROVE  /\ AffiliationPaid(r, who, asOf) => AffiliationPaid(r, who, asOf)'
           /\ MonthPaid(r, who, x) => MonthPaid(r, who, x)'
           /\ WeddingPaid(r, who, x) => WeddingPaid(r, who, x)'
           /\ GatePassed(who, asOf) => GatePassed(who, asOf)'
<1> PICK floor : floor = LeastFloor(Rule[r].draws)
    OBVIOUS
<1>0. floor \in Nat
    BY FloorBounds, MatrixAssumption DEF MatrixRule
<1> DEFINE years == {p \in Of(who, Drawn(r)) : /\ contributions[p].year = YearOf(asOf)
                                               /\ contributions[p].date <= asOf}
           months == {p \in Of(who, Drawn(r)) : contributions[p].month = x}
           weddings == {p \in Of(who, Drawn(r)) : contributions[p].event = x}
           gates == {p \in Of(who, Recorded) : /\ contributions[p].category = Config.gate
                                               /\ contributions[p].year = YearOf(asOf)
                                               /\ contributions[p].date <= asOf}
<1>1. /\ \A p \in Recorded : p \in Recorded' /\ contributions'[p] = contributions[p]
      /\ years \subseteq Recorded /\ years' \subseteq Recorded'
      /\ months \subseteq Recorded /\ months' \subseteq Recorded'
      /\ weddings \subseteq Recorded /\ weddings' \subseteq Recorded'
      /\ gates \subseteq Recorded /\ gates' \subseteq Recorded'
    BY DEF Paid, Of, Drawn
<1>2. /\ years \subseteq years' /\ months \subseteq months'
      /\ weddings \subseteq weddings' /\ gates \subseteq gates'
    BY <1>1 DEF Of, Drawn
<1> DEFINE enough == Config.affiliation <= SumOf(years)
           monthPaid == IF Config.partial THEN SumOf(months) > 0 ELSE SumOf(months) >= Config.monthly
           wedding == SumOf(weddings) > 0 /\ SumOf(weddings) >= floor
           passed == who \in Complete /\ Config.affiliation <= SumOf(gates)
<1>3. /\ AffiliationPaid(r, who, asOf) <=> enough
      /\ MonthPaid(r, who, x) <=> monthPaid
      /\ WeddingPaid(r, who, x) <=> wedding
      /\ GatePassed(who, asOf) <=> passed
    BY DEF AffiliationPaid, MonthPaid, WeddingPaid, GatePassed
<1>4. /\ AffiliationPaid(r, who, asOf)' <=> enough'
      /\ MonthPaid(r, who, x)' <=> monthPaid'
      /\ WeddingPaid(r, who, x)' <=> wedding'
      /\ GatePassed(who, asOf)' <=> passed'
    BY DEF AffiliationPaid, MonthPaid, WeddingPaid, GatePassed
<1> HIDE DEF years, months, weddings, gates
<1>5. /\ SumOf(years) \in Nat /\ SumOf(years)' \in Nat /\ SumOf(years) <= SumOf(years)'
      /\ SumOf(months) \in Nat /\ SumOf(months)' \in Nat /\ SumOf(months) <= SumOf(months)'
      /\ SumOf(weddings) \in Nat /\ SumOf(weddings)' \in Nat /\ SumOf(weddings) <= SumOf(weddings)'
      /\ SumOf(gates) \in Nat /\ SumOf(gates)' \in Nat /\ SumOf(gates) <= SumOf(gates)'
    BY <1>1, <1>2, AmountsGrow DEF SumOf
<1>6. Config.affiliation \in Nat /\ Config.monthly \in Nat
    BY MatrixAssumption DEF Configuration
<1>7. (enough => enough') /\ (monthPaid => monthPaid') /\ (passed => passed')
    BY <1>5, <1>6
<1>8. wedding => wedding'
    BY <1>0, <1>5
<1> HIDE DEF enough, monthPaid, wedding, passed
<1> QED
    BY <1>3, <1>4, <1>7, <1>8

-----------------------------------------------------------------------------
\* What comes first of a ranking, when one of it moves up.

\* Each of the elements of a set stands before or after every other.
Ranked(B, D) ==
    /\ \A x \in D : <<x, x>> \notin B
    /\ \A x, y \in D : x = y \/ <<x, y>> \in B \/ <<y, x>> \in B
    /\ \A x, y, z \in D : <<x, y>> \in B /\ <<y, z>> \in B => <<x, z>> \in B

Foremost(n, D, B) == {x \in D : Cardinality({y \in D : <<y, x>> \in B}) < n}

\* K passes others, and no others pass each other.
MovesUp(K, D, B, C) ==
    /\ \A x, y \in D \ {K} : <<x, y>> \in B <=> <<x, y>> \in C
    /\ \A y \in D : K \in D /\ <<K, y>> \in B => <<K, y>> \in C

\* The first n of a set, when one element joins it or moves up in it: nothing changes,
\* or that one comes in, and at most one drops out for it.
LEMMA OneComesIn ==
    ASSUME NEW D, IsFiniteSet(D), NEW K, NEW n \in Nat, NEW B, NEW C,
           Ranked(B, D), Ranked(C, D \cup {K}),
           MovesUp(K, D, B, C),
           NEW W, W = Foremost(n, D, B), NEW V, V = Foremost(n, D \cup {K}, C)
    PROVE  V = W \/ (K \notin W /\ (V = W \cup {K} \/ \E z \in W : V = (W \ {z}) \cup {K}))
<1> USE DEF Foremost, MovesUp
<1> PICK E, p, q : /\ E = D \cup {K}
                   /\ p = [x \in D |-> {y \in D : <<y, x>> \in B}]
                   /\ q = [x \in E |-> {y \in E : <<y, x>> \in C}]
    OBVIOUS
<1>1. IsFiniteSet(E)
    BY FS_AddElement
<1>2. /\ \A x \in D : IsFiniteSet(p[x]) /\ Cardinality(p[x]) \in Nat /\ (x \in W <=> Cardinality(p[x]) < n)
      /\ \A x \in E : IsFiniteSet(q[x]) /\ Cardinality(q[x]) \in Nat /\ (x \in V <=> Cardinality(q[x]) < n)
      /\ W \subseteq D /\ V \subseteq E
    <2>1. \A x \in D : p[x] \subseteq D
        OBVIOUS
    <2>2. \A x \in E : q[x] \subseteq E
        OBVIOUS
    <2> QED
        BY <1>1, <2>1, <2>2, FS_Subset, FS_CardinalityType
<1>3. \A S, T : IsFiniteSet(T) /\ S \subseteq T =>
        /\ Cardinality(S) \in Nat /\ Cardinality(T) \in Nat /\ Cardinality(S) <= Cardinality(T)
    BY FS_Subset, FS_CardinalityType
<1>4. ASSUME NEW S, NEW T, NEW x, IsFiniteSet(T), S \subseteq T, x \in T, x \notin S
      PROVE  Cardinality(S) + 1 <= Cardinality(T)
    <2>1. IsFiniteSet(S) /\ S \cup {x} \subseteq T
        BY <1>4, FS_Subset
    <2>2. Cardinality(S \cup {x}) = Cardinality(S) + 1
        BY <1>4, <2>1, FS_AddElement
    <2> QED
        BY <1>3, <1>4, <2>1, <2>2
<1>5. ASSUME NEW x \in D, x # K PROVE p[x] \subseteq q[x] /\ q[x] \subseteq p[x] \cup {K}
    BY <1>5
<1>6. ASSUME K \in D PROVE q[K] \subseteq p[K]
    <2> SUFFICES ASSUME NEW y \in q[K] PROVE y \in p[K]
        OBVIOUS
    <2>1. y \in E /\ <<y, K>> \in C /\ y # K
        BY DEF Ranked
    <2>2. <<K, y>> \notin C
        BY <2>1 DEF Ranked
    <2>3. <<K, y>> \notin B /\ y \in D
        BY <1>6, <2>1, <2>2
    <2> QED
        BY <1>6, <2>1, <2>3 DEF Ranked
<1>7. ASSUME NEW x \in V, x # K PROVE x \in W
    <2>1. x \in D /\ x \in E
        BY <1>2, <1>7
    <2>2. Cardinality(p[x]) <= Cardinality(q[x])
        BY <1>2, <1>3, <1>5, <1>7, <2>1
    <2>3. Cardinality(q[x]) < n /\ Cardinality(q[x]) \in Nat /\ Cardinality(p[x]) \in Nat
        BY <1>2, <1>7, <2>1
    <2>4. Cardinality(p[x]) < n
        BY ONLY <2>2, <2>3, n \in Nat
    <2> QED
        BY <1>2, <2>1, <2>4
<1>8. ASSUME K \in W PROVE K \in V
    <2>1. K \in D /\ K \in E
        BY <1>2, <1>8
    <2>2. Cardinality(q[K]) <= Cardinality(p[K])
        BY <1>2, <1>3, <1>6, <2>1
    <2>3. Cardinality(p[K]) < n /\ Cardinality(q[K]) \in Nat /\ Cardinality(p[K]) \in Nat
        BY <1>2, <1>8, <2>1
    <2>4. Cardinality(q[K]) < n
        BY ONLY <2>2, <2>3, n \in Nat
    <2> QED
        BY <1>2, <2>1, <2>4
<1>9. CASE K \notin V
    <2>1. ASSUME NEW x \in W PROVE x \in V
        <3>1. x \in D /\ x # K /\ x \in E /\ K \in E
            BY <1>2, <1>8, <1>9
        <3>2. ASSUME K \in q[x] PROVE FALSE
            <4>1. q[K] \subseteq p[x]
                BY <1>5, <3>1, <3>2 DEF Ranked
            <4>2. Cardinality(q[K]) <= Cardinality(p[x])
                BY <1>2, <1>3, <3>1, <4>1
            <4>3. /\ Cardinality(p[x]) < n /\ ~(Cardinality(q[K]) < n)
                  /\ Cardinality(q[K]) \in Nat /\ Cardinality(p[x]) \in Nat
                BY <1>2, <1>9, <3>1
            <4> QED
                BY ONLY <4>2, <4>3, n \in Nat
        <3>3. q[x] \subseteq p[x]
            BY <1>5, <3>1, <3>2
        <3>4. Cardinality(q[x]) <= Cardinality(p[x])
            BY <1>2, <1>3, <3>1, <3>3
        <3>5. Cardinality(p[x]) < n /\ Cardinality(q[x]) \in Nat /\ Cardinality(p[x]) \in Nat
            BY <1>2, <3>1
        <3>6. Cardinality(q[x]) < n
            BY ONLY <3>4, <3>5, n \in Nat
        <3> QED
            BY <1>2, <3>1, <3>6
    <2> QED
        BY <1>7, <1>9, <2>1
<1>10. CASE K \in V
    <2>1. ASSUME NEW x \in W, x \notin V
          PROVE  x \in D /\ x # K /\ K \notin p[x] /\ Cardinality(p[x]) + 1 = n
        <3>1. x \in D /\ x # K /\ x \in E
            BY <1>2, <1>10, <2>1
        <3>2. q[x] \subseteq p[x] \cup {K}
            BY <1>5, <3>1
        <3>3. /\ IsFiniteSet(p[x] \cup {K})
              /\ Cardinality(p[x] \cup {K}) = IF K \in p[x] THEN Cardinality(p[x]) ELSE Cardinality(p[x]) + 1
            BY <1>2, <3>1, FS_AddElement
        <3>4. Cardinality(q[x]) <= Cardinality(p[x] \cup {K})
            BY <1>3, <3>2, <3>3
        <3>5. /\ Cardinality(p[x]) < n /\ ~(Cardinality(q[x]) < n)
              /\ Cardinality(q[x]) \in Nat /\ Cardinality(p[x]) \in Nat
            BY <1>2, <2>1, <3>1
        <3>6. K \notin p[x] /\ Cardinality(p[x]) + 1 = n
            BY ONLY <3>3, <3>4, <3>5, n \in Nat
        <3> QED
            BY <3>1, <3>6
    <2>2. ASSUME NEW x \in W, x \notin V, NEW y \in D, <<x, y>> \in B
          PROVE  y \notin W
        <3>1. p[x] \subseteq p[y] /\ x \in p[y] /\ x \notin p[x]
            BY <2>1, <2>2 DEF Ranked
        <3>2. Cardinality(p[x]) + 1 <= Cardinality(p[y])
            BY <1>2, <1>4, <3>1
        <3>3. ~(Cardinality(p[y]) < n)
            <4>1. Cardinality(p[x]) + 1 = n /\ Cardinality(p[x]) \in Nat /\ Cardinality(p[y]) \in Nat
                BY <1>2, <2>1, <2>2
            <4> QED
                BY ONLY <3>2, <4>1
        <3> QED
            BY <1>2, <2>2, <3>3
    <2>3. CASE K \in W
        <3>1. ASSUME NEW x \in W, x \notin V PROVE FALSE
            <4>1. x \in D /\ K \in D /\ x # K /\ K \notin p[x]
                BY <1>2, <2>1, <2>3, <3>1
            <4>2. <<x, K>> \in B
                BY <4>1 DEF Ranked
            <4> QED
                BY <2>2, <2>3, <3>1, <4>1, <4>2
        <3> QED
            BY <1>7, <1>10, <2>3, <3>1
    <2>4. CASE K \notin W
        <3>1. CASE W \subseteq V
            <4>1. V = W \cup {K}
                BY <1>7, <1>10, <3>1
            <4> QED
                BY <2>4, <4>1
        <3>2. CASE ~(W \subseteq V)
            <4>1. PICK z \in W : z \notin V
                BY <3>2
            <4>2. ASSUME NEW x \in W, x \notin V PROVE x = z
                <5>1. x \in D /\ z \in D
                    BY <1>2
                <5> QED
                    BY <2>2, <4>1, <4>2, <5>1 DEF Ranked
            <4>3. V = (W \ {z}) \cup {K}
                BY <1>7, <1>10, <4>1, <4>2
            <4> QED
                BY <2>4, <4>1, <4>3
        <3> QED
            BY <3>1, <3>2
    <2> QED
        BY <2>3, <2>4
<1> QED
    BY <1>9, <1>10

\* Of what is counted, no smaller part is met; what there was nothing of before is
\* met in full.
NoWorse(count, total, count2, total2) ==
    /\ count2 * total >= count * total2
    /\ total > 0 => total2 > 0
    /\ total = 0 /\ total2 > 0 => count2 = total2

\* It is so when what was met stays met, and what comes in is met.
LEMMA CountsNoWorse ==
    ASSUME NEW W, IsFiniteSet(W), NEW V, IsFiniteSet(V), NEW K,
           V = W \/ (K \notin W /\ (V = W \cup {K} \/ \E z \in W : V = (W \ {z}) \cup {K})),
           NEW A \in SUBSET W, NEW M \in SUBSET V, A \cap V \subseteq M, K \in V \ W => K \in M
    PROVE  NoWorse(Cardinality(A), Cardinality(W), Cardinality(M), Cardinality(V))
<1> PICK c, t, c2, t2 : /\ c = Cardinality(A) /\ t = Cardinality(W)
                        /\ c2 = Cardinality(M) /\ t2 = Cardinality(V)
    OBVIOUS
<1>1. /\ c \in Nat /\ t \in Nat /\ c2 \in Nat /\ t2 \in Nat /\ c <= t /\ c2 <= t2
      /\ IsFiniteSet(A) /\ IsFiniteSet(M)
    BY FS_Subset, FS_CardinalityType
<1>2. CASE V = W
    <2>1. A \in SUBSET M
        BY <1>2
    <2>2. c <= c2 /\ t = t2
        BY <1>1, <1>2, <2>1, FS_Subset
    <2>3. c * t <= c2 * t
        BY <1>1, <2>2, Times
    <2> QED
        BY <1>1, <2>2, <2>3 DEF NoWorse
<1>3. CASE K \notin W /\ V = W \cup {K}
    <2>1. A \cup {K} \in SUBSET M /\ K \notin A
        BY <1>3
    <2>2. Cardinality(A \cup {K}) = c + 1 /\ t2 = t + 1
        BY <1>1, <1>3, <2>1, FS_AddElement
    <2>3. c + 1 <= c2
        BY <1>1, <2>1, <2>2, FS_Subset
    <2>4. (c + 1) * t <= c2 * t /\ (c + 1) * t = c * t + t /\ c * t2 = c * t + c /\ c * t \in Nat
        <3>1. (c + 1) * t <= c2 * t /\ c * t \in Nat
            BY <1>1, <2>3, Times
        <3> QED
            BY <1>1, <2>2, <3>1
    <2>5. c2 * t >= c * t2
        <3>1. c2 * t \in Nat
            BY <1>1
        <3> QED
            BY <1>1, <2>4, <3>1
    <2> QED
        BY <1>1, <2>2, <2>3, <2>5 DEF NoWorse
<1>4. CASE K \notin W /\ \E z \in W : V = (W \ {z}) \cup {K}
    <2> PICK z \in W : V = (W \ {z}) \cup {K}
        BY <1>4
    <2>1. /\ IsFiniteSet(W \ {z}) /\ Cardinality(W \ {z}) = t - 1 /\ K \notin W \ {z}
          /\ IsFiniteSet(A \ {z}) /\ Cardinality(A \ {z}) = IF z \in A THEN c - 1 ELSE c
        <3>1. IsFiniteSet(W \ {z}) /\ Cardinality(W \ {z}) = IF z \in W THEN t - 1 ELSE t
            BY <1>1, FS_RemoveElement
        <3>2. IsFiniteSet(A \ {z}) /\ Cardinality(A \ {z}) = IF z \in A THEN c - 1 ELSE c
            BY <1>1, FS_RemoveElement
        <3> QED
            BY <1>4, <3>1, <3>2
    <2>2. t2 = t
        <3>1. Cardinality((W \ {z}) \cup {K}) = Cardinality(W \ {z}) + 1
            BY <2>1, FS_AddElement
        <3> QED
            BY <1>1, <2>1, <3>1
    <2>3. (A \ {z}) \cup {K} \in SUBSET M /\ K \notin A \ {z}
        BY <1>4
    <2>4. Cardinality((A \ {z}) \cup {K}) = Cardinality(A \ {z}) + 1
        BY <2>1, <2>3, FS_AddElement
    <2>5. c <= c2
        <3>1. Cardinality((A \ {z}) \cup {K}) <= c2
            BY <1>1, <2>3, FS_Subset
        <3> QED
            BY <1>1, <2>1, <2>4, <3>1
    <2>6. c * t <= c2 * t
        BY <1>1, <2>5, Times
    <2>7. t > 0
        <3>1. W # {}
            OBVIOUS
        <3> QED
            BY <1>1, <3>1, FS_EmptySet
    <2> QED
        BY <1>1, <2>2, <2>6, <2>7 DEF NoWorse
<1> QED
    BY <1>2, <1>3, <1>4

-----------------------------------------------------------------------------
\* The occurrences of a rule, ranked.

\* Days have a last.
LEMMA LastDay ==
    ASSUME NEW S \in SUBSET Dates, S # {}
    PROVE  Max(S) \in S /\ \A x \in S : x <= Max(S)
<1> PICK h : h = PeriodEnd(Horizon - 1)
    OBVIOUS
<1>1. S \in SUBSET Nat /\ \A x \in S : x <= h
    BY DaysAreNumbers DEF Dates
<1>2. h \in Nat
    <2>1. Horizon - 1 \in Months
        BY CalendarAssumption DEF Months
    <2> QED
        BY <2>1, PeriodEnds, DaysAreNumbers
<1> PICK left : left = {h - x : x \in S}
    OBVIOUS
<1>3. left \in SUBSET Nat /\ left # {}
    <2>1. \A x \in S : x \in Nat /\ x <= h
        BY <1>1
    <2>2. \A x \in S : h - x \in Nat
        BY <1>2, <2>1
    <2> QED
        BY <2>2
<1>4. PICK n \in left : \A k \in left : n <= k
    BY <1>3, LeastNumber
<1>5. PICK x \in S : n = h - x
    BY <1>4
<1>6. ASSUME NEW y \in S PROVE y <= x
    <2>1. h - x <= h - y
        BY <1>4, <1>5
    <2> QED
        BY <1>1, <1>2, <2>1
<1> QED
    BY <1>6 DEF Max

\* Keys by the last payment to each, and ids where that is on one day.
KeyRanking(rows, dated, key, D, on, B) ==
    /\ \A p \in dated : key[p] = IF rows[p].event # Null THEN <<"event", rows[p].event>>
                              ELSE <<"date", rows[p].date>>
    /\ D = {key[p] : p \in dated}
    /\ \A k \in D : on[k] = Max({rows[p].date : p \in {q \in dated : key[q] = k}})
    /\ B = {x \in D \X D : \/ on[x[1]] > on[x[2]]
                           \/ on[x[1]] = on[x[2]] /\ Rank(x[1]) < Rank(x[2])}

\* It ranks the occurrences.
LEMMA KeysRanked ==
    ASSUME NEW dated, IsFiniteSet(dated), NEW rows, \A p \in dated : rows[p] \in Contribution,
           NEW key, NEW D, NEW on, NEW B, KeyRanking(rows, dated, key, D, on, B)
    PROVE  /\ Ranked(B, D) /\ IsFiniteSet(D)
           /\ \A k \in D : /\ on[k] \in Nat
                           /\ \E p \in dated : key[p] = k /\ rows[p].date = on[k]
           /\ \A p \in dated : rows[p].date <= on[key[p]]
<1> USE DEF KeyRanking
<1>1. IsFiniteSet(D)
    BY ImageFinite
<1>2. ASSUME NEW k \in D
      PROVE  /\ on[k] \in Nat
             /\ \E p \in dated : key[p] = k /\ rows[p].date = on[k]
             /\ \A p \in dated : key[p] = k => rows[p].date <= on[k]
    <2> PICK days : days = {rows[p].date : p \in {q \in dated : key[q] = k}}
        OBVIOUS
    <2>1. days \in SUBSET Dates /\ days # {}
        BY DEF Contribution
    <2>2. Max(days) \in days /\ \A x \in days : x <= Max(days)
        BY <2>1, LastDay
    <2>3. on[k] = Max(days)
        OBVIOUS
    <2>4. on[k] \in Nat
        BY <2>1, <2>2, <2>3, DaysAreNumbers
    <2> QED
        BY <2>2, <2>3, <2>4
<1>3. ASSUME NEW k \in D
      PROVE  \/ \E e \in EventIds : k = <<"event", e>> /\ Rank(k) = 2 * e
             \/ k = <<"date", on[k]>> /\ Rank(k) = 2 * DateRank + 1
    <2> PICK p \in dated : key[p] = k /\ rows[p].date = on[k]
        BY <1>2
    <2>1. rows[p].event \in EventIds \cup {Null}
        BY DEF Contribution
    <2>2. CASE rows[p].event # Null
        <3> PICK e \in EventIds : e = rows[p].event
            BY <2>1, <2>2
        <3>1. k = <<"event", e>>
            BY <2>2
        <3>2. k[1] = "event" /\ k[2] = e
            BY ONLY <3>1
        <3>3. Rank(k) = 2 * e
            BY ONLY <3>2 DEF Rank
        <3> QED
            BY <3>1, <3>3
    <2>3. CASE rows[p].event = Null
        <3>1. k = <<"date", on[k]>>
            BY <2>3
        <3>2. k[1] = "date"
            BY ONLY <3>1
        <3>3. Rank(k) = 2 * DateRank + 1
            BY ONLY <3>2 DEF Rank
        <3> QED
            BY <3>1, <3>3
    <2> QED
        BY <2>2, <2>3
<1>4. EventIds \subseteq Nat /\ DateRank \in Nat
    BY MatrixAssumption
<1>5. ASSUME NEW k \in D PROVE Rank(k) \in Nat
    <2>1. \A e \in EventIds : 2 * e \in Nat
        BY <1>4
    <2>2. 2 * DateRank + 1 \in Nat
        BY <1>4
    <2> QED
        BY <1>3, <2>1, <2>2
<1>6. ASSUME NEW k \in D, NEW l \in D, on[k] = on[l], Rank(k) = Rank(l) PROVE k = l
    <2>1. CASE k = <<"date", on[k]>> /\ Rank(k) = 2 * DateRank + 1
        <3>1. ~\E e \in EventIds : l = <<"event", e>> /\ Rank(l) = 2 * e
            BY <1>4, <1>6, <2>1
        <3> QED
            BY <1>3, <1>6, <2>1, <3>1
    <2>2. CASE \E e \in EventIds : k = <<"event", e>> /\ Rank(k) = 2 * e
        <3> PICK e \in EventIds : k = <<"event", e>> /\ Rank(k) = 2 * e
            BY <2>2
        <3>1. Rank(l) # 2 * DateRank + 1
            BY <1>4, <1>6
        <3>2. PICK f \in EventIds : l = <<"event", f>> /\ Rank(l) = 2 * f
            BY <1>3, <3>1
        <3>3. e = f
            BY <1>4, <1>6, <3>2
        <3> QED
            BY <3>2, <3>3
    <2> QED
        BY <1>3, <2>1, <2>2
<1>7. \A k, l \in D : <<k, l>> \in B <=> \/ on[k] > on[l]
                                         \/ on[k] = on[l] /\ Rank(k) < Rank(l)
    OBVIOUS
<1>8. \A k \in D : on[k] \in Nat /\ Rank(k) \in Nat
    BY <1>2, <1>5
<1>9. \A k \in D : <<k, k>> \notin B
    BY <1>7, <1>8
<1>10. \A k, l \in D : k = l \/ <<k, l>> \in B \/ <<l, k>> \in B
    BY <1>6, <1>7, <1>8
<1>11. ASSUME NEW k \in D, NEW l \in D, NEW x \in D, <<k, l>> \in B, <<l, x>> \in B
       PROVE  <<k, x>> \in B
    <2>1. on[k] \in Nat /\ on[l] \in Nat /\ on[x] \in Nat
          /\ Rank(k) \in Nat /\ Rank(l) \in Nat /\ Rank(x) \in Nat
        BY <1>8
    <2>2. /\ on[k] > on[l] \/ (on[k] = on[l] /\ Rank(k) < Rank(l))
          /\ on[l] > on[x] \/ (on[l] = on[x] /\ Rank(l) < Rank(x))
        BY <1>7, <1>11
    <2>3. on[k] > on[x] \/ (on[k] = on[x] /\ Rank(k) < Rank(x))
        BY ONLY <2>1, <2>2
    <2> QED
        BY <1>7, <2>3
<1>12. \A p \in dated : key[p] \in D
    OBVIOUS
<1>13. Ranked(B, D)
    BY ONLY <1>9, <1>10, <1>11 DEF Ranked
<1>14. ASSUME NEW p \in dated PROVE rows[p].date <= on[key[p]]
    BY <1>2, <1>12
<1>15. \A k \in D : on[k] \in Nat /\ \E p \in dated : key[p] = k /\ rows[p].date = on[k]
    BY <1>2
<1> QED
    BY ONLY <1>1, <1>13, <1>14, <1>15

\* What the payment is toward.
PaidKey(body) == IF body.event # Null THEN <<"event", body.event>> ELSE <<"date", body.date>>

\* A payment is toward what it names, and is drawn on by the rules of its category.
LEMMA DrawnAfter ==
    ASSUME NEW m, NEW new, NEW body, Paid(m, new, body), NEW r
    PROVE  /\ \A p \in Recorded : KeyOf(p)' = KeyOf(p)
           /\ \A p \in new : KeyOf(p)' = PaidKey(body)
           /\ Drawn(r) \subseteq Recorded
           /\ body.category \in Rule[r].draws => Drawn(r)' = Drawn(r) \cup new
           /\ body.category \notin Rule[r].draws => Drawn(r)' = Drawn(r)
<1>1. \A p \in Recorded : KeyOf(p)' = KeyOf(p)
    BY DEF Paid, KeyOf
<1>2. \A p \in new : KeyOf(p)' = PaidKey(body)
    BY DEF Paid, KeyOf, PaidKey
<1>3. ASSUME body.category \in Rule[r].draws PROVE Drawn(r)' = Drawn(r) \cup new
    BY <1>3 DEF Paid, Drawn
<1>4. ASSUME body.category \notin Rule[r].draws PROVE Drawn(r)' = Drawn(r)
    BY <1>4 DEF Paid, Drawn
<1> QED
    BY <1>1, <1>2, <1>3, <1>4 DEF Drawn

\* An occurrence that was paid stays paid, and the one paid toward now is.
LEMMA OccurrenceStaysPaid ==
    ASSUME MatrixTypeOK, MatrixTypeOK', NEW m, NEW new, NEW body, Paid(m, new, body),
           NEW r \in Rules, NEW asOf, NEW key
    PROVE  /\ OccurrencePaid(r, m, key, asOf) => OccurrencePaid(r, m, key, asOf)'
           /\ body.category \in Rule[r].draws /\ key = PaidKey(body) =>
                OccurrencePaid(r, m, key, asOf)'
<1> DEFINE mine == Of(m, Toward(r, key))
           within == {q \in Toward(r, key) : Within(m, contributions[q].date, asOf)}
           asked == {contributions[p].category : p \in within}
           paid == SumOf(mine) > 0 /\ SumOf(mine) >= LeastFloor(asked)
<1>1. OccurrencePaid(r, m, key, asOf) <=> paid
    BY DEF OccurrencePaid, Required
<1>2. OccurrencePaid(r, m, key, asOf)' <=> paid'
    BY DEF OccurrencePaid, Required
<1>3. CASE body.category \in Rule[r].draws /\ key = PaidKey(body)
    <2>1. PICK p \in new : contributions'[p].member = m
        BY DEF Paid
    <2> PICK amount : amount = contributions'[p].amount
        OBVIOUS
    <2>2. p \in Drawn(r)' /\ KeyOf(p)' = key /\ p \in Recorded'
        <3>1. p \in Drawn(r)' /\ KeyOf(p)' = key
            BY <1>3, <2>1, DrawnAfter
        <3> QED
            BY <3>1 DEF Paid
    <2>3. p \in mine'
        BY <2>1, <2>2 DEF Toward, Of
    <2>4. amount \in Nat
        <3>1. contributions'[p] \in Contribution
            BY <2>2 DEF MatrixTypeOK, Recorded
        <3> QED
            BY <3>1 DEF Contribution
    <2>5. amount > 0 /\ \A c \in Rule[r].draws : amount >= Floors[c]
        BY <1>3 DEF Paid, Enough
    <2>6. asked' \in SUBSET Categories /\ asked' \subseteq Rule[r].draws
        BY MatrixAssumption DEF Toward, Drawn, MatrixRule
    <2>7. mine' \in SUBSET Recorded'
        BY DEF Of, Toward, Drawn
    <2> HIDE DEF mine, asked
    <2>8. SumOf(mine)' \in Nat /\ amount <= SumOf(mine)'
        BY <2>3, <2>7, AmountsGrow, {} \in SUBSET Recorded DEF SumOf
    <2>9. LeastFloor(asked') \in Nat /\ amount >= LeastFloor(asked')
        BY <2>4, <2>5, <2>6, FloorBounds
    <2>10. LeastFloor(asked)' = LeastFloor(asked')
        BY DEF LeastFloor
    <2> QED
        BY <1>2, <2>4, <2>5, <2>8, <2>9, <2>10
<1>4. CASE ~(body.category \in Rule[r].draws /\ key = PaidKey(body))
    <2>1. Toward(r, key)' = Toward(r, key)
        BY <1>4, DrawnAfter DEF Toward
    <2>2. \A p \in Toward(r, key) : contributions'[p] = contributions[p]
        BY DEF Toward, Drawn, Paid
    <2>3. mine' = mine
        BY <2>1, <2>2 DEF Of
    <2>4. within' = within
        BY <2>1, <2>2 DEF Within
    <2>5. asked' = asked
        BY <2>2, <2>4
    <2>6. \A p \in mine : contributions'[p] = contributions[p]
        BY <2>2 DEF Of
    <2> HIDE DEF mine, within, asked
    <2>7. SumOf(mine)' = SumOf(mine)
        <3>1. SumOf(mine)' = Total([p \in mine |-> contributions'[p].amount])
            BY <2>3 DEF SumOf
        <3>2. [p \in mine |-> contributions'[p].amount] = [p \in mine |-> contributions[p].amount]
            BY <2>6
        <3> QED
            BY <3>1, <3>2 DEF SumOf
    <2>8. LeastFloor(asked)' = LeastFloor(asked)
        BY <2>5 DEF LeastFloor
    <2>9. paid' <=> paid
        BY <2>7, <2>8
    <2> HIDE DEF paid
    <2> QED
        BY <1>1, <1>2, <1>4, <2>9
<1> QED
    BY <1>3, <1>4

\* The occurrences a rule draws on, and who precedes whom among them.
Ranking(r, m, asOf, dated, key, D, on, B) ==
    /\ dated = {p \in Drawn(r) : Within(m, contributions[p].date, asOf)}
    /\ \A p \in dated : key[p] = KeyOf(p)
    /\ KeyRanking(contributions, dated, key, D, on, B)

\* The last of them are the first n of that ranking.
LEMMA LastRanked ==
    \A r, m, asOf, dated, key, D, on, B : Ranking(r, m, asOf, dated, key, D, on, B) =>
        Occurrences(r, m, asOf) = {x \in D : Cardinality({y \in D : <<y, x>> \in B}) < Rule[r].value}
<1> SUFFICES ASSUME NEW r, NEW m, NEW asOf, NEW dated, NEW key, NEW D, NEW on, NEW B,
                    Ranking(r, m, asOf, dated, key, D, on, B)
             PROVE  Occurrences(r, m, asOf) =
                      {x \in D : Cardinality({y \in D : <<y, x>> \in B}) < Rule[r].value}
    OBVIOUS
<1> USE DEF Ranking, KeyRanking
<1> DEFINE On(k) == Max({contributions[p].date : p \in {q \in dated : KeyOf(q) = k}})
           Earlier(k) == {l \in D : On(l) > On(k) \/ (On(l) = On(k) /\ Rank(l) < Rank(k))}
<1>1. D = {KeyOf(p) : p \in dated}
    OBVIOUS
<1>2. Occurrences(r, m, asOf) = {k \in D : Cardinality(Earlier(k)) < Rule[r].value}
    BY <1>1 DEF Occurrences, First
<1>3. ASSUME NEW k \in D PROVE on[k] = On(k)
    <2>1. {q \in dated : key[q] = k} = {q \in dated : KeyOf(q) = k}
        OBVIOUS
    <2> QED
        BY <2>1
<1> HIDE DEF On
<1>4. ASSUME NEW k \in D PROVE Earlier(k) = {y \in D : <<y, k>> \in B}
    BY <1>3
<1> HIDE DEF Earlier
<1> QED
    BY <1>2, <1>4

\* They are after a step, too.
LEMMA LastRankedAfter ==
    (\A r, m, asOf, dated, key, D, on, B : Ranking(r, m, asOf, dated, key, D, on, B) =>
        Occurrences(r, m, asOf) =
          {x \in D : Cardinality({y \in D : <<y, x>> \in B}) < Rule[r].value})'
    BY LastRanked, PTL

\* It is a ranking.
LEMMA RankingRanks ==
    \A r, m, asOf, dated, key, D, on, B :
        MatrixTypeOK /\ Ranking(r, m, asOf, dated, key, D, on, B) =>
          /\ Ranked(B, D) /\ IsFiniteSet(D)
          /\ \A k \in D : /\ on[k] \in Nat
                          /\ \E p \in dated : key[p] = k /\ contributions[p].date = on[k]
          /\ \A p \in dated : contributions[p].date <= on[key[p]]
<1> SUFFICES ASSUME NEW r, NEW m, NEW asOf, NEW dated, NEW key, NEW D, NEW on, NEW B,
                    MatrixTypeOK, Ranking(r, m, asOf, dated, key, D, on, B)
             PROVE  /\ Ranked(B, D) /\ IsFiniteSet(D)
                    /\ \A k \in D : /\ on[k] \in Nat
                                    /\ \E p \in dated : key[p] = k /\ contributions[p].date = on[k]
                    /\ \A p \in dated : contributions[p].date <= on[key[p]]
    OBVIOUS
<1> PICK rows : rows = contributions
    OBVIOUS
<1>1. dated \subseteq Recorded
    BY DEF Ranking, Drawn
<1>2. IsFiniteSet(dated)
    BY <1>1, MatrixAssumption, FS_Subset DEF Recorded
<1>3. \A p \in dated : rows[p] \in Contribution
    BY <1>1 DEF MatrixTypeOK, Recorded
<1>5. KeyRanking(rows, dated, key, D, on, B)
    BY DEF Ranking
<1>6. rows = contributions
    OBVIOUS
<1>7. /\ Ranked(B, D) /\ IsFiniteSet(D)
      /\ \A k \in D : /\ on[k] \in Nat
                      /\ \E p \in dated : key[p] = k /\ rows[p].date = on[k]
      /\ \A p \in dated : rows[p].date <= on[key[p]]
    BY ONLY <1>2, <1>3, <1>5, KeysRanked
<1> QED
    BY <1>6, <1>7

\* It is one after a step, too.
LEMMA RankingRanksAfter ==
    (\A r, m, asOf, dated, key, D, on, B :
        MatrixTypeOK /\ Ranking(r, m, asOf, dated, key, D, on, B) =>
          /\ Ranked(B, D) /\ IsFiniteSet(D)
          /\ \A k \in D : /\ on[k] \in Nat
                          /\ \E p \in dated : key[p] = k /\ contributions[p].date = on[k]
          /\ \A p \in dated : contributions[p].date <= on[key[p]])'
    BY RankingRanks, PTL

\* Every rule has a ranking.
LEMMA RankingExists ==
    \A r, m, asOf : \E dated, key, D, on, B : Ranking(r, m, asOf, dated, key, D, on, B)
<1> SUFFICES ASSUME NEW r, NEW m, NEW asOf
             PROVE  \E dated, key, D, on, B : Ranking(r, m, asOf, dated, key, D, on, B)
    OBVIOUS
<1> PICK dated : dated = {p \in Drawn(r) : Within(m, contributions[p].date, asOf)}
    OBVIOUS
<1> PICK key : key = [p \in dated |-> KeyOf(p)]
    OBVIOUS
<1> PICK D : D = {key[p] : p \in dated}
    OBVIOUS
<1> PICK on : on = [k \in D |-> Max({contributions[p].date : p \in {q \in dated : key[q] = k}})]
    OBVIOUS
<1> PICK B : B = {x \in D \X D : \/ on[x[1]] > on[x[2]]
                                 \/ on[x[1]] = on[x[2]] /\ Rank(x[1]) < Rank(x[2])}
    OBVIOUS
<1>1. \A p \in dated : key[p] = KeyOf(p)
    OBVIOUS
<1>2. KeyRanking(contributions, dated, key, D, on, B)
    BY <1>1 DEF KeyRanking, KeyOf
<1>3. Ranking(r, m, asOf, dated, key, D, on, B)
    BY <1>1, <1>2 DEF Ranking
<1> QED
    BY <1>3

\* It has one after a step, too.
LEMMA RankingExistsAfter ==
    (\A r, m, asOf : \E dated, key, D, on, B : Ranking(r, m, asOf, dated, key, D, on, B))'
    BY RankingExists, PTL

\* A payment brings its own occurrence among the last, or forward among them, and moves
\* no other.
LEMMA OccurrencesMove ==
    ASSUME MatrixTypeOK, MatrixTypeOK', NEW m, NEW new, NEW body, Paid(m, new, body),
           NEW r \in Rules, NEW asOf, NEW K, K = PaidKey(body),
           NEW W, W = Occurrences(r, m, asOf), NEW V, V = Occurrences(r, m, asOf)'
    PROVE  /\ IsFiniteSet(W) /\ IsFiniteSet(V)
           /\ V = W \/ (K \notin W /\ (V = W \cup {K} \/ \E z \in W : V = (W \ {z}) \cup {K}))
           /\ V = W \/ body.category \in Rule[r].draws
<1> PICK dated, key, D, on, B : Ranking(r, m, asOf, dated, key, D, on, B)
    BY RankingExists
<1> PICK dated2, key2, E, on2, C : Ranking(r, m, asOf, dated2, key2, E, on2, C)'
    BY RankingExistsAfter
<1> PICK n : n = Rule[r].value
    OBVIOUS
<1>1. n \in Nat
    BY MatrixAssumption DEF MatrixRule
<1>2. /\ W = {x \in D : Cardinality({y \in D : <<y, x>> \in B}) < n}
      /\ V = {x \in E : Cardinality({y \in E : <<y, x>> \in C}) < n}
    BY LastRanked, LastRankedAfter
<1>3. /\ Ranked(B, D) /\ IsFiniteSet(D)
      /\ \A k \in D : on[k] \in Nat /\ \E p \in dated : key[p] = k /\ contributions[p].date = on[k]
      /\ \A p \in dated : contributions[p].date <= on[key[p]]
    BY RankingRanks
<1>4. /\ Ranked(C, E) /\ IsFiniteSet(E)
      /\ \A k \in E : /\ on2[k] \in Nat
                      /\ \E p \in dated2 : key2[p] = k /\ contributions'[p].date = on2[k]
      /\ \A p \in dated2 : contributions'[p].date <= on2[key2[p]]
    BY RankingRanksAfter
<1>5. IsFiniteSet(W) /\ IsFiniteSet(V)
    BY <1>2, <1>3, <1>4, FS_Subset
<1>6. /\ dated = {p \in Drawn(r) : Within(m, contributions[p].date, asOf)}
      /\ dated2 = {p \in Drawn(r)' : Within(m, contributions'[p].date, asOf)}
      /\ \A p \in dated : key[p] = KeyOf(p)
      /\ \A p \in dated2 : key2[p] = KeyOf(p)'
    BY DEF Ranking, Within
<1>7. /\ \A p \in dated : /\ p \in dated2 /\ key2[p] = key[p] /\ p \notin new
                          /\ contributions'[p] = contributions[p]
      /\ \A p \in dated2 : p \in dated \/ (p \in new /\ key2[p] = K /\ body.category \in Rule[r].draws)
    <2>1. /\ \A p \in Recorded : KeyOf(p)' = KeyOf(p)
          /\ \A p \in new : KeyOf(p)' = PaidKey(body)
          /\ Drawn(r) \subseteq Recorded
          /\ body.category \in Rule[r].draws => Drawn(r)' = Drawn(r) \cup new
          /\ body.category \notin Rule[r].draws => Drawn(r)' = Drawn(r)
        BY DrawnAfter
    <2>2. Recorded \cap new = {} /\ \A p \in Recorded : contributions'[p] = contributions[p]
        BY DEF Paid
    <2>3. ASSUME NEW p \in dated
          PROVE  /\ p \in dated2 /\ key2[p] = key[p] /\ p \notin new
                 /\ contributions'[p] = contributions[p]
        <3>1. p \in Drawn(r) /\ p \in Recorded /\ p \in Drawn(r)'
            BY <1>6, <2>1
        <3>2. contributions'[p] = contributions[p] /\ p \notin new
            BY <2>2, <3>1
        <3>3. p \in dated2
            BY <1>6, <3>1, <3>2
        <3> QED
            BY <1>6, <2>1, <3>1, <3>2, <3>3
    <2>4. ASSUME NEW p \in dated2, p \notin dated
          PROVE  p \in new /\ key2[p] = K /\ body.category \in Rule[r].draws
        <3>1. p \in Drawn(r)' /\ Within(m, contributions'[p].date, asOf)
            BY <1>6
        <3>2. p \notin Drawn(r)
            BY <1>6, <2>1, <2>2, <2>4, <3>1
        <3>3. p \in new /\ body.category \in Rule[r].draws
            BY <2>1, <3>1, <3>2
        <3> QED
            BY <1>6, <2>1, <3>3
    <2> QED
        BY <2>3, <2>4
<1>8. /\ D = {key[p] : p \in dated} /\ E = {key2[p] : p \in dated2}
      /\ \A x, y \in D : <<x, y>> \in B <=> on[x] > on[y] \/ (on[x] = on[y] /\ Rank(x) < Rank(y))
      /\ \A x, y \in E : <<x, y>> \in C <=> on2[x] > on2[y] \/ (on2[x] = on2[y] /\ Rank(x) < Rank(y))
    BY DEF Ranking, KeyRanking
<1>9. D \subseteq E
    BY <1>7, <1>8
<1>10. ASSUME NEW k \in D PROVE on[k] \in Nat /\ on2[k] \in Nat /\ on[k] <= on2[k]
    <2>1. PICK p \in dated : key[p] = k /\ contributions[p].date = on[k]
        BY <1>3
    <2>2. contributions'[p].date <= on2[key2[p]]
        BY <1>4, <1>7
    <2>3. contributions'[p].date = on[k] /\ key2[p] = k
        BY <1>7, <2>1
    <2>4. on[k] \in Nat /\ on2[k] \in Nat
        BY <1>3, <1>4, <1>9
    <2> QED
        BY <2>2, <2>3, <2>4
<1>11. ASSUME NEW k \in E, k # K \/ dated2 = dated PROVE k \in D /\ on2[k] = on[k]
    <2>1. PICK p \in dated2 : key2[p] = k /\ contributions'[p].date = on2[k]
        BY <1>4
    <2>2. p \in dated /\ key[p] = k /\ contributions[p].date = on2[k]
        BY <1>7, <1>11, <2>1
    <2>3. k \in D /\ on2[k] <= on[k]
        BY <1>3, <1>8, <2>2
    <2> QED
        BY <1>10, <2>3
<1>12. ASSUME NEW x \in D, NEW y \in D, (x # K /\ y # K) \/ dated2 = dated
       PROVE  <<x, y>> \in B <=> <<x, y>> \in C
    <2>1. on2[x] = on[x] /\ on2[y] = on[y]
        BY <1>9, <1>11, <1>12
    <2>2. x \in E /\ y \in E
        BY <1>9
    <2> QED
        BY <1>8, <2>1, <2>2
<1>13. ASSUME NEW y \in D, K \in D, <<K, y>> \in B PROVE <<K, y>> \in C
    <2>1. y # K
        BY <1>3, <1>13 DEF Ranked
    <2>2. on2[y] = on[y] /\ on[K] <= on2[K] /\ on[K] \in Nat /\ on2[K] \in Nat /\ on[y] \in Nat
        BY <1>9, <1>10, <1>11, <1>13, <2>1
    <2>3. on[K] > on[y] \/ (on[K] = on[y] /\ Rank(K) < Rank(y))
        BY <1>8, <1>13
    <2>4. on2[K] > on2[y] \/ (on2[K] = on2[y] /\ Rank(K) < Rank(y))
        BY ONLY <2>2, <2>3
    <2> QED
        BY <1>8, <1>9, <1>13, <2>4
<1>14. CASE dated2 # dated
    <2>1. PICK p \in dated2 : p \notin dated
        BY <1>7, <1>14
    <2>2. K \in E /\ body.category \in Rule[r].draws
        BY <1>7, <1>8, <2>1
    <2>3. E = D \cup {K}
        BY <1>9, <1>11, <2>2
    <2>5. MovesUp(K, D, B, C)
        BY <1>12, <1>13 DEF MovesUp
    <2>6. /\ Ranked(B, D) /\ Ranked(C, D \cup {K}) /\ IsFiniteSet(D)
          /\ W = Foremost(n, D, B) /\ V = Foremost(n, D \cup {K}, C)
        BY ONLY <1>2, <1>3, <1>4, <2>3 DEF Foremost
    <2>7. V = W \/ (K \notin W /\ (V = W \cup {K} \/ \E z \in W : V = (W \ {z}) \cup {K}))
        BY ONLY <1>1, <2>5, <2>6, OneComesIn
    <2> QED
        BY <1>5, <2>2, <2>7
<1>15. CASE dated2 = dated
    <2>1. E = D
        BY <1>9, <1>11, <1>15
    <2>2. ASSUME NEW x \in D
          PROVE  {y \in D : <<y, x>> \in B} = {y \in D : <<y, x>> \in C}
        BY <1>12, <1>15
    <2>3. \A x \in D : Cardinality({y \in D : <<y, x>> \in B})
                        = Cardinality({y \in D : <<y, x>> \in C})
        BY ONLY <2>2
    <2>4. V = {x \in D : Cardinality({y \in D : <<y, x>> \in C}) < n}
        BY ONLY <1>2, <2>1
    <2>5. V = W
        BY ONLY <1>2, <2>3, <2>4
    <2> QED
        BY <1>5, <2>5
<1> QED
    BY <1>14, <1>15

-----------------------------------------------------------------------------
\* What is counted and met after a good deed.

\* Paying leaves no item with less met of what is counted.
LEMMA PaymentNoWorse ==
    ASSUME MatrixTypeOK, MatrixTypeOK', NEW m \in MemberIds, NEW new, NEW body, Paid(m, new, body),
           NEW r \in Rules, NEW asOf
    PROVE  NoWorse(Tally(r, m, asOf).count, Tally(r, m, asOf).total,
                   Tally(r, m, asOf)'.count, Tally(r, m, asOf)'.total)
<1> DEFINE met == {x \in Counted(r, m, asOf) : Met(r, m, asOf, x)}
<1> PICK W, V, A, M : /\ W = Counted(r, m, asOf) /\ V = Counted(r, m, asOf)'
                      /\ A = met /\ M = met'
    OBVIOUS
<1> PICK K : K = PaidKey(body)
    OBVIOUS
<1>1. /\ Tally(r, m, asOf).count = Cardinality(A) /\ Tally(r, m, asOf).total = Cardinality(W)
      /\ Tally(r, m, asOf)'.count = Cardinality(M) /\ Tally(r, m, asOf)'.total = Cardinality(V)
    BY DEF Tally
<1>2. /\ A = {x \in W : Met(r, m, asOf, x)} /\ M = {x \in V : Met(r, m, asOf, x)'}
      /\ A \in SUBSET W /\ M \in SUBSET V
    OBVIOUS
<1> HIDE DEF met
<1>3. CASE Rule[r].window = "last_n_paid"
    <2>1. W = Occurrences(r, m, asOf) /\ V = Occurrences(r, m, asOf)'
        BY <1>3 DEF Counted
    <2>2. /\ IsFiniteSet(W) /\ IsFiniteSet(V)
          /\ V = W \/ (K \notin W /\ (V = W \cup {K} \/ \E z \in W : V = (W \ {z}) \cup {K}))
          /\ V = W \/ body.category \in Rule[r].draws
        BY <2>1, OccurrencesMove
    <2>3. ASSUME NEW x PROVE /\ Met(r, m, asOf, x) <=> OccurrencePaid(r, m, x, asOf)
                             /\ Met(r, m, asOf, x)' <=> OccurrencePaid(r, m, x, asOf)'
        BY <1>3 DEF Met, AttendanceWindows
    <2>4. A \cap V \subseteq M
        BY <1>2, <2>3, OccurrenceStaysPaid
    <2>5. K \in V \ W => K \in M
        BY <1>2, <2>2, <2>3, OccurrenceStaysPaid
    <2>6. NoWorse(Cardinality(A), Cardinality(W), Cardinality(M), Cardinality(V))
        BY ONLY <1>2, <2>2, <2>4, <2>5, CountsNoWorse
    <2> QED
        BY <1>1, <2>6
<1>4. CASE Rule[r].window # "last_n_paid"
    <2>1. V = W
        <3>1. SameEvents(m, asOf)
            BY DEF Paid, SameEvents
        <3> QED
            BY <1>4, <3>1, EventsCountedInTime
    <2>2. IsFiniteSet(W)
        BY CountedFinite
    <2>3. ASSUME NEW x, Met(r, m, asOf, x) PROVE Met(r, m, asOf, x)'
        <3>1. /\ AffiliationPaid(r, m, asOf) => AffiliationPaid(r, m, asOf)'
              /\ MonthPaid(r, m, x) => MonthPaid(r, m, x)'
              /\ WeddingPaid(r, m, x) => WeddingPaid(r, m, x)'
            BY DuesStayPaid
        <3>2. Satisfied(m, x)' <=> Satisfied(m, x)
            BY DEF Satisfied, Paid
        <3>3. Rule[r].window \in Windows
            BY MatrixAssumption DEF MatrixRule
        <3> QED
            BY <1>4, <2>3, <3>1, <3>2, <3>3 DEF Met, Windows, AttendanceWindows
    <2>4. A \cap V \subseteq M
        BY <1>2, <2>1, <2>3
    <2>5. NoWorse(Cardinality(A), Cardinality(W), Cardinality(M), Cardinality(V))
        BY ONLY <1>2, <2>1, <2>2, <2>4, CountsNoWorse
    <2> QED
        BY <1>1, <2>5
<1> QED
    BY <1>3, <1>4

\* A register gives those it names one of the three marks.
LEMMA MarksStand ==
    ASSUME MatrixTypeOK, [MatrixNext]_matrixVars, NEW m \in MemberIds, NEW e \in EventIds,
           attendance'[m][e] # attendance[m][e]
    PROVE  attendance'[m][e] \in Statuses
<1>1. \E f \in EventIds, entries \in Registers : SaveRegister(f, entries)
    BY DEF MatrixNext, matrixVars, CreateEvent, CreateRecurring, CreateNovena, AddEvents, DeleteEvent,
       Contribute, EditContribution, DeleteContribution
<1>2. PICK f \in EventIds, entries \in Registers : SaveRegister(f, entries)
    BY <1>1
<1>3. \A x \in DOMAIN entries : entries[x] \in Statuses
    BY InputAssumption
<1>4. attendance'[m] = IF m \in DOMAIN entries THEN [attendance[m] EXCEPT ![f] = entries[m]]
                       ELSE attendance[m]
    BY <1>2 DEF SaveRegister
<1>5. m \in DOMAIN entries /\ e = f
    BY <1>4
<1> QED
    BY <1>3, <1>4, <1>5 DEF MatrixTypeOK

\* Nor does coming to a meeting, or sending an apology.
LEMMA AttendanceNoWorse ==
    ASSUME MatrixTypeOK, MatrixTypeOK', [MatrixNext]_matrixVars, NEW m \in MemberIds, Attended(m),
           NEW r \in Rules, NEW asOf
    PROVE  NoWorse(Tally(r, m, asOf).count, Tally(r, m, asOf).total,
                   Tally(r, m, asOf)'.count, Tally(r, m, asOf)'.total)
<1> DEFINE met == {x \in Counted(r, m, asOf) : Met(r, m, asOf, x)}
<1> PICK W, V, A, M : /\ W = Counted(r, m, asOf) /\ V = Counted(r, m, asOf)'
                      /\ A = met /\ M = met'
    OBVIOUS
<1>1. /\ Tally(r, m, asOf).count = Cardinality(A) /\ Tally(r, m, asOf).total = Cardinality(W)
      /\ Tally(r, m, asOf)'.count = Cardinality(M) /\ Tally(r, m, asOf)'.total = Cardinality(V)
    BY DEF Tally
<1>2. /\ A = {x \in W : Met(r, m, asOf, x)} /\ M = {x \in V : Met(r, m, asOf, x)'}
      /\ A \in SUBSET W /\ M \in SUBSET V
    OBVIOUS
<1> HIDE DEF met
<1>3. contributions' = contributions /\ SameEvents(m, asOf)
    BY DEF Attended, SameEvents
<1>4. Rule[r].window \in Windows
    BY MatrixAssumption DEF MatrixRule
<1>5. V = W /\ IsFiniteSet(W)
    <2>1. Counted(r, m, asOf)' = Counted(r, m, asOf)
        BY <1>3, OccurrencesStand, EventsCountedInTime DEF Counted
    <2> QED
        BY <2>1, CountedFinite
<1>6. ASSUME NEW x \in W, Met(r, m, asOf, x) PROVE Met(r, m, asOf, x)'
    <2>1. CASE Rule[r].window \in AttendanceWindows
        <3>1. x \in EventIds
            <4>1. x \in HeldFor(r, m, asOf)
                BY <2>1, <1>6
                   DEF Counted, AttendanceWindows, Rolling, LastOccurrences, First, LastSeries
            <4> QED
                BY <4>1 DEF HeldFor, Held
        <3>2. attendance[m][x] \in {"present", "apology"}
            BY <1>6, <2>1 DEF Met, Satisfied, AttendanceWindows
        <3>3. attendance'[m][x] \in {"present", "apology"}
            <4>1. CASE attendance'[m][x] = attendance[m][x]
                BY <3>2, <4>1
            <4>2. CASE attendance'[m][x] # attendance[m][x]
                <5>1. attendance'[m][x] \in Statuses
                    BY <3>1, <4>2, MarksStand
                <5>2. attendance'[m][x] # "absent"
                    BY <3>1, <4>2 DEF Attended
                <5> QED
                    BY <5>1, <5>2 DEF Statuses
            <4> QED
                BY <4>1, <4>2
        <3> QED
            BY <2>1, <3>3 DEF Met, Satisfied, AttendanceWindows
    <2>2. CASE Rule[r].window \in {"mandatory", "monthly", "frequency", "last_n_paid"}
        <3>1. /\ AffiliationPaid(r, m, asOf)' <=> AffiliationPaid(r, m, asOf)
              /\ MonthPaid(r, m, x)' <=> MonthPaid(r, m, x)
              /\ WeddingPaid(r, m, x)' <=> WeddingPaid(r, m, x)
              /\ OccurrencePaid(r, m, x, asOf)' <=> OccurrencePaid(r, m, x, asOf)
            BY <1>3, PaidStands, OccurrencePaidStands
        <3> QED
            BY <1>6, <2>2, <3>1 DEF Met, AttendanceWindows
    <2> QED
        BY <1>4, <2>1, <2>2 DEF Windows, AttendanceWindows
<1>7. A \cap V \subseteq M
    BY <1>2, <1>5, <1>6
<1>8. NoWorse(Cardinality(A), Cardinality(W), Cardinality(M), Cardinality(V))
    BY ONLY <1>2, <1>5, <1>7, CountsNoWorse
<1> QED
    BY <1>1, <1>8

-----------------------------------------------------------------------------
\* What it scores.

\* A factor may be taken out of an inequality.
LEMMA Cancel ==
    ASSUME NEW x \in Nat, NEW y \in Nat, NEW t \in Nat \ {0}, y * t <= x * t
    PROVE  y <= x
<1> SUFFICES ASSUME x + 1 <= y PROVE FALSE
    OBVIOUS
<1>1. (x + 1) * t <= y * t
    BY Times, x + 1 \in Nat
<1>2. (x + 1) * t = x * t + t /\ x * t \in Nat /\ y * t \in Nat
    OBVIOUS
<1> QED
    BY <1>1, <1>2

\* A quotient is a whole number, and no smaller one would do.
LEMMA Rounded ==
    ASSUME NEW x \in Nat, NEW t \in Nat \ {0}
    PROVE  /\ x \div t \in Nat /\ (x \div t) * t <= x
           /\ \A q \in Nat : q * t <= x => q <= x \div t
<1> PICK d, e : d = x \div t /\ e = x % t
    OBVIOUS
<1>1. d \in Nat /\ e \in Nat /\ e < t /\ x = d * t + e /\ d * t \in Nat
    BY Z3
<1>2. ASSUME NEW q \in Nat, q * t <= x PROVE q <= d
    <2> SUFFICES ASSUME d + 1 <= q PROVE FALSE
        BY <1>1
    <2>1. (d + 1) * t <= q * t /\ q * t \in Nat
        BY <1>1, Times, d + 1 \in Nat
    <2>2. (d + 1) * t = d * t + t
        BY <1>1
    <2> QED
        BY <1>1, <1>2, <2>1, <2>2
<1> QED
    BY <1>1, <1>2

\* What of a whole is a part of n, when a greater share is met.
LEMMA SharesNoWorse ==
    ASSUME NEW c \in Nat, NEW t \in Nat \ {0}, NEW c2 \in Nat, NEW t2 \in Nat \ {0},
           c * t2 <= c2 * t
    PROVE  /\ \A n \in Nat : (n * c) \div t <= (n * c2) \div t2
           /\ \A least \in Nat : 100 * c >= least * t => 100 * c2 >= least * t2
<1>1. ASSUME NEW n \in Nat, NEW q \in Nat, q * t <= n * c PROVE q * t2 <= n * c2
    <2>1. (q * t) * t2 <= (n * c) * t2
        BY <1>1, Times
    <2>2. n * (c * t2) <= n * (c2 * t)
        <3>1. (c * t2) * n <= (c2 * t) * n
            BY Times, c * t2 \in Nat, c2 * t \in Nat
        <3> QED
            BY <3>1
    <2>3. (q * t2) * t <= (n * c2) * t
        BY <2>1, <2>2
    <2> QED
        BY <2>3, Cancel, q * t2 \in Nat, n * c2 \in Nat
<1>2. ASSUME NEW n \in Nat PROVE (n * c) \div t <= (n * c2) \div t2
    <2> PICK q : q = (n * c) \div t
        OBVIOUS
    <2>1. n * c \in Nat /\ n * c2 \in Nat
        OBVIOUS
    <2>2. q \in Nat /\ q * t <= n * c
        BY <2>1, Rounded
    <2>3. q * t2 <= n * c2
        BY <1>1, <2>2
    <2> QED
        BY <2>1, <2>2, <2>3, Rounded
<1>3. ASSUME NEW least \in Nat, 100 * c >= least * t PROVE 100 * c2 >= least * t2
    <2>1. least * t <= 100 * c
        BY <1>3
    <2>2. least * t2 <= 100 * c2
        BY <1>1, <2>1
    <2> QED
        BY <2>2
<1> QED
    BY <1>2, <1>3

\* What the rules have come to, each with what is counted of it and what of that is met.
Tallies(a) ==
    \A r \in Rules : a[r].item = r /\ a[r].count \in Nat /\ a[r].total \in Nat
Applying(a) == {i \in {a[r] : r \in Rules} : i.total > 0}

\* What an item scores is a number; one met in full scores all its points.
LEMMA ItemScores ==
    ASSUME NEW a, Tallies(a), NEW r \in Rules, a[r].total > 0
    PROVE  /\ ItemScore(a[r]) \in Nat
           /\ a[r].count = a[r].total => ItemScore(a[r]) = Parts * Rule[r].points
<1> PICK p, n, c, q : /\ p = Rule[r].points /\ n = a[r].total /\ c = a[r].count
                      /\ q = p * Parts
    OBVIOUS
<1>1. p \in Nat /\ n \in Nat \ {0} /\ c \in Nat /\ q \in Nat /\ Rule[r].threshold \in 0..100
    BY MatrixAssumption DEF MatrixRule, Tallies, Parts
<1>2. a[r].item = r
    BY DEF Tallies
<1>3. ItemScore(a[r]) = IF Rule[r].gate /\ ~ThresholdMet(a[r]) THEN 0 ELSE (q * c) \div n
    BY <1>2 DEF ItemScore
<1>4. q * c \in Nat
    BY <1>1
<1>5. (q * c) \div n \in Nat
    BY <1>1, <1>4, Rounded
<1>6. ASSUME c = n PROVE ItemScore(a[r]) = Parts * p
    <2>1. ThresholdMet(a[r])
        BY <1>1, <1>2, <1>6, Times DEF ThresholdMet
    <2>2. (q * c) \div n = q
        BY <1>1, <1>6, Quotient
    <2> QED
        BY <1>1, <1>3, <2>1, <2>2 DEF Parts
<1> QED
    BY <1>3, <1>5, <1>6

\* The score of some rules, and what they can attain, added up rule by rule.
LEMMA ScoreOverRules ==
    ASSUME NEW a, Tallies(a), NEW rules \in SUBSET Rules,
           NEW scored, scored = {i \in Applying(a) : i.item \in rules},
           NEW R, R = {r \in rules : a[r].total > 0}
    PROVE  /\ Score(scored) = Sum([r \in Rules |-> ItemScore(a[r])], R)
           /\ Attainable(scored) = Sum([r \in Rules |-> Rule[r].points], R)
           /\ Score(scored) \in Nat /\ Attainable(scored) \in Nat
<1> PICK f, g, s, h, t : /\ f = [r \in Rules |-> ItemScore(a[r])]
                         /\ g = [r \in Rules |-> Rule[r].points]
                         /\ s = [i \in scored |-> ItemScore(i)]
                         /\ h = [i \in scored |-> i.item]
                         /\ t = [r \in R |-> Rule[r].points]
    OBVIOUS
<1>1. IsFiniteSet(R) /\ R \subseteq Rules
    BY MatrixAssumption, FS_Subset
<1>2. /\ \A i \in scored : i.item \in R /\ i = a[i.item]
      /\ \A r \in R : a[r] \in scored /\ a[r].item = r
    BY DEF Applying, Tallies
<1>3. scored = {a[r] : r \in R}
    BY <1>2
<1>4. IsFiniteSet(scored)
    BY <1>1, <1>3, ImageFinite
<1>5. ASSUME NEW r \in R PROVE f[r] \in Nat /\ g[r] \in Nat /\ t[r] = g[r]
    <2>1. r \in Rules /\ a[r].total > 0
        OBVIOUS
    <2>2. ItemScore(a[r]) \in Nat
        BY <2>1, ItemScores
    <2> QED
        BY <2>1, <2>2, MatrixAssumption DEF MatrixRule
<1>6. ASSUME NEW x \in scored PROVE h[x] \in R /\ f[h[x]] \in Nat /\ s[x] = 1 * f[h[x]]
    <2> PICK r \in R : x = a[r] /\ r = x.item
        BY <1>2
    <2>1. h[x] = r
        OBVIOUS
    <2>2. f[r] = ItemScore(a[r])
        BY <1>1
    <2>3. s[x] = ItemScore(x)
        OBVIOUS
    <2>4. f[r] \in Nat
        BY <1>5
    <2>5. s[x] = f[r]
        BY <2>2, <2>3
    <2> QED
        BY ONLY <2>1, <2>4, <2>5, r \in R
<1>6a. ASSUME NEW x \in scored, NEW y \in scored, h[x] = h[y] PROVE x = y
    <2>1. h[x] = x.item /\ h[y] = y.item
        OBVIOUS
    <2> QED
        BY <1>2, <1>6a, <2>1
<1>7. {h[x] : x \in scored} = R
    <2>1. \A x \in scored : h[x] \in R
        BY <1>6
    <2>2. ASSUME NEW r \in R PROVE \E x \in scored : h[x] = r
        <3>1. a[r] \in scored /\ a[r].item = r
            BY <1>2
        <3>2. h[a[r]] = r
            BY <3>1
        <3> QED
            BY ONLY <3>1, <3>2
    <2> QED
        BY ONLY <2>1, <2>2
<1>8. {i.item : i \in scored} = R
    BY <1>2
<1>9. Sum(f, R) \in Nat /\ Sum(g, R) \in Nat
    BY <1>1, <1>5, SumType
<1>10. Score(scored) = Sum(f, R)
    <2>1. Score(scored) = Sum(s, scored)
        BY TotalIsSum DEF Score
    <2>2. 1 \in Nat
        OBVIOUS
    <2>3. Sum(s, scored) = 1 * Sum(f, {h[x] : x \in scored})
        BY ONLY <1>4, <1>6, <1>6a, <2>2, SumImage
    <2> QED
        BY ONLY <1>7, <1>9, <2>1, <2>3
<1>11. Attainable(scored) = Sum(g, R)
    <2>1. Attainable(scored) = Sum(t, R)
        BY <1>8, TotalIsSum DEF Attainable, Points
    <2>2. Sum(t, R) = Sum(g, R)
        BY <1>1, <1>5, SumsOfSame
    <2> QED
        BY <2>1, <2>2
<1> QED
    BY <1>9, <1>10, <1>11

\* An item that is no worse met scores no less.
LEMMA ItemNoWorse ==
    ASSUME NEW a, Tallies(a), NEW b, Tallies(b), NEW r \in Rules, a[r].total > 0,
           NoWorse(a[r].count, a[r].total, b[r].count, b[r].total)
    PROVE  b[r].total > 0 /\ ItemScore(a[r]) <= ItemScore(b[r])
<1> PICK n, least, c, t, c2, t2 : /\ n = Rule[r].points * Parts /\ least = Rule[r].threshold
                                  /\ c = a[r].count /\ t = a[r].total
                                  /\ c2 = b[r].count /\ t2 = b[r].total
    OBVIOUS
<1>1. /\ n \in Nat /\ least \in Nat /\ c \in Nat /\ t \in Nat \ {0} /\ c2 \in Nat /\ t2 \in Nat
      /\ a[r].item = r /\ b[r].item = r
    BY MatrixAssumption DEF MatrixRule, Parts, Tallies
<1>2. t2 \in Nat \ {0} /\ c * t2 <= c2 * t
    <2>1. c2 * t >= c * t2 /\ t2 > 0
        BY <1>1 DEF NoWorse
    <2>2. c2 * t \in Nat /\ c * t2 \in Nat
        BY <1>1
    <2> QED
        BY <1>1, <2>1, <2>2
<1>3. /\ (n * c) \div t <= (n * c2) \div t2
      /\ 100 * c >= least * t => 100 * c2 >= least * t2
    <2>1. /\ \A k \in Nat : (k * c) \div t <= (k * c2) \div t2
          /\ \A k \in Nat : 100 * c >= k * t => 100 * c2 >= k * t2
        BY ONLY <1>1, <1>2, SharesNoWorse
    <2> QED
        BY ONLY <1>1, <2>1
<1>4. ThresholdMet(a[r]) => ThresholdMet(b[r])
    BY <1>1, <1>3 DEF ThresholdMet
<1>5. /\ ItemScore(a[r]) = IF Rule[r].gate /\ ~ThresholdMet(a[r]) THEN 0 ELSE (n * c) \div t
      /\ ItemScore(b[r]) = IF Rule[r].gate /\ ~ThresholdMet(b[r]) THEN 0 ELSE (n * c2) \div t2
    BY <1>1 DEF ItemScore
<1>6. ItemScore(b[r]) \in Nat /\ t2 > 0 /\ b[r].total > 0
    BY <1>2, ItemScores
<1> PICK u, v : u = (n * c) \div t /\ v = (n * c2) \div t2
    OBVIOUS
<1>7. u <= v
    BY ONLY <1>3, u = (n * c) \div t, v = (n * c2) \div t2
<1>8. u \in Nat /\ v \in Nat
    <2>1. n * c \in Nat /\ n * c2 \in Nat
        BY <1>1
    <2> QED
        BY <1>1, <1>2, <2>1, Rounded
<1>9. ItemScore(a[r]) \in {0, u} /\ ItemScore(b[r]) \in {0, v}
      /\ (ItemScore(b[r]) = v \/ ItemScore(a[r]) = 0)
    BY <1>4, <1>5
<1> QED
    BY <1>6, <1>7, <1>8, <1>9

\* No rule has come to less.
NoneWorse(a, b) ==
    /\ Tallies(a) /\ Tallies(b)
    /\ \A r \in Rules : NoWorse(a[r].count, a[r].total, b[r].count, b[r].total)

\* A score gained all the points of what came to be measured.
Gained(had, has) ==
    /\ Score(had) \in Nat /\ Score(has) \in Nat /\ Attainable(had) \in Nat
    /\ \E d \in Nat : /\ Attainable(has) = Attainable(had) + d
                      /\ Score(had) + Parts * d <= Score(has)

\* When nothing is met less, the score keeps what it had, and gains all the points of
\* what there is now to measure against.
LEMMA ScoresGain ==
    ASSUME NEW a, NEW b, NoneWorse(a, b),
           NEW rules \in SUBSET Rules,
           NEW had, had = {i \in Applying(a) : i.item \in rules},
           NEW has, has = {i \in Applying(b) : i.item \in rules}
    PROVE  Gained(had, has)
<1> PICK R, V, f, g, f2, h : /\ R = {r \in rules : a[r].total > 0}
                             /\ V = {r \in rules : b[r].total > 0}
                             /\ f = [r \in Rules |-> ItemScore(a[r])]
                             /\ f2 = [r \in Rules |-> ItemScore(b[r])]
                             /\ g = [r \in Rules |-> Rule[r].points]
                             /\ h = [r \in Rules |-> r]
    OBVIOUS
<1> PICK N : N = V \ R
    OBVIOUS
<1>0. Tallies(a) /\ Tallies(b)
    BY DEF NoneWorse
<1>1. /\ Score(had) = Sum(f, R) /\ Attainable(had) = Sum(g, R)
      /\ Score(had) \in Nat /\ Attainable(had) \in Nat
    <2>1. /\ Score(had) = Sum([r \in Rules |-> ItemScore(a[r])], R)
          /\ Attainable(had) = Sum([r \in Rules |-> Rule[r].points], R)
          /\ Score(had) \in Nat /\ Attainable(had) \in Nat
        BY <1>0, ScoreOverRules
    <2> QED
        BY <2>1
<1>2. Score(has) = Sum(f2, V) /\ Attainable(has) = Sum(g, V) /\ Score(has) \in Nat
    <2>1. /\ Score(has) = Sum([r \in Rules |-> ItemScore(b[r])], V)
          /\ Attainable(has) = Sum([r \in Rules |-> Rule[r].points], V)
          /\ Score(has) \in Nat /\ Attainable(has) \in Nat
        BY <1>0, ScoreOverRules
    <2> QED
        BY <2>1
<1>3. ASSUME NEW r \in R
      PROVE  r \in V /\ f[r] \in Nat /\ f2[r] \in Nat /\ f[r] <= f2[r]
    <2>1. r \in Rules /\ a[r].total > 0 /\ NoWorse(a[r].count, a[r].total, b[r].count, b[r].total)
        BY DEF NoneWorse
    <2>2. b[r].total > 0 /\ ItemScore(a[r]) <= ItemScore(b[r])
        BY <1>0, <2>1, ItemNoWorse
    <2>3. ItemScore(a[r]) \in Nat /\ ItemScore(b[r]) \in Nat
        BY <1>0, <2>1, <2>2, ItemScores
    <2> QED
        BY <2>1, <2>2, <2>3
<1>4. ASSUME NEW r \in V PROVE f2[r] \in Nat /\ g[r] \in Nat
    <2>1. r \in Rules /\ b[r].total > 0
        OBVIOUS
    <2>2. ItemScore(b[r]) \in Nat
        BY <1>0, <2>1, ItemScores
    <2> QED
        BY <2>1, <2>2, MatrixAssumption DEF MatrixRule
<1>5. ASSUME NEW r \in N PROVE g[h[r]] \in Nat /\ f2[r] = Parts * g[h[r]]
    <2>1. /\ r \in Rules /\ r \in V /\ b[r].total > 0 /\ ~ a[r].total > 0
          /\ NoWorse(a[r].count, a[r].total, b[r].count, b[r].total)
        BY DEF NoneWorse
    <2>2. a[r].total \in Nat
        BY <1>0, <2>1 DEF Tallies
    <2>3. b[r].count = b[r].total
        BY <2>1, <2>2 DEF NoWorse
    <2>4. ItemScore(b[r]) = Parts * Rule[r].points
        BY <1>0, <2>1, <2>3, ItemScores
    <2>5. h[r] = r /\ f2[r] = ItemScore(b[r]) /\ g[r] = Rule[r].points
        BY <2>1
    <2>6. g[r] \in Nat
        BY <1>4, <2>1
    <2> QED
        BY <2>4, <2>5, <2>6
<1>6. IsFiniteSet(V) /\ IsFiniteSet(N) /\ IsFiniteSet(R) /\ R \in SUBSET V
    <2>1. R \subseteq V
        BY <1>3
    <2> QED
        BY <2>1, MatrixAssumption, FS_Subset
<1>7. Sum(f, R) <= Sum(f2, R)
    BY <1>3, <1>6, SumMore
<1>8. /\ Sum(f2, V) = Sum(f2, R) + Sum(f2, N)
      /\ Sum(g, V) = Sum(g, R) + Sum(g, N)
    BY <1>4, <1>6, SumSplit
<1>9. Sum(f2, N) = Parts * Sum(g, N)
    <2>1. Parts \in Nat
        BY DEF Parts
    <2>2. ASSUME NEW x \in N, NEW y \in N, h[x] = h[y] PROVE x = y
        <3>1. h[x] = x /\ h[y] = y
            OBVIOUS
        <3> QED
            BY <2>2, <3>1
    <2>3. {h[x] : x \in N} = N
        <3>1. \A x \in N : h[x] = x
            OBVIOUS
        <3> QED
            BY ONLY <3>1
    <2>4. Sum(f2, N) = Parts * Sum(g, {h[x] : x \in N})
        BY ONLY <1>5, <1>6, <2>1, <2>2, SumImage
    <2> QED
        BY ONLY <2>3, <2>4
<1>10. /\ Sum(f2, R) \in Nat /\ Sum(f2, N) \in Nat /\ Sum(g, N) \in Nat /\ Sum(g, R) \in Nat
       /\ Sum(f, R) \in Nat
    <2>1. \A r \in R : f2[r] \in Nat
        BY <1>3
    <2>2. \A r \in N : f2[r] \in Nat /\ g[r] \in Nat
        BY <1>4
    <2> QED
        BY <1>1, <1>6, <2>1, <2>2, SumType
<1>11. /\ Attainable(has) = Attainable(had) + Sum(g, N)
       /\ Score(had) + Parts * Sum(g, N) <= Score(has)
    BY ONLY <1>1, <1>2, <1>7, <1>8, <1>9, <1>10
<1> QED
    BY <1>1, <1>2, <1>10, <1>11 DEF Gained

\* A minimum that was reached is reached still: if it can be, where it is rescaled.
LEMMA ReachesStill ==
    ASSUME NEW a, NEW b, NoneWorse(a, b),
           NEW rules \in SUBSET Rules, NEW least \in Nat,
           Config.rescale => least <= Points(rules), Reaches(Applying(a), rules, least)
    PROVE  Reaches(Applying(b), rules, least)
<1> PICK had, has : /\ had = {i \in Applying(a) : i.item \in rules}
                    /\ has = {i \in Applying(b) : i.item \in rules}
    OBVIOUS
<1> PICK s, s2, x, p : s = Score(had) /\ s2 = Score(has) /\ x = Attainable(had) /\ p = Points(rules)
    OBVIOUS
<1>1. /\ s \in Nat /\ s2 \in Nat /\ x \in Nat /\ p \in Nat
      /\ \E d \in Nat : Attainable(has) = x + d /\ s + Parts * d <= s2
    <2>1. Gained(had, has)
        BY ScoresGain
    <2> QED
        BY <2>1, PointsAreNumbers DEF Gained
<1>2. PICK d \in Nat : Attainable(has) = x + d /\ s + 12 * d <= s2
    BY <1>1 DEF Parts
<1>3. CASE Config.rescale /\ p > 0
    <2>1. s * p >= least * x * 12 /\ least <= p
        BY <1>3 DEF Reaches, Parts
    <2>2. (s + 12 * d) * p <= s2 * p
        BY <1>1, <1>2, Times, s + 12 * d \in Nat
    <2>3. least * (12 * d) <= p * (12 * d)
        BY <1>1, <2>1, Times, 12 * d \in Nat
    <2>4. s2 * p >= least * (x + d) * 12
        <3>1. (s + 12 * d) * p = s * p + p * (12 * d)
            BY <1>1
        <3>2. least * (x + d) * 12 = least * x * 12 + least * (12 * d)
            BY <1>1
        <3>3. /\ s * p \in Nat /\ p * (12 * d) \in Nat /\ least * x * 12 \in Nat
              /\ least * (12 * d) \in Nat /\ s2 * p \in Nat
            BY <1>1
        <3> QED
            BY ONLY <2>1, <2>2, <2>3, <3>1, <3>2, <3>3
    <2> QED
        BY <1>2, <1>3, <2>4 DEF Reaches, Parts
<1>4. CASE ~(Config.rescale /\ p > 0)
    <2>1. s >= least * 12
        BY <1>4 DEF Reaches, Parts
    <2>2. s2 >= least * 12
        BY <1>1, <1>2, <2>1
    <2> QED
        BY <1>4, <2>2 DEF Reaches, Parts
<1> QED
    BY <1>3, <1>4

\* What a record needs for good standing, the gate aside.
Suffices(items) ==
    /\ Attainable(items) >= Config.attainable
    /\ Reaches(items, Rules, Config.overall)
    /\ \/ ~Config.enforce
       \/ /\ Reaches(items, In("spirituality"), Config.spirituality)
          /\ Reaches(items, In("financial"), Config.financial)

\* Good standing is the gate and the record.
LEMMA StandingIs ==
    \A m, asOf : m \in MemberIds =>
        (Standing(m, asOf) = "in_good_standing" <=> GatePassed(m, asOf) /\ Suffices(Items(m, asOf)))
<1> SUFFICES ASSUME NEW m \in MemberIds, NEW asOf
             PROVE  Standing(m, asOf) = "in_good_standing" <=>
                      GatePassed(m, asOf) /\ Suffices(Items(m, asOf))
    OBVIOUS
<1> PICK items : items = Items(m, asOf)
    OBVIOUS
<1>1. Attainable(items) \in Nat /\ Config.attainable \in Nat
    <2>1. {i.item : i \in items} \in SUBSET Rules
        BY ItemFields
    <2> QED
        BY <2>1, PointsAreNumbers, MatrixAssumption DEF Attainable, Configuration
<1> QED
    BY <1>1 DEF Standing, Suffices

\* It is so after the step as before it.
LEMMA StandingIsAfter ==
    (\A m, asOf : m \in MemberIds =>
        (Standing(m, asOf) = "in_good_standing" <=> GatePassed(m, asOf) /\ Suffices(Items(m, asOf))))'
    BY StandingIs, PTL

\* A record that suffices does so still when no rule has come to less.
LEMMA SufficesStill ==
    ASSUME Config.rescale => MinimumsFit, NEW a, NEW b, NoneWorse(a, b), Suffices(Applying(a))
    PROVE  Suffices(Applying(b))
<1>1. /\ Config.overall \in Nat /\ Config.spirituality \in Nat /\ Config.financial \in Nat
      /\ Config.attainable \in Nat
    BY MatrixAssumption DEF Configuration
<1>2. Rules \in SUBSET Rules /\ In("spirituality") \in SUBSET Rules /\ In("financial") \in SUBSET Rules
    BY DEF In
<1>3. ASSUME NEW rules \in SUBSET Rules, NEW least \in Nat, Config.rescale => least <= Points(rules),
             Reaches(Applying(a), rules, least)
      PROVE  Reaches(Applying(b), rules, least)
    BY ONLY <1>3, NoneWorse(a, b), ReachesStill
<1>4. Attainable(Applying(b)) >= Config.attainable
    <2> PICK had, has : /\ had = {i \in Applying(a) : i.item \in Rules}
                        /\ has = {i \in Applying(b) : i.item \in Rules}
        OBVIOUS
    <2>1. had = Applying(a) /\ has = Applying(b)
        BY DEF Applying, NoneWorse, Tallies
    <2>2. Gained(had, has)
        BY <1>2, ScoresGain
    <2>3. Attainable(had) >= Config.attainable
        BY <2>1 DEF Suffices
    <2>4. Attainable(has) >= Config.attainable
        BY <1>1, <2>2, <2>3 DEF Gained
    <2> QED
        BY <2>1, <2>4
<1> QED
    BY <1>1, <1>2, <1>3, <1>4 DEF Suffices, MinimumsFit

\* What a rule has come to is counted.
LEMMA TallyFields ==
    \A r, m, asOf : r \in Rules =>
        LET i == Tally(r, m, asOf) IN i.item = r /\ i.count \in Nat /\ i.total \in Nat
<1> SUFFICES ASSUME NEW r \in Rules, NEW m, NEW asOf
             PROVE  /\ Tally(r, m, asOf).item = r
                    /\ Tally(r, m, asOf).count \in Nat /\ Tally(r, m, asOf).total \in Nat
    OBVIOUS
<1> PICK W, A : W = Counted(r, m, asOf) /\ A = {x \in W : Met(r, m, asOf, x)}
    OBVIOUS
<1>1. IsFiniteSet(W) /\ IsFiniteSet(A)
    BY CountedFinite, FS_Subset
<1>2. Tally(r, m, asOf) = [item |-> r, total |-> Cardinality(W), count |-> Cardinality(A)]
    BY DEF Tally
<1> QED
    BY <1>1, <1>2, FS_CardinalityType

\* So it is after a step.
LEMMA TallyFieldsAfter ==
    (\A r, m, asOf : r \in Rules =>
        LET i == Tally(r, m, asOf) IN i.item = r /\ i.count \in Nat /\ i.total \in Nat)'
    BY TallyFields, PTL

\* The step of one member's good deed.
LEMMA DeedsStep ==
    ASSUME Config.rescale => MinimumsFit, MatrixTypeOK, MatrixTypeOK', [MatrixNext]_matrixVars,
           NEW m \in MemberIds, Attended(m) \/ PaidEnough(m)
    PROVE  /\ \A r \in Rules : NoWorse(Tally(r, m, Today).count, Tally(r, m, Today).total,
                                       Tally(r, m, Today)'.count, Tally(r, m, Today)'.total)
           /\ Standing(m, Today) = "in_good_standing" => Standing(m, Today)' = "in_good_standing"
<1>1. /\ \A r \in Rules : NoWorse(Tally(r, m, Today).count, Tally(r, m, Today).total,
                                  Tally(r, m, Today)'.count, Tally(r, m, Today)'.total)
      /\ GatePassed(m, Today) => GatePassed(m, Today)'
    <2>1. CASE Attended(m)
        <3>1. contributions' = contributions
            BY <2>1 DEF Attended
        <3>2. GatePassed(m, Today) => GatePassed(m, Today)'
            BY <3>1 DEF GatePassed, SumOf, Of, Recorded, Today
        <3> QED
            BY <2>1, <3>2, AttendanceNoWorse
    <2>2. CASE PaidEnough(m)
        <3> PICK new, body : Paid(m, new, body)
            BY <2>2, PaymentsAreOne
        <3>1. GatePassed(m, Today) => GatePassed(m, Today)'
            BY DuesStayPaid, MatrixAssumption
        <3> QED
            BY <3>1, PaymentNoWorse
    <2> QED
        BY <2>1, <2>2
<1> PICK a, b : a = [r \in Rules |-> Tally(r, m, Today)] /\ b = [r \in Rules |-> Tally(r, m, Today)']
    OBVIOUS
<1>2. \A r \in Rules : a[r] = Tally(r, m, Today) /\ b[r] = Tally(r, m, Today)'
    OBVIOUS
<1>3. Applying(a) = Items(m, Today) /\ Applying(b) = Items(m, Today)'
    BY <1>2 DEF Applying, Items
<1>4. NoneWorse(a, b)
    <2>1. Tallies(a)
        BY <1>2, TallyFields DEF Tallies
    <2>2. Tallies(b)
        BY <1>2, TallyFieldsAfter DEF Tallies
    <2> QED
        BY <1>1, <1>2, <2>1, <2>2 DEF NoneWorse
<1>5. Standing(m, Today) = "in_good_standing" <=> GatePassed(m, Today) /\ Suffices(Applying(a))
    BY <1>3, StandingIs
<1>6. Standing(m, Today)' = "in_good_standing" <=> GatePassed(m, Today)' /\ Suffices(Applying(b))
    BY <1>3, StandingIsAfter
<1>7. Suffices(Applying(a)) => Suffices(Applying(b))
    BY <1>4, SufficesStill
<1> QED
    BY <1>1, <1>5, <1>6, <1>7

\* Coming to a meeting, sending an apology or paying what is due never cost a member
\* anything: for any rules and any record.  (windows.ts, engine.ts)
THEOREM NoGoodDeedCosts ==
    ASSUME Config.rescale => MinimumsFit PROVE MatrixSpec => GoodDeedsNeverHurt
<1>1. [MatrixNext]_matrixVars /\ MatrixTypeOK /\ MatrixTypeOK' =>
        [\A m \in MemberIds : Attended(m) \/ PaidEnough(m) =>
         /\ \A r \in Rules :
              LET before == Tally(r, m, Today)
                  after == Tally(r, m, Today)'
              IN after.count * before.total >= before.count * after.total
         /\ Standing(m, Today) = "in_good_standing" =>
               Standing(m, Today)' = "in_good_standing"]_matrixVars
    BY DeedsStep DEF NoWorse
<1> QED
    BY <1>1, MatrixTypes, PTL DEF MatrixSpec, GoodDeedsNeverHurt
=============================================================================

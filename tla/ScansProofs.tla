---------------------------- MODULE ScansProofs ----------------------------
(***************************************************************************)
(* Proofs about Scans, for every value of its constants.                   *)
(***************************************************************************)
EXTENDS Scans, TLAPS

-----------------------------------------------------------------------------
(***************************************************************************)
(* Type correctness.                                                       *)
(***************************************************************************)
\* A request only ever works on a scan that is on file: scans are never deleted.
ScansInFlight ==
    \A r \in Requests :
        Doing(r, "recorded") \/ Doing(r, "read") \/ Doing(r, "commit")
          => requests[r].scan \in Recorded

\* What a hand-kept entry makes of a row is again a row.
LEMMA ManualRowType ==
    ASSUME TypeOK, NEW e \in Events, NEW m \in Members, NEW mark \in Marks
    PROVE  ManualRow(e, mark, m) \in AttendanceRow
<1>1. attendance[e][m] \in AttendanceRow \cup {None}
  BY DEF TypeOK, Register
<1>2. QED  BY <1>1 DEF ManualRow, AttendanceRow

\* What storing a reading leaves of the row it is stored on.
LEMMA ReadRowKeeps ==
    ASSUME NEW row \in ScanRow, NEW outcome \in {"detected", "rejected"}
    PROVE  /\ ReadRow(row, outcome) \in ScanRow
           /\ ReadRow(row, outcome).sheet = row.sheet
           /\ ReadRow(row, outcome).photo_hash = row.photo_hash
           /\ ReadRow(row, outcome).photo_ref = row.photo_ref
           /\ ReadRow(row, outcome).committed_at = row.committed_at
           /\ ReadRow(row, outcome).age = row.age
           /\ ReadRow(row, outcome).status = outcome
  BY DEF ReadRow, ScanRow, ScanStatus

\* What a commit leaves of the row of the scan.
LEMMA CommittedRowKeeps ==
    ASSUME NEW row \in ScanRow, NEW r \in Requests
    PROVE  /\ CommittedRow(row, r) \in ScanRow
           /\ CommittedRow(row, r).sheet = row.sheet
           /\ CommittedRow(row, r).photo_hash = row.photo_hash
           /\ CommittedRow(row, r).photo_ref = row.photo_ref
           /\ CommittedRow(row, r).committed_at
           /\ CommittedRow(row, r).age = row.age
           /\ CommittedRow(row, r).status = "committed"
           /\ CommittedRow(row, r).review = r
  BY DEF CommittedRow, ScanRow, ScanStatus

LEMMA TypeStep == TypeOK /\ ScansInFlight /\ [Next]_vars => TypeOK'
<1> SUFFICES ASSUME TypeOK, ScansInFlight, [Next]_vars
             PROVE  TypeOK'
  OBVIOUS
<1> USE SheetAssumption, NoneAssumption DEF TypeOK
<1>1. ASSUME NEW k \in Keys, NEW sheet \in Sheets, IssueScanUploadKey(k, sheet)
      PROVE  TypeOK'
  BY <1>1 DEF IssueScanUploadKey, Grant
<1>2. ASSUME NEW k \in Keys, GrantExpires(k)
      PROVE  TypeOK'
  BY <1>2 DEF GrantExpires, Grant
<1>3. ASSUME NEW k \in Keys, NEW photo \in Photos, PutPhoto(k, photo)
      PROVE  TypeOK'
  BY <1>3 DEF PutPhoto
<1>4. ASSUME NEW r \in Requests, NEW k \in Keys, NEW sheet \in Sheets,
             ClaimUploadKey(r, k, sheet)
      PROVE  TypeOK'
  <2>1. grants' \in [Keys -> Grant \cup {None}]
    BY <1>4 DEF ClaimUploadKey, Claimable, Grant
  <2>2. requests' \in [Requests -> Request \cup {None}]
    BY <1>4 DEF ClaimUploadKey, Request
  <2>3. QED  BY <1>4, <2>1, <2>2 DEF ClaimUploadKey
<1>5. ASSUME NEW r \in Requests, ExamineUpload(r)
      PROVE  TypeOK'
  <2>1. requests[r].key \in Keys /\ requests[r].sheet \in Sheets
    BY <1>5 DEF ExamineUpload, Doing, Request
  <2>2. objects' \in [Keys -> Photos \cup {None}]
    BY <1>5, <2>1 DEF ExamineUpload, DeleteObject
  <2>3. requests' \in [Requests -> Request \cup {None}]
    BY <1>5, <2>1 DEF ExamineUpload, Finish, Request
  <2>4. QED  BY <1>5, <2>2, <2>3 DEF ExamineUpload
<1>6. ASSUME NEW r \in Requests, RecordScan(r)
      PROVE  TypeOK'
  <2>1. /\ requests[r].key \in Keys
        /\ requests[r].sheet \in Sheets
        /\ requests[r].photo \in Photos
    BY <1>6 DEF RecordScan, Doing, Request
  <2>2. NewScan(requests[r].key, requests[r].sheet, requests[r].photo) \in ScanRow
    BY <2>1 DEF NewScan, ScanRow, ScanStatus
  <2>3. scans' \in [ScanIds -> ScanRow \cup {None}]
    BY <1>6, <2>2 DEF RecordScan
  <2>4. requests' \in [Requests -> Request \cup {None}]
    BY <1>6 DEF RecordScan, Finish, Request
  <2>5. QED  BY <1>6, <2>3, <2>4 DEF RecordScan
<1>7. ASSUME NEW r \in Requests, NEW s \in ScanIds, ReadScan(r, s)
      PROVE  TypeOK'
  BY <1>7 DEF ReadScan, Request
<1>8. ASSUME NEW r \in Requests, NEW outcome \in {"detected", "rejected"},
             StoreReading(r, outcome)
      PROVE  TypeOK'
  <2>1. requests[r].scan \in ScanIds /\ scans[requests[r].scan] \in ScanRow
    BY <1>8 DEF StoreReading, ScansInFlight, Recorded, Doing
  <2>2. scans' \in [ScanIds -> ScanRow \cup {None}]
    BY <1>8, <2>1, ReadRowKeeps DEF StoreReading
  <2>3. requests' \in [Requests -> Request \cup {None}]
    BY <1>8 DEF StoreReading, Finish
  <2>4. QED  BY <1>8, <2>2, <2>3 DEF StoreReading
<1>9. ASSUME NEW r \in Requests, NEW s \in ScanIds, NEW entries \in Entries,
             CommitScan(r, s, entries)
      PROVE  TypeOK'
  <2>1. EventOf[scans[s].sheet] \in Events
    BY <1>9 DEF CommitScan, Committable, Recorded, ScanRow
  <2>2. requests' \in [Requests -> Request \cup {None}]
    BY <1>9, <2>1 DEF CommitScan, Request
  <2>3. QED  BY <1>9, <2>2 DEF CommitScan
<1>10. ASSUME NEW r \in Requests, StoreCommit(r)
       PROVE  TypeOK'
  <2> DEFINE q == requests[r]
             s == requests[r].scan
             e == EventOf[scans[s].sheet]
  <2>1. /\ s \in ScanIds
        /\ scans[s] \in ScanRow
        /\ q.entries \in Entries
    BY <1>10 DEF StoreCommit, ScansInFlight, Recorded, Doing, Request
  <2>2. e \in Events
    BY <2>1 DEF ScanRow
  <2>3. \A m \in Named(q.entries) : q.entries[m] \in Marks /\ m \in Members
    BY <2>1 DEF Named, Entries
  <2>4. \A m \in Named(q.entries) : OmrRow(q.entries[m], s) \in AttendanceRow
    BY <2>1, <2>3 DEF OmrRow, AttendanceRow
  <2>5. attendance' \in [Events -> Register]
    <3>1. attendance' = [attendance EXCEPT ![e] =
              [m \in Members |-> IF m \in Named(q.entries) THEN OmrRow(q.entries[m], s)
                                                          ELSE attendance[e][m]]]
      BY <1>10 DEF StoreCommit, Upsert
    <3>2. QED  BY <2>2, <2>4, <3>1 DEF Register
  <2>6. audited' \in [Events -> [Members -> Marks \cup {None}]]
    <3>1. q.entries \in [Members -> Marks \cup {None}]
      BY <2>1 DEF Entries
    <3>2. QED  BY <1>10, <2>2, <3>1 DEF StoreCommit, Audit
  <2>7. scans' \in [ScanIds -> ScanRow \cup {None}]
    BY <1>10, <2>1, CommittedRowKeeps DEF StoreCommit
  <2>8. requests' \in [Requests -> Request \cup {None}]
    BY <1>10 DEF StoreCommit, Finish
  <2>9. QED  BY <1>10, <2>5, <2>6, <2>7, <2>8 DEF StoreCommit
<1>11. ASSUME NEW r \in Requests, NEW e \in Events, NEW entries \in Entries,
              SaveRegister(r, e, entries)
       PROVE  TypeOK'
  BY <1>11 DEF SaveRegister, Request
<1>12. ASSUME NEW r \in Requests, StoreRegister(r)
       PROVE  TypeOK'
  <2> DEFINE q == requests[r]
  <2>1. q.event \in Events /\ q.entries \in Entries
    BY <1>12 DEF StoreRegister, Doing, Request
  <2>2. \A m \in Named(q.entries) :
           ManualRow(q.event, q.entries[m], m) \in AttendanceRow
    <3>1. ASSUME NEW m \in Named(q.entries)
          PROVE  m \in Members /\ q.entries[m] \in Marks
      BY <2>1, <3>1 DEF Named, Entries
    <3>2. QED  BY <2>1, <3>1, ManualRowType
  <2>3. attendance' \in [Events -> Register]
    <3>1. attendance' = [attendance EXCEPT ![q.event] =
              [m \in Members |-> IF m \in Named(q.entries)
                                 THEN ManualRow(q.event, q.entries[m], m)
                                 ELSE attendance[q.event][m]]]
      BY <1>12 DEF StoreRegister, Upsert
    <3>2. QED  BY <2>1, <2>2, <3>1 DEF Register
  <2>4. audited' \in [Events -> [Members -> Marks \cup {None}]]
    <3>1. q.entries \in [Members -> Marks \cup {None}]
      BY <2>1 DEF Entries
    <3>2. QED  BY <1>12, <2>1, <3>1 DEF StoreRegister, Audit
  <2>5. requests' \in [Requests -> Request \cup {None}]
    BY <1>12 DEF StoreRegister, Finish
  <2>6. QED  BY <1>12, <2>3, <2>4, <2>5 DEF StoreRegister
<1>13. ASSUME NEW r \in Requests, NEW e \in Events, NEW m \in Members, NEW mark \in Marks,
              SaveOne(r, e, m, mark)
       PROVE  TypeOK'
  <2>1. attendance[e] \in Register /\ ManualRow(e, mark, m) \in AttendanceRow
    BY ManualRowType
  <2>2. attendance' = [attendance EXCEPT ![e] =
                         [attendance[e] EXCEPT ![m] = ManualRow(e, mark, m)]]
    BY <1>13 DEF SaveOne
  <2>3. attendance' \in [Events -> Register]
    BY <2>1, <2>2 DEF Register
  <2>4. audited' \in [Events -> [Members -> Marks \cup {None}]]
    BY <1>13 DEF SaveOne
  <2>5. QED  BY <1>13, <2>3, <2>4 DEF SaveOne
<1>14. ASSUME NEW r \in Requests, Fail(r)
       PROVE  TypeOK'
  BY <1>14 DEF Fail, Finish
<1>15. ASSUME NEW s \in ScanIds, Ages(s)
       PROVE  TypeOK'
  <2>1. scans[s] \in ScanRow /\ scans[s].age + 1 \in 0 .. 2
    BY <1>15 DEF Ages, Recorded, ScanRow
  <2>2. [scans[s] EXCEPT !.age = scans[s].age + 1] \in ScanRow
    BY <2>1 DEF ScanRow
  <2>3. scans' = [scans EXCEPT ![s] = [scans[s] EXCEPT !.age = scans[s].age + 1]]
    BY <1>15 DEF Ages
  <2>4. scans' \in [ScanIds -> ScanRow \cup {None}]
    BY <2>2, <2>3
  <2>5. QED  BY <1>15, <2>4 DEF Ages
<1>16. ASSUME NEW e \in Events, CloseMonth(e)
       PROVE  TypeOK'
  BY <1>16 DEF CloseMonth
<1>17. ASSUME NEW s \in ScanIds, PurgeObject(s)
       PROVE  TypeOK'
  BY <1>17 DEF PurgeObject, DeleteObject
<1>18. ASSUME NEW s \in ScanIds, PurgeRow(s)
       PROVE  TypeOK'
  BY <1>18 DEF PurgeRow, Recorded, ScanRow
<1>19. CASE PurgeStops
  BY <1>19 DEF PurgeStops
<1>20. CASE UNCHANGED vars
  BY <1>20 DEF vars
<1> QED
  BY <1>1, <1>2, <1>3, <1>4, <1>5, <1>6, <1>7, <1>8, <1>9, <1>10, <1>11, <1>12,
     <1>13, <1>14, <1>15, <1>16, <1>17, <1>18, <1>19, <1>20
  DEF Next, Capture, NextStep, NewRequest, Retention

\* Once on file, a scan stays on file, under its sheet and with its hash; it may
\* lose its object but never gets another; having been committed is not undone.
LEMMA ScansLast ==
    ASSUME TypeOK, ScansInFlight, [Next]_vars, NEW s \in Recorded
    PROVE  /\ s \in Recorded'
           /\ scans'[s].sheet = scans[s].sheet
           /\ scans'[s].photo_hash = scans[s].photo_hash
           /\ scans'[s].photo_ref \in {scans[s].photo_ref, None}
           /\ scans[s].committed_at => scans'[s].committed_at
           /\ scans[s].age <= scans'[s].age
<1> DEFINE Lasts(row) ==
             /\ row \in ScanRow
             /\ row.sheet = scans[s].sheet
             /\ row.photo_hash = scans[s].photo_hash
             /\ row.photo_ref \in {scans[s].photo_ref, None}
             /\ scans[s].committed_at => row.committed_at
             /\ scans[s].age <= row.age
<1>1. s \in ScanIds /\ scans[s] \in ScanRow
  BY DEF TypeOK, Recorded
<1>2. scans[s].age \in 0 .. 2
  BY <1>1 DEF ScanRow
<1>3. Lasts(scans[s])
  BY <1>1, <1>2
<1>4. ASSUME NEW r \in Requests, RecordScan(r)
      PROVE  Lasts(scans'[s])
  BY <1>1, <1>3, <1>4 DEF RecordScan, TypeOK, Recorded
<1>5. ASSUME NEW r \in Requests, NEW outcome \in {"detected", "rejected"},
             StoreReading(r, outcome)
      PROVE  Lasts(scans'[s])
  <2>1. scans'[s] = scans[s] \/ scans'[s] = ReadRow(scans[s], outcome)
    BY <1>1, <1>5 DEF StoreReading, TypeOK
  <2>2. Lasts(ReadRow(scans[s], outcome))
    BY <1>1, <1>2, ReadRowKeeps
  <2>3. QED  BY <1>3, <2>1, <2>2
<1>6. ASSUME NEW r \in Requests, StoreCommit(r)
      PROVE  Lasts(scans'[s])
  <2>1. scans'[s] = scans[s] \/ scans'[s] = CommittedRow(scans[s], r)
    <3>1. scans' = [scans EXCEPT ![requests[r].scan] =
                      CommittedRow(scans[requests[r].scan], r)]
      BY <1>6 DEF StoreCommit
    <3>2. DOMAIN scans = ScanIds
      BY DEF TypeOK
    <3>3. QED  BY <1>1, <3>1, <3>2
  <2>2. Lasts(CommittedRow(scans[s], r))
    BY <1>1, <1>2, CommittedRowKeeps
  <2>3. QED  BY <1>3, <2>1, <2>2
<1>7. ASSUME NEW t \in ScanIds, Ages(t)
      PROVE  Lasts(scans'[s])
  <2> DEFINE row == [scans[s] EXCEPT !.age = scans[s].age + 1]
  <2>1. scans'[s] = scans[s] \/ (s = t /\ scans'[s] = row)
    BY <1>1, <1>7 DEF Ages, TypeOK
  <2>2. s = t => scans[s].age + 1 \in 0 .. 2
    BY <1>2, <1>7 DEF Ages
  <2>3. s = t => Lasts(row)
    BY <1>1, <1>2, <2>2 DEF ScanRow
  <2>4. QED  BY <1>3, <2>1, <2>3
<1>8. ASSUME NEW t \in ScanIds, PurgeRow(t)
      PROVE  Lasts(scans'[s])
  <2>1. scans'[s] = scans[s] \/ scans'[s] = [scans[s] EXCEPT !.photo_ref = None]
    BY <1>1, <1>8 DEF PurgeRow, TypeOK
  <2>2. Lasts([scans[s] EXCEPT !.photo_ref = None])
    BY <1>1, <1>2 DEF ScanRow
  <2>3. QED  BY <1>3, <2>1, <2>2
<1>9. Lasts(scans'[s])
  BY <1>3, <1>4, <1>5, <1>6, <1>7, <1>8
  DEF Next, Capture, NextStep, NewRequest, Retention, vars, IssueScanUploadKey,
      GrantExpires, PutPhoto, ClaimUploadKey, ExamineUpload, ReadScan, CommitScan,
      SaveRegister, StoreRegister, SaveOne, Fail, CloseMonth, PurgeObject, PurgeStops
<1>10. QED
  BY <1>1, <1>9, RowAssumption DEF Recorded

LEMMA ScansInFlightStep == TypeOK /\ ScansInFlight /\ [Next]_vars => ScansInFlight'
<1> SUFFICES ASSUME TypeOK, ScansInFlight, [Next]_vars
             PROVE  ScansInFlight'
  OBVIOUS
<1>1. Recorded \subseteq Recorded'
  BY ScansLast
<1>2. ASSUME NEW r \in Requests, RecordScan(r)
      PROVE  ScansInFlight'
  <2>1. NewScan(requests[r].key, requests[r].sheet, requests[r].photo) \in ScanRow
    BY <1>2 DEF RecordScan, Doing, TypeOK, Request, NewScan, ScanRow, ScanStatus
  <2>2. QED
    BY <1>1, <1>2, <2>1, RowAssumption
    DEF RecordScan, ScansInFlight, Doing, Finish, TypeOK, Recorded
<1>3. ASSUME NEW r \in Requests, NEW s \in ScanIds,
             ReadScan(r, s) \/ \E entries \in Entries : CommitScan(r, s, entries)
      PROVE  ScansInFlight'
  BY <1>1, <1>3 DEF ReadScan, CommitScan, Committable, ScansInFlight, Doing, TypeOK
<1>4. ASSUME NEW r \in Requests,
             \/ requests'[r] = None
             \/ requests'[r].op \in {"confirm", "insert", "save"},
             \A q \in Requests \ {r} : requests'[q] = requests[q]
      PROVE  ScansInFlight'
  BY <1>1, <1>4 DEF ScansInFlight, Doing
<1>5. CASE requests' = requests
  BY <1>1, <1>5 DEF ScansInFlight, Doing
<1>6. ASSUME NEW r \in Requests,
             \/ \E k \in Keys, sheet \in Sheets : ClaimUploadKey(r, k, sheet)
             \/ \E e \in Events, entries \in Entries : SaveRegister(r, e, entries)
      PROVE  ScansInFlight'
  BY <1>4, <1>6 DEF ClaimUploadKey, SaveRegister, TypeOK
<1>7. ASSUME NEW r \in Requests, ExamineUpload(r)
      PROVE  ScansInFlight'
  BY <1>4, <1>7 DEF ExamineUpload, Finish, TypeOK
<1>8. ASSUME NEW r \in Requests, Finish(r)
      PROVE  ScansInFlight'
  BY <1>4, <1>8 DEF Finish, TypeOK
<1>9. QED
  BY <1>2, <1>3, <1>5, <1>6, <1>7, <1>8
  DEF Next, Capture, NextStep, NewRequest, Retention, vars, IssueScanUploadKey,
      GrantExpires, PutPhoto, StoreReading, StoreCommit, StoreRegister, SaveOne,
      Fail, Ages, CloseMonth, PurgeObject, PurgeRow, PurgeStops

\* Spec keeps every variable in its type.
THEOREM TypeCorrect == Spec => [](TypeOK /\ ScansInFlight)
<1>1. Init => TypeOK /\ ScansInFlight
  BY DEF Init, TypeOK, ScansInFlight, Doing, Register
<1>2. TypeOK /\ ScansInFlight /\ [Next]_vars => (TypeOK /\ ScansInFlight)'
  BY TypeStep, ScansInFlightStep
<1>3. QED  BY <1>1, <1>2, PTL DEF Spec
-----------------------------------------------------------------------------
(***************************************************************************)
(* The register: where its rows come from and that each one is audited.    *)
(***************************************************************************)
\* The event a request in flight is going to write the register of.
TargetOf(r) == IF requests[r].op = "save" THEN requests[r].event
               ELSE EventOf[scans[requests[r].scan].sheet]

Writing(r) == Doing(r, "commit") \/ Doing(r, "save")

\* A commit in flight names members of its own sheet only.
CommitsFitTheirSheet ==
    \A r \in Requests : Doing(r, "commit") => FitsSheet(requests[r].scan, requests[r].entries)

\* A row that a writer saw was audited before the writer looked.
SeenRowsAreAudited ==
    \A r \in Requests : Writing(r) =>
        \A m \in Members : requests[r].before[m] # None => audited[TargetOf(r)][m] # None

RegisterInv == /\ OmrRowsTraceToTheirSheet
               /\ EveryRowIsAudited
               /\ CommitsFitTheirSheet
               /\ SeenRowsAreAudited

\* An upsert replaces the rows it is given in one event's register, and no other row.
LEMMA UpsertRows ==
    ASSUME TypeOK, NEW e \in Events, NEW rows, Upsert(e, rows),
           NEW f \in Events, NEW m \in Members
    PROVE  attendance'[f][m] = IF f = e /\ m \in DOMAIN rows THEN rows[m]
                               ELSE attendance[f][m]
  BY DEF TypeOK, Upsert

\* An audit gives the changed members of one event's register their new mark.
LEMMA AuditRows ==
    ASSUME TypeOK, NEW e \in Events, NEW entries, NEW changed, Audit(e, entries, changed),
           NEW f \in Events, NEW m \in Members
    PROVE  audited'[f][m] = IF f = e /\ m \in changed THEN entries[m] ELSE audited[f][m]
  BY DEF TypeOK, Audit

\* A step that writes neither the register nor its audit, and starts no writer,
\* leaves the invariant as it is, whatever it does to the scans.
LEMMA QuietSteps ==
    ASSUME TypeOK, ScansInFlight, [Next]_vars, RegisterInv,
           UNCHANGED <<attendance, audited>>,
           \A r \in Requests : Writing(r)' => requests'[r] = requests[r]
    PROVE  RegisterInv'
<1>1. \A s \in Recorded : /\ s \in Recorded'
                          /\ scans'[s].sheet = scans[s].sheet
                          /\ scans[s].committed_at => scans'[s].committed_at
  BY ScansLast
<1>2. \A r \in Requests : Writing(r)' => Writing(r)
  BY DEF Writing, Doing
<1>3. \A r \in Requests : Doing(r, "commit") => requests[r].scan \in Recorded
  BY DEF ScansInFlight
<1>4. OmrRowsTraceToTheirSheet'
  BY <1>1 DEF RegisterInv, OmrRowsTraceToTheirSheet
<1>5. EveryRowIsAudited'
  BY DEF RegisterInv, EveryRowIsAudited
<1>6. CommitsFitTheirSheet'
  BY <1>1, <1>3 DEF RegisterInv, CommitsFitTheirSheet, FitsSheet, Doing, Writing, Named
<1>7. SeenRowsAreAudited'
  <2> SUFFICES ASSUME NEW r \in Requests, Writing(r)', NEW m \in Members,
                      requests'[r].before[m] # None
               PROVE  audited'[TargetOf(r)'][m] # None
    BY DEF SeenRowsAreAudited
  <2>1. Writing(r) /\ requests'[r] = requests[r]
    BY <1>2
  <2>2. TargetOf(r)' = TargetOf(r)
    BY <1>1, <1>3, <2>1 DEF TargetOf, Writing, Doing
  <2>3. QED  BY <2>1, <2>2 DEF RegisterInv, SeenRowsAreAudited
<1>8. QED  BY <1>4, <1>5, <1>6, <1>7 DEF RegisterInv
\* A new writer has just looked: it saw rows that are there, and so are audited.
LEMMA WriterStarts ==
    ASSUME TypeOK, RegisterInv, NEW r \in Requests,
           UNCHANGED <<attendance, audited, scans>>,
           Writing(r)', TargetOf(r)' \in Events,
           requests'[r].before = attendance[TargetOf(r)'],
           Doing(r, "commit")' => FitsSheet(requests'[r].scan, requests'[r].entries),
           \A q \in Requests \ {r} : requests'[q] = requests[q]
    PROVE  RegisterInv'
<1>1. OmrRowsTraceToTheirSheet' /\ EveryRowIsAudited'
  BY DEF RegisterInv, OmrRowsTraceToTheirSheet, EveryRowIsAudited, Recorded
<1>2. CommitsFitTheirSheet'
  BY DEF RegisterInv, CommitsFitTheirSheet, FitsSheet, Doing, Named
<1>3. SeenRowsAreAudited'
  <2> SUFFICES ASSUME NEW q \in Requests, Writing(q)', NEW m \in Members,
                      requests'[q].before[m] # None
               PROVE  audited'[TargetOf(q)'][m] # None
    BY DEF SeenRowsAreAudited
  <2>1. CASE q = r
    BY <2>1 DEF RegisterInv, EveryRowIsAudited
  <2>2. CASE q # r
    BY <2>2 DEF RegisterInv, SeenRowsAreAudited, Writing, Doing, TargetOf
  <2>3. QED  BY <2>1, <2>2
<1>4. QED  BY <1>1, <1>2, <1>3 DEF RegisterInv

\* What the other requests have in hand outlasts a writer's last step: the audit
\* log only grows.
LEMMA OthersWait ==
    ASSUME TypeOK, ScansInFlight, [Next]_vars, RegisterInv, NEW r \in Requests, Finish(r),
           \A f \in Events, m \in Members : audited[f][m] # None => audited'[f][m] # None
    PROVE  CommitsFitTheirSheet' /\ SeenRowsAreAudited'
<1>1. \A s \in Recorded : scans'[s].sheet = scans[s].sheet
  BY ScansLast
<1>2. \A q \in Requests : Writing(q)' => Writing(q) /\ requests'[q] = requests[q]
  BY DEF Finish, TypeOK, Writing, Doing
<1>3. \A q \in Requests : Doing(q, "commit") => requests[q].scan \in Recorded
  BY DEF ScansInFlight
<1>4. CommitsFitTheirSheet'
  BY <1>1, <1>2, <1>3 DEF RegisterInv, CommitsFitTheirSheet, FitsSheet, Doing, Writing, Named
<1>5. SeenRowsAreAudited'
  <2> SUFFICES ASSUME NEW q \in Requests, Writing(q)', NEW m \in Members,
                      requests'[q].before[m] # None
               PROVE  audited'[TargetOf(q)'][m] # None
    BY DEF SeenRowsAreAudited
  <2>1. Writing(q) /\ requests'[q] = requests[q]
    BY <1>2
  <2>2. TargetOf(q)' = TargetOf(q)
    BY <1>1, <1>3, <2>1 DEF TargetOf, Writing, Doing
  <2>3. TargetOf(q) \in Events
    <3>1. Doing(q, "commit") => scans[requests[q].scan] \in ScanRow
      BY <1>3 DEF Recorded, TypeOK
    <3>2. Doing(q, "save") => requests[q].event \in Events
      BY DEF Doing, TypeOK, Request
    <3>3. QED  BY <2>1, <3>1, <3>2, SheetAssumption DEF TargetOf, Writing, Doing, ScanRow
  <2>4. QED  BY <2>1, <2>2, <2>3 DEF RegisterInv, SeenRowsAreAudited
<1>6. QED  BY <1>4, <1>5

LEMMA RegisterStep ==
    ASSUME TypeOK, ScansInFlight, [Next]_vars, RegisterInv
    PROVE  RegisterInv'
<1> USE NoneAssumption, RowAssumption
<1>1. ASSUME NEW r \in Requests, NEW s \in ScanIds, NEW entries \in Entries,
             CommitScan(r, s, entries)
      PROVE  RegisterInv'
  <2>1. requests'[r] = [op |-> "commit", scan |-> s, entries |-> entries,
                        before |-> attendance[EventOf[scans[s].sheet]]]
    BY <1>1 DEF CommitScan, TypeOK
  <2>2. scans[s] \in ScanRow
    BY <1>1 DEF CommitScan, Committable, Recorded, TypeOK
  <2>3. UNCHANGED <<attendance, audited, scans>> /\ FitsSheet(s, entries)
    BY <1>1 DEF CommitScan
  <2>4. TargetOf(r)' = EventOf[scans[s].sheet] /\ Writing(r)' /\ Doing(r, "commit")'
    <3>1. EventOf[scans[s].sheet] \in Events
      BY <2>2, SheetAssumption DEF ScanRow
    <3>2. requests'[r] \in Request
      BY <1>1, <2>1, <3>1 DEF Request, TypeOK
    <3>3. QED  BY <2>1, <2>3, <3>2 DEF TargetOf, Writing, Doing
  <2>5. TargetOf(r)' \in Events
    BY <2>2, <2>4, SheetAssumption DEF ScanRow
  <2>6. \A q \in Requests \ {r} : requests'[q] = requests[q]
    BY <1>1 DEF CommitScan, TypeOK
  <2>7. requests'[r].before = attendance[TargetOf(r)']
    BY <2>1, <2>4
  <2>8. FitsSheet(requests'[r].scan, requests'[r].entries)
    BY <2>1, <2>3
  <2>9. QED  BY <2>3, <2>4, <2>5, <2>6, <2>7, <2>8, WriterStarts
<1>2. ASSUME NEW r \in Requests, NEW e \in Events, NEW entries \in Entries,
             SaveRegister(r, e, entries)
      PROVE  RegisterInv'
  <2>1. requests'[r] = [op |-> "save", event |-> e, entries |-> entries,
                        before |-> attendance[e]]
    BY <1>2 DEF SaveRegister, TypeOK
  <2>2. UNCHANGED <<attendance, audited, scans>>
    BY <1>2 DEF SaveRegister
  <2>3. TargetOf(r)' = e /\ Writing(r)' /\ ~Doing(r, "commit")'
    <3>1. requests'[r] \in Request
      BY <2>1 DEF Request, TypeOK
    <3>2. QED  BY <2>1, <3>1 DEF TargetOf, Writing, Doing
  <2>4. \A q \in Requests \ {r} : requests'[q] = requests[q]
    BY <1>2 DEF SaveRegister, TypeOK
  <2>5. requests'[r].before = attendance[TargetOf(r)']
    BY <2>1, <2>3
  <2>6. QED  BY <2>2, <2>3, <2>4, <2>5, WriterStarts
<1>3. ASSUME NEW r \in Requests, StoreCommit(r)
      PROVE  RegisterInv'
  <2> DEFINE q == requests[r]
             s == requests[r].scan
             e == EventOf[scans[s].sheet]
             rows == [m \in Named(q.entries) |-> OmrRow(q.entries[m], s)]
             changed == Changed(q.before, q.entries) \cup ClaimedFromHand(q.before, q.entries)
  <2>1. s \in Recorded /\ q.entries \in Entries /\ Doing(r, "commit")
    BY <1>3 DEF StoreCommit, ScansInFlight, Doing, Request, TypeOK
  <2>2. s \in ScanIds /\ scans[s] \in ScanRow
    BY <2>1 DEF Recorded, TypeOK
  <2>3. e \in Events
    BY <2>2, SheetAssumption DEF ScanRow
  <2>4. \A m \in Named(q.entries) : m \in Members /\ q.entries[m] # None
    BY DEF Named
  <2>5. changed \subseteq Named(q.entries)
    BY DEF Changed, ClaimedFromHand
  <2>6. \A f \in Events, m \in Members :
           attendance'[f][m] = IF f = e /\ m \in Named(q.entries) THEN OmrRow(q.entries[m], s)
                               ELSE attendance[f][m]
    <3>1. Upsert(e, rows)
      BY <1>3 DEF StoreCommit
    <3>2. \A f \in Events, m \in Members :
             attendance'[f][m] = IF f = e /\ m \in DOMAIN rows THEN rows[m]
                                 ELSE attendance[f][m]
      BY <2>3, <3>1, UpsertRows
    <3>3. QED  BY <3>2
  <2>7. \A f \in Events, m \in Members :
           audited'[f][m] = IF f = e /\ m \in changed THEN q.entries[m] ELSE audited[f][m]
    <3>1. Audit(e, q.entries, changed)
      BY <1>3 DEF StoreCommit
    <3>2. QED  BY <2>3, <3>1, AuditRows
  <2>8. \A f \in Events, m \in Members : audited[f][m] # None => audited'[f][m] # None
    BY <2>4, <2>5, <2>7
  <2>9. \A m \in Named(q.entries) : audited'[e][m] # None
    <3>1. ASSUME NEW m \in Named(q.entries), q.before[m] = None
          PROVE  audited'[e][m] # None
      <4>1. m \in changed
        BY <3>1 DEF Changed
      <4>2. QED  BY <2>3, <2>4, <2>7, <4>1
    <3>2. ASSUME NEW m \in Named(q.entries), q.before[m] # None
          PROVE  audited'[e][m] # None
      <4>1. TargetOf(r) = e /\ Writing(r)
        BY <2>1 DEF TargetOf, Writing, Doing
      <4>2. audited[e][m] # None
        BY <2>4, <3>2, <4>1 DEF RegisterInv, SeenRowsAreAudited
      <4>3. QED  BY <2>3, <2>4, <2>8, <4>2
    <3>3. QED  BY <3>1, <3>2
  <2>10. scans'[s].committed_at
    <3>1. scans'[s] = CommittedRow(scans[s], r)
      BY <1>3, <2>2 DEF StoreCommit, TypeOK
    <3>2. QED  BY <2>2, <3>1, CommittedRowKeeps
  <2>11. Named(q.entries) \subseteq Manifest[scans[s].sheet]
    BY <2>1 DEF RegisterInv, CommitsFitTheirSheet, FitsSheet
  <2>12. OmrRowsTraceToTheirSheet'
    <3>1. \A t \in Recorded : /\ t \in Recorded'
                              /\ scans'[t].sheet = scans[t].sheet
                              /\ scans[t].committed_at => scans'[t].committed_at
      BY ScansLast
    <3>2. ASSUME NEW m \in Named(q.entries)
          PROVE  /\ OmrRow(q.entries[m], s).source = "omr"
                 /\ OmrRow(q.entries[m], s).scan_id = s
      BY DEF OmrRow
    <3>3. QED
      BY <2>1, <2>6, <2>10, <2>11, <3>1, <3>2 DEF RegisterInv, OmrRowsTraceToTheirSheet
  <2>13. EveryRowIsAudited'
    BY <2>6, <2>8, <2>9 DEF RegisterInv, EveryRowIsAudited
  <2>14. Finish(r)
    BY <1>3 DEF StoreCommit
  <2>15. QED  BY <2>8, <2>12, <2>13, <2>14, OthersWait DEF RegisterInv
<1>4. ASSUME NEW r \in Requests, StoreRegister(r)
      PROVE  RegisterInv'
  <2> DEFINE q == requests[r]
             e == requests[r].event
             rows == [m \in Named(q.entries) |-> ManualRow(e, q.entries[m], m)]
             changed == Changed(q.before, q.entries)
  <2>1. e \in Events /\ q.entries \in Entries /\ Doing(r, "save")
    BY <1>4 DEF StoreRegister, Doing, Request, TypeOK
  <2>2. \A m \in Named(q.entries) : m \in Members /\ q.entries[m] # None
    BY DEF Named
  <2>3. changed \subseteq Named(q.entries)
    BY DEF Changed
  <2>4. \A f \in Events, m \in Members :
           attendance'[f][m] = IF f = e /\ m \in Named(q.entries)
                               THEN ManualRow(e, q.entries[m], m) ELSE attendance[f][m]
    <3>1. Upsert(e, rows)
      BY <1>4 DEF StoreRegister
    <3>2. \A f \in Events, m \in Members :
             attendance'[f][m] = IF f = e /\ m \in DOMAIN rows THEN rows[m]
                                 ELSE attendance[f][m]
      BY <2>1, <3>1, UpsertRows
    <3>3. QED  BY <3>2
  <2>5. \A f \in Events, m \in Members :
           audited'[f][m] = IF f = e /\ m \in changed THEN q.entries[m] ELSE audited[f][m]
    <3>1. Audit(e, q.entries, changed)
      BY <1>4 DEF StoreRegister
    <3>2. QED  BY <2>1, <3>1, AuditRows
  <2>6. \A f \in Events, m \in Members : audited[f][m] # None => audited'[f][m] # None
    BY <2>2, <2>3, <2>5
  <2>7. \A m \in Named(q.entries) : audited'[e][m] # None
    <3>1. ASSUME NEW m \in Named(q.entries), q.before[m] = None
          PROVE  audited'[e][m] # None
      <4>1. m \in changed
        BY <3>1 DEF Changed
      <4>2. QED  BY <2>1, <2>2, <2>5, <4>1
    <3>2. ASSUME NEW m \in Named(q.entries), q.before[m] # None
          PROVE  audited'[e][m] # None
      <4>1. TargetOf(r) = e /\ Writing(r)
        BY <2>1 DEF TargetOf, Writing, Doing
      <4>2. audited[e][m] # None
        BY <2>2, <3>2, <4>1 DEF RegisterInv, SeenRowsAreAudited
      <4>3. QED  BY <2>1, <2>2, <2>6, <4>2
    <3>3. QED  BY <3>1, <3>2
  <2>8. OmrRowsTraceToTheirSheet'
    <3>1. ASSUME NEW f \in Events, NEW m \in Members, attendance'[f][m] # None
          PROVE  \/ /\ attendance'[f][m].source = "manual"
                    /\ attendance'[f][m].scan_id = None
                 \/ /\ attendance[f][m] # None
                    /\ attendance'[f][m].source = attendance[f][m].source
                    /\ attendance'[f][m].scan_id = attendance[f][m].scan_id
      <4>1. attendance[f][m] \in AttendanceRow \cup {None}
        BY DEF TypeOK, Register
      <4>2. CASE attendance'[f][m] = attendance[f][m]
        BY <3>1, <4>2
      <4>3. CASE f = e /\ attendance'[f][m] = ManualRow(e, q.entries[m], m)
        <5>1. CASE attendance[e][m] = None
          BY <4>3, <5>1 DEF ManualRow
        <5>2. CASE attendance[e][m] \in AttendanceRow
          BY <4>3, <5>2 DEF ManualRow, AttendanceRow
        <5>3. QED  BY <4>1, <4>3, <5>1, <5>2
      <4>4. QED  BY <2>4, <4>2, <4>3
    <3>2. QED
      BY <1>4, <3>1 DEF RegisterInv, OmrRowsTraceToTheirSheet, StoreRegister, Recorded
  <2>9. EveryRowIsAudited'
    BY <2>4, <2>6, <2>7 DEF RegisterInv, EveryRowIsAudited
  <2>10. Finish(r)
    BY <1>4 DEF StoreRegister
  <2>11. QED  BY <2>6, <2>8, <2>9, <2>10, OthersWait DEF RegisterInv
<1>5. ASSUME NEW r \in Requests, NEW e \in Events, NEW m \in Members, NEW mark \in Marks,
             SaveOne(r, e, m, mark)
      PROVE  RegisterInv'
  <2>1. attendance[e][m] \in AttendanceRow
    BY <1>5 DEF SaveOne, TypeOK, Register
  <2>2. attendance' = [attendance EXCEPT ![e] =
                         [attendance[e] EXCEPT ![m] = ManualRow(e, mark, m)]]
    BY <1>5 DEF SaveOne
  <2>3. \A f \in Events, n \in Members :
           attendance'[f][n] = IF f = e /\ n = m THEN ManualRow(e, mark, m)
                               ELSE attendance[f][n]
    BY <2>2 DEF TypeOK, Register
  <2>4. ManualRow(e, mark, m).source = attendance[e][m].source
        /\ ManualRow(e, mark, m).scan_id = attendance[e][m].scan_id
    BY <2>1 DEF ManualRow, AttendanceRow
  <2>5. \A f \in Events, n \in Members : audited[f][n] # None => audited'[f][n] # None
    <3>1. mark # None
      OBVIOUS
    <3>2. audited' = [audited EXCEPT ![e] = [audited[e] EXCEPT ![m] =
             IF attendance[e][m].status # mark THEN mark ELSE audited[e][m]]]
      BY <1>5 DEF SaveOne
    <3>3. QED  BY <3>1, <3>2 DEF TypeOK
  <2>6. UNCHANGED <<scans, requests>>
    BY <1>5 DEF SaveOne
  <2>7. attendance[e][m] # None
    BY <1>5 DEF SaveOne
  <2>8. OmrRowsTraceToTheirSheet'
    <3>1. \A f \in Events, n \in Members : attendance'[f][n] # None =>
             /\ attendance[f][n] # None
             /\ attendance'[f][n].source = attendance[f][n].source
             /\ attendance'[f][n].scan_id = attendance[f][n].scan_id
      BY <2>3, <2>4, <2>7
    <3>2. QED  BY <2>6, <3>1 DEF RegisterInv, OmrRowsTraceToTheirSheet, Recorded
  <2>9. EveryRowIsAudited'
    BY <2>3, <2>5, <2>7 DEF RegisterInv, EveryRowIsAudited
  <2>10. CommitsFitTheirSheet'
    BY <2>6 DEF RegisterInv, CommitsFitTheirSheet, FitsSheet, Doing, Named
  <2>11. SeenRowsAreAudited'
    <3> SUFFICES ASSUME NEW q \in Requests, Writing(q), NEW n \in Members,
                        requests[q].before[n] # None
                 PROVE  audited'[TargetOf(q)][n] # None
      BY <2>6 DEF SeenRowsAreAudited, Writing, Doing, TargetOf
    <3>1. TargetOf(q) \in Events
      <4>1. Doing(q, "commit") => scans[requests[q].scan] \in ScanRow
        BY DEF ScansInFlight, Recorded, TypeOK
      <4>2. Doing(q, "save") => requests[q].event \in Events
        BY DEF Doing, TypeOK, Request
      <4>3. QED  BY <4>1, <4>2, SheetAssumption DEF TargetOf, Writing, Doing, ScanRow
    <3>2. QED  BY <2>5, <3>1 DEF RegisterInv, SeenRowsAreAudited
  <2>12. QED  BY <2>8, <2>9, <2>10, <2>11 DEF RegisterInv
<1>6. ASSUME UNCHANGED <<attendance, audited>>, UNCHANGED requests
      PROVE  RegisterInv'
  BY <1>6, QuietSteps
<1>7. ASSUME UNCHANGED <<attendance, audited>>, NEW r \in Requests, ~Writing(r)',
             \A q \in Requests \ {r} : requests'[q] = requests[q]
      PROVE  RegisterInv'
  BY <1>7, QuietSteps
<1>8. ASSUME NEW r \in Requests,
             \/ \E k \in Keys, sheet \in Sheets : ClaimUploadKey(r, k, sheet)
             \/ ExamineUpload(r)
             \/ RecordScan(r)
             \/ \E s \in ScanIds : ReadScan(r, s)
      PROVE  RegisterInv'
  <2>1. UNCHANGED <<attendance, audited>>
    BY <1>8 DEF ClaimUploadKey, ExamineUpload, RecordScan, ReadScan
  <2>2. \A q \in Requests \ {r} : requests'[q] = requests[q]
    BY <1>8 DEF ClaimUploadKey, ExamineUpload, RecordScan, ReadScan, Finish, TypeOK
  <2>3. requests'[r] = None \/ requests'[r].op \in {"confirm", "insert", "recorded", "read"}
    BY <1>8 DEF ClaimUploadKey, ExamineUpload, RecordScan, ReadScan, Finish, TypeOK
  <2>4. ~Writing(r)'
    BY <2>3 DEF Writing, Doing
  <2>5. QED  BY <1>7, <2>1, <2>2, <2>4
<1>9. ASSUME NEW r \in Requests,
             Fail(r) \/ \E outcome \in {"detected", "rejected"} : StoreReading(r, outcome)
      PROVE  RegisterInv'
  <2>1. UNCHANGED <<attendance, audited>> /\ Finish(r)
    BY <1>9 DEF Fail, StoreReading
  <2>2. ~Writing(r)' /\ \A q \in Requests \ {r} : requests'[q] = requests[q]
    BY <2>1 DEF Finish, TypeOK, Writing, Doing
  <2>3. QED  BY <1>7, <2>1, <2>2
<1>10. QED
  BY <1>1, <1>2, <1>3, <1>4, <1>5, <1>6, <1>8, <1>9
  DEF Next, Capture, NextStep, NewRequest, Retention, vars, IssueScanUploadKey,
      GrantExpires, PutPhoto, Ages, CloseMonth, PurgeObject, PurgeRow, PurgeStops

\* RegisterInv is an invariant: the commits and saves in flight fit their meeting.
LEMMA RegisterInvariant == Spec => []RegisterInv
<1>1. Init => RegisterInv
  BY DEF Init, RegisterInv, OmrRowsTraceToTheirSheet, EveryRowIsAudited,
         CommitsFitTheirSheet, SeenRowsAreAudited, Writing, Doing
<1>2. TypeOK /\ ScansInFlight /\ RegisterInv /\ [Next]_vars => RegisterInv'
  BY RegisterStep
<1>3. QED  BY <1>1, <1>2, TypeCorrect, PTL DEF Spec

\* A row that claims a sheet belongs to a committed scan of a page printed for its
\* meeting with its member on it (commitScan and saveAttendance, however interleaved).
THEOREM RegisterIsTraceable == Spec => []OmrRowsTraceToTheirSheet
<1>1. RegisterInv => OmrRowsTraceToTheirSheet
  BY DEF RegisterInv
<1>2. QED  BY <1>1, RegisterInvariant, PTL

\* Every row of the register is in the audit log, although what to audit is chosen
\* against a register read without a lock (scans.ts:517).
THEOREM RegisterIsAudited == Spec => []EveryRowIsAudited
<1>1. RegisterInv => EveryRowIsAudited
  BY DEF RegisterInv
<1>2. QED  BY <1>1, RegisterInvariant, PTL
-----------------------------------------------------------------------------
(***************************************************************************)
(* One commit per scan: what the row lock is for.                          *)
(***************************************************************************)
Committing(r, s) == Doing(r, "commit") /\ requests[r].scan = s

\* A commit in flight has the scan to itself, and the scan can still be committed.
LockInv ==
    \A r \in Requests, s \in ScanIds : Committing(r, s) =>
        /\ scans[s].status \notin {"committed", "rejected"}
        /\ \A q \in Requests : Committing(q, s) => q = r

\* A scan's status and review change only when a reading or a commit of it is stored.
LEMMA StatusSteps ==
    ASSUME TypeOK, ScansInFlight, [Next]_vars, NEW s \in Recorded
    PROVE  \/ scans'[s].status = scans[s].status /\ scans'[s].review = scans[s].review
           \/ ~Locked(s) /\ scans'[s].status \in {"detected", "rejected"}
           \/ \E r \in Requests : StoreCommit(r) /\ requests[r].scan = s
<1> DEFINE Same(row) == row.status = scans[s].status /\ row.review = scans[s].review
<1>1. s \in ScanIds /\ scans[s] \in ScanRow
  BY DEF TypeOK, Recorded
<1>2. ASSUME NEW r \in Requests, RecordScan(r)
      PROVE  Same(scans'[s])
  BY <1>1, <1>2 DEF RecordScan, TypeOK, Recorded
<1>3. ASSUME NEW r \in Requests, NEW outcome \in {"detected", "rejected"},
             StoreReading(r, outcome)
      PROVE  Same(scans'[s]) \/ (~Locked(s) /\ scans'[s].status \in {"detected", "rejected"})
  <2>1. CASE requests[r].scan = s
    <3>1. ~Locked(s) /\ scans'[s] = ReadRow(scans[s], outcome)
      BY <1>1, <1>3, <2>1 DEF StoreReading, TypeOK
    <3>2. QED  BY <1>1, <3>1, ReadRowKeeps
  <2>2. CASE requests[r].scan # s
    BY <1>1, <1>3, <2>2 DEF StoreReading, TypeOK
  <2>3. QED  BY <2>1, <2>2
<1>4. ASSUME NEW r \in Requests, StoreCommit(r)
      PROVE  Same(scans'[s]) \/ (StoreCommit(r) /\ requests[r].scan = s)
  <2>1. CASE requests[r].scan = s
    BY <1>4, <2>1
  <2>2. CASE requests[r].scan # s
    BY <1>1, <1>4, <2>2 DEF StoreCommit, TypeOK
  <2>3. QED  BY <2>1, <2>2
<1>5. ASSUME NEW t \in ScanIds, Ages(t)
      PROVE  Same(scans'[s])
  <2>1. scans' = [scans EXCEPT ![t] = [scans[t] EXCEPT !.age = scans[t].age + 1]]
    BY <1>5 DEF Ages
  <2>2. scans'[s] = scans[s] \/ scans'[s] = [scans[s] EXCEPT !.age = scans[s].age + 1]
    BY <1>1, <2>1 DEF TypeOK
  <2>3. QED  BY <1>1, <2>2 DEF ScanRow
<1>6. ASSUME NEW t \in ScanIds, PurgeRow(t)
      PROVE  Same(scans'[s])
  <2>1. scans'[s] = scans[s] \/ scans'[s] = [scans[s] EXCEPT !.photo_ref = None]
    BY <1>1, <1>6 DEF PurgeRow, TypeOK
  <2>2. QED  BY <1>1, <2>1 DEF ScanRow
<1>7. QED
  BY <1>2, <1>3, <1>4, <1>5, <1>6
  DEF Next, Capture, NextStep, NewRequest, Retention, vars, IssueScanUploadKey,
      GrantExpires, PutPhoto, ClaimUploadKey, ExamineUpload, ReadScan, CommitScan,
      SaveRegister, StoreRegister, SaveOne, Fail, CloseMonth, PurgeObject, PurgeStops

\* A commit that is in flight after a step was so before, or has just taken the lock.
LEMMA CommitSteps ==
    ASSUME TypeOK, [Next]_vars, NEW r \in Requests, Doing(r, "commit")'
    PROVE  \/ Doing(r, "commit") /\ requests'[r] = requests[r]
           \/ /\ Committable(requests'[r].scan)
              /\ ~Locked(requests'[r].scan)
              /\ UNCHANGED scans
              /\ \A q \in Requests \ {r} : requests'[q] = requests[q]
<1> DEFINE Kept == requests'[r] = requests[r]
<1>1. CASE Kept
  BY <1>1 DEF Doing
<1>2. ASSUME NEW q \in Requests, NEW s \in ScanIds, NEW entries \in Entries,
             CommitScan(q, s, entries), ~Kept
      PROVE  /\ Committable(requests'[r].scan)
             /\ ~Locked(requests'[r].scan)
             /\ UNCHANGED scans
             /\ \A p \in Requests \ {r} : requests'[p] = requests[p]
  <2>1. q = r
    BY <1>2 DEF CommitScan, TypeOK
  <2>2. requests'[r].scan = s
    BY <1>2, <2>1 DEF CommitScan, TypeOK
  <2>3. QED  BY <1>2, <2>1, <2>2 DEF CommitScan, TypeOK
<1>3. ASSUME NEW q \in Requests,
             \/ \E k \in Keys, sheet \in Sheets : ClaimUploadKey(q, k, sheet)
             \/ ExamineUpload(q) \/ RecordScan(q)
             \/ \E s \in ScanIds : ReadScan(q, s)
             \/ \E e \in Events, entries \in Entries : SaveRegister(q, e, entries)
      PROVE  Kept
  BY <1>3 DEF ClaimUploadKey, ExamineUpload, RecordScan, ReadScan, SaveRegister,
              Finish, TypeOK, Doing
<1>4. ASSUME NEW q \in Requests, Finish(q)
      PROVE  Kept
  BY <1>4 DEF Finish, TypeOK, Doing
<1>5. QED
  BY <1>1, <1>2, <1>3, <1>4
  DEF Next, Capture, NextStep, NewRequest, Retention, vars, IssueScanUploadKey,
      GrantExpires, PutPhoto, StoreReading, StoreCommit, StoreRegister, SaveOne,
      Fail, Ages, CloseMonth, PurgeObject, PurgeRow, PurgeStops

LEMMA LockStep ==
    ASSUME TypeOK, ScansInFlight, [Next]_vars, LockInv
    PROVE  LockInv'
<1> SUFFICES ASSUME NEW r \in Requests, NEW s \in ScanIds, Committing(r, s)'
             PROVE  /\ scans'[s].status \notin {"committed", "rejected"}
                    /\ \A q \in Requests : Committing(q, s)' => q = r
  BY DEF LockInv
<1>1. CASE Committing(r, s) /\ requests'[r] = requests[r]
  <2>1. s \in Recorded /\ Locked(s)
    BY <1>1 DEF Committing, ScansInFlight, Locked
  <2>2. ASSUME NEW q \in Requests, StoreCommit(q), requests[q].scan = s
        PROVE  FALSE
    <3>1. Committing(q, s)
      BY <2>2 DEF StoreCommit, Committing
    <3>2. q = r
      BY <1>1, <3>1 DEF LockInv
    <3>3. requests'[r] = None
      BY <2>2, <3>2 DEF StoreCommit, Finish, TypeOK
    <3>4. QED  BY <3>3 DEF Committing, Doing
  <2>3. scans'[s].status = scans[s].status
    BY <2>1, <2>2, StatusSteps
  <2>4. ASSUME NEW q \in Requests, Committing(q, s)'
        PROVE  q = r
    <3>1. CASE Committing(q, s)
      BY <1>1, <3>1 DEF LockInv
    <3>2. CASE ~Committing(q, s)
      BY <2>1, <2>4, <3>2, CommitSteps DEF Committing
    <3>3. QED  BY <3>1, <3>2
  <2>5. QED  BY <1>1, <2>3, <2>4 DEF LockInv
<1>2. CASE ~(Committing(r, s) /\ requests'[r] = requests[r])
  <2>1. /\ Committable(s)
        /\ ~Locked(s)
        /\ UNCHANGED scans
        /\ \A q \in Requests \ {r} : requests'[q] = requests[q]
    BY <1>2, CommitSteps DEF Committing
  <2>2. \A q \in Requests : Committing(q, s)' => q = r
    BY <2>1 DEF Committing, Doing, Locked
  <2>3. QED  BY <2>1, <2>2 DEF Committable
<1>3. QED  BY <1>1, <1>2

\* No interleaving of commits, readings and purges lets a second commit through
\* on a scan that is committed.
THEOREM CommitsHappenOnce == Spec => CommittedOnce
<1>1. Init => LockInv
  BY DEF Init, LockInv, Committing, Doing
<1>2. TypeOK /\ ScansInFlight /\ LockInv /\ [Next]_vars => LockInv'
  BY LockStep
<1>3. ASSUME TypeOK, ScansInFlight, LockInv, [Next]_vars, NEW s \in Recorded,
             scans[s].status = "committed", scans'[s].status = "committed"
      PROVE  scans'[s].review = scans[s].review
  <2>1. ASSUME NEW r \in Requests, StoreCommit(r), requests[r].scan = s
        PROVE  FALSE
    <3>1. Committing(r, s) /\ s \in ScanIds
      BY <2>1 DEF StoreCommit, Committing, Recorded
    <3>2. QED  BY <1>3, <3>1 DEF LockInv
  <2>2. QED  BY <1>3, <2>1, StatusSteps
<1>4. TypeOK /\ ScansInFlight /\ LockInv /\ [Next]_vars =>
        [\A s \in Recorded :
           scans[s].status = "committed" /\ scans'[s].status = "committed"
             => scans'[s].review = scans[s].review]_vars
  BY <1>3
<1>5. QED  BY <1>1, <1>2, <1>4, TypeCorrect, PTL DEF Spec, CommittedOnce
-----------------------------------------------------------------------------
(***************************************************************************)
(* The photographs stay with their scans: no deletion on the way takes an  *)
(* object that is still needed, and no two scans share one.                *)
(***************************************************************************)
\* A request between the claim of a key and the insert of its scan.
Carries(r, k) == (Doing(r, "confirm") \/ Doing(r, "insert")) /\ requests[r].key = k

Holds(s, k) == s \in Recorded /\ scans[s].photo_ref = k

\* A claimed key is consumed, belongs to its sheet, and is in one pair of hands.
CarriedKeys ==
    \A r \in Requests, k \in Keys : Carries(r, k) =>
        /\ grants[k] # None
        /\ grants[k].state = "consumed"
        /\ grants[k].sheet = requests[r].sheet
        /\ \A q \in Requests : Carries(q, k) => q = r
        /\ \A s \in ScanIds : ~Holds(s, k)

\* What was examined is what is there when the row is inserted.
ExaminedPhotos ==
    \A r \in Requests : Doing(r, "insert") => objects[requests[r].key] = requests[r].photo

HeldKeys ==
    \A s \in ScanIds, k \in Keys : Holds(s, k) =>
        /\ grants[k] # None
        /\ grants[k].state = "consumed"
        /\ grants[k].sheet = scans[s].sheet
        /\ objects[k] = scans[s].photo_hash \/ (objects[k] = None /\ Purgeable(s))
        /\ \A t \in ScanIds : Holds(t, k) => t = s

CustodyInv == CarriedKeys /\ ExaminedPhotos /\ HeldKeys

-----------------------------------------------------------------------------
\* A step that touches neither grants nor objects, and gives no request a key and
\* no scan an object, leaves the custody as it is.
LEMMA NothingMoves ==
    ASSUME TypeOK, ScansInFlight, [Next]_vars, CustodyInv, UNCHANGED <<grants, objects>>,
           \A s \in ScanIds, k \in Keys : Holds(s, k)' => Holds(s, k),
           \A s \in Recorded : Purgeable(s) /\ scans'[s].photo_ref # None => Purgeable(s)',
           \A r \in Requests :
              (Doing(r, "confirm") \/ Doing(r, "insert"))' => requests'[r] = requests[r]
    PROVE  CustodyInv'
<1>1. \A r \in Requests, k \in Keys :
         Carries(r, k)' => Carries(r, k) /\ requests'[r] = requests[r]
  BY DEF Carries, Doing
<1>2. CarriedKeys'
  BY <1>1 DEF CustodyInv, CarriedKeys
<1>3. ExaminedPhotos'
  BY DEF CustodyInv, ExaminedPhotos, Doing
<1>4. HeldKeys'
  <2> SUFFICES ASSUME NEW s \in ScanIds, NEW k \in Keys, Holds(s, k)'
               PROVE  /\ grants'[k] # None
                      /\ grants'[k].state = "consumed"
                      /\ grants'[k].sheet = scans'[s].sheet
                      /\ \/ objects'[k] = scans'[s].photo_hash
                         \/ objects'[k] = None /\ Purgeable(s)'
                      /\ \A t \in ScanIds : Holds(t, k)' => t = s
    BY DEF HeldKeys
  <2>1. Holds(s, k) /\ s \in Recorded
    BY DEF Holds
  <2>2. scans'[s].sheet = scans[s].sheet /\ scans'[s].photo_hash = scans[s].photo_hash
    BY <2>1, ScansLast
  <2>3. Purgeable(s) => Purgeable(s)'
    BY <2>1, NoneAssumption DEF Holds
  <2>4. QED  BY <2>1, <2>2, <2>3 DEF CustodyInv, HeldKeys
<1>5. QED  BY <1>2, <1>3, <1>4 DEF CustodyInv

\* What is due for purging stays due for as long as the row points at its object.
LEMMA DueStaysDue ==
    ASSUME TypeOK, ScansInFlight, [Next]_vars, NEW s \in Recorded, Purgeable(s),
           scans'[s].photo_ref # None
    PROVE  Purgeable(s)'
<1>1. /\ s \in Recorded'
      /\ scans'[s].sheet = scans[s].sheet
      /\ scans[s].age <= scans'[s].age
  BY ScansLast
<1>2. scans[s].age \in 0 .. 2 /\ scans'[s].age \in 0 .. 2
  <2>1. scans[s] \in ScanRow
    BY DEF TypeOK, Recorded
  <2>2. scans'[s] \in ScanRow
    BY <1>1, TypeStep DEF TypeOK, Recorded
  <2>3. QED  BY <2>1, <2>2 DEF ScanRow
<1>3. closed \subseteq closed'
  BY DEF Next, Capture, NextStep, NewRequest, Retention, vars, IssueScanUploadKey,
      GrantExpires, PutPhoto, ClaimUploadKey, ExamineUpload, RecordScan, ReadScan,
      StoreReading, CommitScan, StoreCommit, SaveRegister, StoreRegister, SaveOne,
      Fail, Ages, CloseMonth, PurgeObject, PurgeRow, PurgeStops
<1>4. QED  BY <1>1, <1>2, <1>3 DEF Purgeable

\* Only the insert gives a scan an object.
LEMMA HoldersLast ==
    ASSUME TypeOK, ScansInFlight, [Next]_vars, NEW s \in ScanIds, NEW k \in Keys,
           Holds(s, k)', ~Holds(s, k)
    PROVE  \E r \in Requests : /\ RecordScan(r)
                               /\ ~OnFile(requests[r].sheet, requests[r].photo)
                               /\ s \notin Recorded
                               /\ Carries(r, k)
                               /\ scans' = [scans EXCEPT ![s] =
                                     NewScan(k, requests[r].sheet, requests[r].photo)]
<1>1. CASE s \in Recorded
  BY <1>1, ScansLast, NoneAssumption DEF Holds
<1>2. CASE s \notin Recorded
  <2>1. scans[s] = None /\ scans'[s] # None
    BY <1>2 DEF Holds, Recorded
  <2>2. PICK r \in Requests : RecordScan(r)
    BY <2>1
    DEF Next, Capture, NextStep, NewRequest, Retention, vars, IssueScanUploadKey,
        GrantExpires, PutPhoto, ClaimUploadKey, ExamineUpload, ReadScan,
        StoreReading, CommitScan, StoreCommit, SaveRegister, StoreRegister, SaveOne,
        Fail, Ages, CloseMonth, PurgeObject, PurgeRow, PurgeStops,
        ScansInFlight, TypeOK, Recorded
  <2>3. scans' = [scans EXCEPT ![s] =
                    NewScan(requests[r].key, requests[r].sheet, requests[r].photo)]
        /\ ~OnFile(requests[r].sheet, requests[r].photo)
    BY <2>1, <2>2 DEF RecordScan, TypeOK
  <2>4. requests[r].key = k
    BY <2>1, <2>3 DEF Holds, NewScan, TypeOK
  <2>5. QED  BY <1>2, <2>2, <2>3, <2>4 DEF Carries, RecordScan
<1>3. QED  BY <1>1, <1>2

\* A key that is not consumed yet may change hands freely.
LEMMA UnusedKeys ==
    ASSUME TypeOK, CustodyInv, NEW k \in Keys,
           grants[k] = None \/ grants[k].state # "consumed",
           \A l \in Keys \ {k} : grants'[l] = grants[l] /\ objects'[l] = objects[l],
           UNCHANGED <<scans, requests, closed>>
    PROVE  CustodyInv'
<1>1. \A r \in Requests : ~Carries(r, k)
  BY DEF CustodyInv, CarriedKeys
<1>2. \A s \in ScanIds : ~Holds(s, k)
  BY DEF CustodyInv, HeldKeys
<1>3. CarriedKeys'
  BY <1>1 DEF CustodyInv, CarriedKeys, Carries, Doing, Holds, Recorded
<1>4. ExaminedPhotos'
  <2> SUFFICES ASSUME NEW r \in Requests, Doing(r, "insert")
               PROVE  objects'[requests[r].key] = requests[r].photo
    BY DEF ExaminedPhotos, Doing
  <2>1. requests[r].key \in Keys \ {k}
    BY <1>1 DEF Carries, Doing, TypeOK, Request
  <2>2. QED  BY <2>1 DEF CustodyInv, ExaminedPhotos
<1>5. HeldKeys'
  BY <1>2 DEF CustodyInv, HeldKeys, Holds, Recorded, Purgeable
<1>6. QED  BY <1>3, <1>4, <1>5 DEF CustodyInv

\* An object may be deleted when no scan that still needs it, and no request that
\* has examined it, points at it.
LEMMA UnneededObject ==
    ASSUME TypeOK, CustodyInv, NEW k \in Keys,
           objects' = objects \/ objects' = [objects EXCEPT ![k] = None],
           \A s \in ScanIds : Holds(s, k) => Purgeable(s),
           \A r \in Requests : Doing(r, "insert")' => requests[r].key # k,
           \A r \in Requests :
              (Doing(r, "confirm") \/ Doing(r, "insert"))' => requests'[r] = requests[r],
           UNCHANGED <<grants, scans, closed>>
    PROVE  CustodyInv'
<1>1. \A r \in Requests, l \in Keys :
         Carries(r, l)' => Carries(r, l) /\ requests'[r] = requests[r]
  BY DEF Carries, Doing
<1>2. \A l \in Keys : objects'[l] = objects[l] \/ (l = k /\ objects'[l] = None)
  BY DEF TypeOK
<1>3. CarriedKeys'
  BY <1>1 DEF CustodyInv, CarriedKeys, Holds, Recorded
<1>4. ExaminedPhotos'
  <2> SUFFICES ASSUME NEW r \in Requests, Doing(r, "insert")'
               PROVE  objects'[requests'[r].key] = requests'[r].photo
    BY DEF ExaminedPhotos
  <2>1. requests'[r] = requests[r] /\ Doing(r, "insert")
    BY DEF Doing
  <2>2. requests[r].key \in Keys \ {k}
    BY <2>1 DEF Doing, TypeOK, Request
  <2>3. QED  BY <1>2, <2>1, <2>2 DEF CustodyInv, ExaminedPhotos
<1>5. HeldKeys'
  BY <1>2 DEF CustodyInv, HeldKeys, Holds, Recorded, Purgeable
<1>6. QED  BY <1>3, <1>4, <1>5 DEF CustodyInv

LEMMA CustodyStep ==
    ASSUME TypeOK, ScansInFlight, [Next]_vars, CustodyInv
    PROVE  CustodyInv'
<1>1. ASSUME NEW k \in Keys,
             \/ \E sheet \in Sheets : IssueScanUploadKey(k, sheet)
             \/ GrantExpires(k)
             \/ \E photo \in Photos : PutPhoto(k, photo)
      PROVE  CustodyInv'
  <2>1. grants[k] = None \/ grants[k].state # "consumed"
    BY <1>1 DEF IssueScanUploadKey, GrantExpires, PutPhoto
  <2>2. \A l \in Keys \ {k} : grants'[l] = grants[l] /\ objects'[l] = objects[l]
    BY <1>1 DEF IssueScanUploadKey, GrantExpires, PutPhoto, TypeOK
  <2>3. UNCHANGED <<scans, requests, closed>>
    BY <1>1 DEF IssueScanUploadKey, GrantExpires, PutPhoto
  <2>4. QED  BY <2>1, <2>2, <2>3, UnusedKeys
<1>2. ASSUME NEW r \in Requests, NEW k \in Keys, NEW sheet \in Sheets,
             ClaimUploadKey(r, k, sheet)
      PROVE  CustodyInv'
  <2>1. /\ requests[r] = None
        /\ requests'[r] = [op |-> "confirm", key |-> k, sheet |-> sheet]
        /\ \A q \in Requests \ {r} : requests'[q] = requests[q]
    BY <1>2 DEF ClaimUploadKey, Idle, TypeOK
  <2>2. /\ grants[k] # None /\ grants[k].state = "open" /\ grants[k].sheet = sheet
        /\ \A l \in Keys \ {k} : grants'[l] = grants[l]
    BY <1>2 DEF ClaimUploadKey, Claimable, TypeOK
  <2>3. grants'[k] \in Grant /\ grants'[k].state = "consumed" /\ grants'[k].sheet = sheet
    BY <1>2, <2>2 DEF ClaimUploadKey, TypeOK, Grant
  <2>4. UNCHANGED <<objects, scans, closed>>
    BY <1>2 DEF ClaimUploadKey
  <2>5. (\A q \in Requests : ~Carries(q, k)) /\ (\A s \in ScanIds : ~Holds(s, k))
    BY <2>2 DEF CustodyInv, CarriedKeys, HeldKeys
  <2>6. \A q \in Requests, l \in Keys :
           Carries(q, l)' => (q = r /\ l = k) \/ (q # r /\ l # k /\ Carries(q, l))
    BY <2>1, <2>5 DEF Carries, Doing
  <2>7. CarriedKeys'
    BY <2>1, <2>2, <2>3, <2>4, <2>5, <2>6, RowAssumption
    DEF CustodyInv, CarriedKeys, Holds, Recorded
  <2>8. ExaminedPhotos'
    BY <2>1, <2>4 DEF CustodyInv, ExaminedPhotos, Doing
  <2>9. HeldKeys'
    BY <2>2, <2>4, <2>5 DEF CustodyInv, HeldKeys, Holds, Recorded, Purgeable
  <2>10. QED  BY <2>7, <2>8, <2>9 DEF CustodyInv
<1>3. ASSUME NEW r \in Requests, ExamineUpload(r)
      PROVE  CustodyInv'
  <2> DEFINE k == requests[r].key
             photo == objects[k]
  <2>1. k \in Keys /\ Carries(r, k) /\ requests[r].sheet \in Sheets
    BY <1>3 DEF ExamineUpload, Carries, Doing, TypeOK, Request
  <2>2. UNCHANGED <<grants, scans, closed>>
    BY <1>3 DEF ExamineUpload
  <2>3. \A q \in Requests \ {r} : requests'[q] = requests[q]
    BY <1>3 DEF ExamineUpload, Finish, TypeOK
  <2>4. CASE Finish(r)
    <3>1. requests'[r] = None
      BY <2>4 DEF Finish, TypeOK
    <3>2. objects' = objects \/ objects' = [objects EXCEPT ![k] = None]
      BY <1>3 DEF ExamineUpload, DeleteObject
    <3>3. \A s \in ScanIds : ~Holds(s, k)
      BY <2>1 DEF CustodyInv, CarriedKeys
    <3>4. \A q \in Requests : Doing(q, "insert")' => requests[q].key # k
      BY <2>1, <2>3, <3>1 DEF CustodyInv, CarriedKeys, Carries, Doing
    <3>5. \A q \in Requests :
             (Doing(q, "confirm") \/ Doing(q, "insert"))' => requests'[q] = requests[q]
      BY <2>3, <3>1 DEF Doing
    <3>6. QED  BY <2>1, <2>2, <3>2, <3>3, <3>4, <3>5, UnneededObject
  <2>5. CASE ~Finish(r)
    <3>1. UNCHANGED objects /\ photo \in Sound
          /\ requests'[r] = [op |-> "insert", key |-> k, sheet |-> requests[r].sheet,
                             photo |-> photo]
      BY <1>3, <2>5 DEF ExamineUpload, TypeOK
    <3>2. \A q \in Requests, l \in Keys : Carries(q, l)' => Carries(q, l)
      BY <2>1, <2>3, <3>1 DEF Carries, Doing
    <3>3. CarriedKeys'
      BY <2>2, <2>3, <3>1, <3>2 DEF CustodyInv, CarriedKeys, Holds, Recorded
    <3>4. ExaminedPhotos'
      BY <2>3, <3>1 DEF CustodyInv, ExaminedPhotos, Doing
    <3>5. HeldKeys'
      BY <2>2, <3>1 DEF CustodyInv, HeldKeys, Holds, Recorded, Purgeable
    <3>6. QED  BY <3>3, <3>4, <3>5 DEF CustodyInv
  <2>6. QED  BY <2>4, <2>5
<1>4. ASSUME NEW r \in Requests, RecordScan(r)
      PROVE  CustodyInv'
  <2>1. UNCHANGED <<grants, objects, closed>>
        /\ \A q \in Requests \ {r} : requests'[q] = requests[q]
    BY <1>4 DEF RecordScan, Finish, TypeOK
  <2>2. requests'[r] = None \/ requests'[r].op = "recorded"
    BY <1>4 DEF RecordScan, Finish, TypeOK
  <2>3. \A q \in Requests, l \in Keys :
           Carries(q, l)' => q # r /\ Carries(q, l) /\ requests'[q] = requests[q]
    BY <2>1, <2>2 DEF Carries, Doing
  <2>4. \A s \in Recorded : Purgeable(s) /\ scans'[s].photo_ref # None => Purgeable(s)'
    BY DueStaysDue
  <2>5. CASE \A s \in ScanIds, k \in Keys : Holds(s, k)' => Holds(s, k)
    <3>1. \A q \in Requests :
             (Doing(q, "confirm") \/ Doing(q, "insert"))' => requests'[q] = requests[q]
      BY <2>1, <2>2 DEF Doing
    <3>2. QED  BY <2>1, <2>4, <2>5, <3>1, NothingMoves
  <2>6. ASSUME NEW s \in ScanIds, NEW k \in Keys, Holds(s, k)', ~Holds(s, k)
        PROVE  CustodyInv'
    <3>1. PICK p \in Requests :
             /\ RecordScan(p)
             /\ s \notin Recorded
             /\ Carries(p, k)
             /\ scans' = [scans EXCEPT ![s] =
                            NewScan(k, requests[p].sheet, requests[p].photo)]
      BY <2>6, HoldersLast
    <3>2. Doing(p, "insert") /\ requests[p].key = k
      BY <3>1 DEF RecordScan, Carries
    <3>3. p = r
      <4>1. requests'[p] = None \/ requests'[p].op = "recorded"
        <5>1. RecordScan(p)
          BY <3>1
        <5>2. QED  BY <5>1 DEF RecordScan, Finish, TypeOK
      <4>2. QED  BY <2>1, <3>2, <4>1 DEF Doing
    <3>4. objects[k] = requests[r].photo
      BY <3>2, <3>3 DEF CustodyInv, ExaminedPhotos
    <3>5. /\ grants[k] # None
          /\ grants[k].state = "consumed"
          /\ grants[k].sheet = requests[r].sheet
          /\ \A q \in Requests : Carries(q, k) => q = r
          /\ \A t \in ScanIds : ~Holds(t, k)
      BY <3>1, <3>3 DEF CustodyInv, CarriedKeys
    <3>6. /\ scans'[s].sheet = requests[r].sheet
          /\ scans'[s].photo_hash = requests[r].photo
          /\ \A l \in Keys : Holds(s, l)' => l = k
      BY <3>1, <3>3 DEF NewScan, TypeOK, Holds
    <3>7. \A t \in ScanIds \ {s} : scans'[t] = scans[t]
      BY <3>1 DEF TypeOK
    <3>8. \A t \in ScanIds \ {s}, l \in Keys : Holds(t, l)' => Holds(t, l) /\ l # k
      BY <3>5, <3>7 DEF Holds, Recorded
    <3>9. CarriedKeys'
      BY <2>1, <2>3, <3>5, <3>6, <3>8 DEF CustodyInv, CarriedKeys
    <3>10. ExaminedPhotos'
      BY <2>1, <2>2 DEF CustodyInv, ExaminedPhotos, Doing
    <3>11. HeldKeys'
      <4> SUFFICES ASSUME NEW t \in ScanIds, NEW l \in Keys, Holds(t, l)'
                   PROVE  /\ grants[l] # None
                          /\ grants[l].state = "consumed"
                          /\ grants[l].sheet = scans'[t].sheet
                          /\ \/ objects[l] = scans'[t].photo_hash
                             \/ objects[l] = None /\ Purgeable(t)'
                          /\ \A u \in ScanIds : Holds(u, l)' => u = t
        BY <2>1 DEF HeldKeys
      <4>1. CASE t = s
        BY <3>4, <3>5, <3>6, <3>8, <4>1
      <4>2. CASE t # s
        <5>1. Holds(t, l) /\ l # k /\ scans'[t] = scans[t]
          BY <3>7, <3>8, <4>2
        <5>2. Purgeable(t) => Purgeable(t)'
          BY <2>1, <5>1 DEF Purgeable, Recorded
        <5>3. \A u \in ScanIds : Holds(u, l)' => Holds(u, l)
          BY <3>6, <3>8, <5>1
        <5>4. QED  BY <5>1, <5>2, <5>3 DEF CustodyInv, HeldKeys
      <4>3. QED  BY <4>1, <4>2
    <3>12. QED  BY <3>9, <3>10, <3>11 DEF CustodyInv
  <2>7. QED  BY <2>5, <2>6
<1>5. ASSUME NEW s \in ScanIds, PurgeObject(s)
      PROVE  CustodyInv'
  <2> DEFINE k == scans[s].photo_ref
  <2>1. Purgeable(s) /\ s \in Recorded /\ k \in Keys
    BY <1>5 DEF PurgeObject, Purgeable, Recorded, TypeOK, ScanRow
  <2>2. Holds(s, k)
    BY <2>1 DEF Holds
  <2>3. \A t \in ScanIds : Holds(t, k) => Purgeable(t)
    BY <2>1, <2>2 DEF CustodyInv, HeldKeys
  <2>4. UNCHANGED <<grants, scans, closed, requests>>
        /\ (objects' = objects \/ objects' = [objects EXCEPT ![k] = None])
    BY <1>5 DEF PurgeObject, DeleteObject
  <2>5. \A r \in Requests : Doing(r, "insert")' => requests[r].key # k
    BY <2>1, <2>2, <2>4 DEF CustodyInv, CarriedKeys, Carries, Doing
  <2>6. QED  BY <2>1, <2>3, <2>4, <2>5, UnneededObject
<1>6. ASSUME UNCHANGED <<grants, objects>>,
             \A s \in ScanIds, k \in Keys : Holds(s, k)' => Holds(s, k),
             \A r \in Requests :
                (Doing(r, "confirm") \/ Doing(r, "insert"))' => requests'[r] = requests[r]
      PROVE  CustodyInv'
  BY <1>6, DueStaysDue, NothingMoves
<1>7. ASSUME NEW r \in Requests,
             \/ \E s \in ScanIds : ReadScan(r, s)
             \/ \E s \in ScanIds, entries \in Entries : CommitScan(r, s, entries)
             \/ \E e \in Events, entries \in Entries : SaveRegister(r, e, entries)
             \/ \E outcome \in {"detected", "rejected"} : StoreReading(r, outcome)
             \/ StoreCommit(r) \/ StoreRegister(r) \/ Fail(r)
      PROVE  UNCHANGED <<grants, objects>> /\ \A q \in Requests :
                (Doing(q, "confirm") \/ Doing(q, "insert"))' => requests'[q] = requests[q]
  <2>1. UNCHANGED <<grants, objects>>
    BY <1>7 DEF ReadScan, CommitScan, SaveRegister, StoreReading, StoreCommit,
                StoreRegister, Fail
  <2>2. \A q \in Requests \ {r} : requests'[q] = requests[q]
    BY <1>7 DEF ReadScan, CommitScan, SaveRegister, StoreReading, StoreCommit,
                StoreRegister, Fail, Finish, TypeOK
  <2>3. requests'[r] = None \/ requests'[r].op \in {"read", "commit", "save"}
    BY <1>7 DEF ReadScan, CommitScan, SaveRegister, StoreReading, StoreCommit,
                StoreRegister, Fail, Finish, TypeOK
  <2>4. QED  BY <2>1, <2>2, <2>3 DEF Doing
<1>8. CASE \E r \in Requests : RecordScan(r)
  BY <1>4, <1>8
<1>9. CASE ~\E r \in Requests : RecordScan(r)
  <2>1. \A s \in ScanIds, k \in Keys : Holds(s, k)' => Holds(s, k)
    BY <1>9, HoldersLast
  <2>2. ASSUME UNCHANGED <<grants, objects, requests>>
        PROVE  CustodyInv'
    BY <1>6, <2>1, <2>2
  <2>3. QED
    BY <1>1, <1>2, <1>3, <1>5, <1>6, <1>7, <1>9, <2>1, <2>2
    DEF Next, Capture, NextStep, NewRequest, Retention, vars, SaveOne, Ages,
        CloseMonth, PurgeRow, PurgeStops
<1>10. QED  BY <1>8, <1>9

\* What a key was issued for, and who may still need its object, in every state.
LEMMA CustodyInvariant == Spec => [](TypeOK /\ CustodyInv)
<1>1. Init => CustodyInv
  BY DEF Init, CustodyInv, CarriedKeys, ExaminedPhotos, HeldKeys, Carries, Doing, Holds,
         Recorded
<1>2. TypeOK /\ ScansInFlight /\ CustodyInv /\ [Next]_vars => CustodyInv'
  BY CustodyStep
<1>3. QED  BY <1>1, <1>2, TypeCorrect, PTL DEF Spec

\* Of a scan that points at a photograph, what the two theorems below say.
LEMMA CustodyOfAScan == TypeOK /\ CustodyInv => PhotoKeptUntilDue /\ PhotoIsTheScans
<1> SUFFICES ASSUME TypeOK, CustodyInv, NEW s \in ScanIds, HoldsPhoto(s)
             PROVE  /\ ~Purgeable(s) => objects[scans[s].photo_ref] # None
                    /\ grants[scans[s].photo_ref] # None
                    /\ grants[scans[s].photo_ref].sheet = scans[s].sheet
                    /\ objects[scans[s].photo_ref] \in {scans[s].photo_hash, None}
                    /\ \A t \in ScanIds \ {s} :
                          HoldsPhoto(t) => scans[t].photo_ref # scans[s].photo_ref
  BY DEF PhotoKeptUntilDue, PhotoIsTheScans
<1>1. scans[s] \in ScanRow
  BY DEF HoldsPhoto, Recorded, TypeOK
<1>2. scans[s].photo_ref \in Keys /\ scans[s].photo_hash # None
  BY <1>1, NoneAssumption DEF HoldsPhoto, ScanRow
<1>3. Holds(s, scans[s].photo_ref)
  BY DEF Holds, HoldsPhoto
<1>4. QED  BY <1>2, <1>3 DEF CustodyInv, HeldKeys, Holds, HoldsPhoto

\* The photograph a scan points at is there until its retention has run out, whatever
\* confirmations, refusals and retention passes go on beside it.
THEOREM PhotosAreKept == Spec => []PhotoKeptUntilDue
BY CustodyInvariant, CustodyOfAScan, PTL

\* It is the image the scan was recorded with, issued for its sheet, and no other
\* scan's (the claim of the key and the unique index on the hash).
THEOREM PhotosAreTheirOwn == Spec => []PhotoIsTheScans
BY CustodyInvariant, CustodyOfAScan, PTL
=============================================================================

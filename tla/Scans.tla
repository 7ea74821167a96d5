------------------------------- MODULE Scans -------------------------------
(***************************************************************************)
(* The life of a photographed attendance sheet (src/src/omr/scans.ts,      *)
(* src/src/omr/retention.ts), beside the hand-kept register that writes    *)
(* the same attendance rows (src/src/routes/admin-events.ts).              *)
(*                                                                         *)
(* A photograph is put in object storage under a key issued for one sheet, *)
(* confirmed into an attendance_scans row, read by the sheet reader,       *)
(* committed by a person, and purged from storage when it is old.  The     *)
(* handlers are asynchronous: `requests' holds, for each request in        *)
(* flight, what it has read so far and is going to act upon.  One action   *)
(* is one database statement or transaction, with the storage calls next   *)
(* to it that no other handler can tell apart from it.                     *)
(***************************************************************************)
EXTENDS Naturals

CONSTANTS
    Sheets,      \* printed pages: attendance_sheets.id
    Events,      \* meetings: events.id
    Members,     \* members.id
    Keys,        \* object keys the server can issue
    ScanIds,     \* attendance_scans.id
    Photos,      \* contents of a stored object, told apart by their sha256
    Sound,       \* the photos that are JPEG and within MAX_SCAN_BYTES
    Marks,       \* attendance_status, with the reason given for it
    Requests,    \* HTTP requests the server can have in flight at once
    EventOf,     \* [Sheets -> Events]: attendance_sheets.event_id
    Manifest,    \* [Sheets -> SUBSET Members]: attendance_sheets.row_manifest
    None         \* SQL NULL, a missing row, an idle request

ASSUME SheetAssumption ==
    /\ EventOf \in [Sheets -> Events]
    /\ Manifest \in [Sheets -> SUBSET Members]
    /\ Sound \subseteq Photos

ASSUME NoneAssumption ==
    /\ None \notin Sheets \cup Events \cup Members \cup Keys
    /\ None \notin ScanIds \cup Photos \cup Marks \cup Requests

VARIABLES
    grants,      \* photo_upload_grants, scope 'scans'
    objects,     \* the bucket: the photo stored under each key
    scans,       \* attendance_scans
    attendance,  \* attendance
    audited,     \* the value the newest audit_log row gives each attendance row
    closed,      \* the meetings whose month has matrix_scores rows
    requests,    \* the requests in flight
    purging      \* the candidate purgeScanPhotos is on, if it is running

vars == <<grants, objects, scans, attendance, audited, closed, requests, purging>>

-----------------------------------------------------------------------------
(***************************************************************************)
(* Types.                                                                  *)
(***************************************************************************)
Grant == [sheet : Sheets, state : {"open", "consumed", "expired"}]

ScanStatus == {"uploaded", "detected", "rejected", "committed"}

\* What a person decided: a mark for each member named, None for the others.
Entries == [Members -> Marks \cup {None}]
Named(entries) == {m \in Members : entries[m] # None}

\* review: the request whose commit wrote detection_json.review.
\* age: 0 when taken, 1 past SCAN_PHOTO_MIN_DAYS, 2 past SCAN_PHOTO_MAX_DAYS.
ScanRow == [sheet : Sheets, photo_ref : Keys \cup {None}, photo_hash : Photos,
            status : ScanStatus, committed_at : BOOLEAN, review : Requests \cup {None},
            age : 0 .. 2]

AttendanceRow == [status : Marks, source : {"manual", "omr"},
                  scan_id : ScanIds \cup {None}]

\* One event's register, and what a request saw of it before it wrote.
Register == [Members -> AttendanceRow \cup {None}]

Request ==
    [op : {"confirm"}, key : Keys, sheet : Sheets]
      \cup [op : {"insert"}, key : Keys, sheet : Sheets, photo : Photos]
      \cup [op : {"recorded"}, scan : ScanIds]
      \cup [op : {"read"}, scan : ScanIds]
      \cup [op : {"commit"}, scan : ScanIds, entries : Entries, before : Register]
      \cup [op : {"save"}, event : Events, entries : Entries, before : Register]

\* A row is never NULL, nor is a request at work idle.
ASSUME RowAssumption ==
    /\ None \notin Grant
    /\ None \notin ScanRow
    /\ None \notin AttendanceRow
    /\ None \notin Request

TypeOK ==
    /\ grants \in [Keys -> Grant \cup {None}]
    /\ objects \in [Keys -> Photos \cup {None}]
    /\ scans \in [ScanIds -> ScanRow \cup {None}]
    /\ attendance \in [Events -> Register]
    /\ audited \in [Events -> [Members -> Marks \cup {None}]]
    /\ closed \subseteq Events
    /\ requests \in [Requests -> Request \cup {None}]
    /\ purging \in ScanIds \cup {None}

Init ==
    /\ grants = [k \in Keys |-> None]
    /\ objects = [k \in Keys |-> None]
    /\ scans = [s \in ScanIds |-> None]
    /\ attendance = [e \in Events |-> [m \in Members |-> None]]
    /\ audited = [e \in Events |-> [m \in Members |-> None]]
    /\ closed = {}
    /\ requests = [r \in Requests |-> None]
    /\ purging = None
-----------------------------------------------------------------------------
(***************************************************************************)
(* Helpers.                                                                *)
(***************************************************************************)
Recorded == {s \in ScanIds : scans[s] # None}
Idle(r) == requests[r] = None
Doing(r, op) == requests[r] # None /\ requests[r].op = op
Finish(r) == requests' = [requests EXCEPT ![r] = None]

\* Mutant: the scan is read without FOR UPDATE.
NeverLocked(s) == s \notin ScanIds

\* SELECT ... FOR UPDATE in commitScan: held until that transaction ends.
Locked(s) == \E r \in Requests : Doing(r, "commit") /\ requests[r].scan = s

\* deleteObject logs a storage error and returns as if it had worked.
DeleteObject(k) == \/ objects' = [objects EXCEPT ![k] = None]
                   \/ UNCHANGED objects

\* The same image already on file for the sheet: the index attendance_scans_not_twice.
OnFile(sheet, photo) ==
    \E s \in Recorded : scans[s].sheet = sheet /\ scans[s].photo_hash = photo

\* Mutant: no backstop, only closed months are purged.
PurgeableWhenClosed(s) ==
    /\ s \in Recorded
    /\ scans[s].photo_ref # None
    /\ scans[s].age >= 1
    /\ EventOf[scans[s].sheet] \in closed

\* What the photograph is still needed for is over (the purge query).
Purgeable(s) ==
    /\ s \in Recorded
    /\ scans[s].photo_ref # None
    /\ scans[s].age >= 1
    /\ scans[s].age = 2 \/ EventOf[scans[s].sheet] \in closed

\* Mutant: only rows that were there before are compared.
ChangedFromBefore(before, entries) ==
    {m \in Named(entries) : before[m] # None /\ before[m].status # entries[m]}

\* The members whose entry is not what the request saw: a new row, or another mark.
Changed(before, entries) ==
    {m \in Named(entries) : before[m] = None \/ before[m].status # entries[m]}

\* A commit also claims the rows that were kept by hand.
ClaimedFromHand(before, entries) ==
    {m \in Named(entries) : before[m] # None /\ before[m].source # "omr"}

\* Mutant: the entries are not held against the sheet's manifest.
FitsAnySheet(s, entries) == s \in ScanIds /\ Named(entries) # {}

FitsSheet(s, entries) ==
    Named(entries) # {} /\ Named(entries) \subseteq Manifest[scans[s].sheet]
-----------------------------------------------------------------------------
(***************************************************************************)
(* Capture: a key is issued for a sheet, the browser puts the photograph,  *)
(* and the confirmation records it.                                        *)
(***************************************************************************)
IssueScanUploadKey(k, sheet) ==
    /\ grants[k] = None
    /\ grants' = [grants EXCEPT ![k] = [sheet |-> sheet, state |-> "open"]]
    /\ UNCHANGED <<objects, scans, attendance, audited, closed, requests, purging>>

GrantExpires(k) ==
    /\ grants[k] # None /\ grants[k].state = "open"
    /\ grants' = [grants EXCEPT ![k].state = "expired"]
    /\ UNCHANGED <<objects, scans, attendance, audited, closed, requests, purging>>

\* An assumption on the browser: it uses the presigned URL once, before it confirms.
\* The URL itself would store again under the key until it expires, after the
\* confirmation too; no page of the web does that, and nothing here covers it.
PutPhoto(k, photo) ==
    /\ grants[k] # None /\ grants[k].state = "open"
    /\ objects[k] = None
    /\ objects' = [objects EXCEPT ![k] = photo]
    /\ UNCHANGED <<grants, scans, attendance, audited, closed, requests, purging>>

\* Mutant: the claim forgets that a key is used once.
ClaimableAgain(k, sheet) ==
    grants[k] # None /\ grants[k].state # "expired" /\ grants[k].sheet = sheet

\* Mutant: the claim forgets which sheet the key was issued for.
ClaimableForAny(k, sheet) ==
    grants[k] # None /\ grants[k].state = "open" /\ sheet \in Sheets

\* What the claiming UPDATE demands of the grant it consumes.
Claimable(k, sheet) ==
    /\ grants[k] # None
    /\ grants[k].state = "open"
    /\ grants[k].sheet = sheet

ClaimUploadKey(r, k, sheet) ==
    /\ Idle(r)
    /\ Claimable(k, sheet)
    /\ grants' = [grants EXCEPT ![k].state = "consumed"]
    /\ requests' = [requests EXCEPT ![r] = [op |-> "confirm", key |-> k, sheet |-> sheet]]
    /\ UNCHANGED <<objects, scans, attendance, audited, closed, purging>>

\* verifyUploadedScan, fetchObjectBytes, the hash, and the look-up of the hash.
ExamineUpload(r) ==
    /\ Doing(r, "confirm")
    /\ LET k == requests[r].key
           sheet == requests[r].sheet
           photo == objects[k]
       IN \/ /\ photo = None
             /\ Finish(r)
             /\ UNCHANGED objects
          \/ /\ photo # None
             /\ photo \notin Sound \/ OnFile(sheet, photo)
             /\ DeleteObject(k)
             /\ Finish(r)
          \/ /\ photo \in Sound
             /\ ~OnFile(sheet, photo)
             /\ requests' = [requests EXCEPT ![r] =
                    [op |-> "insert", key |-> k, sheet |-> sheet, photo |-> photo]]
             /\ UNCHANGED objects
    /\ UNCHANGED <<grants, scans, attendance, audited, closed, purging>>

NewScan(key, sheet, photo) ==
    [sheet |-> sheet, photo_ref |-> key, photo_hash |-> photo, status |-> "uploaded",
     committed_at |-> FALSE, review |-> None, age |-> 0]

\* The unique index refuses the insert when another request got there first.
RecordScan(r) ==
    /\ Doing(r, "insert")
    /\ LET q == requests[r]
       IN \/ /\ OnFile(q.sheet, q.photo)
             /\ Finish(r)
             /\ UNCHANGED scans
          \/ /\ ~OnFile(q.sheet, q.photo)
             /\ \E s \in ScanIds \ Recorded :
                  /\ scans' = [scans EXCEPT ![s] = NewScan(q.key, q.sheet, q.photo)]
                  /\ requests' = [requests EXCEPT ![r] = [op |-> "recorded", scan |-> s]]
    /\ UNCHANGED <<grants, objects, attendance, audited, closed, purging>>
-----------------------------------------------------------------------------
(***************************************************************************)
(* Reading: the status is checked and the photograph fetched first, the    *)
(* reader takes its time, and the row is updated by its id afterwards.     *)
(***************************************************************************)
ReadScan(r, s) ==
    /\ Idle(r) \/ requests[r] = [op |-> "recorded", scan |-> s]
    /\ s \in Recorded
    /\ scans[s].status # "committed"
    /\ scans[s].photo_ref # None
    /\ objects[scans[s].photo_ref] # None
    /\ requests' = [requests EXCEPT ![r] = [op |-> "read", scan |-> s]]
    /\ UNCHANGED <<grants, objects, scans, attendance, audited, closed, purging>>

\* The whole of detection_json is replaced, its review with it.
ReadRow(row, outcome) == [row EXCEPT !.status = outcome, !.review = None]

StoreReading(r, outcome) ==
    /\ Doing(r, "read")
    /\ ~Locked(requests[r].scan)
    /\ scans' = [scans EXCEPT ![requests[r].scan] = ReadRow(@, outcome)]
    /\ Finish(r)
    /\ UNCHANGED <<grants, objects, attendance, audited, closed, purging>>
-----------------------------------------------------------------------------
(***************************************************************************)
(* Committing a reviewed scan, and keeping the register by hand.  Both     *)
(* look at the register, upsert, and audit the rows whose new value        *)
(* differs from what they saw; only the scan row is locked meanwhile.      *)
(***************************************************************************)
Committable(s) == s \in Recorded /\ scans[s].status \notin {"committed", "rejected"}

CommitScan(r, s, entries) ==
    /\ Idle(r)
    /\ Committable(s)
    /\ ~Locked(s)
    /\ FitsSheet(s, entries)
    /\ requests' = [requests EXCEPT ![r] =
           [op |-> "commit", scan |-> s, entries |-> entries,
            before |-> attendance[EventOf[scans[s].sheet]]]]
    /\ UNCHANGED <<grants, objects, scans, attendance, audited, closed, purging>>

\* INSERT ... ON CONFLICT (member_id, event_id) DO UPDATE, one row per member in `rows'.
Upsert(e, rows) ==
    attendance' = [attendance EXCEPT ![e] =
        [m \in Members |-> IF m \in DOMAIN rows THEN rows[m] ELSE @[m]]]

\* audit_log gains an entry for each member of `changed'.
Audit(e, entries, changed) ==
    audited' = [audited EXCEPT ![e] =
        [m \in Members |-> IF m \in changed THEN entries[m] ELSE @[m]]]

OmrRow(mark, s) == [status |-> mark, source |-> "omr", scan_id |-> s]

\* A row the upsert updates keeps its source and scan_id: it names neither.
ManualRow(e, mark, m) ==
    IF attendance[e][m] = None
    THEN [status |-> mark, source |-> "manual", scan_id |-> None]
    ELSE [attendance[e][m] EXCEPT !.status = mark]

CommittedRow(row, r) ==
    [row EXCEPT !.status = "committed", !.committed_at = TRUE, !.review = r]

StoreCommit(r) ==
    /\ Doing(r, "commit")
    /\ LET q == requests[r]
           e == EventOf[scans[q.scan].sheet]
       IN /\ Upsert(e, [m \in Named(q.entries) |-> OmrRow(q.entries[m], q.scan)])
          /\ Audit(e, q.entries, Changed(q.before, q.entries)
                                   \cup ClaimedFromHand(q.before, q.entries))
          /\ scans' = [scans EXCEPT ![q.scan] = CommittedRow(@, r)]
    /\ Finish(r)
    /\ UNCHANGED <<grants, objects, closed, purging>>

SaveRegister(r, e, entries) ==
    /\ Idle(r)
    /\ Named(entries) # {}
    /\ requests' = [requests EXCEPT ![r] =
           [op |-> "save", event |-> e, entries |-> entries, before |-> attendance[e]]]
    /\ UNCHANGED <<grants, objects, scans, attendance, audited, closed, purging>>

StoreRegister(r) ==
    /\ Doing(r, "save")
    /\ LET q == requests[r]
       IN /\ Upsert(q.event,
                    [m \in Named(q.entries) |-> ManualRow(q.event, q.entries[m], m)])
          /\ Audit(q.event, q.entries, Changed(q.before, q.entries))
    /\ Finish(r)
    /\ UNCHANGED <<grants, objects, scans, closed, purging>>

\* One member's row, read FOR UPDATE.  Where there is no row there is nothing to
\* lock, and the handler behaves as SaveRegister does with a single entry.
SaveOne(r, e, m, mark) ==
    /\ Idle(r)
    /\ attendance[e][m] # None
    /\ attendance' = [attendance EXCEPT ![e][m] = ManualRow(e, mark, m)]
    /\ audited' = [audited EXCEPT ![e][m] =
                     IF attendance[e][m].status # mark THEN mark ELSE @]
    /\ UNCHANGED <<grants, objects, scans, closed, requests, purging>>

\* A request dies where it stands: a restart, a failed statement, a storage or
\* reader error.  Its open transaction, and the lock it held, are gone.
Fail(r) ==
    /\ ~Idle(r)
    /\ Finish(r)
    /\ UNCHANGED <<grants, objects, scans, attendance, audited, closed, purging>>
-----------------------------------------------------------------------------
(***************************************************************************)
(* Retention: time passes, months are closed, and each scheduler tick      *)
(* deletes the photographs that are due and then says so on their rows.    *)
(***************************************************************************)
Ages(s) ==
    /\ s \in Recorded
    /\ scans[s].age < 2
    /\ scans' = [scans EXCEPT ![s].age = @ + 1]
    /\ UNCHANGED <<grants, objects, attendance, audited, closed, requests, purging>>

CloseMonth(e) ==
    /\ e \notin closed
    /\ closed' = closed \cup {e}
    /\ UNCHANGED <<grants, objects, scans, attendance, audited, requests, purging>>

PurgeObject(s) ==
    /\ purging = None
    /\ Purgeable(s)
    /\ DeleteObject(scans[s].photo_ref)
    /\ purging' = s
    /\ UNCHANGED <<grants, scans, attendance, audited, closed, requests>>

PurgeRow(s) ==
    /\ purging = s
    /\ s \in Recorded
    /\ ~Locked(s)
    /\ scans' = [scans EXCEPT ![s].photo_ref = None]
    /\ purging' = None
    /\ UNCHANGED <<grants, objects, attendance, audited, closed, requests>>

\* The process stops, or the UPDATE fails, between the two.
PurgeStops ==
    /\ purging # None
    /\ purging' = None
    /\ UNCHANGED <<grants, objects, scans, attendance, audited, closed, requests>>
-----------------------------------------------------------------------------
Capture ==
    \/ \E k \in Keys, sheet \in Sheets : IssueScanUploadKey(k, sheet)
    \/ \E k \in Keys : GrantExpires(k)
    \/ \E k \in Keys, photo \in Photos : PutPhoto(k, photo)
    \/ \E r \in Requests, k \in Keys, sheet \in Sheets : ClaimUploadKey(r, k, sheet)

NextStep(r) ==
    \/ ExamineUpload(r)
    \/ RecordScan(r)
    \/ \E outcome \in {"detected", "rejected"} : StoreReading(r, outcome)
    \/ StoreCommit(r)
    \/ StoreRegister(r)
    \/ Fail(r)

NewRequest(r) ==
    \/ \E s \in ScanIds : ReadScan(r, s)
    \/ \E s \in ScanIds, entries \in Entries : CommitScan(r, s, entries)
    \/ \E e \in Events, entries \in Entries : SaveRegister(r, e, entries)
    \/ \E e \in Events, m \in Members, mark \in Marks : SaveOne(r, e, m, mark)

Retention ==
    \/ \E s \in ScanIds : Ages(s)
    \/ \E e \in Events : CloseMonth(e)
    \/ \E s \in ScanIds : PurgeObject(s)
    \/ \E s \in ScanIds : PurgeRow(s)
    \/ PurgeStops

Next == Capture \/ (\E r \in Requests : NextStep(r) \/ NewRequest(r)) \/ Retention

Spec == Init /\ [][Next]_vars

Purge(s) == PurgeObject(s) \/ PurgeRow(s)
EndCommit(r) == Doing(r, "commit") /\ (StoreCommit(r) \/ Fail(r))

\* The timer ticks every fifteen minutes and goes through the candidates in
\* order; from some point on no tick is cut short.  The UPDATE that waits for a
\* row lock gets it in its turn, and the transaction that holds it ends somehow.
Fairness ==
    /\ <>[][~PurgeStops]_vars
    /\ \A s \in ScanIds : SF_vars(Purge(s))
    /\ \A r \in Requests : WF_vars(EndCommit(r))

FairSpec == Spec /\ Fairness
-----------------------------------------------------------------------------
(***************************************************************************)
(* Safety.                                                                 *)
(***************************************************************************)
HoldsPhoto(s) == s \in Recorded /\ scans[s].photo_ref # None

\* The photograph a scan points at is in storage until its retention has run
\* out: none of the deletions on the way (a duplicate, an unsound upload, a
\* purge) takes an object another scan still needs to be read from.
PhotoKeptUntilDue ==
    \A s \in ScanIds :
        HoldsPhoto(s) /\ ~Purgeable(s) => objects[scans[s].photo_ref] # None

\* A scan's object was issued for the sheet the scan is filed under, is the
\* image whose hash the scan records, and belongs to that scan alone.
PhotoIsTheScans ==
    \A s \in ScanIds : HoldsPhoto(s) =>
        LET k == scans[s].photo_ref
        IN /\ grants[k] # None
           /\ grants[k].sheet = scans[s].sheet
           /\ objects[k] \in {scans[s].photo_hash, None}
           /\ \A t \in ScanIds \ {s} : HoldsPhoto(t) => scans[t].photo_ref # k

\* A row that says it was read off a sheet points at a scan that was committed,
\* of a page printed for that meeting with that member on it; a row kept by
\* hand points at none.
OmrRowsTraceToTheirSheet ==
    \A e \in Events, m \in Members : attendance[e][m] # None =>
        LET row == attendance[e][m]
        IN IF row.source = "omr"
           THEN /\ row.scan_id \in Recorded
                /\ scans[row.scan_id].committed_at
                /\ EventOf[scans[row.scan_id].sheet] = e
                /\ m \in Manifest[scans[row.scan_id].sheet]
           ELSE row.scan_id = None

\* Every row of the register has an entry in the audit log, whichever of the
\* concurrent writers created it.
EveryRowIsAudited ==
    \A e \in Events, m \in Members :
        attendance[e][m] # None => audited[e][m] # None

\* Two commits of one scan never both go through: the review a committed scan
\* holds is replaced by no other commit while it stays committed.
CommittedOnce ==
    [][\A s \in Recorded :
         scans[s].status = "committed" /\ scans'[s].status = "committed"
           => scans'[s].review = scans[s].review]_vars

\* A photograph older than SCAN_PHOTO_MAX_DAYS is let go of in the end, whether
\* or not its month is ever closed.
OldPhotosArePurged ==
    \A s \in ScanIds : (s \in Recorded /\ scans[s].age = 2) ~> ~HoldsPhoto(s)
-----------------------------------------------------------------------------
(***************************************************************************)
(* What the documentation says and the code does not keep to.              *)
(***************************************************************************)
\* "it refuses once the scan has been committed" (scans.ts:205): reading a scan
\* never takes it out of the committed state.
ReadingSparesCommittedScans ==
    [][\A s \in Recorded :
         scans[s].status = "committed" => scans'[s].status = "committed"]_vars

\* "Every committed row says where it came from" (README.md:424): a row that is
\* attributed to a sheet carries a mark that was committed from that sheet.
OmrRowsChangeByCommitOnly ==
    [][\A e \in Events, m \in Members :
         attendance'[e][m] # attendance[e][m] /\ attendance'[e][m].source = "omr"
           => \E s \in Recorded : scans[s].status # "committed"
                                   /\ scans'[s].status = "committed"]_vars

\* "the image is deleted" (retention.ts:12), "goes regardless, so a month nobody
\* ever closes cannot quietly keep member names on disk for ever"
\* (retention.ts:17-18): a row let go of its photograph has no object left.
PurgedPhotoIsGone ==
    [][\A s \in Recorded :
         scans[s].photo_ref # None /\ scans'[s].photo_ref = None
           => objects'[scans[s].photo_ref] = None]_vars

\* "one transaction holding the attendance rows and the audit entries together"
\* (scans.ts:474): the newest audit entry of a row is what the row says.
AuditAgreesWithRegister ==
    \A e \in Events, m \in Members :
        attendance[e][m] # None => audited[e][m] = attendance[e][m].status
=============================================================================

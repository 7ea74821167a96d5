# CMA Changamwe: a verification development

TLA+ models of the CMA Changamwe welfare association's system: the server (`src/src`, with the schema
in `src/migrations`), the sheet reader (`src/omr`) and the screens of the web client that drive them.
They are checked with TLC on small instances, and the safety properties that matter most are proved
with TLAPS for every value of the constants.

The models follow the code, not its documentation. Where a comment or the repository's README says
something the code does not keep to, the model states it as a property that TLC refutes (section 5).

## 1. The system

One Express server over a Postgres database, an object store (R2), a mail provider, a sheet-reading
service in Python and a web client. Two facts shape every model:

* **Transactions are READ COMMITTED** (`db/pool.ts:27-47`: a plain `BEGIN`). What a handler reads in a
  transaction is not what it finds when it writes, unless the row was read `FOR UPDATE` or a unique
  index refuses the write. Calls of `query` without a client commit one by one.
* **Handlers are asynchronous.** A photograph is fetched, a page is read, a mail is sent between a check
  and the write that relies on it; other requests, the timer and a restart get their turn there.

| Component | State | Operations | What makes it correct |
|---|---|---|---|
| Sheets and scans (`omr/scans.ts`, `omr/retention.ts`, `media/r2.ts`) | `photo_upload_grants`, `attendance_scans`, objects | issue key, confirm, read, commit, purge | a scan keeps its own photograph as long as it is needed; one commit per scan; old photographs go |
| Reader (`src/omr/detect.py`) | none | read one photograph | no page is read as another, no box as another's |
| Review screen, register page (`web/.../attendance-scans/[id]`, `.../events/[id]`) | what was loaded, what was changed | load, mark, save, read again | no page is overlooked or committed unread; nobody is marked by another's box |
| Attendance register (`routes/admin-events.ts`) | `attendance`, `audit_log` | bulk save, single save, commit of a scan | rows trace to their sheet; each is audited |
| Calendar (`routes/admin-events.ts`) | `events` | single, recurring, novena, delete | a series falls on its days; deletion spares what others refer to |
| Contributions (`routes/admin-contributions.ts`) | `contributions` | record, change, delete | month and year as the rules read them |
| Matrix engine (`matrix/*`) | none (reads) | evaluate a member as of a date | no gap between windows, no penalty for what was not held, no loss by good deeds |
| Printing, documents, verification (`omr/generate.ts`, `documents/*`, `routes/exports.ts`, `routes/verify.ts`) | `attendance_sheets`, `documents` | print, print again, export, check | a paper handed out is confirmed; a page covers its part of the roll |
| Members and houses (`routes/admin-members.ts`, `admin-offices.ts`) | `members`, `prayer_houses` | enrol, edit, add, delete | no row names a house or an event that is gone |
| Terms of office and access (`routes/admin-offices.ts`, `auth/authz.ts`) | `office_holders` | open, close, hand over | one holder per post; a closed term is final; somebody always has access; the term limit |
| Monthly snapshots and reports (`jobs/scheduler.ts`, `matrix/snapshot.ts`, `comms/*`) | `matrix_scores`, the mails | tick (timer, HTTP), snapshot, digest, batch, requeue | nobody is told twice or not at all |
| Welfare claims (`routes/admin-welfare.ts`) | `welfare_claims` | open, decide, pay, withdraw | paid once per event; decided once; approvals have evidence |
| Backups (`backup/*`, `scripts/restore-backup.ts`) | `backup_runs`, objects | dump, record, upload, verify, prune | pruning leaves enough; records match the bucket; what is verified can be restored |
| Sessions and resets (`routes/auth.ts`, `auth/tokens.ts`, `auth/passwordReset.ts`, `routes/me.ts`) | `refresh_tokens`, `password_resets` | sign in, refresh, logout, reset, password change | one live token per device; a reset ends every session; an ended session stays ended |
| Registration and one-time codes (`routes/signup.ts`, `auth/otp.ts`, `web/app/register`) | `signup_drafts`, `email_verifications`, `users` | start, verify, save, complete, change of address | an address is proved before it is used, and used once; a draft becomes one member |
| Photographs of people (`routes/photos.ts`) | grants, draft and member photos, objects | grant, upload, confirm, remove, move at completion | a photograph is its owner's and on file |
| Audit log, configuration, rate limits, mail text, PDF, other pages, calibration tools, deployment | | | not modelled, reasons in section 8 |

**Interactions.** A printing fixes the manifests; a photographed page is filed under one of them, read,
reviewed on a screen and committed into the register the calendar's events own. The engine reads events,
register and contributions; the timer takes its standings into snapshots once a month, sends digest and
reports, purges photographs of closed months and takes a backup, one after the other, while HTTP calls
tick and backup beside it. A welfare approval reads a snapshot. A registration that completes makes the
member and moves the photograph. Who may do any of this is decided per request from the sitting terms
of office; that a request is signed in at all, from a stateless access token and the refresh token
behind it.

Paths are relative to `src/src` where they do not begin with `src/` or `web/`; `README.md` with a line is the
repository's.

**What is hard.** Checks separated from their writes (reading a scan, the count of offices, the term
limit, the register before an upsert, the references before a deletion, the draft before its
completion); a screen that sends back what it was loaded with; the mail inside an open transaction; a
restart between two steps of a tick, a prune or a printing; two callers of one job; swallowed storage
errors; row locks and unique indexes as the only guards; months of different lengths. The list, line by
line, is `hazards` in `PROJECT.json`.

## 2. Modules

| Module | Role |
|---|---|
| `Scans` | scans, photographs, the register and retention, composed: they share rows |
| `Reader` | what is made of one photograph: an operator, used by `Review` |
| `Review` | composes reader, scans, register and the officers' screens over whole requests |
| `Calendar`, `Matrix` | dates and series; the tables the rules read, the rules and the standing |
| `Printing` | members, houses, events, sheets, sealed documents, the public check |
| `Offices` | terms of office and the access they confer |
| `Reports` | snapshots, digest, batches, requeue, calendar |
| `Welfare` | claims, and the snapshots their approval reads |
| `Backups` | runs of the backup, its records and the bucket |
| `Sessions` | refresh tokens, reset links, and what signs devices out |
| `DeviceSessions` | the abstract specification `Sessions` implements: a device's session is open until a request that reached it ends it |
| `Registration` | drafts, one-time codes, the addresses of accounts |
| `Photographs` | keys, objects and rows of people's photographs |
| `MC...` | instances for TLC: definitions of constants and symmetry |
| `ScansProofs`, `WelfareProofs`, `BackupsProofs`, `PrintingProofs`, `RegistrationProofs` | theorems and proofs of the module of that name |
| `MembersProofs`, `BrowserProofs`, `ScoresProofs` | theorems and proofs of two each: `Offices` and `Photographs`, `Sessions` and `Review`, `Reports` and `Matrix` |

A module of proofs that extends two components sees both vocabularies, so `Photographs`, `Review` and
`Matrix` name theirs apart: `PhotosInit`, `ReviewNext`, `MatrixSpec`, `MatrixTypeOK`; their SQL NULL is
`Nothing` or `Null`, the members of the Matrix are `MemberIds`, the requests of `Photographs` are `calls`.


All follow one convention. A variable is a table (a function from ids to rows or `None`), the bucket, or
what a browser keeps. `requests` (`runs` in `Reports`, `calls` in `Backups`) holds for each request in
flight **what it has read so far and is going to act upon**; this is where staleness lives. One action is
one database statement or one transaction whose reads are all locked; a transaction that reads without a
lock and writes later is two actions, the first guarded by the checks, the second by the locks and indexes
met when writing. `Fail` (`Dies`, `Stop`) is a restart, an aborted statement or a failed call: the open
transaction and its locks are gone, what was committed stays. Names with a comment *Mutant* are deliberate
deviations of the definition next to them; nothing in the specifications uses them. They show that each
property can be broken by a plausible slip. Variables marked *(history)* record what happened for the
properties and guard nothing.

### Scans

`IssueScanUploadKey`, `GrantExpires`, `PutPhoto` (browser), `ClaimUploadKey`, `ExamineUpload` and
`RecordScan` are the confirmation of `scans.ts:136-203`, cut where it awaits. `ReadScan` checks the status
and fetches the photograph, `StoreReading` is the `UPDATE ... WHERE id` afterwards. `CommitScan` locks the
scan and reads the register, `StoreCommit` upserts the rows, writes the audit entries and marks the scan;
`SaveRegister`/`StoreRegister` and `SaveOne` are the two ways of saving by hand. `PurgeObject` and
`PurgeRow` are the two steps of the purge, `PurgeStops` a stop between them. A photograph is its hash; a
mark is an attendance status with its reason; the audit log is the newest entry of each row. `age` counts
to 2: past `SCAN_PHOTO_MIN_DAYS`, past `SCAN_PHOTO_MAX_DAYS`. `deleteObject` swallows storage errors, so
every deletion may leave the object where it is. `review` remembers which request committed. `PutPhoto` rests
on the browser: the signed URL would store under its key until it expires, also after the confirmation; no page
of the web client uses it twice, and nothing is claimed for one that did.

### Reader and Review

`Reader!Detect` is one request to the reading service: the gates of light and sharpness, the corner marks,
the search through the four rotations for the first with a readable pointer, the check of the template and
of the code against the sheet the photograph was filed under, and the call of each box by the two limits.
Image work is reduced to its verdicts: which gates a photograph fails, how it is turned, which page it
shows, how much ink is in each box. A box is *filled* from the upper limit on, else *blank* up to the lower
one, else unclear: in this order, for nothing says that the lower limit is the lower one (the proof of
`UncorrectedMarksAreTheirOwn` needs the order). A page has at least one name: generation draws none without.

In `Review` a `screen` is what one load of a page put there and the marks changed on it since. `Open` loads
the review screen (scan, proposals against the register, pages missing) or the register page; `Mark`,
`MarkAll` change it; `Save`, `Reread` send; `CommitScan`, `SaveRegister`, `StoreReading` are the server's
side, `SavingFails`, `ReadingFails` their refusals and failures; the answer to each of the three arrives and
has the page load again, or is lost and leaves it as it was (`Answered`). `MayLoad`: while a request is under
way its page loads again only because the other one was answered.
`TakePhotograph` is a confirmed upload, `Calibrate` a change of `omr_fill_low` or `omr_fill_high`, two rows
of configuration that nothing compares with each other. Left to `Scans`: the two statements of a save, and
purging (the photograph is always on file). A tab left before an answer counts as another tab; marking all
counts as one change; a reason that stays beside a mark other than an apology is left out.

### Calendar and Matrix

`Calendar` numbers days from a first day with a given weekday; `MinusMonths` clamps to the last day of a
shorter month as Luxon does, and gives 0 for any day before the first; `WeeklyDates` and `MonthlyOrdinalDates` are the generators of recurring events.
`Matrix` holds three tables and the handlers that write them (`CreateEvent`, `CreateRecurring`,
`CreateNovena`, `DeleteEvent`, `SaveRegister`, `Contribute`, `EditContribution`, `DeleteContribution`); each
is one transaction on rows of its own. `InputAssumption` is what the schemas of the requests let through
(`Field` for the columns of a contribution that an officer sets). What is checked is what *sequences* of them do to `Standing(m, asOf)`:
every window of `windows.ts` (`Rolling`, `LastOccurrences`, `LastSeries`, `AffiliationPaid`, `MonthPaid`,
`WeddingPaid`, `OccurrencePaid`), the item scores and the gates of `engine.ts`. Scores are exact fractions
(`Parts` to the point); the code compares floating point numbers. An edited contribution keeps the month and
the year it had: the change does not fill them in again.

### Printing

`PrintForEvent`, `PrintForNewEvent`, `Reprint` choose the roll (the `ORDER BY` of a query is the rank of a
member among those it selects: `RollFor`); `DrawSheets` renders, `Seal` records the
document, `InsertSheets` and `CommitSheets` store the pages: three transactions, so a failure leaves a new
event that was never printed for (and that counts in the engine's denominators) or a document without
sheets. `DrawMember`, `DrawRegister` are the exports. `CountRows`/`DeleteEvent` and `CountMembers`/
`DeleteHouse` are the deletions, whose count is taken in the snapshot of a statement that then waits for the
row; an insertion holds the row it refers to until it commits (`EventShared`, `HouseShared`). A digest is
the pair of document and content (`Digest`), so that only equal files match; the signature is taken as given.

### Offices, Reports, Welfare

A *post* is what the partial unique indexes tell apart: an office at a level (and house). `AskOpen`,
`AskClose` are the checks (`assertTermLimit`, `assertNotLastAdmin`, the row lock of a closing); `OpenTerm`,
`HandOver`, `CloseTerm` the writes, where the index or the check on dates may refuse. `Init` is what
`scripts/bootstrap-admin.ts` leaves. `excused` is the `override_reason` in the audit entry.

A *runner* in `Reports` is one execution of `runDailyTick`, the timer's or one started over HTTP. Its steps
are `StartTick`, `WriteSnapshots`, `SendDigest`, `PickPeriod`, `ClaimRow` (`FOR UPDATE SKIP LOCKED`),
`SendReport`, `MarkReport`, `EndBatch`. Between `ClaimRow` and `MarkReport` the transaction is open and the
row locked; `Dies` there rolls it back though the mail has gone. The mail provider accepts, refuses, or
accepts and its answer is lost. `inbox` and `unsure` are history: mails that arrived, and those the row
never learned of.

`OpenClaim` is refused by the partial unique index on live claims of a member for one kind and event;
`Decide` reads the claim `FOR UPDATE` and the snapshot of the month, `StoreDecision` writes; `Pay` and
`Cancel` likewise. `WriteSnapshot` is the tick, at any time.

### Backups

A run (`calls`) begins by the timer (`BeginNightly`: none under way, past the hour, no verified one today) or
by a call (`BeginCalled`). `ReadMembers` is the statements of the dump up to the members' page, `RecordRun`
those after it and the row; `Upload`, `ReadBack`, `FinishVerified`/`FinishFailed`; then `List`, `Choose`,
`Delete`, `MarkPruned`, one file at a time. A key is the second a run began, shared by runs of one second
(`contested`, history). Uploads may be damaged (`UploadTorn`) or unanswered, a read-back may fail, a run may
stop anywhere (`Stop`). `Restorable(file)` is the condition under which `restore-backup.ts` can insert the
file's rows in order.

### Sessions

A token is a row of `refresh_tokens`; its `family` is named after the first token of the device. A
transaction that revokes is cut where Postgres may let others in: its UPDATE finds its rows when it starts
(`victims`), comes to them one by one (`RevokeNext`, waiting while a row is locked, passing by one that was
revoked meanwhile) and keeps those it changed locked (`held`) until it commits (`EndSession`, `EndReset`,
`EndChange`). `StartRefresh` is the `SELECT ... FOR UPDATE OF rt`, `Rotate` the insertion of the successor and
the commit. The foreign key of an inserted token or link takes a key-share lock on the user, which
`FOR UPDATE OF u` in the reset excludes (`Barred`) and the plain UPDATE of a password change does not: it only
excludes another change (`Changing`). `ClaimLink` and `StartReset` are the two locks of a reset; `AskLink`,
`SendLink` the two statements of `issueResetToken`. Deadlocks exist (a refresh waiting for the user's row
while the reset waits for its token); the database aborts one of the two, which is `Fail`.

`DeviceSessions` is what devices are promised: a session goes on until a request that was asked to end it has
reached it and commits; one renewed before it is reached goes on; what has ended stays ended. The refinement
maps `signedIn` to the families there are, `open` to those with a live token, `asked` and `reached` to the
families of the live tokens in a revocation's `victims` and `held`. A rotation is `Renew`, which takes its
session off every list of `asked`: that is how far the promise goes, and *family revoked* is more than it
(`FamilyIsRevoked`, section 5).

### Registration and Photographs

`Start`/`StartEnd` expire earlier drafts of the address and insert one; `Issue`, `IssueConsume`, `IssueEnd`
are `issueCode` (number the row, consume the open ones, insert); `Verify`, `LockCode`, `Refuse`, `Mismatch`,
`Passing` are `verifyCode` under its row lock, and `VerifyDraft`, `ConfirmChange`, `SignIn` what each of its
callers does in the same transaction. `Save`/`SaveEnd` merge one detail; `Finish`, `LockDraft`, `Join` are the
completion: the draft is checked as read, then locked, and the unique index on the address decides. `Restore`
is the page opening again with the token it keeps (`held`). An optional detail that was emptied is `"null"`,
which the schema then refuses.

`Photographs` has grants, `Put` by the browser, and the confirmation in its steps: `Claim`, `Head`,
`Previous`, `Write`, `DeleteObject`. `RemoveDraftPhoto`, `RemoveRow`, `RemoveMemberPhoto` are the removals;
`Complete`/`CompleteEnd` the part of the completion that moves the row of a draft to its member.

## 3. What each run checks

| Run | States | Shows |
|---|---|---|
| `scans` | 0.9 M | `PhotoKeptUntilDue`, `PhotoIsTheScans`: through uploads, duplicates, readings, commits and purges no scan loses its photograph early, gets another page's or shares one with another scan; `OmrRowsTraceToTheirSheet`, `EveryRowIsAudited`, `CommittedOnce` in the register beside them; `OldPhotosArePurged` (liveness) |
| `review` | 2.4 M | `NoPageOverlooked`, `OnlyReadPagesAreCommitted`, `UncorrectedMarksAreTheirOwn`: two officers' screens, however old, over two pages |
| `printing` | 3.7 M | `RowsKeepWhatTheyName`, `PaperIsOnRecord`, `PagesCoverTheRoll`, `ReprintAddsNobody` while members, houses and events change and go |
| `matrix` | 26 k | `UnheldCostsNothing`, `NoEventFallsBetween`, `SeriesFallOnTheirDays`, and of every step `GoodDeedsNeverHurt`, `OnlyItsTimeCounts` |
| `offices` | 1.4 M | `OneSittingHolder`, `ClosedTermsStand` under racing openings, closings, handovers |
| `reports` | 0.3 M | `SentWasMailed`, `MailedTwiceOnlyWhenUnsure`, and `PendingIsSettled` (liveness) |
| `welfare` | 97 k | `PaidOncePerEvent`, `ApprovalsAreEvidenced`, `PaymentsStand`, `DecidedOnce` |
| `backups` | 1.7 M | `MinimumIsKept`, `RecordsDescribeTheBucket` under overlapping runs, torn uploads, stops; `NightlyBackup` (liveness) |
| `backups_restore` | | a disagreement, section 5 |
| `sessions` | 0.8 M | `OneLiveTokenPerDevice`, `NothingSurvivesAReset`, `LinksAreSpent`, and that `Sessions` implements `DeviceSessions` (`DeviceSessionsAreKept`) |
| `registration` | 2.7 M | `EmailsAreProved`, `OneAccountPerAddress`, `CodesAreBounded`, `OneMemberPerDraft` |
| `photographs` | 1.1 M | `KeysAreTheirs`, `PhotosOnFile` |

**Bounds.** Two requests are enough for every race found: each hazard is a check of one actor overtaken by
a write of another. The rest is chosen so that each case occurs:

* `scans`: two pages of one meeting, two keys, two scans and two photographs (one unsound): one photograph
  sent twice, under either key, for one page or for both, and purged again; the second member is on the
  second page only, so that an entry for the first can miss its manifest. Keys and scans are interchangeable,
  so the first is used before the second (`InOrder`). `InScope` keeps the two halves apart where they do not
  touch: the register is written beside the photographs of the first page, and both pages are photographed,
  read and purged as long as nobody writes it. One mark is enough to tell a row from no row; two would only
  repeat the upserts.
* `review`: two pages of two and one members, two scans, a photograph of each page (one upside down), so
  that a page can be photographed twice, under the wrong sheet, or not at all. One box is called differently
  under the two limits that can be stored. One change by hand (`MaxMarks`, `Choices`) suffices to make a
  page differ from what it was loaded with; it is the mark a ticked box contradicts. `BoundedSpec` has at most
  two requests under way between the two officers, of the four they could have: two saves, two readings, or
  one of each, of one officer or of both. A step that would begin a third waits.
* `printing`: pages of two rows, a roll that grows from one page to two and shrinks again, two houses of
  which one does not exist at first, one event, two runs and two documents. `MaxPages` is met, not exceeded. `PagesCoverTheRoll` is asked of
  every drawing, of one, two and three rows: a full page, a page with a row to spare, and both.
* `matrix`: the first quarter of 2026, 28, 30 and 31 days long in its months, one rule of each window, a
  member from before it and one from the middle of February; bodies with the dates at which windows begin
  or end, series with a fifth weekday, a gate, a floor of zero. `MaxRows` = 3 bounds events, marks and
  payments together: a denominator, its numerator and one more. Larger tables repeat these per item.
* `offices`: both posts of access, two members, three terms: a closing, a handover and an opening can all
  meet; two dates allow a refused order. The limit is 1, so that a second term is already over it.
* `reports`: a member with and one without an account, batches of one report, the timer and one HTTP runner:
  batches overlap and end at the limit. `LastMonth` = 3, so that in the last month the reports of two months
  may wait at once and the older ones do. `InScope` bounds what happens beside: of one report at most does the
  row not learn that its mail arrived, and only the member without an account goes away, in the first two
  months. Nothing that fairness asks for is held up by it.
* `welfare`: two claims that may be for the same wedding, two months, two standings.
* `backups`: five moments over three days with two nights, so that a night can fail and be made up for, a
  file grow old enough to expire (`Retention` = 2) while `MinKeep` = 2 others may or may not be there; the
  timer and a call that may begin in one second; one failure anywhere; one member recorded at any time.
  `MaxRun` bounds a run's length in moments; the assumption that two runs are over before a file expires is
  what the retention of days and the time limit of minutes amount to.
* `sessions`: one user: locks and families of two users never meet, and the theorems hold for any number.
  Three tokens are a rotation beside another device or two rotations in a row; two links let one supersede
  the other.
* `registration`: two drafts and an account over three addresses: two drafts of one address, an account
  moving to it, a draft's member moving away. Two codes of two attempts: one supersedes the other, and one
  can be locked out.
* `photographs`: two drafts that become members, three keys: one on file, one replacing it, one leaked to
  the other; three requests: an upload, a removal and a completion at once.

`CHECK_DEADLOCK FALSE` is set where keys, ids, terms, claims, codes or months are finite: once they are used
up the system idles, as the server does between requests. In `review` no state is stuck and it stays on.
Symmetry is used in runs of safety properties only.

## 4. Fairness

* `Scans!Fairness`: the timer ticks every fifteen minutes and goes through the candidates in order
  (`scheduler.ts:94-102`, `retention.ts:50-70`), hence strong fairness of `Purge(s)`
  (`PurgeObject` or `PurgeRow`): a candidate stays one until purged, but other candidates come between. From
  some point on no tick is cut short. A commit that began ends, by a step or by failing, and so lets go of the
  row the purge waits for (weak fairness of `EndCommit`). Nothing else has to happen: no photograph need be
  taken, read or committed.
* `Reports!Fairness`: the timer starts a tick when it may, days pass, a runner goes on, and from some point
  on nothing dies and no officer requeues. Without the last two a report can be failed and requeued for
  ever. HTTP need not call. Mails may be refused for ever: a refused report is settled as failed.
* `Backups!FairSpec`: the timer comes round again and goes on with the run it began (`BeginNightly`,
  `Steps(Timer)`). Failures are bounded by `MaxFaults`, not excluded. The clock need not move: the night
  may pass first, and then nothing was promised.

In `scans` and `reports` the bounds of the instance (`BoundedSpec`) are conjoined to the next-state relation,
fairness is that of the module.

`PendingIsSettled` depends on the bound on months. The code takes the newest pending month first and nothing
in it makes a month's reports fewer than the batches of a month can carry; months that keep adding more than
that would leave the oldest waiting. The run shows that a backlog of two months is worked off, the newer one
first, once no newer month comes (a batch that looks at the month just ended only leaves the older one behind).

## 5. Disagreements between the code and what is said of it

One has a run of its own. `backups_restore`: a verified backup cannot be restored once an attendance row came
off a sheet, because the list of tables leaves out the two that the row refers to; nor if a member was
recorded between two statements of the dump.

The others are stated in the modules under *What the documentation says and the code does not keep to* and
are false of them: TLC, given the property in place of those of the run named, finds the counterexample.

| Property | Run | Said | What happens |
|---|---|---|---|
| `ReadingSparesCommittedScans` | `scans` | `scans.ts:205` | a reading that began before a commit and ends after it takes the scan back to *detected* |
| `OmrRowsChangeByCommitOnly` | `scans` with two marks | `README.md:424` | a correction by hand leaves the row attributed to the sheet |
| `AuditAgreesWithRegister` | `scans` with two marks | `scans.ts:474` | a saver who puts back the value he read before another changed it audits nothing |
| `PurgedPhotoIsGone` | `scans` | `retention.ts:12,17-18` | a failed delete is swallowed, and the row forgets the object |
| `UncalledRowsKeepTheRecord` | `review` with the choice *explained* | `scans.ts:312-313` | an apology the reader could not call is proposed without its reason, and confirming the page erases it |
| `CorrectionsAreByHand` | `review` | `scans.ts:584` | a mark from a stale screen is put down as corrected by hand |
| `CommittedPagesShowTheRecord` | `review` | | a committed page shows proposals again, not what was recorded |
| `OldSheetsAreRead` | `review` with a page of another version | `template.ts:8-9` | a page of an earlier template is refused |
| `AccessRemains` | `offices` | `README.md:221-222` | two closings of the last two posts of access both go through |
| `WithinTheLimit` | `offices` | `README.md:217-218` | a handover of a post to its own holder opens a term over the limit without a reason |
| `DigestGoesOut` | `reports` | `README.md:502` | a restart between snapshots and digest loses the month's digest |
| `FamilyIsRevoked` | `sessions` | `auth.ts:295`, `:333` | a logout, or a reused token, whose UPDATE waits for a rotation of the family passes the exchanged token by and does not see its successor, which stays live |
| `OtherDevicesAreSignedOut` | `sessions` | `README.md:522-523` | a refresh under way while the password is changed produces a token the change does not find; a reset locks the user and has no such gap |
| `ProgressIsKept` | `registration` with an optional detail | `register/page.tsx:135` | a detail emptied again is stored as null, which the next request does not accept, and the page drops its token |
| `JoinedPhotosOnFile` | `photographs` | `register/page.tsx:349` | a confirmation or removal that crosses the completion deletes the object the member's row has |
| `ReprintIsTheSame` | `printing` | `admin-omr.ts:117-122` | the roll is filtered and sorted again: who was made inactive or moved house is missing |
| `LessDoesNotSatisfy` | `matrix` | `README.md:154-155` | what is asked for an occurrence is the least of its categories' amounts, so less than the amount of a dearer one satisfies it |

Other things met while modelling, without a property: the public check uses the current key only and ignores
`key_id`; nothing in the code revokes a document; a change of a contribution does not fill in month and year
as recording it does; a form for sheets sent before its list of members is loaded asks for everyone; a
reference that a deletion missed is refused by the foreign key and answered as an internal error; which of
the two limits of the reader is lower is never checked; rolling windows overlap where months differ in length
(the month that ends on 28 February begins on 29 January).

## 6. What is proved

| Module | Theorems |
|---|---|
| `ScansProofs` | `TypeCorrect`, `RegisterIsTraceable`, `RegisterIsAudited`, `CommitsHappenOnce`, `PhotosAreKept`, `PhotosAreTheirOwn` |
| `MembersProofs` | offices: `OfficeTypes`, `PostsHaveOneHolder`, `ClosedTermsAreFinal`; photographs: `PhotoTypes`, `KeysStayTheirs`, `PhotosStayOnFile` |
| `ScoresProofs` | reports: `ReportTypes`, `SentReportsWereMailed`, `ReportsReachOnce`, `SentReportsStaySent`; the Matrix: `MatrixTypes`, `OnlyOnesOwnTime`, `NoGoodDeedCosts`, `FullMarksSuffice`; the calendar: `WindowsLeaveNoGap`, `SeriesAreOccasions` |
| `WelfareProofs` | `ClaimTypes`, `PaidOnce`, `PaidForAll`, `ApprovalsCanBeExplained`, `DecisionsAreMadeOnce` |
| `BrowserProofs` | sessions: `SessionTypes`, `OneLiveToken`, `LineOfTokens`, `ResetEndsSessions`, `SpentLinks`, `SessionsRefine` (`Sessions` implements `DeviceSessions`); review: `ReviewTypes`, `ReviewInvariant`, `PagesAreNotOverlooked`, `ReadThenCommitted`, `MarksAreTheirOwn` |
| `BackupsProofs` | `BackupTypes`, `MinimumKept`, `BucketOnRecord` |
| `PrintingProofs` | `NothingDangles`, `PaperIsConfirmed`, `NobodyIsLeftOut`, `RollsInvariant`, `PagesHoldEachOnce`, `ReprintsAddNobody` |
| `RegistrationProofs` | `RegistrationTypes`, `AddressesAreProved`, `AddressesAreUnique`, `AttemptsAreBounded`, `MembersAreMadeOnce` |

Each is `Spec => []Inv` or `Spec => [][A]_vars`. The assumptions are the named ones of the modules: sheets
have an event and a manifest, posts of access are posts, two runs of a backup end before a file expires,
accounts begin with different addresses, the rows of the Matrix and the bodies of its requests have the
types of their columns, its tables are finite, `None` is none of the values it stands beside. No constant is
bounded, and symmetry plays no part. Two theorems have a hypothesis beside: `FullMarksSuffice` needs
`MinimumsAttainable` (thresholds are rescaled, as they ship, and no minimum asks more than the points its rules
give), `NoGoodDeedCosts` the second of these where the first holds. Without it, an item that comes to apply
raises a rescaled minimum by more than it can ever score. Each module proves `Init => IInv`,
`IInv /\ [Next]_vars => IInv'` with a step per action, and `IInv => Inv`. The properties are not inductive
by themselves. What was added:

* **Scans.** `ScansInFlight`: the scan a request works on is recorded. `RegisterInv` adds that the entries
  of a commit fit its sheet (checked once, used after an await) and that every row a writer *saw* is already
  audited: a writer audits only what differs from what it saw, and a row can have appeared since. `LockInv`:
  of the requests at work on a scan one commits it, and its status is still open. `CustodyInv` follows a
  **key**: consumed before it is carried, carried by one request, held by one scan, never both.
* **Offices.** `ClosingSits`: the term a closing has locked still sits, which is why a handover must wait.
* **Reports.** `ClaimsAreExclusive` and `ClaimsArePending` (the row lock), `DeliveredWasMailed`, `MailIsKnown`:
  a mail that arrived is known to the row, to the runner about to mark it, or is doubtful.
* **Welfare.** `ClaimsSound` (which fields a status carries), `RequestsCurrent` and `LocksExclude` (what was
  checked under the lock still holds when written), `OneLivePerEvent` (the index).
* **Sessions.** `TokenLocksExclude` and `LinkLocksExclude` (one request at a time on a row), and from them
  `RotatesALiveToken` and `ClaimsAnOpenLink` (what was read under the lock is still so when written);
  `FamiliesAreNamed`; `HoldsTokens` (what a revocation found was issued, what it holds is live still), on which
  the refinement rests with *one live token per device*: a session is its live token; and
  `ResetHasThemAll`, the heart of it: while a reset is open every live token of its user is among those it
  holds or has yet to come to, because nobody can insert one.
* **Backups.** `Timely` and `Dated` place every object in the run that wrote it, so that an object old enough
  to expire can no longer be written; `OnRecord` is the order row, object, verdict; `Single` says that an
  uncontested key has one writer; `ListedIsKnown` and `DoomedIsOld` carry what was counted when a run listed
  the bucket to the moment it deletes: the `MinKeep` newer files it counted are there, or as many newer ones.
* **Photographs.** `CallsSound` says at each step what the key in hand is (granted to the owner, claimed,
  its object there until the step that deletes it, and what the row held when it was read); `CarriedAlone`:
  a key on its way to a row is with one request; `JoinsAlone`: beside a completion nobody is at work on the
  draft's row, unless the history says the two crossed. `PhotosOnFile` is false without that exception.
* **Review.** `ReadSound`: what was read was the page the scan is filed under, measured under limits that
  were in force. `Carries`: a screen, and a save on its way, has a mark for every name on its page, which is
  why committing any page completes it. `CommitsRecorded` and `ScreenSound` join the two: what a screen
  that shows a recorded page does not call missing is in the register, and stays there.
* **Printing.** `Targets`, `Shared` (an uncommitted insertion holds what it refers to, so a deletion waits
  and finds nothing dangling), `Sealed` (from the seal on, the document on record is of the file in hand);
  over it `RollInv`: the pages in hand and in the table are those of one roll without repetitions, and a
  reprint's roll is within the run it repeats. `NobodyIsLeftOut` is about the operators: ranking by name and
  cutting at `PageRows` lists exactly those selected, for any roll and any number of rows; `PagesHoldEachOnce`
  is that of every drawing.
* **Calendar.** `FirstOf` is a function defined by recursion: its order (`FirstOrder`) and where a month ends
  (`PeriodEnds`) follow from smallest counterexamples instead of induction. `EventsDated` is the invariant
  `WindowsLeaveNoGap` needs: an event's date is one of the calendar. `SeriesAreOccasions` ranks the days of a
  month that fall on a weekday by a bijection with the weeks before them, so that *the third* and *the last* of
  the generator are those of the definition.
* **Matrix.** Totals are folds; `SumsExist`, `SumRemove`, `SumImage`, `SumMore`, `SumSplit` say what is needed of them (a term more, parts, no
  smaller terms, an image), again by smallest counterexamples. `OnlyOnesOwnTime` goes through the seven windows:
  each is a function of rows within the member's time. `NoGoodDeedCosts` compares what a rule counts and what is
  met of it before and after (`NoWorse`). A payment toward a new occurrence puts that in the ranking, or moves it
  up, and may push the last of those counted out: `OneComesIn` says that a ranking changes by no more than that,
  `CountsNoWorse` that no share falls by it, since the one that comes in is paid (`OccurrenceStaysPaid`).
  `ItemNoWorse`, `ScoresGain` and `ReachesStill` carry this to the items, the scores and the rescaled minimums:
  an item that begins to apply is met in full, so it adds to the score all it adds to what can be attained. The
  scores are those of the model, rounded down to the twelfth of a point.
* **Registration.** Codes: `Counted` (comparisons are attempts plus passings), `NumberReserved` and
  `NumberedByOne` (a number belongs to one request until its row is there), `CodeAsRead` and
  `CodeLocksExclude`, `Aimed` (a draft's code goes to the draft's address). Drafts: `DraftsSound` (promoted,
  made a member and having an account are one; verified means proved), `DraftAsRead`, `StartedByOne`,
  `DraftLocksExclude`.

Every invariant and every action property of the passing runs is proved. Only model-checked: the three
liveness properties (`OldPhotosArePurged`, `PendingIsSettled`, `NightlyBackup`), since fairness is ENABLED and
that is beyond this prover. `MatrixTypes`, `SentReportsStaySent` (`SentIsFinal`) and `LineOfTokens`
(`RotationIsALine`) prove what no run spends time on.

## 7. Plan

Done: every part of section 1 with state of its own is modelled. What would come next, in this order:

1. `Client`: the browser's side of sessions (`web/lib/api.ts`, `web/lib/auth.tsx`): one refresh for many
   refused calls, a cookie shared by tabs, whose answer counts after signing in as somebody else; composed
   with `Sessions`.
2. Refinements: `Welfare` implements *each entitlement is settled once*, `Reports` *one delivery per month
   and member, but for the doubtful mail*.

## 8. What is not modelled

* **Audit log**, but for attendance: an append in the transaction of the change it records.
* **Configuration, rate limits, logging, errors**: read at start or per request; what they refuse is a
  request the models do not take.
* **Mail text, letters, the layout of PDF**: wording of what was already decided.
* **Signing**: a signature and a hash are taken to tell files apart.
* **Image processing** inside the gates of the reader, and the tools run by hand (`calibrate.py`,
  `selftest.py`): taken as any verdict, any limits.
* **The web client's other pages**: forms and lists over the API, without state the server relies on.
* **Hosting, grants, print checks.** The constraints of the schema that the modelled tables carry (unique
  indexes, checks, foreign keys) are part of the modules.

Within the modelled parts: amounts and dates of claims, names and wording; which of several officers acts;
renaming a house and fields of a member nothing refers to; the reference of terms of office to houses, which
would only refuse more deletions; the tries of a request; reads that change nothing.

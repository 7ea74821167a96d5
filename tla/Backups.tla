------------------------------ MODULE Backups ------------------------------
(***************************************************************************)
(* The nightly backup (src/src/backup): tables read one statement after    *)
(* another into a file (dump.ts), the file recorded, uploaded, read back   *)
(* and verified, and older files expired (run.ts, verify.ts, store.ts).    *)
(* The timer of src/src/jobs/scheduler.ts takes one a night; the HTTP      *)
(* route of src/src/routes/jobs.ts and src/scripts/run-backup.ts take one  *)
(* whenever they are called, beside the timer or beside each other.        *)
(*                                                                         *)
(* A file is named after the second its dump began (format.ts): that       *)
(* second is the key of the object and of its row, and two runs that begin *)
(* in one second share both.                                               *)
(***************************************************************************)
EXTENDS Naturals, FiniteSets

CONSTANTS
    Timer,          \* the scheduler, which runs one backup at a time
    Triggers,       \* HTTP calls and scripts that can be under way at once
    None,           \* a missing row or object, an idle caller
    Torn,           \* the bytes of an upload that was damaged
    DayOf,          \* the day of each moment
    Nights,         \* the moments at or past BACKUP_HOUR
    MinKeep,        \* BACKUP_MIN_KEEP
    Retention,      \* BACKUP_RETENTION_DAYS, in moments
    MaxRun,         \* moments a run may take before it is stopped
    MaxClock,       \* bound on the moments
    MaxMembers,     \* bound on the members recorded
    MaxCalls,       \* bound on the calls of the route and the script
    MaxFaults       \* bound on the failures

Callers == Triggers \cup {Timer}
Moments == 0..MaxClock
Rows == 0..MaxMembers

ASSUME BoundsAssumption ==
    /\ DayOf \in [Moments -> Nat]
    /\ Nights \subseteq Moments
    /\ MinKeep \in Nat \ {0}
    /\ Retention \in Nat
    /\ MaxRun \in Nat
    /\ MaxClock \in Nat
    /\ MaxMembers \in Nat
    /\ MaxCalls \in Nat
    /\ MaxFaults \in Nat

\* Two runs are over long before what they wrote is old enough to expire.
ASSUME RetentionAssumption == 2 * MaxRun <= Retention

VARIABLES
    clock,          \* the moment
    db,             \* the tables a dump reads
    records,        \* backup_runs, by object_key
    bucket,         \* the objects in R2, by key
    calls,          \* the runs under way
    called,         \* calls of the route and the script so far
    faults,         \* failures so far
    proved,         \* keys some run has verified (history)
    contested       \* keys two runs have taken (history)

vars == <<clock, db, records, bucket, calls, called, faults, proved, contested>>

\* members: the tables read first; users: those read later, whose rows refer to
\* them and are written with them; scanned: some rows of attendance came from a
\* scan before the first backup, and refer to attendance_scans.
Database == [members : Rows, scanned : BOOLEAN]
File == [members : Rows, users : Rows, scanned : BOOLEAN]

Run == [status : {"running", "verified", "failed", "pruned"}, file : File,
        started : Moments]
Object == [file : File \cup {Torn}, at : Moments]

\* listed: what is stored and since when; once chosen, only what is to expire.
Listing == [Moments -> Moments \cup {None}]

Call ==
    [step : {"members"}, key : Moments, filled : BOOLEAN]
      \cup [step : {"users"}, key : Moments, filled : BOOLEAN, members : Rows]
      \cup [step : {"upload", "read"}, key : Moments, file : File]
      \cup [step : {"finish"}, key : Moments, sound : BOOLEAN]
      \cup [step : {"list"}, key : Moments]
      \cup [step : {"choose", "expire", "mark"}, key : Moments, listed : Listing]

\* A row is never NULL, an object never missing bytes and a call never idle.
ASSUME RowAssumption ==
    /\ None \notin Run \cup Object \cup Call \cup Moments
    /\ Torn \notin File

TypeOK ==
    /\ clock \in Moments
    /\ db \in Database
    /\ records \in [Moments -> Run \cup {None}]
    /\ bucket \in [Moments -> Object \cup {None}]
    /\ calls \in [Callers -> Call \cup {None}]
    /\ called \in 0..MaxCalls
    /\ faults \in 0..MaxFaults
    /\ proved \in SUBSET Moments
    /\ contested \in SUBSET Moments

Init ==
    /\ clock = 0
    /\ db \in Database
    /\ db.scanned => db.members > 0
    /\ records = [k \in Moments |-> None]
    /\ bucket = [k \in Moments |-> None]
    /\ calls = [c \in Callers |-> None]
    /\ called = 0
    /\ faults = 0
    /\ proved = {}
    /\ contested = {}
-----------------------------------------------------------------------------
Recorded == {k \in Moments : records[k] # None}
Stored == {k \in Moments : bucket[k] # None}
Verified == {k \in Recorded : records[k].status = "verified"}
BackedUpOn(d) == \E k \in Verified : DayOf[records[k].started] = d

At(c, step) == calls[c] # None /\ calls[c].step = step
Goes(c, call) == calls' = [calls EXCEPT ![c] = call]
Ends(c) == Goes(c, None)

\* What a restore would do with a file: insert table by table, each row's
\* references checked as it goes in.  The rows a scan wrote refer to a table
\* the file does not hold.
Restorable(file) == file.users <= file.members /\ ~ file.scanned

\* Mutant: a file is believed for having been stored.
Believed(object, file) == object # None /\ file.members > 0

\* The file is the one the run wrote, and not of an empty association.
Passes(object, file) ==
    /\ object # None
    /\ object.file = file
    /\ file.members > 0

\* Files old enough to expire that leave MinKeep newer verified ones behind.
Expirable(listed, verified) ==
    LET stored == {k \in Moments : listed[k] # None}
        kept == stored \cap verified
        Newer(k) == {j \in kept : listed[j] > listed[k]}
    IN  IF Cardinality(kept) <= MinKeep THEN {}
        ELSE {k \in stored : /\ listed[k] + Retention < clock
                             /\ Cardinality(Newer(k)) >= MinKeep}

\* Mutant: whatever is stored counts as a verified backup.
ExpiredByAny(listed) == Expirable(listed, Moments)

Expired(listed) == Expirable(listed, Verified)
-----------------------------------------------------------------------------
\* takenAt and the counts: a table that is empty now is not read at all.
Begin(c) ==
    /\ calls[c] = None
    /\ Goes(c, [step |-> "members", key |-> clock, filled |-> db.members > 0])
    /\ UNCHANGED <<clock, db, records, bucket, faults, proved, contested>>

BeginNightly ==
    /\ clock \in Nights
    /\ ~ BackedUpOn(DayOf[clock])
    /\ Begin(Timer)
    /\ UNCHANGED called

BeginCalled(c) ==
    /\ called < MaxCalls
    /\ Begin(c)
    /\ called' = called + 1

ReadMembers(c) ==
    /\ At(c, "members")
    /\ Goes(c, [step |-> "users", key |-> calls[c].key, filled |-> calls[c].filled,
                members |-> IF calls[c].filled THEN db.members ELSE 0])
    /\ UNCHANGED <<clock, db, records, bucket, called, faults, proved, contested>>

\* The dump as read: the later tables are read later.
Read(c) ==
    [members |-> calls[c].members,
     users |-> IF calls[c].filled THEN db.members ELSE 0,
     scanned |-> db.scanned]

\* INSERT ... ON CONFLICT (object_key) keeps the first run's fingerprint.
Recording(k, file) ==
    records' = [records EXCEPT ![k] =
        IF @ = None THEN [status |-> "running", file |-> file, started |-> clock]
                    ELSE [@ EXCEPT !.status = "running"]]

RecordRun(c) ==
    /\ At(c, "users")
    /\ Recording(calls[c].key, Read(c))
    /\ Goes(c, [step |-> "upload", key |-> calls[c].key, file |-> Read(c)])
    /\ contested' = contested \cup
           (IF records[calls[c].key] = None THEN {} ELSE {calls[c].key})
    /\ UNCHANGED <<clock, db, bucket, called, faults, proved>>

Storing(k, file) == bucket' = [bucket EXCEPT ![k] = [file |-> file, at |-> clock]]

Upload(c) ==
    /\ At(c, "upload")
    /\ Storing(calls[c].key, calls[c].file)
    /\ Goes(c, [step |-> "read", key |-> calls[c].key, file |-> calls[c].file])
    /\ UNCHANGED <<clock, db, records, called, faults, proved, contested>>

\* The upload is answered and what it stored is not what was sent.
UploadTorn(c) ==
    /\ faults < MaxFaults
    /\ At(c, "upload")
    /\ Storing(calls[c].key, Torn)
    /\ Goes(c, [step |-> "read", key |-> calls[c].key, file |-> calls[c].file])
    /\ faults' = faults + 1
    /\ UNCHANGED <<clock, db, records, called, proved, contested>>

\* The upload is not answered, whether or not it was stored.
UploadUnanswered(c) ==
    /\ faults < MaxFaults
    /\ At(c, "upload")
    /\ Storing(calls[c].key, calls[c].file) \/ UNCHANGED bucket
    /\ Goes(c, [step |-> "finish", key |-> calls[c].key, sound |-> FALSE])
    /\ faults' = faults + 1
    /\ UNCHANGED <<clock, db, records, called, proved, contested>>

ReadBack(c) ==
    /\ At(c, "read")
    /\ Goes(c, [step |-> "finish", key |-> calls[c].key,
                sound |-> Passes(bucket[calls[c].key], calls[c].file)])
    /\ UNCHANGED <<clock, db, records, bucket, called, faults, proved, contested>>

ReadBackUnanswered(c) ==
    /\ faults < MaxFaults
    /\ At(c, "read")
    /\ Goes(c, [step |-> "finish", key |-> calls[c].key, sound |-> FALSE])
    /\ faults' = faults + 1
    /\ UNCHANGED <<clock, db, records, bucket, called, proved, contested>>

FinishVerified(c) ==
    /\ At(c, "finish")
    /\ calls[c].sound
    /\ records' = [records EXCEPT ![calls[c].key].status = "verified"]
    /\ proved' = proved \cup {calls[c].key}
    /\ Goes(c, [step |-> "list", key |-> calls[c].key])
    /\ UNCHANGED <<clock, db, bucket, called, faults, contested>>

\* Mutant: a failed run is never over.
FinishFailedStuck(c) ==
    /\ At(c, "finish")
    /\ ~ calls[c].sound
    /\ records' = [records EXCEPT ![calls[c].key].status = "failed"]
    /\ UNCHANGED <<clock, db, bucket, calls, called, faults, proved, contested>>

FinishFailed(c) ==
    /\ At(c, "finish")
    /\ ~ calls[c].sound
    /\ records' = [records EXCEPT ![calls[c].key].status = "failed"]
    /\ Ends(c)
    /\ UNCHANGED <<clock, db, bucket, called, faults, proved, contested>>
-----------------------------------------------------------------------------
\* pruneOldBackups: the objects first, the rows that say which are verified next.
List(c) ==
    /\ At(c, "list")
    /\ Goes(c, [step |-> "choose", key |-> calls[c].key,
                listed |-> [k \in Moments |-> IF k \in Stored THEN bucket[k].at ELSE None]])
    /\ UNCHANGED <<clock, db, records, bucket, called, faults, proved, contested>>

\* What is left to expire; nothing left ends the run.
Expiring(c, keys) ==
    IF keys = {} THEN Ends(c)
    ELSE Goes(c, [step |-> "expire", key |-> calls[c].key,
                  listed |-> [k \in Moments |-> IF k \in keys THEN calls[c].listed[k]
                                                ELSE None]])

Choose(c) ==
    /\ At(c, "choose")
    /\ Expiring(c, Expired(calls[c].listed))
    /\ UNCHANGED <<clock, db, records, bucket, called, faults, proved, contested>>

Doomed(c) == {k \in Moments : calls[c].listed[k] # None}

\* The list is newest first, and files of one date come in the order of their keys.
Foremost(c) ==
    LET at == calls[c].listed
    IN  {k \in Doomed(c) :
            \A j \in Doomed(c) : at[j] < at[k] \/ (at[j] = at[k] /\ k <= j)}

Delete(c) ==
    /\ At(c, "expire")
    /\ \E k \in Foremost(c) : bucket' = [bucket EXCEPT ![k] = None]
    /\ calls' = [calls EXCEPT ![c].step = "mark"]
    /\ UNCHANGED <<clock, db, records, called, faults, proved, contested>>

MarkPruned(c) ==
    /\ At(c, "mark")
    /\ \E k \in Foremost(c) :
         /\ records' = [records EXCEPT ![k] =
                IF @ = None THEN None ELSE [@ EXCEPT !.status = "pruned"]]
         /\ Expiring(c, Doomed(c) \ {k})
    /\ UNCHANGED <<clock, db, bucket, called, faults, proved, contested>>

\* One failure does not stop the rest: the object may stay, or go and its row
\* be left as it was.
ExpireFails(c) ==
    /\ faults < MaxFaults
    /\ At(c, "expire") \/ At(c, "mark")
    /\ \E k \in Foremost(c) : Expiring(c, Doomed(c) \ {k})
    /\ faults' = faults + 1
    /\ UNCHANGED <<clock, db, records, bucket, called, proved, contested>>

\* The process stops, the function's time is up or a query throws.
Stop(c) ==
    /\ faults < MaxFaults
    /\ calls[c] # None
    /\ Ends(c)
    /\ faults' = faults + 1
    /\ UNCHANGED <<clock, db, records, bucket, called, proved, contested>>
-----------------------------------------------------------------------------
\* What the rest of the program writes meanwhile.
Register ==
    /\ db.members < MaxMembers
    /\ db' = [db EXCEPT !.members = @ + 1]
    /\ UNCHANGED <<clock, records, bucket, calls, called, faults, proved, contested>>

Tick ==
    /\ clock < MaxClock
    /\ \A c \in Callers : calls[c] # None => clock < calls[c].key + MaxRun
    /\ clock' = clock + 1
    /\ UNCHANGED <<db, records, bucket, calls, called, faults, proved, contested>>

Steps(c) ==
    \/ ReadMembers(c) \/ RecordRun(c) \/ Upload(c) \/ ReadBack(c)
    \/ FinishVerified(c) \/ FinishFailed(c)
    \/ List(c) \/ Choose(c) \/ Delete(c) \/ MarkPruned(c)

Failures(c) ==
    \/ UploadTorn(c) \/ UploadUnanswered(c) \/ ReadBackUnanswered(c)
    \/ ExpireFails(c) \/ Stop(c)

Next ==
    \/ BeginNightly
    \/ \E c \in Triggers : BeginCalled(c)
    \/ \E c \in Callers : Steps(c) \/ Failures(c)
    \/ Register \/ Tick

Spec == Init /\ [][Next]_vars

\* The timer comes round again and goes on with the run it began; nobody has
\* to call the route, nothing has to fail and the clock need not move.
FairSpec == Spec /\ WF_vars(BeginNightly) /\ WF_vars(Steps(Timer))
-----------------------------------------------------------------------------
\* The file under the key is the one on record, and one of a running association.
AsRecorded(k) == bucket[k].file = records[k].file /\ records[k].file.members > 0

\* The file is there, and is as recorded unless another run took its key as well.
Standing(k) == k \in Stored /\ (k \in contested \/ AsRecorded(k))

\* A verified file is gone only when MinKeep others are there and still as they
\* were verified, however runs, prunes and failures overlap (run.ts: "Age alone
\* never justifies deletion").
MinimumIsKept ==
    proved \ Stored # {} => Cardinality({k \in proved : Standing(k)}) >= MinKeep

\* Every object in the bucket is on record, even one a run left half way, and
\* a row that says verified describes the object under its key if there is one
\* (migration 19: "so a job that dies halfway leaves evidence").
RecordsDescribeTheBucket ==
    /\ Stored \subseteq Recorded
    /\ \A k \in Verified \cap Stored : k \in contested \/ AsRecorded(k)

\* Any night on which there is something to back up ends with a verified
\* backup, or is over, whatever failed before (scheduler.ts: "it will be
\* retried on the next tick").
NightlyBackup ==
    (clock \in Nights /\ db.members > 0) ~> (BackedUpOn(DayOf[clock]) \/ clock \notin Nights)

\* What verification passes can be restored (format.ts: tables in foreign-key
\* order "so a restore can insert table by table").
VerifiedIsRestorable ==
    \A k \in Verified \cap Stored :
        bucket[k].file # Torn => Restorable(bucket[k].file)
=============================================================================

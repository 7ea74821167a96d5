------------------------------- MODULE Review -------------------------------
(***************************************************************************)
(* From a photographed page to the register (src/src/omr/scans.ts), as the *)
(* officers' browsers drive it: the review screen                          *)
(* (src/web/app/(app)/admin/attendance-scans/[id]/page.tsx) and the hand-  *)
(* kept register of the same meeting beside it.                            *)
(*                                                                         *)
(* A screen is what one load of its page put there, the marks the officer  *)
(* has changed since, and the two requests it can have under way: a save   *)
(* and a reading.  The two statements of a save and the purging of         *)
(* photographs are left to Scans, and who may open these screens to        *)
(* Offices.  One meeting, printed once.                                    *)
(***************************************************************************)
EXTENDS Reader

CONSTANTS
    Officers,    \* browser tabs of officers with access
    ScanIds,     \* attendance_scans.id
    Printing,    \* the pages printed for this meeting: one generation_id
    Configs,     \* omr_fill_low and omr_fill_high over time, a subset of Config
    Default,     \* DEFAULT_FILL_LOW and DEFAULT_FILL_HIGH
    Choices,     \* bound: the marks an officer changes others to by hand
    MaxMarks     \* bound: how many they change

\* attendance_status; an apology with its reason written down is "explained".
Marks == {"present", "absent", "apology", "explained"}

\* The two rows of matrix_config, each of which may be missing.
Config == [low : Ink \cup {Null}, high : Ink \cup {Null}]

ASSUME ReviewAssumption ==
    /\ Printing \subseteq Sheets
    /\ Configs \subseteq Config
    /\ Default \in Limit
    /\ Choices \subseteq Marks
    /\ MaxMarks \in Nat
    /\ Null \notin Officers \cup ScanIds \cup Marks
    /\ "register" \notin ScanIds

VARIABLES
    config,      \* the limits in matrix_config
    scans,       \* attendance_scans
    register,    \* attendance of this meeting
    screens,     \* what each officer has before them
    saving,      \* the save each officer's browser has sent
    reading,     \* the reading each officer's browser has asked for
    changed      \* how many marks were changed by hand so far

reviewVars == <<config, scans, register, screens, saving, reading, changed>>

-----------------------------------------------------------------------------
ScanStatus == {"uploaded", "detected", "rejected", "committed"}

\* rows: detection_json.rows, by their index; empty when nothing was measured.
\* overrides: the members in detection_json.review.overrides.
ScanRow == [sheet : Printing, shot : Shots, status : ScanStatus,
            rows : Seq(CellState), overrides : SUBSET Members]

\* scan: scan_id, which a row has that came off a sheet.
RegisterRow == [mark : Marks, scan : ScanIds \cup {Null}]

Page == ScanIds \cup {"register"}
Marking == [Members -> Marks \cup {Null}]

\* status, missing: the scan's status, and the other pages not recorded yet, as
\* they were loaded.  shown: the marks as loaded.
Screen == [page : Page, status : ScanStatus \cup {"open"}, missing : SUBSET Printing,
           shown : Marking, marks : Marking]

\* The bodies of the two requests; the limits of a reading are read as it begins.
SaveBody == [page : Page, entries : Marking]
ReadBody == [scan : ScanIds, limits : Limit]

ASSUME NullAssumption ==
    Null \notin ScanRow \cup RegisterRow \cup Screen \cup SaveBody \cup ReadBody

ReviewTypeOK ==
    /\ config \in Configs
    /\ scans \in [ScanIds -> ScanRow \cup {Null}]
    /\ register \in [Members -> RegisterRow \cup {Null}]
    /\ screens \in [Officers -> Screen \cup {Null}]
    /\ saving \in [Officers -> SaveBody \cup {Null}]
    /\ reading \in [Officers -> ReadBody \cup {Null}]
    /\ changed \in 0 .. MaxMarks

ReviewInit ==
    /\ config \in Configs
    /\ scans = [s \in ScanIds |-> Null]
    /\ register = [m \in Members |-> Null]
    /\ screens = [o \in Officers |-> Null]
    /\ saving = [o \in Officers |-> Null]
    /\ reading = [o \in Officers |-> Null]
    /\ changed = 0

-----------------------------------------------------------------------------
(***************************************************************************)
(* What a page is loaded with.                                             *)
(***************************************************************************)
Recorded == {s \in ScanIds : scans[s] # Null}
NamesOn(sheet) == {Manifest[sheet][i] : i \in DOMAIN Manifest[sheet]}
RowOf(sheet, m) == CHOOSE i \in DOMAIN Manifest[sheet] : Manifest[sheet][i] = m

StatusOf(mark) == IF mark = "explained" THEN "apology" ELSE mark

\* What a member's box was read as, if it was read.
StateOf(scan, m) ==
    LET i == RowOf(scan.sheet, m)
    IN IF i \in DOMAIN scan.rows THEN scan.rows[i] ELSE Null

RecordedStatus(m) == IF register[m] = Null THEN Null ELSE StatusOf(register[m].mark)

\* A box decides between present and absent; one that could not be called
\* leaves what is recorded, and an apology outlives either.
ProposalFor(state, recorded) ==
    CASE recorded = "apology" -> "apology"
      [] recorded # "apology" /\ state = "marked" -> "present"
      [] recorded # "apology" /\ state = "blank"  -> "absent"
      [] OTHER -> IF recorded = Null THEN "absent" ELSE recorded

Proposed(scan) ==
    [m \in Members |-> IF m \in NamesOn(scan.sheet)
                       THEN ProposalFor(StateOf(scan, m), RecordedStatus(m)) ELSE Null]

\* The hand-kept register lists everyone, present unless recorded otherwise.
Listed == [m \in Members |-> IF register[m] = Null THEN "present" ELSE register[m].mark]

\* A limit that was never stored is the one that was shipped.
ConfigNumber(row, fallback) == IF row = Null THEN fallback ELSE row

Limits(c) == [low  |-> ConfigNumber(c.low, Default.low),
              high |-> ConfigNumber(c.high, Default.high)]
Thresholds == Limits(config)

\* Mutant: photographed is as good as recorded.
PagesNotPhotographed ==
    {sheet \in Printing :
        ~\E s \in Recorded : scans[s].sheet = sheet /\ scans[s].status # "rejected"}

\* The pages of the printing that still have to come back.
PagesAwaiting ==
    {sheet \in Printing :
        ~\E s \in Recorded : scans[s].sheet = sheet /\ scans[s].status = "committed"}

\* The register page starts from what is recorded, with the reasons.
RegisterScreen ==
    [page |-> "register", status |-> "open", missing |-> {},
     shown |-> Listed, marks |-> Listed]

\* The review screen starts from what is proposed; the reason of a recorded
\* apology is not among what it loads.  Its own page it does not call missing.
ReviewScreen(s) ==
    [page |-> s, status |-> scans[s].status,
     missing |-> PagesAwaiting \ {scans[s].sheet},
     shown |-> Proposed(scans[s]), marks |-> Proposed(scans[s])]

\* While a page is being loaded there is nothing to press.
Ready(o) == screens[o] # Null

\* An answer comes back and has the page that asked load again; or it is lost on
\* the way, and the page says so and stays as it was.
Answered(o) == \/ screens' = [screens EXCEPT ![o] = Null]
               \/ UNCHANGED screens

-----------------------------------------------------------------------------
(***************************************************************************)
(* The screens.                                                            *)
(***************************************************************************)
\* While a request is under way, a page loads only because the answer to the
\* other had it load again.  Whoever leaves it counts as another tab.
MayLoad(o, page) ==
    /\ saving[o] # Null => ~Ready(o) /\ page = saving[o].page
    /\ reading[o] # Null => ~Ready(o) /\ page = reading[o].scan

\* A page is opened, or loads again: what was on the screen is gone, the
\* changes to it as well.
Open(o, page) ==
    /\ MayLoad(o, page)
    /\ \/ /\ page = "register"
          /\ screens' = [screens EXCEPT ![o] = RegisterScreen]
       \/ /\ page \in Recorded
          /\ screens' = [screens EXCEPT ![o] = ReviewScreen(page)]
    /\ UNCHANGED <<config, scans, register, saving, reading, changed>>

\* A committed scan's rows cannot be changed; any other's can, and changing one
\* row twice is changing it once.
Mark(o, m, mark) ==
    /\ Ready(o)
    /\ changed < MaxMarks
    /\ screens[o].status # "committed"
    /\ screens[o].shown[m] # Null
    /\ screens[o].marks[m] = screens[o].shown[m]
    /\ mark # screens[o].shown[m]
    /\ screens' = [screens EXCEPT ![o].marks[m] = mark]
    /\ changed' = changed + 1
    /\ UNCHANGED <<config, scans, register, saving, reading>>

\* "Mark everyone": the register page only.
MarkAll(o, status) ==
    /\ Ready(o)
    /\ screens[o].page = "register"
    /\ changed < MaxMarks
    /\ screens' = [screens EXCEPT ![o].marks = [m \in Members |-> status]]
    /\ changed' = changed + 1
    /\ UNCHANGED <<config, scans, register, saving, reading>>

\* Mutant: what was never read can be recorded as well.
RecordableUnread(status) == status \notin {"committed", "rejected"}

\* When "Record this page" is enabled.
Recordable(status) == status \notin {"committed", "rejected", "uploaded"}

\* "Record this page", or "Save register": every row goes along as it stands.
Save(o) ==
    /\ Ready(o)
    /\ saving[o] = Null
    /\ screens[o].page # "register" => Recordable(screens[o].status)
    /\ saving' = [saving EXCEPT ![o] =
                    [page |-> screens[o].page, entries |-> screens[o].marks]]
    /\ UNCHANGED <<config, scans, register, screens, reading, changed>>

\* "Read this photograph again".  The photograph, here always on file, is
\* fetched, and status and limits are read, before the reader is asked.
Reread(o) ==
    /\ Ready(o)
    /\ screens[o].page # "register"
    /\ reading[o] = Null
    /\ screens[o].status # "committed"
    /\ LET s == screens[o].page
       IN /\ scans[s].status # "committed"
          /\ reading' = [reading EXCEPT ![o] = [scan |-> s, limits |-> Thresholds]]
    /\ UNCHANGED <<config, scans, register, screens, saving, changed>>

-----------------------------------------------------------------------------
(***************************************************************************)
(* The server.                                                             *)
(***************************************************************************)
NewScan(sheet, shot) ==
    [sheet |-> sheet, shot |-> shot, status |-> "uploaded",
     rows |-> <<>>, overrides |-> {}]

\* A photograph is taken, stored, and read at once; then the officer is sent to
\* its screen.  The same one twice is the one on file.
TakePhotograph(o, s, sheet, shot) ==
    /\ saving[o] = Null /\ reading[o] = Null
    /\ scans[s] = Null
    /\ \A t \in Recorded : scans[t].sheet = sheet => scans[t].shot # shot
    /\ scans' = [scans EXCEPT ![s] = NewScan(sheet, shot)]
    /\ reading' = [reading EXCEPT ![o] = [scan |-> s, limits |-> Thresholds]]
    /\ screens' = [screens EXCEPT ![o] = Null]
    /\ UNCHANGED <<config, register, saving, changed>>

\* The whole of detection_json is replaced, whatever has become of the scan since.
StoreReading(o) ==
    /\ reading[o] # Null
    /\ LET s == reading[o].scan
           result == Detect(scans[s].shot, scans[s].sheet, reading[o].limits)
       IN /\ scans' = [scans EXCEPT ![s].status = result.status,
                                    ![s].rows = result.rows,
                                    ![s].overrides = {}]
          /\ Answered(o)
    /\ reading' = [reading EXCEPT ![o] = Null]
    /\ UNCHANGED <<config, register, saving, changed>>

\* The reader cannot be reached, takes too long, or the request dies.
ReadingFails(o) ==
    /\ reading[o] # Null
    /\ reading' = [reading EXCEPT ![o] = Null]
    /\ UNCHANGED <<config, scans, register, screens, saving, changed>>

Committable(scan) == scan.status \notin {"committed", "rejected"}

\* The members a save names.
Decided(entries) == {m \in Members : entries[m] # Null}

\* What the person changed against what the machine would propose now.
Overrides(scan, decided, entries) ==
    {m \in decided :
        ProposalFor(StateOf(scan, m), RecordedStatus(m)) # StatusOf(entries[m])}

Committed(scan, decided, entries) ==
    [scan EXCEPT !.status = "committed", !.overrides = Overrides(scan, decided, entries)]

CommitScan(o) ==
    /\ saving[o] # Null /\ saving[o].page # "register"
    /\ LET s == saving[o].page
           entries == saving[o].entries
           decided == Decided(entries)
       IN \/ /\ Committable(scans[s])
             /\ register' = [m \in Members |->
                    IF m \in decided THEN [mark |-> entries[m], scan |-> s] ELSE register[m]]
             /\ scans' = [scans EXCEPT ![s] = Committed(@, decided, entries)]
             /\ Answered(o)
          \/ /\ ~Committable(scans[s])
             /\ UNCHANGED <<scans, register, screens>>
    /\ saving' = [saving EXCEPT ![o] = Null]
    /\ UNCHANGED <<config, reading, changed>>

\* The upsert names neither source nor scan_id: a row off a sheet keeps both.
SaveRegister(o) ==
    /\ saving[o] # Null /\ saving[o].page = "register"
    /\ register' = [m \in Members |->
           [mark |-> saving[o].entries[m],
            scan |-> IF register[m] = Null THEN Null ELSE register[m].scan]]
    /\ Answered(o)
    /\ saving' = [saving EXCEPT ![o] = Null]
    /\ UNCHANGED <<config, scans, reading, changed>>

SavingFails(o) ==
    /\ saving[o] # Null
    /\ saving' = [saving EXCEPT ![o] = Null]
    /\ UNCHANGED <<config, scans, register, screens, reading, changed>>

\* Somebody calibrates: "a database change, not a deployment".
Calibrate(c) ==
    /\ c \in Configs \ {config}
    /\ config' = c
    /\ UNCHANGED <<scans, register, screens, saving, reading, changed>>

-----------------------------------------------------------------------------
OnScreen(o) ==
    \/ \E page \in Page : Open(o, page)
    \/ \E m \in Members, mark \in Choices : Mark(o, m, mark)
    \/ \E status \in {"present", "absent"} : MarkAll(o, status)
    \/ Save(o)
    \/ Reread(o)

AtTheServer(o) ==
    \/ \E s \in ScanIds, sheet \in Printing, shot \in Shots : TakePhotograph(o, s, sheet, shot)
    \/ StoreReading(o)
    \/ ReadingFails(o)
    \/ CommitScan(o)
    \/ SaveRegister(o)
    \/ SavingFails(o)

ReviewNext ==
    \/ \E o \in Officers : OnScreen(o) \/ AtTheServer(o)
    \/ \E c \in Configs : Calibrate(c)

ReviewSpec == ReviewInit /\ [][ReviewNext]_reviewVars
-----------------------------------------------------------------------------
(***************************************************************************)
(* Safety.                                                                 *)
(***************************************************************************)
Becomes(s, status) == s \in Recorded /\ scans[s].status # status /\ scans'[s].status = status

\* No page is committed before it was read: the server only refuses what is
\* committed or rejected, and the screen was loaded some time ago, beside
\* others who read the photograph again.
OnlyReadPagesAreCommitted ==
    [][\A s \in ScanIds : Becomes(s, "committed") => scans[s].rows # <<>>]_reviewVars

\* The ink beside a member's own name bears the mark out.
BornOut(m, shot, mark) ==
    /\ mark = "present" => \E c \in Configs : Shot[shot].ink[m] >= Limits(c).high
    /\ mark = "absent"  => \E c \in Configs : Shot[shot].ink[m] < Limits(c).high

\* The machine marks nobody by another's box: whoever a commit newly records
\* and does not list as corrected by hand has their own box ticked on the
\* photographed paper if present, and not ticked if absent; the screen may have
\* been loaded before the photograph was read again under other limits.
UncorrectedMarksAreTheirOwn ==
    [][\A s \in ScanIds : Becomes(s, "committed") =>
         \A m \in NamesOn(scans[s].sheet) \ scans'[s].overrides :
             register[m] = Null => BornOut(m, scans[s].shot, register'[m].mark)]_reviewVars

\* When the screen of a recorded page calls no other page missing, everyone
\* printed for the meeting is in the register, however old that screen is and
\* whatever readings and saves came since.
NoPageOverlooked ==
    \A o \in Officers :
        Ready(o) /\ screens[o].status = "committed" /\ screens[o].missing = {} =>
            \A sheet \in Printing : \A m \in NamesOn(sheet) : register[m] # Null
-----------------------------------------------------------------------------
(***************************************************************************)
(* What the documentation says and the code does not keep to.              *)
(***************************************************************************)
\* "a box the reader could not call keeps whatever is already recorded"
\* (scans.ts:313): the reason of an apology included.
UncalledRowsKeepTheRecord ==
    [][\A s \in ScanIds : Becomes(s, "committed") =>
         \A m \in NamesOn(scans[s].sheet) \ scans'[s].overrides :
             StateOf(scans[s], m) = "uncertain" /\ register[m] # Null
               => register'[m].mark = register[m].mark]_reviewVars

\* "What the person changed against what the machine proposed" (scans.ts:584):
\* nothing is put down as a correction while nobody has changed a mark.
CorrectionsAreByHand == changed = 0 => \A s \in Recorded : scans[s].overrides = {}

\* A committed page is shown as it was recorded.
CommittedPagesShowTheRecord ==
    [][\A o \in Officers : Ready(o)' /\ ~Ready(o) /\ screens'[o].status = "committed" =>
         \A m \in NamesOn(scans[screens'[o].page].sheet) :
             screens'[o].shown[m] = RecordedStatus(m)]_reviewVars

\* "sheets already printed keep their own, and are still read correctly"
\* (template.ts:8-9): a flawless photograph of the right page is not refused,
\* whichever template the page was printed from.
OldSheetsAreRead ==
    \A s \in Recorded :
        scans[s].status = "rejected" =>
            \/ Shot[scans[s].shot].faults # {}
            \/ Shot[scans[s].shot].sheet # scans[s].sheet
=============================================================================

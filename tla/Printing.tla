------------------------------ MODULE Printing ------------------------------
(***************************************************************************)
(* Sheets and documents on paper: the register of members and prayer       *)
(* houses they are drawn from (src/src/routes/admin-members.ts,            *)
(* admin-offices.ts), the runs of attendance sheets                        *)
(* (src/src/omr/generate.ts), the sealed documents                         *)
(* (src/src/documents/issue.ts, src/src/routes/exports.ts), what the       *)
(* public check answers (src/src/routes/verify.ts), and the deletion of    *)
(* the events and houses all of these refer to.                            *)
(*                                                                         *)
(* A printing is three transactions with a rendering in between: the       *)
(* event, the document, the pages.  A deletion counts what refers to the   *)
(* row in the snapshot of a statement that then waits for the row.         *)
(***************************************************************************)
EXTENDS Naturals, SequencesExt

CONSTANTS
    Members,     \* members.id, in the order of their names
    Houses,      \* prayer_houses.id, in the order of their names
    Built,       \* the prayer houses there at first
    Register,    \* who is on the register at first
    EventIds,    \* events.id
    Runs,        \* attendance_sheets.generation_id
    Docs,        \* documents.document_id
    PageRows,    \* ROWS_PER_PAGE
    MaxPages,    \* MAX_PAGES
    Requests,    \* HTTP requests the server can have in flight at once
    Edits,       \* what officers change a member's row to
    Bodies,      \* the lists of members officers tick, None for everyone
    Subjects,    \* the members whose documents are asked for
    None         \* SQL NULL, a missing row, an idle request

\* active is membership_status = 'active'.
Member == [house : Houses, active : BOOLEAN]
Event == [house : Houses \cup {None}]

ASSUME PrintingAssumption ==
    /\ Members \subseteq Nat /\ IsFiniteSet(Members)
    /\ Houses \subseteq Nat /\ Built \subseteq Houses
    /\ EventIds \cap Houses = {}
    /\ None \notin Member \cup Event
    /\ Register \in [Members -> Member \cup {None}]
    /\ \A m \in Members : Register[m] # None => Register[m].house \in Built
    /\ PageRows \in Nat \ {0} /\ MaxPages \in Nat
    /\ Edits \subseteq Member
    /\ Bodies \subseteq {None} \cup SUBSET Members
    /\ \A chosen \in SUBSET Members : chosen # None
    /\ Subjects \subseteq Members

VARIABLES
    members,     \* members
    houses,      \* prayer_houses
    events,      \* events
    gone,        \* the ids of deleted rows, which are not given again
    recorded,    \* events with attendance or contributions
    sheets,      \* attendance_sheets: of a run, the event, the house, the pages, the document
    documents,   \* documents: the digest of the file and the details shown of it
    paper,       \* the files officers were sent
    requests     \* the requests in flight; a file is the event and the pages of
                 \* sheets, or the rows of an export

vars == <<members, houses, events, gone, recorded, sheets, documents, paper, requests>>

Init ==
    /\ members = Register
    /\ houses = Built
    /\ events = [e \in EventIds |-> None]
    /\ gone = {}
    /\ recorded = {}
    /\ sheets = <<>>
    /\ documents = <<>>
    /\ paper = {}
    /\ requests = [r \in Requests |-> None]

Held == {e \in EventIds : events[e] # None}
Enrolled == {m \in Members : members[m] # None}
Printed == DOMAIN sheets
Listed(pages) == UNION {ToSet(pages[n]) : n \in DOMAIN pages}

\* INSERT of a row under a key no row has
With(rows, key, row) == [k \in DOMAIN rows \cup {key} |-> IF k = key THEN row ELSE rows[k]]

At(r, step) == requests[r] # None /\ requests[r].at = step
Goes(r, q) == requests' = [requests EXCEPT ![r] = q]
Ends(r) == Goes(r, None)

\* The key-share lock of an inserted page on its event and its house.
EventShared(e) == \E r \in Requests : At(r, "stored") /\ requests[r].event = e
HouseShared(h) == \E r \in Requests : At(r, "stored") /\ requests[r].house = h
-----------------------------------------------------------------------------
(***************************************************************************)
(* The register.                                                           *)
(***************************************************************************)
AddHouse(h) ==
    /\ h \notin houses \cup gone
    /\ houses' = houses \cup {h}
    /\ UNCHANGED <<members, events, gone, recorded, sheets, documents, paper, requests>>

EnrolMember(m, h) ==
    /\ m \notin Enrolled
    /\ h \in houses
    /\ members' = [members EXCEPT ![m] = [house |-> h, active |-> TRUE]]
    /\ UNCHANGED <<houses, events, gone, recorded, sheets, documents, paper, requests>>

\* PATCH under the lock of the row; of the fields, those a roll is drawn by.
EditMember(m, row) ==
    /\ m \in Enrolled
    /\ row.house \in houses
    /\ members' = [members EXCEPT ![m] = row]
    /\ UNCHANGED <<houses, events, gone, recorded, sheets, documents, paper, requests>>

\* Attendance or a contribution, with whatever else its handler writes.
Record(e) ==
    /\ e \in Held
    /\ recorded' = recorded \cup {e}
    /\ UNCHANGED <<members, houses, events, gone, sheets, documents, paper, requests>>

\* ON DELETE RESTRICT, which looks at what is committed when the row goes.
HouseReferenced(h) ==
    \/ \E m \in Enrolled : members[m].house = h
    \/ \E e \in Held : events[e].house = h
    \/ \E g \in Printed : sheets[g].house = h

CountMembers(r, h) ==
    /\ requests[r] = None
    /\ h \in houses
    /\ ~\E m \in Enrolled : members[m].house = h
    /\ Goes(r, [at |-> "house counted", target |-> h])
    /\ UNCHANGED <<members, houses, events, gone, recorded, sheets, documents, paper>>

DeleteHouse(r) ==
    /\ At(r, "house counted")
    /\ LET h == requests[r].target
       IN /\ ~HouseShared(h)
          /\ IF HouseReferenced(h) THEN UNCHANGED <<houses, gone>>
             ELSE /\ houses' = houses \ {h}
                  /\ gone' = gone \cup {h}
    /\ Ends(r)
    /\ UNCHANGED <<members, events, recorded, sheets, documents, paper>>

\* Mutant: the foreign key of the pages does not restrict.
EventMarked(e) == e \in recorded

\* The same for an event.
EventReferenced(e) == e \in recorded \/ \E g \in Printed : sheets[g].event = e

\* SELECT ... FOR UPDATE counts in its own snapshot, then waits for the row.
CountRows(r, e) ==
    /\ requests[r] = None
    /\ e \in Held
    /\ e \notin recorded
    /\ ~\E g \in Printed : sheets[g].event = e
    /\ Goes(r, [at |-> "event counted", target |-> e])
    /\ UNCHANGED <<members, houses, events, gone, recorded, sheets, documents, paper>>

DeleteEvent(r) ==
    /\ At(r, "event counted")
    /\ LET e == requests[r].target
       IN /\ ~EventShared(e)
          /\ IF EventReferenced(e) THEN UNCHANGED <<events, gone>>
             ELSE /\ events' = [events EXCEPT ![e] = None]
                  /\ gone' = gone \cup {e}
    /\ Ends(r)
    /\ UNCHANGED <<members, houses, recorded, sheets, documents, paper>>
-----------------------------------------------------------------------------
(***************************************************************************)
(* Printing.                                                               *)
(***************************************************************************)
\* resolveEvent and the house the roll is for; again is the run reprinted.
Chosen(r, e, h, chosen, again) ==
    Goes(r, [at |-> "chosen", event |-> e, house |-> h, chosen |-> chosen, again |-> again])

PrintForEvent(r, e, h, chosen) ==
    /\ requests[r] = None
    /\ e \in Held
    /\ Chosen(r, e, IF h # None THEN h ELSE events[e].house, chosen, None)
    /\ UNCHANGED <<members, houses, events, gone, recorded, sheets, documents, paper>>

PrintForNewEvent(r, e, h, chosen) ==
    /\ requests[r] = None
    /\ e \notin Held \cup gone
    /\ h \in houses \cup {None}
    /\ events' = [events EXCEPT ![e] = [house |-> h]]
    /\ Chosen(r, e, h, chosen, None)
    /\ UNCHANGED <<members, houses, gone, recorded, sheets, documents, paper>>

\* Mutant: the members of the run are not handed on, so that all are printed.
AnyRoll(pages) == None

\* row_manifest of the pages, in their order
SameRoll(pages) == Listed(pages)

Reprint(r, g) ==
    /\ requests[r] = None
    /\ g \in Printed
    /\ Chosen(r, sheets[g].event, sheets[g].house, SameRoll(sheets[g].pages), g)
    /\ UNCHANGED <<members, houses, events, gone, recorded, sheets, documents, paper>>

\* rollFor: ORDER BY ph.name, m.full_name
RollFor(h, chosen) ==
    LET listed == {m \in Enrolled : /\ members[m].active
                                    /\ h # None => members[m].house = h
                                    /\ chosen # None => m \in chosen}
        Before(m, n) == \/ members[m].house < members[n].house
                        \/ members[m].house = members[n].house /\ m < n
        Earlier(m) == {n \in listed : Before(n, m)}
    IN [i \in 1..Cardinality(listed) |->
          CHOOSE m \in listed : Cardinality(Earlier(m)) = i - 1]

\* Mutant: rounded down, so that a last page with rows to spare is not drawn.
FullPages(roll) == Len(roll) \div PageRows

\* Math.ceil
TotalPages(roll) == (Len(roll) + PageRows - 1) \div PageRows

\* slice(page * ROWS_PER_PAGE, (page + 1) * ROWS_PER_PAGE)
Page(roll, n) ==
    SubSeq(roll, (n - 1) * PageRows + 1,
           IF n * PageRows <= Len(roll) THEN n * PageRows ELSE Len(roll))

Pages(roll) == [n \in 1..TotalPages(roll) |-> Page(roll, n)]

\* An empty roll, a list nobody is ticked on, or too many pages, is refused; the
\* event that was made for it stays.
DrawSheets(r) ==
    /\ At(r, "chosen")
    /\ LET q == requests[r]
           roll == RollFor(q.house, q.chosen)
       IN /\ q.house # None => q.house \in houses
          /\ q.chosen # {}
          /\ roll # <<>>
          /\ TotalPages(roll) <= MaxPages
          /\ Goes(r, [at |-> "drawn", event |-> q.event, house |-> q.house, again |-> q.again,
                      file |-> [event |-> q.event, pages |-> Pages(roll), rows |-> <<>>]])
    /\ UNCHANGED <<members, houses, events, gone, recorded, sheets, documents, paper>>

\* An export: the rows are read, then drawn.
Export(r, rows) ==
    Goes(r, [at |-> "drawn", event |-> None, house |-> None, again |-> None,
             file |-> [event |-> None, pages |-> <<>>, rows |-> rows]])

\* The bio-data or the Matrix report of a member
DrawMember(r, m) ==
    /\ requests[r] = None
    /\ m \in Enrolled
    /\ Export(r, [n \in {m} |-> members[n]])
    /\ UNCHANGED <<members, houses, events, gone, recorded, sheets, documents, paper>>

\* A register of the members, of their scores, contributions or claims
DrawRegister(r) ==
    /\ requests[r] = None
    /\ Export(r, [n \in Enrolled |-> members[n]])
    /\ UNCHANGED <<members, houses, events, gone, recorded, sheets, documents, paper>>

\* Mutant: the details are those of the register when the document is recorded.
DetailsNow(q) == [q.file EXCEPT !.rows = [m \in DOMAIN q.file.rows |-> members[m]]]

\* The metadata, taken from what was drawn.
Details(q) == q.file

\* The number is on every page, so that the digest is of both.
Digest(d, file) == <<d, file>>

\* issueDocument: render with the number, hash, sign, record.
Seal(r, d) ==
    /\ At(r, "drawn")
    /\ d \notin DOMAIN documents
    /\ LET q == requests[r]
       IN /\ documents' = With(documents, d,
                 [digest |-> Digest(d, q.file), details |-> Details(q)])
          /\ IF q.event = None
             THEN /\ paper' = paper \cup {[run |-> None, doc |-> d, file |-> q.file]}
                  /\ Ends(r)
             ELSE /\ Goes(r, [at |-> "sealed", event |-> q.event, house |-> q.house,
                              again |-> q.again, file |-> q.file, doc |-> d])
                  /\ UNCHANGED paper
    /\ UNCHANGED <<members, houses, events, gone, recorded, sheets>>

\* The foreign keys of attendance_sheets; the row locks are key-share.
InsertSheets(r) ==
    /\ At(r, "sealed")
    /\ LET q == requests[r]
       IN /\ q.event \in Held
          /\ q.house # None => q.house \in houses
          /\ Goes(r, [at |-> "stored", event |-> q.event, house |-> q.house,
                      again |-> q.again, file |-> q.file, doc |-> q.doc])
    /\ UNCHANGED <<members, houses, events, gone, recorded, sheets, documents, paper>>

CommitSheets(r, g) ==
    /\ At(r, "stored")
    /\ g \notin Printed
    /\ LET q == requests[r]
       IN /\ sheets' = With(sheets, g,
                 [event |-> q.event, house |-> q.house, pages |-> q.file.pages, doc |-> q.doc])
          /\ paper' = paper \cup {[run |-> g, doc |-> q.doc, file |-> q.file]}
    /\ Ends(r)
    /\ UNCHANGED <<members, houses, events, gone, recorded, documents>>

\* POST /verify/:id/check, with the digest of a file
Matches(d, file) == d \in DOMAIN documents /\ documents[d].digest = Digest(d, file)

\* GET /verify/:id
Shown(d) == documents[d].details

\* A refusal, a failed statement or rendering, a restart: what was committed stays.
Fail(r) ==
    /\ requests[r] # None
    /\ Ends(r)
    /\ UNCHANGED <<members, houses, events, gone, recorded, sheets, documents, paper>>

Officers ==
    \/ \E h \in Houses : AddHouse(h)
    \/ \E m \in Members, h \in Houses : EnrolMember(m, h)
    \/ \E m \in Members, row \in Edits : EditMember(m, row)
    \/ \E e \in EventIds : Record(e)

Deletions(r) ==
    \/ \E h \in Houses : CountMembers(r, h)
    \/ DeleteHouse(r)
    \/ \E e \in EventIds : CountRows(r, e)
    \/ DeleteEvent(r)

Printings(r) ==
    \/ \E e \in EventIds, h \in Houses \cup {None}, chosen \in Bodies :
          PrintForEvent(r, e, h, chosen) \/ PrintForNewEvent(r, e, h, chosen)
    \/ \E g \in Runs : Reprint(r, g) \/ CommitSheets(r, g)
    \/ \E m \in Subjects : DrawMember(r, m)
    \/ DrawRegister(r) \/ DrawSheets(r) \/ InsertSheets(r)
    \/ \E d \in Docs : Seal(r, d)

Next ==
    \/ Officers
    \/ \E r \in Requests : Deletions(r) \/ Printings(r) \/ Fail(r)

Spec == Init /\ [][Next]_vars
-----------------------------------------------------------------------------
(***************************************************************************)
(* Properties.                                                             *)
(***************************************************************************)
TypeOK ==
    /\ members \in [Members -> Member \cup {None}]
    /\ houses \subseteq Houses
    /\ events \in [EventIds -> Event \cup {None}]
    /\ gone \subseteq EventIds \cup Houses
    /\ recorded \subseteq EventIds
    /\ Printed \subseteq Runs /\ DOMAIN documents \subseteq Docs
    /\ DOMAIN requests = Requests

\* However a deletion, which counts in an old snapshot, falls between the steps
\* of an enrolment, an edit, a recording or a printing, no row is left naming an
\* event or a house that is gone: a scanned page always has a register to go
\* into.  (admin-events.ts:193-229, admin-offices.ts:286-305, generate.ts:209)
RowsKeepWhatTheyName ==
    /\ \A g \in Printed : sheets[g].event \in Held
    /\ recorded \subseteq Held
    /\ {members[m].house : m \in Enrolled} \cup {events[e].house : e \in Held}
          \cup {sheets[g].house : g \in Printed} \subseteq houses \cup {None}

\* Whatever has changed in the register since, a file an officer was sent is
\* confirmed by the public check, the details shown beside it are those it was
\* drawn from, and the pages of a sheet are stored as they were printed.
\* (issue.ts:36-81, verify.ts:43-115, generate.ts:184-249)
PaperIsOnRecord ==
    \A p \in paper :
        /\ Matches(p.doc, p.file)
        /\ Shown(p.doc) = p.file
        /\ p.run # None =>
              /\ p.run \in Printed
              /\ [event |-> sheets[p.run].event, pages |-> sheets[p.run].pages, rows |-> <<>>] = p.file
              /\ sheets[p.run].doc = p.doc

\* Whom a printing is for, when it draws its pages.
Wanted(h, chosen) ==
    {m \in Enrolled : /\ members[m].active
                      /\ h # None => members[m].house = h
                      /\ chosen # None => m \in chosen}

OnOneRowEach(pages) ==
    \A n, k \in DOMAIN pages : \A i \in DOMAIN pages[n], j \in DOMAIN pages[k] :
        pages[n][i] = pages[k][j] => n = k /\ i = j

Full(pages) ==
    \A n \in DOMAIN pages :
        IF n < Len(pages) THEN Len(pages[n]) = PageRows ELSE Len(pages[n]) \in 1..PageRows

\* The pages of a printing list everyone it is for, and nobody else: whoever is
\* enrolled, active, of its house and on its list when they are drawn has one row
\* on one of them, the last page's included, and only that page has rows to spare.
\* (generate.ts:103-183)
PagesCoverTheRoll ==
    [][\A r \in Requests : DrawSheets(r) =>
         LET pages == requests'[r].file.pages
         IN /\ Listed(pages) = Wanted(requests[r].house, requests[r].chosen)
            /\ OnOneRowEach(pages)
            /\ Full(pages)]_vars

\* A reprint is of the same event and names nobody the first printing did not,
\* whoever was enrolled, moved or made active in between.
\* (admin-omr.ts:117-148)
ReprintAddsNobody ==
    \A r \in Requests :
        requests[r] # None /\ requests[r].at = "stored" /\ requests[r].again # None =>
            LET first == sheets[requests[r].again]
            IN /\ requests[r].event = first.event
               /\ Listed(requests[r].file.pages) \subseteq Listed(first.pages)

\* The comment on the route: "the same members appear in the same order".
\* (admin-omr.ts:117-122) It is not so: the list is filtered and sorted again.
ReprintIsTheSame ==
    \A r \in Requests :
        requests[r] # None /\ requests[r].at = "stored" /\ requests[r].again # None =>
            requests[r].file.pages = sheets[requests[r].again].pages
=============================================================================

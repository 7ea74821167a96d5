--------------------------- MODULE PrintingProofs ---------------------------
(***************************************************************************)
(* Proofs about Printing, for every value of its constants: no row loses   *)
(* what it names, every file handed out is on record, the pages of a run   *)
(* hold each member of its roll once, and a reprint names nobody new.      *)
(***************************************************************************)
EXTENDS Printing, FiniteSetTheorems, TLAPS

Targets ==
    \A r \in Requests :
        /\ At(r, "house counted") => requests[r].target \in Houses
        /\ At(r, "event counted") => requests[r].target \in EventIds

\* A page waiting for its commit holds its event and its house.
Shared ==
    \A r \in Requests : At(r, "stored") =>
        /\ requests[r].event \in Held
        /\ requests[r].house \in houses \cup {None}

\* A file of sheets is the event and the pages.
SheetFile(q) == q.file = [event |-> q.event, pages |-> q.file.pages, rows |-> <<>>]

OnRecord(d, file) == Matches(d, file) /\ Shown(d) = file

Sealed ==
    \A r \in Requests :
        /\ At(r, "drawn") /\ requests[r].event # None => SheetFile(requests[r])
        /\ At(r, "sealed") \/ At(r, "stored") =>
              SheetFile(requests[r]) /\ OnRecord(requests[r].doc, requests[r].file)

PInv == TypeOK /\ Targets /\ RowsKeepWhatTheyName /\ Shared /\ Sealed /\ PaperIsOnRecord

\* What a request may go to.
Fits(q) ==
    q # None =>
        /\ q.at = "house counted" => q.target \in Houses
        /\ q.at = "event counted" => q.target \in EventIds
        /\ q.at = "stored" => q.event \in Held /\ q.house \in houses \cup {None}
        /\ q.at = "drawn" /\ q.event # None => SheetFile(q)
        /\ q.at \in {"sealed", "stored"} => SheetFile(q) /\ OnRecord(q.doc, q.file)

-----------------------------------------------------------------------------
LEMMA Going ==
    ASSUME NEW r \in Requests, NEW q, DOMAIN requests = Requests, Goes(r, q)
    PROVE  /\ requests'[r] = q
           /\ \A s \in Requests : s # r => requests'[s] = requests[s]
           /\ DOMAIN requests' = Requests
BY DEF Goes

LEMMA PrintingInit == Init => PInv
<1> SUFFICES ASSUME Init PROVE PInv
    OBVIOUS
<1> USE PrintingAssumption
<1>1. TypeOK
    BY DEF Init, TypeOK, Printed
<1>2. RowsKeepWhatTheyName
    BY DEF Init, RowsKeepWhatTheyName, Printed, Held, Enrolled
<1> QED
    BY <1>1, <1>2 DEF Init, PInv, Targets, Shared, Sealed, PaperIsOnRecord, At

\* What the officers do to the register leaves every request and file alone.
LEMMA OfficersStep == ASSUME PInv, Officers PROVE PInv'
<1> USE PrintingAssumption DEF PInv
<1>1. ASSUME NEW h \in Houses, AddHouse(h) PROVE PInv'
    <2>1. TypeOK' /\ Targets'
        BY <1>1 DEF AddHouse, TypeOK, Targets, At, Printed
    <2>2. RowsKeepWhatTheyName' /\ Shared'
        BY <1>1 DEF AddHouse, RowsKeepWhatTheyName, Shared, At, Printed, Held, Enrolled
    <2>3. Sealed' /\ PaperIsOnRecord'
        BY <1>1 DEF AddHouse, Sealed, PaperIsOnRecord, At, SheetFile, OnRecord, Matches, Shown, Printed
    <2> QED
        BY <2>1, <2>2, <2>3
<1>2. ASSUME NEW m \in Members, NEW row \in Member, row.house \in houses,
             members' = [members EXCEPT ![m] = row],
             UNCHANGED <<houses, events, gone, recorded, sheets, documents, paper, requests>>
      PROVE  PInv'
    <2>1. TypeOK' /\ Targets'
        BY <1>2 DEF TypeOK, Targets, At, Printed
    <2>2. \A n \in Enrolled' : members'[n].house \in houses \cup {None}
        BY <1>2 DEF TypeOK, Enrolled, RowsKeepWhatTheyName
    <2>3. RowsKeepWhatTheyName' /\ Shared'
        BY <1>2, <2>2 DEF RowsKeepWhatTheyName, Shared, At, Printed, Held
    <2>4. Sealed' /\ PaperIsOnRecord'
        BY <1>2 DEF Sealed, PaperIsOnRecord, At, SheetFile, OnRecord, Matches, Shown, Printed
    <2> QED
        BY <2>1, <2>3, <2>4
<1>3. ASSUME NEW m \in Members, NEW h \in Houses, EnrolMember(m, h) PROVE PInv'
    <2>1. [house |-> h, active |-> TRUE] \in Member
        BY DEF Member
    <2> QED
        BY <1>2, <1>3, <2>1 DEF EnrolMember
<1>4. ASSUME NEW m \in Members, NEW row \in Edits, EditMember(m, row) PROVE PInv'
    BY <1>2, <1>4 DEF EditMember
<1>5. ASSUME NEW e \in EventIds, Record(e) PROVE PInv'
    <2>1. TypeOK' /\ Targets'
        BY <1>5 DEF Record, TypeOK, Targets, At, Printed
    <2>2. RowsKeepWhatTheyName' /\ Shared'
        BY <1>5 DEF Record, RowsKeepWhatTheyName, Shared, At, Printed, Held, Enrolled
    <2>3. Sealed' /\ PaperIsOnRecord'
        BY <1>5 DEF Record, Sealed, PaperIsOnRecord, At, SheetFile, OnRecord, Matches, Shown, Printed
    <2> QED
        BY <2>1, <2>2, <2>3
<1> QED
    BY <1>1, <1>3, <1>4, <1>5 DEF Officers

\* A step of one request that changes nothing else.
LEMMA RequestStep ==
    ASSUME PInv, NEW r \in Requests, NEW q, Goes(r, q), Fits(q),
           UNCHANGED <<members, houses, events, gone, recorded, sheets, documents, paper>>
    PROVE  PInv'
<1>0. /\ requests'[r] = q
      /\ \A s \in Requests : s # r => requests'[s] = requests[s]
      /\ DOMAIN requests' = Requests
    BY Going DEF PInv, TypeOK
<1>1. TypeOK'
    BY <1>0 DEF PInv, TypeOK, Printed
<1>2. Targets'
    BY <1>0 DEF PInv, Targets, At, Fits
<1>3. RowsKeepWhatTheyName'
    BY DEF PInv, RowsKeepWhatTheyName, Printed, Held, Enrolled
<1>4. Shared'
    BY <1>0 DEF PInv, Shared, At, Fits, Held
<1>5. Sealed'
    BY <1>0 DEF PInv, Sealed, At, Fits, SheetFile, OnRecord, Matches, Shown
<1>6. PaperIsOnRecord'
    BY DEF PInv, PaperIsOnRecord, Matches, Shown, Printed
<1> QED
    BY <1>1, <1>2, <1>3, <1>4, <1>5, <1>6 DEF PInv

LEMMA DeletionsStep == ASSUME PInv, NEW r \in Requests, Deletions(r) PROVE PInv'
<1>1. ASSUME NEW h \in Houses, CountMembers(r, h) PROVE PInv'
    <2> DEFINE q == [at |-> "house counted", target |-> h]
    <2>1. Fits(q)
        BY DEF Fits
    <2> QED
        BY <1>1, <2>1, RequestStep DEF CountMembers
<1>2. ASSUME NEW e \in EventIds, CountRows(r, e) PROVE PInv'
    <2> DEFINE q == [at |-> "event counted", target |-> e]
    <2>1. Fits(q)
        BY DEF Fits
    <2> QED
        BY <1>2, <2>1, RequestStep DEF CountRows
<1>3. ASSUME DeleteHouse(r) PROVE PInv'
    <2> DEFINE h == requests[r].target
    <2>1. h \in Houses
        BY <1>3 DEF PInv, Targets, DeleteHouse
    <2>2. ASSUME HouseReferenced(h) PROVE PInv'
        <3>1. Fits(None)
            BY DEF Fits
        <3> QED
            BY <1>3, <2>2, <3>1, RequestStep DEF DeleteHouse, Ends
    <2>3. ASSUME ~HouseReferenced(h) PROVE PInv'
        <3>1. /\ houses' = houses \ {h}
              /\ gone' = gone \cup {h}
              /\ UNCHANGED <<members, events, recorded, sheets, documents, paper>>
              /\ ~HouseShared(h)
            BY <1>3, <2>3 DEF DeleteHouse
        <3>2. /\ requests'[r] = None
              /\ \A s \in Requests : s # r => requests'[s] = requests[s]
              /\ DOMAIN requests' = Requests
            BY <1>3, Going DEF DeleteHouse, Ends, PInv, TypeOK
        <3>3. TypeOK' /\ Targets'
            BY <2>1, <3>1, <3>2 DEF PInv, TypeOK, Targets, At, Printed
        <3>4. RowsKeepWhatTheyName'
            BY <2>3, <3>1 DEF PInv, RowsKeepWhatTheyName, HouseReferenced, Printed, Held, Enrolled
        <3>5. Shared'
            BY <3>1, <3>2 DEF PInv, Shared, HouseShared, At, Held
        <3>6. Sealed' /\ PaperIsOnRecord'
            BY <3>1, <3>2 DEF PInv, Sealed, PaperIsOnRecord, At, SheetFile, OnRecord, Matches, Shown, Printed
        <3> QED
            BY <3>3, <3>4, <3>5, <3>6 DEF PInv
    <2> QED
        BY <2>2, <2>3
<1>4. ASSUME DeleteEvent(r) PROVE PInv'
    <2> DEFINE e == requests[r].target
    <2>1. e \in EventIds
        BY <1>4 DEF PInv, Targets, DeleteEvent
    <2>2. ASSUME EventReferenced(e) PROVE PInv'
        <3>1. Fits(None)
            BY DEF Fits
        <3> QED
            BY <1>4, <2>2, <3>1, RequestStep DEF DeleteEvent, Ends
    <2>3. ASSUME ~EventReferenced(e) PROVE PInv'
        <3>1. /\ events' = [events EXCEPT ![e] = None]
              /\ gone' = gone \cup {e}
              /\ UNCHANGED <<members, houses, recorded, sheets, documents, paper>>
              /\ ~EventShared(e)
            BY <1>4, <2>3 DEF DeleteEvent
        <3>2. /\ requests'[r] = None
              /\ \A s \in Requests : s # r => requests'[s] = requests[s]
              /\ DOMAIN requests' = Requests
            BY <1>4, Going DEF DeleteEvent, Ends, PInv, TypeOK
        <3>3. Held' = Held \ {e} /\ \A f \in Held' : events'[f] = events[f]
            BY <2>1, <3>1 DEF PInv, TypeOK, Held
        <3>4. TypeOK' /\ Targets'
            BY <2>1, <3>1, <3>2 DEF PInv, TypeOK, Targets, At, Printed
        <3>5. RowsKeepWhatTheyName'
            BY <2>3, <3>1, <3>3 DEF PInv, RowsKeepWhatTheyName, EventReferenced, Printed, Enrolled
        <3>6. Shared'
            BY <3>1, <3>2, <3>3 DEF PInv, Shared, EventShared, At
        <3>7. Sealed' /\ PaperIsOnRecord'
            BY <3>1, <3>2 DEF PInv, Sealed, PaperIsOnRecord, At, SheetFile, OnRecord, Matches, Shown, Printed
        <3> QED
            BY <3>4, <3>5, <3>6, <3>7 DEF PInv
    <2> QED
        BY <2>2, <2>3
<1> QED
    BY <1>1, <1>2, <1>3, <1>4 DEF Deletions

\* The steps of a printing that change its own request only.
LEMMA ChoosingStep ==
    ASSUME PInv, NEW r \in Requests,
           \/ \E e \in EventIds, h \in Houses \cup {None}, chosen \in Bodies :
                 PrintForEvent(r, e, h, chosen)
           \/ \E g \in Runs : Reprint(r, g)
           \/ DrawSheets(r)
           \/ \E m \in Subjects : DrawMember(r, m)
           \/ DrawRegister(r)
           \/ InsertSheets(r)
           \/ Fail(r)
    PROVE  PInv'
<1>1. ASSUME NEW e \in EventIds, NEW h \in Houses \cup {None}, NEW chosen \in Bodies,
             PrintForEvent(r, e, h, chosen)
      PROVE  PInv'
    <2> DEFINE q == [at |-> "chosen", event |-> e,
                     house |-> IF h # None THEN h ELSE events[e].house,
                     chosen |-> chosen, again |-> None]
    <2>1. Fits(q)
        BY DEF Fits
    <2> QED
        BY <1>1, <2>1, RequestStep DEF PrintForEvent, Chosen
<1>2. ASSUME NEW g \in Runs, Reprint(r, g) PROVE PInv'
    <2> DEFINE q == [at |-> "chosen", event |-> sheets[g].event, house |-> sheets[g].house,
                     chosen |-> SameRoll(sheets[g].pages), again |-> g]
    <2>1. Fits(q)
        BY DEF Fits
    <2> QED
        BY <1>2, <2>1, RequestStep DEF Reprint, Chosen
<1>3. ASSUME DrawSheets(r) PROVE PInv'
    <2> DEFINE p == requests[r]
               pages == Pages(RollFor(p.house, p.chosen))
               q == [at |-> "drawn", event |-> p.event, house |-> p.house, again |-> p.again,
                     file |-> [event |-> p.event, pages |-> pages, rows |-> <<>>]]
    <2>1. Goes(r, q)
        BY <1>3 DEF DrawSheets
    <2>2. Fits(q)
        <3> HIDE DEF pages
        <3> QED
            BY DEF Fits, SheetFile
    <2> HIDE DEF q
    <2> QED
        BY <1>3, <2>1, <2>2, RequestStep DEF DrawSheets
<1>4. ASSUME NEW rows, Export(r, rows),
             UNCHANGED <<members, houses, events, gone, recorded, sheets, documents, paper>>
      PROVE  PInv'
    <2> DEFINE q == [at |-> "drawn", event |-> None, house |-> None, again |-> None,
                     file |-> [event |-> None, pages |-> <<>>, rows |-> rows]]
    <2>1. Fits(q)
        BY DEF Fits
    <2> QED
        BY <1>4, <2>1, RequestStep DEF Export
<1>5. ASSUME InsertSheets(r) PROVE PInv'
    <2> DEFINE p == requests[r]
               q == [at |-> "stored", event |-> p.event, house |-> p.house,
                     again |-> p.again, file |-> p.file, doc |-> p.doc]
    <2>1. At(r, "sealed") /\ p.event \in Held /\ p.house \in houses \cup {None} /\ Goes(r, q)
        BY <1>5 DEF InsertSheets
    <2>2. SheetFile(p) /\ OnRecord(p.doc, p.file)
        BY <2>1 DEF PInv, Sealed
    <2>3. SheetFile(q) /\ OnRecord(q.doc, q.file)
        BY <2>2 DEF SheetFile
    <2>4. Fits(q)
        BY <2>1, <2>3 DEF Fits
    <2> HIDE DEF q
    <2> QED
        BY <1>5, <2>1, <2>4, RequestStep DEF InsertSheets
<1>6. ASSUME Fail(r) PROVE PInv'
    <2>1. Fits(None)
        BY DEF Fits
    <2> QED
        BY <1>6, <2>1, RequestStep DEF Fail, Ends
<1> QED
    BY <1>1, <1>2, <1>3, <1>4, <1>5, <1>6 DEF DrawMember, DrawRegister

LEMMA NewEventStep ==
    ASSUME PInv, NEW r \in Requests, NEW e \in EventIds, NEW h \in Houses \cup {None},
           NEW chosen \in Bodies, PrintForNewEvent(r, e, h, chosen)
    PROVE  PInv'
<1> USE PrintingAssumption
<1> DEFINE q == [at |-> "chosen", event |-> e, house |-> h, chosen |-> chosen, again |-> None]
<1>1. /\ events' = [events EXCEPT ![e] = [house |-> h]]
      /\ h \in houses \cup {None}
      /\ e \notin Held
      /\ Goes(r, q)
      /\ UNCHANGED <<members, houses, gone, recorded, sheets, documents, paper>>
    BY DEF PrintForNewEvent, Chosen
<1>2. /\ requests'[r] = q
      /\ \A s \in Requests : s # r => requests'[s] = requests[s]
      /\ DOMAIN requests' = Requests
    BY <1>1, Going DEF PInv, TypeOK
<1>3. [house |-> h] \in Event
    BY DEF Event
<1>4. /\ Held' = Held \cup {e}
      /\ events'[e].house = h
      /\ \A f \in Held : events'[f] = events[f]
    BY <1>1, <1>3 DEF PInv, TypeOK, Held
<1>5. TypeOK' /\ Targets'
    <2>1. events' \in [EventIds -> Event \cup {None}]
        BY <1>1, <1>3 DEF PInv, TypeOK
    <2>2. TypeOK'
        BY <1>1, <1>2, <2>1 DEF PInv, TypeOK, Printed
    <2>3. q.at = "chosen"
        OBVIOUS
    <2>4. Targets'
        <3> HIDE DEF q
        <3> QED
            BY <1>1, <1>2, <2>3 DEF PInv, Targets, At
    <2> QED
        BY <2>2, <2>4
<1>6. RowsKeepWhatTheyName'
    BY <1>1, <1>4 DEF PInv, RowsKeepWhatTheyName, Printed, Enrolled
<1>7. Shared'
    BY <1>1, <1>2, <1>4 DEF PInv, Shared, At
<1>8. Sealed' /\ PaperIsOnRecord'
    BY <1>1, <1>2 DEF PInv, Sealed, PaperIsOnRecord, At, SheetFile, OnRecord, Matches, Shown, Printed
<1> QED
    BY <1>5, <1>6, <1>7, <1>8 DEF PInv

\* A number is used once: recording one more document leaves the others.
LEMMA SealStep ==
    ASSUME PInv, NEW r \in Requests, NEW d \in Docs, Seal(r, d)
    PROVE  PInv'
<1> DEFINE p == requests[r]
           q == [at |-> "sealed", event |-> p.event, house |-> p.house,
                 again |-> p.again, file |-> p.file, doc |-> d]
<1>1. /\ At(r, "drawn") /\ d \notin DOMAIN documents
      /\ documents' = With(documents, d, [digest |-> Digest(d, p.file), details |-> p.file])
      /\ UNCHANGED <<members, houses, events, gone, recorded, sheets>>
    BY DEF Seal, Details
<1>2. /\ DOMAIN documents' = DOMAIN documents \cup {d}
      /\ documents'[d].digest = Digest(d, p.file) /\ documents'[d].details = p.file
      /\ \A f \in DOMAIN documents : documents'[f] = documents[f]
    BY <1>1 DEF With
<1>3. \A f \in DOMAIN documents : documents'[f] = documents[f] /\ f \in DOMAIN documents'
    BY <1>2
<1>4. CASE p.event = None
    <2>1. paper' = paper \cup {[run |-> None, doc |-> d, file |-> p.file]} /\ Goes(r, None)
        BY <1>4 DEF Seal, Ends
    <2>2. /\ requests'[r] = None
          /\ \A s \in Requests : s # r => requests'[s] = requests[s]
          /\ DOMAIN requests' = Requests
        BY <2>1, Going DEF PInv, TypeOK
    <2>3. TypeOK' /\ Targets'
        BY <1>1, <1>2, <2>2 DEF PInv, TypeOK, Targets, At, Printed
    <2>4. RowsKeepWhatTheyName' /\ Shared'
        BY <1>1, <2>2 DEF PInv, RowsKeepWhatTheyName, Shared, At, Printed, Held, Enrolled
    <2>5. Sealed'
        BY <1>2, <2>2 DEF PInv, Sealed, At, SheetFile, OnRecord, Matches, Shown, Digest
    <2>6. PaperIsOnRecord'
        BY <1>1, <1>2, <2>1 DEF PInv, PaperIsOnRecord, Matches, Shown, Digest, Printed
    <2> QED
        BY <2>3, <2>4, <2>5, <2>6 DEF PInv
<1>5. CASE p.event # None
    <2>1. Goes(r, q) /\ UNCHANGED paper
        BY <1>5 DEF Seal
    <2>2. /\ requests'[r] = q
          /\ \A s \in Requests : s # r => requests'[s] = requests[s]
          /\ DOMAIN requests' = Requests
        BY <2>1, Going DEF PInv, TypeOK
    <2>3. TypeOK' /\ Targets'
        <3>1. TypeOK'
            BY <1>1, <1>2, <2>2 DEF PInv, TypeOK, Printed
        <3>2. q.at = "sealed"
            OBVIOUS
        <3>3. Targets'
            <4> HIDE DEF q
            <4> QED
                BY <2>2, <3>2 DEF PInv, Targets, At
        <3> QED
            BY <3>1, <3>3
    <2>4. RowsKeepWhatTheyName' /\ Shared'
        BY <1>1, <2>2 DEF PInv, RowsKeepWhatTheyName, Shared, At, Printed, Held, Enrolled
    <2>5. SheetFile(q)
        BY <1>1, <1>5 DEF PInv, Sealed, SheetFile
    <2>6. Sealed'
        BY <1>2, <2>2, <2>5 DEF PInv, Sealed, At, SheetFile, OnRecord, Matches, Shown, Digest
    <2>7. PaperIsOnRecord'
        BY <1>1, <1>2, <2>1 DEF PInv, PaperIsOnRecord, Matches, Shown, Digest, Printed
    <2> QED
        BY <2>3, <2>4, <2>6, <2>7 DEF PInv
<1> QED
    BY <1>4, <1>5

LEMMA CommitStep ==
    ASSUME PInv, NEW r \in Requests, NEW g \in Runs, CommitSheets(r, g)
    PROVE  PInv'
<1> DEFINE q == requests[r]
           row == [event |-> q.event, house |-> q.house, pages |-> q.file.pages, doc |-> q.doc]
<1>1. /\ At(r, "stored") /\ g \notin Printed
      /\ sheets' = With(sheets, g, row)
      /\ paper' = paper \cup {[run |-> g, doc |-> q.doc, file |-> q.file]}
      /\ Goes(r, None)
      /\ UNCHANGED <<members, houses, events, gone, recorded, documents>>
    BY DEF CommitSheets, Ends
<1>2. /\ Printed' = Printed \cup {g}
      /\ sheets'[g] = row
      /\ \A f \in Printed : sheets'[f] = sheets[f]
    BY <1>1 DEF With, Printed
<1>3. /\ requests'[r] = None
      /\ \A s \in Requests : s # r => requests'[s] = requests[s]
      /\ DOMAIN requests' = Requests
    BY <1>1, Going DEF PInv, TypeOK
<1>4. /\ q.event \in Held /\ q.house \in houses \cup {None}
      /\ SheetFile(q) /\ OnRecord(q.doc, q.file)
    BY <1>1 DEF PInv, Shared, Sealed
<1>5. TypeOK' /\ Targets'
    BY <1>1, <1>2, <1>3 DEF PInv, TypeOK, Targets, At
<1>6. RowsKeepWhatTheyName'
    BY <1>1, <1>2, <1>4 DEF PInv, RowsKeepWhatTheyName, Held, Enrolled
<1>7. Shared' /\ Sealed'
    BY <1>1, <1>3 DEF PInv, Shared, Sealed, At, Held, SheetFile, OnRecord, Matches, Shown
<1>8. PaperIsOnRecord'
    <2>1. ASSUME NEW p \in paper PROVE
             /\ Matches(p.doc, p.file)' /\ Shown(p.doc)' = p.file
             /\ p.run # None =>
                   /\ p.run \in Printed'
                   /\ [event |-> sheets'[p.run].event, pages |-> sheets'[p.run].pages,
                       rows |-> <<>>] = p.file
                   /\ sheets'[p.run].doc = p.doc
        BY <1>1, <1>2 DEF PInv, PaperIsOnRecord, Matches, Shown
    <2>2. /\ q.doc \in DOMAIN documents'
          /\ documents'[q.doc].digest = Digest(q.doc, q.file)
          /\ documents'[q.doc].details = q.file
          /\ [event |-> row.event, pages |-> row.pages, rows |-> <<>>] = q.file
          /\ row.doc = q.doc
        BY <1>1, <1>4 DEF OnRecord, Matches, Shown, SheetFile
    <2>3. g \in Printed' /\ sheets'[g] = row
        BY <1>2
    <2> HIDE DEF row
    <2>4. ASSUME NEW p, p = [run |-> g, doc |-> q.doc, file |-> q.file] PROVE
             /\ Matches(p.doc, p.file)' /\ Shown(p.doc)' = p.file
             /\ p.run \in Printed'
             /\ [event |-> sheets'[p.run].event, pages |-> sheets'[p.run].pages,
                 rows |-> <<>>] = p.file
             /\ sheets'[p.run].doc = p.doc
        BY <2>2, <2>3, <2>4 DEF Matches, Shown, Digest
    <2> QED
        BY <1>1, <2>1, <2>4 DEF PaperIsOnRecord
<1> QED
    BY <1>5, <1>6, <1>7, <1>8 DEF PInv

LEMMA PrintingStep == ASSUME PInv, [Next]_vars PROVE PInv'
<1>1. ASSUME UNCHANGED vars PROVE PInv'
    <2>1. TypeOK' /\ Targets' /\ Shared'
        BY <1>1 DEF vars, PInv, TypeOK, Targets, Shared, At, Held, Printed
    <2>2. RowsKeepWhatTheyName'
        BY <1>1 DEF vars, PInv, RowsKeepWhatTheyName, Held, Enrolled, Printed
    <2>3. Sealed'
        BY <1>1 DEF vars, PInv, Sealed, At, SheetFile, OnRecord, Matches, Shown
    <2>4. PaperIsOnRecord'
        BY <1>1 DEF vars, PInv, PaperIsOnRecord, Matches, Shown, Printed
    <2> QED
        BY <2>1, <2>2, <2>3, <2>4 DEF PInv
<1>2. ASSUME NEW r \in Requests, Printings(r) PROVE PInv'
    BY <1>2, ChoosingStep, NewEventStep, SealStep, CommitStep DEF Printings
<1>3. ASSUME NEW r \in Requests, Fail(r) PROVE PInv'
    BY <1>3, ChoosingStep
<1> QED
    BY <1>1, <1>2, <1>3, OfficersStep, DeletionsStep DEF Next

\* The inductive invariant: beside the properties, what a request in flight has
\* locked, drawn and sealed.  (generate.ts:132-249, issue.ts:36-81)
THEOREM PrintingInvariant == Spec => []PInv
<1>1. PInv /\ [Next]_vars => PInv'
    BY PrintingStep
<1> QED
    BY PrintingInit, <1>1, PTL DEF Spec

-----------------------------------------------------------------------------
(***************************************************************************)
(* The pages.  A roll is drawn from the register of its moment, so that    *)
(* what is stored is the pages of some roll, each member on it once.       *)
(***************************************************************************)
Rolled(pages) == \E roll \in Seq(Members) : IsInjective(roll) /\ pages = Pages(roll)

\* A reprint is of a run there is; its list, and then its pages, are within it.
Again(q) ==
    /\ q.again \in Printed
    /\ q.event = sheets[q.again].event
    /\ IF q.at = "chosen" THEN q.chosen = Listed(sheets[q.again].pages)
       ELSE Listed(q.file.pages) \subseteq Listed(sheets[q.again].pages)

RollFits(q) ==
    q # None =>
        /\ q.at = "drawn" /\ q.event # None => Rolled(q.file.pages)
        /\ q.at \in {"sealed", "stored"} => Rolled(q.file.pages)
        /\ q.at \in {"chosen", "drawn", "sealed", "stored"} /\ q.again # None => Again(q)

RollInv ==
    /\ \A r \in Requests : RollFits(requests[r])
    /\ \A g \in Printed : Rolled(sheets[g].pages)

LEMMA Division ==
    ASSUME NEW x \in Nat, NEW p \in Nat \ {0}
    PROVE  /\ x \div p \in Nat
           /\ (x \div p) * p <= x
           /\ x < (x \div p) * p + p
    BY Z3

\* Pages do not overlap.
LEMMA Apart ==
    ASSUME NEW p \in Nat \ {0}, NEW n \in Nat, NEW k \in Nat, n < k
    PROVE  n * p + p <= k * p
<1>1. PICK d \in Nat : k = n + 1 + d
    BY k - n - 1 \in Nat, k = n + 1 + (k - n - 1)
<1>2. k * p = n * p + p + d * p
    BY <1>1
<1>3. d * p >= 0 /\ n * p \in Nat /\ d * p \in Nat
    OBVIOUS
<1> QED BY <1>2, <1>3

\* The pages are as few as hold the roll.
LEMMA TotalOf ==
    ASSUME NEW roll \in Seq(Members)
    PROVE  /\ TotalPages(roll) \in Nat /\ TotalPages(roll) * PageRows \in Nat
           /\ Len(roll) <= TotalPages(roll) * PageRows
           /\ TotalPages(roll) * PageRows < Len(roll) + PageRows
<1> DEFINE x == Len(roll) + PageRows - 1
           t == x \div PageRows
<1>1. PageRows \in Nat \ {0} /\ Len(roll) \in Nat /\ x \in Nat
    BY PrintingAssumption
<1>2. t \in Nat /\ t * PageRows <= x /\ x < t * PageRows + PageRows
    <2> HIDE DEF x
    <2> QED
        BY <1>1, Division
<1>3. TotalPages(roll) = t
    BY DEF TotalPages
<1> HIDE DEF t
<1>4. t * PageRows \in Nat
    BY <1>1, <1>2
<1> QED
    BY <1>1, <1>2, <1>3, <1>4

\* What a page holds: its share of the roll, in the order of the roll.
LEMMA PageOf ==
    ASSUME NEW roll \in Seq(Members), NEW n \in 1..TotalPages(roll)
    PROVE  /\ DOMAIN Page(roll, n) =
                 {i \in 1..PageRows : (n - 1) * PageRows + i <= Len(roll)}
           /\ \A i \in DOMAIN Page(roll, n) :
                 Page(roll, n)[i] = roll[(n - 1) * PageRows + i]
           /\ Len(Page(roll, n)) \in 1..PageRows
           /\ n < TotalPages(roll) => Len(Page(roll, n)) = PageRows
<1> DEFINE t == TotalPages(roll)
           p == PageRows
           a == (n - 1) * p
           last == IF n * p <= Len(roll) THEN n * p ELSE Len(roll)
<1>1. /\ p \in Nat \ {0} /\ Len(roll) \in Nat /\ t \in Nat /\ n \in Nat \ {0} /\ n <= t
      /\ t * p \in Nat /\ Len(roll) <= t * p /\ t * p < Len(roll) + p
    BY TotalOf, PrintingAssumption
<1> HIDE DEF t, p
<1>2. n * p = a + p /\ a \in Nat /\ n * p \in Nat
    BY <1>1
<1>3. n < t => n * p <= Len(roll)
    <2>1. ASSUME n < t PROVE n * p + p <= t * p
        BY <1>1, <2>1, Apart
    <2> HIDE DEF a
    <2> QED
        BY <1>1, <1>2, <2>1
<1>4. a < Len(roll)
    <2>1. n = t \/ n < t
        BY <1>1
    <2> HIDE DEF a
    <2> QED
        BY <1>1, <1>2, <1>3, <2>1
<1>5. Page(roll, n) = SubSeq(roll, a + 1, last)
    BY DEF Page, p
<1> HIDE DEF a
<1>6. last \in a + 1..Len(roll) /\ last <= a + p /\ last - a \in 1..p
    BY <1>1, <1>2, <1>4
<1>7. \A i \in 1..p : i <= last - a <=> a + i <= Len(roll)
    BY <1>1, <1>2
<1>8. n < t => last - a = p
    BY <1>1, <1>2, <1>3
<1> HIDE DEF last
<1>9. /\ Page(roll, n) = [i \in 1..(last - a) |-> roll[i + a]]
      /\ Len(Page(roll, n)) = last - a
    BY <1>1, <1>2, <1>5, <1>6
<1>10. \A i \in 1..(last - a) : i + a = a + i
    BY <1>1, <1>2, <1>6
<1>11. DOMAIN Page(roll, n) = {i \in 1..p : a + i <= Len(roll)}
    <2>1. last - a \in Nat /\ DOMAIN Page(roll, n) = 1..(last - a)
        BY <1>6, <1>9
    <2>2. \A i \in 1..(last - a) : i \in 1..p
        BY <1>1, <1>6
    <2> QED
        BY <1>1, <1>6, <1>7, <2>1, <2>2
<1> QED
    BY <1>6, <1>8, <1>9, <1>10, <1>11 DEF t, p, a

\* The pages of a roll that names nobody twice.
LEMMA PagesOf ==
    ASSUME NEW roll \in Seq(Members), IsInjective(roll)
    PROVE  LET pages == Pages(roll)
           IN /\ \A n, k \in DOMAIN pages : \A i \in DOMAIN pages[n], j \in DOMAIN pages[k] :
                    pages[n][i] = pages[k][j] => n = k /\ i = j
              /\ \A n \in DOMAIN pages :
                    IF n < Len(pages) THEN Len(pages[n]) = PageRows
                    ELSE Len(pages[n]) \in 1..PageRows
<1> DEFINE t == TotalPages(roll)
           p == PageRows
           pages == Pages(roll)
<1>1. p \in Nat \ {0} /\ t \in Nat /\ Len(roll) \in Nat
    BY TotalOf, PrintingAssumption
<1>2. DOMAIN pages = 1..t /\ Len(pages) = t /\ \A n \in 1..t : pages[n] = Page(roll, n)
    BY <1>1 DEF Pages
<1>3. ASSUME NEW n \in 1..t, NEW k \in 1..t,
             NEW i \in DOMAIN pages[n], NEW j \in DOMAIN pages[k], pages[n][i] = pages[k][j]
      PROVE  n = k /\ i = j
    <2> DEFINE a == (n - 1) * p
               b == (k - 1) * p
    <2>1. /\ i \in 1..p /\ a + i <= Len(roll) /\ pages[n][i] = roll[a + i]
          /\ j \in 1..p /\ b + j <= Len(roll) /\ pages[k][j] = roll[b + j]
        BY <1>2, PageOf
    <2>2. a \in Nat /\ b \in Nat
        BY <1>1
    <2>3. n - 1 < k - 1 => a + p <= b
        BY <1>1, Apart
    <2>4. k - 1 < n - 1 => b + p <= a
        BY <1>1, Apart
    <2>5. n = k => a = b
        OBVIOUS
    <2> HIDE DEF a, b, t, p, pages
    <2>6. a + i \in DOMAIN roll /\ b + j \in DOMAIN roll
        BY <1>1, <2>1, <2>2
    <2>7. a + i = b + j
        BY <1>3, <2>1, <2>6 DEF IsInjective
    <2> QED
        BY <1>1, <2>1, <2>2, <2>3, <2>4, <2>5, <2>7
<1>4. ASSUME NEW n \in 1..t
      PROVE  IF n < Len(pages) THEN Len(pages[n]) = PageRows ELSE Len(pages[n]) \in 1..PageRows
    BY <1>2, PageOf
<1> HIDE DEF pages, t
<1> QED
    BY <1>2, <1>3, <1>4 DEF pages

\* Whoever is on the roll is on a page, and nobody else.
LEMMA ListedOf ==
    ASSUME NEW roll \in Seq(Members)
    PROVE  Listed(Pages(roll)) = ToSet(roll)
<1> DEFINE t == TotalPages(roll)
           p == PageRows
           pages == Pages(roll)
<1>1. /\ p \in Nat \ {0} /\ t \in Nat /\ Len(roll) \in Nat
      /\ t * p \in Nat /\ Len(roll) <= t * p
    BY TotalOf, PrintingAssumption
<1>2. DOMAIN pages = 1..t /\ \A n \in 1..t : pages[n] = Page(roll, n)
    BY <1>1 DEF Pages
<1>3. ASSUME NEW m \in Listed(pages) PROVE m \in ToSet(roll)
    <2>1. PICK n \in 1..t : m \in ToSet(pages[n])
        BY <1>2, <1>3 DEF Listed
    <2>2. PICK i \in DOMAIN Page(roll, n) : m = Page(roll, n)[i]
        BY <1>2, <2>1 DEF ToSet
    <2> DEFINE a == (n - 1) * p
    <2>3. i \in 1..p /\ a + i <= Len(roll) /\ m = roll[a + i]
        BY <2>2, PageOf
    <2>4. a \in Nat
        BY <1>1
    <2> HIDE DEF a, t, p
    <2>5. a + i \in DOMAIN roll
        BY <1>1, <2>3, <2>4
    <2> QED
        BY <2>3, <2>5 DEF ToSet
<1>4. ASSUME NEW m \in ToSet(roll) PROVE m \in Listed(pages)
    <2>1. PICK x \in 1..Len(roll) : m = roll[x]
        BY <1>4 DEF ToSet
    <2> DEFINE y == (x - 1) \div p
    <2>2. x - 1 \in Nat /\ x <= Len(roll)
        BY <1>1
    <2>3. y \in Nat /\ y * p <= x - 1 /\ x - 1 < y * p + p
        BY <1>1, <2>2, Division
    <2> HIDE DEF y
    <2>4. y < t
        <3>1. y * p \in Nat
            BY <1>1, <2>3
        <3>2. t < y => t * p + p <= y * p
            BY <1>1, <2>3, Apart
        <3>3. t = y => t * p = y * p
            OBVIOUS
        <3> HIDE DEF t, p
        <3> QED
            BY <1>1, <2>2, <2>3, <3>1, <3>2, <3>3
    <2> DEFINE n == y + 1
               i == x - y * p
    <2>5. n \in 1..t /\ n - 1 = y
        BY <1>1, <2>3, <2>4
    <2>6. i \in 1..p /\ y * p + i = x
        <3>1. y * p \in Nat
            BY <1>1, <2>3
        <3> HIDE DEF p
        <3> QED
            BY <1>1, <2>2, <2>3, <3>1
    <2> HIDE DEF n, i
    <2>7. i \in DOMAIN Page(roll, n) /\ Page(roll, n)[i] = roll[x]
        BY <2>2, <2>5, <2>6, PageOf
    <2>8. m \in ToSet(pages[n])
        BY <1>2, <2>1, <2>5, <2>7 DEF ToSet
    <2> HIDE DEF t, pages
    <2> QED
        BY <1>2, <2>5, <2>8 DEF Listed
<1> QED
    BY <1>3, <1>4
\* The roll of a set of members that are in an order: each of them once.
LEMMA RollOf ==
    ASSUME TypeOK, NEW h, NEW chosen
    PROVE  LET listed == {m \in Enrolled : /\ members[m].active
                                           /\ h # None => members[m].house = h
                                           /\ chosen # None => m \in chosen}
           IN /\ RollFor(h, chosen) \in Seq(Members)
              /\ IsInjective(RollFor(h, chosen))
              /\ ToSet(RollFor(h, chosen)) = listed
<1> DEFINE listed == {m \in Enrolled : /\ members[m].active
                                       /\ h # None => members[m].house = h
                                       /\ chosen # None => m \in chosen}
           Before(m, n) == \/ members[m].house < members[n].house
                           \/ members[m].house = members[n].house /\ m < n
           Earlier(m) == {n \in listed : Before(n, m)}
           size == Cardinality(listed)
           rank == [m \in listed |-> Cardinality(Earlier(m)) + 1]
           roll == [i \in 1..size |-> CHOOSE m \in listed : Cardinality(Earlier(m)) = i - 1]
<1>1. listed \subseteq Members /\ \A m \in listed : m \in Nat /\ members[m].house \in Nat
    BY PrintingAssumption DEF Enrolled, TypeOK, Member
<1>2. IsFiniteSet(listed) /\ size \in Nat
    BY <1>1, PrintingAssumption, FS_Subset, FS_CardinalityType
<1>3. ASSUME NEW m \in listed
      PROVE  /\ IsFiniteSet(Earlier(m)) /\ Cardinality(Earlier(m)) \in Nat
             /\ Cardinality(Earlier(m)) < size
    <2>1. Earlier(m) \subseteq listed /\ m \notin Earlier(m)
        BY <1>1
    <2> HIDE DEF Earlier, listed
    <2> QED
        BY <1>2, <2>1, FS_Subset, FS_CardinalityType
<1>4. ASSUME NEW m \in listed, NEW n \in listed, m # n
      PROVE  Cardinality(Earlier(m)) # Cardinality(Earlier(n))
    <2>1. ASSUME NEW a \in listed, NEW b \in listed, Before(a, b)
          PROVE  Cardinality(Earlier(a)) # Cardinality(Earlier(b))
        <3>1. Earlier(a) \subseteq Earlier(b) /\ a \in Earlier(b) /\ a \notin Earlier(a)
            BY <1>1, <2>1
        <3>2. IsFiniteSet(Earlier(b))
            BY <1>3
        <3> HIDE DEF Earlier, listed
        <3> QED
            BY <3>1, <3>2, FS_Subset
    <2>2. Before(m, n) \/ Before(n, m)
        BY <1>1, <1>4
    <2> HIDE DEF Before, Earlier, listed
    <2> QED
        BY <2>1, <2>2
<1>5. rank \in Injection(listed, 1..size)
    <2> HIDE DEF Earlier, listed, size
    <2>1. rank \in [listed -> 1..size]
        BY <1>2, <1>3
    <2>2. \A m, n \in listed : rank[m] = rank[n] => m = n
        BY <1>3, <1>4
    <2> QED
        BY <2>1, <2>2 DEF Injection, IsInjective
<1>6. \A i \in 1..size : \E m \in listed : rank[m] = i
    <2>1. IsFiniteSet(1..size) /\ Cardinality(1..size) = size
        BY <1>2, FS_Interval
    <2>2. rank \in Surjection(listed, 1..size)
        BY <1>5, <2>1, FS_Injection
    <2> QED
        BY <2>2 DEF Surjection
<1>7. \A i \in 1..size : roll[i] \in listed /\ Cardinality(Earlier(roll[i])) = i - 1
    <2> SUFFICES ASSUME NEW i \in 1..size
                 PROVE  roll[i] \in listed /\ Cardinality(Earlier(roll[i])) = i - 1
        OBVIOUS
    <2>1. \E m \in listed : Cardinality(Earlier(m)) = i - 1
        <3> HIDE DEF Earlier, listed, size
        <3>1. PICK m \in listed : Cardinality(Earlier(m)) + 1 = i
            BY <1>6
        <3> QED
            BY <1>2, <1>3, <3>1
    <2> HIDE DEF Earlier, listed, size
    <2> QED
        BY <2>1
<1>8. \A m \in listed : \E i \in 1..size : roll[i] = m
    <2> SUFFICES ASSUME NEW m \in listed PROVE \E i \in 1..size : roll[i] = m
        OBVIOUS
    <2>1. Cardinality(Earlier(m)) + 1 \in 1..size
        <3> HIDE DEF Earlier, listed, size
        <3> QED
            BY <1>2, <1>3
    <2>2. Cardinality(Earlier(roll[Cardinality(Earlier(m)) + 1])) = Cardinality(Earlier(m))
            /\ roll[Cardinality(Earlier(m)) + 1] \in listed
        <3> HIDE DEF Earlier, listed, size, roll
        <3> QED
            BY <1>2, <1>3, <1>7, <2>1
    <2> HIDE DEF Earlier, listed, size, roll
    <2> QED
        BY <1>4, <2>1, <2>2
<1>9. roll \in Seq(Members) /\ IsInjective(roll) /\ ToSet(roll) = listed
    <2>1. roll \in Seq(listed)
        <3> HIDE DEF Earlier, listed, size
        <3> QED
            BY <1>2, <1>7
    <2>2. DOMAIN roll = 1..size
        OBVIOUS
    <2>3. IsInjective(roll)
        <3> SUFFICES ASSUME NEW i \in 1..size, NEW j \in 1..size, roll[i] = roll[j] PROVE i = j
            BY <2>2 DEF IsInjective
        <3>1. Cardinality(Earlier(roll[i])) = i - 1 /\ Cardinality(Earlier(roll[j])) = j - 1
            BY <1>7
        <3> HIDE DEF Earlier, listed, size, roll
        <3> QED
            BY <1>2, <3>1
    <2> HIDE DEF Earlier, listed, size, roll
    <2>4. ToSet(roll) = listed
        BY <1>7, <1>8, <2>2 DEF ToSet
    <2>5. roll \in Seq(Members)
        BY <1>1, <2>1
    <2> QED
        BY <2>3, <2>4, <2>5
<1>10. RollFor(h, chosen) = roll
    BY DEF RollFor
<1> HIDE DEF roll
<1> QED
    BY <1>9, <1>10

\* Pages name members.
LEMMA RolledNames ==
    ASSUME NEW pages, Rolled(pages)
    PROVE  Listed(pages) \subseteq Members /\ Listed(pages) # None
<1>1. PICK roll \in Seq(Members) : pages = Pages(roll)
    BY DEF Rolled
<1>2. Listed(pages) = ToSet(roll)
    BY <1>1, ListedOf
<1>3. ToSet(roll) \subseteq Members
    BY DEF ToSet
<1> QED
    BY <1>2, <1>3, PrintingAssumption

\* A step of a request that stores no pages.
LEMMA RollGoes ==
    ASSUME TypeOK, RollInv, NEW r \in Requests, NEW q, Goes(r, q), RollFits(q), UNCHANGED sheets
    PROVE  RollInv'
<1>1. /\ requests'[r] = q
      /\ \A s \in Requests : s # r => requests'[s] = requests[s]
    BY Going DEF TypeOK
<1>2. \A s \in Requests : RollFits(requests'[s])
    BY <1>1 DEF RollInv
<1>3. \A s \in Requests : RollFits(requests[s])'
    BY <1>2 DEF RollFits, Again, Printed
<1> QED
    BY <1>3 DEF RollInv, Printed

LEMMA RollEnds ==
    ASSUME TypeOK, RollInv, NEW r \in Requests, Ends(r), UNCHANGED sheets
    PROVE  RollInv'
<1>1. RollFits(None)
    BY DEF RollFits
<1> QED
    BY <1>1, RollGoes DEF Ends

LEMMA RollDeletions ==
    ASSUME TypeOK, RollInv, NEW r \in Requests, Deletions(r)
    PROVE  RollInv'
<1>1. ASSUME NEW h \in Houses, CountMembers(r, h) PROVE RollInv'
    <2> DEFINE q == [at |-> "house counted", target |-> h]
    <2>1. RollFits(q)
        BY DEF RollFits
    <2> QED
        BY <1>1, <2>1, RollGoes DEF CountMembers
<1>2. ASSUME NEW e \in EventIds, CountRows(r, e) PROVE RollInv'
    <2> DEFINE q == [at |-> "event counted", target |-> e]
    <2>1. RollFits(q)
        BY DEF RollFits
    <2> QED
        BY <1>2, <2>1, RollGoes DEF CountRows
<1> QED
    BY <1>1, <1>2, RollEnds DEF Deletions, DeleteHouse, DeleteEvent

LEMMA RollChosen ==
    ASSUME TypeOK, RollInv, NEW r \in Requests,
           \/ \E e \in EventIds, h \in Houses \cup {None}, chosen \in Bodies :
                 PrintForEvent(r, e, h, chosen) \/ PrintForNewEvent(r, e, h, chosen)
           \/ \E g \in Runs : Reprint(r, g)
           \/ \E m \in Subjects : DrawMember(r, m)
           \/ DrawRegister(r)
    PROVE  RollInv'
<1>1. ASSUME NEW e, NEW h, NEW chosen, Chosen(r, e, h, chosen, None), UNCHANGED sheets
      PROVE  RollInv'
    <2> DEFINE q == [at |-> "chosen", event |-> e, house |-> h, chosen |-> chosen, again |-> None]
    <2>1. RollFits(q)
        BY DEF RollFits
    <2> QED
        BY <1>1, <2>1, RollGoes DEF Chosen
<1>2. ASSUME NEW g \in Runs, Reprint(r, g) PROVE RollInv'
    <2> DEFINE q == [at |-> "chosen", event |-> sheets[g].event, house |-> sheets[g].house,
                     chosen |-> SameRoll(sheets[g].pages), again |-> g]
    <2>1. RollFits(q)
        BY <1>2 DEF RollFits, Again, Reprint, SameRoll
    <2> QED
        BY <1>2, <2>1, RollGoes DEF Reprint, Chosen
<1>3. ASSUME NEW rows, Export(r, rows), UNCHANGED sheets PROVE RollInv'
    <2> DEFINE q == [at |-> "drawn", event |-> None, house |-> None, again |-> None,
                     file |-> [event |-> None, pages |-> <<>>, rows |-> rows]]
    <2>1. RollFits(q)
        BY DEF RollFits
    <2> QED
        BY <1>3, <2>1, RollGoes DEF Export
<1> QED
    BY <1>1, <1>2, <1>3 DEF PrintForEvent, PrintForNewEvent, DrawMember, DrawRegister

\* A roll for a list has nobody who is not on the list.
LEMMA RollDrawn ==
    ASSUME TypeOK, RollInv, NEW r \in Requests, DrawSheets(r)
    PROVE  RollInv'
<1>1. PICK p : p = requests[r]
    OBVIOUS
<1>2. PICK roll : roll = RollFor(p.house, p.chosen)
    OBVIOUS
<1>3. PICK pages : pages = Pages(roll)
    OBVIOUS
<1> DEFINE q == [at |-> "drawn", event |-> p.event, house |-> p.house, again |-> p.again,
                 file |-> [event |-> p.event, pages |-> pages, rows |-> <<>>]]
<1>4. At(r, "chosen") /\ Goes(r, q) /\ UNCHANGED sheets
    BY <1>1, <1>2, <1>3 DEF DrawSheets
<1>5. /\ roll \in Seq(Members) /\ IsInjective(roll)
      /\ p.chosen # None => ToSet(roll) \subseteq p.chosen
    <2> DEFINE listed == {m \in Enrolled : /\ members[m].active
                                           /\ p.house # None => members[m].house = p.house
                                           /\ p.chosen # None => m \in p.chosen}
    <2>1. roll \in Seq(Members) /\ IsInjective(roll) /\ ToSet(roll) = listed
        BY <1>2, RollOf
    <2>2. p.chosen # None => listed \subseteq p.chosen
        OBVIOUS
    <2> QED
        BY <2>1, <2>2
<1>6. Rolled(pages) /\ Listed(pages) = ToSet(roll)
    BY <1>3, <1>5, ListedOf DEF Rolled
<1>7. ASSUME p.again # None
      PROVE  /\ p.again \in Printed /\ p.event = sheets[p.again].event
             /\ Listed(pages) \subseteq Listed(sheets[p.again].pages)
    <2>1. Again(p) /\ p.at = "chosen"
        BY <1>1, <1>4, <1>7 DEF RollInv, RollFits, At
    <2>2. /\ p.again \in Printed /\ p.event = sheets[p.again].event
          /\ p.chosen = Listed(sheets[p.again].pages)
        BY <2>1 DEF Again
    <2>3. p.chosen # None
        BY <2>2, RolledNames DEF RollInv
    <2> QED
        BY <1>5, <1>6, <2>2, <2>3
<1>8. RollFits(q)
    BY <1>6, <1>7 DEF RollFits, Again
<1> HIDE DEF q
<1> QED
    BY <1>4, <1>8, RollGoes

\* Sealing and inserting hand the pages on.
LEMMA RollHanded ==
    ASSUME TypeOK, RollInv, NEW r \in Requests,
           InsertSheets(r) \/ \E d \in Docs : Seal(r, d)
    PROVE  RollInv'
<1>1. PICK p : p = requests[r]
    OBVIOUS
<1>2. ASSUME p # None, p.at \in {"drawn", "sealed"}, p.at = "drawn" => p.event # None,
             NEW at \in {"sealed", "stored"}, NEW d, UNCHANGED sheets,
             Goes(r, [at |-> at, event |-> p.event, house |-> p.house,
                      again |-> p.again, file |-> p.file, doc |-> d])
      PROVE  RollInv'
    <2> DEFINE q == [at |-> at, event |-> p.event, house |-> p.house,
                     again |-> p.again, file |-> p.file, doc |-> d]
    <2>1. RollFits(p)
        BY <1>1 DEF RollInv
    <2>2. Rolled(p.file.pages) /\ (p.again # None => Again(p))
        BY <1>2, <2>1 DEF RollFits
    <2>3. p.again # None => Again(q)
        BY <1>2, <2>2 DEF Again
    <2>4. RollFits(q)
        BY <1>2, <2>2, <2>3 DEF RollFits
    <2> HIDE DEF q
    <2>5. Goes(r, q)
        BY <1>2 DEF q
    <2> QED
        BY <1>2, <2>4, <2>5, RollGoes
<1>3. ASSUME InsertSheets(r) PROVE RollInv'
    BY <1>1, <1>2, <1>3 DEF InsertSheets, At
<1>4. ASSUME NEW d \in Docs, Seal(r, d) PROVE RollInv'
    <2>1. CASE p.event = None
        BY <1>1, <1>4, <2>1, RollEnds DEF Seal
    <2>2. CASE p.event # None
        BY <1>1, <1>2, <1>4, <2>2 DEF Seal, At
    <2> QED
        BY <2>1, <2>2
<1> QED
    BY <1>3, <1>4

\* A run has an id of its own: the runs there are stay as they are.
LEMMA RollCommitted ==
    ASSUME TypeOK, RollInv, NEW r \in Requests, NEW g \in Runs, CommitSheets(r, g)
    PROVE  RollInv'
<1>1. PICK q : q = requests[r]
    OBVIOUS
<1>2. /\ q # None /\ q.at = "stored" /\ g \notin Printed
      /\ sheets' = With(sheets, g,
             [event |-> q.event, house |-> q.house, pages |-> q.file.pages, doc |-> q.doc])
      /\ Goes(r, None)
    BY <1>1 DEF CommitSheets, Ends, At
<1>3. /\ Printed' = Printed \cup {g}
      /\ sheets'[g].pages = q.file.pages
      /\ \A f \in Printed : sheets'[f] = sheets[f]
    BY <1>2 DEF With, Printed
<1>4. Rolled(q.file.pages)
    BY <1>1, <1>2 DEF RollInv, RollFits
<1>5. /\ requests'[r] = None
      /\ \A s \in Requests : s # r => requests'[s] = requests[s]
    BY <1>2, Going DEF TypeOK
<1>6. ASSUME NEW s \in Requests PROVE RollFits(requests[s])'
    <2>1. CASE s = r
        BY <1>5, <2>1 DEF RollFits
    <2>2. CASE s # r
        <3>1. RollFits(requests[s]) /\ requests'[s] = requests[s]
            BY <1>5, <2>2 DEF RollInv
        <3> QED
            BY <1>3, <3>1 DEF RollFits, Again
    <2> QED
        BY <2>1, <2>2
<1> QED
    BY <1>3, <1>4, <1>6 DEF RollInv

LEMMA RollStep == ASSUME TypeOK, RollInv, [Next]_vars PROVE RollInv'
<1>1. ASSUME UNCHANGED <<sheets, requests>> PROVE RollInv'
    BY <1>1 DEF RollInv, RollFits, Again, Printed
<1>2. ASSUME Officers PROVE RollInv'
    BY <1>1, <1>2 DEF Officers, AddHouse, EnrolMember, EditMember, Record
<1>3. ASSUME NEW r \in Requests, Printings(r) PROVE RollInv'
    BY <1>3, RollChosen, RollDrawn, RollHanded, RollCommitted DEF Printings
<1>4. ASSUME NEW r \in Requests, Fail(r) PROVE RollInv'
    BY <1>4, RollEnds DEF Fail
<1> QED
    BY <1>1, <1>2, <1>3, <1>4, RollDeletions DEF Next, vars

\* Whatever happens to the register between the drawing and the storing, what is
\* stored are the pages of a roll.  (generate.ts:103-183)
THEOREM RollsInvariant == Spec => []RollInv
<1>1. Init => RollInv
    BY DEF Init, RollInv, RollFits, Printed
<1>2. PInv => TypeOK
    BY DEF PInv
<1>3. TypeOK /\ RollInv /\ [Next]_vars => RollInv'
    BY RollStep
<1> QED
    BY PrintingInvariant, <1>1, <1>2, <1>3, PTL DEF Spec

\* No row is left naming an event or a house that a deletion took away, whatever
\* was counted when.  (admin-events.ts:193-229, admin-offices.ts:286-305)
THEOREM NothingDangles == Spec => []RowsKeepWhatTheyName
<1>1. PInv => RowsKeepWhatTheyName
    BY DEF PInv
<1> QED
    BY PrintingInvariant, <1>1, PTL

\* Every file handed out is confirmed by the public check and stored as printed.
\* (issue.ts:36-81, verify.ts:43-115)
THEOREM PaperIsConfirmed == Spec => []PaperIsOnRecord
<1>1. PInv => PaperIsOnRecord
    BY DEF PInv
<1> QED
    BY PrintingInvariant, <1>1, PTL

\* The pages of a printing list whoever is active, of the house asked for and on
\* the list asked for: nobody is left out at the end of a page, and nobody added.
\* (generate.ts:103-183)
THEOREM NobodyIsLeftOut ==
    ASSUME TypeOK, NEW h, NEW chosen
    PROVE  Listed(Pages(RollFor(h, chosen))) = Wanted(h, chosen)
BY RollOf, ListedOf DEF Wanted

\* Everyone a printing is for is on one row of it and nobody else is, and only its
\* last page has rows to spare, for whatever number of rows to a page and whatever
\* the register is when it is drawn.  (generate.ts:103-183)
THEOREM PagesHoldEachOnce == Spec => PagesCoverTheRoll
<1>1. ASSUME TypeOK, NEW r \in Requests, DrawSheets(r)
      PROVE  LET pages == requests'[r].file.pages
             IN /\ Listed(pages) = Wanted(requests[r].house, requests[r].chosen)
                /\ OnOneRowEach(pages)
                /\ Full(pages)
    <2>1. PICK roll : roll = RollFor(requests[r].house, requests[r].chosen)
        OBVIOUS
    <2>2. requests'[r].file.pages = Pages(roll)
        BY <1>1, <2>1 DEF DrawSheets, Goes, TypeOK
    <2>3. /\ roll \in Seq(Members) /\ IsInjective(roll)
          /\ ToSet(roll) = Wanted(requests[r].house, requests[r].chosen)
        BY <1>1, <2>1, RollOf DEF Wanted
    <2>4. Listed(Pages(roll)) = Wanted(requests[r].house, requests[r].chosen)
        BY <2>3, ListedOf
    <2>5. OnOneRowEach(Pages(roll)) /\ Full(Pages(roll))
        BY <2>3, PagesOf DEF OnOneRowEach, Full
    <2> QED
        BY <2>2, <2>4, <2>5
<1>2. TypeOK /\ [Next]_vars =>
        [\A r \in Requests : DrawSheets(r) =>
            LET pages == requests'[r].file.pages
            IN /\ Listed(pages) = Wanted(requests[r].house, requests[r].chosen)
               /\ OnOneRowEach(pages)
               /\ Full(pages)]_vars
    BY <1>1
<1>3. PInv => TypeOK
    BY DEF PInv
<1> QED
    BY PrintingInvariant, <1>2, <1>3, PTL DEF Spec, PagesCoverTheRoll

\* A reprint is of the same event and names nobody the first printing did not.
\* (admin-omr.ts:117-148)
THEOREM ReprintsAddNobody == Spec => []ReprintAddsNobody
<1>1. RollInv => ReprintAddsNobody
    BY DEF RollInv, RollFits, Again, ReprintAddsNobody
<1> QED
    BY RollsInvariant, <1>1, PTL
=============================================================================

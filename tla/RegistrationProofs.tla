------------------------- MODULE RegistrationProofs -------------------------
(***************************************************************************)
(* Proofs about Registration, for every value of its constants: any number *)
(* of registrations, accounts, addresses, codes and requests under way.    *)
(***************************************************************************)
EXTENDS Registration, TLAPS

\* A code of a registration goes to the address of its draft.
Aimed(row) ==
    row.purpose = "signup" =>
      /\ row.subject \in Drafts
      /\ drafts[row.subject] # None
      /\ drafts[row.subject].email = row.address

\* Each comparison with a code is an attempt counted or the code consumed.
Counted(n) ==
    /\ compared[n] = codes[n].attempts + passed[n]
    /\ passed[n] \in {0, 1}
    /\ passed[n] = 1 => ~ codes[n].open
    /\ compared[n] <= MaxAttempts

CodesSound ==
    \A n \in Codes :
        /\ codes[n] = None => compared[n] = 0 /\ passed[n] = 0
        /\ codes[n] # None => n <= issued /\ Counted(n) /\ Aimed(codes[n])

\* A number is taken before the row is written, and by one request.
Numbered(r) == At(r, "consume") \/ At(r, "insert_code")

NumberReserved(r) ==
    Numbered(r) => /\ requests[r].code <= issued
                   /\ codes[requests[r].code] = None
                   /\ requests[r].row.open /\ requests[r].row.attempts = 0
                   /\ Aimed(requests[r].row)

NumberedByOne ==
    \A r, q \in Requests :
        Numbered(r) /\ Numbered(q) /\ requests[r].code = requests[q].code => r = q

LocksCode(r, n) == \/ At(r, "compare") /\ requests[r].code = n
                   \/ At(r, "insert_code") /\ n \in requests[r].rows

\* What a request has read of a code is there ...
CodeAsRead(r) ==
    /\ At(r, "insert_code") => \A n \in requests[r].rows : codes[n] # None
    /\ At(r, "lock_code") => codes[requests[r].code] # None
    /\ At(r, "compare") => /\ codes[requests[r].code] # None
                           /\ requests[r].row = codes[requests[r].code]

\* ... and under a lock nobody else changes it.
CodeLocksExclude ==
    \A r, q \in Requests, n \in Codes : LocksCode(r, n) /\ LocksCode(q, n) => r = q

CodesInv ==
    /\ CodesSound
    /\ \A r \in Requests : NumberReserved(r) /\ CodeAsRead(r)
    /\ NumberedByOne
    /\ CodeLocksExclude

\* A draft made a member when it was promoted, and was verified by a code to its address.
DraftsSound ==
    \A d \in Drafts :
        /\ drafts[d] = None => joined[d] = 0
        /\ drafts[d] # None =>
             /\ drafts[d].promoted \in BOOLEAN
             /\ joined[d] = IF drafts[d].promoted THEN 1 ELSE 0
             /\ drafts[d].verified => <<d, drafts[d].email>> \in proved

LocksDraft(r, d) == \/ At(r, "join") /\ requests[r].draft = d
                    \/ At(r, "insert_draft") /\ d \in requests[r].expiring

\* What a request has read of a draft is still so ...
DraftAsRead(r) ==
    /\ At(r, "insert_draft") => /\ drafts[requests[r].draft] = None
                                /\ \A d \in requests[r].expiring : drafts[d] # None
    /\ At(r, "save") => drafts[requests[r].draft] # None
    /\ At(r, "lock_draft") \/ At(r, "join") => /\ drafts[requests[r].draft] # None
                                              /\ drafts[requests[r].draft].verified
    /\ At(r, "join") => ~ drafts[requests[r].draft].promoted

\* ... no two requests start one registration, and under a lock nobody else writes.
StartedByOne ==
    \A r, q \in Requests :
        /\ At(r, "insert_draft") /\ At(q, "insert_draft")
        /\ requests[r].draft = requests[q].draft
        => r = q

DraftLocksExclude ==
    \A r, q \in Requests, d \in Drafts : LocksDraft(r, d) /\ LocksDraft(q, d) => r = q

DraftsInv ==
    /\ DraftsSound
    /\ \A r \in Requests : DraftAsRead(r)
    /\ StartedByOne
    /\ DraftLocksExclude

\* No draft goes away or changes its address.
AddressesStay ==
    \A d \in Drafts : drafts[d] # None =>
        drafts'[d] # None /\ drafts'[d].email = drafts[d].email

RegistrationInv == TypeOK /\ CodesInv /\ DraftsInv /\ EmailsAreProved /\ OneAccountPerAddress

-----------------------------------------------------------------------------
\* What a request carries at each of its steps.
LEMMA RequestFields ==
    ASSUME TypeOK, NEW r \in Requests
    PROVE  /\ At(r, "insert_draft") =>
                /\ requests[r].draft \in Drafts /\ requests[r].email \in Addresses
                /\ requests[r].taken \in BOOLEAN /\ requests[r].expiring \in SUBSET Drafts
           /\ At(r, "consume") => requests[r].code \in Codes /\ requests[r].row \in Code
           /\ At(r, "insert_code") => /\ requests[r].code \in Codes
                                      /\ requests[r].row \in Code
                                      /\ requests[r].rows \in SUBSET Codes
           /\ At(r, "lock_code") => requests[r].code \in Codes
           /\ At(r, "compare") => requests[r].code \in Codes /\ requests[r].row \in Code
           /\ At(r, "save") => requests[r].draft \in Drafts /\ requests[r].data \in Data
           /\ At(r, "lock_draft") \/ At(r, "join") =>
                requests[r].draft \in Drafts /\ requests[r].form \in Data
<1>1. requests[r] = None \/ requests[r] \in Request
  BY DEF TypeOK
<1>2. QED  BY <1>1 DEF At, Request

\* A request that moves on, or ends: the others stay as they are.
LEMMA OneMoves ==
    ASSUME TypeOK, NEW r \in Requests, NEW new, Goes(r, new)
    PROVE  requests'[r] = new /\ \A q \in Requests \ {r} : requests'[q] = requests[q]
BY DEF Goes, TypeOK

-----------------------------------------------------------------------------
(***************************************************************************)
(* The drafts.                                                             *)
(***************************************************************************)
DraftSteps == {"insert_draft", "save", "lock_draft", "join"}

\* A request is where it was, or has nothing to do with drafts.
AwayFromDrafts(q) ==
    \/ requests'[q] = requests[q]
    \/ requests'[q] = None
    \/ requests'[q] # None /\ requests'[q].step \notin DraftSteps

\* Steps that leave the drafts, and what requests read of them, alone.
LEMMA DraftsApart ==
    ASSUME DraftsInv, UNCHANGED <<drafts, joined>>, proved \subseteq proved',
           \A q \in Requests : AwayFromDrafts(q)
    PROVE  DraftsInv'
<1>1. ASSUME NEW q \in Requests, requests'[q] # None, requests'[q].step \in DraftSteps
      PROVE  requests[q] # None /\ requests'[q] = requests[q]
  BY <1>1 DEF AwayFromDrafts
<1>2. DraftsSound'
  BY DEF DraftsInv, DraftsSound
<1>3. ASSUME NEW q \in Requests  PROVE DraftAsRead(q)'
  BY <1>1 DEF DraftsInv, DraftAsRead, DraftSteps, At
<1>4. ASSUME NEW r \in Requests, NEW q \in Requests,
             At(r, "insert_draft")', At(q, "insert_draft")',
             requests'[r].draft = requests'[q].draft
      PROVE  r = q
  <2>1. requests'[r] = requests[r] /\ requests'[q] = requests[q]
    BY <1>1, <1>4 DEF At, DraftSteps
  <2>2. QED  BY <1>4, <2>1 DEF DraftsInv, StartedByOne, At
<1>5. ASSUME NEW r \in Requests, NEW q \in Requests, NEW d \in Drafts,
             LocksDraft(r, d)', LocksDraft(q, d)'
      PROVE  r = q
  <2>1. requests'[r] = requests[r] /\ requests'[q] = requests[q]
    BY <1>1, <1>5 DEF At, LocksDraft, DraftSteps
  <2>2. QED  BY <1>5, <2>1 DEF DraftsInv, DraftLocksExclude, LocksDraft, At
<1>6. StartedByOne' /\ DraftLocksExclude'
  BY <1>4, <1>5 DEF StartedByOne, DraftLocksExclude
<1>7. QED  BY <1>2, <1>3, <1>6 DEF DraftsInv

\* A request takes up or goes on with a draft and writes nothing.
LEMMA DraftsTaken ==
    ASSUME TypeOK, DraftsInv, NEW r \in Requests, NEW new, Goes(r, new),
           UNCHANGED <<drafts, joined, proved>>, DraftAsRead(r)',
           \A q \in Requests \ {r} : At(r, "insert_draft")' /\ At(q, "insert_draft")
                                      => requests'[r].draft # requests[q].draft,
           \A q \in Requests \ {r}, d \in Drafts :
               LocksDraft(r, d)' => ~ LocksDraft(q, d)
    PROVE  DraftsInv'
<1>1. \A q \in Requests \ {r} : requests'[q] = requests[q]
  BY OneMoves
<1>2. DraftsSound'
  BY DEF DraftsInv, DraftsSound
<1>3. ASSUME NEW q \in Requests  PROVE DraftAsRead(q)'
  <2>1. CASE q = r
    BY <2>1
  <2>2. CASE q # r
    BY <1>1, <2>2 DEF DraftsInv, DraftAsRead, At
  <2>3. QED  BY <2>1, <2>2
<1>4. ASSUME NEW p \in Requests, NEW q \in Requests,
             At(p, "insert_draft")', At(q, "insert_draft")',
             requests'[p].draft = requests'[q].draft
      PROVE  p = q
  BY <1>1, <1>4 DEF DraftsInv, StartedByOne, At
<1>5. ASSUME NEW p \in Requests, NEW q \in Requests, NEW d \in Drafts,
             LocksDraft(p, d)', LocksDraft(q, d)'
      PROVE  p = q
  BY <1>1, <1>5 DEF DraftsInv, DraftLocksExclude, LocksDraft, At
<1>6. StartedByOne' /\ DraftLocksExclude'
  BY <1>4, <1>5 DEF StartedByOne, DraftLocksExclude
<1>7. QED  BY <1>2, <1>3, <1>6 DEF DraftsInv

\* Drafts are written under the locks of the others that are under way.
LEMMA DraftsWritten ==
    ASSUME TypeOK, DraftsInv, DraftsSound',
           \A q \in Requests : requests'[q] # None => requests'[q] = requests[q],
           \A d \in Drafts : drafts[d] # None =>
               drafts'[d] # None /\ (drafts[d].verified => drafts'[d].verified),
           \A q \in Requests : requests'[q] # None =>
               /\ At(q, "insert_draft") => drafts'[requests[q].draft] = None
               /\ At(q, "join") => ~ drafts'[requests[q].draft].promoted
    PROVE  DraftsInv'
<1>1. ASSUME NEW q \in Requests  PROVE DraftAsRead(q)'
  <2>1. CASE requests'[q] = None
    BY <2>1 DEF DraftAsRead, At
  <2>2. CASE requests'[q] # None
    <3>1. requests'[q] = requests[q] /\ requests[q] # None
      BY <2>2
    <3>2. QED  BY <2>2, <3>1, RequestFields DEF DraftsInv, DraftAsRead, At
  <2>3. QED  BY <2>1, <2>2
<1>2. ASSUME NEW p \in Requests, NEW q \in Requests,
             At(p, "insert_draft")', At(q, "insert_draft")',
             requests'[p].draft = requests'[q].draft
      PROVE  p = q
  BY <1>2 DEF DraftsInv, StartedByOne, At
<1>3. ASSUME NEW p \in Requests, NEW q \in Requests, NEW d \in Drafts,
             LocksDraft(p, d)', LocksDraft(q, d)'
      PROVE  p = q
  BY <1>3 DEF DraftsInv, DraftLocksExclude, LocksDraft, At
<1>4. StartedByOne' /\ DraftLocksExclude'
  BY <1>2, <1>3 DEF StartedByOne, DraftLocksExclude
<1>5. QED  BY <1>1, <1>4 DEF DraftsInv

\* Which requests are left when one ends.
LEMMA OneEnds ==
    ASSUME TypeOK, NEW r \in Requests, Ends(r)
    PROVE  \A q \in Requests :
              requests'[q] # None => q # r /\ requests'[q] = requests[q]
BY OneMoves DEF Ends

\* POST /start: the drafts it will expire are nobody else's.
LEMMA StartTakesADraft ==
    ASSUME TypeOK, DraftsInv, NEW r \in Requests, NEW d \in Drafts,
           NEW email \in Addresses, Start(r, d, email)
    PROVE  DraftsInv'
<1> DEFINE earlier == {e \in Drafts : Pending(e) /\ drafts[e].email = email}
           new == [step |-> "insert_draft", draft |-> d, email |-> email,
                   taken |-> Taken(email), expiring |-> earlier]
<1>1. Goes(r, new)
  BY DEF Start
<1>2. requests'[r] = new
  BY <1>1, OneMoves
<1>3. DraftAsRead(r)'
  BY <1>2 DEF Start, DraftAsRead, At, Pending, Live
<1>4. \A q \in Requests \ {r} : At(q, "insert_draft") => requests'[r].draft # requests[q].draft
  BY <1>2 DEF Start
<1>5. ASSUME NEW q \in Requests \ {r}, NEW e \in Drafts, LocksDraft(r, e)'
      PROVE  ~ LocksDraft(q, e)
  <2>1. e \in earlier
    BY <1>2, <1>5 DEF LocksDraft, At
  <2>2. ~ DraftLocked(e)
    BY <2>1 DEF Start
  <2>3. QED  BY <2>2 DEF DraftLocked, LocksDraft
<1>6. UNCHANGED <<drafts, joined, proved>>
  BY DEF Start
<1> HIDE DEF new
<1>7. QED  BY <1>1, <1>3, <1>4, <1>5, <1>6, DraftsTaken

\* PATCH /draft: what was read is not held.
LEMMA SaveTakesADraft ==
    ASSUME TypeOK, DraftsInv, NEW r \in Requests, NEW d \in Drafts, NEW x \in Details,
           NEW value, Save(r, d, x, value)
    PROVE  DraftsInv'
<1> DEFINE new == [step |-> "save", draft |-> d, data |-> [drafts[d].data EXCEPT ![x] = value]]
<1>1. Goes(r, new) /\ UNCHANGED <<drafts, joined, proved>>
  BY DEF Save
<1>2. requests'[r] = new
  BY <1>1, OneMoves
<1>3. DraftAsRead(r)'
  BY <1>1, <1>2 DEF Save, DraftAsRead, At, Pending, Live
<1>4. ~ At(r, "insert_draft")' /\ \A e \in Drafts : ~ LocksDraft(r, e)'
  BY <1>2 DEF At, LocksDraft
<1> HIDE DEF new
<1>5. QED  BY <1>1, <1>3, <1>4, DraftsTaken

\* POST /complete: the draft read is verified, and stays so.
LEMMA FinishTakesADraft ==
    ASSUME TypeOK, DraftsInv, NEW r \in Requests, NEW d \in Drafts, Finish(r, d)
    PROVE  DraftsInv'
<1> DEFINE new == [step |-> "lock_draft", draft |-> d, form |-> drafts[d].data]
<1>1. Goes(r, new) /\ UNCHANGED <<drafts, joined, proved>>
  BY DEF Finish
<1>2. requests'[r] = new
  BY <1>1, OneMoves
<1>3. DraftAsRead(r)'
  BY <1>1, <1>2 DEF Finish, DraftAsRead, At, Pending, Live, VerifiedEmail
<1>4. ~ At(r, "insert_draft")' /\ \A e \in Drafts : ~ LocksDraft(r, e)'
  BY <1>2 DEF At, LocksDraft
<1> HIDE DEF new
<1>5. QED  BY <1>1, <1>3, <1>4, DraftsTaken

\* The lock of the draft, under which it is found not promoted.
LEMMA LockTakesADraft ==
    ASSUME TypeOK, DraftsInv, NEW r \in Requests, LockDraft(r)
    PROVE  DraftsInv'
<1> DEFINE new == [requests[r] EXCEPT !.step = "join"]
           d == requests[r].draft
<1>1. Goes(r, new) /\ UNCHANGED <<drafts, joined, proved>>
  BY DEF LockDraft
<1>2. requests[r] \in [step : {"lock_draft", "join"}, draft : Drafts, form : Data]
  BY DEF LockDraft, At, TypeOK, Request
<1>3. requests'[r] = new /\ new.step = "join" /\ new.draft = d /\ d \in Drafts
  BY <1>1, <1>2, OneMoves
<1>4. DraftAsRead(r) /\ At(r, "lock_draft") /\ ~ drafts[d].promoted
  BY DEF DraftsInv, LockDraft, StillPending
<1>5. DraftAsRead(r)'
  BY <1>1, <1>3, <1>4 DEF DraftAsRead, At
<1>6. ~ At(r, "insert_draft")'
  BY <1>3 DEF At
<1>7. ASSUME NEW q \in Requests \ {r}, NEW e \in Drafts, LocksDraft(r, e)'
      PROVE  ~ LocksDraft(q, e)
  <2>1. e = d
    BY <1>3, <1>7 DEF LocksDraft, At
  <2>2. QED  BY <2>1 DEF LockDraft, DraftLocked, LocksDraft
<1> HIDE DEF new
<1>8. QED  BY <1>1, <1>5, <1>6, <1>7, DraftsTaken

\* The new draft and the ones that expire with its commit.
LEMMA StartEndWrites ==
    ASSUME TypeOK, DraftsInv, NEW r \in Requests, StartEnd(r)
    PROVE  /\ DraftsInv'
           /\ AddressesStay
<1> USE RowAssumption
<1> DEFINE d0 == requests[r].draft
           rest == requests[r].expiring
           new == [email |-> requests[r].email, data |-> [x \in Details |-> "absent"],
                   verified |-> FALSE, expired |-> FALSE, promoted |-> FALSE]
<1>1. /\ At(r, "insert_draft") /\ d0 \in Drafts /\ rest \in SUBSET Drafts
      /\ requests[r].email \in Addresses
      /\ drafts[d0] = None /\ \A d \in rest : drafts[d] # None
  BY RequestFields DEF StartEnd, DraftsInv, DraftAsRead
<1>2. /\ new \in Draft /\ new # None
      /\ new.promoted = FALSE /\ new.verified = FALSE
  <2>1. [x \in Details |-> "absent"] \in Data
    BY DEF Data
  <2>2. new \in Draft
    BY <1>1, <2>1 DEF Draft
  <2>3. QED  BY <2>2
<1>3. \A d \in Drafts : drafts[d] # None => drafts[d] \in Draft
  BY DEF TypeOK
<1>4. drafts'[d0] = new /\ \A d \in Drafts \ {d0} :
        drafts'[d] = IF d \in rest THEN [drafts[d] EXCEPT !.expired = TRUE] ELSE drafts[d]
  BY <1>1 DEF StartEnd
<1>5. ASSUME NEW d \in Drafts, drafts[d] # None
      PROVE  /\ drafts'[d] # None
             /\ drafts'[d].email = drafts[d].email
             /\ drafts'[d].verified = drafts[d].verified
             /\ drafts'[d].promoted = drafts[d].promoted
  <2>1. d # d0 /\ drafts[d] \in Draft
    BY <1>1, <1>3, <1>5
  <2>2. [drafts[d] EXCEPT !.expired = TRUE] \in Draft
    BY <2>1 DEF Draft
  <2>3. QED  BY <1>4, <2>1, <2>2 DEF Draft
<1>6. \A d \in Drafts \ {d0} : drafts[d] = None => drafts'[d] = None
  BY <1>1, <1>4
<1>7. joined' = joined /\ proved' = proved
  BY DEF StartEnd
<1>8. DraftsSound'
  <2>1. ASSUME NEW d \in Drafts
        PROVE  /\ drafts'[d] = None => joined'[d] = 0
               /\ drafts'[d] # None =>
                    /\ drafts'[d].promoted \in BOOLEAN
                    /\ joined'[d] = IF drafts'[d].promoted THEN 1 ELSE 0
                    /\ drafts'[d].verified => <<d, drafts'[d].email>> \in proved'
    <3>1. CASE d = d0
      <4>1. joined[d] = 0
        BY <1>1, <3>1 DEF DraftsInv, DraftsSound
      <4>2. drafts'[d].promoted = FALSE /\ drafts'[d].verified = FALSE /\ drafts'[d] # None
        BY <1>2, <1>4, <3>1
      <4>3. QED  BY <1>7, <4>1, <4>2
    <3>2. CASE d # d0 /\ drafts[d] = None
      BY <1>6, <1>7, <3>2 DEF DraftsInv, DraftsSound
    <3>3. CASE drafts[d] # None
      BY <1>5, <1>7, <3>3 DEF DraftsInv, DraftsSound
    <3>4. QED  BY <3>1, <3>2, <3>3
  <2>2. QED  BY <2>1 DEF DraftsSound
<1>9. \A q \in Requests : requests'[q] # None => q # r /\ requests'[q] = requests[q]
  BY OneEnds DEF StartEnd
<1>10. ASSUME NEW q \in Requests, requests'[q] # None
       PROVE  /\ At(q, "insert_draft") => drafts'[requests[q].draft] = None
              /\ At(q, "join") => ~ drafts'[requests[q].draft].promoted
  <2>1. CASE At(q, "insert_draft")
    <3>1. requests[q].draft \in Drafts \ {d0} /\ drafts[requests[q].draft] = None
      BY <1>1, <1>9, <1>10, <2>1, RequestFields DEF DraftsInv, StartedByOne, DraftAsRead
    <3>2. QED  BY <1>6, <2>1, <3>1 DEF At
  <2>2. CASE At(q, "join")
    <3>1. requests[q].draft \in Drafts /\ drafts[requests[q].draft] # None
          /\ ~ drafts[requests[q].draft].promoted
      BY <2>2, RequestFields DEF DraftsInv, DraftAsRead
    <3>2. QED  BY <1>5, <2>2, <3>1 DEF At
  <2>3. QED  BY <2>1, <2>2
<1>11. DraftsInv'
  BY <1>5, <1>8, <1>9, <1>10, DraftsWritten
<1>12. QED  BY <1>5, <1>11 DEF AddressesStay

\* One draft is written, in ways the requests that are left can bear.
LEMMA OneDraftWritten ==
    ASSUME TypeOK, DraftsInv, NEW d \in Drafts, drafts[d] # None, NEW row \in Draft,
           drafts' = [drafts EXCEPT ![d] = row],
           row.email = drafts[d].email, drafts[d].verified => row.verified,
           row.verified => <<d, row.email>> \in proved', proved \subseteq proved',
           \A q \in Requests : requests'[q] # None => requests'[q] = requests[q],
           \A e \in Drafts \ {d} : joined'[e] = joined[e],
           joined'[d] = IF row.promoted THEN 1 ELSE 0,
           row.promoted => \/ drafts[d].promoted
                           \/ \A q \in Requests : requests'[q] # None => ~ LocksDraft(q, d)
    PROVE  /\ DraftsInv'
           /\ AddressesStay
<1> USE RowAssumption
<1>1. drafts'[d] = row /\ row # None /\ \A e \in Drafts \ {d} : drafts'[e] = drafts[e]
  BY DEF TypeOK
<1>2. DraftsSound'
  BY <1>1 DEF DraftsInv, DraftsSound, Draft
<1>3. \A e \in Drafts : drafts[e] # None =>
        drafts'[e] # None /\ (drafts[e].verified => drafts'[e].verified)
  BY <1>1
<1>4. ASSUME NEW q \in Requests, requests'[q] # None
      PROVE  /\ At(q, "insert_draft") => drafts'[requests[q].draft] = None
             /\ At(q, "join") => ~ drafts'[requests[q].draft].promoted
  <2>1. CASE At(q, "insert_draft")
    BY <1>1, <2>1, RequestFields DEF DraftsInv, DraftAsRead
  <2>2. CASE At(q, "join")
    <3>1. requests[q].draft \in Drafts /\ ~ drafts[requests[q].draft].promoted
      BY <2>2, RequestFields DEF DraftsInv, DraftAsRead
    <3>2. CASE requests[q].draft = d
      <4>1. LocksDraft(q, d) /\ ~ drafts[d].promoted
        BY <2>2, <3>1, <3>2 DEF LocksDraft
      <4>2. row.promoted = FALSE
        BY <1>4, <4>1 DEF Draft
      <4>3. QED  BY <1>1, <2>2, <3>2, <4>2 DEF At
    <3>3. QED  BY <1>1, <2>2, <3>1, <3>2 DEF At
  <2>3. QED  BY <2>1, <2>2
<1>5. QED  BY <1>1, <1>2, <1>3, <1>4, DraftsWritten DEF AddressesStay

\* The code that passes was sent to the address of the draft.
LEMMA VerifyDraftWrites ==
    ASSUME TypeOK, CodesInv, DraftsInv, NEW r \in Requests, VerifyDraft(r)
    PROVE  /\ DraftsInv'
           /\ AddressesStay
<1> DEFINE row == requests[r].row
           d == row.subject
           new == [drafts[d] EXCEPT !.verified = TRUE]
<1>1. At(r, "compare") /\ row.purpose = "signup"
  BY DEF VerifyDraft, Passing
<1>2. requests[r].code \in Codes /\ row = codes[requests[r].code]
      /\ codes[requests[r].code] # None
  BY <1>1, RequestFields DEF CodesInv, CodeAsRead
<1>3. d \in Drafts /\ drafts[d] # None /\ drafts[d].email = row.address
  BY <1>1, <1>2 DEF CodesInv, CodesSound, Aimed
<1>4. drafts[d] \in Draft
  BY <1>3 DEF TypeOK
<1>5. /\ new \in Draft /\ new.email = drafts[d].email /\ new.verified
      /\ new.promoted = drafts[d].promoted
  BY <1>4 DEF Draft
<1>6. drafts' = [drafts EXCEPT ![d] = new] /\ joined' = joined
      /\ proved' = proved \cup {<<d, row.address>>}
  BY DEF VerifyDraft, Passing
<1>7. \A q \in Requests : requests'[q] # None => requests'[q] = requests[q]
  BY OneEnds DEF VerifyDraft, Passing
<1>8. joined'[d] = IF new.promoted THEN 1 ELSE 0
  BY <1>3, <1>5, <1>6 DEF DraftsInv, DraftsSound
<1> HIDE DEF new
<1>9. QED  BY <1>3, <1>5, <1>6, <1>7, <1>8, OneDraftWritten

\* A save lays its details over the draft.
LEMMA SaveEndWrites ==
    ASSUME TypeOK, DraftsInv, NEW r \in Requests, SaveEnd(r)
    PROVE  /\ DraftsInv'
           /\ AddressesStay
<1> DEFINE d == requests[r].draft
           new == [drafts[d] EXCEPT !.data = requests[r].data]
<1>1. d \in Drafts /\ requests[r].data \in Data /\ drafts[d] # None
  BY RequestFields DEF SaveEnd, DraftsInv, DraftAsRead
<1>2. drafts[d] \in Draft
  BY <1>1 DEF TypeOK
<1>3. /\ new \in Draft /\ new.email = drafts[d].email /\ new.verified = drafts[d].verified
      /\ new.promoted = drafts[d].promoted
  BY <1>1, <1>2 DEF Draft
<1>4. drafts' = [drafts EXCEPT ![d] = new] /\ joined' = joined /\ proved' = proved
  BY DEF SaveEnd
<1>5. \A q \in Requests : requests'[q] # None => requests'[q] = requests[q]
  BY OneEnds DEF SaveEnd
<1>6. /\ joined'[d] = IF new.promoted THEN 1 ELSE 0
      /\ new.verified => <<d, new.email>> \in proved'
  BY <1>1, <1>3, <1>4 DEF DraftsInv, DraftsSound
<1> HIDE DEF new
<1>7. QED  BY <1>1, <1>3, <1>4, <1>5, <1>6, OneDraftWritten

\* Thirty days go by.
LEMMA DraftExpiresWrites ==
    ASSUME TypeOK, DraftsInv, NEW d \in Drafts, DraftExpires(d)
    PROVE  /\ DraftsInv'
           /\ AddressesStay
<1> DEFINE new == [drafts[d] EXCEPT !.expired = TRUE]
<1>1. drafts[d] # None /\ drafts[d] \in Draft
  BY DEF DraftExpires, Pending, Live, TypeOK
<1>2. /\ new \in Draft /\ new.email = drafts[d].email /\ new.verified = drafts[d].verified
      /\ new.promoted = drafts[d].promoted
  BY <1>1 DEF Draft
<1>3. /\ drafts' = [drafts EXCEPT ![d] = new] /\ joined' = joined /\ proved' = proved
      /\ requests' = requests
  BY DEF DraftExpires
<1>4. /\ joined'[d] = IF new.promoted THEN 1 ELSE 0
      /\ new.verified => <<d, new.email>> \in proved'
  BY <1>1, <1>2, <1>3 DEF DraftsInv, DraftsSound
<1> HIDE DEF new
<1>5. QED  BY <1>1, <1>2, <1>3, <1>4, OneDraftWritten

\* The draft becomes a member: it was verified, and nobody else holds it.
LEMMA JoinWrites ==
    ASSUME TypeOK, DraftsInv, NEW r \in Requests, Join(r)
    PROVE  /\ DraftsInv'
           /\ AddressesStay
           /\ requests[r].draft \in Drafts
           /\ <<requests[r].draft, drafts[requests[r].draft].email>> \in proved
<1> DEFINE d == requests[r].draft
           new == [drafts[d] EXCEPT !.promoted = TRUE]
<1>1. /\ At(r, "join") /\ d \in Drafts /\ drafts[d] # None
      /\ drafts[d].verified /\ ~ drafts[d].promoted
  BY RequestFields DEF Join, DraftsInv, DraftAsRead
<1>2. drafts[d] \in Draft
  BY <1>1 DEF TypeOK
<1>3. /\ new \in Draft /\ new.email = drafts[d].email /\ new.verified = drafts[d].verified
      /\ new.promoted
  BY <1>2 DEF Draft
<1>4. /\ drafts' = [drafts EXCEPT ![d] = new] /\ proved' = proved
      /\ joined' = [joined EXCEPT ![d] = joined[d] + 1]
  BY DEF Join
<1>5. \A q \in Requests : requests'[q] # None => q # r /\ requests'[q] = requests[q]
  BY OneEnds DEF Join
<1>6. joined[d] = 0 /\ <<d, drafts[d].email>> \in proved
  BY <1>1 DEF DraftsInv, DraftsSound
<1>7. joined'[d] = 1 /\ \A e \in Drafts \ {d} : joined'[e] = joined[e]
  BY <1>1, <1>4, <1>6 DEF TypeOK
<1>8. ASSUME NEW q \in Requests, requests'[q] # None  PROVE ~ LocksDraft(q, d)
  <2>1. LocksDraft(r, d)
    BY <1>1 DEF LocksDraft
  <2>2. QED  BY <1>1, <1>5, <1>8, <2>1 DEF DraftsInv, DraftLocksExclude
<1> HIDE DEF new
<1>9. QED  BY <1>1, <1>3, <1>4, <1>5, <1>6, <1>7, <1>8, OneDraftWritten

\* No step disturbs the drafts.
LEMMA DraftsStep ==
    TypeOK /\ CodesInv /\ DraftsInv /\ [Next]_vars => DraftsInv' /\ AddressesStay
<1> SUFFICES ASSUME TypeOK, CodesInv, DraftsInv, [Next]_vars
             PROVE  DraftsInv' /\ AddressesStay
  OBVIOUS
<1>1. ASSUME UNCHANGED <<drafts, joined>>, proved \subseteq proved',
             \A q \in Requests : AwayFromDrafts(q)
      PROVE  DraftsInv' /\ AddressesStay
  BY <1>1, DraftsApart DEF AddressesStay
<1>2. ASSUME NEW r \in Requests, NEW new, Goes(r, new),
             new = None \/ new.step \notin DraftSteps,
             UNCHANGED <<drafts, joined>>, proved \subseteq proved'
      PROVE  DraftsInv' /\ AddressesStay
  <2>1. \A q \in Requests : AwayFromDrafts(q)
    BY <1>2, OneMoves DEF AwayFromDrafts
  <2>2. QED  BY <1>1, <1>2, <2>1
<1>3. ASSUME NEW r \in Requests, NEW row, Issue(r, row)
      PROVE  DraftsInv' /\ AddressesStay
  <2>1. Goes(r, [step |-> "consume", code |-> issued', row |-> row])
        /\ UNCHANGED <<drafts, joined, proved>>
    BY <1>3 DEF Issue
  <2>2. [step |-> "consume", code |-> issued', row |-> row].step \notin DraftSteps
    BY DEF DraftSteps
  <2>3. QED  BY <1>2, <2>1, <2>2
<1>4. ASSUME NEW r \in Requests, NEW subject, NEW purpose, Verify(r, subject, purpose)
      PROVE  DraftsInv' /\ AddressesStay
  <2>1. PICK n \in Codes : Goes(r, [step |-> "lock_code", code |-> n])
    BY <1>4 DEF Verify, CodesOf
  <2>2. [step |-> "lock_code", code |-> n].step \notin DraftSteps
    BY DEF DraftSteps
  <2>3. UNCHANGED <<drafts, joined, proved>>
    BY <1>4 DEF Verify
  <2>4. QED  BY <1>2, <2>1, <2>2, <2>3
<1>5. ASSUME NEW r \in Requests, Begin(r)
      PROVE  DraftsInv' /\ AddressesStay
  <2>1. ASSUME NEW d \in Drafts, NEW email \in Addresses, Start(r, d, email)
        PROVE  DraftsInv' /\ AddressesStay
    BY <2>1, StartTakesADraft DEF Start, AddressesStay
  <2>2. ASSUME NEW d \in Drafts, Finish(r, d)
        PROVE  DraftsInv' /\ AddressesStay
    BY <2>2, FinishTakesADraft DEF Finish, AddressesStay
  <2>3. ASSUME NEW d \in Drafts, NEW x \in Details, NEW value \in {"given", "null"},
               Save(r, d, x, value)
        PROVE  DraftsInv' /\ AddressesStay
    BY <2>3, SaveTakesADraft DEF Save, AddressesStay
  <2>4. QED  BY <1>3, <1>4, <1>5, <2>1, <2>2, <2>3 DEF Begin, ResendCode, ChangeRequest, Login
<1>6. ASSUME NEW r \in Requests, Step(r)
      PROVE  DraftsInv' /\ AddressesStay
  <2>1. CASE StartEnd(r)
    BY <2>1, StartEndWrites
  <2>2. CASE IssueConsume(r)
    <3>1. PICK rows : Goes(r, [step |-> "insert_code", code |-> requests[r].code,
                               row |-> requests[r].row, rows |-> rows])
      BY <2>2 DEF IssueConsume
    <3>2. [step |-> "insert_code", code |-> requests[r].code, row |-> requests[r].row,
           rows |-> rows].step \notin DraftSteps
      BY DEF DraftSteps
    <3>3. QED  BY <1>2, <2>2, <3>1, <3>2 DEF IssueConsume
  <2>3. CASE LockCode(r)
    <3>1. [step |-> "compare", code |-> requests[r].code,
           row |-> codes[requests[r].code]].step \notin DraftSteps
      BY DEF DraftSteps
    <3>2. QED  BY <1>2, <2>3, <3>1 DEF LockCode
  <2>4. CASE IssueEnd(r) \/ Refuse(r) \/ Mismatch(r) \/ Fail(r)
    BY <1>2, <2>4 DEF IssueEnd, Refuse, Mismatch, Fail, Ends
  <2>5. CASE ConfirmChange(r) \/ SignIn(r)
    BY <1>2, <2>5 DEF ConfirmChange, SignIn, Passing, Ends
  <2>6. CASE VerifyDraft(r)
    BY <2>6, VerifyDraftWrites
  <2>7. CASE SaveEnd(r)
    BY <2>7, SaveEndWrites
  <2>8. CASE LockDraft(r)
    BY <2>8, LockTakesADraft DEF LockDraft, AddressesStay
  <2>9. CASE Join(r)
    BY <2>9, JoinWrites
  <2>10. QED  BY <1>6, <2>1, <2>2, <2>3, <2>4, <2>5, <2>6, <2>7, <2>8, <2>9 DEF Step
<1>7. CASE \E answered \in BOOLEAN : Restore(answered)
  BY <1>1, <1>7 DEF Restore, AwayFromDrafts
<1>8. CASE \E d \in Drafts : DraftExpires(d)
  BY <1>8, DraftExpiresWrites
<1>9. CASE \E n \in Codes : CodeExpires(n)
  BY <1>1, <1>9 DEF CodeExpires, AwayFromDrafts
<1>10. CASE UNCHANGED vars
  BY <1>1, <1>10 DEF vars, AwayFromDrafts
<1>11. QED  BY <1>5, <1>6, <1>7, <1>8, <1>9, <1>10 DEF Next

-----------------------------------------------------------------------------
(***************************************************************************)
(* The codes.                                                              *)
(***************************************************************************)
CodeSteps == {"consume", "insert_code", "lock_code", "compare"}

\* A request is where it was, or has nothing to do with codes.
AwayFromCodes(q) ==
    \/ requests'[q] = requests[q]
    \/ requests'[q] = None
    \/ requests'[q] # None /\ requests'[q].step \notin CodeSteps

\* Steps that leave the codes, and what requests read of them, alone.
LEMMA CodesApart ==
    ASSUME CodesInv, AddressesStay, UNCHANGED <<codes, issued, compared, passed>>,
           \A q \in Requests : AwayFromCodes(q)
    PROVE  CodesInv'
<1>1. ASSUME NEW q \in Requests, requests'[q] # None, requests'[q].step \in CodeSteps
      PROVE  requests[q] # None /\ requests'[q] = requests[q]
  BY <1>1 DEF AwayFromCodes
<1>2. CodesSound'
  BY DEF CodesInv, CodesSound, Counted, Aimed, AddressesStay
<1>3. ASSUME NEW q \in Requests  PROVE NumberReserved(q)' /\ CodeAsRead(q)'
  BY <1>1 DEF CodesInv, NumberReserved, Numbered, CodeAsRead, CodeSteps, At, Aimed, AddressesStay
<1>4. ASSUME NEW r \in Requests, NEW q \in Requests,
             Numbered(r)', Numbered(q)', requests'[r].code = requests'[q].code
      PROVE  r = q
  <2>1. requests'[r] = requests[r] /\ requests'[q] = requests[q]
    BY <1>1, <1>4 DEF Numbered, At, CodeSteps
  <2>2. QED  BY <1>4, <2>1 DEF CodesInv, NumberedByOne, Numbered, At
<1>5. ASSUME NEW r \in Requests, NEW q \in Requests, NEW n \in Codes,
             LocksCode(r, n)', LocksCode(q, n)'
      PROVE  r = q
  <2>1. requests'[r] = requests[r] /\ requests'[q] = requests[q]
    BY <1>1, <1>5 DEF At, LocksCode, CodeSteps
  <2>2. QED  BY <1>5, <2>1 DEF CodesInv, CodeLocksExclude, LocksCode, At
<1>6. NumberedByOne' /\ CodeLocksExclude'
  BY <1>4, <1>5 DEF NumberedByOne, CodeLocksExclude
<1>7. QED  BY <1>2, <1>3, <1>6 DEF CodesInv

\* A request takes up or goes on with a code and writes nothing.
LEMMA CodesTaken ==
    ASSUME TypeOK, CodesInv, AddressesStay, NEW r \in Requests, NEW new, Goes(r, new),
           UNCHANGED <<codes, compared, passed>>, issued' \in Nat, issued <= issued',
           NumberReserved(r)', CodeAsRead(r)',
           \A q \in Requests \ {r} : Numbered(r)' /\ Numbered(q)
                                      => requests'[r].code # requests[q].code,
           \A q \in Requests \ {r}, n \in Codes : LocksCode(r, n)' => ~ LocksCode(q, n)
    PROVE  CodesInv'
<1> USE BoundsAssumption
<1>1. \A q \in Requests \ {r} : requests'[q] = requests[q]
  BY OneMoves
<1>2. CodesSound'
  <2>1. \A n \in Codes : n <= issued => n <= issued'
    BY DEF TypeOK, Codes
  <2>2. QED  BY <2>1 DEF CodesInv, CodesSound, Counted, Aimed, AddressesStay
<1>3. ASSUME NEW q \in Requests  PROVE NumberReserved(q)' /\ CodeAsRead(q)'
  <2>1. CASE q = r
    BY <2>1
  <2>2. CASE q # r
    <3>1. requests'[q] = requests[q] /\ NumberReserved(q) /\ CodeAsRead(q)
      BY <1>1, <2>2 DEF CodesInv
    <3>2. Numbered(q) => requests[q].code <= issued'
      BY <3>1, RequestFields DEF NumberReserved, Numbered, TypeOK, Codes
    <3>3. QED
      BY <3>1, <3>2 DEF NumberReserved, Numbered, CodeAsRead, At, Aimed, AddressesStay
  <2>3. QED  BY <2>1, <2>2
<1>4. ASSUME NEW p \in Requests, NEW q \in Requests,
             Numbered(p)', Numbered(q)', requests'[p].code = requests'[q].code
      PROVE  p = q
  BY <1>1, <1>4 DEF CodesInv, NumberedByOne, Numbered, At
<1>5. ASSUME NEW p \in Requests, NEW q \in Requests, NEW n \in Codes,
             LocksCode(p, n)', LocksCode(q, n)'
      PROVE  p = q
  BY <1>1, <1>5 DEF CodesInv, CodeLocksExclude, LocksCode, At
<1>6. NumberedByOne' /\ CodeLocksExclude'
  BY <1>4, <1>5 DEF NumberedByOne, CodeLocksExclude
<1>7. QED  BY <1>2, <1>3, <1>6 DEF CodesInv

\* Codes are written under the locks of the others that are under way.
LEMMA CodesWritten ==
    ASSUME TypeOK, CodesInv, CodesSound', AddressesStay, issued' \in Nat, issued <= issued',
           \A q \in Requests : requests'[q] # None => requests'[q] = requests[q],
           \A n \in Codes : codes[n] # None => codes'[n] # None,
           \A q \in Requests : requests'[q] # None =>
               /\ Numbered(q) => codes'[requests[q].code] = None
               /\ At(q, "compare") => codes'[requests[q].code] = codes[requests[q].code]
    PROVE  CodesInv'
<1> USE BoundsAssumption
<1>1. ASSUME NEW q \in Requests  PROVE NumberReserved(q)' /\ CodeAsRead(q)'
  <2>1. CASE requests'[q] = None
    BY <2>1 DEF NumberReserved, Numbered, CodeAsRead, At
  <2>2. CASE requests'[q] # None
    <3>1. requests'[q] = requests[q] /\ NumberReserved(q) /\ CodeAsRead(q)
      BY <2>2 DEF CodesInv
    <3>2. NumberReserved(q)'
      <4>1. Numbered(q) => requests[q].code <= issued'
        BY <3>1, RequestFields DEF NumberReserved, Numbered, TypeOK, Codes
      <4>2. QED
        BY <2>2, <3>1, <4>1 DEF NumberReserved, Numbered, At, Aimed, AddressesStay
    <3>3. CodeAsRead(q)'
      BY <2>2, <3>1, RequestFields DEF CodeAsRead, At
    <3>4. QED  BY <3>2, <3>3
  <2>3. QED  BY <2>1, <2>2
<1>2. ASSUME NEW p \in Requests, NEW q \in Requests,
             Numbered(p)', Numbered(q)', requests'[p].code = requests'[q].code
      PROVE  p = q
  BY <1>2 DEF CodesInv, NumberedByOne, Numbered, At
<1>3. ASSUME NEW p \in Requests, NEW q \in Requests, NEW n \in Codes,
             LocksCode(p, n)', LocksCode(q, n)'
      PROVE  p = q
  BY <1>3 DEF CodesInv, CodeLocksExclude, LocksCode, At
<1>4. NumberedByOne' /\ CodeLocksExclude'
  BY <1>2, <1>3 DEF NumberedByOne, CodeLocksExclude
<1>5. QED  BY <1>1, <1>4 DEF CodesInv

\* A number nobody has: no code is written, counted or reserved beyond issued.
LEMMA NextNumber ==
    ASSUME TypeOK, CodesInv, issued < MaxCodes
    PROVE  /\ issued + 1 \in Codes /\ issued + 1 \in Nat /\ issued <= issued + 1
           /\ codes[issued + 1] = None
           /\ \A q \in Requests : Numbered(q) => requests[q].code # issued + 1
<1> USE BoundsAssumption
<1>1. issued \in Nat /\ issued + 1 \in Codes
  BY DEF TypeOK, Codes
<1>2. \A n \in Codes : codes[n] # None => n <= issued
  BY DEF CodesInv, CodesSound
<1>3. \A q \in Requests : Numbered(q) => requests[q].code \in Codes /\ requests[q].code <= issued
  BY RequestFields DEF CodesInv, NumberReserved, Numbered
<1>4. QED  BY <1>1, <1>2, <1>3 DEF Codes

\* A created_at is taken.
LEMMA IssueTakesACode ==
    ASSUME TypeOK, CodesInv, NEW r \in Requests, NEW row \in Code, Issue(r, row),
           row.open, row.attempts = 0, Aimed(row)
    PROVE  CodesInv'
<1> DEFINE new == [step |-> "consume", code |-> issued + 1, row |-> row]
<1>1. /\ Goes(r, new) /\ UNCHANGED <<drafts, codes, compared, passed>>
      /\ issued' = issued + 1 /\ issued < MaxCodes
  BY DEF Issue
<1>2. AddressesStay
  BY <1>1 DEF AddressesStay
<1>3. requests'[r] = new
  BY <1>1, OneMoves
<1>4. NumberReserved(r)'
  BY <1>1, <1>3, NextNumber DEF NumberReserved, Numbered, At, Aimed
<1>5. CodeAsRead(r)' /\ \A n \in Codes : ~ LocksCode(r, n)'
  BY <1>3 DEF CodeAsRead, LocksCode, At
<1>6. \A q \in Requests \ {r} : Numbered(q) => requests'[r].code # requests[q].code
  BY <1>1, <1>3, NextNumber
<1>7. issued' \in Nat /\ issued <= issued'
  BY <1>1, NextNumber
<1> HIDE DEF new
<1>8. QED  BY <1>1, <1>2, <1>4, <1>5, <1>6, <1>7, CodesTaken

\* The earlier codes of the purpose are locked.
LEMMA ConsumeTakesCodes ==
    ASSUME TypeOK, CodesInv, NEW r \in Requests, IssueConsume(r)
    PROVE  CodesInv'
<1> DEFINE rows == OpenCodes(requests[r].row.subject, requests[r].row.purpose)
           new == [step |-> "insert_code", code |-> requests[r].code,
                   row |-> requests[r].row, rows |-> rows]
<1>1. /\ Goes(r, new) /\ UNCHANGED <<drafts, codes, compared, passed, issued>>
      /\ At(r, "consume")
  BY DEF IssueConsume
<1>2. AddressesStay
  BY <1>1 DEF AddressesStay
<1>3. requests'[r] = new
  BY <1>1, OneMoves
<1>4. NumberReserved(r)'
  BY <1>1, <1>3 DEF CodesInv, NumberReserved, Numbered, At, Aimed
<1>5. CodeAsRead(r)'
  BY <1>1, <1>3 DEF CodeAsRead, At, OpenCodes, CodesOf
<1>6. \A q \in Requests \ {r} : Numbered(q) => requests'[r].code # requests[q].code
  BY <1>1, <1>3 DEF CodesInv, NumberedByOne, Numbered
<1>7. ASSUME NEW q \in Requests \ {r}, NEW n \in Codes, LocksCode(r, n)'
      PROVE  ~ LocksCode(q, n)
  <2>1. n \in rows
    BY <1>3, <1>7 DEF LocksCode, At
  <2>2. ~ CodeLocked(n)
    BY <2>1 DEF IssueConsume
  <2>3. QED  BY <2>2 DEF CodeLocked, LocksCode
<1>8. issued' \in Nat /\ issued <= issued'
  BY <1>1, BoundsAssumption DEF TypeOK
<1> HIDE DEF new
<1>9. QED  BY <1>1, <1>2, <1>4, <1>5, <1>6, <1>7, <1>8, CodesTaken

\* The newest code is chosen, not yet locked.
LEMMA VerifyTakesACode ==
    ASSUME TypeOK, CodesInv, NEW r \in Requests, NEW subject, NEW purpose,
           Verify(r, subject, purpose)
    PROVE  CodesInv'
<1>1. PICK n \in CodesOf(subject, purpose) : Goes(r, [step |-> "lock_code", code |-> n])
  BY DEF Verify
<1> DEFINE new == [step |-> "lock_code", code |-> n]
<1>2. /\ Goes(r, new) /\ UNCHANGED <<drafts, codes, compared, passed, issued>>
  BY <1>1 DEF Verify
<1>3. AddressesStay
  BY <1>2 DEF AddressesStay
<1>4. requests'[r] = new
  BY <1>2, OneMoves
<1>5. NumberReserved(r)' /\ ~ Numbered(r)'
  BY <1>4 DEF NumberReserved, Numbered, At
<1>6. CodeAsRead(r)'
  BY <1>1, <1>2, <1>4 DEF CodeAsRead, At, CodesOf
<1>7. \A k \in Codes : ~ LocksCode(r, k)'
  BY <1>4 DEF LocksCode, At
<1>8. issued' \in Nat /\ issued <= issued'
  BY <1>2, BoundsAssumption DEF TypeOK
<1> HIDE DEF new
<1>9. QED  BY <1>2, <1>3, <1>5, <1>6, <1>7, <1>8, CodesTaken

\* Under its lock the code is read again.
LEMMA LockTakesACode ==
    ASSUME TypeOK, CodesInv, NEW r \in Requests, LockCode(r)
    PROVE  CodesInv'
<1> DEFINE n == requests[r].code
           new == [step |-> "compare", code |-> n, row |-> codes[n]]
<1>1. /\ Goes(r, new) /\ UNCHANGED <<drafts, codes, compared, passed, issued>>
      /\ At(r, "lock_code") /\ ~ CodeLocked(n)
  BY DEF LockCode
<1>2. AddressesStay
  BY <1>1 DEF AddressesStay
<1>3. requests'[r] = new
  BY <1>1, OneMoves
<1>4. NumberReserved(r)' /\ ~ Numbered(r)'
  BY <1>3 DEF NumberReserved, Numbered, At
<1>5. codes[n] # None
  BY <1>1 DEF CodesInv, CodeAsRead
<1>6. CodeAsRead(r)'
  BY <1>1, <1>3, <1>5 DEF CodeAsRead, At
<1>7. ASSUME NEW q \in Requests \ {r}, NEW k \in Codes, LocksCode(r, k)'
      PROVE  ~ LocksCode(q, k)
  <2>1. k = n
    BY <1>3, <1>7 DEF LocksCode, At
  <2>2. QED  BY <1>1, <2>1 DEF CodeLocked, LocksCode
<1>8. issued' \in Nat /\ issued <= issued'
  BY <1>1, BoundsAssumption DEF TypeOK
<1> HIDE DEF new
<1>9. QED  BY <1>1, <1>2, <1>4, <1>6, <1>7, <1>8, CodesTaken

\* One code is written, which no request that is left has locked.
LEMMA OneCodeWritten ==
    ASSUME TypeOK, CodesInv, AddressesStay, issued' = issued,
           NEW n \in Codes, codes[n] # None, NEW row \in Code,
           codes' = [codes EXCEPT ![n] = row], Aimed(row), Counted(n)',
           \A k \in Codes \ {n} : compared'[k] = compared[k] /\ passed'[k] = passed[k],
           \A q \in Requests : requests'[q] # None => requests'[q] = requests[q],
           \A q \in Requests : requests'[q] # None => ~ LocksCode(q, n)
    PROVE  CodesInv'
<1> USE RowAssumption
<1>1. codes'[n] = row /\ row # None /\ \A k \in Codes \ {n} : codes'[k] = codes[k]
  BY DEF TypeOK
<1>2. CodesSound'
  <2>1. ASSUME NEW k \in Codes
        PROVE  /\ codes'[k] = None => compared'[k] = 0 /\ passed'[k] = 0
               /\ codes'[k] # None => k <= issued' /\ Counted(k)' /\ Aimed(codes[k])'
    <3>1. CASE k = n
      BY <1>1, <3>1 DEF CodesInv, CodesSound, Aimed, AddressesStay
    <3>2. CASE k # n
      BY <1>1, <3>2 DEF CodesInv, CodesSound, Counted, Aimed, AddressesStay
    <3>3. QED  BY <3>1, <3>2
  <2>2. QED  BY <2>1 DEF CodesSound
<1>3. issued' \in Nat /\ issued <= issued'
  BY BoundsAssumption DEF TypeOK
<1>4. \A k \in Codes : codes[k] # None => codes'[k] # None
  BY <1>1
<1>5. ASSUME NEW q \in Requests, requests'[q] # None
      PROVE  /\ Numbered(q) => codes'[requests[q].code] = None
             /\ At(q, "compare") => codes'[requests[q].code] = codes[requests[q].code]
  <2>1. CASE Numbered(q)
    BY <1>1, <2>1, RequestFields DEF CodesInv, NumberReserved, Numbered, At
  <2>2. CASE At(q, "compare")
    BY <1>1, <1>5, <2>2, RequestFields DEF LocksCode, Numbered, At
  <2>3. QED  BY <2>1, <2>2
<1>6. QED  BY <1>2, <1>3, <1>4, <1>5, CodesWritten

\* What a request finds under the lock of the code it compares with.
LEMMA Comparing ==
    ASSUME TypeOK, CodesInv, NEW r \in Requests, At(r, "compare"), Ends(r)
    PROVE  /\ requests[r].code \in Codes
           /\ codes[requests[r].code] \in Code /\ codes[requests[r].code] # None
           /\ requests[r].row = codes[requests[r].code]
           /\ Counted(requests[r].code) /\ Aimed(codes[requests[r].code])
           /\ \A q \in Requests : requests'[q] # None =>
                /\ requests'[q] = requests[q]
                /\ ~ LocksCode(q, requests[r].code)
<1> DEFINE n == requests[r].code
<1>1. n \in Codes /\ codes[n] # None /\ requests[r].row = codes[n]
  BY RequestFields DEF CodesInv, CodeAsRead
<1>2. codes[n] \in Code /\ Counted(n) /\ Aimed(codes[n])
  BY <1>1 DEF TypeOK, CodesInv, CodesSound
<1>3. LocksCode(r, n)
  BY DEF LocksCode
<1>4. ASSUME NEW q \in Requests, requests'[q] # None
      PROVE  requests'[q] = requests[q] /\ ~ LocksCode(q, n)
  <2>1. q # r /\ requests'[q] = requests[q]
    BY <1>4, OneEnds
  <2>2. QED  BY <1>1, <1>3, <2>1 DEF CodesInv, CodeLocksExclude
<1>5. QED  BY <1>1, <1>2, <1>4

\* A wrong code is an attempt more.
LEMMA MismatchWrites ==
    ASSUME TypeOK, CodesInv, NEW r \in Requests, Mismatch(r)
    PROVE  /\ CodesInv' /\ requests[r].code \in Codes
           /\ codes[requests[r].code].attempts < MaxAttempts
<1> USE BoundsAssumption
<1>0. PICK n \in Codes : n = requests[r].code
  BY Comparing DEF Mismatch
<1> DEFINE new == [codes[n] EXCEPT !.attempts = codes[n].attempts + 1]
<1>1. At(r, "compare") /\ Ends(r) /\ Comparable(requests[r].row)
  BY DEF Mismatch
<1>2. /\ codes[n] \in Code /\ codes[n] # None
      /\ codes[n].open /\ codes[n].attempts < MaxAttempts /\ codes[n].attempts \in Nat
      /\ Counted(n) /\ Aimed(codes[n])
      /\ \A q \in Requests : requests'[q] # None => requests'[q] = requests[q]
      /\ \A q \in Requests : requests'[q] # None => ~ LocksCode(q, n)
  BY <1>0, <1>1, Comparing DEF Comparable, Code
<1>3. /\ new \in Code /\ new.open = codes[n].open /\ new.subject = codes[n].subject
      /\ new.purpose = codes[n].purpose /\ new.address = codes[n].address
      /\ new.attempts = codes[n].attempts + 1
  <2>1. codes[n].attempts + 1 \in 0..MaxAttempts
    BY <1>2
  <2>2. QED  BY <1>2, <2>1 DEF Code
<1>4. /\ codes' = [codes EXCEPT ![n] = new]
      /\ compared' = [compared EXCEPT ![n] = compared[n] + 1]
      /\ UNCHANGED <<issued, passed, drafts>>
  BY <1>0 DEF Mismatch
<1>5. /\ codes'[n] = new /\ compared'[n] = compared[n] + 1 /\ passed'[n] = passed[n]
      /\ \A k \in Codes \ {n} : compared'[k] = compared[k] /\ passed'[k] = passed[k]
  BY <1>2, <1>4 DEF TypeOK
<1>6. passed[n] = 0 /\ compared[n] = codes[n].attempts
  BY <1>2 DEF Counted
<1>7. Counted(n)'
  BY <1>2, <1>3, <1>5, <1>6 DEF Counted
<1>8. Aimed(new) /\ AddressesStay
  BY <1>2, <1>3, <1>4 DEF Aimed, AddressesStay
<1> HIDE DEF new
<1>9. QED  BY <1>0, <1>2, <1>3, <1>4, <1>5, <1>7, <1>8, OneCodeWritten

\* The right code is consumed.
LEMMA PassingWrites ==
    ASSUME TypeOK, CodesInv, AddressesStay, NEW r \in Requests, Passing(r)
    PROVE  CodesInv'
<1> USE BoundsAssumption
<1>0. PICK n \in Codes : n = requests[r].code
  BY Comparing DEF Passing
<1> DEFINE new == [codes[n] EXCEPT !.open = FALSE]
<1>1. At(r, "compare") /\ Ends(r) /\ Comparable(requests[r].row)
  BY DEF Passing
<1>2. /\ codes[n] \in Code /\ codes[n] # None
      /\ codes[n].open /\ codes[n].attempts < MaxAttempts /\ codes[n].attempts \in Nat
      /\ Counted(n) /\ Aimed(codes[n])
      /\ \A q \in Requests : requests'[q] # None => requests'[q] = requests[q]
      /\ \A q \in Requests : requests'[q] # None => ~ LocksCode(q, n)
  BY <1>0, <1>1, Comparing DEF Comparable, Code
<1>3. /\ new \in Code /\ new.open = FALSE /\ new.subject = codes[n].subject
      /\ new.purpose = codes[n].purpose /\ new.address = codes[n].address
      /\ new.attempts = codes[n].attempts
  BY <1>2 DEF Code
<1>4. /\ codes' = [codes EXCEPT ![n] = new]
      /\ compared' = [compared EXCEPT ![n] = compared[n] + 1]
      /\ passed' = [passed EXCEPT ![n] = passed[n] + 1]
      /\ issued' = issued
  BY <1>0 DEF Passing
<1>5. /\ codes'[n] = new /\ compared'[n] = compared[n] + 1 /\ passed'[n] = passed[n] + 1
      /\ \A k \in Codes \ {n} : compared'[k] = compared[k] /\ passed'[k] = passed[k]
  BY <1>2, <1>4 DEF TypeOK
<1>6. passed[n] = 0 /\ compared[n] = codes[n].attempts
  BY <1>2 DEF Counted
<1>7. Counted(n)'
  BY <1>2, <1>3, <1>5, <1>6 DEF Counted
<1>8. Aimed(new)
  BY <1>2, <1>3 DEF Aimed
<1> HIDE DEF new
<1>9. QED  BY <1>0, <1>2, <1>3, <1>4, <1>5, <1>7, <1>8, OneCodeWritten

\* Ten minutes go by.
LEMMA CodeExpiresWrites ==
    ASSUME TypeOK, CodesInv, NEW n \in Codes, CodeExpires(n)
    PROVE  CodesInv'
<1> DEFINE new == [codes[n] EXCEPT !.open = FALSE]
<1>1. /\ codes[n] # None /\ ~ CodeLocked(n) /\ codes' = [codes EXCEPT ![n] = new]
      /\ UNCHANGED <<drafts, issued, requests, compared, passed>>
  BY DEF CodeExpires
<1>2. codes[n] \in Code /\ Counted(n) /\ Aimed(codes[n])
  BY <1>1 DEF TypeOK, CodesInv, CodesSound
<1>3. /\ new \in Code /\ new.open = FALSE /\ new.subject = codes[n].subject
      /\ new.purpose = codes[n].purpose /\ new.address = codes[n].address
      /\ new.attempts = codes[n].attempts
  BY <1>2 DEF Code
<1>4. codes'[n] = new
  BY <1>1 DEF TypeOK
<1>5. Counted(n)'
  BY <1>1, <1>2, <1>3, <1>4 DEF Counted
<1>6. Aimed(new) /\ AddressesStay
  BY <1>1, <1>2, <1>3 DEF Aimed, AddressesStay
<1>7. \A q \in Requests : ~ LocksCode(q, n)
  BY <1>1 DEF CodeLocked, LocksCode
<1> HIDE DEF new
<1>8. QED  BY <1>1, <1>3, <1>5, <1>6, <1>7, OneCodeWritten

\* The new code, and the earlier ones consumed.
LEMMA IssueEndWrites ==
    ASSUME TypeOK, CodesInv, NEW r \in Requests, IssueEnd(r)
    PROVE  CodesInv'
<1> USE RowAssumption, BoundsAssumption
<1>0. PICK n \in Codes, row \in Code, rows \in SUBSET Codes :
        /\ n = requests[r].code /\ row = requests[r].row /\ rows = requests[r].rows
  BY RequestFields DEF IssueEnd
<1>1. At(r, "insert_code") /\ Ends(r) /\ UNCHANGED <<drafts, issued, compared, passed>>
  BY DEF IssueEnd
<1>2. /\ n <= issued /\ codes[n] = None /\ row.open /\ row.attempts = 0 /\ Aimed(row)
      /\ \A k \in rows : codes[k] # None
  BY <1>0, <1>1 DEF CodesInv, NumberReserved, CodeAsRead, Numbered
<1>3. row # None /\ n \notin rows
  BY <1>2
<1>4. codes'[n] = row /\ \A k \in Codes \ {n} :
        codes'[k] = IF k \in rows THEN [codes[k] EXCEPT !.open = FALSE] ELSE codes[k]
  BY <1>0 DEF IssueEnd
<1>5. ASSUME NEW k \in rows
      PROVE  /\ codes'[k] # None /\ codes'[k].open = FALSE
             /\ codes'[k].attempts = codes[k].attempts
             /\ codes'[k].subject = codes[k].subject
             /\ codes'[k].purpose = codes[k].purpose
             /\ codes'[k].address = codes[k].address
  <2>1. codes[k] \in Code /\ k \in Codes
    BY <1>2, <1>5 DEF TypeOK
  <2>2. [codes[k] EXCEPT !.open = FALSE] \in Code
    BY <2>1 DEF Code
  <2>3. codes'[k] = [codes[k] EXCEPT !.open = FALSE]
    BY <1>3, <1>4, <2>1
  <2>4. QED  BY <2>1, <2>2, <2>3 DEF Code
<1>6. AddressesStay
  BY <1>1 DEF AddressesStay
<1>7. CodesSound'
  <2>1. ASSUME NEW k \in Codes
        PROVE  /\ codes'[k] = None => compared'[k] = 0 /\ passed'[k] = 0
               /\ codes'[k] # None => k <= issued' /\ Counted(k)' /\ Aimed(codes[k])'
    <3>1. CASE k = n
      <4>1. compared[n] = 0 /\ passed[n] = 0
        BY <1>2 DEF CodesInv, CodesSound
      <4>2. QED  BY <1>1, <1>2, <1>3, <1>4, <3>1, <4>1 DEF Counted, Aimed
    <3>2. CASE k \in rows
      <4>1. k <= issued /\ Counted(k) /\ Aimed(codes[k])
        BY <1>2, <3>2 DEF CodesInv, CodesSound
      <4>2. QED  BY <1>1, <1>5, <3>2, <4>1 DEF Counted, Aimed
    <3>3. CASE k # n /\ k \notin rows
      BY <1>1, <1>4, <3>3 DEF CodesInv, CodesSound, Counted, Aimed
    <3>4. QED  BY <3>1, <3>2, <3>3
  <2>2. QED  BY <2>1 DEF CodesSound
<1>8. \A q \in Requests : requests'[q] # None => q # r /\ requests'[q] = requests[q]
  BY <1>1, OneEnds
<1>9. \A k \in Codes : codes[k] # None => codes'[k] # None
  BY <1>2, <1>4, <1>5
<1>10. ASSUME NEW q \in Requests, requests'[q] # None
       PROVE  /\ Numbered(q) => codes'[requests[q].code] = None
              /\ At(q, "compare") => codes'[requests[q].code] = codes[requests[q].code]
  <2>1. CASE Numbered(q)
    <3>1. requests[q].code \in Codes \ {n} /\ codes[requests[q].code] = None
      BY <1>0, <1>1, <1>8, <1>10, <2>1, RequestFields
      DEF CodesInv, NumberedByOne, NumberReserved, Numbered
    <3>2. QED  BY <1>2, <1>4, <2>1, <3>1 DEF Numbered, At
  <2>2. CASE At(q, "compare")
    <3>1. requests[q].code \in Codes /\ codes[requests[q].code] # None
      BY <2>2, RequestFields DEF CodesInv, CodeAsRead
    <3>2. requests[q].code \notin rows
      <4>1. ASSUME requests[q].code \in rows  PROVE FALSE
        BY <1>0, <1>1, <1>8, <1>10, <2>2, <3>1, <4>1 DEF CodesInv, CodeLocksExclude, LocksCode
      <4>2. QED  BY <4>1
    <3>3. QED  BY <1>2, <1>4, <2>2, <3>1, <3>2 DEF Numbered, At
  <2>3. QED  BY <2>1, <2>2
<1>11. issued' \in Nat /\ issued <= issued'
  BY <1>1 DEF TypeOK
<1>12. QED  BY <1>6, <1>7, <1>8, <1>9, <1>10, <1>11, CodesWritten

\* The first code of a registration, in one transaction with its draft.
LEMMA StartEndCodes ==
    ASSUME TypeOK, CodesInv, DraftsInv, NEW r \in Requests, StartEnd(r)
    PROVE  CodesInv'
<1> USE RowAssumption, BoundsAssumption
<1>1. AddressesStay
  BY StartEndWrites
<1>2. \A q \in Requests : requests'[q] # None => q # r /\ requests'[q] = requests[q]
  BY OneEnds DEF StartEnd
<1>3. CASE UNCHANGED <<codes, issued>>
  BY <1>1, <1>2, <1>3, CodesApart DEF AwayFromCodes, StartEnd
<1>4. CASE issued < MaxCodes /\ issued' = issued + 1
           /\ codes' = [codes EXCEPT ![issued'] =
                          NewCode(requests[r].draft, "signup", requests[r].email)]
  <2>0. PICK d \in Drafts, email \in Addresses :
          d = requests[r].draft /\ email = requests[r].email
    BY RequestFields DEF StartEnd
  <2> DEFINE new == NewCode(d, "signup", email)
  <2>1. new \in Code /\ new # None
    <3>1. 0 \in 0..MaxAttempts /\ d \in Accounts /\ "signup" \in Purposes
      BY DEF Accounts, Purposes
    <3>2. new \in Code
      BY <3>1 DEF Code, NewCode
    <3>3. QED  BY <3>2
  <2>2. /\ new.open /\ new.attempts = 0 /\ new.subject = d
        /\ new.purpose = "signup" /\ new.address = email
    BY DEF NewCode
  <2>3. PICK n \in Codes : n = issued + 1
    BY <1>4, NextNumber
  <2>4. /\ codes[n] = None /\ issued <= n /\ n \in Nat /\ issued' = n
        /\ \A q \in Requests : Numbered(q) => requests[q].code # n
    BY <1>4, <2>3, NextNumber
  <2>5. codes'[n] = new /\ \A k \in Codes \ {n} : codes'[k] = codes[k]
    BY <1>4, <2>0, <2>3 DEF TypeOK
  <2>6. drafts'[d] # None /\ drafts'[d].email = email
    <3> DEFINE first == [email |-> email, data |-> [x \in Details |-> "absent"],
                         verified |-> FALSE, expired |-> FALSE, promoted |-> FALSE]
    <3>1. [x \in Details |-> "absent"] \in Data
      BY DEF Data
    <3>2. first \in Draft /\ first.email = email
      BY <3>1 DEF Draft
    <3>3. drafts'[d] = first
      BY <2>0 DEF StartEnd
    <3> HIDE DEF first
    <3>4. QED  BY <3>2, <3>3
  <2>7. UNCHANGED <<compared, passed>>
    BY DEF StartEnd
  <2> HIDE DEF new
  <2>8. CodesSound'
    <3>1. ASSUME NEW k \in Codes
          PROVE  /\ codes'[k] = None => compared'[k] = 0 /\ passed'[k] = 0
                 /\ codes'[k] # None => k <= issued' /\ Counted(k)' /\ Aimed(codes[k])'
      <4>1. CASE k = n
        <5>1. compared[n] = 0 /\ passed[n] = 0
          BY <2>4 DEF CodesInv, CodesSound
        <5>2. QED
          BY <2>1, <2>2, <2>4, <2>5, <2>6, <2>7, <4>1, <5>1 DEF Counted, Aimed
      <4>2. CASE k # n
        <5>1. k <= issued => k <= issued'
          BY <2>3, <2>4 DEF Codes, TypeOK
        <5>2. QED
          BY <1>1, <2>5, <2>7, <4>2, <5>1 DEF CodesInv, CodesSound, Counted, Aimed, AddressesStay
      <4>3. QED  BY <4>1, <4>2
    <3>2. QED  BY <3>1 DEF CodesSound
  <2>9. \A k \in Codes : codes[k] # None => codes'[k] # None
    BY <2>4, <2>5
  <2>10. ASSUME NEW q \in Requests, requests'[q] # None
         PROVE  /\ Numbered(q) => codes'[requests[q].code] = None
                /\ At(q, "compare") => codes'[requests[q].code] = codes[requests[q].code]
    <3>1. CASE Numbered(q)
      BY <2>4, <2>5, <3>1, RequestFields DEF CodesInv, NumberReserved, Numbered, At
    <3>2. CASE At(q, "compare")
      BY <2>4, <2>5, <3>2, RequestFields DEF CodesInv, CodeAsRead, Numbered, At
    <3>3. QED  BY <3>1, <3>2
  <2>11. QED  BY <1>1, <1>2, <2>4, <2>8, <2>9, <2>10, CodesWritten
<1>5. QED  BY <1>3, <1>4 DEF StartEnd

\* A code as it is issued.
LEMMA NewCodes ==
    ASSUME NEW subject \in Accounts, NEW purpose \in Purposes, NEW address \in Addresses
    PROVE  LET row == NewCode(subject, purpose, address)
           IN  /\ row \in Code /\ row.open /\ row.attempts = 0
               /\ row.subject = subject /\ row.purpose = purpose /\ row.address = address
<1>1. 0 \in 0..MaxAttempts
  BY BoundsAssumption
<1>2. QED  BY <1>1 DEF NewCode, Code

\* No step disturbs the codes.
LEMMA CodesStep ==
    TypeOK /\ CodesInv /\ DraftsInv /\ [Next]_vars => CodesInv'
<1> SUFFICES ASSUME TypeOK, CodesInv, DraftsInv, [Next]_vars
             PROVE  CodesInv'
  OBVIOUS
<1>1. AddressesStay
  BY DraftsStep
<1>2. ASSUME UNCHANGED <<codes, issued, compared, passed>>,
             \A q \in Requests : AwayFromCodes(q)
      PROVE  CodesInv'
  BY <1>1, <1>2, CodesApart
<1>3. ASSUME NEW r \in Requests, NEW new, Goes(r, new),
             new = None \/ new.step \notin CodeSteps,
             UNCHANGED <<codes, issued, compared, passed>>
      PROVE  CodesInv'
  <2>1. \A q \in Requests : AwayFromCodes(q)
    BY <1>3, OneMoves DEF AwayFromCodes
  <2>2. QED  BY <1>2, <1>3, <2>1
<1>4. ASSUME NEW r \in Requests, Begin(r)
      PROVE  CodesInv'
  <2>1. ASSUME NEW d \in Drafts, NEW email \in Addresses, Start(r, d, email)
        PROVE  CodesInv'
    <3>1. PICK new : Goes(r, new) /\ new.step = "insert_draft"
      BY <2>1 DEF Start
    <3>2. QED  BY <1>3, <2>1, <3>1 DEF Start, CodeSteps
  <2>2. ASSUME NEW d \in Drafts, Finish(r, d)
        PROVE  CodesInv'
    <3>1. PICK new : Goes(r, new) /\ new.step = "lock_draft"
      BY <2>2 DEF Finish
    <3>2. QED  BY <1>3, <2>2, <3>1 DEF Finish, CodeSteps
  <2>3. ASSUME NEW d \in Drafts, NEW x \in Details, NEW value \in {"given", "null"},
               Save(r, d, x, value)
        PROVE  CodesInv'
    <3>1. PICK new : Goes(r, new) /\ new.step = "save"
      BY <2>3 DEF Save
    <3>2. QED  BY <1>3, <2>3, <3>1 DEF Save, CodeSteps
  <2>4. ASSUME NEW d \in Drafts, ResendCode(r, d)
        PROVE  CodesInv'
    <3>1. drafts[d] # None /\ drafts[d].email \in Addresses /\ d \in Accounts
      BY <2>4 DEF ResendCode, Pending, Live, TypeOK, Draft, Accounts
    <3>2. Aimed(NewCode(d, "signup", drafts[d].email))
      BY <3>1 DEF Aimed, NewCode
    <3>3. "signup" \in Purposes
      BY DEF Purposes
    <3>4. QED  BY <2>4, <3>1, <3>2, <3>3, NewCodes, IssueTakesACode DEF ResendCode
  <2>5. ASSUME NEW a \in Accounts, NEW address \in Addresses, ChangeRequest(r, a, address)
        PROVE  CodesInv'
    <3>1. Aimed(NewCode(a, "email_change", address)) /\ "email_change" \in Purposes
      BY DEF Aimed, NewCode, Purposes
    <3>2. QED  BY <2>5, <3>1, NewCodes, IssueTakesACode DEF ChangeRequest
  <2>6. ASSUME NEW a \in Accounts, Login(r, a)
        PROVE  CodesInv'
    <3>1. Aimed(NewCode(a, "login", accounts[a])) /\ "login" \in Purposes
      BY DEF Aimed, NewCode, Purposes
    <3>2. accounts[a] \in Addresses
      BY <2>6 DEF Login, TypeOK
    <3>3. QED  BY <2>6, <3>1, <3>2, NewCodes, IssueTakesACode DEF Login
  <2>7. ASSUME NEW a \in Accounts, NEW purpose \in Purposes, Verify(r, a, purpose)
        PROVE  CodesInv'
    BY <2>7, VerifyTakesACode
  <2>8. QED  BY <1>4, <2>1, <2>2, <2>3, <2>4, <2>5, <2>6, <2>7 DEF Begin
<1>5. ASSUME NEW r \in Requests, Step(r)
      PROVE  CodesInv'
  <2>1. CASE StartEnd(r)
    BY <2>1, StartEndCodes
  <2>2. CASE IssueConsume(r)
    BY <2>2, ConsumeTakesCodes
  <2>3. CASE IssueEnd(r)
    BY <2>3, IssueEndWrites
  <2>4. CASE LockCode(r)
    BY <2>4, LockTakesACode
  <2>5. CASE Mismatch(r)
    BY <2>5, MismatchWrites
  <2>6. CASE VerifyDraft(r) \/ ConfirmChange(r) \/ SignIn(r)
    BY <1>1, <2>6, PassingWrites DEF VerifyDraft, ConfirmChange, SignIn
  <2>7. CASE LockDraft(r)
    <3>1. Goes(r, [requests[r] EXCEPT !.step = "join"])
          /\ requests[r] \in [step : {"lock_draft", "join"}, draft : Drafts, form : Data]
      BY <2>7 DEF LockDraft, At, TypeOK, Request
    <3>2. [requests[r] EXCEPT !.step = "join"].step \notin CodeSteps
      BY <3>1 DEF CodeSteps
    <3>3. QED  BY <1>3, <2>7, <3>1, <3>2 DEF LockDraft
  <2>8. CASE Refuse(r) \/ SaveEnd(r) \/ Join(r) \/ Fail(r)
    BY <1>3, <2>8 DEF Refuse, SaveEnd, Join, Fail, Ends
  <2>9. QED  BY <1>5, <2>1, <2>2, <2>3, <2>4, <2>5, <2>6, <2>7, <2>8 DEF Step
<1>6. CASE \E answered \in BOOLEAN : Restore(answered)
  BY <1>2, <1>6 DEF Restore, AwayFromCodes
<1>7. CASE \E d \in Drafts : DraftExpires(d)
  BY <1>2, <1>7 DEF DraftExpires, AwayFromCodes
<1>8. CASE \E n \in Codes : CodeExpires(n)
  BY <1>8, CodeExpiresWrites
<1>9. CASE UNCHANGED vars
  BY <1>2, <1>9 DEF vars, AwayFromCodes
<1>10. QED  BY <1>4, <1>5, <1>6, <1>7, <1>8, <1>9 DEF Next

-----------------------------------------------------------------------------
(***************************************************************************)
(* The accounts.                                                           *)
(***************************************************************************)
\* Accounts change at two places: a member moves, or a registration is completed.
LEMMA AccountsQuiet ==
    ASSUME [Next]_vars,
           ~ \E r \in Requests : ConfirmChange(r) \/ Join(r)
    PROVE  accounts' = accounts /\ proved \subseteq proved'
<1>1. ASSUME NEW r \in Requests, Begin(r)
      PROVE  accounts' = accounts /\ proved' = proved
  BY <1>1 DEF Begin, Start, ResendCode, Finish, Save, ChangeRequest, Login, Verify, Issue
<1>2. ASSUME NEW r \in Requests, Step(r)
      PROVE  accounts' = accounts /\ proved \subseteq proved'
  <2>1. CASE VerifyDraft(r) \/ SignIn(r)
    BY <2>1 DEF VerifyDraft, SignIn, Passing
  <2>2. CASE StartEnd(r) \/ IssueConsume(r) \/ IssueEnd(r) \/ LockCode(r) \/ Refuse(r)
             \/ Mismatch(r) \/ SaveEnd(r) \/ LockDraft(r) \/ Fail(r)
    BY <2>2 DEF StartEnd, IssueConsume, IssueEnd, LockCode, Refuse, Mismatch, SaveEnd,
                LockDraft, Fail
  <2>3. QED  BY <1>2, <2>1, <2>2 DEF Step
<1>3. QED
  BY <1>1, <1>2 DEF Next, Restore, DraftExpires, CodeExpires, vars

\* No step gives an account an address that is not proved, or is another's.
LEMMA AccountsStep ==
    TypeOK /\ CodesInv /\ DraftsInv /\ EmailsAreProved /\ OneAccountPerAddress /\ [Next]_vars
      => EmailsAreProved' /\ OneAccountPerAddress'
<1> SUFFICES ASSUME TypeOK, CodesInv, DraftsInv, EmailsAreProved, OneAccountPerAddress,
                    [Next]_vars
             PROVE  EmailsAreProved' /\ OneAccountPerAddress'
  OBVIOUS
<1>1. ASSUME NEW c \in Accounts, NEW address \in Addresses,
             accounts' = [accounts EXCEPT ![c] = address],
             \A a \in Accounts \ {c} : accounts[a] # address,
             proved \subseteq proved', <<c, address>> \in proved'
      PROVE  EmailsAreProved' /\ OneAccountPerAddress'
  <2>1. accounts'[c] = address /\ \A a \in Accounts \ {c} : accounts'[a] = accounts[a]
    BY <1>1 DEF TypeOK
  <2>2. QED  BY <1>1, <2>1 DEF EmailsAreProved, OneAccountPerAddress
<1>2. ASSUME NEW r \in Requests, ConfirmChange(r)
      PROVE  EmailsAreProved' /\ OneAccountPerAddress'
  <2> DEFINE row == requests[r].row
  <2>1. row \in Code
    BY <1>2, RequestFields DEF ConfirmChange, Passing
  <2>2. row.subject \in Accounts /\ row.address \in Addresses
    BY <2>1 DEF Code
  <2>3. QED  BY <1>1, <1>2, <2>2 DEF ConfirmChange, Passing
<1>3. ASSUME NEW r \in Requests, Join(r)
      PROVE  EmailsAreProved' /\ OneAccountPerAddress'
  <2> DEFINE d == requests[r].draft
  <2>1. d \in Drafts /\ <<d, drafts[d].email>> \in proved
    BY <1>3, JoinWrites
  <2>2. d \in Accounts /\ drafts[d].email \in Addresses
    BY <2>1 DEF Accounts, TypeOK
  <2>3. \A a \in Accounts : accounts[a] # drafts[d].email
    BY <1>3 DEF Join, EmailFree, Taken
  <2>4. accounts' = [accounts EXCEPT ![d] = drafts[d].email] /\ proved' = proved
    BY <1>3 DEF Join
  <2>5. QED  BY <1>1, <2>1, <2>2, <2>3, <2>4
<1>4. CASE ~ \E r \in Requests : ConfirmChange(r) \/ Join(r)
  BY <1>4, AccountsQuiet DEF EmailsAreProved, OneAccountPerAddress
<1>5. QED  BY <1>2, <1>3, <1>4

-----------------------------------------------------------------------------
(***************************************************************************)
(* Types, and the theorems.                                                *)
(***************************************************************************)
\* A request goes on to a step of its type.
LEMMA RequestsTyped ==
    ASSUME TypeOK, NEW r \in Requests, NEW new \in Request \cup {None}, Goes(r, new)
    PROVE  requests' \in [Requests -> Request \cup {None}]
BY DEF TypeOK, Goes

\* The steps that take up a request.
LEMMA BeginTyped ==
    ASSUME TypeOK, NEW r \in Requests, Begin(r)
    PROVE  TypeOK'
<1> USE BoundsAssumption
<1>1. ASSUME NEW new \in Request, Goes(r, new), issued' \in 0..MaxCodes,
             UNCHANGED <<drafts, codes, accounts, held, proved, compared, passed, joined>>
      PROVE  TypeOK'
  <2>1. requests' \in [Requests -> Request \cup {None}]
    BY <1>1, RequestsTyped
  <2>2. QED  BY <1>1, <2>1 DEF TypeOK
<1>2. ASSUME NEW row \in Code, Issue(r, row)
      PROVE  TypeOK'
  <2>1. issued' \in 0..MaxCodes /\ issued' \in Codes
    BY <1>2 DEF Issue, TypeOK, Codes
  <2>2. [step |-> "consume", code |-> issued', row |-> row] \in Request
    BY <2>1 DEF Request
  <2>3. QED  BY <1>1, <1>2, <2>1, <2>2 DEF Issue
<1>3. ASSUME NEW d \in Drafts, NEW email \in Addresses, Start(r, d, email)
      PROVE  TypeOK'
  <2> DEFINE earlier == {e \in Drafts : Pending(e) /\ drafts[e].email = email}
  <2>1. [step |-> "insert_draft", draft |-> d, email |-> email,
         taken |-> Taken(email), expiring |-> earlier] \in Request
    BY DEF Request, Taken
  <2>2. QED  BY <1>1, <1>3, <2>1 DEF Start, TypeOK
<1>4. ASSUME NEW d \in Drafts, ResendCode(r, d)
      PROVE  TypeOK'
  <2>1. drafts[d].email \in Addresses /\ d \in Accounts /\ "signup" \in Purposes
    BY <1>4 DEF ResendCode, Pending, Live, TypeOK, Draft, Accounts, Purposes
  <2>2. QED  BY <1>2, <1>4, <2>1, NewCodes DEF ResendCode
<1>5. ASSUME NEW d \in Drafts, Finish(r, d)
      PROVE  TypeOK'
  <2>1. drafts[d].data \in Data
    BY <1>5 DEF Finish, Pending, Live, TypeOK, Draft
  <2>2. [step |-> "lock_draft", draft |-> d, form |-> drafts[d].data] \in Request
    BY <2>1 DEF Request
  <2>3. QED  BY <1>1, <1>5, <2>2 DEF Finish, TypeOK
<1>6. ASSUME NEW d \in Drafts, NEW x \in Details, NEW value \in {"given", "null"},
             Save(r, d, x, value)
      PROVE  TypeOK'
  <2>1. drafts[d].data \in Data
    BY <1>6 DEF Save, Pending, Live, TypeOK, Draft
  <2>2. [drafts[d].data EXCEPT ![x] = value] \in Data
    BY <2>1 DEF Data
  <2>3. [step |-> "save", draft |-> d, data |-> [drafts[d].data EXCEPT ![x] = value]] \in Request
    BY <2>2 DEF Request
  <2>4. QED  BY <1>1, <1>6, <2>3 DEF Save, TypeOK
<1>7. ASSUME NEW a \in Accounts, NEW address \in Addresses, ChangeRequest(r, a, address)
      PROVE  TypeOK'
  <2>1. "email_change" \in Purposes
    BY DEF Purposes
  <2>2. QED  BY <1>2, <1>7, <2>1, NewCodes DEF ChangeRequest
<1>8. ASSUME NEW a \in Accounts, Login(r, a)
      PROVE  TypeOK'
  <2>1. accounts[a] \in Addresses /\ "login" \in Purposes
    BY <1>8 DEF Login, TypeOK, Purposes
  <2>2. QED  BY <1>2, <1>8, <2>1, NewCodes DEF Login
<1>9. ASSUME NEW a \in Accounts, NEW purpose \in Purposes, Verify(r, a, purpose)
      PROVE  TypeOK'
  <2>1. PICK n \in Codes : Goes(r, [step |-> "lock_code", code |-> n])
    BY <1>9 DEF Verify, CodesOf
  <2>2. [step |-> "lock_code", code |-> n] \in Request
    BY DEF Request
  <2>3. QED  BY <1>1, <1>9, <2>1, <2>2 DEF Verify, TypeOK
<1>10. QED  BY <1>3, <1>4, <1>5, <1>6, <1>7, <1>8, <1>9 DEF Begin

\* The steps that go on with one and write nothing.
LEMMA GoingOnTyped ==
    ASSUME TypeOK, NEW r \in Requests, IssueConsume(r) \/ LockCode(r) \/ LockDraft(r), CodesInv
    PROVE  TypeOK'
<1>1. ASSUME NEW new \in Request, Goes(r, new),
             UNCHANGED <<drafts, codes, issued, accounts, held, proved, compared,
                         passed, joined>>
      PROVE  TypeOK'
  <2>1. requests' \in [Requests -> Request \cup {None}]
    BY <1>1, RequestsTyped
  <2>2. QED  BY <1>1, <2>1 DEF TypeOK
<1>2. CASE IssueConsume(r)
  <2> DEFINE rows == OpenCodes(requests[r].row.subject, requests[r].row.purpose)
  <2>1. requests[r].code \in Codes /\ requests[r].row \in Code /\ rows \in SUBSET Codes
    BY <1>2, RequestFields DEF IssueConsume, OpenCodes, CodesOf
  <2>2. [step |-> "insert_code", code |-> requests[r].code, row |-> requests[r].row,
         rows |-> rows] \in Request
    BY <2>1 DEF Request
  <2>3. QED  BY <1>1, <1>2, <2>2 DEF IssueConsume
<1>3. CASE LockCode(r)
  <2>1. requests[r].code \in Codes /\ codes[requests[r].code] \in Code
    BY <1>3, RequestFields DEF LockCode, CodesInv, CodeAsRead, TypeOK
  <2>2. [step |-> "compare", code |-> requests[r].code,
         row |-> codes[requests[r].code]] \in Request
    BY <2>1 DEF Request
  <2>3. QED  BY <1>1, <1>3, <2>2 DEF LockCode
<1>4. CASE LockDraft(r)
  <2>1. requests[r] \in [step : {"lock_draft", "join"}, draft : Drafts, form : Data]
    BY <1>4 DEF LockDraft, At, TypeOK, Request
  <2>2. [requests[r] EXCEPT !.step = "join"] \in Request
    BY <2>1 DEF Request
  <2>3. QED  BY <1>1, <1>4, <2>2 DEF LockDraft
<1>5. QED  BY <1>2, <1>3, <1>4

\* The steps that end one.
LEMMA EndsTyped ==
    ASSUME TypeOK, CodesInv, DraftsInv, NEW r \in Requests, Ends(r), Step(r)
    PROVE  TypeOK'
<1> USE BoundsAssumption
<1>1. requests' \in [Requests -> Request \cup {None}]
  BY RequestsTyped DEF Ends
<1>2. CASE Refuse(r) \/ Fail(r)
  BY <1>1, <1>2 DEF Refuse, Fail, TypeOK
<1>3. CASE StartEnd(r)
  <2> DEFINE first == [email |-> requests[r].email, data |-> [x \in Details |-> "absent"],
                       verified |-> FALSE, expired |-> FALSE, promoted |-> FALSE]
  <2>1. /\ requests[r].draft \in Drafts /\ requests[r].email \in Addresses
        /\ \A d \in requests[r].expiring : drafts[d] # None
    BY <1>3, RequestFields DEF StartEnd, DraftsInv, DraftAsRead
  <2>2. first \in Draft
    <3>1. [x \in Details |-> "absent"] \in Data
      BY DEF Data
    <3>2. QED  BY <2>1, <3>1 DEF Draft
  <2>3. ASSUME NEW d \in Drafts, d \in requests[r].expiring
        PROVE  [drafts[d] EXCEPT !.expired = TRUE] \in Draft
    BY <2>1, <2>3 DEF TypeOK, Draft
  <2>4. drafts' \in [Drafts -> Draft \cup {None}]
    <3>1. drafts' = [d \in Drafts |->
                       IF d = requests[r].draft THEN first
                       ELSE IF d \in requests[r].expiring THEN [drafts[d] EXCEPT !.expired = TRUE]
                       ELSE drafts[d]]
      BY <1>3 DEF StartEnd
    <3>2. ASSUME NEW d \in Drafts
          PROVE  (IF d = requests[r].draft THEN first
                  ELSE IF d \in requests[r].expiring THEN [drafts[d] EXCEPT !.expired = TRUE]
                  ELSE drafts[d]) \in Draft \cup {None}
      <4>1. drafts[d] \in Draft \cup {None}
        BY DEF TypeOK
      <4> HIDE DEF first
      <4>2. QED  BY <2>2, <2>3, <4>1
    <3> HIDE DEF first
    <3>3. QED  BY <3>1, <3>2
  <2>5. /\ codes' \in [Codes -> Code \cup {None}] /\ issued' \in 0..MaxCodes
    <3>1. CASE UNCHANGED <<codes, issued>>
      BY <3>1 DEF TypeOK
    <3>2. CASE issued < MaxCodes /\ issued' = issued + 1
               /\ codes' = [codes EXCEPT ![issued'] =
                              NewCode(requests[r].draft, "signup", requests[r].email)]
      <4>1. requests[r].draft \in Accounts /\ "signup" \in Purposes
        BY <2>1 DEF Accounts, Purposes
      <4>2. NewCode(requests[r].draft, "signup", requests[r].email) \in Code
        BY <2>1, <4>1, NewCodes
      <4>3. issued' \in 0..MaxCodes
        BY <3>2 DEF TypeOK
      <4>4. codes' \in [Codes -> Code \cup {None}]
        BY <3>2, <4>2 DEF TypeOK
      <4>5. QED  BY <4>3, <4>4
    <3>3. QED  BY <1>3, <3>1, <3>2 DEF StartEnd
  <2>6. held' \in Drafts \cup {None}
    BY <1>3, <2>1 DEF StartEnd, Keeps
  <2>7. QED  BY <1>1, <1>3, <2>4, <2>5, <2>6 DEF StartEnd, TypeOK
<1>4. CASE IssueEnd(r)
  <2>1. /\ requests[r].row \in Code /\ \A k \in requests[r].rows : codes[k] # None
    BY <1>4, RequestFields DEF IssueEnd, CodesInv, CodeAsRead
  <2>2. ASSUME NEW k \in Codes, k \in requests[r].rows
        PROVE  [codes[k] EXCEPT !.open = FALSE] \in Code
    BY <2>1, <2>2 DEF TypeOK, Code
  <2>3. codes' \in [Codes -> Code \cup {None}]
    BY <1>4, <2>1, <2>2 DEF IssueEnd, TypeOK
  <2>4. QED  BY <1>1, <1>4, <2>3 DEF IssueEnd, TypeOK
<1>5. CASE Mismatch(r)
  <2> DEFINE n == requests[r].code
  <2>1. n \in Codes /\ codes[n] \in Code /\ codes[n].attempts < MaxAttempts
    BY <1>5, MismatchWrites, Comparing DEF Mismatch
  <2>2. codes[n].attempts \in Nat
    BY <2>1 DEF Code
  <2>3. codes[n].attempts + 1 \in 0..MaxAttempts
    BY <2>1, <2>2
  <2>4. [codes[n] EXCEPT !.attempts = codes[n].attempts + 1] \in Code
    BY <2>1, <2>3 DEF Code
  <2>5. codes' = [codes EXCEPT ![n] = [codes[n] EXCEPT !.attempts = codes[n].attempts + 1]]
    BY <1>5 DEF Mismatch
  <2>6. codes' \in [Codes -> Code \cup {None}]
    BY <2>4, <2>5 DEF TypeOK
  <2>7. compared' \in [Codes -> Nat]
    BY <1>5, <2>1 DEF Mismatch, TypeOK
  <2>8. QED  BY <1>1, <1>5, <2>6, <2>7 DEF Mismatch, TypeOK
<1>6. CASE VerifyDraft(r) \/ ConfirmChange(r) \/ SignIn(r)
  <2> DEFINE n == requests[r].code
             row == requests[r].row
  <2>1. At(r, "compare") /\ Passing(r)
    BY <1>6 DEF VerifyDraft, ConfirmChange, SignIn, Passing
  <2>2. n \in Codes /\ codes[n] \in Code /\ row = codes[n] /\ Aimed(row)
    BY <2>1, Comparing
  <2>3. row.subject \in Accounts /\ row.address \in Addresses
    BY <2>2 DEF Code
  <2>4. [codes[n] EXCEPT !.open = FALSE] \in Code
    BY <2>2 DEF Code
  <2>5. codes' = [codes EXCEPT ![n] = [codes[n] EXCEPT !.open = FALSE]]
    BY <2>1 DEF Passing
  <2>6. codes' \in [Codes -> Code \cup {None}]
    BY <2>4, <2>5 DEF TypeOK
  <2>7. /\ compared' \in [Codes -> Nat] /\ passed' \in [Codes -> Nat]
        /\ proved' \in SUBSET (Accounts \X Addresses)
        /\ UNCHANGED <<issued, held, joined>>
    BY <2>1, <2>2, <2>3 DEF Passing, TypeOK
  <2>8. drafts' \in [Drafts -> Draft \cup {None}]
    <3>1. CASE VerifyDraft(r)
      <4>1. row.subject \in Drafts /\ drafts[row.subject] # None
        BY <2>2, <3>1 DEF VerifyDraft, Aimed
      <4>2. [drafts[row.subject] EXCEPT !.verified = TRUE] \in Draft
        BY <4>1 DEF TypeOK, Draft
      <4>3. drafts' = [drafts EXCEPT ![row.subject] =
                         [drafts[row.subject] EXCEPT !.verified = TRUE]]
        BY <3>1 DEF VerifyDraft
      <4>4. QED  BY <4>2, <4>3 DEF TypeOK
    <3>2. CASE ConfirmChange(r) \/ SignIn(r)
      BY <3>2 DEF ConfirmChange, SignIn, TypeOK
    <3>3. QED  BY <1>6, <3>1, <3>2
  <2>9. accounts' \in [Accounts -> Addresses \cup {None}]
    <3>1. CASE ConfirmChange(r)
      BY <2>3, <3>1 DEF ConfirmChange, TypeOK
    <3>2. CASE VerifyDraft(r) \/ SignIn(r)
      BY <3>2 DEF VerifyDraft, SignIn, TypeOK
    <3>3. QED  BY <1>6, <3>1, <3>2
  <2>10. QED  BY <1>1, <2>6, <2>7, <2>8, <2>9 DEF TypeOK
<1>7. CASE SaveEnd(r)
  <2> DEFINE d == requests[r].draft
  <2>1. d \in Drafts /\ requests[r].data \in Data /\ drafts[d] \in Draft
    BY <1>7, RequestFields DEF SaveEnd, DraftsInv, DraftAsRead, TypeOK
  <2>2. [drafts[d] EXCEPT !.data = requests[r].data] \in Draft
    BY <2>1 DEF Draft
  <2>3. drafts' = [drafts EXCEPT ![d] = [drafts[d] EXCEPT !.data = requests[r].data]]
    BY <1>7 DEF SaveEnd
  <2>4. drafts' \in [Drafts -> Draft \cup {None}]
    BY <2>2, <2>3 DEF TypeOK
  <2>5. QED  BY <1>1, <1>7, <2>4 DEF SaveEnd, TypeOK
<1>8. CASE Join(r)
  <2> DEFINE d == requests[r].draft
  <2>1. d \in Drafts /\ drafts[d] \in Draft /\ d \in Accounts
    BY <1>8, RequestFields DEF Join, DraftsInv, DraftAsRead, TypeOK, Accounts
  <2>2. [drafts[d] EXCEPT !.promoted = TRUE] \in Draft /\ drafts[d].email \in Addresses
    BY <2>1 DEF Draft
  <2>3. drafts' = [drafts EXCEPT ![d] = [drafts[d] EXCEPT !.promoted = TRUE]]
    BY <1>8 DEF Join
  <2>4. drafts' \in [Drafts -> Draft \cup {None}]
    BY <2>2, <2>3 DEF TypeOK
  <2>5. accounts' \in [Accounts -> Addresses \cup {None}]
    BY <1>8, <2>1, <2>2 DEF Join, TypeOK
  <2>6. joined' \in [Drafts -> Nat] /\ held' \in Drafts \cup {None}
    BY <1>8, <2>1 DEF Join, Forgets, TypeOK
  <2>7. QED  BY <1>1, <1>8, <2>4, <2>5, <2>6 DEF Join, TypeOK
<1>9. CASE IssueConsume(r) \/ LockCode(r) \/ LockDraft(r)
  BY <1>9, GoingOnTyped
<1>10. QED
  BY <1>2, <1>3, <1>4, <1>5, <1>6, <1>7, <1>8, <1>9 DEF Step

\* No step leaves the types.
LEMMA TypeStep ==
    TypeOK /\ CodesInv /\ DraftsInv /\ [Next]_vars => TypeOK'
<1> SUFFICES ASSUME TypeOK, CodesInv, DraftsInv, [Next]_vars
             PROVE  TypeOK'
  OBVIOUS
<1>1. ASSUME NEW r \in Requests, Step(r)
      PROVE  TypeOK'
  <2>1. CASE Ends(r)
    BY <1>1, <2>1, EndsTyped
  <2>2. CASE IssueConsume(r) \/ LockCode(r) \/ LockDraft(r)
    BY <2>2, GoingOnTyped
  <2>3. QED
    BY <1>1, <2>1, <2>2 DEF Step, StartEnd, IssueEnd, Refuse, Mismatch, VerifyDraft,
       ConfirmChange, SignIn, Passing, SaveEnd, Join, Fail
<1>2. CASE \E answered \in BOOLEAN : Restore(answered)
  BY <1>2 DEF Restore, TypeOK
<1>3. ASSUME NEW d \in Drafts, DraftExpires(d)
      PROVE  TypeOK'
  <2>1. [drafts[d] EXCEPT !.expired = TRUE] \in Draft
    BY <1>3 DEF DraftExpires, Pending, Live, TypeOK, Draft
  <2>2. drafts' \in [Drafts -> Draft \cup {None}]
    BY <1>3, <2>1 DEF DraftExpires, TypeOK
  <2>3. QED  BY <1>3, <2>2 DEF DraftExpires, TypeOK
<1>4. ASSUME NEW n \in Codes, CodeExpires(n)
      PROVE  TypeOK'
  <2>1. [codes[n] EXCEPT !.open = FALSE] \in Code
    BY <1>4 DEF CodeExpires, TypeOK, Code
  <2>2. codes' \in [Codes -> Code \cup {None}]
    BY <1>4, <2>1 DEF CodeExpires, TypeOK
  <2>3. QED  BY <1>4, <2>2 DEF CodeExpires, TypeOK
<1>5. CASE UNCHANGED vars
  BY <1>5 DEF vars, TypeOK
<1>6. QED  BY <1>1, <1>2, <1>3, <1>4, <1>5, BeginTyped DEF Next

\* Existing accounts have addresses of their own, and count as proved.
LEMMA RegistrationInit == Init => RegistrationInv
<1> SUFFICES ASSUME Init  PROVE RegistrationInv
  OBVIOUS
<1> USE BoundsAssumption, NamesAssumption
<1>1. TypeOK
  <2>1. Existing \subseteq Accounts /\ Drafts \subseteq Accounts
    BY DEF Accounts
  <2>2. proved \in SUBSET (Accounts \X Addresses)
    BY <2>1 DEF Init
  <2>3. QED  BY <2>2 DEF Init, TypeOK
<1>2. CodesInv
  BY DEF Init, CodesInv, CodesSound, NumberReserved, CodeAsRead, NumberedByOne,
         CodeLocksExclude, LocksCode, Numbered, At
<1>3. DraftsInv
  BY DEF Init, DraftsInv, DraftsSound, DraftAsRead, StartedByOne, DraftLocksExclude,
         LocksDraft, At
<1>4. EmailsAreProved
  BY DEF Init, EmailsAreProved, Accounts
<1>5. OneAccountPerAddress
  BY DEF Init, OneAccountPerAddress, Accounts
<1>6. QED  BY <1>1, <1>2, <1>3, <1>4, <1>5 DEF RegistrationInv

\* Rows, requests under way and what they hold agree in every state.
LEMMA RegistrationInvariant == Spec => []RegistrationInv
<1>1. RegistrationInv /\ [Next]_vars => RegistrationInv'
  BY TypeStep, CodesStep, DraftsStep, AccountsStep DEF RegistrationInv
<1>2. QED  BY RegistrationInit, <1>1, PTL DEF Spec

\* Every reachable state of the rows, the requests and the histories is well typed.
THEOREM RegistrationTypes == Spec => []TypeOK
<1>1. RegistrationInv => TypeOK
  BY DEF RegistrationInv
<1>2. QED  BY <1>1, RegistrationInvariant, PTL

\* Nobody has an account at an address no code has proved: what completion read before
\* its transaction still holds under the lock of the draft (signup.ts:230-250).
THEOREM AddressesAreProved == Spec => []EmailsAreProved
<1>1. RegistrationInv => EmailsAreProved
  BY DEF RegistrationInv
<1>2. QED  BY <1>1, RegistrationInvariant, PTL

\* However many registrations of one address are verified and completed, and whoever
\* moves to it meanwhile, one account has it (users_email_lower_key).
THEOREM AddressesAreUnique == Spec => []OneAccountPerAddress
<1>1. RegistrationInv => OneAccountPerAddress
  BY DEF RegistrationInv
<1>2. QED  BY <1>1, RegistrationInvariant, PTL

\* Any number of requests that try a code side by side make at most OTP_MAX_ATTEMPTS
\* comparisons with it, and it passes once (the row lock of verifyOtp, otp.ts:66-93).
THEOREM AttemptsAreBounded == Spec => []CodesAreBounded
<1>1. RegistrationInv => CodesAreBounded
  <2>1. ASSUME RegistrationInv, NEW n \in Codes
        PROVE  compared[n] <= MaxAttempts /\ passed[n] <= 1
    <3>1. CASE codes[n] = None
      BY <2>1, <3>1, BoundsAssumption DEF RegistrationInv, CodesInv, CodesSound
    <3>2. CASE codes[n] # None
      BY <2>1, <3>2 DEF RegistrationInv, CodesInv, CodesSound, Counted
    <3>3. QED  BY <3>1, <3>2
  <2>2. QED  BY <2>1 DEF CodesAreBounded
<1>2. QED  BY <1>1, RegistrationInvariant, PTL

\* However often a registration is sent, it makes one member (promoted_at under the
\* lock of the draft, signup.ts:246-250).
THEOREM MembersAreMadeOnce == Spec => []OneMemberPerDraft
<1>1. RegistrationInv => OneMemberPerDraft
  <2>1. ASSUME RegistrationInv, NEW d \in Drafts
        PROVE  joined[d] <= 1
    <3>1. joined[d] = 0 \/ joined[d] = 1
      BY <2>1 DEF RegistrationInv, DraftsInv, DraftsSound
    <3>2. QED  BY <3>1
  <2>2. QED  BY <2>1 DEF OneMemberPerDraft
<1>2. QED  BY <1>1, RegistrationInvariant, PTL
=============================================================================

---------------------------- MODULE Registration ----------------------------
(***************************************************************************)
(* Joining the association and moving to another address: the draft a      *)
(* visitor fills over days (src/src/routes/signup.ts, kept by the page     *)
(* src/web/app/register/page.tsx in the browser), the one-time codes that  *)
(* prove an address (src/src/auth/otp.ts) at registration, at sign-in      *)
(* (src/src/routes/auth.ts) and at a change of address                     *)
(* (src/src/routes/me.ts).                                                 *)
(*                                                                         *)
(* A handler is a request of several steps: what it read is carried in the *)
(* request while others write; a transaction takes effect as it commits    *)
(* and holds its row locks until then.  The account made from a draft has  *)
(* the name of the draft.                                                  *)
(***************************************************************************)
EXTENDS Naturals, FiniteSets

CONSTANTS
    Drafts,         \* registrations that may be started
    Existing,       \* accounts there were before
    Addresses,
    Mandatory,      \* details completeDraftSchema asks for
    Optional,       \* details that may be left empty (optionalText)
    Requests,       \* requests under way at once
    MaxAttempts,    \* OTP_MAX_ATTEMPTS
    MaxCodes,       \* bound on the codes issued
    None            \* no row, no request, no account, no token

Accounts == Existing \cup Drafts
Details == Mandatory \cup Optional
Codes == 1..MaxCodes

ASSUME NamesAssumption == Existing \cap Drafts = {} /\ Mandatory \cap Optional = {}
ASSUME BoundsAssumption == MaxAttempts \in Nat /\ MaxCodes \in Nat
ASSUME AddressesAssumption ==
    \E f \in [Existing -> Addresses] : \A a, b \in Existing : f[a] = f[b] => a = b

VARIABLES
    drafts,         \* signup_drafts
    codes,          \* email_verifications, numbered as created_at orders them
    issued,         \* transactions that took a created_at for a code
    accounts,       \* the address of each user
    requests,       \* requests under way
    held,           \* the draft whose token the browser keeps
    proved,         \* whose codes passed, and for which address (history)
    compared,       \* comparisons made with each code (history)
    passed,         \* times each code passed (history)
    joined          \* members made from each draft (history)

vars == <<drafts, codes, issued, accounts, requests, held, proved, compared,
          passed, joined>>

\* A detail is left out, given, or was sent as "" and stored as null.
Data == [Details -> {"absent", "given", "null"}]
Draft == [email : Addresses, data : Data, verified : BOOLEAN,
          expired : BOOLEAN, promoted : BOOLEAN]

Purposes == {"signup", "email_change", "login"}

\* open: neither consumed nor past expires_at.
Code == [subject : Accounts, purpose : Purposes, address : Addresses,
         attempts : 0..MaxAttempts, open : BOOLEAN]

Request ==
    [step : {"insert_draft"}, draft : Drafts, email : Addresses, taken : BOOLEAN,
     expiring : SUBSET Drafts]
      \cup [step : {"consume"}, code : Codes, row : Code]
      \cup [step : {"insert_code"}, code : Codes, row : Code, rows : SUBSET Codes]
      \cup [step : {"lock_code"}, code : Codes]
      \cup [step : {"compare"}, code : Codes, row : Code]
      \cup [step : {"save"}, draft : Drafts, data : Data]
      \cup [step : {"lock_draft", "join"}, draft : Drafts, form : Data]

\* A row is never NULL and a request never idle.
ASSUME RowAssumption ==
    None \notin Draft \cup Code \cup Request \cup Addresses \cup Drafts

TypeOK ==
    /\ drafts \in [Drafts -> Draft \cup {None}]
    /\ codes \in [Codes -> Code \cup {None}]
    /\ issued \in 0..MaxCodes
    /\ accounts \in [Accounts -> Addresses \cup {None}]
    /\ requests \in [Requests -> Request \cup {None}]
    /\ held \in Drafts \cup {None}
    /\ proved \in SUBSET (Accounts \X Addresses)
    /\ compared \in [Codes -> Nat]
    /\ passed \in [Codes -> Nat]
    /\ joined \in [Drafts -> Nat]

Init ==
    /\ drafts = [d \in Drafts |-> None]
    /\ codes = [n \in Codes |-> None]
    /\ issued = 0
    /\ accounts \in {f \in [Accounts -> Addresses \cup {None}] :
                       /\ \A d \in Drafts : f[d] = None
                       /\ \A a \in Existing : f[a] # None
                       /\ \A a, b \in Existing : f[a] = f[b] => a = b}
    /\ requests = [r \in Requests |-> None]
    /\ held = None
    /\ proved = {<<a, accounts[a]>> : a \in Existing}
    /\ compared = [n \in Codes |-> 0]
    /\ passed = [n \in Codes |-> 0]
    /\ joined = [d \in Drafts |-> 0]
-----------------------------------------------------------------------------
Live(d) == drafts[d] # None /\ ~ drafts[d].expired
Pending(d) == Live(d) /\ ~ drafts[d].promoted
Taken(address) == \E a \in Accounts : accounts[a] = address

At(r, step) == requests[r] # None /\ requests[r].step = step
Goes(r, request) == requests' = [requests EXCEPT ![r] = request]
Ends(r) == Goes(r, None)

\* Mutant: the row is read without FOR UPDATE.
NeverLocked(n) == FALSE

\* Rows a transaction under way has locked.
DraftLocked(d) ==
    \E r \in Requests : \/ At(r, "join") /\ requests[r].draft = d
                        \/ At(r, "insert_draft") /\ d \in requests[r].expiring
CodeLocked(n) ==
    \E r \in Requests : \/ At(r, "compare") /\ requests[r].code = n
                        \/ At(r, "insert_code") /\ n \in requests[r].rows

CodesOf(subject, purpose) ==
    {n \in Codes : /\ codes[n] # None
                   /\ codes[n].subject = subject /\ codes[n].purpose = purpose}
OpenCodes(subject, purpose) == {n \in CodesOf(subject, purpose) : codes[n].open}

NewCode(subject, purpose, address) ==
    [subject |-> subject, purpose |-> purpose, address |-> address,
     attempts |-> 0, open |-> TRUE]

\* draftDataSchema: any detail may be left out, and none may be null.
Accepts(data) == \A x \in Details : data[x] # "null"

\* completeDraftSchema.
Complete(data) == Accepts(data) /\ \A x \in Mandatory : data[x] = "given"
-----------------------------------------------------------------------------
\* The page and its localStorage: the token of the registration it started last,
\* until it was completed.
Keeps(d) == held' = d
Forgets(d) == held' = IF held = d THEN None ELSE held

\* POST /start.  The reply is the same whether or not the address is taken;
\* earlier registrations of the address expire with this one's commit.
Start(r, d, email) ==
    LET earlier == {e \in Drafts : Pending(e) /\ drafts[e].email = email}
    IN  /\ requests[r] = None
        /\ drafts[d] = None
        /\ \A q \in Requests : At(q, "insert_draft") => requests[q].draft # d
        /\ \A e \in earlier : ~ DraftLocked(e)
        /\ Goes(r, [step |-> "insert_draft", draft |-> d, email |-> email,
                    taken |-> Taken(email), expiring |-> earlier])
        /\ UNCHANGED <<drafts, codes, issued, accounts, held, proved, compared,
                       passed, joined>>

\* The draft, with a code when the address is free; the page keeps the token.
StartEnd(r) ==
    LET request == requests[r]
    IN  /\ At(r, "insert_draft")
        /\ drafts' = [d \in Drafts |->
             IF d = request.draft
             THEN [email |-> request.email, data |-> [x \in Details |-> "absent"],
                   verified |-> FALSE, expired |-> FALSE, promoted |-> FALSE]
             ELSE IF d \in request.expiring THEN [drafts[d] EXCEPT !.expired = TRUE]
             ELSE drafts[d]]
        /\ \/ /\ request.taken
              /\ UNCHANGED <<codes, issued>>
           \/ /\ ~ request.taken /\ issued < MaxCodes
              /\ issued' = issued + 1
              /\ codes' = [codes EXCEPT ![issued'] =
                             NewCode(request.draft, "signup", request.email)]
        /\ Keeps(request.draft)
        /\ Ends(r)
        /\ UNCHANGED <<accounts, proved, compared, passed, joined>>

\* A transaction that will issue a code begins: created_at is its now().
Issue(r, row) ==
    /\ requests[r] = None
    /\ issued < MaxCodes
    /\ issued' = issued + 1
    /\ Goes(r, [step |-> "consume", code |-> issued', row |-> row])
    /\ UNCHANGED <<drafts, codes, accounts, held, proved, compared, passed, joined>>

\* POST /resend-code.
ResendCode(r, d) ==
    /\ Pending(d)
    /\ Issue(r, NewCode(d, "signup", drafts[d].email))

\* POST /email/change-request, when nobody has the address.
ChangeRequest(r, a, address) ==
    /\ accounts[a] # None
    /\ ~ Taken(address)
    /\ Issue(r, NewCode(a, "email_change", address))

\* POST /login, after the password.
Login(r, a) ==
    /\ accounts[a] # None
    /\ Issue(r, NewCode(a, "login", accounts[a]))

\* UPDATE ... SET consumed_at: the earlier codes of the purpose, locked.
IssueConsume(r) ==
    LET request == requests[r]
        rows == OpenCodes(request.row.subject, request.row.purpose)
    IN  /\ At(r, "consume")
        /\ \A n \in rows : ~ CodeLocked(n)
        /\ Goes(r, [step |-> "insert_code", code |-> request.code,
                    row |-> request.row, rows |-> rows])
        /\ UNCHANGED <<drafts, codes, issued, accounts, held, proved, compared,
                       passed, joined>>

\* INSERT, commit, and the mail to the address.
IssueEnd(r) ==
    LET request == requests[r]
    IN  /\ At(r, "insert_code")
        /\ codes' = [n \in Codes |->
             IF n = request.code THEN request.row
             ELSE IF n \in request.rows THEN [codes[n] EXCEPT !.open = FALSE]
             ELSE codes[n]]
        /\ Ends(r)
        /\ UNCHANGED <<drafts, issued, accounts, held, proved, compared, passed,
                       joined>>
-----------------------------------------------------------------------------
\* verifyOtp: the newest code of the subject and the purpose is chosen ...
Verify(r, subject, purpose) ==
    LET chosen == CodesOf(subject, purpose)
    IN  /\ requests[r] = None
        /\ IF purpose = "signup" THEN subject \in Drafts /\ Pending(subject)
                                 ELSE accounts[subject] # None
        /\ \E n \in chosen :
             /\ \A k \in chosen : k <= n
             /\ Goes(r, [step |-> "lock_code", code |-> n])
        /\ UNCHANGED <<drafts, codes, issued, accounts, held, proved, compared,
                       passed, joined>>

\* ... its lock is waited for, and the row read again under it (FOR UPDATE) ...
LockCode(r) ==
    LET n == requests[r].code
    IN  /\ At(r, "lock_code")
        /\ ~ CodeLocked(n)
        /\ Goes(r, [step |-> "compare", code |-> n, row |-> codes[n]])
        /\ UNCHANGED <<drafts, codes, issued, accounts, held, proved, compared,
                       passed, joined>>

\* Consumed, expired and locked-out codes are refused without a comparison.
Comparable(row) == row.open /\ row.attempts < MaxAttempts

Refuse(r) ==
    /\ At(r, "compare") /\ ~ Comparable(requests[r].row)
    /\ Ends(r)
    /\ UNCHANGED <<drafts, codes, issued, accounts, held, proved, compared,
                   passed, joined>>

\* ... a wrong code counts, in a transaction that commits ...
Mismatch(r) ==
    LET n == requests[r].code
    IN  /\ At(r, "compare") /\ Comparable(requests[r].row)
        /\ codes' = [codes EXCEPT ![n].attempts = @ + 1]
        /\ compared' = [compared EXCEPT ![n] = @ + 1]
        /\ Ends(r)
        /\ UNCHANGED <<drafts, issued, accounts, held, proved, passed, joined>>

\* ... and the right one is consumed with what it was asked for: the draft is
\* verified, the account moves to the address of the row, or a session begins
\* (Sessions).
Passing(r) ==
    LET n == requests[r].code
        row == requests[r].row
    IN  /\ At(r, "compare") /\ Comparable(row)
        /\ codes' = [codes EXCEPT ![n].open = FALSE]
        /\ compared' = [compared EXCEPT ![n] = @ + 1]
        /\ passed' = [passed EXCEPT ![n] = @ + 1]
        /\ proved' = proved \cup {<<row.subject, row.address>>}
        /\ Ends(r)
        /\ UNCHANGED <<issued, held, joined>>

VerifyDraft(r) ==
    LET row == requests[r].row
    IN  /\ Passing(r)
        /\ row.purpose = "signup"
        /\ ~ DraftLocked(row.subject)
        /\ drafts' = [drafts EXCEPT ![row.subject].verified = TRUE]
        /\ UNCHANGED accounts

ConfirmChange(r) ==
    LET row == requests[r].row
    IN  /\ Passing(r)
        /\ row.purpose = "email_change"
        /\ \A a \in Accounts \ {row.subject} : accounts[a] # row.address
        /\ accounts' = [accounts EXCEPT ![row.subject] = row.address]
        /\ UNCHANGED drafts

SignIn(r) ==
    /\ Passing(r)
    /\ requests[r].row.purpose = "login"
    /\ UNCHANGED <<drafts, accounts>>
-----------------------------------------------------------------------------
\* PATCH /draft: one detail of the screen laid over what was read.  An empty
\* box is accepted of an optional detail, and stored as null.
Save(r, d, x, value) ==
    LET merged == [drafts[d].data EXCEPT ![x] = value]
    IN  /\ requests[r] = None
        /\ Pending(d)
        /\ value = "null" => x \in Optional
        /\ Accepts([merged EXCEPT ![x] = "given"])
        /\ Goes(r, [step |-> "save", draft |-> d, data |-> merged])
        /\ UNCHANGED <<drafts, codes, issued, accounts, held, proved, compared,
                       passed, joined>>

SaveEnd(r) ==
    LET request == requests[r]
    IN  /\ At(r, "save")
        /\ ~ DraftLocked(request.draft)
        /\ drafts' = [drafts EXCEPT ![request.draft].data = request.data]
        /\ Ends(r)
        /\ UNCHANGED <<codes, issued, accounts, held, proved, compared, passed,
                       joined>>

\* Mutant: the declaration alone is asked for.
NotAsked(d) == TRUE

VerifiedEmail(d) == drafts[d].verified

\* POST /complete: what is asked of the draft is asked before the transaction.
Finish(r, d) ==
    /\ requests[r] = None
    /\ Pending(d)
    /\ VerifiedEmail(d)
    /\ Complete(drafts[d].data)
    /\ Goes(r, [step |-> "lock_draft", draft |-> d, form |-> drafts[d].data])
    /\ UNCHANGED <<drafts, codes, issued, accounts, held, proved, compared,
                   passed, joined>>

\* Mutant: what was read before the transaction is enough.
PendingAsRead(d) == TRUE

\* SELECT ... WHERE promoted_at IS NULL FOR UPDATE.
StillPending(d) == ~ drafts[d].promoted

LockDraft(r) ==
    LET d == requests[r].draft
    IN  /\ At(r, "lock_draft")
        /\ ~ DraftLocked(d)
        /\ StillPending(d)
        /\ ~ Taken(drafts[d].email)
        /\ Goes(r, [requests[r] EXCEPT !.step = "join"])
        /\ UNCHANGED <<drafts, codes, issued, accounts, held, proved, compared,
                       passed, joined>>

\* Mutant: the SELECT under the lock of the draft is all that guards it.
EmailAsSelected(d) == TRUE

\* The unique index on lower(email) sees every commit before this one.
EmailFree(d) == ~ Taken(drafts[d].email)

Join(r) ==
    LET d == requests[r].draft
    IN  /\ At(r, "join")
        /\ EmailFree(d)
        /\ drafts' = [drafts EXCEPT ![d].promoted = TRUE]
        /\ accounts' = [accounts EXCEPT ![d] = drafts[d].email]
        /\ joined' = [joined EXCEPT ![d] = @ + 1]
        /\ Forgets(d)
        /\ Ends(r)
        /\ UNCHANGED <<codes, issued, proved, compared, passed>>

\* The page opens with the token of a draft: GET /draft answers with what was
\* saved, or the token is removed, whatever the failure was.
Restore(answered) ==
    /\ held # None
    /\ held' = IF answered /\ Pending(held) /\ Accepts(drafts[held].data)
               THEN held ELSE None
    /\ UNCHANGED <<drafts, codes, issued, accounts, requests, proved, compared,
                   passed, joined>>

\* Thirty days, or ten minutes, go by.
DraftExpires(d) ==
    /\ Pending(d)
    /\ ~ DraftLocked(d)
    /\ drafts' = [drafts EXCEPT ![d].expired = TRUE]
    /\ UNCHANGED <<codes, issued, accounts, requests, held, proved, compared,
                   passed, joined>>

CodeExpires(n) ==
    /\ codes[n] # None
    /\ codes[n].open /\ ~ CodeLocked(n)
    /\ codes' = [codes EXCEPT ![n].open = FALSE]
    /\ UNCHANGED <<drafts, issued, accounts, requests, held, proved, compared,
                   passed, joined>>

\* A refusal, a username or an ID taken, or a failure: the transaction is
\* rolled back and its locks go.
Fail(r) ==
    /\ requests[r] # None
    /\ Ends(r)
    /\ UNCHANGED <<drafts, codes, issued, accounts, held, proved, compared,
                   passed, joined>>
-----------------------------------------------------------------------------
Begin(r) ==
    \/ \E d \in Drafts :
         \/ \E email \in Addresses : Start(r, d, email)
         \/ ResendCode(r, d)
         \/ Finish(r, d)
         \/ \E x \in Details, value \in {"given", "null"} : Save(r, d, x, value)
    \/ \E a \in Accounts :
         \/ \E address \in Addresses : ChangeRequest(r, a, address)
         \/ Login(r, a)
         \/ \E purpose \in Purposes : Verify(r, a, purpose)

Step(r) ==
    \/ StartEnd(r)
    \/ IssueConsume(r)
    \/ IssueEnd(r)
    \/ LockCode(r)
    \/ Refuse(r)
    \/ Mismatch(r)
    \/ VerifyDraft(r)
    \/ ConfirmChange(r)
    \/ SignIn(r)
    \/ SaveEnd(r)
    \/ LockDraft(r)
    \/ Join(r)
    \/ Fail(r)

Next ==
    \/ \E r \in Requests : Begin(r) \/ Step(r)
    \/ \E answered \in BOOLEAN : Restore(answered)
    \/ \E d \in Drafts : DraftExpires(d)
    \/ \E n \in Codes : CodeExpires(n)

Spec == Init /\ [][Next]_vars
-----------------------------------------------------------------------------
\* Nobody has an account at an address that no code mailed to it has proved,
\* though the draft is verified, saved, expired and completed by requests that
\* each act on what they read earlier, and an address can change meanwhile.
EmailsAreProved ==
    \A a \in Accounts : accounts[a] # None => <<a, accounts[a]>> \in proved

\* Two registrations of one address may both be verified, and a member may move
\* to the address between the check and the commit: still one account has it.
OneAccountPerAddress ==
    \A a, b \in Accounts : accounts[a] # None /\ accounts[a] = accounts[b] => a = b

\* Requests that try codes at the same time cannot between them make more
\* comparisons with a code than OTP_MAX_ATTEMPTS, nor use it twice.
CodesAreBounded ==
    \A n \in Codes : compared[n] <= MaxAttempts /\ passed[n] <= 1

\* A registration sent twice makes one member, even when the first one has
\* already moved to another address by the time the second gets the lock.
OneMemberPerDraft == \A d \in Drafts : joined[d] <= 1

\* What the page says of a registration: saved as the applicant goes, and picked
\* up from there.  A page that opens again and gets an answer keeps its token
\* unless the draft expired or was completed.
ProgressIsKept ==
    [][Restore(TRUE) /\ held' = None => ~ Pending(held)]_vars
=============================================================================

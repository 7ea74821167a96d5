------------------------------ MODULE Welfare ------------------------------
(***************************************************************************)
(* Welfare claims (src/src/routes/admin-welfare.ts) and the snapshots a    *)
(* decision rests on (matrix_scores, written by src/src/matrix/snapshot.ts *)
(* and never changed).                                                     *)
(*                                                                         *)
(* Deciding, paying and withdrawing read the claim FOR UPDATE, check its   *)
(* status, and write; opening is one INSERT behind a partial unique index. *)
(* `requests' holds what a request has read and is going to write.         *)
(***************************************************************************)
EXTENDS Naturals

CONSTANTS
    Claims,      \* welfare_claims.id
    Members,     \* members.id
    Kinds,       \* welfare_support_type
    Weddings,    \* the kinds that have to name an event
    Events,      \* events.id
    Periods,     \* months, 'YYYY-MM'
    Standings,   \* matrix_standing
    Good,        \* 'in_good_standing'
    Requests,    \* HTTP requests the server can have in flight at once
    None         \* SQL NULL, a missing row, an idle request

ASSUME WelfareAssumption ==
    /\ Weddings \subseteq Kinds
    /\ Good \in Standings
    /\ None \notin Events \cup Periods \cup Standings

VARIABLES
    claims,      \* welfare_claims
    snapshots,   \* matrix_scores.standing by member and month
    requests     \* the requests in flight, past their checks

vars == <<claims, snapshots, requests>>

Status == {"pending", "approved", "rejected", "paid", "cancelled"}

\* decided, paid: decided_at and paid_at are set.  excused: the audit entry of the
\* decision carries an override_reason.
Claim == [member : Members, kind : Kinds, event : Events \cup {None}, status : Status,
          decided : BOOLEAN, paid : BOOLEAN, excused : BOOLEAN,
          period : Periods \cup {None}, relied : Standings \cup {None}]

Decision == [op : {"decide"}, claim : Claims, outcome : {"approved", "rejected"},
             period : Periods, relied : Standings \cup {None}, excused : BOOLEAN]

Request == Decision \cup [op : {"pay", "cancel"}, claim : Claims]

\* A row is never NULL, nor is a request at work idle.
ASSUME WelfareRowAssumption ==
    /\ None \notin Claim
    /\ None \notin Request

TypeOK ==
    /\ claims \in [Claims -> Claim \cup {None}]
    /\ snapshots \in [Members -> [Periods -> Standings \cup {None}]]
    /\ requests \in [Requests -> Request \cup {None}]

Init ==
    /\ claims = [c \in Claims |-> None]
    /\ snapshots = [m \in Members |-> [p \in Periods |-> None]]
    /\ requests = [r \in Requests |-> None]
-----------------------------------------------------------------------------
Opened == {c \in Claims : claims[c] # None}
Idle(r) == requests[r] = None
Doing(r, op) == requests[r] # None /\ requests[r].op = op
Finish(r) == requests' = [requests EXCEPT ![r] = None]

\* Mutant: the claim is read without FOR UPDATE.
NeverLocked(c) == c \notin Claims

\* SELECT ... FOR UPDATE, held until the transaction ends.
Locked(c) == \E r \in Requests : requests[r] # None /\ requests[r].claim = c

\* Mutant: the index leaves paid claims out as well.
FreeOncePaid(member, kind, event) ==
    \A c \in Opened : claims[c].member = member /\ claims[c].kind = kind /\ claims[c].event = event
                        => claims[c].status \notin {"pending", "approved"}

\* The index welfare_claims_one_per_member_event: a claim for the same event counts
\* unless it was rejected or withdrawn.
Free(member, kind, event) ==
    \A c \in Opened : claims[c].member = member /\ claims[c].kind = kind /\ claims[c].event = event
                        => claims[c].status \in {"rejected", "cancelled"}

NewClaim(member, kind, event) ==
    [member |-> member, kind |-> kind, event |-> event, status |-> "pending",
     decided |-> FALSE, paid |-> FALSE, excused |-> FALSE, period |-> None, relied |-> None]

\* Mutant: any snapshot will do.
ApprovableOnFile(relied, excused) == excused \/ relied # None

\* An approval needs a snapshot in good standing, or a reason.
Approvable(relied, excused) == excused \/ relied = Good

Decided(claim, q) ==
    [claim EXCEPT !.status = q.outcome, !.decided = TRUE, !.period = q.period,
                  !.relied = q.relied, !.excused = q.excused]
-----------------------------------------------------------------------------
OpenClaim(c, member, kind, event) ==
    /\ claims[c] = None
    /\ kind \in Weddings => event # None
    /\ event # None => Free(member, kind, event)
    /\ claims' = [claims EXCEPT ![c] = NewClaim(member, kind, event)]
    /\ UNCHANGED <<snapshots, requests>>

\* The lock, the status and the snapshot: what the decision will rest on.
Decide(r, c, outcome, period, excused) ==
    /\ Idle(r)
    /\ c \in Opened /\ ~Locked(c)
    /\ claims[c].status = "pending"
    /\ LET relied == snapshots[claims[c].member][period]
       IN /\ outcome = "approved" => Approvable(relied, excused)
          /\ requests' = [requests EXCEPT ![r] =
                 [op |-> "decide", claim |-> c, outcome |-> outcome, period |-> period,
                  relied |-> relied, excused |-> excused]]
    /\ UNCHANGED <<claims, snapshots>>

StoreDecision(r) ==
    /\ Doing(r, "decide")
    /\ claims' = [claims EXCEPT ![requests[r].claim] = Decided(@, requests[r])]
    /\ Finish(r)
    /\ UNCHANGED snapshots

Pay(r, c) ==
    /\ Idle(r)
    /\ c \in Opened /\ ~Locked(c)
    /\ claims[c].status = "approved"
    /\ requests' = [requests EXCEPT ![r] = [op |-> "pay", claim |-> c]]
    /\ UNCHANGED <<claims, snapshots>>

StorePayment(r) ==
    /\ Doing(r, "pay")
    /\ claims' = [claims EXCEPT ![requests[r].claim] = [@ EXCEPT !.status = "paid", !.paid = TRUE]]
    /\ Finish(r)
    /\ UNCHANGED snapshots

\* Mutant: only a claim withdrawn before is refused.
WithdrawablePaid(c) == c \in Opened /\ claims[c].status # "cancelled"

Withdrawable(c) == c \in Opened /\ claims[c].status \notin {"paid", "cancelled"}

Cancel(r, c) ==
    /\ Idle(r)
    /\ Withdrawable(c) /\ ~Locked(c)
    /\ requests' = [requests EXCEPT ![r] = [op |-> "cancel", claim |-> c]]
    /\ UNCHANGED <<claims, snapshots>>

StoreCancellation(r) ==
    /\ Doing(r, "cancel")
    /\ claims' = [claims EXCEPT ![requests[r].claim] = [@ EXCEPT !.status = "cancelled"]]
    /\ Finish(r)
    /\ UNCHANGED snapshots

\* A restart, or a failed statement: the transaction is rolled back.
Fail(r) ==
    /\ ~Idle(r)
    /\ Finish(r)
    /\ UNCHANGED <<claims, snapshots>>

\* The month's snapshot of a member: ON CONFLICT (member_id, period) DO NOTHING.
WriteSnapshot(member, period, standing) ==
    /\ snapshots[member][period] = None
    /\ snapshots' = [snapshots EXCEPT ![member][period] = standing]
    /\ UNCHANGED <<claims, requests>>

Next ==
    \/ \E c \in Claims, m \in Members, kind \in Kinds, event \in Events \cup {None} :
         OpenClaim(c, m, kind, event)
    \/ \E r \in Requests :
         \/ \E c \in Claims, outcome \in {"approved", "rejected"}, period \in Periods,
               excused \in BOOLEAN : Decide(r, c, outcome, period, excused)
         \/ \E c \in Claims : Pay(r, c) \/ Cancel(r, c)
         \/ StoreDecision(r)
         \/ StorePayment(r)
         \/ StoreCancellation(r)
         \/ Fail(r)
    \/ \E m \in Members, period \in Periods, standing \in Standings :
         WriteSnapshot(m, period, standing)

Spec == Init /\ [][Next]_vars
-----------------------------------------------------------------------------
\* However claims are opened, refused, withdrawn and opened again, a member is paid
\* at most once of each kind for one event.
PaidOncePerEvent ==
    \A c, d \in Opened :
        /\ claims[c].paid /\ claims[d].paid
        /\ claims[c].event # None /\ claims[c].event = claims[d].event
        /\ claims[c].member = claims[d].member /\ claims[c].kind = claims[d].kind
        => c = d

\* What was approved or paid without a reason can be explained at any later time: it
\* rests on a snapshot in good standing, which is still what that month's says.
ApprovalsAreEvidenced ==
    \A c \in Opened :
        /\ claims[c].relied # None =>
             snapshots[claims[c].member][claims[c].period] = claims[c].relied
        /\ claims[c].status \in {"approved", "paid"} /\ ~claims[c].excused =>
             claims[c].relied = Good

\* A payment is never taken back: no claim that was paid ends up withdrawn, refused
\* or open again, whatever was in flight when it was paid.
PaymentsStand == \A c \in Opened : claims[c].paid => claims[c].status = "paid"

\* A claim is decided once: the month, the standing and the reason on the record are
\* never replaced by those of another decision.
DecidedOnce ==
    [][\A c \in Opened : claims[c].decided =>
         /\ claims'[c].decided
         /\ claims'[c].period = claims[c].period
         /\ claims'[c].relied = claims[c].relied
         /\ claims'[c].excused = claims[c].excused]_vars
=============================================================================

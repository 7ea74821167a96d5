--------------------------- MODULE WelfareProofs ---------------------------
(***************************************************************************)
(* Proofs about Welfare, for every value of its constants.                 *)
(***************************************************************************)
EXTENDS Welfare, TLAPS

\* A claim's record agrees with itself and with the snapshots it names.
Sound(claim) ==
    /\ claim.paid => claim.status = "paid"
    /\ claim.status = "pending" => ~claim.decided
    /\ claim.relied # None =>
         claim.period \in Periods /\ snapshots[claim.member][claim.period] = claim.relied
    /\ claim.status \in {"approved", "paid"} /\ ~claim.excused => claim.relied = Good

ClaimsSound == \A c \in Opened : Sound(claims[c])

\* What a request has checked is still so when it writes.
Current(q) ==
    /\ q.claim \in Opened
    /\ q.op = "decide" =>
         /\ claims[q.claim].status = "pending"
         /\ q.outcome = "approved" => Approvable(q.relied, q.excused)
         /\ q.relied # None => snapshots[claims[q.claim].member][q.period] = q.relied
    /\ q.op = "pay" => claims[q.claim].status = "approved"
    /\ q.op = "cancel" => claims[q.claim].status \notin {"paid", "cancelled"}

RequestsCurrent == \A r \in Requests : requests[r] # None => Current(requests[r])

LocksExclude ==
    \A r, q \in Requests :
        /\ requests[r] # None /\ requests[q] # None
        /\ requests[r].claim = requests[q].claim
        => r = q

Live(claim) == claim.status \notin {"rejected", "cancelled"}
SameCause(a, b) == a.member = b.member /\ a.kind = b.kind /\ a.event = b.event

OneLivePerEvent ==
    \A c, d \in Opened :
        /\ Live(claims[c]) /\ Live(claims[d])
        /\ SameCause(claims[c], claims[d]) /\ claims[c].event # None
        => c = d

WelfareInv == TypeOK /\ ClaimsSound /\ RequestsCurrent /\ LocksExclude /\ OneLivePerEvent

\* The facts of a decision stay on the record.
Kept(old, new) ==
    old.decided => /\ new.decided
                   /\ new.period = old.period
                   /\ new.relied = old.relied
                   /\ new.excused = old.excused

KeepsDecisions == \A c \in Opened : Kept(claims[c], claims'[c])

-----------------------------------------------------------------------------
\* A request that ends by writing the claim it holds.
LEMMA WriteClaim ==
    ASSUME WelfareInv, NEW r \in Requests, requests[r] # None,
           NEW new \in Claim,
           claims' = [claims EXCEPT ![requests[r].claim] = new],
           Finish(r), UNCHANGED snapshots,
           Sound(new), SameCause(new, claims[requests[r].claim]),
           Live(new) => Live(claims[requests[r].claim]),
           Kept(claims[requests[r].claim], new)
    PROVE  WelfareInv' /\ KeepsDecisions
<1> USE WelfareRowAssumption
<1> DEFINE c == requests[r].claim
<1>1. c \in Opened /\ c \in Claims /\ new # None
  BY DEF WelfareInv, RequestsCurrent, Current, Opened
<1>2. claims'[c] = new /\ \A d \in Claims \ {c} : claims'[d] = claims[d]
  BY <1>1 DEF WelfareInv, TypeOK
<1>3. requests'[r] = None /\ \A q \in Requests \ {r} : requests'[q] = requests[q]
  BY DEF Finish, WelfareInv, TypeOK
<1>4. Opened' = Opened
  BY <1>1, <1>2 DEF Opened
<1>5. TypeOK'
  BY <1>1 DEF WelfareInv, TypeOK, Finish
<1>6. ClaimsSound'
  BY <1>1, <1>2, <1>4 DEF WelfareInv, ClaimsSound, Sound, Opened
<1>7. LocksExclude'
  BY <1>3 DEF WelfareInv, LocksExclude
<1>8. RequestsCurrent'
  <2>1. SUFFICES ASSUME NEW q \in Requests, requests'[q] # None
                 PROVE  Current(requests[q])'
    BY DEF RequestsCurrent
  <2>2. q # r /\ requests'[q] = requests[q]
    BY <1>3, <2>1
  <2>3. requests[q].claim \in Claims \ {c}
    BY <2>1, <2>2 DEF WelfareInv, LocksExclude, RequestsCurrent, Current, Opened
  <2>4. Current(requests[q])
    BY <2>1, <2>2 DEF WelfareInv, RequestsCurrent
  <2>5. QED
    BY <1>2, <1>4, <2>2, <2>3, <2>4 DEF Current
<1>9. OneLivePerEvent'
  BY <1>1, <1>2, <1>4 DEF WelfareInv, OneLivePerEvent, SameCause, Opened
<1>10. KeepsDecisions
  BY <1>1, <1>2 DEF KeepsDecisions, Kept, Opened
<1>11. QED  BY <1>5, <1>6, <1>7, <1>8, <1>9, <1>10 DEF WelfareInv

\* A request that has passed its checks.
LEMMA TakeClaim ==
    ASSUME WelfareInv, NEW r \in Requests, NEW q \in Request, Idle(r),
           ~Locked(q.claim), Current(q),
           requests' = [requests EXCEPT ![r] = q],
           UNCHANGED <<claims, snapshots>>
    PROVE  WelfareInv' /\ KeepsDecisions
<1> USE WelfareRowAssumption
<1>1. requests'[r] = q /\ \A s \in Requests \ {r} : requests'[s] = requests[s]
  BY DEF WelfareInv, TypeOK
<1>2. \A s \in Requests : requests[s] # None => requests[s].claim # q.claim
  BY DEF Locked
<1>3. TypeOK'
  BY DEF WelfareInv, TypeOK
<1>4. ClaimsSound' /\ OneLivePerEvent'
  BY DEF WelfareInv, ClaimsSound, Sound, OneLivePerEvent, Opened
<1>5. LocksExclude'
  BY <1>1, <1>2 DEF WelfareInv, LocksExclude
<1>6. RequestsCurrent'
  <2>1. SUFFICES ASSUME NEW s \in Requests, requests'[s] # None
                 PROVE  Current(requests[s])'
    BY DEF RequestsCurrent
  <2>2. CASE s = r
    BY <1>1, <2>2 DEF Current, Opened
  <2>3. CASE s # r
    BY <1>1, <2>1, <2>3 DEF WelfareInv, RequestsCurrent, Current, Opened
  <2>4. QED  BY <2>2, <2>3
<1>7. KeepsDecisions
  BY DEF KeepsDecisions, Kept
<1>8. QED  BY <1>3, <1>4, <1>5, <1>6, <1>7 DEF WelfareInv
-----------------------------------------------------------------------------
LEMMA WelfareStep ==
    ASSUME WelfareInv, [Next]_vars
    PROVE  WelfareInv' /\ KeepsDecisions
<1> USE WelfareRowAssumption
<1>1. ASSUME NEW c \in Claims, NEW m \in Members, NEW kind \in Kinds,
             NEW event \in Events \cup {None}, OpenClaim(c, m, kind, event)
      PROVE  WelfareInv' /\ KeepsDecisions
  <2> DEFINE new == NewClaim(m, kind, event)
  <2>1. new \in Claim /\ new # None
    <3>1. new \in Claim
      BY DEF NewClaim, Claim, Status
    <3>2. QED  BY <3>1
  <2>2. /\ new.member = m /\ new.kind = kind /\ new.event = event
        /\ new.status = "pending" /\ new.relied = None
        /\ new.decided = FALSE /\ new.paid = FALSE
    BY DEF NewClaim
  <2>3. claims'[c] = new /\ \A d \in Claims \ {c} : claims'[d] = claims[d]
    BY <1>1 DEF OpenClaim, WelfareInv, TypeOK
  <2>4. c \notin Opened /\ Opened' = Opened \cup {c}
    BY <1>1, <2>1, <2>3 DEF OpenClaim, Opened
  <2>5. TypeOK'
    BY <1>1, <2>1 DEF OpenClaim, WelfareInv, TypeOK
  <2>6. Sound(new)
    BY <2>2 DEF Sound
  <2>7. ClaimsSound'
    BY <1>1, <2>3, <2>4, <2>6 DEF OpenClaim, WelfareInv, ClaimsSound, Sound, Opened
  <2>8. LocksExclude'
    BY <1>1 DEF OpenClaim, WelfareInv, LocksExclude
  <2>9. RequestsCurrent'
    BY <1>1, <2>3, <2>4 DEF OpenClaim, WelfareInv, RequestsCurrent, Current, Opened
  <2>10. OneLivePerEvent'
    <3>1. \A d \in Opened : /\ SameCause(new, claims[d]) \/ SameCause(claims[d], new)
                            /\ event # None
                            => ~Live(claims[d])
      BY <1>1, <2>2 DEF OpenClaim, Free, SameCause, Live
    <3>2. \A d \in Opened : claims'[d] = claims[d] /\ d # c
      BY <2>3, <2>4 DEF Opened
    <3>3. QED
      BY <2>2, <2>3, <2>4, <3>1, <3>2 DEF WelfareInv, OneLivePerEvent, SameCause
  <2>11. KeepsDecisions
    BY <2>3, <2>4 DEF KeepsDecisions, Kept, Opened
  <2>12. QED  BY <2>5, <2>7, <2>8, <2>9, <2>10, <2>11 DEF WelfareInv
<1>2. ASSUME NEW r \in Requests, NEW c \in Claims, NEW outcome \in {"approved", "rejected"},
             NEW period \in Periods, NEW excused \in BOOLEAN,
             Decide(r, c, outcome, period, excused)
      PROVE  WelfareInv' /\ KeepsDecisions
  <2> DEFINE relied == snapshots[claims[c].member][period]
             q == [op |-> "decide", claim |-> c, outcome |-> outcome, period |-> period,
                   relied |-> relied, excused |-> excused]
  <2>1. claims[c] \in Claim /\ c \in Opened
    BY <1>2 DEF Decide, WelfareInv, TypeOK, Opened
  <2>2. relied \in Standings \cup {None}
    BY <2>1 DEF WelfareInv, TypeOK, Claim
  <2>3. q \in Request
    BY <2>2 DEF Request, Decision
  <2>4. Current(q)
    BY <1>2, <2>1 DEF Decide, Current
  <2>5. QED
    BY <1>2, <2>3, <2>4, TakeClaim DEF Decide
<1>3. ASSUME NEW r \in Requests, NEW c \in Claims, Pay(r, c)
      PROVE  WelfareInv' /\ KeepsDecisions
  <2> DEFINE q == [op |-> "pay", claim |-> c]
  <2>1. q \in Request
    BY DEF Request
  <2>2. Current(q)
    BY <1>3 DEF Pay, Current
  <2>3. QED
    BY <1>3, <2>1, <2>2, TakeClaim DEF Pay
<1>4. ASSUME NEW r \in Requests, NEW c \in Claims, Cancel(r, c)
      PROVE  WelfareInv' /\ KeepsDecisions
  <2> DEFINE q == [op |-> "cancel", claim |-> c]
  <2>1. q \in Request
    BY DEF Request
  <2>2. Current(q)
    BY <1>4 DEF Cancel, Withdrawable, Current
  <2>3. QED
    BY <1>4, <2>1, <2>2, TakeClaim DEF Cancel
<1>5. ASSUME NEW r \in Requests, StoreDecision(r)
      PROVE  WelfareInv' /\ KeepsDecisions
  <2> DEFINE q == requests[r]
             old == claims[q.claim]
             new == Decided(old, q)
  <2>1. q # None /\ Current(q) /\ q \in Decision /\ old \in Claim
    BY <1>5 DEF StoreDecision, Doing, WelfareInv, RequestsCurrent, Current, TypeOK, Request,
                Opened
  <2>2. /\ new \in Claim
        /\ new.status = q.outcome /\ new.period = q.period /\ new.relied = q.relied
        /\ new.excused = q.excused /\ new.paid = old.paid
        /\ new.member = old.member /\ new.kind = old.kind /\ new.event = old.event
    BY <2>1 DEF Decided, Claim, Status, Decision
  <2>3. old.status = "pending" /\ ~old.decided /\ ~old.paid
    BY <2>1 DEF Current, Decision, WelfareInv, ClaimsSound, Sound
  <2>4. Sound(new)
    <3>1. q.outcome \in {"approved", "rejected"} /\ q.period \in Periods
      BY <2>1 DEF Decision
    <3>2. q.outcome = "approved" /\ ~q.excused => q.relied = Good
      BY <2>1 DEF Current, Decision, Approvable
    <3>3. q.relied # None => snapshots[old.member][q.period] = q.relied
      BY <2>1 DEF Current, Decision
    <3>4. QED  BY <2>2, <2>3, <3>1, <3>2, <3>3 DEF Sound
  <2>5. SameCause(new, old) /\ (Live(new) => Live(old)) /\ Kept(old, new)
    BY <2>2, <2>3 DEF SameCause, Live, Kept
  <2>6. QED
    BY <1>5, <2>1, <2>2, <2>4, <2>5, WriteClaim DEF StoreDecision
<1>6. ASSUME NEW r \in Requests, StorePayment(r)
      PROVE  WelfareInv' /\ KeepsDecisions
  <2> DEFINE q == requests[r]
             old == claims[q.claim]
             new == [old EXCEPT !.status = "paid", !.paid = TRUE]
  <2>1. q # None /\ Current(q) /\ old \in Claim /\ q.op = "pay" /\ q.claim \in Opened
    BY <1>6 DEF StorePayment, Doing, WelfareInv, RequestsCurrent, Current, TypeOK, Opened
  <2>2. /\ new \in Claim
        /\ new.status = "paid" /\ new.decided = old.decided
        /\ new.period = old.period /\ new.relied = old.relied /\ new.excused = old.excused
        /\ new.member = old.member /\ new.kind = old.kind /\ new.event = old.event
    BY <2>1 DEF Claim, Status
  <2>3. old.status = "approved" /\ Sound(old)
    BY <2>1 DEF Current, WelfareInv, ClaimsSound
  <2>4. Sound(new)
    BY <2>2, <2>3 DEF Sound
  <2>5. SameCause(new, old) /\ (Live(new) => Live(old)) /\ Kept(old, new)
    BY <2>2, <2>3 DEF SameCause, Live, Kept
  <2>6. QED
    BY <1>6, <2>1, <2>2, <2>4, <2>5, WriteClaim DEF StorePayment
<1>7. ASSUME NEW r \in Requests, StoreCancellation(r)
      PROVE  WelfareInv' /\ KeepsDecisions
  <2> DEFINE q == requests[r]
             old == claims[q.claim]
             new == [old EXCEPT !.status = "cancelled"]
  <2>1. q # None /\ Current(q) /\ old \in Claim /\ q.op = "cancel" /\ q.claim \in Opened
    BY <1>7 DEF StoreCancellation, Doing, WelfareInv, RequestsCurrent, Current, TypeOK, Opened
  <2>2. /\ new \in Claim
        /\ new.status = "cancelled" /\ new.decided = old.decided /\ new.paid = old.paid
        /\ new.period = old.period /\ new.relied = old.relied /\ new.excused = old.excused
        /\ new.member = old.member /\ new.kind = old.kind /\ new.event = old.event
    BY <2>1 DEF Claim, Status
  <2>3. old.status # "paid" /\ Sound(old)
    BY <2>1 DEF Current, WelfareInv, ClaimsSound
  <2>4. Sound(new)
    BY <2>2, <2>3 DEF Sound
  <2>5. SameCause(new, old) /\ (Live(new) => Live(old)) /\ Kept(old, new)
    BY <2>2, <2>3 DEF SameCause, Live, Kept
  <2>6. QED
    BY <1>7, <2>1, <2>2, <2>4, <2>5, WriteClaim DEF StoreCancellation
<1>8. ASSUME NEW r \in Requests, Fail(r)
      PROVE  WelfareInv' /\ KeepsDecisions
  <2>1. requests'[r] = None /\ \A q \in Requests \ {r} : requests'[q] = requests[q]
    BY <1>8 DEF Fail, Finish, WelfareInv, TypeOK
  <2>2. TypeOK'
    BY <1>8 DEF Fail, Finish, WelfareInv, TypeOK
  <2>3. UNCHANGED <<claims, snapshots>>
    BY <1>8 DEF Fail
  <2>4. ClaimsSound' /\ OneLivePerEvent' /\ KeepsDecisions
    BY <2>3 DEF WelfareInv, ClaimsSound, Sound, OneLivePerEvent, Opened, KeepsDecisions, Kept
  <2>5. LocksExclude'
    BY <2>1 DEF WelfareInv, LocksExclude
  <2>6. RequestsCurrent'
    BY <2>1, <2>3 DEF WelfareInv, RequestsCurrent, Current, Opened
  <2>7. QED  BY <2>2, <2>4, <2>5, <2>6 DEF WelfareInv
<1>9. ASSUME NEW m \in Members, NEW period \in Periods, NEW standing \in Standings,
             WriteSnapshot(m, period, standing)
      PROVE  WelfareInv' /\ KeepsDecisions
  <2>1. \A x \in Members, p \in Periods :
           snapshots[x][p] # None => snapshots'[x][p] = snapshots[x][p]
    BY <1>9 DEF WriteSnapshot, WelfareInv, TypeOK
  <2>2. UNCHANGED <<claims, requests>>
    BY <1>9 DEF WriteSnapshot
  <2>3. TypeOK'
    BY <1>9 DEF WriteSnapshot, WelfareInv, TypeOK
  <2>4. \A c \in Opened : claims[c] \in Claim /\ claims[c].member \in Members
    BY DEF WelfareInv, TypeOK, Opened, Claim
  <2>5. ClaimsSound'
    BY <2>1, <2>2, <2>4 DEF WelfareInv, ClaimsSound, Sound, Opened
  <2>6. OneLivePerEvent' /\ LocksExclude' /\ KeepsDecisions
    BY <2>2 DEF WelfareInv, OneLivePerEvent, LocksExclude, Opened, KeepsDecisions, Kept
  <2>7. RequestsCurrent'
    <3>1. SUFFICES ASSUME NEW r \in Requests, requests[r] # None
                   PROVE  Current(requests[r])'
      BY <2>2 DEF RequestsCurrent
    <3>2. Current(requests[r]) /\ requests[r] \in Request
      BY <3>1 DEF WelfareInv, RequestsCurrent, TypeOK
    <3>3. requests[r].op = "decide" => requests[r].period \in Periods
      BY <3>2 DEF Request, Decision
    <3>4. QED
      BY <2>1, <2>2, <2>4, <3>2, <3>3 DEF Current, Opened
  <2>8. QED  BY <2>3, <2>5, <2>6, <2>7 DEF WelfareInv
<1>10. ASSUME UNCHANGED vars
       PROVE  WelfareInv' /\ KeepsDecisions
  BY <1>10 DEF vars, WelfareInv, TypeOK, ClaimsSound, Sound, RequestsCurrent, Current, LocksExclude,
               OneLivePerEvent, Opened, KeepsDecisions, Kept
<1>11. QED
  BY <1>1, <1>2, <1>3, <1>4, <1>5, <1>6, <1>7, <1>8, <1>9, <1>10 DEF Next

LEMMA WelfareInit == Init => WelfareInv
  BY DEF Init, WelfareInv, TypeOK, ClaimsSound, RequestsCurrent, LocksExclude, OneLivePerEvent,
         Opened

LEMMA WelfareInvariant == Spec => []WelfareInv
<1>1. WelfareInv /\ [Next]_vars => WelfareInv'
  BY WelfareStep
<1>2. QED  BY WelfareInit, <1>1, PTL DEF Spec
-----------------------------------------------------------------------------
\* Every reachable state of the claims and of the requests on them is well typed.
THEOREM ClaimTypes == Spec => []TypeOK
<1>1. WelfareInv => TypeOK
  BY DEF WelfareInv
<1>2. QED  BY WelfareInvariant, <1>1, PTL

\* However claims for one event are refused, withdrawn and opened again, a member is
\* paid once of each kind for it (the index welfare_claims_one_per_member_event).
THEOREM PaidOnce == Spec => []PaidOncePerEvent
<1>1. WelfareInv => PaidOncePerEvent
  BY DEF WelfareInv, ClaimsSound, Sound, OneLivePerEvent, Live, SameCause, PaidOncePerEvent
<1>2. QED  BY WelfareInvariant, <1>1, PTL

\* A payment is not taken back by an officer who withdraws the claim at the same time
\* (the row locks of decide, pay and cancel).
THEOREM PaidForAll == Spec => []PaymentsStand
<1>1. WelfareInv => PaymentsStand
  BY DEF WelfareInv, ClaimsSound, Sound, PaymentsStand
<1>2. QED  BY WelfareInvariant, <1>1, PTL

\* An approval can be explained a year later: the standing on the record is the one
\* the immutable snapshot of its month gives (admin-welfare.ts:247-279).
THEOREM ApprovalsCanBeExplained == Spec => []ApprovalsAreEvidenced
<1>1. WelfareInv => ApprovalsAreEvidenced
  BY DEF WelfareInv, ClaimsSound, Sound, ApprovalsAreEvidenced
<1>2. QED  BY WelfareInvariant, <1>1, PTL

\* Two officers who decide one claim at the same time do not both succeed
\* (admin-welfare.ts:240-245).
THEOREM DecisionsAreMadeOnce == Spec => DecidedOnce
<1>1. WelfareInv /\ [Next]_vars =>
        [\A c \in Opened : claims[c].decided =>
           /\ claims'[c].decided
           /\ claims'[c].period = claims[c].period
           /\ claims'[c].relied = claims[c].relied
           /\ claims'[c].excused = claims[c].excused]_vars
  BY WelfareStep DEF KeepsDecisions, Kept
<1>2. QED  BY WelfareInvariant, <1>1, PTL DEF Spec, DecidedOnce
=============================================================================

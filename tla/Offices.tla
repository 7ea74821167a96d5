------------------------------ MODULE Offices ------------------------------
(***************************************************************************)
(* Terms of office (src/src/routes/admin-offices.ts) and the access they   *)
(* confer (src/src/auth/authz.ts, src/src/middleware/auth.ts).             *)
(*                                                                         *)
(* A post is an office at a level, and for a prayer house the house: what  *)
(* the partial unique indexes of office_holders tell apart.  Opening,      *)
(* closing and handing over first look (is the member within the term      *)
(* limit, is this the last office of access) and then write; transactions  *)
(* are READ COMMITTED, so other officers write between the two.            *)
(***************************************************************************)
EXTENDS Naturals, FiniteSets

CONSTANTS
    Members,      \* members.id
    Accounts,     \* the members who have a users row
    Posts,        \* the posts office_types places at a level, and that are active
    AdminPosts,   \* the parish posts of matrix_config admin_offices
    Terms,        \* office_holders.id
    Requests,     \* HTTP requests the server can have in flight at once
    MaxTerms,     \* matrix_config office_max_terms
    Days,         \* dates
    None          \* SQL NULL, a missing row, an idle request

ASSUME OfficeAssumption ==
    /\ Accounts \subseteq Members
    /\ AdminPosts \subseteq Posts
    /\ MaxTerms \in Nat
    /\ Days \subseteq Nat
    /\ None \notin Days

VARIABLES
    terms,     \* office_holders
    requests   \* the requests in flight, past their checks

vars == <<terms, requests>>

\* excused: the audit entry of the opening carries a term_limit_override.
Term == [member : Members, post : Posts, start : Days, end : Days \cup {None},
         excused : BOOLEAN]

Request ==
    [op : {"open", "handoff"}, member : Members, post : Posts, day : Days, excused : BOOLEAN]
      \cup [op : {"close"}, term : Terms, day : Days]

\* A row is never NULL, nor is a request at work idle.
ASSUME OfficeRowAssumption ==
    /\ None \notin Term
    /\ None \notin Request

TypeOK ==
    /\ terms \in [Terms -> Term \cup {None}]
    /\ requests \in [Requests -> Request \cup {None}]
-----------------------------------------------------------------------------
Opened == {t \in Terms : terms[t] # None}
Sitting == {t \in Opened : terms[t].end = None}
Holding(post) == {t \in Sitting : terms[t].post = post}

\* The sitting parish terms that carry administrative access.
AdminSitting == {t \in Sitting : terms[t].post \in AdminPosts}

Completed(m, post) ==
    {t \in Opened \ Sitting : terms[t].member = m /\ terms[t].post = post}

\* isAdmin of loadPrincipal, computed afresh for each request.
IsAdmin(m) == m \in Accounts /\ \E t \in AdminSitting : terms[t].member = m

\* assertTermLimit
WithinTermLimit(m, post, excused) == excused \/ Cardinality(Completed(m, post)) < MaxTerms

\* assertNotLastAdmin
NotLastAdmin(t) == terms[t].post \in AdminPosts => AdminSitting \ {t} # {}

\* Mutant: the term is read without FOR UPDATE.
NeverLocked(t) == t \notin Terms

\* Closing reads its term FOR UPDATE, and holds it until its transaction ends.
Locked(t) ==
    \E r \in Requests : requests[r] # None /\ requests[r].op = "close" /\ requests[r].term = t

Idle(r) == requests[r] = None
Doing(r, op) == requests[r] # None /\ requests[r].op = op
Finish(r) == requests' = [requests EXCEPT ![r] = None]

\* The CHECK office_term_order.
Ordered(t, day) == terms[t].start <= day

NewTerm(q) == [member |-> q.member, post |-> q.post, start |-> q.day, end |-> None,
               excused |-> q.excused]
Ended(term, day) == [term EXCEPT !.end = day]
-----------------------------------------------------------------------------
\* scripts/bootstrap-admin.ts opens the first office of access.
Init ==
    /\ \E t \in Terms, m \in Accounts, p \in AdminPosts, d \in Days :
         terms = [u \in Terms |-> IF u = t
                    THEN [member |-> m, post |-> p, start |-> d, end |-> None,
                          excused |-> FALSE]
                    ELSE None]
    /\ requests = [r \in Requests |-> None]

\* An officer sends a request: requireAuth and requireAdmin let it through.
Admitted == \E m \in Members : IsAdmin(m)

AskOpen(r, op, m, post, day, excused) ==
    /\ Idle(r)
    /\ Admitted
    /\ WithinTermLimit(m, post, excused)
    /\ requests' = [requests EXCEPT ![r] =
           [op |-> op, member |-> m, post |-> post, day |-> day, excused |-> excused]]
    /\ UNCHANGED terms

\* Mutant: no unique index on the sitting terms of a post.
VacantAnyway(post) == post \in Posts

\* The partial unique indexes: one sitting term to a post.
Vacant(post) == Holding(post) = {}

OpenTerm(r) ==
    /\ Doing(r, "open")
    /\ \/ /\ Vacant(requests[r].post)
          /\ \E t \in Terms \ Opened :
               terms' = [terms EXCEPT ![t] = NewTerm(requests[r])]
       \/ /\ ~Vacant(requests[r].post)
          /\ UNCHANGED terms
    /\ Finish(r)

\* One transaction: the sitting term is closed and the incoming one opened, or,
\* when the dates are out of order, neither.  The UPDATE waits for a locked term.
HandOver(r) ==
    /\ Doing(r, "handoff")
    /\ LET q == requests[r]
           outgoing == Holding(q.post)
       IN /\ \A t \in outgoing : ~Locked(t)
          /\ \/ /\ \A t \in outgoing : Ordered(t, q.day)
                /\ \E new \in Terms \ Opened :
                     terms' = [t \in Terms |->
                                 CASE t = new -> NewTerm(q)
                                   [] t \in outgoing -> Ended(terms[t], q.day)
                                   [] OTHER -> terms[t]]
             \/ /\ \E t \in outgoing : ~Ordered(t, q.day)
                /\ UNCHANGED terms
    /\ Finish(r)

AskClose(r, t, day) ==
    /\ Idle(r)
    /\ Admitted
    /\ t \in Sitting
    /\ ~Locked(t)
    /\ NotLastAdmin(t)
    /\ requests' = [requests EXCEPT ![r] = [op |-> "close", term |-> t, day |-> day]]
    /\ UNCHANGED terms

CloseTerm(r) ==
    /\ Doing(r, "close")
    /\ LET q == requests[r]
       IN terms' = IF Ordered(q.term, q.day)
                   THEN [terms EXCEPT ![q.term] = Ended(@, q.day)] ELSE terms
    /\ Finish(r)

\* A restart, or a failed statement: the transaction is rolled back.
Fail(r) ==
    /\ ~Idle(r)
    /\ Finish(r)
    /\ UNCHANGED terms

Next ==
    \E r \in Requests :
        \/ \E op \in {"open", "handoff"}, m \in Members, post \in Posts, day \in Days,
              excused \in BOOLEAN : AskOpen(r, op, m, post, day, excused)
        \/ \E t \in Terms, day \in Days : AskClose(r, t, day)
        \/ OpenTerm(r)
        \/ HandOver(r)
        \/ CloseTerm(r)
        \/ Fail(r)

Spec == Init /\ [][Next]_vars
-----------------------------------------------------------------------------
\* However openings, closings and handovers race, a post has one sitting holder.
OneSittingHolder ==
    \A t, u \in Sitting : terms[t].post = terms[u].post => t = u

\* A term that has been closed is never closed again under another date, nor
\* reopened: a handover and a closing of one term do not both go through.
ClosedTermsStand == [][\A t \in Opened \ Sitting : terms'[t] = terms[t]]_vars

\* An office changes hands without a gap: handing over never loses the office of
\* access, so that only a closing can leave the association without one.
OnlyClosingLosesAccess ==
    [][AdminSitting # {} /\ AdminSitting' = {} => \E r \in Requests : CloseTerm(r)]_vars
-----------------------------------------------------------------------------
(***************************************************************************)
(* What the documentation says and the code does not keep to.              *)
(***************************************************************************)
\* "The last sitting office carrying administrative access cannot be closed on
\* its own, because that would lock everyone out" (README.md:221-222).
AccessRemains == AdminSitting # {}

\* "Opening a third term is refused unless a reason is supplied" (README.md:217-218):
\* no member's unexcused terms in a post are more than the limit.
WithinTheLimit ==
    \A m \in Members, post \in Posts :
        Cardinality({t \in Opened : /\ terms[t].member = m
                                    /\ terms[t].post = post
                                    /\ ~terms[t].excused}) <= MaxTerms
=============================================================================

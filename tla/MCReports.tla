----------------------------- MODULE MCReports -----------------------------
(***************************************************************************)
(* A small instance of Reports for TLC: two months with reports to send, a *)
(* member with an account and one without.                                 *)
(***************************************************************************)
EXTENDS Reports

CONSTANTS m1, m2

\* The bound of the instance: a row at most never learns of its mail, and only the
\* member without an account is away, who is back by the last month.
InScope ==
    /\ \A s, t \in unsure : s = t
    /\ m1 \in active
    /\ month = LastMonth => active = Members

BoundedSpec == Init /\ [][Next /\ InScope']_vars /\ Fairness
=============================================================================

------------------------------ MODULE MCScans ------------------------------
(***************************************************************************)
(* Small instances of Scans for TLC.                                       *)
(***************************************************************************)
EXTENDS Scans

CONSTANTS e1, m1, m2, sh1, sh2, k1, k2, s1, s2

\* Two pages of one meeting: the first printed before the second member joined,
\* the other of the whole roll.
MCEventOf == [sheet \in Sheets |-> e1]
MCManifest == [sheet \in Sheets |-> IF sheet = sh1 THEN {m1} ELSE {m1, m2}]

\* Keys and scans are interchangeable: the first is used before the second.
InOrder ==
    /\ grants[k2] # None => grants[k1] # None
    /\ scans[s2] # None => scans[s1] # None

RegisterInUse ==
    \/ \E m \in Members : attendance[e1][m] # None
    \/ \E r \in Requests : Doing(r, "commit") \/ Doing(r, "save")

SheetsInUse == {grants[k].sheet : k \in {g \in Keys : grants[g] # None}}

\* The bound of the instance: both pages are photographed as long as nobody writes
\* the register, which is written beside the photographs of the first page.
InScope == RegisterInUse => SheetsInUse \subseteq {sh1}

BoundedSpec == Init /\ [][Next /\ InOrder' /\ InScope']_vars /\ Fairness
=============================================================================

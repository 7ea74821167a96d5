------------------------------ MODULE MCReview ------------------------------
(***************************************************************************)
(* A small instance of Review for TLC: one meeting printed on two pages.   *)
(***************************************************************************)
EXTENDS Review, FiniteSets, TLC

CONSTANTS p1, p2, m1, m2, m3, good, other

MCManifest == p1 :> <<m1, m2>> @@ p2 :> <<m3>>
MCVersionOf == [s \in Sheets |-> "A1"]

\* Two boxes are ticked, one is too faint to be sure of under some limits.
MCInk == m1 :> 2 @@ m2 :> 1 @@ m3 :> 2

\* The first page upside down, and the second one.
MCShot == good  :> [sheet |-> p1, faults |-> {}, turned |-> 2, ink |-> MCInk]
       @@ other :> [sheet |-> p2, faults |-> {}, turned |-> 0, ink |-> MCInk]

\* Nothing stored, and a higher lower limit.
MCDefault == [low |-> 0, high |-> 2]
MCConfigs == {[low |-> Null, high |-> Null], [low |-> 1, high |-> Null]}

\* The bound of the instance: two requests under way at once.
UnderWay ==
    Cardinality({o \in Officers : saving[o] # Null}) + Cardinality({o \in Officers : reading[o] # Null})
BoundedSpec == ReviewInit /\ [][ReviewNext /\ UnderWay' <= 2]_reviewVars

\* Officers and scans are interchangeable.
Symmetry == Permutations(Officers) \cup Permutations(ScanIds)
=============================================================================

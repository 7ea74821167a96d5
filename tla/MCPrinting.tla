----------------------------- MODULE MCPrinting -----------------------------
(***************************************************************************)
(* An instance of Printing for TLC: two members of one house on the        *)
(* register, a third who may be enrolled in either, pages of two rows, and *)
(* two requests in flight.                                                 *)
(***************************************************************************)
EXTENDS Printing

MCRegister == [m \in Members |-> IF m = 3 THEN None ELSE [house |-> 1, active |-> TRUE]]

MCEdits == {[house |-> 2, active |-> FALSE]}

MCBodies == {None}

Symmetry ==
    Permutations(EventIds) \cup Permutations(Runs) \cup Permutations(Docs)
       \cup Permutations(Requests)
=============================================================================

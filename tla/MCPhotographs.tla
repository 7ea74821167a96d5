--------------------------- MODULE MCPhotographs ----------------------------
(***************************************************************************)
(* A small instance of Photographs for TLC: two registrations and the      *)
(* members they make, three keys, three requests.                          *)
(***************************************************************************)
EXTENDS Photographs, TLC

Symmetry == Permutations(Drafts) \cup Permutations(Keys) \cup Permutations(Calls)
=============================================================================

--------------------------- MODULE MCRegistration ---------------------------
(***************************************************************************)
(* A small instance of Registration for TLC: two registrations and one     *)
(* earlier account over three addresses, two requests under way at once.   *)
(***************************************************************************)
EXTENDS Registration, TLC

Symmetry == Permutations(Drafts) \cup Permutations(Requests) \cup Permutations(Addresses)
=============================================================================

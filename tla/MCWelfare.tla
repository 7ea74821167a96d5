----------------------------- MODULE MCWelfare -----------------------------
(***************************************************************************)
(* Small instances of Welfare for TLC.                                     *)
(***************************************************************************)
EXTENDS Welfare, TLC

\* Claims and requests are interchangeable.
Symmetry == Permutations(Claims) \cup Permutations(Requests)
=============================================================================

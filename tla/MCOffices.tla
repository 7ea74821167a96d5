----------------------------- MODULE MCOffices -----------------------------
(***************************************************************************)
(* Small instances of Offices for TLC.                                     *)
(***************************************************************************)
EXTENDS Offices, TLC

\* Terms, requests and members are interchangeable.
Symmetry == Permutations(Terms) \cup Permutations(Requests) \cup Permutations(Members)
=============================================================================

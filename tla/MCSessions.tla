---------------------------- MODULE MCSessions -----------------------------
(***************************************************************************)
(* Small instances of Sessions for TLC.                                    *)
(***************************************************************************)
EXTENDS Sessions, TLC

\* Tokens, links and requests are interchangeable.
Symmetry == Permutations(Tokens) \cup Permutations(Links) \cup Permutations(Requests)
=============================================================================

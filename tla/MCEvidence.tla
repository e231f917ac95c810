------------------------------ MODULE MCEvidence ------------------------------
(* A small instance of Evidence for TLC. *)
EXTENDS Evidence, TLC

Symmetry == Permutations(Requests) \cup Permutations(Docs)
=============================================================================

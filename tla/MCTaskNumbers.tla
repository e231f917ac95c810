---------------------------- MODULE MCTaskNumbers ----------------------------
(* Small instances of TaskNumbers for TLC: numbers of two binary digits. *)
EXTENDS TaskNumbers, TLC

Symmetry == Permutations(Requests)
=============================================================================

----------------------------- MODULE MCSessions -----------------------------
(* Small instances of Sessions for TLC. *)
EXTENDS Sessions, TLC

Symmetry == Permutations(Requests) \cup Permutations(SessionIds)
=============================================================================

------------------------------ MODULE MCSyncRuns ------------------------------
(* A small instance of SyncRuns for TLC. *)
EXTENDS SyncRuns

CONSTANTS a1, a2, d1, n1

\* One business has every license.
TheRecords == [ACFS |-> <<a1, a2>>, DIW |-> <<d1>>]
TheNames == [l \in Licenses |-> n1]
=============================================================================

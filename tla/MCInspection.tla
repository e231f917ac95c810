---------------------------- MODULE MCInspection ----------------------------
(* Small instances of Inspection for TLC. *)
EXTENDS Inspection, TLC

CONSTANTS t1, t2, l1

\* Both tasks are about one license.
SharedLicense == [t \in Tasks |-> l1]

\* One task is about a license, the other about the business only.
MixedLicense == [t \in Tasks |-> IF t = t1 THEN l1 ELSE None]

Symmetry == Permutations(Requests) \cup Permutations(ReportIds)

\* Tasks are alike when all of them are about one license.
SymmetryOfTasks == Symmetry \cup Permutations(Tasks)
=============================================================================

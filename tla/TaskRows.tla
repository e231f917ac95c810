------------------------------ MODULE TaskRows ------------------------------
(***************************************************************************)
(* What the requests of inspection.service.ts, any number of them          *)
(* overlapping, can make of one task row and its report row.  A handler    *)
(* checks copies of the rows and writes by id, so a write needs only that  *)
(* its check passed at some earlier moment; Passes says whether it would   *)
(* pass now.  Inspection, with its requests and their copies, implements   *)
(* this module for each of its tasks (RefinesRows in Inspection_proofs).   *)
(***************************************************************************)
VARIABLES
    status,     \* of the task
    report,     \* "none", "draft" or "final": whether there is a report, and its isDraft
    recorded,   \* the report has a result
    waited      \* the task has been PENDING_REVIEW

vars == <<status, report, recorded, waited>>

TypeOK ==
    /\ status \in {"ASSIGNED", "IN_PROGRESS", "PENDING_REVIEW", "APPROVED", "RETURNED",
                   "CANCELLED"}
    /\ report \in {"none", "draft", "final"}
    /\ recorded \in BOOLEAN
    /\ waited \in BOOLEAN

Init == status = "ASSIGNED" /\ report = "none" /\ recorded = FALSE /\ waited = FALSE

Ops == {"start", "cancel", "update", "submit", "approve", "return"}

\* The check of a request that reads the rows as they are.
Passes(op) ==
    CASE op = "start"  -> status = "ASSIGNED"
      [] op = "cancel" -> status \in {"ASSIGNED", "IN_PROGRESS"}
      [] op = "update" -> report = "draft" \/ status = "RETURNED"
      [] op = "submit" -> recorded /\ status \in {"IN_PROGRESS", "RETURNED"}
      [] op = "approve" -> recorded /\ status = "PENDING_REVIEW"
      [] op = "return" -> status = "PENDING_REVIEW"

\* Every task was ASSIGNED once, so a start or a cancellation may always be on its way.
Start ==
    /\ status' = "IN_PROGRESS"
    /\ report' = IF report = "none" THEN "draft" ELSE report
    /\ UNCHANGED <<recorded, waited>>

Cancel ==
    /\ status' = "CANCELLED"
    /\ UNCHANGED <<report, recorded, waited>>

\* Every report was a draft once.
Update ==
    /\ report # "none"
    /\ report' = "draft"
    /\ recorded' = TRUE
    /\ UNCHANGED <<status, waited>>

\* A result stays; and whoever has a report was IN_PROGRESS.
Submit ==
    /\ recorded
    /\ status' = "PENDING_REVIEW"
    /\ report' = "final"
    /\ waited' = TRUE
    /\ UNCHANGED recorded

Approve ==
    /\ waited
    /\ status' = "APPROVED"
    /\ UNCHANGED <<report, recorded, waited>>

Return ==
    /\ waited
    /\ status' = "RETURNED"
    /\ report' = "draft"
    /\ UNCHANGED <<recorded, waited>>

Write(op) ==
    \/ op = "start" /\ Start
    \/ op = "cancel" /\ Cancel
    \/ op = "update" /\ Update
    \/ op = "submit" /\ Submit
    \/ op = "approve" /\ Approve
    \/ op = "return" /\ Return

Next == \E op \in Ops : Write(op)

Spec == Init /\ [][Next]_vars
=============================================================================

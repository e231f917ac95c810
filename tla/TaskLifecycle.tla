---------------------------- MODULE TaskLifecycle ----------------------------
(***************************************************************************)
(* What the inspection workflow promises: the task state machine of        *)
(* docs/IMPLEMENTATION_GUIDE_1.md (lines 45-49) and the effect of a review *)
(* on the license (line 644), each operation in one atomic step.           *)
(***************************************************************************)
CONSTANTS Tasks, Licenses, LicenseOf, None

VARIABLES
    status,    \* status of each task
    verdict,   \* result recorded in the task's report, "none" before
    standing   \* status of each license

vars == <<status, verdict, standing>>

Init ==
    /\ status = [t \in Tasks |-> "ASSIGNED"]
    /\ verdict = [t \in Tasks |-> "none"]
    /\ standing \in [Licenses -> {"ACTIVE", "SUSPENDED", "EXPIRED", "REVOKED", "PENDING"}]

Move(t, from, to) ==
    /\ status[t] \in from
    /\ status' = [status EXCEPT ![t] = to]

Start(t) ==
    /\ Move(t, {"ASSIGNED"}, "IN_PROGRESS")
    /\ UNCHANGED <<verdict, standing>>

Cancel(t) ==
    /\ Move(t, {"ASSIGNED", "IN_PROGRESS"}, "CANCELLED")
    /\ UNCHANGED <<verdict, standing>>

\* The inspector edits the report while it is a draft or was returned; a
\* cancelled task keeps its draft.
Record(t) ==
    /\ status[t] \in {"IN_PROGRESS", "RETURNED", "CANCELLED"}
    /\ \E v \in {"PASSED", "FAILED"} : verdict' = [verdict EXCEPT ![t] = v]
    /\ UNCHANGED <<status, standing>>

Submit(t) ==
    /\ verdict[t] # "none"
    /\ Move(t, {"IN_PROGRESS", "RETURNED"}, "PENDING_REVIEW")
    /\ UNCHANGED <<verdict, standing>>

Return(t) ==
    /\ Move(t, {"PENDING_REVIEW"}, "RETURNED")
    /\ UNCHANGED <<verdict, standing>>

\* A failed inspection suspends the license; a passed one lifts a suspension.
Approve(t) ==
    /\ Move(t, {"PENDING_REVIEW"}, "APPROVED")
    /\ standing' = [l \in Licenses |->
                      IF l # LicenseOf[t] THEN standing[l]
                      ELSE IF verdict[t] = "FAILED" THEN "SUSPENDED"
                      ELSE IF standing[l] = "SUSPENDED" THEN "ACTIVE"
                      ELSE standing[l]]
    /\ UNCHANGED verdict

Next == \E t \in Tasks : Start(t) \/ Cancel(t) \/ Record(t) \/ Submit(t) \/ Return(t) \/ Approve(t)

Spec == Init /\ [][Next]_vars
=============================================================================

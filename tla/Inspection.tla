------------------------------ MODULE Inspection ------------------------------
(***************************************************************************)
(* The inspection workflow of inspection.service.ts: tasks, their reports, *)
(* and the licenses an approval touches, under concurrent HTTP requests.   *)
(*                                                                         *)
(* Every handler reads rows, checks them in memory and only then writes;   *)
(* the writes name the row by id and never re-check what was read.  So a   *)
(* request is a record that remembers what it read, each awaited SELECT is *)
(* one action, each statement or $transaction that commits is another, and *)
(* anything may happen in between.  A request that a guard turns away at   *)
(* its first SELECT (404, 422) changes nothing and is a stuttering step.   *)
(***************************************************************************)
EXTENDS Naturals, FiniteSets

CONSTANTS
    Tasks,       \* inspection_tasks rows, freshly created by createTask
    ReportIds,   \* the uuids inspection_reports rows can take
    Licenses,    \* licenses rows
    LicenseOf,   \* the license a task is about; licenseId is optional
    Requests,    \* HTTP requests that can be in flight at one time
    None,        \* null in a foreign key
    MaxRounds    \* bound: how many submissions there are in all

ASSUME LicenseOfType == LicenseOf \in [Tasks -> Licenses \cup {None}]
ASSUME NoneIsNull == None \notin Tasks \cup ReportIds \cup Licenses \cup Requests
ASSUME MaxRoundsType == MaxRounds \in Nat

VARIABLES
    task,     \* status of each task row
    holder,   \* request whose open transaction holds the task's row lock
    report,   \* report rows; a row whose task is None does not exist
    license,  \* license rows
    notices,  \* how many notifications of each type were sent per task
    req       \* what each request in flight has read so far

vars == <<task, holder, report, license, notices, req>>

TaskStatus == {"ASSIGNED", "IN_PROGRESS", "PENDING_REVIEW", "APPROVED",
               "RETURNED", "CANCELLED"}
LicenseStatus == {"ACTIVE", "SUSPENDED", "EXPIRED", "REVOKED", "PENDING"}
Results == {"none", "PASSED", "FAILED"}

\* suspensionReason is null, MOCK_OVERDUE or "Failed inspection T-...";
\* suspendedAt is a time or null.
LicenseRow == [status: LicenseStatus,
               reason: {"none", "overdue", "failed"},
               suspendedAt: BOOLEAN]

ReportRow == [task: Tasks \cup {None}, result: Results, isDraft: BOOLEAN]

TaskOps == {"start", "cancel"}
ReportOps == {"update", "submit", "approve", "return"}
Stages == {"idle",    \* no request
           "opened",  \* the report row is read, its task row is not
           "loaded",  \* report and task are read, the license is not
           "ready",   \* all reads done and every guard passed
           "locked",  \* startTask's transaction has updated the task row
           "found"}   \* ... and has looked for an existing report

\* "fresh" is a history variable: the rows the request has read and that
\* nobody has written since.  No guard looks at it.
Rows == ({"task"} \X Tasks) \cup ({"report"} \X ReportIds) \cup ({"license"} \X Licenses)

Request == [op: TaskOps \cup ReportOps \cup {"none"}, stage: Stages,
            task: Tasks \cup {None}, report: ReportIds \cup {None},
            result: Results, isDraft: BOOLEAN,
            license: LicenseStatus \cup {"none"}, exists: BOOLEAN,
            fresh: SUBSET Rows]

Idle == [op |-> "none", stage |-> "idle", task |-> None, report |-> None,
         result |-> "none", isDraft |-> FALSE, license |-> "none",
         exists |-> FALSE, fresh |-> {}]

Absent == [task |-> None, result |-> "none", isDraft |-> FALSE]

ReportsOf(t) == {i \in ReportIds : report[i].task = t}

TypeOK ==
    /\ task \in [Tasks -> TaskStatus]
    /\ holder \in [Tasks -> Requests \cup {None}]
    /\ report \in [ReportIds -> ReportRow]
    /\ license \in [Licenses -> LicenseRow]
    /\ notices \in [Tasks -> [submitted: Nat, approved: Nat, returned: Nat]]
    /\ req \in [Requests -> Request]

\* The license rows the workflow may find: the register, the nightly jobs and
\* the synchronisation have written them.
RegisteredRows == {[status |-> "ACTIVE", reason |-> "none", suspendedAt |-> FALSE],
                   [status |-> "SUSPENDED", reason |-> "overdue", suspendedAt |-> TRUE],
                   [status |-> "EXPIRED", reason |-> "none", suspendedAt |-> FALSE]}

\* What createTask leaves behind.
Init ==
    /\ task = [t \in Tasks |-> "ASSIGNED"]
    /\ holder = [t \in Tasks |-> None]
    /\ report = [i \in ReportIds |-> Absent]
    /\ license \in [Licenses -> RegisteredRows]
    /\ notices = [t \in Tasks |-> [submitted |-> 0, approved |-> 0, returned |-> 0]]
    /\ req = [r \in Requests |-> Idle]
-----------------------------------------------------------------------------
(* Reads.  Row locks do not block a SELECT: it sees the last commit. *)

\* Faulty variant: a task waiting for review may still be cancelled.
TaskAllowsLateCancel(op, status) ==
    CASE op = "start"   -> status = "ASSIGNED"
      [] op = "cancel"  -> status \in {"ASSIGNED", "IN_PROGRESS", "PENDING_REVIEW"}
      [] op = "submit"  -> status \in {"IN_PROGRESS", "RETURNED"}
      [] op \in {"approve", "return"} -> status = "PENDING_REVIEW"
      [] OTHER -> FALSE

\* Faulty variant: a returned report cannot be submitted again.
TaskAllowsOneSubmission(op, status) ==
    CASE op = "start"   -> status = "ASSIGNED"
      [] op = "cancel"  -> status \in {"ASSIGNED", "IN_PROGRESS"}
      [] op = "submit"  -> status = "IN_PROGRESS"
      [] op \in {"approve", "return"} -> status = "PENDING_REVIEW"
      [] OTHER -> FALSE

TaskAllows(op, status) ==
    CASE op = "start"   -> status = "ASSIGNED"
      [] op = "cancel"  -> status \in {"ASSIGNED", "IN_PROGRESS"}
      [] op = "submit"  -> status \in {"IN_PROGRESS", "RETURNED"}
      [] op \in {"approve", "return"} -> status = "PENDING_REVIEW"
      [] OTHER -> FALSE

\* startTask and cancelTask decide on the task row alone.
ReadTask(r, op, t) ==
    /\ req[r] = Idle
    /\ op \in TaskOps
    /\ TaskAllows(op, task[t])
    /\ req' = [req EXCEPT ![r] = [Idle EXCEPT !.op = op, !.stage = "ready", !.task = t,
                                              !.fresh = {<<"task", t>>}]]
    /\ UNCHANGED <<task, holder, report, license, notices>>

\* ownedReport and scopedReport: the report row first ...
ReadReport(r, op, i) ==
    /\ req[r] = Idle
    /\ op \in ReportOps
    /\ report[i].task # None
    /\ req' = [req EXCEPT ![r] = [Idle EXCEPT !.op = op, !.stage = "opened",
                                              !.task = report[i].task, !.report = i,
                                              !.result = report[i].result,
                                              !.isDraft = report[i].isDraft,
                                              !.fresh = {<<"report", i>>}]]
    /\ UNCHANGED <<task, holder, report, license, notices>>

\* Faulty variant: submitReport and approveReport do not ask for a result.
PermittedWithoutResult(q, status) ==
    IF q.op = "update" THEN q.isDraft \/ status = "RETURNED"
    ELSE TaskAllows(q.op, status)

\* Faulty variant: updateReport does not ask whether the report is editable.
PermittedAnyEdit(q, status) ==
    CASE q.op = "update" -> TRUE
      [] q.op \in {"submit", "approve"} -> q.result # "none" /\ TaskAllows(q.op, status)
      [] OTHER -> TaskAllows(q.op, status)

\* The checks of updateReport, submitReport, approveReport and returnReport on
\* the rows request q has read, the task being in the given status.
Permitted(q, status) ==
    CASE q.op = "update" -> q.isDraft \/ status = "RETURNED"
      [] q.op \in {"submit", "approve"} -> q.result # "none" /\ TaskAllows(q.op, status)
      [] OTHER -> TaskAllows(q.op, status)

\* ... and then, by the include, the task row.  An approval reads the license
\* too when the task has one.
LoadTask(r) ==
    LET q == req[r]
        more == q.op = "approve" /\ LicenseOf[q.task] # None
    IN  /\ q.stage = "opened"
        /\ req' = [req EXCEPT ![r] =
                     IF Permitted(q, task[q.task])
                     THEN [q EXCEPT !.stage = IF more THEN "loaded" ELSE "ready",
                                    !.fresh = @ \cup {<<"task", q.task>>}]
                     ELSE Idle]
        /\ UNCHANGED <<task, holder, report, license, notices>>

LoadLicense(r) ==
    LET q == req[r]
        l == LicenseOf[q.task]
    IN  /\ q.stage = "loaded"
        /\ req' = [req EXCEPT ![r] = [q EXCEPT !.stage = "ready",
                                               !.license = license[l].status,
                                               !.fresh = @ \cup {<<"license", l>>}]]
        /\ UNCHANGED <<task, holder, report, license, notices>>
-----------------------------------------------------------------------------
(* Writes.  Request r ends, and the rows it wrote are no longer fresh for  *)
(* anybody else.                                                           *)

Finish(r, written) ==
    req' = [q \in Requests |-> IF q = r THEN Idle
                               ELSE [req[q] EXCEPT !.fresh = @ \ written]]

Ready(r, op) == req[r].stage = "ready" /\ req[r].op = op

\* A statement that writes a task row waits for the row lock.
Unlocked(r) == holder[req[r].task] = None

\* Faulty variant: the transaction looks for a report before it updates the task,
\* so it looks without holding the row lock.
StartUpdateLater(r) ==
    /\ Ready(r, "start")
    /\ Unlocked(r)
    /\ req' = [req EXCEPT ![r].stage = "locked"]
    /\ UNCHANGED <<task, holder, report, license, notices>>

\* startTask's transaction updates the task row first, which locks the row;
\* it commits only after findFirst and, if that found nothing, create.
StartUpdate(r) ==
    /\ Ready(r, "start")
    /\ Unlocked(r)
    /\ holder' = [holder EXCEPT ![req[r].task] = r]
    /\ req' = [req EXCEPT ![r].stage = "locked"]
    /\ UNCHANGED <<task, report, license, notices>>

StartFind(r) ==
    /\ req[r].stage = "locked"
    /\ req' = [req EXCEPT ![r].stage = "found", ![r].exists = ReportsOf(req[r].task) # {}]
    /\ UNCHANGED <<task, holder, report, license, notices>>

StartCommit(r) ==
    LET t == req[r].task
    IN  /\ req[r].stage = "found"
        /\ task' = [task EXCEPT ![t] = "IN_PROGRESS"]
        /\ holder' = [holder EXCEPT ![t] = None]
        /\ \/ req[r].exists /\ report' = report
           \/ /\ ~req[r].exists
              /\ \E i \in ReportIds :
                    /\ report[i].task = None
                    /\ report' = [report EXCEPT ![i] = [task |-> t, result |-> "none",
                                                        isDraft |-> TRUE]]
        /\ Finish(r, {<<"task", t>>})
        /\ UNCHANGED <<license, notices>>

Cancel(r) ==
    LET t == req[r].task
    IN  /\ Ready(r, "cancel")
        /\ Unlocked(r)
        /\ task' = [task EXCEPT ![t] = "CANCELLED"]
        /\ Finish(r, {<<"task", t>>})
        /\ UNCHANGED <<holder, report, license, notices>>

\* updateReport always stores a result (the DTO requires one) and always
\* makes the report a draft.
Update(r, result) ==
    LET i == req[r].report
    IN  /\ Ready(r, "update")
        /\ result # "none"
        /\ report' = [report EXCEPT ![i] = [@ EXCEPT !.result = result, !.isDraft = TRUE]]
        /\ Finish(r, {<<"report", i>>})
        /\ UNCHANGED <<task, holder, license, notices>>

\* The bound on submissions, which the code does not have.
RoundsLeft ==
    Cardinality({x \in Tasks \X (1 .. MaxRounds) : x[2] <= notices[x[1]].submitted}) < MaxRounds

\* Faulty variant: the submitted report stays a draft.
SubmitDraft(r) ==
    LET t == req[r].task
    IN  /\ Ready(r, "submit")
        /\ Unlocked(r)
        /\ RoundsLeft
        /\ task' = [task EXCEPT ![t] = "PENDING_REVIEW"]
        /\ notices' = [notices EXCEPT ![t].submitted = @ + 1]
        /\ Finish(r, {<<"task", t>>})
        /\ UNCHANGED <<holder, report, license>>

Submit(r) ==
    LET t == req[r].task
        i == req[r].report
    IN  /\ Ready(r, "submit")
        /\ Unlocked(r)
        /\ RoundsLeft
        /\ report' = [report EXCEPT ![i].isDraft = FALSE]
        /\ task' = [task EXCEPT ![t] = "PENDING_REVIEW"]
        /\ notices' = [notices EXCEPT ![t].submitted = @ + 1]
        /\ Finish(r, {<<"task", t>>, <<"report", i>>})
        /\ UNCHANGED <<holder, license>>

\* Faulty variant: a passed inspection makes every license ACTIVE.
VerdictActivates(q, row) ==
    IF q.result = "FAILED"
    THEN [status |-> "SUSPENDED", reason |-> "failed", suspendedAt |-> TRUE]
    ELSE [status |-> "ACTIVE", reason |-> "none", suspendedAt |-> FALSE]

\* What an approval makes of the license row, from the result and the license
\* status the request read: only the columns it names are written.
Verdict(q, row) ==
    IF q.result = "FAILED"
    THEN [status |-> "SUSPENDED", reason |-> "failed", suspendedAt |-> TRUE]
    ELSE IF q.license = "SUSPENDED"
         THEN [status |-> "ACTIVE", reason |-> "none", suspendedAt |-> FALSE]
         ELSE row

Approve(r) ==
    LET q == req[r]
        t == q.task
        l == LicenseOf[t]
    IN  /\ Ready(r, "approve")
        /\ Unlocked(r)
        /\ task' = [task EXCEPT ![t] = "APPROVED"]
        /\ license' = IF l = None THEN license
                      ELSE [license EXCEPT ![l] = Verdict(q, @)]
        /\ notices' = [notices EXCEPT ![t].approved = @ + 1]
        /\ Finish(r, {<<"task", t>>} \cup
                        IF license' = license THEN {} ELSE {<<"license", l>>})
        /\ UNCHANGED <<holder, report>>

\* Faulty variant: the inspector is not told.
ReturnSilently(r) ==
    LET t == req[r].task
        i == req[r].report
    IN  /\ Ready(r, "return")
        /\ Unlocked(r)
        /\ report' = [report EXCEPT ![i].isDraft = TRUE]
        /\ task' = [task EXCEPT ![t] = "RETURNED"]
        /\ Finish(r, {<<"task", t>>, <<"report", i>>})
        /\ UNCHANGED <<holder, license, notices>>

Return(r) ==
    LET t == req[r].task
        i == req[r].report
    IN  /\ Ready(r, "return")
        /\ Unlocked(r)
        /\ report' = [report EXCEPT ![i].isDraft = TRUE]
        /\ task' = [task EXCEPT ![t] = "RETURNED"]
        /\ notices' = [notices EXCEPT ![t].returned = @ + 1]
        /\ Finish(r, {<<"task", t>>, <<"report", i>>})
        /\ UNCHANGED <<holder, license>>

\* A database error, a lost connection or the end of the process: the request
\* is gone, an open transaction rolls back and its row lock is released.
Abort(r) ==
    /\ req[r] # Idle
    /\ req' = [req EXCEPT ![r] = Idle]
    /\ holder' = [t \in Tasks |-> IF holder[t] = r THEN None ELSE holder[t]]
    /\ UNCHANGED <<task, report, license, notices>>

Step(r) ==
    \/ \E op \in TaskOps, t \in Tasks : ReadTask(r, op, t)
    \/ \E op \in ReportOps, i \in ReportIds : ReadReport(r, op, i)
    \/ LoadTask(r)
    \/ LoadLicense(r)
    \/ StartUpdate(r)
    \/ StartFind(r)
    \/ StartCommit(r)
    \/ Cancel(r)
    \/ \E result \in Results : Update(r, result)
    \/ Submit(r)
    \/ Approve(r)
    \/ Return(r)
    \/ Abort(r)

Next == \E r \in Requests : Step(r)

Spec == Init /\ [][Next]_vars
-----------------------------------------------------------------------------
(* What holds however the requests interleave. *)

\* A task never gets a second report, although taskId is not unique in the
\* schema and two startTask requests may both have read ASSIGNED: the first
\* statement of the transaction locks the task row.
OneReportPerTask ==
    \A i, j \in ReportIds :
        report[i].task # None /\ report[i].task = report[j].task => i = j

\* A task that was sent to review has a report with a result: submitReport
\* checked it, no later write takes it away, and no interleaving brings a task
\* there by another way.
SubmittedHasResult ==
    \A t \in Tasks : task[t] \in {"PENDING_REVIEW", "RETURNED", "APPROVED"} =>
        \E i \in ReportsOf(t) : report[i].result # "none"

\* An inspector can always edit a report that was returned to him:
\* the row is a draft even if edits, submissions and reviews overlapped.
ReturnedIsDraft ==
    \A t \in Tasks : task[t] = "RETURNED" =>
        \A i \in ReportsOf(t) : report[i].isDraft

\* What a request reads that asks for op on report i, once that has the result.
AsRead(i, op, result) ==
    [Idle EXCEPT !.op = op, !.result = result, !.isDraft = report[i].isDraft]

MovesOn(i, status) ==
    \/ \E op \in {"submit", "approve", "return"} :
          Permitted(AsRead(i, op, report[i].result), status)
    \/ /\ Permitted(AsRead(i, "update", report[i].result), status)
       /\ Permitted(AsRead(i, "submit", "PASSED"), status)

\* No interleaving leaves a task that no request can move on: until it is
\* approved or cancelled it can be started, reviewed, or submitted, if need be
\* after one more edit that is permitted.
NeverStuck ==
    \A t \in Tasks : task[t] \notin {"APPROVED", "CANCELLED"} =>
        TaskAllows("start", task[t]) \/ \E i \in ReportsOf(t) : MovesOn(i, task[t])

\* Request r is done in this step, having read the rows and found none of them
\* written since.
EndsFresh(r, rows) == req'[r] = Idle /\ rows \subseteq req[r].fresh

\* The arrows of the documented task state machine.
Documented(from, to) ==
    <<from, to>> \in {<<"ASSIGNED", "IN_PROGRESS">>, <<"IN_PROGRESS", "PENDING_REVIEW">>,
                      <<"PENDING_REVIEW", "APPROVED">>, <<"PENDING_REVIEW", "RETURNED">>,
                      <<"RETURNED", "PENDING_REVIEW">>, <<"ASSIGNED", "CANCELLED">>,
                      <<"IN_PROGRESS", "CANCELLED">>}

\* A task leaves the documented state machine only by a request whose copy of
\* the task row was out of date: the guards are complete, what is missing is
\* that the writes repeat them.
LegalUnlessStale ==
    [][\A t \in Tasks : task'[t] # task[t] =>
          \/ Documented(task[t], task'[t])
          \/ \E r \in Requests : req[r].task = t /\ req'[r] = Idle /\ req[r] # Idle
                                 /\ ~EndsFresh(r, {<<"task", t>>})]_vars

\* What a review does to a license when it happens: FAILED suspends, PASSED
\* lifts a suspension and leaves any other status alone.
Decides(result, before, after) ==
    after = IF result = "FAILED" THEN "SUSPENDED"
            ELSE IF before = "SUSPENDED" THEN "ACTIVE" ELSE before

\* An approval has the documented effect on the license, for the report and the
\* license as they are when it commits, unless the reviewer's request read a
\* report or a license that changed before it wrote.
OutcomeUnlessStale ==
    [][\A r \in Requests :
          LET q == req[r]
              l == LicenseOf[q.task]
          IN  /\ Ready(r, "approve")
              /\ task' # task
              /\ l # None
              /\ EndsFresh(r, {<<"report", q.report>>, <<"license", l>>})
              => Decides(report[q.report].result, license[l].status, license'[l].status)]_vars

\* The result of a report changes only while it is a draft or its task is
\* RETURNED, unless the inspector's request read rows that changed before it
\* wrote.  (Such a request makes the report a draft again, whatever its task.)
EditsUnlessStale ==
    [][\A i \in ReportIds :
          report[i].task # None /\ report'[i].result # report[i].result =>
          \/ report[i].isDraft
          \/ task[report[i].task] = "RETURNED"
          \/ \E r \in Requests : req[r].report = i /\ req'[r] = Idle
               /\ ~EndsFresh(r, {<<"report", i>>, <<"task", report[i].task>>})]_vars
-----------------------------------------------------------------------------
(* With one request at a time there is nothing out of date. *)

\* The report is a draft exactly until it is handed in, and again from its
\* return until it is handed in again.
DraftUntilSubmitted ==
    \A i \in ReportIds : report[i].task # None =>
        (report[i].isDraft <=> task[report[i].task] \notin {"PENDING_REVIEW", "APPROVED"})

\* Every submission the supervisors were told of was answered by exactly one
\* notification to the inspector, except the one still waiting for review.
NoticesBalance ==
    \A t \in Tasks :
        notices[t].submitted = notices[t].approved + notices[t].returned
                               + (IF task[t] = "PENDING_REVIEW" THEN 1 ELSE 0)

Lifecycle == INSTANCE TaskLifecycle WITH
    status <- task,
    verdict <- [t \in Tasks |-> IF ReportsOf(t) = {} THEN "none"
                                ELSE report[CHOOSE i \in ReportsOf(t) : TRUE].result],
    standing <- [l \in Licenses |-> license[l].status]

\* Handled one at a time, the requests implement the documented workflow.
ImplementsLifecycle == Lifecycle!Spec
=============================================================================

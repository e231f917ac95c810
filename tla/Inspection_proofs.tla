-------------------------- MODULE Inspection_proofs --------------------------
(***************************************************************************)
(* The safety of Inspection for any number of tasks, reports, licenses and *)
(* requests.  The inductive invariant is proved in layers, each resting on *)
(* the ones before: types and links, the row lock, what the rows say, and  *)
(* what a request may believe of rows nobody has written since it read     *)
(* them.  As long as no request writes on the strength of a row that has   *)
(* changed (NoStaleWrite), the handlers implement TaskLifecycle; requests  *)
(* that keep out of each other's way (Apart) never do.  Whatever requests  *)
(* do, each task and its report behave as TaskRows says.                   *)
(***************************************************************************)
EXTENDS Inspection, TLAPS

\* What a request refers to at each stage.
Refers(q) ==
    /\ q.stage = "idle" => q = Idle
    /\ q.stage # "idle" => q.task \in Tasks
    /\ q.stage \in {"opened", "loaded"} => q.op \in ReportOps
    /\ q.stage = "loaded" => q.op = "approve" /\ LicenseOf[q.task] \in Licenses
    /\ q.stage \in {"locked", "found"} => q.op = "start"
    /\ q.op \in ReportOps => /\ q.report \in ReportIds
                             /\ report[q.report].task = q.task
                             /\ q.stage # "idle"

Linked == \A r \in Requests : Refers(req[r])

Typed == TypeOK /\ Linked

LEMMA IdleType == Idle \in Request /\ Absent \in ReportRow
BY DEF Idle, Absent, Request, ReportRow, Stages, Results

LEMMA RowTags ==
    /\ \A t \in Tasks : <<"task", t>> \in Rows
    /\ \A i \in ReportIds : <<"report", i>> \in Rows
    /\ \A l \in Licenses : <<"license", l>> \in Rows
BY DEF Rows

LEMMA TypedInit == Init => Typed
<1> SUFFICES ASSUME Init PROVE Typed
    OBVIOUS
<1>1. license \in [Licenses -> LicenseRow]
  <2>1. RegisteredRows \subseteq LicenseRow
    BY DEF RegisteredRows, LicenseRow, LicenseStatus
  <2> QED BY <2>1 DEF Init
<1>2. TypeOK
  BY <1>1, IdleType DEF Init, TypeOK, TaskStatus
<1>3. Linked
  BY DEF Init, Linked, Refers, Idle, ReportOps
<1> QED BY <1>2, <1>3 DEF Typed

\* Ending a request leaves the others with what they had, except for freshness.
LEMMA FinishTyped ==
    ASSUME req \in [Requests -> Request], NEW r, NEW written, Finish(r, written)
    PROVE  /\ req' \in [Requests -> Request]
           /\ \A q \in Requests :
                 IF q = r THEN req'[q] = Idle
                 ELSE /\ req'[q] = [req[q] EXCEPT !.fresh = req[q].fresh \ written]
                      /\ req'[q].op = req[q].op
                      /\ req'[q].stage = req[q].stage
                      /\ req'[q].task = req[q].task
                      /\ req'[q].report = req[q].report
                      /\ req'[q].result = req[q].result
                      /\ req'[q].isDraft = req[q].isDraft
                      /\ req'[q].license = req[q].license
                      /\ req'[q].exists = req[q].exists
                      /\ req'[q].fresh = req[q].fresh \ written
<1>1. \A q \in Requests : [req[q] EXCEPT !.fresh = req[q].fresh \ written] \in Request
  BY DEF Request
<1> QED BY <1>1, IdleType DEF Finish, Request

LEMMA IdleRefers == Refers(Idle)
BY DEF Refers, Idle, ReportOps

\* A step that only changes what request r remembers.
LEMMA TypedUpdate ==
    ASSUME TypeOK, Linked, NEW r \in Requests, NEW n \in Request, Refers(n),
           req' = [req EXCEPT ![r] = n], UNCHANGED <<task, holder, report, license, notices>>
    PROVE  TypeOK' /\ Linked'
<1>1. TypeOK'
  BY DEF TypeOK
<1>2. ASSUME NEW x \in Requests PROVE Refers(req[x])'
  <2>1. req'[x] = IF x = r THEN n ELSE req[x]
    BY DEF TypeOK
  <2>2. Refers(req[x])
    BY DEF Linked
  <2> QED BY <2>1, <2>2 DEF Refers
<1> QED BY <1>1, <1>2 DEF Linked

\* A step that ends request r and keeps every report with its task.
LEMMA TypedFinish ==
    ASSUME TypeOK, Linked, NEW r \in Requests, NEW written, Finish(r, written),
           \A i \in ReportIds : report[i].task # None => report'[i].task = report[i].task
    PROVE  req' \in [Requests -> Request] /\ Linked'
<1>1. req \in [Requests -> Request]
  BY DEF TypeOK
<1>2. req' \in [Requests -> Request]
  BY <1>1, FinishTyped
<1>3. ASSUME NEW x \in Requests PROVE Refers(req[x])'
  <2>1. CASE x = r
    <3>1. req'[x] = Idle
      BY <1>1, <2>1, FinishTyped
    <3> QED BY <3>1 DEF Refers, Idle, ReportOps
  <2>2. CASE x # r
    <3>1. /\ req'[x].op = req[x].op /\ req'[x].stage = req[x].stage
          /\ req'[x].task = req[x].task /\ req'[x].report = req[x].report
          /\ req'[x] = [req[x] EXCEPT !.fresh = req[x].fresh \ written]
      BY <1>1, <2>2, FinishTyped
    <3>2. Refers(req[x])
      BY DEF Linked
    <3>3. req[x].stage = "idle" => req'[x] = Idle
      BY <3>1, <3>2 DEF Refers, Idle
    <3> QED BY <3>1, <3>2, <3>3, NoneIsNull DEF Refers, ReportOps
  <2> QED BY <2>1, <2>2
<1> QED BY <1>2, <1>3 DEF Linked

LEMMA TypedReadTask ==
    ASSUME TypeOK, Linked, NEW r \in Requests, NEW op \in TaskOps, NEW t \in Tasks,
           ReadTask(r, op, t)
    PROVE  TypeOK' /\ Linked'
<1> DEFINE n == [Idle EXCEPT !.op = op, !.stage = "ready", !.task = t,
                             !.fresh = {<<"task", t>>}]
<1>1. n \in Request
  BY RowTags DEF Idle, Request, Stages, Results
<1>2. Refers(n)
  BY DEF Idle, Refers, TaskOps, ReportOps
<1> HIDE DEF n
<1> QED BY <1>1, <1>2, TypedUpdate DEF ReadTask, n

LEMMA TypedReadReport ==
    ASSUME TypeOK, Linked, NEW r \in Requests, NEW op \in ReportOps, NEW i \in ReportIds,
           ReadReport(r, op, i)
    PROVE  TypeOK' /\ Linked'
<1> DEFINE n == [Idle EXCEPT !.op = op, !.stage = "opened",
                             !.task = report[i].task, !.report = i,
                             !.result = report[i].result,
                             !.isDraft = report[i].isDraft,
                             !.fresh = {<<"report", i>>}]
<1>1. report[i] \in ReportRow /\ report[i].task \in Tasks
  BY DEF ReadReport, TypeOK, ReportRow
<1>2. n \in Request
  BY <1>1, RowTags DEF Idle, Request, ReportRow, Stages
<1>3. Refers(n)
  BY <1>1 DEF Idle, Refers
<1>4. req' = [req EXCEPT ![r] = n] /\ UNCHANGED <<task, holder, report, license, notices>>
  BY DEF ReadReport
<1> HIDE DEF n
<1> QED BY <1>2, <1>3, <1>4, TypedUpdate

LEMMA TypedLoadTask ==
    ASSUME TypeOK, Linked, NEW r \in Requests, LoadTask(r)
    PROVE  TypeOK' /\ Linked'
<1> DEFINE q == req[r]
           more == q.op = "approve" /\ LicenseOf[q.task] # None
           n == [q EXCEPT !.stage = IF more THEN "loaded" ELSE "ready",
                          !.fresh = @ \cup {<<"task", q.task>>}]
<1>1. q \in Request /\ Refers(q) /\ q.stage = "opened"
  BY DEF LoadTask, TypeOK, Linked
<1>2. UNCHANGED <<task, holder, report, license, notices>>
  BY DEF LoadTask
<1>3. CASE Permitted(q, task[q.task])
  <2>1. req' = [req EXCEPT ![r] = n]
    BY <1>3 DEF LoadTask
  <2>2. n \in Request
    BY <1>1, RowTags DEF Request, Refers, Stages
  <2>3. /\ n.stage = (IF more THEN "loaded" ELSE "ready") /\ n.op = q.op
        /\ n.task = q.task /\ n.report = q.report
    BY <1>1 DEF Request
  <2>4. Refers(n)
    BY <1>1, <2>3, LicenseOfType DEF Refers
  <2> HIDE DEF n
  <2> QED BY <1>2, <2>1, <2>2, <2>4, TypedUpdate
<1>4. CASE ~Permitted(q, task[q.task])
  <2>1. req' = [req EXCEPT ![r] = Idle]
    BY <1>4 DEF LoadTask
  <2> QED BY <1>2, <2>1, IdleType, IdleRefers, TypedUpdate
<1> QED BY <1>3, <1>4

LEMMA TypedLoadLicense ==
    ASSUME TypeOK, Linked, NEW r \in Requests, LoadLicense(r)
    PROVE  TypeOK' /\ Linked'
<1> DEFINE q == req[r]
           l == LicenseOf[q.task]
           n == [q EXCEPT !.stage = "ready", !.license = license[l].status,
                          !.fresh = @ \cup {<<"license", l>>}]
<1>1. q \in Request /\ Refers(q) /\ q.stage = "loaded"
  BY DEF LoadLicense, TypeOK, Linked
<1>2. l \in Licenses /\ license[l].status \in LicenseStatus
  BY <1>1 DEF Refers, TypeOK, LicenseRow
<1>3. n \in Request
  BY <1>1, <1>2, RowTags DEF Request, Stages
<1>4. /\ n.stage = "ready" /\ n.op = q.op /\ n.task = q.task /\ n.report = q.report
  BY <1>1 DEF Request
<1>5. Refers(n)
  BY <1>1, <1>4 DEF Refers
<1>6. req' = [req EXCEPT ![r] = n] /\ UNCHANGED <<task, holder, report, license, notices>>
  BY DEF LoadLicense
<1> HIDE DEF n
<1> QED BY <1>3, <1>5, <1>6, TypedUpdate

LEMMA TypedStart ==
    ASSUME TypeOK, Linked, NEW r \in Requests, StartUpdate(r) \/ StartFind(r)
    PROVE  TypeOK' /\ Linked'
<1>1. req[r] \in Request /\ Refers(req[r]) /\ req[r].stage # "idle" /\ req[r].op = "start"
  BY DEF StartUpdate, StartFind, Ready, TypeOK, Linked, Refers
<1>2. TypeOK'
  <2>1. \E s \in Stages, e \in BOOLEAN :
          req' = [req EXCEPT ![r] = [req[r] EXCEPT !.stage = s, !.exists = e]]
    <3>1. CASE StartUpdate(r)
      <4>1. req' = [req EXCEPT ![r] = [req[r] EXCEPT !.stage = "locked", !.exists = req[r].exists]]
        BY <1>1, <3>1 DEF StartUpdate, TypeOK, Request
      <4> QED BY <1>1, <4>1 DEF Request, Stages
    <3>2. CASE StartFind(r)
      BY <1>1, <3>2 DEF StartFind, TypeOK, Request, Stages
    <3> QED BY <3>1, <3>2
  <2>2. \A s \in Stages, e \in BOOLEAN : [req[r] EXCEPT !.stage = s, !.exists = e] \in Request
    BY <1>1 DEF Request
  <2>3. req' \in [Requests -> Request]
    BY <2>1, <2>2 DEF TypeOK
  <2> QED BY <1>1, <2>3 DEF StartUpdate, StartFind, TypeOK
<1>3. ASSUME NEW x \in Requests PROVE Refers(req[x])'
  <2>1. Refers(req[x]) /\ req[x] \in Request
    BY DEF Linked, TypeOK
  <2>2. CASE x = r
    BY <1>1, <2>2 DEF StartUpdate, StartFind, TypeOK, Request, Refers, ReportOps
  <2>3. CASE x # r
    <3>1. req'[x] = req[x] /\ report' = report
      BY <2>3 DEF StartUpdate, StartFind, TypeOK
    <3> QED BY <2>1, <3>1 DEF Refers
  <2> QED BY <2>2, <2>3
<1> QED BY <1>2, <1>3 DEF Linked

\* Writing one report row that keeps its task.
LEMMA ReportsWritten ==
    ASSUME report \in [ReportIds -> ReportRow], NEW i \in ReportIds, NEW row \in ReportRow,
           report[i].task \in {None, row.task}
    PROVE  /\ [report EXCEPT ![i] = row] \in [ReportIds -> ReportRow]
           /\ \A j \in ReportIds : report[j].task # None =>
                  [report EXCEPT ![i] = row][j].task = report[j].task
OBVIOUS

\* The statements that write rows.
Write(r) ==
    \/ StartCommit(r) \/ Cancel(r) \/ Submit(r) \/ Approve(r) \/ Return(r)
    \/ \E result \in Results : Update(r, result)

LEMMA WriteKeepsReports ==
    ASSUME TypeOK, Linked, NEW r \in Requests, Write(r)
    PROVE  /\ report' \in [ReportIds -> ReportRow]
           /\ \A i \in ReportIds : report[i].task # None => report'[i].task = report[i].task
<1>1. req[r] \in Request /\ Refers(req[r]) /\ req[r].stage # "idle"
  BY DEF Write, StartCommit, Cancel, Submit, Approve, Return, Update, Ready, TypeOK, Linked
<1>2. req[r].task \in Tasks
  BY <1>1 DEF Refers
<1>3. CASE StartCommit(r)
  <2> DEFINE row == [task |-> req[r].task, result |-> "none", isDraft |-> TRUE]
  <2>1. \/ report' = report
        \/ \E i \in ReportIds : report[i].task = None /\ report' = [report EXCEPT ![i] = row]
    BY <1>3 DEF StartCommit
  <2>2. row \in ReportRow
    BY <1>2 DEF ReportRow, Results
  <2> HIDE DEF row
  <2> QED BY <2>1, <2>2, ReportsWritten DEF TypeOK
<1>4. CASE Cancel(r) \/ Approve(r)
  BY <1>4 DEF Cancel, Approve, TypeOK
<1>5. CASE Submit(r) \/ Return(r) \/ \E result \in Results : Update(r, result)
  <2> DEFINE i == req[r].report
  <2>1. i \in ReportIds /\ report[i] \in ReportRow
    BY <1>1, <1>5 DEF Submit, Return, Update, Ready, Refers, ReportOps, TypeOK
  <2>2. ASSUME NEW d \in BOOLEAN
        PROVE  LET row == [report[i] EXCEPT !.isDraft = d]
               IN  row \in ReportRow /\ row.task = report[i].task
    BY <2>1 DEF ReportRow
  <2>3. ASSUME NEW d \in BOOLEAN, NEW s \in Results
        PROVE  LET row == [report[i] EXCEPT !.result = s, !.isDraft = d]
               IN  row \in ReportRow /\ row.task = report[i].task
    BY <2>1 DEF ReportRow
  <2>4. CASE Submit(r)
    <3> DEFINE row == [report[i] EXCEPT !.isDraft = FALSE]
    <3>1. report' = [report EXCEPT ![i] = row] /\ row \in ReportRow /\ row.task = report[i].task
      BY <2>2, <2>4 DEF Submit
    <3> HIDE DEF row
    <3> QED BY <2>1, <3>1, ReportsWritten DEF TypeOK
  <2>5. CASE Return(r)
    <3> DEFINE row == [report[i] EXCEPT !.isDraft = TRUE]
    <3>1. report' = [report EXCEPT ![i] = row] /\ row \in ReportRow /\ row.task = report[i].task
      BY <2>2, <2>5 DEF Return
    <3> HIDE DEF row
    <3> QED BY <2>1, <3>1, ReportsWritten DEF TypeOK
  <2>6. CASE \E result \in Results : Update(r, result)
    <3>1. PICK s \in Results : Update(r, s)
      BY <2>6
    <3> DEFINE row == [report[i] EXCEPT !.result = s, !.isDraft = TRUE]
    <3>2. report' = [report EXCEPT ![i] = row] /\ row \in ReportRow /\ row.task = report[i].task
      BY <2>3, <3>1 DEF Update
    <3> HIDE DEF row
    <3> QED BY <2>1, <3>2, ReportsWritten DEF TypeOK
  <2> QED BY <1>5, <2>4, <2>5, <2>6
<1> QED BY <1>3, <1>4, <1>5 DEF Write

LEMMA TypedWrite ==
    ASSUME TypeOK, Linked, NEW r \in Requests, Write(r)
    PROVE  TypeOK' /\ Linked'
<1>1. req[r] \in Request /\ Refers(req[r]) /\ req[r].stage # "idle"
  BY DEF Write, StartCommit, Cancel, Submit, Approve, Return, Update, Ready, TypeOK, Linked
<1>2. req[r].task \in Tasks
  BY <1>1 DEF Refers
<1>3. report' \in [ReportIds -> ReportRow]
  BY WriteKeepsReports
<1>5. \E written : Finish(r, written)
  BY DEF Write, StartCommit, Cancel, Submit, Approve, Return, Update
<1>6. req' \in [Requests -> Request] /\ Linked'
  BY <1>5, WriteKeepsReports, TypedFinish
<1>7. task' \in [Tasks -> TaskStatus]
  BY DEF Write, StartCommit, Cancel, Submit, Approve, Return, Update, TypeOK, TaskStatus
<1>8. holder' \in [Tasks -> Requests \cup {None}]
  BY DEF Write, StartCommit, Cancel, Submit, Approve, Return, Update, TypeOK
<1>9. license' \in [Licenses -> LicenseRow]
  <2>1. CASE Approve(r)
    BY <2>1 DEF Approve, Verdict, TypeOK, LicenseRow, LicenseStatus
  <2>2. CASE ~Approve(r)
    BY <2>2 DEF Write, StartCommit, Cancel, Submit, Return, Update, TypeOK
  <2> QED BY <2>1, <2>2
<1>10. notices' \in [Tasks -> [submitted: Nat, approved: Nat, returned: Nat]]
  <2>1. CASE Submit(r) \/ Approve(r) \/ Return(r)
    <3> DEFINE t == req[r].task
    <3>1. /\ notices[t] \in [submitted: Nat, approved: Nat, returned: Nat]
          /\ [notices[t] EXCEPT !.submitted = @ + 1] \in [submitted: Nat, approved: Nat, returned: Nat]
          /\ [notices[t] EXCEPT !.approved = @ + 1] \in [submitted: Nat, approved: Nat, returned: Nat]
          /\ [notices[t] EXCEPT !.returned = @ + 1] \in [submitted: Nat, approved: Nat, returned: Nat]
      BY <1>2 DEF TypeOK
    <3>2. \/ notices' = [notices EXCEPT ![t] = [notices[t] EXCEPT !.submitted = @ + 1]]
          \/ notices' = [notices EXCEPT ![t] = [notices[t] EXCEPT !.approved = @ + 1]]
          \/ notices' = [notices EXCEPT ![t] = [notices[t] EXCEPT !.returned = @ + 1]]
      BY <2>1 DEF Submit, Approve, Return
    <3> QED BY <3>1, <3>2 DEF TypeOK
  <2>2. CASE ~(Submit(r) \/ Approve(r) \/ Return(r))
    BY <2>2 DEF Write, StartCommit, Cancel, Update, TypeOK
  <2> QED BY <2>1, <2>2
<1> QED BY <1>3, <1>6, <1>7, <1>8, <1>9, <1>10 DEF TypeOK

LEMMA TypedAbort ==
    ASSUME TypeOK, Linked, NEW r \in Requests, Abort(r)
    PROVE  TypeOK' /\ Linked'
<1>1. TypeOK'
  BY IdleType DEF Abort, TypeOK
<1>2. ASSUME NEW x \in Requests PROVE Refers(req[x])'
  <2>1. req'[x] = IF x = r THEN Idle ELSE req[x]
    BY DEF Abort, TypeOK
  <2>2. Refers(req[x]) /\ Refers(Idle) /\ report' = report
    BY IdleRefers DEF Linked, Abort
  <2> QED BY <2>1, <2>2 DEF Refers
<1> QED BY <1>1, <1>2 DEF Linked

\* Types and links are preserved by every operation.
LEMMA TypedStep == Typed /\ [Next]_vars => Typed'
<1> SUFFICES ASSUME TypeOK, Linked, [Next]_vars PROVE TypeOK' /\ Linked'
    BY DEF Typed
<1>1. CASE UNCHANGED vars
  BY <1>1 DEF vars, TypeOK, Linked, Refers
<1>2. ASSUME NEW r \in Requests, Step(r) PROVE TypeOK' /\ Linked'
  BY <1>2, TypedReadTask, TypedReadReport, TypedLoadTask, TypedLoadLicense, TypedStart,
     TypedWrite, TypedAbort DEF Step, Write
<1> QED BY <1>1, <1>2 DEF Next

\* Every row and every request has its type at all times, whatever the number of
\* tasks and of requests in flight.
THEOREM TypeCorrect == Spec => []TypeOK
<1>1. Init => Typed
  BY TypedInit
<1>2. Typed /\ [Next]_vars => Typed'
  BY TypedStep
<1>3. Typed => TypeOK
  BY DEF Typed
<1> QED BY <1>1, <1>2, <1>3, PTL DEF Spec
-----------------------------------------------------------------------------
(* One report per task, by the row lock startTask's transaction holds. *)

InTransaction(q) == q.stage \in {"locked", "found"}

\* A transaction holds the lock of its task, and what it found stays true.
Guarded(r) ==
    /\ \A t \in Tasks : holder[t] = r <=> InTransaction(req[r]) /\ req[r].task = t
    /\ req[r].stage = "found" => (req[r].exists <=> ReportsOf(req[r].task) # {})

RowLock == (\A r \in Requests : Guarded(r)) /\ OneReportPerTask

LEMMA RowLockInit == Init => RowLock
BY NoneIsNull DEF Init, RowLock, Guarded, InTransaction, Idle, OneReportPerTask, Absent

\* Steps of requests outside a transaction.
LEMMA RowLockOutside ==
    ASSUME Typed, RowLock, NEW r \in Requests,
           holder' = holder,
           \A i \in ReportIds : report'[i].task = report[i].task,
           ~InTransaction(req[r]), ~InTransaction(req'[r]),
           \A x \in Requests : x # r => /\ req'[x].stage = req[x].stage
                                       /\ req'[x].task = req[x].task
                                       /\ req'[x].exists = req[x].exists
    PROVE  RowLock'
<1>1. \A t \in Tasks \cup {None} : ReportsOf(t)' = ReportsOf(t)
  BY DEF ReportsOf
<1>2. ASSUME NEW x \in Requests PROVE Guarded(x)'
  <2>1. Guarded(x)
    BY DEF RowLock
  <2>2. CASE x = r
    BY <2>1, <2>2 DEF Guarded, InTransaction
  <2>3. CASE x # r
    <3>1. req[x].stage = "found" => req[x].task \in Tasks
      BY DEF Typed, Linked, Refers
    <3> QED BY <1>1, <2>1, <2>3, <3>1 DEF Guarded, InTransaction
  <2> QED BY <2>2, <2>3
<1>3. OneReportPerTask'
  BY DEF RowLock, OneReportPerTask
<1> QED BY <1>2, <1>3 DEF RowLock

LEMMA RowLockRead ==
    ASSUME Typed, RowLock, NEW r \in Requests,
           \/ \E op \in TaskOps, t \in Tasks : ReadTask(r, op, t)
           \/ \E op \in ReportOps, i \in ReportIds : ReadReport(r, op, i)
           \/ LoadTask(r) \/ LoadLicense(r)
    PROVE  RowLock'
<1>1. req \in [Requests -> Request]
  BY DEF Typed, TypeOK
<1>2. PICK n : /\ req' = [req EXCEPT ![r] = n] /\ ~InTransaction(n)
               /\ UNCHANGED <<holder, report>>
  <2>1. CASE \E op \in TaskOps, t \in Tasks : ReadTask(r, op, t)
    BY <2>1 DEF ReadTask, InTransaction, Idle
  <2>2. CASE \E op \in ReportOps, i \in ReportIds : ReadReport(r, op, i)
    BY <2>2 DEF ReadReport, InTransaction, Idle
  <2>3. CASE LoadTask(r)
    BY <1>1, <2>3 DEF LoadTask, InTransaction, Idle, Request
  <2>4. CASE LoadLicense(r)
    <3>1. PICK n : /\ req' = [req EXCEPT ![r] = n]
                   /\ n = [req[r] EXCEPT !.stage = "ready",
                                         !.license = license[LicenseOf[req[r].task]].status,
                                         !.fresh = req[r].fresh \cup
                                                     {<<"license", LicenseOf[req[r].task]>>}]
      BY <2>4 DEF LoadLicense
    <3>2. n.stage = "ready"
      BY <1>1, <3>1 DEF Request
    <3>3. UNCHANGED <<holder, report>>
      BY <2>4 DEF LoadLicense
    <3> QED BY <3>1, <3>2, <3>3 DEF InTransaction
  <2> QED BY <2>1, <2>2, <2>3, <2>4
<1>3. ~InTransaction(req[r])
  <2>1. req[r] = Idle \/ req[r].stage \in {"opened", "loaded"}
    BY DEF ReadTask, ReadReport, LoadTask, LoadLicense
  <2> QED BY <2>1 DEF InTransaction, Idle
<1>4. req'[r] = n /\ \A x \in Requests : x # r => req'[x] = req[x]
  BY <1>1, <1>2
<1> QED BY <1>2, <1>3, <1>4, RowLockOutside

LEMMA RowLockWrite ==
    ASSUME Typed, RowLock, NEW r \in Requests,
           \/ Cancel(r) \/ Submit(r) \/ Approve(r) \/ Return(r)
           \/ \E result \in Results : Update(r, result)
    PROVE  RowLock'
<1>1. /\ req \in [Requests -> Request] /\ report \in [ReportIds -> ReportRow]
      /\ Refers(req[r])
  BY DEF Typed, TypeOK, Linked
<1>2. req[r].stage = "ready" /\ holder' = holder /\ \E written : Finish(r, written)
  BY DEF Cancel, Submit, Approve, Return, Update, Ready
<1>3. \A i \in ReportIds : report'[i].task = report[i].task
  <2>1. Typed /\ Write(r)
    BY DEF Write
  <2>2. CASE Cancel(r) \/ Approve(r)
    BY <2>2 DEF Cancel, Approve
  <2>3. CASE Submit(r) \/ Return(r) \/ \E result \in Results : Update(r, result)
    <3>1. req[r].report \in ReportIds /\ report[req[r].report].task # None
      BY <1>1, <1>2, <2>3, NoneIsNull DEF Submit, Return, Update, Ready, Refers, ReportOps
    <3>2. \A i \in ReportIds : report[i].task # None => report'[i].task = report[i].task
      BY <2>1, WriteKeepsReports DEF Typed
    <3>3. \A i \in ReportIds : i # req[r].report => report'[i] = report[i]
      BY <1>1, <2>3 DEF Submit, Return, Update
    <3> QED BY <3>1, <3>2, <3>3
  <2> QED BY <2>2, <2>3
<1>4. /\ req'[r] = Idle
      /\ \A x \in Requests : x # r => /\ req'[x].stage = req[x].stage
                                      /\ req'[x].task = req[x].task
                                      /\ req'[x].exists = req[x].exists
  <2>1. PICK written : Finish(r, written)
    BY <1>2
  <2>2. req'[r] = Idle /\ \A x \in Requests : x # r => req'[x] = [req[x] EXCEPT !.fresh = @ \ written]
    BY <2>1 DEF Finish
  <2>3. ASSUME NEW x \in Requests, x # r
        PROVE  /\ req'[x].stage = req[x].stage
               /\ req'[x].task = req[x].task
               /\ req'[x].exists = req[x].exists
    <3>1. req[x] \in Request
      BY <1>1
    <3> QED BY <2>2, <2>3, <3>1 DEF Request
  <2> QED BY <2>2, <2>3
<1>5. ~InTransaction(req[r]) /\ ~InTransaction(req'[r])
  BY <1>2, <1>4 DEF InTransaction, Idle
<1> QED BY <1>2, <1>3, <1>4, <1>5, RowLockOutside

LEMMA RowLockStart ==
    ASSUME Typed, RowLock, NEW r \in Requests, StartUpdate(r) \/ StartFind(r)
    PROVE  RowLock'
<1>1. /\ req \in [Requests -> Request] /\ holder \in [Tasks -> Requests \cup {None}]
      /\ req[r].task \in Tasks /\ report' = report /\ req'[r].task = req[r].task
      /\ \A x \in Requests : x # r => req'[x] = req[x]
  BY DEF Typed, TypeOK, Linked, Refers, StartUpdate, StartFind, Ready, Request
<1>2. \A t \in Tasks : ReportsOf(t)' = ReportsOf(t)
  BY <1>1 DEF ReportsOf
<1>3. ASSUME NEW x \in Requests PROVE Guarded(x)'
  <2>1. Guarded(x) /\ Guarded(r) /\ Refers(req[x]) /\ x # None
    BY NoneIsNull DEF RowLock, Typed, Linked
  <2>2. CASE StartUpdate(r)
    <3>1. /\ holder[req[r].task] = None /\ holder' = [holder EXCEPT ![req[r].task] = r]
          /\ req'[r].stage = "locked" /\ req[r].stage = "ready"
      BY <1>1, <2>2 DEF StartUpdate, Unlocked, Ready, Request
    <3> QED BY <1>1, <1>2, <2>1, <3>1 DEF Guarded, InTransaction, Refers
  <2>3. CASE StartFind(r)
    <3>1. /\ holder' = holder /\ req[r].stage = "locked" /\ req'[r].stage = "found"
          /\ req'[r].exists = (ReportsOf(req[r].task) # {})
      BY <1>1, <2>3 DEF StartFind, Request
    <3>2. CASE x = r
      BY <1>1, <1>2, <2>1, <3>1, <3>2 DEF Guarded, InTransaction
    <3>3. CASE x # r
      BY <1>1, <1>2, <2>1, <3>1, <3>3 DEF Guarded, InTransaction, Refers
    <3> QED BY <3>2, <3>3
  <2> QED BY <2>2, <2>3
<1>4. OneReportPerTask'
  BY <1>1 DEF RowLock, OneReportPerTask
<1> QED BY <1>3, <1>4 DEF RowLock

\* The transaction that creates a report holds the task's lock, found none, and
\* no other transaction can have found none for that task.
LEMMA RowLockCommit ==
    ASSUME Typed, RowLock, NEW r \in Requests, StartCommit(r)
    PROVE  RowLock'
<1> DEFINE t == req[r].task
<1>1. /\ req \in [Requests -> Request] /\ holder \in [Tasks -> Requests \cup {None}]
      /\ report \in [ReportIds -> ReportRow] /\ t \in Tasks /\ req[r].stage = "found"
      /\ holder' = [holder EXCEPT ![t] = None] /\ Finish(r, {<<"task", t>>})
  BY DEF Typed, TypeOK, Linked, Refers, StartCommit
<1>2. /\ req'[r] = Idle
      /\ \A x \in Requests : x # r => /\ req'[x].stage = req[x].stage
                                      /\ req'[x].task = req[x].task
                                      /\ req'[x].exists = req[x].exists
  <2>1. req \in [Requests -> Request] /\ \E written : Finish(r, written)
    BY <1>1
  <2> QED BY <2>1, FinishTyped
<1>3. \/ report' = report
      \/ /\ ReportsOf(t) = {}
         /\ \E i \in ReportIds :
               /\ report[i].task = None
               /\ report' = [report EXCEPT ![i] = [task |-> t, result |-> "none",
                                                   isDraft |-> TRUE]]
  BY <1>1 DEF StartCommit, RowLock, Guarded
<1>4. \A u \in Tasks : u # t => ReportsOf(u)' = ReportsOf(u)
  BY <1>1, <1>3, NoneIsNull DEF ReportsOf
<1>5. ASSUME NEW x \in Requests PROVE Guarded(x)'
  <2>1. Guarded(x) /\ Guarded(r) /\ Refers(req[x]) /\ x # None
    BY NoneIsNull DEF RowLock, Typed, Linked
  <2>2. CASE x = r
    BY <1>1, <1>2, <2>1, <2>2 DEF Guarded, InTransaction, Idle
  <2>3. CASE x # r
    <3>1. InTransaction(req[x]) => req[x].task \in Tasks /\ req[x].task # t
      BY <1>1, <2>1, <2>3 DEF Guarded, InTransaction, Refers
    <3> QED BY <1>1, <1>2, <1>4, <2>1, <2>3, <3>1 DEF Guarded, InTransaction
  <2> QED BY <2>2, <2>3
<1>6. OneReportPerTask'
  <2>1. CASE report' = report
    BY <2>1 DEF RowLock, OneReportPerTask
  <2>2. CASE /\ ReportsOf(t) = {}
             /\ \E i \in ReportIds :
                   /\ report[i].task = None
                   /\ report' = [report EXCEPT ![i] = [task |-> t, result |-> "none",
                                                       isDraft |-> TRUE]]
    BY <1>1, <2>2 DEF RowLock, OneReportPerTask, ReportsOf
  <2> QED BY <1>3, <2>1, <2>2
<1> QED BY <1>5, <1>6 DEF RowLock

LEMMA RowLockAbort ==
    ASSUME Typed, RowLock, NEW r \in Requests, Abort(r)
    PROVE  RowLock'
<1>1. /\ req \in [Requests -> Request] /\ holder \in [Tasks -> Requests \cup {None}]
      /\ report' = report /\ req'[r] = Idle
      /\ \A x \in Requests : x # r => req'[x] = req[x]
      /\ holder' = [t \in Tasks |-> IF holder[t] = r THEN None ELSE holder[t]]
  BY DEF Typed, TypeOK, Abort
<1>2. \A t \in Tasks \cup {None} : ReportsOf(t)' = ReportsOf(t)
  BY <1>1 DEF ReportsOf
<1>3. ASSUME NEW x \in Requests PROVE Guarded(x)'
  <2>1. Guarded(x) /\ Guarded(r) /\ Refers(req[x]) /\ x # None
    BY NoneIsNull DEF RowLock, Typed, Linked
  <2>2. CASE x = r
    BY <1>1, <2>1, <2>2 DEF Guarded, InTransaction, Idle
  <2>3. CASE x # r
    BY <1>1, <1>2, <2>1, <2>3 DEF Guarded, InTransaction, Refers
  <2> QED BY <2>2, <2>3
<1>4. OneReportPerTask'
  BY <1>1 DEF RowLock, OneReportPerTask
<1> QED BY <1>3, <1>4 DEF RowLock

LEMMA RowLockStep == Typed /\ RowLock /\ [Next]_vars => RowLock'
<1> SUFFICES ASSUME Typed, RowLock, [Next]_vars PROVE RowLock'
    OBVIOUS
<1>1. CASE UNCHANGED vars
  BY <1>1 DEF vars, RowLock, Guarded, InTransaction, ReportsOf, OneReportPerTask
<1>2. ASSUME NEW r \in Requests, Step(r) PROVE RowLock'
  BY <1>2, RowLockRead, RowLockWrite, RowLockStart, RowLockCommit, RowLockAbort DEF Step
<1> QED BY <1>1, <1>2 DEF Next

\* However many startTask requests race for a task, it has at most one report.
THEOREM UniqueReport == Spec => []OneReportPerTask
<1>1. Init => Typed /\ RowLock
  BY TypedInit, RowLockInit
<1>2. Typed /\ RowLock /\ [Next]_vars => Typed' /\ RowLock'
  BY TypedStep, RowLockStep
<1>3. RowLock => OneReportPerTask
  BY DEF RowLock
<1> QED BY <1>1, <1>2, <1>3, PTL DEF Spec
-----------------------------------------------------------------------------
(* What the rows of a task under way say. *)

\* A result that was read, or checked, is still in the report.
Recorded(q) ==
    /\ q.op \in ReportOps /\ q.result # "none" => report[q.report].result # "none"
    /\ q.stage \in {"loaded", "ready"} /\ q.op \in {"submit", "approve"} => q.result # "none"
    /\ q.stage = "ready" /\ q.op = "return" => report[q.report].result # "none"

Content ==
    /\ \A t \in Tasks : task[t] \notin {"ASSIGNED", "CANCELLED"} => ReportsOf(t) # {}
    /\ \A i \in ReportIds : report[i].task # None /\ report[i].result = "none" => report[i].isDraft
    /\ SubmittedHasResult
    /\ ReturnedIsDraft
    /\ \A r \in Requests : Recorded(req[r])

LEMMA ContentInit == Init => Content
BY NoneIsNull DEF Init, Content, Recorded, Idle, Absent, ReportOps, ReportsOf,
   SubmittedHasResult, ReturnedIsDraft

LEMMA IdleRecorded == Recorded(Idle)
BY DEF Recorded, Idle, ReportOps

\* Steps that write no row.
LEMMA ContentQuiet ==
    ASSUME Typed, Content, NEW r \in Requests, NEW n, Recorded(n),
           req' = [req EXCEPT ![r] = n], UNCHANGED <<task, report>>
    PROVE  Content'
<1>1. ASSUME NEW x \in Requests PROVE Recorded(req[x])'
  <2>1. req'[x] = IF x = r THEN n ELSE req[x]
    BY DEF Typed, TypeOK
  <2>2. Recorded(req[x])
    BY DEF Content
  <2> QED BY <2>1, <2>2 DEF Recorded
<1> QED BY <1>1 DEF Content, ReportsOf, SubmittedHasResult, ReturnedIsDraft

LEMMA ContentRead ==
    ASSUME Typed, RowLock, Content, NEW r \in Requests,
           \/ \E op \in TaskOps, t \in Tasks : ReadTask(r, op, t)
           \/ \E op \in ReportOps, i \in ReportIds : ReadReport(r, op, i)
           \/ LoadTask(r) \/ LoadLicense(r) \/ StartUpdate(r) \/ StartFind(r) \/ Abort(r)
    PROVE  Content'
<1>1. req \in [Requests -> Request] /\ Recorded(req[r]) /\ Refers(req[r])
  BY DEF Typed, TypeOK, Linked, Content
<1>2. UNCHANGED <<task, report>>
  BY DEF ReadTask, ReadReport, LoadTask, LoadLicense, StartUpdate, StartFind, Abort
<1>3. \E n : Recorded(n) /\ req' = [req EXCEPT ![r] = n]
  <2>1. CASE \E op \in TaskOps, t \in Tasks : ReadTask(r, op, t)
    <3>1. PICK op \in TaskOps, t \in Tasks : ReadTask(r, op, t)
      BY <2>1
    <3> DEFINE n == [Idle EXCEPT !.op = op, !.stage = "ready", !.task = t,
                                 !.fresh = {<<"task", t>>}]
    <3>2. Recorded(n)
      BY DEF Recorded, Idle, TaskOps, ReportOps
    <3>3. req' = [req EXCEPT ![r] = n]
      BY <3>1 DEF ReadTask
    <3> QED BY <3>2, <3>3
  <2>2. CASE \E op \in ReportOps, i \in ReportIds : ReadReport(r, op, i)
    <3>1. PICK op \in ReportOps, i \in ReportIds : ReadReport(r, op, i)
      BY <2>2
    <3> DEFINE n == [Idle EXCEPT !.op = op, !.stage = "opened",
                                 !.task = report[i].task, !.report = i,
                                 !.result = report[i].result,
                                 !.isDraft = report[i].isDraft,
                                 !.fresh = {<<"report", i>>}]
    <3>2. Recorded(n)
      BY DEF Recorded, Idle
    <3>3. req' = [req EXCEPT ![r] = n]
      BY <3>1 DEF ReadReport
    <3> QED BY <3>2, <3>3
  <2>3. CASE LoadTask(r)
    <3> DEFINE q == req[r]
               s == IF q.op = "approve" /\ LicenseOf[q.task] # None THEN "loaded" ELSE "ready"
               n == [q EXCEPT !.stage = s, !.fresh = @ \cup {<<"task", q.task>>}]
    <3>1. q \in Request /\ Refers(q) /\ q.stage = "opened"
      BY <1>1, <2>3 DEF LoadTask
    <3>2. CASE Permitted(q, task[q.task])
      <4>1. req' = [req EXCEPT ![r] = n]
        BY <2>3, <3>2 DEF LoadTask
      <4>2. n.stage \in {"loaded", "ready"} /\ n.op = q.op /\ n.result = q.result /\ n.report = q.report
        BY <3>1 DEF Request
      <4>3. q.op \in {"submit", "approve"} => q.result # "none"
        BY <3>2 DEF Permitted
      <4>4. q.op = "return" => report[q.report].result # "none"
        <5>1. ASSUME q.op = "return" PROVE task[q.task] = "PENDING_REVIEW"
          BY <3>2, <5>1 DEF Permitted, TaskAllows
        <5>2. ASSUME q.op = "return"
              PROVE  \E i \in ReportIds : report[i].task = q.task /\ report[i].result # "none"
          BY <3>1, <5>1, <5>2 DEF Content, SubmittedHasResult, ReportsOf, Refers
        <5> QED BY <3>1, <5>2, NoneIsNull DEF Refers, ReportOps, RowLock, OneReportPerTask
      <4>5. Recorded(n)
        BY <1>1, <4>2, <4>3, <4>4 DEF Recorded
      <4> QED BY <4>1, <4>5
    <3>3. CASE ~Permitted(q, task[q.task])
      BY <2>3, <3>3, IdleRecorded DEF LoadTask
    <3> QED BY <3>2, <3>3
  <2>4. CASE LoadLicense(r)
    <3> DEFINE l == LicenseOf[req[r].task]
               n == [req[r] EXCEPT !.stage = "ready", !.license = license[l].status,
                                   !.fresh = @ \cup {<<"license", l>>}]
    <3>1. req[r].op = "approve" /\ req[r].stage = "loaded"
      BY <1>1, <2>4 DEF LoadLicense, Refers
    <3>2. n.stage = "ready" /\ n.op = req[r].op /\ n.result = req[r].result /\ n.report = req[r].report
      BY <1>1 DEF Request
    <3>3. Recorded(n)
      BY <1>1, <3>1, <3>2 DEF Recorded
    <3>4. req' = [req EXCEPT ![r] = n]
      BY <2>4 DEF LoadLicense
    <3> HIDE DEF n
    <3> QED BY <3>3, <3>4
  <2>5. CASE StartUpdate(r)
    <3> DEFINE n == [req[r] EXCEPT !.stage = "locked"]
    <3>1. req[r].op = "start" /\ req' = [req EXCEPT ![r] = n]
      BY <2>5 DEF StartUpdate, Ready
    <3>2. Recorded(n)
      BY <1>1, <3>1 DEF Recorded, Request, ReportOps
    <3> HIDE DEF n
    <3> QED BY <3>1, <3>2
  <2>6. CASE StartFind(r)
    <3> DEFINE n == [req[r] EXCEPT !.stage = "found", !.exists = ReportsOf(req[r].task) # {}]
    <3>1. req[r].op = "start" /\ req' = [req EXCEPT ![r] = n]
      BY <1>1, <2>6 DEF StartFind, Refers
    <3>2. Recorded(n)
      BY <1>1, <3>1 DEF Recorded, Request, ReportOps
    <3> HIDE DEF n
    <3> QED BY <3>1, <3>2
  <2>7. CASE Abort(r)
    BY <2>7, IdleRecorded DEF Abort
  <2> QED BY <2>1, <2>2, <2>3, <2>4, <2>5, <2>6, <2>7
<1> QED BY <1>2, <1>3, ContentQuiet

\* A write keeps every result that is there, and what the other requests read.
LEMMA RecordedKept ==
    ASSUME Typed, Content, NEW r \in Requests, NEW written, Finish(r, written),
           \A i \in ReportIds : report[i].task # None /\ report[i].result # "none"
                                => report'[i].result # "none"
    PROVE  \A x \in Requests : Recorded(req[x])'
<1> SUFFICES ASSUME NEW x \in Requests PROVE Recorded(req[x])'
    OBVIOUS
<1>1. req \in [Requests -> Request] /\ Recorded(req[x]) /\ Refers(req[x])
  BY DEF Typed, TypeOK, Linked, Content
<1>2. CASE x = r
  <2>1. req'[x] = Idle
    BY <1>1, <1>2, FinishTyped
  <2> QED BY <2>1 DEF Recorded, Idle, ReportOps
<1>3. CASE x # r
  <2>1. /\ req'[x].op = req[x].op /\ req'[x].stage = req[x].stage
        /\ req'[x].result = req[x].result /\ req'[x].report = req[x].report
    BY <1>1, <1>3, FinishTyped
  <2>2. req[x].op \in ReportOps => /\ req[x].report \in ReportIds
                                  /\ report[req[x].report].task # None
    BY <1>1, NoneIsNull DEF Refers
  <2> QED BY <1>1, <2>1, <2>2 DEF Recorded, ReportOps
<1> QED BY <1>2, <1>3

LEMMA ContentTask ==
    ASSUME Typed, Content, NEW r \in Requests, Cancel(r) \/ Approve(r)
    PROVE  Content'
<1>1. /\ report' = report /\ req[r].task \in Tasks /\ \E written : Finish(r, written)
      /\ task \in [Tasks -> TaskStatus] /\ Recorded(req[r]) /\ Refers(req[r])
  BY DEF Cancel, Approve, Ready, Typed, TypeOK, Linked, Refers, Content
<1>2. \A x \in Requests : Recorded(req[x])'
  BY <1>1, RecordedKept
<1>3. \A t \in Tasks : ReportsOf(t)' = ReportsOf(t)
  BY <1>1 DEF ReportsOf
<1>4. CASE Cancel(r)
  <2>1. task' = [task EXCEPT ![req[r].task] = "CANCELLED"]
    BY <1>4 DEF Cancel
  <2> QED BY <1>1, <1>2, <1>3, <2>1 DEF Content, SubmittedHasResult, ReturnedIsDraft
<1>5. CASE Approve(r)
  <2>1. /\ task' = [task EXCEPT ![req[r].task] = "APPROVED"]
        /\ req[r].report \in ReportsOf(req[r].task)
        /\ report[req[r].report].result # "none"
    BY <1>1, <1>5 DEF Approve, Ready, Recorded, Refers, ReportOps, ReportsOf
  <2> QED BY <1>1, <1>2, <1>3, <2>1 DEF Content, SubmittedHasResult, ReturnedIsDraft
<1> QED BY <1>4, <1>5

LEMMA ContentUpdate ==
    ASSUME Typed, Content, NEW r \in Requests, NEW result \in Results, Update(r, result)
    PROVE  Content'
<1> DEFINE i == req[r].report
<1>1. /\ report \in [ReportIds -> ReportRow] /\ result # "none" /\ task' = task
      /\ report' = [report EXCEPT ![i] = [@ EXCEPT !.result = result, !.isDraft = TRUE]]
      /\ \E written : Finish(r, written)
  BY DEF Update, Typed, TypeOK
<1>2. i \in ReportIds
  BY DEF Update, Ready, Typed, Linked, Refers, ReportOps
<1>3. /\ report'[i].task = report[i].task /\ report'[i].result = result
      /\ report'[i].isDraft = TRUE
      /\ \A j \in ReportIds : j # i => report'[j] = report[j]
  BY <1>1, <1>2 DEF ReportRow
<1>4. \A x \in Requests : Recorded(req[x])'
  BY <1>1, <1>3, RecordedKept
<1>5. \A t \in Tasks : ReportsOf(t)' = ReportsOf(t)
  BY <1>3 DEF ReportsOf
<1> QED BY <1>1, <1>2, <1>3, <1>4, <1>5 DEF Content, SubmittedHasResult, ReturnedIsDraft, ReportsOf

LEMMA ContentReview ==
    ASSUME Typed, RowLock, Content, NEW r \in Requests, Submit(r) \/ Return(r)
    PROVE  Content'
<1> DEFINE i == req[r].report
           t == req[r].task
<1>1. /\ report \in [ReportIds -> ReportRow] /\ task \in [Tasks -> TaskStatus]
      /\ t \in Tasks /\ i \in ReportIds /\ report[i].task = t /\ t # None
      /\ report[i].result # "none" /\ \E written : Finish(r, written)
  BY NoneIsNull DEF Submit, Return, Ready, Typed, TypeOK, Linked, Refers, ReportOps, Content, Recorded
<1>2. \E d \in BOOLEAN, s \in {"PENDING_REVIEW", "RETURNED"} :
         /\ s = "RETURNED" => d
         /\ task' = [task EXCEPT ![t] = s]
         /\ report' = [report EXCEPT ![i] = [@ EXCEPT !.isDraft = d]]
  BY DEF Submit, Return
<1>3. PICK d \in BOOLEAN, s \in {"PENDING_REVIEW", "RETURNED"} :
         /\ s = "RETURNED" => d
         /\ task' = [task EXCEPT ![t] = s]
         /\ report' = [report EXCEPT ![i] = [@ EXCEPT !.isDraft = d]]
  BY <1>2
<1>4. /\ report'[i].task = t /\ report'[i].result = report[i].result
      /\ report'[i].isDraft = d
      /\ \A j \in ReportIds : j # i => report'[j] = report[j]
      /\ task'[t] = s /\ \A u \in Tasks : u # t => task'[u] = task[u]
  BY <1>1, <1>3 DEF ReportRow
<1>5. \A x \in Requests : Recorded(req[x])'
  BY <1>1, <1>4, RecordedKept
<1>6. /\ \A u \in Tasks : ReportsOf(u)' = ReportsOf(u)
      /\ ReportsOf(t) = {i} /\ \A u \in Tasks : u # t => i \notin ReportsOf(u)
  BY <1>1, <1>4 DEF ReportsOf, RowLock, OneReportPerTask
<1>7. \A u \in Tasks : task[u] \notin {"ASSIGNED", "CANCELLED"} => ReportsOf(u) # {}
  BY DEF Content
<1>8. SubmittedHasResult'
  BY <1>1, <1>3, <1>4, <1>6 DEF Content, SubmittedHasResult, ReportsOf
<1>9. ReturnedIsDraft'
  BY <1>1, <1>3, <1>4, <1>6 DEF Content, ReturnedIsDraft, ReportsOf
<1>10. \A j \in ReportIds : report'[j].task # None /\ report'[j].result = "none" => report'[j].isDraft
  BY <1>1, <1>4 DEF Content
<1>11. \A u \in Tasks : task'[u] \notin {"ASSIGNED", "CANCELLED"} => ReportsOf(u)' # {}
  BY <1>4, <1>6, <1>7
<1> QED BY <1>5, <1>8, <1>9, <1>10, <1>11 DEF Content

LEMMA ContentStart ==
    ASSUME Typed, RowLock, Content, NEW r \in Requests, StartCommit(r)
    PROVE  Content'
<1>0. PICK t \in Tasks : t = req[r].task
  BY DEF StartCommit, Typed, Linked, Refers
<1>1. /\ report \in [ReportIds -> ReportRow] /\ task \in [Tasks -> TaskStatus]
      /\ t # None /\ \E written : Finish(r, written)
      /\ task' = [task EXCEPT ![t] = "IN_PROGRESS"]
  BY <1>0, NoneIsNull DEF StartCommit, Typed, TypeOK
<1>2. \/ report' = report /\ ReportsOf(t) # {}
      \/ \E i \in ReportIds :
            /\ report[i].task = None
            /\ report' = [report EXCEPT ![i] = [task |-> t, result |-> "none", isDraft |-> TRUE]]
  BY <1>0 DEF StartCommit, RowLock, Guarded
<1>3. CASE report' = report /\ ReportsOf(t) # {}
  <2>1. \A x \in Requests : Recorded(req[x])'
    BY <1>1, <1>3, RecordedKept
  <2>2. \A u \in Tasks : ReportsOf(u)' = ReportsOf(u)
    BY <1>3 DEF ReportsOf
  <2> QED BY <1>1, <1>3, <2>1, <2>2 DEF Content, SubmittedHasResult, ReturnedIsDraft
<1>4. CASE \E i \in ReportIds :
              /\ report[i].task = None
              /\ report' = [report EXCEPT ![i] = [task |-> t, result |-> "none", isDraft |-> TRUE]]
  <2>1. PICK i \in ReportIds :
              /\ report[i].task = None
              /\ report' = [report EXCEPT ![i] = [task |-> t, result |-> "none", isDraft |-> TRUE]]
    BY <1>4
  <2>2. /\ report'[i] = [task |-> t, result |-> "none", isDraft |-> TRUE]
        /\ \A j \in ReportIds : j # i => report'[j] = report[j]
    BY <1>1, <2>1
  <2>3. \A x \in Requests : Recorded(req[x])'
    BY <1>1, <2>1, <2>2, RecordedKept
  <2>4. /\ i \in ReportsOf(t)'
        /\ \A u \in Tasks : u # t => ReportsOf(u)' = ReportsOf(u)
    <3>1. i \in ReportsOf(t)'
      BY <2>2 DEF ReportsOf
    <3>2. ASSUME NEW u \in Tasks, u # t PROVE ReportsOf(u)' = ReportsOf(u)
      <4>1. u # None
        BY NoneIsNull
      <4> QED BY <2>1, <2>2, <3>2, <4>1 DEF ReportsOf
    <3> QED BY <3>1, <3>2
  <2>5. \A u \in Tasks : u # t => i \notin ReportsOf(u)
    BY <1>1, <2>1, NoneIsNull DEF ReportsOf
  <2>6. SubmittedHasResult' /\ ReturnedIsDraft'
    BY <1>1, <2>2, <2>4, <2>5 DEF Content, SubmittedHasResult, ReturnedIsDraft, ReportsOf
  <2>7. \A u \in Tasks : task'[u] \notin {"ASSIGNED", "CANCELLED"} => ReportsOf(u)' # {}
    BY <1>1, <2>4 DEF Content
  <2>8. \A j \in ReportIds : report'[j].task # None /\ report'[j].result = "none" => report'[j].isDraft
    BY <2>2 DEF Content
  <2> QED BY <2>3, <2>6, <2>7, <2>8 DEF Content
<1> QED BY <1>2, <1>3, <1>4

LEMMA ContentStep == Typed /\ RowLock /\ Content /\ [Next]_vars => Content'
<1> SUFFICES ASSUME Typed, RowLock, Content, [Next]_vars PROVE Content'
    OBVIOUS
<1>1. CASE UNCHANGED vars
  BY <1>1 DEF vars, Content, Recorded, ReportsOf, SubmittedHasResult, ReturnedIsDraft
<1>2. ASSUME NEW r \in Requests, Step(r) PROVE Content'
  BY <1>2, ContentRead, ContentTask, ContentUpdate, ContentReview, ContentStart DEF Step
<1> QED BY <1>1, <1>2 DEF Next

LEMMA WayOn == Typed /\ Content => NeverStuck
<1> SUFFICES ASSUME Typed, Content, NEW t \in Tasks,
                    task[t] \notin {"ASSIGNED", "APPROVED", "CANCELLED"}
             PROVE  \E i \in ReportsOf(t) : MovesOn(i, task[t])
    BY DEF NeverStuck, TaskAllows
<1>1. task[t] \in {"IN_PROGRESS", "PENDING_REVIEW", "RETURNED"}
  BY DEF Typed, TypeOK, TaskStatus
<1>2. PICK i \in ReportsOf(t) :
         report[i].result = "none" => report[i].isDraft /\ task[t] = "IN_PROGRESS"
  <2>1. CASE task[t] = "IN_PROGRESS"
    BY <2>1, NoneIsNull DEF Content, ReportsOf
  <2>2. CASE task[t] # "IN_PROGRESS"
    BY <1>1, <2>2 DEF Content, SubmittedHasResult
  <2> QED BY <2>1, <2>2
<1>3. \A op, result : /\ AsRead(i, op, result).op = op /\ AsRead(i, op, result).result = result
                      /\ AsRead(i, op, result).isDraft = report[i].isDraft
  BY DEF Idle, AsRead
<1>4. MovesOn(i, task[t])
  <2>1. CASE report[i].result = "none"
    BY <1>2, <1>3, <2>1 DEF MovesOn, Permitted, TaskAllows
  <2>2. CASE report[i].result # "none"
    BY <1>1, <1>3, <2>2 DEF MovesOn, Permitted, TaskAllows
  <2> QED BY <2>1, <2>2
<1> QED BY <1>4

LEMMA ContentHolds == Spec => [](Typed /\ RowLock /\ Content)
<1>1. Init => Typed /\ RowLock /\ Content
  BY TypedInit, RowLockInit, ContentInit
<1>2. Typed /\ RowLock /\ Content /\ [Next]_vars => Typed' /\ RowLock' /\ Content'
  BY TypedStep, RowLockStep, ContentStep
<1> QED BY <1>1, <1>2, PTL DEF Spec

\* What was sent to review has a report with a result, and keeps it, however edits,
\* submissions and reviews of submitReport to returnReport overlap.
THEOREM ResultsKept == Spec => []SubmittedHasResult
<1>1. Content => SubmittedHasResult
  BY DEF Content
<1> QED BY <1>1, ContentHolds, PTL

\* No race leaves a task stuck half way: what came back can be edited, and some request
\* can move on every task that is neither approved nor cancelled.
THEOREM RowsAgree == Spec => [](ReturnedIsDraft /\ NeverStuck)
<1>1. Typed /\ Content => ReturnedIsDraft /\ NeverStuck
  BY WayOn DEF Content
<1> QED BY <1>1, ContentHolds, PTL
-----------------------------------------------------------------------------
(* What a request may believe of the rows nobody has written since it read them. *)

\* The copy of a fresh row is the row, and the checks made on fresh copies would
\* be passed again.
Believes(q) ==
    LET fresh(kind, x) == <<kind, x>> \in q.fresh
    IN  /\ q.op \in TaskOps /\ fresh("task", q.task) => TaskAllows(q.op, task[q.task])
        /\ q.op \in ReportOps /\ fresh("report", q.report) =>
              q.result = report[q.report].result /\ q.isDraft = report[q.report].isDraft
        /\ q.stage \in {"loaded", "ready"} /\ q.op \in ReportOps /\ fresh("task", q.task) =>
              Permitted(q, task[q.task])
        /\ q.stage = "ready" /\ q.op = "approve" =>
              \A l \in Licenses : LicenseOf[q.task] = l /\ fresh("license", l) =>
                  q.license = license[l].status

UpToDate == \A r \in Requests : Believes(req[r])

LEMMA IdleBelieves == Believes(Idle)
BY DEF Believes, Idle, TaskOps, ReportOps

LEMMA UpToDateInit == Init => UpToDate
BY IdleBelieves DEF Init, UpToDate

\* Permission depends on four fields of a request.
LEMMA PermittedSame ==
    ASSUME NEW p, NEW q, p.op = q.op, p.result = q.result, p.isDraft = q.isDraft, NEW status
    PROVE  Permitted(p, status) <=> Permitted(q, status)
BY DEF Permitted

\* A step that writes no row the workflow decides on.
LEMMA UpToDateQuiet ==
    ASSUME Typed, UpToDate, NEW r \in Requests, NEW n, Believes(n),
           req' = [req EXCEPT ![r] = n], UNCHANGED <<task, report, license>>
    PROVE  UpToDate'
<1> SUFFICES ASSUME NEW x \in Requests PROVE Believes(req[x])'
    BY DEF UpToDate
<1>1. req'[x] = IF x = r THEN n ELSE req[x]
  BY DEF Typed, TypeOK
<1>2. Believes(req[x])
  BY DEF UpToDate
<1>3. Believes(req'[x])
  BY <1>1, <1>2
<1> QED BY <1>3 DEF Believes

LEMMA BelievesReadTask ==
    ASSUME Typed, UpToDate, NEW r \in Requests, NEW op \in TaskOps, NEW t \in Tasks,
           ReadTask(r, op, t)
    PROVE  UpToDate'
<1> DEFINE n == [Idle EXCEPT !.op = op, !.stage = "ready", !.task = t,
                             !.fresh = {<<"task", t>>}]
<1>1. TaskAllows(op, task[t]) /\ op \notin ReportOps
  BY DEF ReadTask, TaskOps, ReportOps
<1>2. n.op = op /\ n.task = t
  BY DEF Idle
<1>3. Believes(n)
  <2> HIDE DEF n
  <2> QED BY <1>1, <1>2 DEF Believes, ReportOps
<1>4. req' = [req EXCEPT ![r] = n] /\ UNCHANGED <<task, report, license>>
  BY DEF ReadTask
<1> HIDE DEF n
<1> QED BY <1>3, <1>4, UpToDateQuiet

LEMMA BelievesReadReport ==
    ASSUME Typed, UpToDate, NEW r \in Requests, NEW op \in ReportOps, NEW i \in ReportIds,
           ReadReport(r, op, i)
    PROVE  UpToDate'
<1> DEFINE n == [Idle EXCEPT !.op = op, !.stage = "opened",
                             !.task = report[i].task, !.report = i,
                             !.result = report[i].result,
                             !.isDraft = report[i].isDraft,
                             !.fresh = {<<"report", i>>}]
<1>1. /\ n.op = op /\ n.stage = "opened" /\ n.report = i /\ n.result = report[i].result
      /\ n.isDraft = report[i].isDraft
  BY DEF Idle
<1>2. op \notin TaskOps
  BY DEF TaskOps, ReportOps
<1>3. Believes(n)
  <2> HIDE DEF n
  <2> QED BY <1>1, <1>2 DEF Believes
<1>4. req' = [req EXCEPT ![r] = n] /\ UNCHANGED <<task, report, license>>
  BY DEF ReadReport
<1> HIDE DEF n
<1> QED BY <1>3, <1>4, UpToDateQuiet

LEMMA BelievesLoadTask ==
    ASSUME Typed, UpToDate, NEW r \in Requests, LoadTask(r)
    PROVE  UpToDate'
<1> DEFINE q == req[r]
           s == IF q.op = "approve" /\ LicenseOf[q.task] # None THEN "loaded" ELSE "ready"
           n == [q EXCEPT !.stage = s, !.fresh = @ \cup {<<"task", q.task>>}]
<1>1. q \in Request /\ Refers(q) /\ q.stage = "opened" /\ Believes(q) /\ q.op \in ReportOps
  BY DEF LoadTask, Typed, TypeOK, Linked, Refers, UpToDate
<1>2. UNCHANGED <<task, report, license>>
  BY DEF LoadTask
<1>3. CASE Permitted(q, task[q.task])
  <2>1. req' = [req EXCEPT ![r] = n]
    BY <1>3 DEF LoadTask
  <2>2. /\ n.op = q.op /\ n.task = q.task /\ n.report = q.report /\ n.result = q.result
        /\ n.isDraft = q.isDraft /\ n.license = q.license /\ n.stage = s
        /\ n.fresh = q.fresh \cup {<<"task", q.task>>}
    BY <1>1 DEF Request
  <2> HIDE DEF n
  <2>3. Permitted(n, task[n.task])
    BY <1>3, <2>2, PermittedSame
  <2>4. \A i : <<"report", i>> \in n.fresh => <<"report", i>> \in q.fresh
    BY <2>2
  <2>5. \A l \in Licenses : <<"license", l>> \in n.fresh => LicenseOf[q.task] # l \/ n.stage # "ready" \/ n.op # "approve"
    BY <2>2, NoneIsNull
  <2>6. n.op \notin TaskOps
    BY <1>1, <2>2 DEF TaskOps, ReportOps
  <2>7. Believes(n)
    BY <1>1, <2>2, <2>3, <2>4, <2>5, <2>6 DEF Believes
  <2> QED BY <1>2, <2>1, <2>7, UpToDateQuiet
<1>4. CASE ~Permitted(q, task[q.task])
  <2>1. req' = [req EXCEPT ![r] = Idle]
    BY <1>4 DEF LoadTask
  <2> QED BY <1>2, <2>1, IdleBelieves, UpToDateQuiet
<1> QED BY <1>3, <1>4

LEMMA BelievesLoadLicense ==
    ASSUME Typed, UpToDate, NEW r \in Requests, LoadLicense(r)
    PROVE  UpToDate'
<1> DEFINE q == req[r]
           l == LicenseOf[q.task]
           n == [q EXCEPT !.stage = "ready", !.license = license[l].status,
                          !.fresh = @ \cup {<<"license", l>>}]
<1>1. q \in Request /\ Refers(q) /\ q.stage = "loaded" /\ Believes(q) /\ q.op = "approve"
  BY DEF LoadLicense, Typed, TypeOK, Linked, Refers, UpToDate
<1>2. req' = [req EXCEPT ![r] = n] /\ UNCHANGED <<task, report, license>>
  BY DEF LoadLicense
<1>3. /\ n.op = q.op /\ n.task = q.task /\ n.report = q.report /\ n.result = q.result
      /\ n.isDraft = q.isDraft /\ n.license = license[l].status /\ n.stage = "ready"
      /\ n.fresh = q.fresh \cup {<<"license", l>>}
  BY <1>1 DEF Request
<1> HIDE DEF n
<1>4. \A s : Permitted(n, s) <=> Permitted(q, s)
  BY <1>3, PermittedSame
<1>5. /\ \A i : <<"report", i>> \in n.fresh => <<"report", i>> \in q.fresh
      /\ \A t : <<"task", t>> \in n.fresh => <<"task", t>> \in q.fresh
  BY <1>3
<1>6. n.op \notin TaskOps
  BY <1>1, <1>3 DEF TaskOps
<1>7. Believes(n)
  BY <1>1, <1>3, <1>4, <1>5, <1>6 DEF Believes
<1> QED BY <1>2, <1>7, UpToDateQuiet

LEMMA BelievesStart ==
    ASSUME Typed, UpToDate, NEW r \in Requests, StartUpdate(r) \/ StartFind(r)
    PROVE  UpToDate'
<1>1. req[r] \in Request /\ req[r].op = "start" /\ Believes(req[r])
  BY DEF StartUpdate, StartFind, Ready, Typed, TypeOK, Linked, Refers, UpToDate
<1>2. PICK s, e : req' = [req EXCEPT ![r] = [req[r] EXCEPT !.stage = s, !.exists = e]]
  <2>1. CASE StartUpdate(r)
    <3>1. req' = [req EXCEPT ![r] = [req[r] EXCEPT !.stage = "locked", !.exists = req[r].exists]]
      BY <1>1, <2>1 DEF StartUpdate, Typed, TypeOK, Request
    <3> QED BY <3>1
  <2>2. CASE StartFind(r)
    BY <1>1, <2>2 DEF StartFind, Typed, TypeOK, Request
  <2> QED BY <2>1, <2>2
<1> DEFINE n == [req[r] EXCEPT !.stage = s, !.exists = e]
<1>3. n.op = "start" /\ n.task = req[r].task /\ n.fresh = req[r].fresh
  BY <1>1 DEF Request
<1>4. req' = [req EXCEPT ![r] = n] /\ UNCHANGED <<task, report, license>>
  BY <1>2 DEF StartUpdate, StartFind
<1> HIDE DEF n
<1>5. Believes(n)
  BY <1>1, <1>3 DEF Believes, ReportOps
<1> QED BY <1>4, <1>5, UpToDateQuiet

\* What a write leaves alone as long as the row is not among the written ones.
Wrote(written) ==
    /\ \A t \in Tasks : <<"task", t>> \notin written => task'[t] = task[t]
    /\ \A i \in ReportIds : <<"report", i>> \notin written /\ report[i].task # None =>
          report'[i].result = report[i].result /\ report'[i].isDraft = report[i].isDraft
    /\ \A l \in Licenses : <<"license", l>> \notin written => license'[l] = license[l]

LEMMA UpToDateFinish ==
    ASSUME Typed, UpToDate, NEW r \in Requests, NEW written, Finish(r, written), Wrote(written)
    PROVE  UpToDate'
<1> SUFFICES ASSUME NEW x \in Requests PROVE Believes(req[x])'
    BY DEF UpToDate
<1>1. req \in [Requests -> Request] /\ Believes(req[x]) /\ Refers(req[x])
  BY DEF UpToDate, Typed, TypeOK, Linked
<1>2. CASE x = r
  <2>1. req'[x] = Idle
    BY <1>1, <1>2, FinishTyped
  <2> QED BY <2>1 DEF Believes, Idle, TaskOps, ReportOps
<1>3. CASE x # r
  <2>1. /\ req'[x].op = req[x].op /\ req'[x].stage = req[x].stage
        /\ req'[x].task = req[x].task /\ req'[x].report = req[x].report
        /\ req'[x].result = req[x].result /\ req'[x].isDraft = req[x].isDraft
        /\ req'[x].license = req[x].license
        /\ req'[x].fresh = req[x].fresh \ written
    <3>1. req'[x] = [req[x] EXCEPT !.fresh = req[x].fresh \ written]
      BY <1>1, <1>3, FinishTyped
    <3> QED BY <1>1, <3>1 DEF Request
  <2>2. \A s : Permitted(req'[x], s) <=> Permitted(req[x], s)
    BY <2>1, PermittedSame
  <2>3. req[x].op \in TaskOps \cup ReportOps => req[x].task \in Tasks
    BY <1>1 DEF Refers, Idle, TaskOps, ReportOps
  <2>4. req[x].op \in ReportOps => req[x].report \in ReportIds /\ report[req[x].report].task # None
    BY <1>1, NoneIsNull DEF Refers
  <2>5. <<"task", req[x].task>> \in req'[x].fresh /\ req[x].task \in Tasks =>
           <<"task", req[x].task>> \in req[x].fresh /\ task'[req[x].task] = task[req[x].task]
    BY <2>1 DEF Wrote
  <2>6. <<"report", req[x].report>> \in req'[x].fresh /\ req[x].op \in ReportOps =>
           /\ <<"report", req[x].report>> \in req[x].fresh
           /\ report'[req[x].report].result = report[req[x].report].result
           /\ report'[req[x].report].isDraft = report[req[x].report].isDraft
    BY <2>1, <2>4 DEF Wrote
  <2>7. \A l \in Licenses : <<"license", l>> \in req'[x].fresh =>
           <<"license", l>> \in req[x].fresh /\ license'[l] = license[l]
    BY <2>1 DEF Wrote
  <2> QED BY <1>1, <2>1, <2>2, <2>3, <2>5, <2>6, <2>7 DEF Believes
<1> QED BY <1>2, <1>3

LEMMA BelievesTask ==
    ASSUME Typed, UpToDate, NEW r \in Requests, StartCommit(r) \/ Cancel(r)
    PROVE  UpToDate'
<1> DEFINE t == req[r].task
<1>1. /\ task \in [Tasks -> TaskStatus] /\ report \in [ReportIds -> ReportRow] /\ license' = license
      /\ Finish(r, {<<"task", t>>})
  BY DEF StartCommit, Cancel, Typed, TypeOK
<1>2. \A u \in Tasks : <<"task", u>> \notin {<<"task", t>>} => task'[u] = task[u]
  BY <1>1 DEF StartCommit, Cancel
<1>3. \A i \in ReportIds : report[i].task # None => report'[i] = report[i]
  BY <1>1 DEF StartCommit, Cancel
<1>4. Wrote({<<"task", t>>})
  BY <1>1, <1>2, <1>3 DEF Wrote
<1> QED BY <1>1, <1>4, UpToDateFinish

LEMMA BelievesReport ==
    ASSUME Typed, UpToDate, NEW r \in Requests,
           Submit(r) \/ Return(r) \/ \E result \in Results : Update(r, result)
    PROVE  UpToDate'
<1> DEFINE t == req[r].task
           i == req[r].report
           T == IF req[r].op = "update" THEN {} ELSE {<<"task", t>>}
           W == T \cup {<<"report", i>>}
<1>0. Finish(r, W)
  <2>1. CASE Submit(r) \/ Return(r)
    <3>1. Finish(r, {<<"task", t>>, <<"report", i>>}) /\ req[r].op # "update"
      BY <2>1 DEF Submit, Return, Ready
    <3>2. W = {<<"task", t>>, <<"report", i>>}
      BY <3>1
    <3> QED BY <3>1, <3>2
  <2>2. CASE \E result \in Results : Update(r, result)
    <3>1. Finish(r, {<<"report", i>>}) /\ req[r].op = "update"
      BY <2>2 DEF Update, Ready
    <3>2. W = {<<"report", i>>}
      BY <3>1
    <3> QED BY <3>1, <3>2
  <2> QED BY <2>1, <2>2
<1>1. /\ task \in [Tasks -> TaskStatus] /\ report \in [ReportIds -> ReportRow] /\ license' = license
      /\ Finish(r, W)
  BY <1>0 DEF Submit, Return, Update, Typed, TypeOK
<1>2. \A u \in Tasks : <<"task", u>> \notin W => task'[u] = task[u]
  BY <1>1 DEF Submit, Return, Update, Ready
<1>3. \A j \in ReportIds : <<"report", j>> \notin W => report'[j] = report[j]
  BY <1>1 DEF Submit, Return, Update
<1>4. Wrote(W)
  BY <1>1, <1>2, <1>3 DEF Wrote
<1> HIDE DEF W
<1> QED BY <1>1, <1>4, UpToDateFinish

LEMMA BelievesApprove ==
    ASSUME Typed, UpToDate, NEW r \in Requests, Approve(r)
    PROVE  UpToDate'
<1> DEFINE t == req[r].task
           W == {<<"task", t>>} \cup IF license' = license THEN {} ELSE {<<"license", LicenseOf[t]>>}
<1>1. /\ task \in [Tasks -> TaskStatus] /\ license \in [Licenses -> LicenseRow] /\ report' = report
      /\ Finish(r, W)
  BY DEF Approve, Typed, TypeOK
<1>2. \A u \in Tasks : <<"task", u>> \notin W => task'[u] = task[u]
  BY <1>1 DEF Approve
<1>3. \A l \in Licenses : <<"license", l>> \notin W => license'[l] = license[l]
  BY <1>1 DEF Approve
<1>4. Wrote(W)
  BY <1>1, <1>2, <1>3 DEF Wrote
<1> HIDE DEF W
<1> QED BY <1>1, <1>4, UpToDateFinish

LEMMA BelievesAbort ==
    ASSUME Typed, UpToDate, NEW r \in Requests, Abort(r)
    PROVE  UpToDate'
<1>1. req' = [req EXCEPT ![r] = Idle] /\ UNCHANGED <<task, report, license>>
  BY DEF Abort
<1> QED BY <1>1, IdleBelieves, UpToDateQuiet

LEMMA UpToDateStep == Typed /\ UpToDate /\ [Next]_vars => UpToDate'
<1> SUFFICES ASSUME Typed, UpToDate, [Next]_vars PROVE UpToDate'
    OBVIOUS
<1>1. CASE UNCHANGED vars
  BY <1>1 DEF vars, UpToDate, Believes
<1>2. ASSUME NEW r \in Requests, Step(r) PROVE UpToDate'
  BY <1>2, BelievesReadTask, BelievesReadReport, BelievesLoadTask, BelievesLoadLicense,
     BelievesStart, BelievesTask, BelievesReport, BelievesApprove, BelievesAbort DEF Step
<1> QED BY <1>1, <1>2 DEF Next

\* A request that is done in a step is the one that took it.
LEMMA OneEnds ==
    ASSUME Typed, NEW r \in Requests, Step(r), NEW x \in Requests, req[x] # Idle, req'[x] = Idle
    PROVE  x = r
<1> SUFFICES ASSUME x # r PROVE FALSE
    OBVIOUS
<1>1. req \in [Requests -> Request] /\ Refers(req[x]) /\ req[x].stage # "idle"
  BY DEF Typed, TypeOK, Linked, Refers
<1>2. req'[x] = req[x] \/ req'[x].stage = req[x].stage
  <2>1. CASE Write(r)
    <3>1. PICK written : Finish(r, written)
      BY <2>1 DEF Write, StartCommit, Cancel, Submit, Approve, Return, Update
    <3> QED BY <1>1, <3>1, FinishTyped
  <2>2. CASE ~Write(r)
    <3>1. \E n : req' = [req EXCEPT ![r] = n]
      BY <2>2 DEF Step, Write, ReadTask, ReadReport, LoadTask, LoadLicense, StartUpdate,
                  StartFind, Abort
    <3> QED BY <1>1, <3>1
  <2> QED BY <2>1, <2>2
<1> QED BY <1>1, <1>2 DEF Idle

LEMMA LegalStep ==
    ASSUME Typed, UpToDate, NEW r \in Requests, Step(r), NEW t \in Tasks, task'[t] # task[t],
           ~Documented(task[t], task'[t])
    PROVE  /\ req[r].task = t /\ req'[r] = Idle /\ req[r] # Idle
           /\ ~EndsFresh(r, {<<"task", t>>})
<1>1. /\ req \in [Requests -> Request] /\ task \in [Tasks -> TaskStatus]
      /\ Believes(req[r]) /\ Refers(req[r])
  BY DEF Typed, TypeOK, Linked, UpToDate
<1>2. StartCommit(r) \/ Cancel(r) \/ Submit(r) \/ Approve(r) \/ Return(r)
  BY DEF Step, ReadTask, ReadReport, LoadTask, LoadLicense, StartUpdate, StartFind, Abort, Update
<1>3. req'[r] = Idle /\ req[r] # Idle
  <2>1. PICK written : Finish(r, written)
    BY <1>2 DEF StartCommit, Cancel, Submit, Approve, Return
  <2>2. req[r].stage # "idle"
    BY <1>2 DEF StartCommit, Cancel, Submit, Approve, Return, Ready
  <2>3. req'[r] = Idle
    BY <1>1, <2>1, FinishTyped
  <2> QED BY <2>2, <2>3 DEF Idle
<1>4. \E to : task' = [task EXCEPT ![req[r].task] = to]
  BY <1>2 DEF StartCommit, Cancel, Submit, Approve, Return
<1>5. req[r].task = t
  BY <1>1, <1>4
<1>6. ASSUME <<"task", t>> \in req[r].fresh PROVE FALSE
  <2>1. CASE StartCommit(r)
    <3>1. req[r].op = "start" /\ task'[t] = "IN_PROGRESS"
      BY <1>1, <1>5, <2>1 DEF StartCommit, Refers
    <3> QED BY <1>1, <1>5, <1>6, <3>1 DEF Believes, TaskOps, TaskAllows, Documented
  <2>2. CASE Cancel(r)
    <3>1. req[r].op = "cancel" /\ task'[t] = "CANCELLED"
      BY <1>1, <1>5, <2>2 DEF Cancel, Ready
    <3> QED BY <1>1, <1>5, <1>6, <3>1 DEF Believes, TaskOps, TaskAllows, Documented
  <2>3. CASE Submit(r) \/ Approve(r) \/ Return(r)
    <3>1. Permitted(req[r], task[t]) /\ req[r].op \in {"submit", "approve", "return"}
      BY <1>1, <1>5, <1>6, <2>3 DEF Believes, ReportOps, Submit, Approve, Return, Ready
    <3>2. TaskAllows(req[r].op, task[t])
      BY <3>1 DEF Permitted
    <3>3. CASE Submit(r)
      <4>1. req[r].op = "submit" /\ task'[t] = "PENDING_REVIEW"
        BY <1>1, <1>5, <3>3 DEF Submit, Ready
      <4> QED BY <3>2, <4>1 DEF TaskAllows, Documented
    <3>4. CASE Approve(r)
      <4>1. req[r].op = "approve" /\ task'[t] = "APPROVED"
        BY <1>1, <1>5, <3>4 DEF Approve, Ready
      <4> QED BY <3>2, <4>1 DEF TaskAllows, Documented
    <3>5. CASE Return(r)
      <4>1. req[r].op = "return" /\ task'[t] = "RETURNED"
        BY <1>1, <1>5, <3>5 DEF Return, Ready
      <4> QED BY <3>2, <4>1 DEF TaskAllows, Documented
    <3> QED BY <2>3, <3>3, <3>4, <3>5
  <2> QED BY <1>2, <2>1, <2>2, <2>3
<1> QED BY <1>3, <1>5, <1>6 DEF EndsFresh

LEMMA BeliefsHold == Spec => [](Typed /\ UpToDate)
<1>1. Init => Typed /\ UpToDate
  BY TypedInit, UpToDateInit
<1>2. Typed /\ UpToDate /\ [Next]_vars => Typed' /\ UpToDate'
  BY TypedStep, UpToDateStep
<1> QED BY <1>1, <1>2, PTL DEF Spec

\* A task leaves the documented state machine only by a request whose copy of the task
\* row is out of date: the guards that startTask to returnReport have are complete.
THEOREM Legal == Spec => LegalUnlessStale
<1>1. Typed /\ UpToDate /\ [Next]_vars =>
         [\A t \in Tasks : task'[t] # task[t] =>
            \/ Documented(task[t], task'[t])
            \/ \E r \in Requests : req[r].task = t /\ req'[r] = Idle /\ req[r] # Idle
                                   /\ ~EndsFresh(r, {<<"task", t>>})]_vars
  BY LegalStep DEF Next
<1> QED BY <1>1, BeliefsHold, PTL DEF Spec, LegalUnlessStale

LEMMA EditStep ==
    ASSUME Typed, UpToDate, NEW r \in Requests, Step(r), NEW i \in ReportIds,
           report[i].task # None, report'[i].result # report[i].result,
           ~report[i].isDraft, task[report[i].task] # "RETURNED"
    PROVE  /\ req[r].report = i /\ req'[r] = Idle
           /\ ~EndsFresh(r, {<<"report", i>>, <<"task", report[i].task>>})
<1>1. /\ req \in [Requests -> Request] /\ report \in [ReportIds -> ReportRow]
      /\ Believes(req[r]) /\ Refers(req[r])
  BY DEF Typed, TypeOK, Linked, UpToDate
<1>2. PICK result \in Results : Update(r, result)
  <2>1. CASE StartCommit(r)
    BY <1>1, <2>1 DEF StartCommit
  <2>2. CASE Submit(r) \/ Return(r)
    BY <1>1, <2>2 DEF Submit, Return, ReportRow
  <2>3. CASE report' = report
    BY <2>3
  <2> QED BY <2>1, <2>2, <2>3 DEF Step, ReadTask, ReadReport, LoadTask, LoadLicense, StartUpdate,
             StartFind, Abort, Cancel, Approve
<1>3. req[r].report = i /\ req[r].task = report[i].task
  BY <1>1, <1>2 DEF Update, Ready, Refers, ReportOps
<1>4. req'[r] = Idle
  BY <1>1, <1>2, FinishTyped DEF Update
<1>5. ASSUME <<"report", i>> \in req[r].fresh, <<"task", report[i].task>> \in req[r].fresh
      PROVE  FALSE
  <2>1. Permitted(req[r], task[req[r].task]) /\ req[r].isDraft = report[i].isDraft
    BY <1>1, <1>2, <1>3, <1>5 DEF Believes, Update, Ready, ReportOps
  <2>2. req[r].op = "update"
    BY <1>2 DEF Update, Ready
  <2> QED BY <1>3, <2>1, <2>2 DEF Permitted
<1> QED BY <1>3, <1>4, <1>5 DEF EndsFresh

\* A submitted report is frozen for every inspector whose request has up-to-date copies of
\* report and task: the check of updateReport is complete.
THEOREM Edits == Spec => EditsUnlessStale
<1>1. Typed /\ UpToDate /\ [Next]_vars =>
         [\A i \in ReportIds :
            report[i].task # None /\ report'[i].result # report[i].result =>
            \/ report[i].isDraft
            \/ task[report[i].task] = "RETURNED"
            \/ \E r \in Requests : req[r].report = i /\ req'[r] = Idle
                 /\ ~EndsFresh(r, {<<"report", i>>, <<"task", report[i].task>>})]_vars
  BY EditStep DEF Next
<1> QED BY <1>1, BeliefsHold, PTL DEF Spec, EditsUnlessStale

LEMMA OutcomeStep ==
    ASSUME Typed, UpToDate, NEW r \in Requests, Step(r), NEW x \in Requests,
           Ready(x, "approve"), task' # task, LicenseOf[req[x].task] # None,
           EndsFresh(x, {<<"report", req[x].report>>, <<"license", LicenseOf[req[x].task]>>})
    PROVE  LET l == LicenseOf[req[x].task]
           IN  Decides(report[req[x].report].result, license[l].status, license'[l].status)
<1> DEFINE l == LicenseOf[req[x].task]
<1>1. /\ license \in [Licenses -> LicenseRow] /\ req \in [Requests -> Request]
      /\ Believes(req[x]) /\ Refers(req[x])
  BY DEF Typed, TypeOK, Linked, UpToDate
<1>2. x = r
  <2>1. req[x] # Idle
    BY DEF Ready, Idle
  <2>2. req'[x] = Idle
    BY DEF EndsFresh
  <2> QED BY <2>1, <2>2, OneEnds
<1>3. Approve(r)
  BY <1>2 DEF Step, Ready, ReadTask, ReadReport, LoadTask, LoadLicense, StartUpdate, StartFind,
              Abort, StartCommit, Cancel, Submit, Return, Update
<1>4. l \in Licenses
  BY <1>1, LicenseOfType DEF Refers, Ready
<1>5. req[x].result = report[req[x].report].result /\ req[x].license = license[l].status
  BY <1>1, <1>4 DEF Believes, EndsFresh, Ready, ReportOps
<1>6. license'[l] = Verdict(req[x], license[l])
  BY <1>1, <1>2, <1>3, <1>4 DEF Approve
<1> QED BY <1>5, <1>6 DEF Verdict, Decides

\* An approval does to the license what the guide says, for the report and the license as
\* they are at that moment, if its copies of the two are up to date.
THEOREM Outcome == Spec => OutcomeUnlessStale
<1>1. Typed /\ UpToDate /\ [Next]_vars =>
         [\A r \in Requests :
            LET q == req[r]
                l == LicenseOf[q.task]
            IN  /\ Ready(r, "approve")
                /\ task' # task
                /\ l # None
                /\ EndsFresh(r, {<<"report", q.report>>, <<"license", l>>})
                => Decides(report[q.report].result, license[l].status, license'[l].status)]_vars
  BY OutcomeStep DEF Next
<1> QED BY <1>1, BeliefsHold, PTL DEF Spec, OutcomeUnlessStale
-----------------------------------------------------------------------------
(* What the workflow loses by writes that do not repeat the checks: only what a *)
(* request does whose row was written after it had read it.  Without such       *)
(* writes the rows follow the documented workflow.                              *)

\* The rows on which the write of request q depends.  An edit depends on its report
\* alone, every other write on the task; only an approval of a licensed task depends
\* on more, for it decides about the license.
Relies(q) ==
    IF q.op = "update" THEN {<<"report", q.report>>}
    ELSE {<<"task", q.task>>} \cup
         IF q.op = "approve" /\ LicenseOf[q.task] # None
         THEN {<<"report", q.report>>, <<"license", LicenseOf[q.task]>>} ELSE {}

\* Whoever writes in this step relies on rows nobody has written since.
NoStaleWrite == \A r \in Requests : Write(r) => Relies(req[r]) \subseteq req[r].fresh

\* An edit whose report is unchanged has read a draft: had it read a report that was
\* handed in, only its return could have let the request pass.
Drafted(q) ==
    q.op = "update" /\ q.stage = "ready" /\ <<"report", q.report>> \in q.fresh => q.isDraft

\* A task has no report before it is started.
NoneYet == \A t \in Tasks : task[t] = "ASSIGNED" => ReportsOf(t) = {}

InOrder ==
    /\ \A r \in Requests : Drafted(req[r])
    /\ NoneYet
    /\ DraftUntilSubmitted
    /\ NoticesBalance

LEMMA InOrderInit == Init => InOrder
<1> SUFFICES ASSUME Init PROVE InOrder
    OBVIOUS
<1>1. /\ \A r \in Requests : Drafted(req[r])
      /\ NoneYet /\ DraftUntilSubmitted
  BY NoneIsNull DEF Init, Drafted, Idle, NoneYet, DraftUntilSubmitted, ReportsOf, Absent
<1>2. NoticesBalance
  BY DEF Init, NoticesBalance
<1> QED BY <1>1, <1>2 DEF InOrder

LEMMA DraftedStep ==
    ASSUME Typed, Content, UpToDate, InOrder, NEW r \in Requests, Step(r), NEW x \in Requests
    PROVE  Drafted(req'[x])
<1>1. /\ req \in [Requests -> Request] /\ Drafted(req[x]) /\ Refers(req[r]) /\ Believes(req[r])
      /\ req[r] \in Request /\ req[x] \in Request
  BY DEF Typed, TypeOK, Linked, InOrder, UpToDate
<1>2. CASE Write(r)
  <2>1. PICK written : Finish(r, written)
    BY <1>2 DEF Write, StartCommit, Cancel, Submit, Approve, Return, Update
  <2>2. CASE x = r
    <3>1. req'[x] = Idle
      BY <1>1, <2>1, <2>2, FinishTyped
    <3> QED BY <3>1 DEF Drafted, Idle
  <2>3. CASE x # r
    <3>1. req'[x] = [req[x] EXCEPT !.fresh = req[x].fresh \ written]
      BY <1>1, <2>1, <2>3, FinishTyped
    <3> QED BY <1>1, <3>1 DEF Drafted, Request
  <2> QED BY <2>2, <2>3
<1>3. CASE ~Write(r) /\ x # r
  <2>1. req'[x] = req[x]
    BY <1>1, <1>3 DEF Step, Write, ReadTask, ReadReport, LoadTask, LoadLicense, StartUpdate,
                      StartFind, Abort
  <2> QED BY <1>1, <2>1
<1>4. CASE LoadTask(r) /\ x = r
  <2> DEFINE q == req[r]
             s == IF q.op = "approve" /\ LicenseOf[q.task] # None THEN "loaded" ELSE "ready"
             n == [q EXCEPT !.stage = s, !.fresh = @ \cup {<<"task", q.task>>}]
  <2>1. CASE Permitted(q, task[q.task])
    <3>1. /\ n.op = q.op /\ n.report = q.report /\ n.isDraft = q.isDraft
          /\ n.fresh = q.fresh \cup {<<"task", q.task>>}
      BY <1>1 DEF Request
    <3>2. req'[r] = n
      BY <1>1, <1>4, <2>1 DEF LoadTask
    <3> HIDE DEF n
    <3>3. ASSUME q.op = "update", <<"report", q.report>> \in q.fresh PROVE q.isDraft
      <4>1. q.op \in ReportOps
        BY <3>3 DEF ReportOps
      <4>2. q.isDraft \/ task[q.task] = "RETURNED"
        BY <2>1, <3>3 DEF Permitted
      <4>3. q.isDraft = report[q.report].isDraft
        BY <1>1, <3>3, <4>1 DEF Believes
      <4>4. q.task \in Tasks /\ q.report \in ReportsOf(q.task)
        BY <1>1, <4>1 DEF Refers, ReportsOf
      <4> QED BY <4>2, <4>3, <4>4 DEF Content, ReturnedIsDraft
    <3> QED BY <1>4, <3>1, <3>2, <3>3 DEF Drafted
  <2>2. CASE ~Permitted(q, task[q.task])
    BY <1>1, <1>4, <2>2 DEF LoadTask, Drafted, Idle
  <2> QED BY <2>1, <2>2
<1>5. CASE ~Write(r) /\ ~LoadTask(r) /\ x = r
  <2>1. req'[r].op # "update" \/ req'[r].stage # "ready"
    <3>1. CASE \E op \in TaskOps, t \in Tasks : ReadTask(r, op, t)
      BY <1>1, <3>1 DEF ReadTask, TaskOps, Idle
    <3>2. CASE \E op \in ReportOps, i \in ReportIds : ReadReport(r, op, i)
      BY <1>1, <3>2 DEF ReadReport, Idle
    <3>3. CASE LoadLicense(r)
      BY <1>1, <3>3 DEF LoadLicense, Refers, Request
    <3>4. CASE StartUpdate(r) \/ StartFind(r)
      BY <1>1, <3>4 DEF StartUpdate, StartFind, Request
    <3>5. CASE Abort(r)
      BY <1>1, <3>5 DEF Abort, Idle
    <3> QED BY <1>5, <3>1, <3>2, <3>3, <3>4, <3>5 DEF Step, Write
  <2> QED BY <1>5, <2>1 DEF Drafted
<1> QED BY <1>2, <1>3, <1>4, <1>5

\* The rows before a write, by the operation that writes.
LEMMA Before ==
    ASSUME Typed, RowLock, Content, UpToDate, InOrder, NoStaleWrite, NEW r \in Requests
    PROVE  LET q == req[r]
           IN  /\ StartCommit(r) => task[q.task] = "ASSIGNED" /\ ReportsOf(q.task) = {} /\ ~q.exists
               /\ Cancel(r) => task[q.task] \in {"ASSIGNED", "IN_PROGRESS"}
               /\ (\E result \in Results : Update(r, result)) => report[q.report].isDraft
               /\ Submit(r) => /\ task[q.task] \in {"IN_PROGRESS", "RETURNED"}
                               /\ report[q.report].result # "none"
               /\ Approve(r) \/ Return(r) => task[q.task] = "PENDING_REVIEW"
<1> DEFINE q == req[r]
<1>1. Refers(q) /\ Guarded(r) /\ Believes(q) /\ Recorded(q)
  BY DEF Typed, Linked, RowLock, UpToDate, Content
<1>2. Write(r) => Relies(q) \subseteq q.fresh
  BY DEF NoStaleWrite
<1>3. Write(r) /\ q.op # "update" => <<"task", q.task>> \in q.fresh
  BY <1>2 DEF Relies
<1>4. ASSUME StartCommit(r)
      PROVE  task[q.task] = "ASSIGNED" /\ ReportsOf(q.task) = {} /\ ~q.exists
  <2>1. q.op = "start" /\ q.stage = "found" /\ q.task \in Tasks
    BY <1>1, <1>4 DEF StartCommit, Refers
  <2>2. task[q.task] = "ASSIGNED"
    BY <1>1, <1>3, <1>4, <2>1 DEF Write, Believes, TaskOps, TaskAllows
  <2>3. ReportsOf(q.task) = {}
    BY <2>1, <2>2 DEF InOrder, NoneYet
  <2> QED BY <1>1, <2>1, <2>2, <2>3 DEF Guarded
<1>5. ASSUME Cancel(r) PROVE task[q.task] \in {"ASSIGNED", "IN_PROGRESS"}
  BY <1>1, <1>3, <1>5 DEF Write, Cancel, Ready, Believes, TaskOps, TaskAllows
<1>6. ASSUME NEW result \in Results, Update(r, result)
      PROVE  report[q.report].isDraft
  <2>1. q.op = "update" /\ q.stage = "ready" /\ <<"report", q.report>> \in q.fresh
    BY <1>2, <1>6 DEF Write, Update, Ready, Relies
  <2>2. q.isDraft = report[q.report].isDraft
    BY <1>1, <2>1 DEF Believes, ReportOps
  <2> QED BY <2>1, <2>2 DEF InOrder, Drafted
<1>7. ASSUME Submit(r) \/ Approve(r) \/ Return(r)
      PROVE  q.op \in ReportOps /\ q.op # "update" /\ Permitted(q, task[q.task])
  <2>1. q.op \in {"submit", "approve", "return"} /\ q.stage = "ready"
    BY <1>7 DEF Submit, Approve, Return, Ready
  <2> QED BY <1>1, <1>3, <1>7, <2>1 DEF Write, Believes, ReportOps
<1>8. ASSUME Submit(r)
      PROVE  task[q.task] \in {"IN_PROGRESS", "RETURNED"} /\ report[q.report].result # "none"
  BY <1>1, <1>7, <1>8 DEF Submit, Ready, Permitted, TaskAllows, Recorded
<1>9. ASSUME Approve(r) \/ Return(r) PROVE task[q.task] = "PENDING_REVIEW"
  BY <1>7, <1>9 DEF Approve, Return, Ready, Permitted, TaskAllows
<1> QED BY <1>4, <1>5, <1>6, <1>8, <1>9

\* What each write makes of the rows, once more, without the request.
LEMMA Links ==
    ASSUME Typed, NEW r \in Requests, Write(r)
    PROVE  LET q == req[r]
           IN  /\ q.task \in Tasks /\ q.task # None
               /\ q.op \in ReportOps => q.report \in ReportIds /\ report[q.report].task = q.task
               /\ ~StartCommit(r) /\ ~Cancel(r) => q.op \in ReportOps
BY NoneIsNull DEF Typed, Linked, Refers, Write, StartCommit, Cancel, Submit, Approve, Return, Update, Ready, ReportOps

LEMMA DraftsStep ==
    ASSUME Typed, RowLock, Content, UpToDate, InOrder, NoStaleWrite, NEW r \in Requests, Write(r)
    PROVE  NoneYet' /\ DraftUntilSubmitted'
<1> DEFINE t == req[r].task
           i == req[r].report
<1>1. /\ report \in [ReportIds -> ReportRow] /\ task \in [Tasks -> TaskStatus]
      /\ NoneYet /\ DraftUntilSubmitted /\ t \in Tasks /\ t # None
      /\ \A j, k \in ReportIds : report[j].task # None /\ report[j].task = report[k].task => j = k
  BY Links DEF Typed, TypeOK, InOrder, RowLock, OneReportPerTask
<1>2. CASE StartCommit(r)
  <2>1. PICK j \in ReportIds :
          /\ report[j].task = None
          /\ report' = [report EXCEPT ![j] = [task |-> t, result |-> "none", isDraft |-> TRUE]]
    BY <1>2, Before DEF StartCommit
  <2>2. task' = [task EXCEPT ![t] = "IN_PROGRESS"] /\ ReportsOf(t) = {}
    BY <1>2, Before DEF StartCommit
  <2>3. /\ report'[j] = [task |-> t, result |-> "none", isDraft |-> TRUE]
        /\ \A k \in ReportIds : k # j => report'[k] = report[k] /\ report[k].task # t
        /\ task'[t] = "IN_PROGRESS" /\ \A u \in Tasks : u # t => task'[u] = task[u]
    BY <1>1, <2>1, <2>2 DEF ReportsOf
  <2>4. NoneYet'
    BY <1>1, <2>3 DEF NoneYet, ReportsOf
  <2>5. DraftUntilSubmitted'
    BY <1>1, <2>3 DEF DraftUntilSubmitted, ReportRow
  <2> QED BY <2>4, <2>5
<1>3. CASE Cancel(r) \/ Approve(r)
  <2>1. /\ report' = report
        /\ \/ /\ task[t] \in {"ASSIGNED", "IN_PROGRESS"} /\ task' = [task EXCEPT ![t] = "CANCELLED"]
           \/ /\ task[t] = "PENDING_REVIEW" /\ task' = [task EXCEPT ![t] = "APPROVED"]
    BY <1>3, Before DEF Cancel, Approve
  <2> QED BY <1>1, <2>1 DEF NoneYet, ReportsOf, DraftUntilSubmitted, ReportRow
<1>4. CASE Submit(r) \/ Return(r) \/ \E result \in Results : Update(r, result)
  <2>1. i \in ReportIds /\ report[i].task = t
    BY <1>4, Links DEF Submit, Return, Update, Ready, ReportOps
  <2>2. /\ report'[i].task = t
        /\ \A j \in ReportIds : j # i => report'[j] = report[j]
    BY <1>1, <1>4, <2>1 DEF Submit, Return, Update, ReportRow
  <2>3. \/ /\ report'[i].isDraft = FALSE /\ task' = [task EXCEPT ![t] = "PENDING_REVIEW"]
        \/ /\ report'[i].isDraft = TRUE /\ task' = [task EXCEPT ![t] = "RETURNED"]
        \/ /\ report'[i].isDraft = TRUE /\ task' = task
           /\ report[i].isDraft \/ task[t] = "RETURNED"
    <3>1. CASE Submit(r)
      BY <1>1, <2>1, <3>1 DEF Submit, ReportRow
    <3>2. CASE Return(r)
      BY <1>1, <2>1, <3>2 DEF Return, ReportRow
    <3>3. CASE \E result \in Results : Update(r, result)
      <4>1. report[i].isDraft \/ task[t] = "RETURNED"
        BY <3>3, Before
      <4>2. report'[i].isDraft = TRUE /\ task' = task
        BY <1>1, <2>1, <3>3 DEF Update, ReportRow
      <4> QED BY <4>1, <4>2
    <3> QED BY <1>4, <3>1, <3>2, <3>3
  <2>4. \A u \in Tasks : ReportsOf(u)' = ReportsOf(u)
    BY <2>1, <2>2 DEF ReportsOf
  <2>5. NoneYet'
    BY <1>1, <2>1, <2>3, <2>4 DEF NoneYet
  <2>6. DraftUntilSubmitted'
    BY <1>1, <2>1, <2>2, <2>3 DEF DraftUntilSubmitted, ReportRow
  <2> QED BY <2>5, <2>6
<1> QED BY <1>2, <1>3, <1>4 DEF Write

LEMMA NoticesStep ==
    ASSUME Typed, RowLock, Content, UpToDate, InOrder, NoStaleWrite, NEW r \in Requests, Write(r)
    PROVE  NoticesBalance'
<1> DEFINE t == req[r].task
           Counts == [submitted: Nat, approved: Nat, returned: Nat]
<1>1. /\ notices \in [Tasks -> Counts] /\ task \in [Tasks -> TaskStatus]
      /\ t \in Tasks /\ NoticesBalance
  BY Links DEF Typed, TypeOK, InOrder
<1>2. CASE StartCommit(r) \/ Cancel(r)
  <2>1. /\ notices' = notices /\ task[t] # "PENDING_REVIEW"
        /\ \E s \in {"IN_PROGRESS", "CANCELLED"} : task' = [task EXCEPT ![t] = s]
    BY <1>2, Before DEF StartCommit, Cancel
  <2> QED BY <1>1, <2>1 DEF NoticesBalance
<1>3. CASE \E result \in Results : Update(r, result)
  BY <1>1, <1>3 DEF Update, NoticesBalance
<1>4. CASE Submit(r)
  <2>1. /\ task[t] # "PENDING_REVIEW" /\ task' = [task EXCEPT ![t] = "PENDING_REVIEW"]
        /\ notices' = [notices EXCEPT ![t] = [notices[t] EXCEPT !.submitted = @ + 1]]
    BY <1>4, Before DEF Submit
  <2> QED BY <1>1, <2>1 DEF NoticesBalance
<1>5. CASE Approve(r)
  <2>1. /\ task[t] = "PENDING_REVIEW" /\ task' = [task EXCEPT ![t] = "APPROVED"]
        /\ notices' = [notices EXCEPT ![t] = [notices[t] EXCEPT !.approved = @ + 1]]
    BY <1>5, Before DEF Approve
  <2> QED BY <1>1, <2>1 DEF NoticesBalance
<1>6. CASE Return(r)
  <2>1. /\ task[t] = "PENDING_REVIEW" /\ task' = [task EXCEPT ![t] = "RETURNED"]
        /\ notices' = [notices EXCEPT ![t] = [notices[t] EXCEPT !.returned = @ + 1]]
    BY <1>6, Before DEF Return
  <2> QED BY <1>1, <2>1 DEF NoticesBalance
<1> QED BY <1>2, <1>3, <1>4, <1>5, <1>6 DEF Write

LEMMA InOrderStep ==
    Typed /\ RowLock /\ Content /\ UpToDate /\ InOrder /\ [NoStaleWrite]_vars /\ [Next]_vars
       => InOrder'
<1> SUFFICES ASSUME Typed, RowLock, Content, UpToDate, InOrder, [NoStaleWrite]_vars, [Next]_vars
             PROVE  InOrder'
    OBVIOUS
<1>1. CASE UNCHANGED vars
  BY <1>1 DEF vars, InOrder, Drafted, NoneYet, ReportsOf, DraftUntilSubmitted, NoticesBalance
<1>2. ASSUME NEW r \in Requests, Step(r), NoStaleWrite PROVE InOrder'
  <2>1. \A x \in Requests : Drafted(req[x])'
    BY <1>2, DraftedStep DEF Drafted
  <2>2. CASE Write(r)
    BY <1>2, <2>1, <2>2, DraftsStep, NoticesStep DEF InOrder
  <2>3. CASE ~Write(r)
    <3>1. UNCHANGED <<task, report, notices>>
      BY <1>2, <2>3 DEF Step, Write, ReadTask, ReadReport, LoadTask, LoadLicense, StartUpdate,
                        StartFind, Abort
    <3> QED BY <2>1, <3>1 DEF InOrder, NoneYet, ReportsOf, DraftUntilSubmitted, NoticesBalance
  <2> QED BY <2>2, <2>3
<1> QED BY <1>1, <1>2 DEF Next

LEMMA InOrderHolds ==
    Spec /\ [][NoStaleWrite]_vars => [](Typed /\ RowLock /\ Content /\ UpToDate /\ InOrder)
<1>1. Init => Typed /\ RowLock /\ Content /\ UpToDate /\ InOrder
  BY TypedInit, RowLockInit, ContentInit, UpToDateInit, InOrderInit
<1>2. Typed /\ RowLock /\ Content /\ UpToDate /\ InOrder /\ [NoStaleWrite]_vars /\ [Next]_vars =>
         Typed' /\ RowLock' /\ Content' /\ UpToDate' /\ InOrder'
  BY TypedStep, RowLockStep, ContentStep, UpToDateStep, InOrderStep
<1> QED BY <1>1, <1>2, PTL DEF Spec

\* However the requests interleave, while none writes on the strength of a row that has
\* changed, a report is a draft exactly until it is handed in, and again from its return
\* on, through any number of rounds.
THEOREM Drafts == Spec /\ [][NoStaleWrite]_vars => []DraftUntilSubmitted
<1>1. InOrder => DraftUntilSubmitted
  BY DEF InOrder
<1> QED BY <1>1, InOrderHolds, PTL

\* While no request writes on the strength of a row that has changed, every submission is
\* answered by exactly one notification.
THEOREM Notices == Spec /\ [][NoStaleWrite]_vars => []NoticesBalance
<1>1. InOrder => NoticesBalance
  BY DEF InOrder
<1> QED BY <1>1, InOrderHolds, PTL
-----------------------------------------------------------------------------
(* Such requests implement TaskLifecycle: every write is one of its operations, *)
(* every other step changes nothing it sees.                                    *)

VerdictOf(t) == IF ReportsOf(t) = {} THEN "none"
                ELSE report[CHOOSE i \in ReportsOf(t) : TRUE].result

\* A task's verdict is the result of its report, whichever row that is.
LEMMA VerdictFound ==
    ASSUME OneReportPerTask, NEW t \in Tasks
    PROVE  /\ ReportsOf(t) = {} => VerdictOf(t) = "none"
           /\ \A i \in ReportIds : report[i].task = t => VerdictOf(t) = report[i].result
<1> SUFFICES ASSUME NEW i \in ReportIds, report[i].task = t
             PROVE  VerdictOf(t) = report[i].result
  BY DEF VerdictOf
<1>1. t # None /\ i \in ReportsOf(t)
  BY NoneIsNull DEF ReportsOf
<1>2. (CHOOSE j \in ReportsOf(t) : TRUE) \in ReportsOf(t)
  BY <1>1
<1>3. (CHOOSE j \in ReportsOf(t) : TRUE) = i
  BY <1>1, <1>2 DEF ReportsOf, OneReportPerTask
<1> QED BY <1>1, <1>3 DEF VerdictOf

LEMMA VerdictFoundNext ==
    ASSUME OneReportPerTask', NEW t \in Tasks
    PROVE  /\ ReportsOf(t)' = {} => VerdictOf(t)' = "none"
           /\ \A i \in ReportIds : report'[i].task = t => VerdictOf(t)' = report'[i].result
<1> SUFFICES ASSUME NEW i \in ReportIds, report'[i].task = t
             PROVE  VerdictOf(t)' = report'[i].result
  BY DEF VerdictOf
<1>1. t # None /\ i \in ReportsOf(t)'
  BY NoneIsNull DEF ReportsOf
<1>2. (CHOOSE j \in ReportsOf(t)' : TRUE) \in ReportsOf(t)'
  BY <1>1
<1>3. (CHOOSE j \in ReportsOf(t)' : TRUE) = i
  BY <1>1, <1>2 DEF ReportsOf, OneReportPerTask
<1> QED BY <1>1, <1>3 DEF VerdictOf

\* Nothing but Update and StartCommit can change a verdict, and StartCommit does not.
LEMMA VerdictsStep ==
    ASSUME Typed, RowLock, RowLock', Content, UpToDate, InOrder, NoStaleWrite, NEW r \in Requests, Write(r), NEW t \in Tasks
    PROVE  VerdictOf(t)' = IF req[r].task = t /\ \E result \in Results : Update(r, result)
                           THEN report'[req[r].report].result
                           ELSE VerdictOf(t)
<1> DEFINE i == req[r].report
<1>1. /\ report \in [ReportIds -> ReportRow] /\ t # None /\ OneReportPerTask /\ OneReportPerTask'
  BY NoneIsNull DEF Typed, TypeOK, RowLock
<1>2. CASE StartCommit(r)
  <2>1. PICK j \in ReportIds :
          /\ report[j].task = None
          /\ report' = [report EXCEPT ![j] = [task |-> req[r].task, result |-> "none", isDraft |-> TRUE]]
    BY <1>2, Before DEF StartCommit
  <2>2. ReportsOf(req[r].task) = {} /\ req[r].task \in Tasks
    BY <1>2, Before, Links
  <2>3. ~\E result \in Results : Update(r, result)
    BY <1>2 DEF StartCommit, Update, Ready
  <2>4. CASE req[r].task = t
    BY <1>1, <2>1, <2>2, <2>3, <2>4, VerdictFound, VerdictFoundNext
  <2>5. CASE req[r].task # t
    <3>1. ReportsOf(t)' = ReportsOf(t) /\ \A k \in ReportsOf(t) : report'[k] = report[k]
      BY <1>1, <2>1, <2>5 DEF ReportsOf
    <3> QED BY <1>1, <2>3, <3>1, VerdictFound, VerdictFoundNext DEF ReportsOf
  <2> QED BY <2>4, <2>5
<1>3. CASE Cancel(r) \/ Approve(r)
  <2>1. report' = report /\ ~\E result \in Results : Update(r, result)
    BY <1>3 DEF Cancel, Approve, Update, Ready
  <2> QED BY <2>1 DEF VerdictOf, ReportsOf
<1>4. CASE Submit(r) \/ Return(r) \/ \E result \in Results : Update(r, result)
  <2>1. i \in ReportIds /\ report[i].task = req[r].task
    BY <1>4, Links DEF Submit, Return, Update, Ready, ReportOps
  <2>2. /\ report'[i].task = req[r].task
        /\ \A j \in ReportIds : j # i => report'[j] = report[j]
        /\ (~\E result \in Results : Update(r, result)) => report'[i].result = report[i].result
    <3>1. \/ report' = [report EXCEPT ![i].isDraft = FALSE]
          \/ report' = [report EXCEPT ![i].isDraft = TRUE]
          \/ \E result \in Results :
                /\ Update(r, result)
                /\ report' = [report EXCEPT ![i] = [@ EXCEPT !.result = result, !.isDraft = TRUE]]
      BY <1>4 DEF Submit, Return, Update
    <3> QED BY <1>1, <2>1, <3>1 DEF ReportRow
  <2>3. CASE req[r].task = t
    <3>1. VerdictOf(t)' = report'[i].result /\ VerdictOf(t) = report[i].result
      BY <1>1, <2>1, <2>2, <2>3, VerdictFound, VerdictFoundNext
    <3> QED BY <2>2, <2>3, <3>1
  <2>4. CASE req[r].task # t
    <3>1. ReportsOf(t)' = ReportsOf(t) /\ \A k \in ReportsOf(t) : report'[k] = report[k]
      BY <1>1, <2>1, <2>2, <2>4 DEF ReportsOf
    <3> QED BY <1>1, <2>4, <3>1, VerdictFound, VerdictFoundNext DEF ReportsOf
  <2> QED BY <2>3, <2>4
<1> QED BY <1>2, <1>3, <1>4 DEF Write

Verdicts == [t \in Tasks |-> VerdictOf(t)]
Standings == [l \in Licenses |-> license[l].status]

\* The verdicts after a write, as one function.
LEMMA VerdictsKept ==
    ASSUME Typed, RowLock, RowLock', Content, UpToDate, InOrder, NoStaleWrite, NEW r \in Requests, Write(r)
    PROVE  IF \E result \in Results : Update(r, result)
           THEN Verdicts' = [Verdicts EXCEPT ![req[r].task] = report'[req[r].report].result]
           ELSE Verdicts' = Verdicts
<1>1. CASE \E result \in Results : Update(r, result)
  BY <1>1, Links, VerdictsStep DEF Verdicts
<1>2. CASE ~\E result \in Results : Update(r, result)
  BY <1>2, VerdictsStep DEF Verdicts
<1> QED BY <1>1, <1>2

\* The verdict of a task is the result in the report a request is about.
LEMMA VerdictRead ==
    ASSUME Typed, RowLock, NEW r \in Requests, req[r].op \in ReportOps
    PROVE  req[r].task \in Tasks /\ Verdicts[req[r].task] = report[req[r].report].result
<1>1. /\ req[r].report \in ReportIds /\ report[req[r].report].task = req[r].task
      /\ req[r].task \in Tasks /\ OneReportPerTask
  BY DEF Typed, Linked, Refers, RowLock
<1>2. VerdictOf(req[r].task) = report[req[r].report].result
  BY <1>1, VerdictFound
<1> QED BY <1>1, <1>2 DEF Verdicts

\* What an approval makes of the licenses, seen through their status: it relies on the
\* report and the license being as it has read them.
LEMMA StandingsStep ==
    ASSUME Typed, RowLock, UpToDate, NoStaleWrite, NEW r \in Requests, Approve(r)
    PROVE  Standings' = [l \in Licenses |->
                           IF l # LicenseOf[req[r].task] THEN Standings[l]
                           ELSE IF Verdicts[req[r].task] = "FAILED" THEN "SUSPENDED"
                           ELSE IF Standings[l] = "SUSPENDED" THEN "ACTIVE"
                           ELSE Standings[l]]
<1> DEFINE q == req[r]
           k == LicenseOf[q.task]
<1>1. /\ license \in [Licenses -> LicenseRow] /\ q.op = "approve" /\ q.stage = "ready"
      /\ Believes(q) /\ q.op \in ReportOps
  BY DEF Typed, TypeOK, Approve, Ready, UpToDate, ReportOps
<1>2. Verdicts[q.task] = report[q.report].result /\ q.task \in Tasks
  BY <1>1, VerdictRead
<1>3. k \in Licenses \/ k = None
  BY <1>2, LicenseOfType
<1>4. CASE k = None
  BY <1>4, NoneIsNull DEF Approve, Standings
<1>5. CASE k \in Licenses
  <2>1. <<"report", q.report>> \in q.fresh /\ <<"license", k>> \in q.fresh
    BY <1>1, <1>5, NoneIsNull DEF NoStaleWrite, Write, Relies
  <2>2. q.result = Verdicts[q.task] /\ q.license = license[k].status
    BY <1>1, <1>2, <1>5, <2>1 DEF Believes
  <2>3. license' = [license EXCEPT ![k] = Verdict(q, license[k])]
    BY <1>5, NoneIsNull DEF Approve
  <2>4. Verdict(q, license[k]).status =
          IF Verdicts[q.task] = "FAILED" THEN "SUSPENDED"
          ELSE IF Standings[k] = "SUSPENDED" THEN "ACTIVE" ELSE Standings[k]
    BY <1>1, <1>5, <2>2 DEF Verdict, Standings
  <2>5. \A l \in Licenses : license'[l] = IF l = k THEN Verdict(q, license[k]) ELSE license[l]
    BY <1>1, <2>3
  <2> QED BY <2>4, <2>5 DEF Standings
<1> QED BY <1>3, <1>4, <1>5

\* Every write is the operation of its name, and every other step is invisible.
LEMMA RefinesStep ==
    ASSUME Typed, RowLock, RowLock', Content, UpToDate, InOrder, NoStaleWrite, NEW r \in Requests, Step(r)
    PROVE  \/ UNCHANGED <<task, Verdicts, Standings>>
           \/ \E t \in Tasks : Lifecycle!Start(t) \/ Lifecycle!Cancel(t) \/ Lifecycle!Record(t)
                               \/ Lifecycle!Submit(t) \/ Lifecycle!Return(t) \/ Lifecycle!Approve(t)
<1> DEFINE t == req[r].task
<1>1. CASE ~Write(r)
  <2>1. UNCHANGED <<task, report, license>>
    BY <1>1 DEF Step, Write, ReadTask, ReadReport, LoadTask, LoadLicense, StartUpdate, StartFind,
                Abort
  <2> QED BY <2>1 DEF Verdicts, Standings, VerdictOf, ReportsOf
<1>2. CASE StartCommit(r)
  <2>1. /\ t \in Tasks /\ task[t] = "ASSIGNED" /\ task' = [task EXCEPT ![t] = "IN_PROGRESS"]
        /\ license' = license /\ ~\E result \in Results : Update(r, result)
    BY <1>2, Before, Links DEF StartCommit, Update, Ready, Write
  <2>2. Verdicts' = Verdicts
    BY <1>2, <2>1, VerdictsKept DEF Write
  <2>3. Lifecycle!Start(t)
    BY <2>1, <2>2 DEF Lifecycle!Start, Lifecycle!Move, Verdicts, VerdictOf, Standings
  <2> QED BY <2>1, <2>3
<1>3. CASE Cancel(r)
  <2>1. /\ t \in Tasks /\ task[t] \in {"ASSIGNED", "IN_PROGRESS"}
        /\ task' = [task EXCEPT ![t] = "CANCELLED"]
        /\ license' = license /\ ~\E result \in Results : Update(r, result)
    BY <1>3, Before, Links DEF Cancel, Update, Ready, Write
  <2>2. Verdicts' = Verdicts
    BY <1>3, <2>1, VerdictsKept DEF Write
  <2>3. Lifecycle!Cancel(t)
    BY <2>1, <2>2 DEF Lifecycle!Cancel, Lifecycle!Move, Verdicts, VerdictOf, Standings
  <2> QED BY <2>1, <2>3
<1>4. CASE \E result \in Results : Update(r, result)
  <2>1. /\ t \in Tasks /\ req[r].report \in ReportIds /\ report[req[r].report].task = t
        /\ report[req[r].report].isDraft
    BY <1>4, Before, Links DEF Update, Ready, ReportOps, Write
  <2>2. task[t] \in {"IN_PROGRESS", "RETURNED", "CANCELLED"}
    <3>1. task[t] \in TaskStatus /\ task[t] # "ASSIGNED"
      BY <2>1 DEF Typed, TypeOK, InOrder, NoneYet, ReportsOf
    <3>2. task[t] \notin {"PENDING_REVIEW", "APPROVED"}
      BY <2>1, NoneIsNull DEF InOrder, DraftUntilSubmitted
    <3> QED BY <3>1, <3>2 DEF TaskStatus
  <2>3. report'[req[r].report].result \in {"PASSED", "FAILED"} /\ UNCHANGED <<task, license>>
    BY <1>4, <2>1 DEF Typed, TypeOK, ReportRow, Update, Results
  <2>4. Verdicts' = [Verdicts EXCEPT ![t] = report'[req[r].report].result]
    BY <1>4, VerdictsKept DEF Write
  <2>5. Lifecycle!Record(t)
    BY <2>2, <2>3, <2>4 DEF Lifecycle!Record, Verdicts, VerdictOf, Standings
  <2> QED BY <2>1, <2>5
<1>5. CASE Submit(r)
  <2>1. /\ t \in Tasks /\ task[t] \in {"IN_PROGRESS", "RETURNED"}
        /\ task' = [task EXCEPT ![t] = "PENDING_REVIEW"] /\ license' = license
        /\ ~\E result \in Results : Update(r, result)
    BY <1>5, Before, Links DEF Submit, Update, Ready, Write
  <2>2. Verdicts' = Verdicts /\ Verdicts[t] # "none"
    BY <1>5, <2>1, VerdictsKept, VerdictRead, Before DEF Write, Submit, Ready, ReportOps
  <2>3. Lifecycle!Submit(t)
    BY <2>1, <2>2 DEF Lifecycle!Submit, Lifecycle!Move, Verdicts, VerdictOf, Standings
  <2> QED BY <2>1, <2>3
<1>6. CASE Return(r)
  <2>1. /\ t \in Tasks /\ task[t] = "PENDING_REVIEW"
        /\ task' = [task EXCEPT ![t] = "RETURNED"] /\ license' = license
        /\ ~\E result \in Results : Update(r, result)
    BY <1>6, Before, Links DEF Return, Update, Ready, Write
  <2>2. Verdicts' = Verdicts
    BY <1>6, <2>1, VerdictsKept DEF Write
  <2>3. Lifecycle!Return(t)
    BY <2>1, <2>2 DEF Lifecycle!Return, Lifecycle!Move, Verdicts, VerdictOf, Standings
  <2> QED BY <2>1, <2>3
<1>7. CASE Approve(r)
  <2>1. /\ t \in Tasks /\ task[t] = "PENDING_REVIEW"
        /\ task' = [task EXCEPT ![t] = "APPROVED"]
        /\ ~\E result \in Results : Update(r, result)
    BY <1>7, Before, Links DEF Approve, Update, Ready, Write
  <2>2. Verdicts' = Verdicts
    BY <1>7, <2>1, VerdictsKept DEF Write
  <2>3. Lifecycle!Approve(t)
    BY <1>7, <2>1, <2>2, StandingsStep
       DEF Lifecycle!Approve, Lifecycle!Move, Verdicts, VerdictOf, Standings
  <2>4. \E u \in Tasks : Lifecycle!Approve(u)
    BY <2>1, <2>3 DEF Lifecycle!Approve, Lifecycle!Move
  <2> QED BY <2>4
<1> QED BY <1>1, <1>2, <1>3, <1>4, <1>5, <1>6, <1>7 DEF Write

LEMMA RefinesInit == Init => Lifecycle!Init
<1> SUFFICES ASSUME Init PROVE Lifecycle!Init
    OBVIOUS
<1>1. \A t \in Tasks : ReportsOf(t) = {}
  BY NoneIsNull DEF Init, ReportsOf, Absent
<1>2. license \in [Licenses -> RegisteredRows]
  BY DEF Init
<1>3. [l \in Licenses |-> license[l].status] \in
        [Licenses -> {"ACTIVE", "SUSPENDED", "EXPIRED", "REVOKED", "PENDING"}]
  BY <1>2 DEF RegisteredRows
<1> QED BY <1>1, <1>3 DEF Init, Lifecycle!Init

\* While no request writes on the strength of a row that has changed, the handlers
\* implement the documented workflow, with its effect on the licenses, however their
\* statements interleave: every write is one of its operations and every read is a
\* stutter.
THEOREM Refines == Spec /\ [][NoStaleWrite]_vars => ImplementsLifecycle
<1>1. Typed /\ RowLock /\ Content /\ UpToDate /\ InOrder /\ RowLock'
         /\ [NoStaleWrite]_vars /\ [Next]_vars => [Lifecycle!Next]_Lifecycle!vars
  <2> SUFFICES ASSUME Typed, RowLock, Content, UpToDate, InOrder, RowLock',
                      [NoStaleWrite]_vars, [Next]_vars
               PROVE  Lifecycle!Next \/ UNCHANGED Lifecycle!vars
      OBVIOUS
  <2>1. CASE UNCHANGED vars
    BY <2>1 DEF vars, Lifecycle!vars, ReportsOf
  <2>2. ASSUME NEW r \in Requests, Step(r), NoStaleWrite
        PROVE  Lifecycle!Next \/ UNCHANGED Lifecycle!vars
    BY <2>2, RefinesStep DEF Lifecycle!Next, Lifecycle!vars, Verdicts, VerdictOf, Standings
  <2> QED BY <2>1, <2>2 DEF Next
<1> QED BY <1>1, RefinesInit, InOrderHolds, PTL DEF Spec, ImplementsLifecycle, Lifecycle!Spec
-----------------------------------------------------------------------------
(* What all requests together can make of one task row and its report row: the part  *)
(* of the workflow the other modules rest on.                                         *)

ReportAs(t) ==
    IF ReportsOf(t) = {} THEN "none"
    ELSE IF \E i \in ReportsOf(t) : report[i].isDraft THEN "draft" ELSE "final"

HasResult(t) == \E i \in ReportsOf(t) : report[i].result # "none"

RowsOf(t) == INSTANCE TaskRows WITH
    status <- task[t],
    report <- ReportAs(t),
    recorded <- HasResult(t),
    waited <- notices[t].submitted > 0

\* Each task and its report behave as TaskRows says, with TaskRows!Spec in its place.
ImplementsRows == \A t \in Tasks : RowsOf(t)!Spec

\* A task waits for review only after a submission, and a review is under way only if
\* it has waited.
Waited ==
    /\ \A t \in Tasks : task[t] = "PENDING_REVIEW" => notices[t].submitted > 0
    /\ \A r \in Requests :
          req[r].op \in {"approve", "return"} /\ req[r].stage \in {"loaded", "ready"} =>
              notices[req[r].task].submitted > 0

\* Submissions are only ever added.
LEMMA SubmissionsStep ==
    ASSUME Typed, NEW r \in Requests, Step(r), NEW t \in Tasks
    PROVE  /\ notices'[t].submitted >= notices[t].submitted
           /\ task'[t] = "PENDING_REVIEW" /\ task[t] # "PENDING_REVIEW" =>
                 notices'[t].submitted > 0
<1>1. /\ notices \in [Tasks -> [submitted: Nat, approved: Nat, returned: Nat]]
      /\ task \in [Tasks -> TaskStatus]
  BY DEF Typed, TypeOK
<1>2. notices[t].submitted \in Nat
  BY <1>1
<1>3. CASE Submit(r)
  <2>1. notices' = [notices EXCEPT ![req[r].task].submitted = @ + 1]
        /\ task' = [task EXCEPT ![req[r].task] = "PENDING_REVIEW"]
    BY <1>3 DEF Submit
  <2> QED BY <1>1, <1>2, <2>1
<1>4. CASE Approve(r) \/ Return(r)
  <2>1. /\ \/ notices' = [notices EXCEPT ![req[r].task].approved = @ + 1]
           \/ notices' = [notices EXCEPT ![req[r].task].returned = @ + 1]
        /\ \/ task' = [task EXCEPT ![req[r].task] = "APPROVED"]
           \/ task' = [task EXCEPT ![req[r].task] = "RETURNED"]
    BY <1>4 DEF Approve, Return
  <2> QED BY <1>1, <1>2, <2>1
<1>5. CASE ~Submit(r) /\ ~Approve(r) /\ ~Return(r)
  <2>1. /\ notices' = notices
        /\ \/ task' = task
           \/ task' = [task EXCEPT ![req[r].task] = "IN_PROGRESS"]
           \/ task' = [task EXCEPT ![req[r].task] = "CANCELLED"]
    BY <1>5 DEF Step, ReadTask, ReadReport, LoadTask, LoadLicense, StartUpdate, StartFind,
                StartCommit, Cancel, Update, Abort
  <2> QED BY <1>1, <1>2, <2>1
<1> QED BY <1>3, <1>4, <1>5

LEMMA WaitedInit == Init => Waited
BY DEF Init, Waited, Idle

LEMMA WaitedStep == Typed /\ Waited /\ [Next]_vars => Waited'
<1> SUFFICES ASSUME Typed, Waited, [Next]_vars PROVE Waited'
    OBVIOUS
<1>1. CASE UNCHANGED vars
  BY <1>1 DEF vars, Waited
<1>2. ASSUME NEW r \in Requests, Step(r) PROVE Waited'
  <2>1. \A t \in Tasks : notices[t].submitted \in Nat /\ notices'[t].submitted \in Nat
    <3>1. TypeOK'
      BY <1>2, TypedStep DEF Next, Typed
    <3> QED BY <3>1 DEF Typed, TypeOK
  <2>2. \A t \in Tasks : notices[t].submitted > 0 => notices'[t].submitted > 0
    BY <1>2, <2>1, SubmissionsStep
  <2>3. ASSUME NEW t \in Tasks, task'[t] = "PENDING_REVIEW" PROVE notices'[t].submitted > 0
    BY <1>2, <2>2, <2>3, SubmissionsStep DEF Waited
  <2>4. ASSUME NEW x \in Requests, req'[x].op \in {"approve", "return"},
               req'[x].stage \in {"loaded", "ready"}
        PROVE  notices'[req'[x].task].submitted > 0
    <3>1. /\ req \in [Requests -> Request] /\ Refers(req[x])
          /\ req[x].op \in {"approve", "return"} /\ req[x].stage \in {"loaded", "ready"} =>
                notices[req[x].task].submitted > 0
      BY DEF Typed, TypeOK, Linked, Waited
    <3>2. CASE /\ req'[x].op = req[x].op /\ req'[x].task = req[x].task
               /\ req[x].stage \in {"loaded", "ready"}
      BY <2>2, <2>4, <3>1, <3>2 DEF Refers
    <3>3. CASE LoadTask(r) /\ x = r
      <4>1. /\ Permitted(req[r], task[req[r].task]) /\ req'[r].op = req[r].op
            /\ req'[r].task = req[r].task /\ req[r].task \in Tasks /\ UNCHANGED <<task, notices>>
        BY <2>4, <3>1, <3>3 DEF LoadTask, Refers, Request, Idle
      <4>2. task[req[r].task] = "PENDING_REVIEW"
        BY <2>4, <3>3, <4>1 DEF Permitted, TaskAllows
      <4> QED BY <3>3, <4>1, <4>2 DEF Waited
    <3>4. ASSUME ~(LoadTask(r) /\ x = r)
          PROVE  /\ req'[x].op = req[x].op /\ req'[x].task = req[x].task
                 /\ req[x].stage \in {"loaded", "ready"}
      <4>1. CASE Write(r)
        <5>1. PICK written : Finish(r, written)
          BY <4>1 DEF Write, StartCommit, Cancel, Submit, Approve, Return, Update
        <5>2. x = r => req'[x] = Idle
          BY <3>1, <5>1, FinishTyped
        <5>3. x # r
          BY <2>4, <5>2 DEF Idle
        <5>4. /\ req'[x].op = req[x].op /\ req'[x].task = req[x].task
              /\ req'[x].stage = req[x].stage
          BY <3>1, <5>1, <5>3, FinishTyped
        <5> QED BY <2>4, <5>4
      <4>2. CASE LoadLicense(r)
        BY <2>4, <3>1, <4>2 DEF LoadLicense, Request
      <4>3. CASE ~Write(r) /\ ~LoadLicense(r) /\ x = r
        <5>1. \/ req'[x] = Idle
              \/ \E op \in TaskOps, t \in Tasks : ReadTask(r, op, t)
              \/ \E op \in ReportOps, i \in ReportIds : ReadReport(r, op, i)
              \/ StartUpdate(r) \/ StartFind(r)
          BY <1>2, <3>1, <3>4, <4>3 DEF Step, Write, Abort
        <5>2. ASSUME NEW op \in TaskOps, NEW t \in Tasks, ReadTask(r, op, t)
              PROVE  req'[x].op \in TaskOps
          BY <3>1, <4>3, <5>2 DEF ReadTask, Idle
        <5>3. ASSUME NEW op \in ReportOps, NEW i \in ReportIds, ReadReport(r, op, i)
              PROVE  req'[x].stage = "opened"
          BY <3>1, <4>3, <5>3 DEF ReadReport, Idle
        <5>4. CASE StartUpdate(r) \/ StartFind(r)
          <6>1. req'[x].stage \in {"locked", "found"}
            BY <3>1, <4>3, <5>4 DEF StartUpdate, StartFind, Request
          <6> QED BY <2>4, <6>1
        <5> QED BY <2>4, <5>1, <5>2, <5>3, <5>4 DEF Idle, TaskOps
      <4>4. CASE ~Write(r) /\ x # r
        <5>1. \E n : req' = [req EXCEPT ![r] = n]
          BY <1>2, <4>4 DEF Step, Write, ReadTask, ReadReport, LoadTask, LoadLicense,
                            StartUpdate, StartFind, Abort
        <5> QED BY <2>4, <3>1, <4>4, <5>1
      <4> QED BY <4>1, <4>2, <4>3, <4>4
    <3> QED BY <3>2, <3>3, <3>4
  <2> QED BY <2>3, <2>4 DEF Waited
<1> QED BY <1>1, <1>2 DEF Next

LEMMA RowsInit ==
    ASSUME Init, NEW t \in Tasks
    PROVE  RowsOf(t)!Init
<1>1. ReportsOf(t) = {} /\ notices[t].submitted = 0 /\ task[t] = "ASSIGNED"
  BY NoneIsNull DEF Init, ReportsOf, Absent
<1> QED BY <1>1 DEF RowsOf!Init, ReportAs, HasResult

\* With one report per task, that report says it all.
LEMMA OneRow ==
    ASSUME OneReportPerTask, NEW t \in Tasks, NEW i \in ReportsOf(t)
    PROVE  /\ ReportAs(t) = IF report[i].isDraft THEN "draft" ELSE "final"
           /\ HasResult(t) = (report[i].result # "none")
<1>1. ReportsOf(t) = {i}
  BY NoneIsNull DEF OneReportPerTask, ReportsOf
<1> QED BY <1>1 DEF ReportAs, HasResult

LEMMA OneRowNext ==
    ASSUME OneReportPerTask', NEW t \in Tasks, NEW i \in ReportsOf(t)'
    PROVE  /\ ReportAs(t)' = IF report'[i].isDraft THEN "draft" ELSE "final"
           /\ HasResult(t)' = (report'[i].result # "none")
<1>1. ReportsOf(t)' = {i}
  BY NoneIsNull DEF OneReportPerTask, ReportsOf
<1> QED BY <1>1 DEF ReportAs, HasResult

\* A step that leaves the rows of t alone.
LEMMA SameRows ==
    ASSUME NEW t \in Tasks, task'[t] = task[t], notices'[t] = notices[t],
           \A i \in ReportIds : report[i].task = t \/ report'[i].task = t => report'[i] = report[i]
    PROVE  UNCHANGED RowsOf(t)!vars
<1>1. ReportsOf(t)' = ReportsOf(t) /\ \A i \in ReportsOf(t) : report'[i] = report[i]
  BY DEF ReportsOf
<1>2. ReportAs(t)' = ReportAs(t) /\ HasResult(t)' = HasResult(t)
  BY <1>1 DEF ReportAs, HasResult
<1> QED BY <1>2 DEF RowsOf!vars

\* One step of a request, seen from one task.
LEMMA RowsStep ==
    ASSUME Typed, RowLock, Content, Waited, RowLock', NEW r \in Requests, Step(r),
           NEW t \in Tasks
    PROVE  RowsOf(t)!Next \/ UNCHANGED RowsOf(t)!vars
<1> DEFINE i == req[r].report
<1>1. /\ task \in [Tasks -> TaskStatus] /\ report \in [ReportIds -> ReportRow]
      /\ notices \in [Tasks -> [submitted: Nat, approved: Nat, returned: Nat]]
  BY DEF Typed, TypeOK
<1>2. OneReportPerTask /\ OneReportPerTask'
  BY DEF RowLock
<1>3. CASE ~Write(r)
  <2>1. UNCHANGED <<task, report, notices>>
    BY <1>3 DEF Step, Write, ReadTask, ReadReport, LoadTask, LoadLicense, StartUpdate,
                StartFind, Abort
  <2> QED BY <2>1, SameRows
<1>4. CASE Write(r) /\ req[r].task # t
  <2>1. /\ req[r].task \in Tasks /\ req[r].task # None
        /\ ~StartCommit(r) /\ ~Cancel(r) => i \in ReportIds /\ report[i].task = req[r].task
    BY <1>4, Links
  <2>2. task'[t] = task[t] /\ notices'[t] = notices[t]
    BY <1>1, <1>4 DEF Write, StartCommit, Cancel, Update, Submit, Approve, Return
  <2>3. \A j \in ReportIds : report[j].task = t \/ report'[j].task = t => report'[j] = report[j]
    <3>1. CASE StartCommit(r)
      BY <1>1, <1>4, <3>1, NoneIsNull DEF StartCommit
    <3>2. CASE Cancel(r) \/ Approve(r)
      BY <3>2 DEF Cancel, Approve
    <3>3. CASE Submit(r) \/ Return(r) \/ \E result \in Results : Update(r, result)
      <4>1. \A j \in ReportIds : j # i => report'[j] = report[j]
        BY <1>1, <3>3 DEF Submit, Return, Update
      <4>2. ~StartCommit(r) /\ ~Cancel(r)
        BY <3>3 DEF Submit, Return, Update, StartCommit, Cancel, Ready
      <4>3. report'[i].task = report[i].task
        <5>1. report[i] \in ReportRow
          BY <1>1, <2>1, <4>2
        <5>2. \/ report' = [report EXCEPT ![i].isDraft = FALSE]
              \/ report' = [report EXCEPT ![i].isDraft = TRUE]
              \/ \E result \in Results :
                    report' = [report EXCEPT ![i] = [@ EXCEPT !.result = result, !.isDraft = TRUE]]
          BY <3>3 DEF Submit, Return, Update
        <5> QED BY <1>1, <2>1, <4>2, <5>1, <5>2 DEF ReportRow
      <4> QED BY <1>4, <2>1, <4>1, <4>2, <4>3
    <3> QED BY <1>4, <3>1, <3>2, <3>3 DEF Write
  <2> QED BY <2>2, <2>3, SameRows
<1>5. CASE Write(r) /\ req[r].task = t
  <2>1. CASE StartCommit(r)
    <3>1. /\ task'[t] = "IN_PROGRESS" /\ notices' = notices
          /\ req[r].exists <=> ReportsOf(t) # {}
      BY <1>1, <1>5, <2>1 DEF StartCommit, RowLock, Guarded
    <3>2. CASE ReportsOf(t) # {}
      <4>1. report' = report /\ ReportAs(t) # "none"
        BY <2>1, <3>1, <3>2 DEF StartCommit, ReportAs
      <4>2. ReportAs(t)' = ReportAs(t) /\ HasResult(t)' = HasResult(t)
        BY <4>1 DEF ReportAs, HasResult, ReportsOf
      <4> QED BY <3>1, <4>1, <4>2 DEF RowsOf!Next, RowsOf!Ops, RowsOf!Write, RowsOf!Start
    <3>3. CASE ReportsOf(t) = {}
      <4>1. PICK j \in ReportIds :
              report' = [report EXCEPT ![j] = [task |-> t, result |-> "none", isDraft |-> TRUE]]
        BY <1>5, <2>1, <3>1, <3>3 DEF StartCommit
      <4>2. j \in ReportsOf(t)' /\ report'[j].isDraft /\ report'[j].result = "none"
        BY <1>1, <4>1 DEF ReportsOf
      <4>3. ReportAs(t) = "none" /\ HasResult(t) = FALSE
        BY <3>3 DEF ReportAs, HasResult
      <4>4. ReportAs(t)' = "draft" /\ HasResult(t)' = FALSE
        BY <1>2, <4>2, OneRowNext
      <4> QED BY <3>1, <4>3, <4>4 DEF RowsOf!Next, RowsOf!Ops, RowsOf!Write, RowsOf!Start
    <3> QED BY <3>2, <3>3
  <2>2. CASE Cancel(r)
    <3>1. task'[t] = "CANCELLED" /\ UNCHANGED <<report, notices>>
      BY <1>1, <1>5, <2>2 DEF Cancel
    <3>2. ReportAs(t)' = ReportAs(t) /\ HasResult(t)' = HasResult(t)
      BY <3>1 DEF ReportAs, HasResult, ReportsOf
    <3> QED BY <3>1, <3>2 DEF RowsOf!Next, RowsOf!Ops, RowsOf!Write, RowsOf!Cancel
  <2>3. ASSUME ~StartCommit(r), ~Cancel(r)
        PROVE  RowsOf(t)!Next
    <3>1. /\ i \in ReportIds /\ report[i].task = t /\ i \in ReportsOf(t)
          /\ req[r].op \in ReportOps /\ Recorded(req[r])
      BY <1>5, <2>3, Links DEF ReportsOf, Content
    <3>2. /\ ReportAs(t) = IF report[i].isDraft THEN "draft" ELSE "final"
          /\ HasResult(t) = (report[i].result # "none")
      BY <1>2, <3>1, OneRow
    <3>3. i \in ReportsOf(t)' =>
            /\ ReportAs(t)' = IF report'[i].isDraft THEN "draft" ELSE "final"
            /\ HasResult(t)' = (report'[i].result # "none")
      BY <1>2, OneRowNext
    <3>4. CASE \E result \in Results : Update(r, result)
      <4>1. /\ UNCHANGED <<task, notices>>
            /\ i \in ReportsOf(t)' /\ report'[i].isDraft /\ report'[i].result # "none"
        BY <1>1, <3>1, <3>4 DEF Update, ReportsOf, ReportRow
      <4> QED BY <3>2, <3>3, <4>1 DEF RowsOf!Next, RowsOf!Ops, RowsOf!Write, RowsOf!Update
    <3>5. CASE Submit(r)
      <4>1. /\ task'[t] = "PENDING_REVIEW" /\ notices'[t].submitted > 0
            /\ i \in ReportsOf(t)' /\ ~report'[i].isDraft /\ report'[i].result = report[i].result
        BY <1>1, <1>5, <3>1, <3>5 DEF Submit, ReportsOf, ReportRow
      <4>2. report[i].result # "none"
        BY <3>1, <3>5 DEF Submit, Ready, Recorded
      <4> QED BY <3>2, <3>3, <4>1, <4>2 DEF RowsOf!Next, RowsOf!Ops, RowsOf!Write, RowsOf!Submit
    <3>6. CASE Approve(r)
      <4>1. /\ task'[t] = "APPROVED" /\ notices[t].submitted > 0
            /\ notices'[t].submitted = notices[t].submitted /\ report' = report
        BY <1>1, <1>5, <3>6 DEF Approve, Waited, Ready
      <4>2. ReportAs(t)' = ReportAs(t) /\ HasResult(t)' = HasResult(t)
        BY <4>1 DEF ReportAs, HasResult, ReportsOf
      <4> QED BY <4>1, <4>2 DEF RowsOf!Next, RowsOf!Ops, RowsOf!Write, RowsOf!Approve
    <3>7. CASE Return(r)
      <4>1. /\ task'[t] = "RETURNED" /\ notices[t].submitted > 0
            /\ notices'[t].submitted = notices[t].submitted
            /\ i \in ReportsOf(t)' /\ report'[i].isDraft /\ report'[i].result = report[i].result
        BY <1>1, <1>5, <3>1, <3>7 DEF Return, Waited, Ready, ReportsOf, ReportRow
      <4> QED BY <3>2, <3>3, <4>1 DEF RowsOf!Next, RowsOf!Ops, RowsOf!Write, RowsOf!Return
    <3> QED BY <1>5, <2>3, <3>4, <3>5, <3>6, <3>7 DEF Write
  <2> QED BY <2>1, <2>2, <2>3
<1> QED BY <1>3, <1>4, <1>5

\* However the statements of the requests interleave, each task and its report are only
\* ever written as TaskRows says: by a write whose check passed once.
THEOREM RefinesRows == Spec => ImplementsRows
<1> SUFFICES ASSUME NEW t \in Tasks PROVE Spec => RowsOf(t)!Spec
    BY DEF ImplementsRows
<1>1. Init => Typed /\ RowLock /\ Content /\ Waited /\ RowsOf(t)!Init
  BY TypedInit, RowLockInit, ContentInit, WaitedInit, RowsInit
<1>2. Typed /\ RowLock /\ Content /\ Waited /\ [Next]_vars =>
         Typed' /\ RowLock' /\ Content' /\ Waited'
  BY TypedStep, RowLockStep, ContentStep, WaitedStep
<1>3. Typed /\ RowLock /\ Content /\ Waited /\ RowLock' /\ [Next]_vars =>
         [RowsOf(t)!Next]_(RowsOf(t)!vars)
  <2> SUFFICES ASSUME Typed, RowLock, Content, Waited, RowLock', [Next]_vars
               PROVE  RowsOf(t)!Next \/ UNCHANGED RowsOf(t)!vars
      OBVIOUS
  <2>1. CASE UNCHANGED vars
    BY <2>1, SameRows DEF vars
  <2>2. ASSUME NEW r \in Requests, Step(r) PROVE RowsOf(t)!Next \/ UNCHANGED RowsOf(t)!vars
    BY <2>2, RowsStep
  <2> QED BY <2>1, <2>2 DEF Next
<1> QED BY <1>1, <1>2, <1>3, PTL DEF Spec, RowsOf!Spec
-----------------------------------------------------------------------------
(* Requests that keep out of each other's way never write on the strength of a row *)
(* that has changed: all that they have read stays fresh.                          *)

\* No two requests in flight are about one task, and no two approvals about one license.
Apart ==
    \A r, s \in Requests :
        r # s /\ req[r].stage # "idle" /\ req[s].stage # "idle" =>
            /\ req[r].task # req[s].task
            /\ req[r].op = "approve" /\ req[s].op = "approve" /\ LicenseOf[req[r].task] # None =>
                  LicenseOf[req[r].task] # LicenseOf[req[s].task]

\* Everything request q has read is fresh.
Undisturbed(q) ==
    /\ q.op \in TaskOps => <<"task", q.task>> \in q.fresh
    /\ q.op \in ReportOps => <<"report", q.report>> \in q.fresh
    /\ q.op \in ReportOps /\ q.stage \in {"loaded", "ready"} => <<"task", q.task>> \in q.fresh
    /\ q.op = "approve" /\ q.stage = "ready" =>
          \A l \in Licenses : LicenseOf[q.task] = l => <<"license", l>> \in q.fresh

InPeace == \A r \in Requests : Undisturbed(req[r])

LEMMA IdleUndisturbed == Undisturbed(Idle)
BY DEF Undisturbed, Idle, TaskOps, ReportOps

\* What a request writes: its task, its report, and in an approval its license.
LEMMA WrittenRows ==
    ASSUME Typed, NEW r \in Requests, Write(r)
    PROVE  /\ req[r].stage # "idle"
           /\ \E written :
                 /\ Finish(r, written)
                 /\ \A row \in written :
                       \/ row = <<"task", req[r].task>>
                       \/ req[r].op \in ReportOps /\ row = <<"report", req[r].report>>
                       \/ /\ req[r].op = "approve" /\ LicenseOf[req[r].task] # None
                          /\ row = <<"license", LicenseOf[req[r].task]>>
<1> DEFINE t == req[r].task
           i == req[r].report
           l == LicenseOf[t]
<1>1. CASE StartCommit(r) \/ Cancel(r)
  <2>1. Finish(r, {<<"task", t>>})
    BY <1>1 DEF StartCommit, Cancel
  <2> QED BY <1>1, <2>1 DEF StartCommit, Cancel, Ready
<1>2. CASE \E result \in Results : Update(r, result)
  <2>1. Finish(r, {<<"report", i>>})
    BY <1>2 DEF Update
  <2> QED BY <1>2, <2>1 DEF Update, Ready, ReportOps
<1>3. CASE Submit(r) \/ Return(r)
  <2>1. Finish(r, {<<"task", t>>, <<"report", i>>})
    BY <1>3 DEF Submit, Return
  <2> QED BY <1>3, <2>1 DEF Submit, Return, Ready, ReportOps
<1>4. CASE Approve(r)
  <2>1. PICK rows : /\ Finish(r, {<<"task", t>>} \cup rows)
                    /\ rows = IF license' = license THEN {} ELSE {<<"license", l>>}
    BY <1>4 DEF Approve
  <2>2. l = None => license' = license
    BY <1>4 DEF Approve
  <2> QED BY <1>4, <2>1, <2>2 DEF Approve, Ready
<1> QED BY <1>1, <1>2, <1>3, <1>4 DEF Write

\* What other requests write leaves an undisturbed request undisturbed.
LEMMA LeftInPeace ==
    ASSUME Apart, Typed, InPeace, NEW r \in Requests, Step(r), NEW x \in Requests, x # r
    PROVE  Undisturbed(req'[x])
<1>1. req \in [Requests -> Request] /\ Undisturbed(req[x]) /\ Refers(req[x]) /\ Refers(req[r])
  BY DEF Typed, TypeOK, Linked, InPeace
<1>2. CASE ~Write(r)
  <2>1. req'[x] = req[x]
    BY <1>1, <1>2 DEF Step, Write, ReadTask, ReadReport, LoadTask, LoadLicense, StartUpdate,
                      StartFind, Abort
  <2> QED BY <1>1, <2>1
<1>3. CASE Write(r)
  <2>1. PICK written :
          /\ Finish(r, written)
          /\ \A row \in written :
                \/ row = <<"task", req[r].task>>
                \/ req[r].op \in ReportOps /\ row = <<"report", req[r].report>>
                \/ /\ req[r].op = "approve" /\ LicenseOf[req[r].task] # None
                   /\ row = <<"license", LicenseOf[req[r].task]>>
    BY <1>3, WrittenRows
  <2>2. /\ req'[x].op = req[x].op /\ req'[x].stage = req[x].stage /\ req'[x].task = req[x].task
        /\ req'[x].report = req[x].report /\ req'[x].fresh = req[x].fresh \ written
    <3>1. req'[x] = [req[x] EXCEPT !.fresh = req[x].fresh \ written] /\ req[x] \in Request
      BY <1>1, <2>1, FinishTyped
    <3> QED BY <3>1 DEF Request
  <2>3. CASE req[x].stage = "idle"
    <3>1. req[x].op = "none"
      BY <1>1, <2>3 DEF Refers, Idle
    <3> QED BY <2>2, <3>1 DEF Undisturbed, TaskOps, ReportOps
  <2>4. CASE req[x].stage # "idle"
    <3>1. /\ req[r].task # req[x].task
          /\ req[r].op = "approve" /\ req[x].op = "approve" /\ LicenseOf[req[r].task] # None =>
                LicenseOf[req[r].task] # LicenseOf[req[x].task]
      BY <1>3, <2>4, WrittenRows DEF Apart
    <3>2. <<"task", req[x].task>> \notin written
      BY <2>1, <3>1
    <3>3. req[x].op \in ReportOps => <<"report", req[x].report>> \notin written
      <4>1. req[x].op \in ReportOps /\ req[r].op \in ReportOps => req[r].report # req[x].report
        BY <1>1, <3>1 DEF Refers
      <4> QED BY <2>1, <4>1
    <3>4. req[x].op = "approve" => <<"license", LicenseOf[req[x].task]>> \notin written
      BY <2>1, <3>1
    <3> QED BY <1>1, <2>2, <3>2, <3>3, <3>4 DEF Undisturbed
  <2> QED BY <2>3, <2>4
<1> QED BY <1>2, <1>3

\* And the request that takes the step goes on or ends.
LEMMA UndisturbedStep ==
    ASSUME Apart, Typed, InPeace, NEW r \in Requests, Step(r)
    PROVE  \A x \in Requests : Undisturbed(req'[x])
<1>1. /\ req \in [Requests -> Request] /\ Undisturbed(req[r]) /\ Refers(req[r])
      /\ req[r] \in Request
  BY DEF Typed, TypeOK, Linked, InPeace
<1> SUFFICES Undisturbed(req'[r])
    BY LeftInPeace
<1>2. ASSUME NEW op \in TaskOps, NEW t \in Tasks, ReadTask(r, op, t)
      PROVE  Undisturbed(req'[r])
  <2>1. /\ req'[r].op = op /\ req'[r].task = t /\ req'[r].fresh = {<<"task", t>>}
    BY <1>1, <1>2 DEF ReadTask, Idle
  <2> QED BY <2>1 DEF Undisturbed, TaskOps, ReportOps
<1>3. ASSUME NEW op \in ReportOps, NEW i \in ReportIds, ReadReport(r, op, i)
      PROVE  Undisturbed(req'[r])
  <2>1. /\ req'[r].op = op /\ req'[r].stage = "opened" /\ req'[r].report = i
        /\ req'[r].fresh = {<<"report", i>>}
    BY <1>1, <1>3 DEF ReadReport, Idle
  <2> QED BY <2>1 DEF Undisturbed, TaskOps, ReportOps
<1>4. CASE LoadTask(r)
  <2> DEFINE q == req[r]
             s == IF q.op = "approve" /\ LicenseOf[q.task] # None THEN "loaded" ELSE "ready"
             n == [q EXCEPT !.stage = s, !.fresh = @ \cup {<<"task", q.task>>}]
  <2>1. CASE req' = [req EXCEPT ![r] = n]
    <3>1. /\ n.op = q.op /\ n.stage = s /\ n.task = q.task /\ n.report = q.report
          /\ n.fresh = q.fresh \cup {<<"task", q.task>>}
      BY <1>1 DEF Request
    <3>2. req'[r] = n
      BY <1>1, <2>1
    <3> HIDE DEF n
    <3>3. n.op \in ReportOps
      BY <1>1, <1>4, <3>1 DEF LoadTask, Refers
    <3> QED BY <1>1, <3>1, <3>2, <3>3, NoneIsNull DEF Undisturbed
  <2>2. CASE req' = [req EXCEPT ![r] = Idle]
    BY <1>1, <2>2, IdleUndisturbed
  <2> QED BY <1>4, <2>1, <2>2 DEF LoadTask
<1>5. CASE LoadLicense(r)
  <2> DEFINE q == req[r]
             l == LicenseOf[q.task]
             n == [q EXCEPT !.stage = "ready", !.license = license[l].status,
                            !.fresh = @ \cup {<<"license", l>>}]
  <2>1. /\ n.op = q.op /\ n.stage = "ready" /\ n.task = q.task /\ n.report = q.report
        /\ n.fresh = q.fresh \cup {<<"license", l>>}
    BY <1>1 DEF Request
  <2>2. req'[r] = n /\ q.stage = "loaded" /\ q.op = "approve"
    BY <1>1, <1>5 DEF LoadLicense, Refers
  <2> HIDE DEF n
  <2> QED BY <1>1, <2>1, <2>2 DEF Undisturbed, TaskOps
<1>6. CASE StartUpdate(r) \/ StartFind(r)
  <2>1. /\ req'[r].op = "start" /\ req'[r].task = req[r].task /\ req'[r].fresh = req[r].fresh
        /\ req[r].op = "start"
    BY <1>1, <1>6 DEF StartUpdate, StartFind, Ready, Refers, Request
  <2> QED BY <1>1, <2>1 DEF Undisturbed, ReportOps
<1>7. CASE Write(r)
  <2>1. PICK written : Finish(r, written)
    BY <1>7 DEF Write, StartCommit, Cancel, Submit, Approve, Return, Update
  <2> QED BY <1>1, <2>1, FinishTyped, IdleUndisturbed
<1>8. CASE Abort(r)
  BY <1>1, <1>8, IdleUndisturbed DEF Abort
<1> QED BY <1>2, <1>3, <1>4, <1>5, <1>6, <1>7, <1>8 DEF Step, Write

LEMMA ApartHolds == Spec /\ []Apart => [](Typed /\ InPeace)
<1>1. Init => Typed /\ InPeace
  BY TypedInit, IdleUndisturbed DEF Init, InPeace
<1>2. Typed /\ InPeace /\ Apart /\ [Next]_vars => Typed' /\ InPeace'
  <2> SUFFICES ASSUME Typed, InPeace, Apart, [Next]_vars PROVE InPeace'
      BY TypedStep
  <2>1. CASE UNCHANGED vars
    BY <2>1 DEF vars, InPeace
  <2>2. ASSUME NEW r \in Requests, Step(r) PROVE InPeace'
    BY <2>2, UndisturbedStep DEF InPeace, Undisturbed
  <2> QED BY <2>1, <2>2 DEF Next
<1> QED BY <1>1, <1>2, PTL DEF Spec

\* While no two requests in flight are about one task, and no two approvals about one
\* license, no request writes on the strength of a row that has changed, however the
\* statements of the requests interleave.
THEOREM ApartIsFresh == Spec /\ []Apart => [][NoStaleWrite]_vars
<1>1. Typed /\ InPeace => NoStaleWrite
  <2> SUFFICES ASSUME Typed, InPeace, NEW r \in Requests, Write(r)
               PROVE  Relies(req[r]) \subseteq req[r].fresh
      BY DEF NoStaleWrite
  <2> DEFINE q == req[r]
             l == LicenseOf[q.task]
  <2>1. Undisturbed(q) /\ Refers(q) /\ q.task \in Tasks
    BY Links DEF InPeace, Typed, Linked
  <2>2. q.op = "start" \/ q.op = "cancel" \/ (q.op \in ReportOps /\ q.stage = "ready")
    BY <2>1 DEF Write, StartCommit, Cancel, Submit, Approve, Return, Update, Ready, Refers, ReportOps
  <2>3. CASE q.op \in TaskOps
    BY <2>1, <2>3 DEF Undisturbed, Relies, TaskOps
  <2>4. CASE q.op \in ReportOps /\ q.stage = "ready"
    <3>1. <<"report", q.report>> \in q.fresh /\ <<"task", q.task>> \in q.fresh
      BY <2>1, <2>4 DEF Undisturbed
    <3>2. q.op = "approve" /\ l # None => <<"license", l>> \in q.fresh
      BY <2>1, <2>4, LicenseOfType DEF Undisturbed
    <3> QED BY <3>1, <3>2 DEF Relies
  <2> QED BY <2>2, <2>3, <2>4 DEF TaskOps
<1> QED BY <1>1, ApartHolds, PTL

\* Such requests implement the documented workflow, answer every submission once, and keep
\* drafts and tasks in step.  One request at a time is the simplest case.
THEOREM ApartRefines ==
    Spec /\ []Apart => ImplementsLifecycle /\ []DraftUntilSubmitted /\ []NoticesBalance
BY ApartIsFresh, Refines, Drafts, Notices, PTL
=============================================================================

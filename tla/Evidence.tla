------------------------------- MODULE Evidence -------------------------------
(***************************************************************************)
(* The evidence of one report: uploadEvidence and deleteEvidence of        *)
(* inspection.service.ts, which keep an object in the store and a row in   *)
(* license_documents without a transaction over both, and the audit row    *)
(* that audit.interceptor.ts appends before it lets the answer out.        *)
(*                                                                         *)
(* The report and its task are written meanwhile by any number of          *)
(* overlapping requests (TaskRows).                                        *)
(***************************************************************************)
EXTENDS Naturals, FiniteSets

CONSTANTS
    Requests,   \* requests about evidence in flight at one time
    Docs,       \* ids of documents; a row and its object share one
    None

ASSUME NoneIsNull == None \notin Docs

VARIABLES
    status, report, recorded, waited,   \* of TaskRows
    object,   \* documents in the object store
    row,      \* license_documents rows
    audit,    \* audit_logs rows of the two operations
    req,      \* what each request in flight has read and done
    cut,      \* history: what is missing because a request died half way
    astray    \* history: since the last submission a request wrote report or task whose
              \* check would not have passed any more

workflow == <<status, report, recorded, waited>>
vars == <<workflow, object, row, audit, req, cut, astray>>

Workflow == INSTANCE TaskRows

Ops == {"upload", "delete"}
Stages == {"idle",
           "opened",   \* the report is read, its task is not
           "ready",    \* every check passed
           "found",    \* deleteEvidence has read the row
           "half",     \* one of the two stores is written
           "done"}     \* both are, the audit row is not

\* "fresh" is history: which of the two rows are still what the request has read.
Request == [op: Ops \cup {"none"}, stage: Stages, draft: BOOLEAN, doc: Docs \cup {None},
            fresh: SUBSET {"report", "task"}]

Idle == [op |-> "none", stage |-> "idle", draft |-> FALSE, doc |-> None, fresh |-> {}]

\* The audit row of an upload names the document.  The row of a deletion does not: the
\* handler returns no id, and the first parameter of the route is the report.  So of
\* deletions there is only a number.
Log == [created: SUBSET Docs, deleted: Nat]
NoLog == [created |-> {}, deleted |-> 0]

TypeOK ==
    /\ Workflow!TypeOK
    /\ object \subseteq Docs
    /\ row \subseteq Docs
    /\ audit \in Log
    /\ req \in [Requests -> Request]
    /\ cut \in [docs: SUBSET Docs, log: Log]
    /\ astray \in BOOLEAN

Init ==
    /\ Workflow!Init
    /\ object = {} /\ row = {} /\ audit = NoLog
    /\ req = [r \in Requests |-> Idle]
    /\ cut = [docs |-> {}, log |-> NoLog]
    /\ astray = FALSE

Goto(r, stage) == req' = [req EXCEPT ![r].stage = stage]
At(r, op, stage) == req[r].op = op /\ req[r].stage = stage

MoveTask ==
    /\ \E op \in Workflow!Ops :
          /\ Workflow!Write(op)
          /\ astray' = (op # "submit" /\ (astray \/ ~Workflow!Passes(op)))
    /\ req' = [r \in Requests |-> [req[r] EXCEPT !.fresh =
                  {x \in @ : IF x = "task" THEN status' = status ELSE report' = report}]]
    /\ UNCHANGED <<object, row, audit, cut>>
-----------------------------------------------------------------------------
(* ownedReport and the check of both operations. *)

ReadReport(r, op) ==
    /\ req[r] = Idle
    /\ report # "none"
    /\ req' = [req EXCEPT ![r] = [Idle EXCEPT !.op = op, !.stage = "opened",
                                              !.draft = (report = "draft"),
                                              !.fresh = {"report"}]]
    /\ UNCHANGED <<workflow, object, row, audit, cut, astray>>

Pass(r) == req' = [req EXCEPT ![r].stage = "ready", ![r].fresh = @ \cup {"task"}]

\* Faulty variant: whoever owns the report may add to it.
LoadTaskUnchecked(r) ==
    /\ req[r].stage = "opened"
    /\ Pass(r)
    /\ UNCHANGED <<workflow, object, row, audit, cut, astray>>

LoadTask(r) ==
    /\ req[r].stage = "opened"
    /\ IF req[r].draft \/ status = "RETURNED"
       THEN Pass(r)
       ELSE req' = [req EXCEPT ![r] = Idle]
    /\ UNCHANGED <<workflow, object, row, audit, cut, astray>>
-----------------------------------------------------------------------------
(* uploadEvidence *)

Used == object \cup row \cup cut.docs \cup audit.created \cup cut.log.created
            \cup {req[r].doc : r \in Requests}

\* The key is new.
PutObject(r, d) ==
    /\ At(r, "upload", "ready")
    /\ d \notin Used
    /\ object' = object \cup {d}
    /\ req' = [req EXCEPT ![r].stage = "half", ![r].doc = d]
    /\ UNCHANGED <<workflow, row, audit, cut, astray>>

CreateRow(r) ==
    /\ At(r, "upload", "half")
    /\ row' = row \cup {req[r].doc}
    /\ Goto(r, "done")
    /\ UNCHANGED <<workflow, object, audit, cut, astray>>
-----------------------------------------------------------------------------
(* deleteEvidence *)

FindRow(r, d) ==
    /\ At(r, "delete", "ready")
    /\ d \in row
    /\ req' = [req EXCEPT ![r].stage = "found", ![r].doc = d]
    /\ UNCHANGED <<workflow, object, row, audit, cut, astray>>

\* Faulty variant: the object stays.
RemoveNothing(r) ==
    /\ At(r, "delete", "found")
    /\ Goto(r, "half")
    /\ UNCHANGED <<workflow, object, row, audit, cut, astray>>

\* An object that is gone may be removed again.
RemoveObject(r) ==
    /\ At(r, "delete", "found")
    /\ object' = object \ {req[r].doc}
    /\ Goto(r, "half")
    /\ UNCHANGED <<workflow, row, audit, cut, astray>>

\* Faulty variant: a row that is gone is no error.
DeleteIfThere(r) ==
    /\ At(r, "delete", "half")
    /\ row' = row \ {req[r].doc}
    /\ Goto(r, "done")
    /\ UNCHANGED <<workflow, object, audit, cut, astray>>

\* A row that is gone is an error.
DeleteRow(r) ==
    /\ At(r, "delete", "half")
    /\ req[r].doc \in row
    /\ row' = row \ {req[r].doc}
    /\ Goto(r, "done")
    /\ UNCHANGED <<workflow, object, audit, cut, astray>>
-----------------------------------------------------------------------------
(* AuditInterceptor *)

Logged(log, q) ==
    IF q.op = "upload" THEN [log EXCEPT !.created = @ \cup {q.doc}]
    ELSE [log EXCEPT !.deleted = @ + 1]

\* Then the request is answered.
Append(r) ==
    /\ req[r].stage = "done"
    /\ audit' = Logged(audit, req[r])
    /\ req' = [req EXCEPT ![r] = Idle]
    /\ UNCHANGED <<workflow, object, row, cut, astray>>

\* A store fails or the process ends.  After "done" the client is told of an error for
\* what was done.
Abort(r) ==
    LET q == req[r]
    IN  /\ q # Idle
        /\ req' = [req EXCEPT ![r] = Idle]
        /\ cut' = [docs |-> IF q.stage = "half" THEN cut.docs \cup {q.doc} ELSE cut.docs,
                   log |-> IF q.stage = "done" THEN Logged(cut.log, q) ELSE cut.log]
        /\ UNCHANGED <<workflow, object, row, audit, astray>>

Next ==
    \/ MoveTask
    \/ \E r \in Requests, op \in Ops : ReadReport(r, op)
    \/ \E r \in Requests, d \in Docs : PutObject(r, d) \/ FindRow(r, d)
    \/ \E r \in Requests : \/ LoadTask(r) \/ CreateRow(r) \/ RemoveObject(r) \/ DeleteRow(r)
                           \/ Append(r) \/ Abort(r)

Spec == Init /\ [][Next]_vars
-----------------------------------------------------------------------------
\* A document is in both stores or in none, unless a request is between the two, or
\* one died there: overlapping deletions, or a deletion of what an upload has just
\* stored, never take them apart.
StoresAgree ==
    \A d \in Docs : (d \in object <=> d \in row) \/ d \in cut.docs
        \/ \E r \in Requests : req[r].stage = "half" /\ req[r].doc = d

\* The evidence of a report that is handed in or approved does not change, in neither
\* store, unless the request that changes it had read the report or the task before
\* they were last written, or a request wrote those since the submission although its
\* check would not have passed any more (and may so have made the report a draft again).
FrozenUnlessStale ==
    [][<<object, row>>' # <<object, row>> =>
          \/ status \notin {"PENDING_REVIEW", "APPROVED"}
          \/ astray
          \/ \E r \in Requests : /\ req'[r].stage # req[r].stage
                                 /\ req[r].fresh # {"report", "task"}]_vars

\* The audit log has, or lacks because a request is on its way or died, one row that
\* names each document there ever was, and one row for each that is gone.
AuditCounts ==
    LET ending(op) == {r \in Requests : At(r, op, "done")}
        made == audit.created \cup cut.log.created \cup {req[r].doc : r \in ending("upload")}
    IN  /\ row \subseteq made
        /\ Cardinality(made \ row) =
              audit.deleted + cut.log.deleted + Cardinality(ending("delete"))
=============================================================================

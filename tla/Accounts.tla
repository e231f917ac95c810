------------------------------- MODULE Accounts -------------------------------
(***************************************************************************)
(* What an account may do, and who says so: roles, agency and zones of one *)
(* inspector, set by user.service.ts; the claims his access token keeps of *)
(* them, on which the guards decide; and createTask, which asks for them   *)
(* before it gives him a task.                                             *)
(***************************************************************************)
EXTENDS Naturals

CONSTANTS
    Requests,     \* requests in flight at one time
    Zones,        \* the zones there are
    TaskZone,     \* the zone of the business the tasks are about
    MaxChanges,   \* bound: how often roles, agency and zones change in all
    MaxTasks      \* bound: how many tasks the inspector is given

ASSUME TaskZoneType == TaskZone \in Zones
ASSUME BoundsType == MaxChanges \in Nat /\ MaxTasks \in Nat

VARIABLES
    account,   \* his system_users row
    zones,     \* the zones of his user_zones rows
    token,     \* the claims of his access token, while its session is good
    req,       \* what each request in flight has read
    tasks,     \* how many tasks he was given
    changes

vars == <<account, zones, token, req, tasks, changes>>

Agencies == {"DIW", "ACFS"}

\* The agency of the supervisors whose requests are modelled.
Own == "DIW"

Claims == [live: BOOLEAN, inspector: BOOLEAN, agency: Agencies, zones: SUBSET Zones]

NoToken == [live |-> FALSE, inspector |-> FALSE, agency |-> Own, zones |-> {}]

Stages == {"idle", "ready",
           "deleting",  \* updateZones: the DELETE has taken its snapshot
           "opened"}    \* createTask: the account is read, its zones are not

\* "fresh" is history: what the request has read and nobody has written since.
Request == [op: {"none", "agency", "zones", "login", "task"}, stage: Stages, admin: BOOLEAN,
            inspector: BOOLEAN, agency: Agencies,
            wanted: SUBSET Zones, seen: SUBSET Zones, fresh: SUBSET {"account", "zones"}]

Idle == [op |-> "none", stage |-> "idle", admin |-> FALSE, inspector |-> FALSE,
         agency |-> Own, wanted |-> {}, seen |-> {}, fresh |-> {}]

TypeOK ==
    /\ account \in [active: BOOLEAN, inspector: BOOLEAN, agency: Agencies]
    /\ zones \subseteq Zones
    /\ token \in Claims
    /\ req \in [Requests -> Request]
    /\ tasks \in 0 .. MaxTasks
    /\ changes \in 0 .. MaxChanges

\* create makes account and zones in one statement.
Init ==
    /\ account = [active |-> TRUE, inspector |-> TRUE, agency |-> Own]
    /\ zones \in SUBSET Zones
    /\ token = NoToken
    /\ req = [r \in Requests |-> Idle]
    /\ tasks = 0
    /\ changes = 0

Enter(r, q) == req[r] = Idle /\ req' = [req EXCEPT ![r] = q]

Ready(r, op) == req[r].op = op /\ req[r].stage = "ready"

Count == changes < MaxChanges /\ changes' = changes + 1

\* Request r ends (if there is one), what it wrote is fresh for nobody, and the rows
\* it deleted are gone from the snapshots of the others.
Wrote(R, what, gone) ==
    req' = [q \in Requests |-> IF q \in R THEN Idle
                               ELSE [req[q] EXCEPT !.fresh = @ \ {what}, !.seen = @ \ gone]]
-----------------------------------------------------------------------------
(* user.service.ts *)

\* updateRoles, in one statement.
SetRoles ==
    /\ Count
    /\ account' = [account EXCEPT !.inspector = ~@]
    /\ Wrote({}, "account", {})
    /\ UNCHANGED <<zones, token, tasks>>

\* Faulty variant: a supervisor finds any account.
ReadAnyTarget(r, op, admin) ==
    /\ Enter(r, [Idle EXCEPT !.op = op, !.stage = "ready", !.admin = admin, !.fresh = {"account"}])
    /\ UNCHANGED <<account, zones, token, tasks, changes>>

\* updateAgency and updateZones: a supervisor finds accounts of his own agency only.
\* (A suspended account is found like any other; one that is removed is not, and no
\* property tells the two apart.  That a supervisor may give only zones of his own is
\* left out: BeginReplace takes any zones, and no property depends on which.)
ReadTarget(r, op, admin) ==
    /\ admin \/ account.agency = Own
    /\ Enter(r, [Idle EXCEPT !.op = op, !.stage = "ready", !.admin = admin, !.fresh = {"account"}])
    /\ UNCHANGED <<account, zones, token, tasks, changes>>

\* A supervisor can ask for his own agency only.
SetAgency(r, agency) ==
    /\ Ready(r, "agency")
    /\ req[r].admin \/ agency = Own
    /\ Count
    /\ account' = [account EXCEPT !.agency = agency]
    /\ Wrote({r}, "account", {})
    /\ UNCHANGED <<zones, token, tasks>>

\* deleteMany sees the rows that are committed when it starts ...
BeginReplace(r, Z) ==
    /\ Ready(r, "zones")
    /\ req' = [req EXCEPT ![r] = [@ EXCEPT !.stage = "deleting", !.wanted = Z, !.seen = zones,
                                           !.fresh = req[r].fresh \cup {"zones"}]]
    /\ UNCHANGED <<account, zones, token, tasks, changes>>

\* Faulty variant: nothing is deleted.
AddZones(r) ==
    /\ req[r].stage = "deleting"
    /\ Count
    /\ zones' = zones \cup req[r].wanted
    /\ Wrote({r}, "zones", {})
    /\ UNCHANGED <<account, token, tasks>>

\* ... waits for those another transaction is deleting, and deletes what is left of
\* them; createMany fails on a row that is there, and the transaction with it.
CommitReplace(r) ==
    LET q == req[r]
        kept == zones \ q.seen
    IN  /\ q.stage = "deleting"
        /\ q.wanted \cap kept = {}
        /\ Count
        /\ zones' = kept \cup q.wanted
        /\ Wrote({r}, "zones", q.seen)
        /\ UNCHANGED <<account, token, tasks>>

\* suspend and remove; the sessions are revoked in the same transaction.
Suspend ==
    /\ account.active
    /\ account' = [account EXCEPT !.active = FALSE]
    /\ token' = NoToken
    /\ Wrote({}, "account", {})
    /\ UNCHANGED <<zones, tasks, changes>>
-----------------------------------------------------------------------------
(* The access token. *)

\* Faulty variant: a suspended account may log in.
ReadAnyAccount(r) ==
    /\ Enter(r, [Idle EXCEPT !.op = "login", !.stage = "ready",
                             !.inspector = account.inspector, !.agency = account.agency])
    /\ UNCHANGED <<account, zones, token, tasks, changes>>

\* A login or a refresh reads the account ...
ReadAccount(r) ==
    /\ account.active
    /\ Enter(r, [Idle EXCEPT !.op = "login", !.stage = "ready",
                             !.inspector = account.inspector, !.agency = account.agency])
    /\ UNCHANGED <<account, zones, token, tasks, changes>>

\* ... and later, for claimsFor, the zones.
Sign(r) ==
    /\ Ready(r, "login")
    /\ token' = [live |-> TRUE, inspector |-> req[r].inspector, agency |-> req[r].agency,
                 zones |-> zones]
    /\ req' = [req EXCEPT ![r] = Idle]
    /\ UNCHANGED <<account, zones, tasks, changes>>

\* Fifteen minutes are over.
ExpireToken ==
    /\ token.live
    /\ token' = NoToken
    /\ UNCHANGED <<account, zones, req, tasks, changes>>

\* RolesGuard and ScopeGuard look at the claims only.
Admitted == token.live /\ token.inspector
Scope == [agency |-> token.agency, zones |-> token.zones]
-----------------------------------------------------------------------------
(* createTask, for a business in TaskZone and a supervisor of agency Own. *)

\* Faulty variant: the agency of the assignee is not asked.
ReadAnyAssignee(r) ==
    /\ account.active /\ account.inspector
    /\ Enter(r, [Idle EXCEPT !.op = "task", !.stage = "opened", !.fresh = {"account"}])
    /\ UNCHANGED <<account, zones, token, tasks, changes>>

ReadAssignee(r) ==
    /\ account.active /\ account.inspector /\ account.agency = Own
    /\ Enter(r, [Idle EXCEPT !.op = "task", !.stage = "opened", !.fresh = {"account"}])
    /\ UNCHANGED <<account, zones, token, tasks, changes>>

LoadZones(r) ==
    /\ req[r].stage = "opened"
    /\ req' = [req EXCEPT ![r] = IF TaskZone \in zones
                                 THEN [req[r] EXCEPT !.stage = "ready", !.fresh = @ \cup {"zones"}]
                                 ELSE Idle]
    /\ UNCHANGED <<account, zones, token, tasks, changes>>

CreateTask(r) ==
    /\ Ready(r, "task")
    /\ tasks < MaxTasks
    /\ tasks' = tasks + 1
    /\ req' = [req EXCEPT ![r] = Idle]
    /\ UNCHANGED <<account, zones, token, changes>>

\* A row that is there already, a database error, the end of the process.
Abort(r) ==
    /\ req[r] # Idle
    /\ req' = [req EXCEPT ![r] = Idle]
    /\ UNCHANGED <<account, zones, token, tasks, changes>>

Next ==
    \/ SetRoles \/ Suspend \/ ExpireToken
    \/ \E r \in Requests, admin \in BOOLEAN, op \in {"agency", "zones"} : ReadTarget(r, op, admin)
    \/ \E r \in Requests, agency \in Agencies : SetAgency(r, agency)
    \/ \E r \in Requests, Z \in SUBSET Zones : BeginReplace(r, Z)
    \/ \E r \in Requests : \/ CommitReplace(r) \/ ReadAccount(r) \/ Sign(r)
                           \/ ReadAssignee(r) \/ LoadZones(r) \/ CreateTask(r) \/ Abort(r)

Spec == Init /\ [][Next]_vars

\* A login in flight is answered or dies, and time passes.
FairSpec == Spec /\ WF_vars(ExpireToken) /\ \A r \in Requests : WF_vars(Sign(r) \/ Abort(r))
-----------------------------------------------------------------------------
\* IMPLEMENTATION_GUIDE_1.md:637: the assignee of a new task is an active inspector of
\* the supervisor's agency who covers the zone, unless he lost that after createTask
\* had read it.
FitUnlessStale ==
    [][\A r \in Requests :
          tasks' # tasks /\ req'[r] # req[r] /\ req[r].fresh = {"account", "zones"} =>
              /\ account = [active |-> TRUE, inspector |-> TRUE, agency |-> Own]
              /\ TaskZone \in zones]_vars

\* Zones are replaced as a set, unless two replacements overlapped.
ReplacedUnlessOverlapped ==
    [][zones' # zones =>
          \E r \in Requests : /\ req[r].stage = "deleting" /\ req'[r] = Idle
                              /\ zones' = req[r].wanted \/ "zones" \notin req[r].fresh]_vars

\* updateAgency (IMPLEMENTATION_GUIDE_1.md:660) and updateZones (its where clause): a
\* supervisor changes the agency or the zones of an account only while it is of his
\* agency, and leaves it there, unless somebody wrote it after the request had found it.
JurisdictionUnlessStale ==
    [][\A r \in Requests :
          /\ req[r].op \in {"agency", "zones"} /\ ~req[r].admin /\ "account" \in req[r].fresh
          /\ req'[r] = Idle /\ (account' # account \/ zones' # zones)
          => account.agency = Own /\ account'.agency = Own]_vars

\* The guards come to agree with the account: what an inspector lost, his tokens lose
\* too, though claims are read at different moments and kept for fifteen minutes.
ClaimsCatchUp ==
    <>[](/\ Admitted => account.active /\ account.inspector
         /\ token.live => Scope = [agency |-> account.agency, zones |-> zones])
=============================================================================

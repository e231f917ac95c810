# Verification of the certificate tracking backend

TLA+ models of the NestJS/Prisma backend under `src/`, TLC configurations that
check them on small instances, and TLAPS proofs that some of the properties
hold for every instance. Paths below are relative to `src/`; `inspection.service.ts`
and the like are under `src/modules/`.

## 1. The system

### How the parts interact

One Node process serves HTTP requests and runs three cron jobs. Everything shared is in
one PostgreSQL database. A handler is a sequence of awaited statements: it **reads** rows,
**checks** them in memory and **writes**. These facts decide what an atomic step is:

* PostgreSQL runs at READ COMMITTED, Prisma's default. A statement sees the
  last commit; between two statements anything may happen.
* `findUnique` with `include` is *one SELECT per table*, not one snapshot.
* `$transaction([...])` and an interactive `$transaction(async tx => ...)` commit
  as a whole, but at READ COMMITTED their reads are not frozen. The first
  UPDATE of a row holds its row lock until the commit and makes other writers
  of the row wait; SELECTs never wait.
* Writes name a row by `id` (or by owner). Almost none repeats the condition
  that was checked, so a decision can be out of date when it is carried out.
* A request or a job may die after any statement (database error, lost
  connection, restart). Nothing resumes it.

No component calls another over a network (the object store is the one exception);
they interact through rows: `inspection_tasks` (createTask → workflow), `licenses`
(jobs, synchronisation, approvals), `businesses` (synchronisation, read by tasks and
notices), `user_sessions`, `system_users` and `user_zones` (login, refresh, guard,
administration, createTask), `license_documents`, `notifications`, `audit_logs`.

### Inventory

| Component | State | Operations | What is hard | What makes it correct |
|---|---|---|---|---|
| Inspection workflow (`inspection.service.ts:171-260,300-452`) | task status, report (result, draft flag), license status and reason, notifications | start, cancel, update, submit, approve, return | every handler decides on rows read earlier; `taskId` of a report is not unique | one report per task; the task state machine; an approval decides the license by the report it approves; no task gets stuck |
| Task creation (`inspection.service.ts:77-169`) | `taskNo` strings of the year | createTask: read the greatest, add one, insert, retry on collision | concurrent requests draw one number; string order; end of the digits | no gap, no duplicate, retries suffice, requests end |
| Sessions (`auth.service.ts`, `session-cleanup.service.ts`, `jwt-auth.guard.ts`) | `user_sessions`; active flag and password of the account | login, refresh with rotation, replay detection, logout, change and reset of the password, suspension, expiry, clean-up | revocation races with requests in flight | old and new token never both good; a suspended account, an old password, a replayed token have no good session |
| Credentials (`auth.service.ts:194-252,344-368`) | failed-login counter, lock, reset tokens | self login, forgot and reset password | lost updates of the counter; a token used twice | the fifth failure in a row locks, and a lock lasts; a token is used once |
| First mToken login (`auth.service.ts:129-160`) | account and provider link | create both, in two statements | two first logins; death in between | one account per identity |
| License register (`license.cron.ts`, `sync.service.ts:44-99`, `inspection.service.ts:383-401`) | license status, reason, expiry date | expiry job, fee job, upsert of a record, approval | the job lists and marks in separate statements; several writers | RNG4 has no expiry; expired licenses are marked and announced; unpaid ones suspended |
| Expiry notices (`license.cron.ts:11-73`) | notifications | 90 and 30 days ahead | search and creation are two statements; one notice hides another | each recipient told once per deadline |
| Synchronisation runs (`sync.service.ts:101-221`) | `sync_logs`, businesses, licenses | trigger, import of a file | rate limit by a read; bad row in the middle; overlapping runs; crash leaves RUNNING | one triggered run in five minutes; the log matches what was stored; data does not go back |
| Evidence files (`inspection.service.ts:262-298`, storage) | objects and `license_documents` | upload, delete | two stores without a transaction; a report submitted meanwhile | both stores hold a document or none does; the evidence of a submitted report is frozen, as far as the report stays submitted |
| Accounts and zones (`user.service.ts`, `zone.service.ts`) | roles, agency, zones, active flag | create, edit, suspend, remove | access tokens keep old claims for minutes | a lost right ends |
| Guards | none | pure functions of claims, one session lookup | stale claims | see Sessions, Accounts |
| Notifications | rows | create (by others), mark as read | none of its own | see the senders |
| Audit log (`audit.interceptor.ts`) | append-only rows | append after the handler, before the answer | a failing append fails a request already done | one row for each operation that succeeded |
| Export, dashboard, my, business, license queries | none | read only | none | - |
| External providers | none (mocks) | fixed answers | none | - |
| Start-up, configuration, seed | none | wiring | none | - |

`PROJECT.json` lists every component with its status, and every hazard at the
line where it bites with the properties aimed at it.

## 2. Modules

| Module | Models | Rests on |
|---|---|---|
| `TaskLifecycle` | abstract: the documented workflow, one atomic step per operation | - |
| `TaskRows` | abstract: what overlapping requests can make of one task row and its report row | - |
| `Inspection` | the inspection workflow, statement by statement | refines `TaskRows`, and `TaskLifecycle` where no write is stale |
| `Evidence` | upload and deletion of evidence, with the audit row | composed with `TaskRows` |
| `TaskNumbers` | the numbering loop of createTask | - |
| `Accounts` | roles, agency and zones, the claims of the access token, the checks of createTask | - |
| `Sessions` | the sessions of one account | - |
| `Credentials` | failed logins and the lock, reset tokens, the first mToken login | - |
| `SyncRuns` | runs of the synchronisation: log, rate limit, records one by one | - |
| `LicenseRegister` | license rows and all that writes them | - |
| `ExpiryNotices` | the notices ahead of an expiry | - |
| `MC*` | small instances and symmetry for TLC | the module of that name |
| `Inspection_proofs`, `TaskNumbers_proofs`, `Sessions_proofs`, `LicenseRegister_proofs`, `Credentials_proofs`, `Evidence_proofs`, `SyncRuns_proofs`, `ExpiryNotices_proofs` | theorems (`TaskNumbers_proofs` also about `Accounts`) | the module of that name, TLAPS |

**A request** is a record `req[r]` with a `stage` (the next statement) and what it has
read so far: the local variables of the handler. Each awaited SELECT is an action that
fills it, each statement or transaction that commits is an action that writes rows and
ends the request or moves its stage. A guard that turns the request away (404, 403, 422)
at its first SELECT changes nothing and is no action; at a later SELECT it returns the
request to `Idle`. `Abort` (in `SyncRuns` `CutOff`) ends a request at any point.

**History variables** never appear in a guard. `fresh` says what a request or a job has
read and nobody else has written since: a set of rows in `Inspection`, `Accounts`,
`LicenseRegister`, `ExpiryNotices` and `Evidence`, a flag where a request reads one thing
(`Credentials`, `SyncRuns`). In `Sessions`, `password` is what a session or
request stands for, or `None` once the rows it relied on were written by somebody else.
Others count what happened: `made` in `TaskNumbers`, `history` in `Credentials`, `cut`
(operations that died half way) and `astray` (a write since the last submission whose
check would not have passed any more) in `Evidence`, `slipped` and `alone` in `SyncRuns`,
`sent` in `ExpiryNotices`. They let a property say exactly when the code is right:
*unless the request that wrote had read something that changed before it wrote*.

**Inspection.** `task`, `report`, `license` are the rows. `ReadTask` is the `findFirst`
of startTask and cancelTask, `ReadReport`/`LoadTask`/`LoadLicense` the three SELECTs
behind `ownedReport` and `scopedReport`. `StartUpdate`, `StartFind`, `StartCommit` are
the statements of startTask's interactive transaction; `holder` is the row lock its
first statement takes, and `Unlocked` makes other writers of the task wait. `Cancel`,
`Update`, `Submit`, `Approve`, `Return` are the writes, each one statement or one array
transaction. Data that no property tells apart (remarks, coordinates, dates, texts) is
left out.

**TaskRows.** One task row and its report row, without the requests: `status`, `report`
(none, a draft, or handed in: the column `isDraft`), `recorded` (it has a result) and
`waited` (it was submitted once). A handler checks copies and writes by id, so any
operation may write whose check has passed at some earlier moment: a start or a
cancellation always, an edit once there is a report, a submission once there is a
result, a review once the task was submitted. `Passes` says whether the check would pass
now. An edit that was checked before a submission and stored after it makes the report a
draft again under PENDING_REVIEW or APPROVED (`inspection.service.ts:248-257`), so draft
flag and status are two columns here as in the code.

**Evidence.** One report and its documents. `PutObject` then `CreateRow` are
uploadEvidence, `FindRow`, `RemoveObject`, `DeleteRow` are deleteEvidence, after the two
SELECTs of `ownedReport` (`ReadReport`, `LoadTask`). `MoveTask` is any write of
`TaskRows`; the operations here only read report and task, so nothing more of the
workflow is needed. `Append` is the interceptor, which audits before it answers. Its row
takes the id from the answer or else the first parameter of the route
(`audit.interceptor.ts:70-75`): an upload answers with the new row, a deletion with
`{ success: true }`, so a deletion's row names the report and the document nowhere. `Log`
therefore has the documents that were created and only the number of deletions.

**TaskNumbers.** `Draw`, `Insert`, `Collide`, `Commit` are the loop of createTask.
`Above` is the order of the strings: numbers are padded to four digits, so a five-digit
number is compared by its first four digits first. `NextTaskNo` keeps the last four
characters and adds one. `Waits` is the unique index, which makes an INSERT of a key
wait for a transaction that has inserted it and not ended. Radix 10 and limit 9999 are
constants.

**Accounts.** One inspector. `SetRoles`, `SetAgency`, `Suspend` and the pair
`BeginReplace`, `CommitReplace` (the DELETE of a replacement sees what is committed when
it starts; a row another replacement adds meanwhile stays) write his account. That a
supervisor may give only zones he has himself (`user.service.ts:139-144`) is left out:
any zones may come, which only adds behaviours. A login or
refresh reads the account and later the zones, and signs both into the token
(`ReadAccount`, `Sign`); `Admitted` and `Scope` are all that RolesGuard and ScopeGuard
see. `ReadAssignee`, `LoadZones`, `CreateTask` are the checks of createTask before the
loop of `TaskNumbers`.

**Sessions.** One account, its `session` rows and the requests on it. `refresh` is
`ReadSession`, `LoadAccount`, then either `RevokeAll` (replay) or `Rotate` and
`OpenSession`; a login is `ReadAccount` and `OpenSession`. Whether a password, code or
token is right is not asked here: every request has it. `Expire` is the passing of
`expiresAt`, `Purge` the hourly clean-up.

**Credentials.** Three kinds of request. A self login reads the account, spends its time
in bcrypt, and *sets* the counter to what it read plus one (`FailLogin`) or to zero
(`PassLogin`). A reset reads the token and marks it used in a transaction that does not
ask again (`Reset`). A first mToken login finds no link, creates an account, then a link
(`FindLink`, `CreateUser`, `CreateLink`, `Answer`). Whether the password is right is a
choice.

**SyncRuns.** `Trigger` (rate limit), `Begin` (the RUNNING row), `Fetch`, then per
record `LookUp`, `CreateBusiness`, `Store`; `Succeed`, `Fail`, `CutOff` end a run.
`Import` has no limit. `license[l]` is the age of the data it was last written with:
what a record makes of its license is `Upsert` of `LicenseRegister`. A record that the
import refuses is found only when its turn comes (`sync.service.ts:173`), though the
guide says "validate then upsert" (line 670).

**LicenseRegister.** `Upsert` is the upsert of one synchronised record with any type,
status and date; `ListExpired`, `MarkExpired`, `Announce` the expiry job; `FeeCheck` the
fee job; `ReadForReview` and `Approve` the read and the write of an approval;
`DayPasses` the end of an expiry date; `JobDies` a crash in the job. The job starts over
only when it rests: cron fires it once a day.

**ExpiryNotices.** The first half of the same job: `List` for each of the two deadlines,
`Gather` the people concerned, `Search` for an earlier notice, `Create`. `Renew` moves a
date, `Reassign` changes who is on duty, `CutOff` ends the job anywhere; `DayPasses`
starts the next.

## 3. Runs

All constants are model values or small numbers; each bound is named in the module that
has it.

| Run | Instance | Shows |
|---|---|---|
| `InspectionRaces` | 2 tasks on one license, 2 requests, 2 submissions in all | all that holds under every interleaving (below) |
| `InspectionSerial` | 2 tasks, one with a license, 1 request, 3 submissions | handled one at a time, the requests implement `TaskLifecycle`; drafts and notifications match it |
| `EvidenceRaces` | 2 requests, 2 documents, any workflow | stores agree; the audit log counts the documents; evidence of a submitted report is frozen but for old copies and what they did |
| `TaskNumbersBusy` | 3 requests, 2 binary digits, 2 attempts, fairness | numbering without gap or duplicate to the end of the digits; retries suffice; every request ends |
| `AccountsRaces` | 2 requests, 2 zones, 3 changes, 1 task, fairness | assignees fit; zones are replaced; supervisors stay in their agency; claims catch up |
| `SessionsRaces` | 3 rows, 2 requests, 1 password change | rotation and `Justified` under every interleaving |
| `SessionsEnd` | 2 rows, 2 requests, no change, fairness | a suspension takes effect for good |
| `LoginRaces` | 3 requests, limit 5, 1 token, 3 accounts | lock, tokens and first logins under overlapping requests |
| `SyncRuns` | 2 requests used again and again, 2 + 1 records of one business, 2 versions, fairness | rate limit, truthful log, no older data, no lasting block |
| `RegisterNights` | 1 license, 2 reviews, job cut off at most twice, fairness | safety and liveness of the register while records name the type of their license |
| `NoticesSent` | 2 licenses, one with an owner, 1 inspector, deadlines 4 and 2 days, quiet 1 | every notice in time, none twice, none false |
| `RegisterRng4Date` | 1 license, records of any type | *violated:* an RNG4 license has an expiry date |

### What the properties say

* `OneReportPerTask`: two start requests that both read ASSIGNED create one report,
  because the transaction's first statement locks the task row.
* `SubmittedHasResult`, `NeverStuck`: the task row and the report row, written by
  different requests, never disagree in a way that leaves a task nobody can move on.
* `LegalUnlessStale`, `EditsUnlessStale`, `OutcomeUnlessStale`: the state machine, the
  freeze of a report that is not a draft and the effect of an approval hold for every
  step of a request whose copies are up to date. These say that the guards are *complete*
  and that the only hole is that the writes do not repeat them. (An edit with an old copy
  also makes the report a draft again; from then on `EditsUnlessStale` lets anybody edit
  it, as the code does, although its task is under review or approved.)
* `DraftUntilSubmitted`, `NoticesBalance`, `ImplementsLifecycle`: the documented
  workflow, several rounds of return and resubmission included.
* `StoresAgree`: whatever requests overlap, a document is in both stores or in neither,
  but for requests on their way or dead half way. Deleting a document twice, or while its
  upload is still to be answered, does not take them apart.
* `AuditCounts`: the audit log has one row that names each document there was, and as many
  deletions as documents are gone, again but for requests on their way or dead. Of two
  overlapping deletions of one document only one is logged. *Which* document a deletion
  was about the log does not say.
* `FrozenUnlessStale`: while a task is under review or approved, neither store of its
  evidence changes, unless the request's copy of report or task is out of date, or a
  write since the submission was stored although its check would not have passed any
  more: that may have made the report a draft, and then requests with fresh copies pass.
* `Gapless`, `RetriesSuffice`, `Answered`: as in the table. `RetriesSuffice` says a
  collision error needs as many other tasks created during the request as it has
  attempts, or a year without numbers left.
* `FitUnlessStale`: the assignee of a new task is active, an inspector, of the agency
  and zone, unless he lost that after createTask read it.
* `ReplacedUnlessOverlapped`: zones are replaced as a set, unless two replacements
  overlapped.
* `JurisdictionUnlessStale`: a supervisor changes agency or zones only of an account of
  his own agency, unless somebody wrote that account after the request had found it.
* `ClaimsCatchUp`: account and zones are read at different moments and the claims live
  on in the token; once changes cease, what the guards see agrees with the rows.
* `ParentRevoked`: a session and the one it replaces are never both good, whichever
  statement the request dies after.
* `Justified`: a good session belongs to an active account and to its current password,
  and is the one successor of a token that was not presented again, unless it (or one it
  descends from) was opened by a request whose reads were out of date by then.
* `SuspensionTakesEffect`: a session that slipped through a suspension dies out: refresh
  reads the account again, so it cannot be renewed for ever.
* `LockedAtLimit`, `LockHolds`: failed logins in a row are counted and the fifth locks
  the account, and a lock lasts its time, unless a login had read the account before
  another wrote it.
* `SingleUse`: a token sets one password, and one more for each request that had read it
  before its first use.
* `OneAccount`, `NoStrays`: whoever logs in with an identity gets the linked account;
  another account made for it belongs to a request that is about to link it or failed.
* `OneRunPerWindow`, `OneBusinessPerName`: two runs in one window, or two businesses of
  one name, need two requests between the look-up and the creation; their number is
  exact.
* `LogTellsTruth`: SUCCESS means every license has the data of the run, FAILED that
  those before the bad record have, unless runs of the agency overlapped. `NeverOlder`:
  a license of ACFS goes back to older data only if runs overlapped. `BlockedForAWhile`:
  a run that is cut off and stays RUNNING for ever blocks nobody for ever.
* `MarksUnlessStale`, `Rng4HasNoDate`, `NonpaymentSuspends`, `ExpiryNoticed`,
  `AnnouncedUnlessCutOff`: the job's condition, repeated at the moment it marks; RNG4
  gets no date; an unpaid license is suspended again whatever others made of it; a
  license past its date does not stay ACTIVE; its supervisors are told unless the job
  was cut off.
* `OncePerDeadline`, `ToldInTime`, `DueUnlessStale`: nobody hears of one date more often
  than there are deadlines for him; after each deadline everybody concerned has a notice
  of late, never an old one in place of it; a notice is due when it is sent.

The type invariants are not among the properties of the runs: each is proved, for every
value of the constants (section 4).

### Where documents and code disagree

`RegisterRng4Date` quotes `README.md:60` and shows a step of the code against it;
`PROJECT.json` has the lines. What follows are disagreements that need no run of their
own, because a property delimits them: each is exactly what its property excepts.

| The document says | The code, when requests overlap or die | Delimited by |
|---|---|---|
| the task state machine (guide, lines 43-49) | a task leaves it by a request with an old copy | `LegalUnlessStale` |
| edits of a draft or returned report only (line 640), deletions too (642) | an edit or file stored after the submission; a late edit makes the report a draft, so that it and its files can be changed under review and after approval | `EditsUnlessStale`, `FrozenUnlessStale` |
| an approval decides the license by the result (644) | by the result read before the transaction | `OutcomeUnlessStale` |
| `T-YYYY-NNNN` (637) | after 9999 one number of five digits, and then collisions only | `RetriesSuffice` |
| a new assignee holds role, zone and agency (637) | he may have lost them since they were read | `FitUnlessStale` |
| suspension revokes all sessions (662) | a login in flight opens one more | `Justified`, `SuspensionTakesEffect` |
| a new password revokes the others (614), a replay all sessions (`README.md:54-55`) | a request in flight opens one more | `Justified` |
| a reset token is single-use (616) | requests that overlap use it twice | `SingleUse` |
| a supervisor moves accounts of his own agency only (660; the code asks the same for zones) | the account may have moved since it was found | `JurisdictionUnlessStale` |
| replace the set of zones (661) | zones of an overlapping replacement stay | `ReplacedUnlessOverlapped` |
| one run in five minutes (669) | two triggers that overlap both run | `OneRunPerWindow` |
| validate, then upsert (670) | rows before a bad one are stored | `LogTellsTruth` |
| mark and notify (687) | marked and not announced if the job is cut off; marked though renewed meanwhile | `AnnouncedUnlessCutOff`, `MarksUnlessStale` |

One more is in the statements themselves: an audit row has the entity's id "from response"
(599), but the answer to a deletion of evidence has none, so its row has the report's id,
and `entityType` is the first segment of the path, which is the global prefix `api`
(`main.ts:10`) on every row. `AuditCounts` claims no more than such rows can tell.

A DIW row may set an RNG4 license to EXPIRED outright, which the guide rules out (line
15): nothing in the import looks at the pair. A property would fail at the first row.

### Bounds, and why they are enough

* *Requests.* Each property relates a decision to one write that invalidates it, so two
  requests in flight show every hazard; a request that has ended gives its record to a
  new one, so any number of requests run one after another. Numbering takes three, so
  that one waits for the index while another commits; logins take three, so that a
  counter loses one update while another is counted. In `Evidence` a request that has
  stored a document is answered and its record taken by a deletion, which then races
  another; the requests of the workflow are not counted, `TaskRows` has any number.
* *`MaxRounds`* limits submissions, the only thing that counts upwards in `Inspection`;
  two cover a return and a second submission, three let both tasks have one of their
  own.
* *`Limit`, `Radix`* of `TaskNumbers`. The order of the strings depends only on numbers
  within the width and one beyond; with two binary digits the width is reached within a
  few tasks. The proofs cover every width.
* *`MaxAttempts`* = 2 makes giving up reachable with three requests.
* *`Limit`, `MaxFailed`* of `Credentials`: 5 as in the code, and one failure beyond it
  (after a lock is over the counter goes on). Only the comparison with the limit
  matters.
* *Accounts for an identity* = 3, one for each request that may create one.
* *Session ids* = 3: a session, its successor and a competitor. `MaxChanges` = 1: one
  password before and one after.
* *`MaxChanges`* = 3 in `Accounts`: a zone replacement that overlaps another, and a
  change of the agency or role. `MaxTasks` = 1: tasks do not depend on one another.
* *Documents* = 2: no action relates two, so a second one only lets two operations be
  about different ones. Keys and ids are random, so none is used twice.
* *`MaxVersion`* = 2: older and newer data. Two records of one agency have a record
  before a failure and one after it; one of the other agency shares the business.
* *One license in `RegisterNights`*: its writers race on one row, and no action relates
  two rows but the job's list, whose other rows only delay the marks.
* *`MaxDeaths`* limits crashes of the job; without it the job could die every night, and
  nothing would ever be marked.
* *`Early` = 4, `Late` = 2, `Quiet` = 1, `MaxDays` = 5* keep the order that 90, 30 and 7
  days have: the deadlines are further apart than the quiet days, and a date can move
  from beyond the first deadline to either. The proofs cover every such choice.

`SYMMETRY` is used in runs without liveness only, over sets whose members are
interchangeable in the instance: requests, report, session and document ids, accounts,
and tasks when all of them are about one license.

`CHECK_DEADLOCK FALSE` is set for `Inspection`, where all tasks may be cancelled or
approved and the bound on submissions reached, and for `Sessions`, where a suspended
account without rows can do nothing more.

### Fairness

* `TaskNumbers`: `WF(Work \/ Abort)` per request. The database answers a statement, or
  Prisma's transaction timeout ends the transaction. No fairness says *which*.
* `Sessions`: `WF(Proceed)` per request (a request in flight is answered or dies) and
  `WF(Expire)` per row (time passes). No one is obliged to log in or refresh.
* `Accounts`: `WF(Sign \/ Abort)` per request (a login in flight is answered or dies)
  and `WF(ExpireToken)` (time passes).
* `SyncRuns`: `WF(Age)` per row: time passes. No run is obliged to end.
* `LicenseRegister`: `WF(JobStep)` and `WF(FeeCheck)`: cron runs the jobs every night.
  Synchronisation, reviews and crashes are not fair.
* `Inspection`, `Evidence`, `Credentials`, `ExpiryNotices`: none; they state safety
  only, and no inspector or supervisor is obliged to act.

## 4. Proofs

All theorems hold for every value of the constants that satisfies the named assumptions
of the modules: `None` is none of the ids, `LicenseOf` maps tasks to licenses or `None`,
records name known licenses and those known names, bounds are naturals, `MaxAttempts`
and the limit of failed logins are positive, the deadlines are further apart than the
quiet days (`DaysAssumption`), and `WidthAssumption`: one number more than the width,
cut by its last digit, is less than the greatest number of the width (as for 9999 and
10). Each proof is by an inductive invariant; what it adds to the property is what a
request in the middle of its statements may rely on.

**Inspection_proofs.** `TypeCorrect`, `UniqueReport`, `ResultsKept`, `RowsAgree`,
`Legal`, `Edits`, `Outcome`, by layers of one inductive invariant, each using the ones
before:

1. `Typed`: types, and what a request refers to at each stage (`Refers`); the report it
   has read still belongs to the task it has read.
2. `RowLock`: `holder[t] = r` exactly while `r` is in its transaction on `t`, and what
   `findFirst` found stays true until the commit, for only startTask creates reports and
   nobody else is in a transaction on `t`. `OneReportPerTask` alone is not inductive:
   without this, a commit could add a second report.
3. `Content`: a task under way has a report; a report without a result is a draft; a
   result a request has read or checked is still there (`Recorded`).
   `SubmittedHasResult` and `ReturnedIsDraft` (a report to be edited again is a draft)
   need the last part, because the check happened in an earlier step; `NeverStuck`
   follows.
4. `UpToDate`: what every request `Believes`. Its copy of a row that is still in `fresh`
   is the row, and the checks it made on such copies would be passed again. This is
   inductive because every write takes the rows it touches out of the `fresh` of all
   other requests. `LegalUnlessStale`, `EditsUnlessStale` and `OutcomeUnlessStale` are
   then facts of the step that commits: a request that ends fresh passes its own guard
   at that moment, so it takes a documented arrow.

`Drafts`, `Notices` and `Refines` say what makes overlapping requests harmless. They hold
for `Spec /\ [][NoStaleWrite]_vars`: any number of requests, interleaved statement by
statement, of which none writes when a row its write `Relies` on was written after it had
read it. `Relies` is small: an edit depends on its report, every other write on the task,
and an approval of a task with a license on the report and the license as well. So this
is also what the handlers lack: writes that repeat the check on these rows (`updateMany`
with the status in its `where`, or a version) would make every interleaving implement
the workflow; a submission or a return may have read an old report without harm.

The argument: the request that writes believes the rows it relies on, so it passes its own guard
at that moment (`Before`); with `NoneYet`, a task has no report before it is started, and
`Drafted`, an edit whose report is unchanged has read a draft (had it read a report that
was handed in, only its return could have let it pass, and that wrote the report),
`DraftUntilSubmitted` and `NoticesBalance` are inductive (`InOrder`). A submission needs no
fresh report, because a result that was read stays (`Recorded`).
`ImplementsLifecycle` follows step by step: the verdict of a task is the result of its
only report (`VerdictFound`, by `OneReportPerTask`), `StartCommit` is `Start`, `Update` is
`Record`, the other writes are the operations of their name, and reads, the first
statements of a transaction and `Abort` are stutters (`RefinesStep`).

`RefinesRows` needs no condition: each task and its report behave as `TaskRows`, whatever
overlaps. It rests on the first three layers and `Waited` (a review is under way only if
the task was submitted): one report per task makes its row the report of `TaskRows`
(`OneRow`), `Recorded` gives a submission its result. So what is proved of `Evidence`
beside `TaskRows` holds beside `Inspection`.

`ApartIsFresh` gives a condition on the requests alone: under `[]Apart`, no two requests
in flight are about one task and no two approvals about one license, nobody writes on the
strength of a changed row, because a write touches only the task, the report and the
license of its request (`WrittenRows`), so that all a request has read stays fresh
(`Undisturbed`). `ApartRefines` puts the two together; the run `InspectionSerial`, with one
request, satisfies `Apart` trivially.

**TaskNumbers_proofs.** `Numbering`, `FairShare`, `NumbersTyped`. The invariant counts
the tasks (`Counted`), says how the number a request has drawn relates to the tasks
there were when it began and its attempts (`Progress`), and that a row inserted but not
committed has the next number and is the only one (`Exclusive`). `NextNumber` is the
lemma about the string order: the next number is one more than the count, until the year
is exhausted.

The same module holds the theorems about the other half of createTask, the inspector it
asks for: `AccountsTyped`, `Fit` (`FitUnlessStale`) and `Replaced`
(`ReplacedUnlessOverlapped`), stated of `A`, an instance of `Accounts` with variables of
its own. `Knows`: while nobody has written what a request has read, the assignee passes
its checks, the account a supervisor's request has found is of his agency, and the
snapshot of a deletion is all the rows. Every write takes what it writes out of the `fresh`
of the others (`AfterWrite`), so this is inductive. `OwnAgencyOnly` is
`JurisdictionUnlessStale`: updateAgency and updateZones, asked by a supervisor, write only
an account of his agency, unless somebody wrote the account after it was found.

**Sessions_proofs.** `SessionsTyped` and `OneAtATime` from `IInv`: the session a request
has rotated is revoked and stays so until it is done. `SessionsJustified` from `JInv`: a
session or request with a password relies on reads that are still true (`Sound`,
`Vouched`), and of two requests that rotated the same session at most one is not out of
date (`OneRotation`), so no two sessions in good standing succeed one token.

**Credentials_proofs.** `TokensOnce`, `SameAccount`, `FewStrays`, and the action
properties `LockCounts` and `LockStays`. `Believes`: the copy a fresh login has of the
account is the account, which was not locked; a fresh reset's token is unused; an
account a request answers for is the linked one. `Counted`: a streak counted in full is
what the row says. `Spent`: a good token has set no password yet.

**Evidence_proofs.** `StoresConsistent` from `IInv`: `Holds` says that the document of an
unfinished upload is known to no other request and has no audit row, and that the object
a deletion has removed does not come back. `AuditConsistent` adds `Counted`: the documents
that were made and are not in the table are as many as the deletions logged, lost or
about to be. A deletion that finds its row gone fails and is not counted, which is what
makes this inductive; that the set is finite is part of it. `EvidenceFrozen` from a
second layer, `BInv`: a draft under review or approved means that a write went astray
(`Closed`), and a request past its checks with fresh copies has an open report
(`Believes`).

**SyncRuns_proofs.** `RateLimited` and `NamesOnce`. `Knows`: a trigger that passed the
check and was not overtaken would pass it again, and a name looked up in vain and not
created by another is still missing. `Forward` and `Truth` by a second layer, `Ages`:
no row and no run is newer than the source, two runs of one agency that store records
both know that they are not alone, and a run that is alone has brought every record
before its next one to its own version and, in ACFS, has met no newer one (`Brought`).
Both assume `OwnNumbers`, that no license number is in the records of both agencies:
`upsert` finds a license by its number whatever the agency (`sync.service.ts:65`), so
where the numbers met, a run alone in its agency could still be overwritten by the
other's.

**LicenseRegister_proofs.** `MarksJustified`: a listed license nobody has written since
is still ACTIVE and past its date (`ListingHolds`). `Rng4Undated` assumes `~OtherTypes`,
every record names the type of its license; without it `RegisterRng4Date` is the
counterexample.

**ExpiryNotices_proofs.** `OnceEach`, `NoticesDue` and `TellsInTime`. `Counted` relates
the notices of a date to the days left and to how far the job is today (`PastEarly`, `PastLate`): none
before the first deadline, at most one before the second. `Listed` and `OnDuty` say what
still holds of those the job has listed. `AllTold`, on top of these: whoever awaits a
notice at the deadline in hand is still to come, or has one from the quiet days.

**Only model-checked:** liveness (`Answered`, `SuspensionTakesEffect`, `ClaimsCatchUp`,
`BlockedForAWhile`, and `NonpaymentSuspends`, `ExpiryNoticed` and
`AnnouncedUnlessCutOff` of the register), which the prover does not reach: it has neither
`ENABLED` nor rules for leads-to. Every other property of a run is a theorem.

## 5. Not modelled

* Reads and formatting: export, dashboard, lists, my, business and license queries
  change nothing.
* Creating and renaming zones, marking notifications as read: single statements that no
  other component depends on.
* External providers are mocks; the models take any record or identity.
* Whether a password, code, signature or temporary token is right: functions of their
  inputs. The requests of the models have both outcomes, or the right one where only
  that one writes.
* Limits by address (throttler), the key files, the bucket made at start-up, URL
  signing, the seed (its licenses are the initial states of `LicenseRegister`), error
  formatting.
* Five hazards have no property, for the reasons noted with them in `PROJECT.json`. An
  approval and the fee job overwrite each other's mark of a suspension
  (`inspection.service.ts:391`), and a DIW row may set a status its type does not have
  (`sync.service.ts:84`): the code does both by design of its statements, and no other
  row says what should have been. A client that lost the answer to a refresh loses its
  sessions at the next (`auth.service.ts:291`): that is what a replay is to do. A license
  marked by a job that dies before it notifies is never announced (`license.cron.ts:87`),
  and the notices of a missed night are never sent (`license.cron.ts:21`): nothing in the
  code makes up for either, `AnnouncedUnlessCutOff` and `ToldInTime` say what holds on
  the nights the job is not cut off.

## 6. Plan

What is left:

1. A composition of `SyncRuns` and `LicenseRegister`, the former storing records in
   place of the free `Upsert`.
2. The liveness properties beyond the instances TLC checks.

To repeat the checks: `tlc -config <run>.cfg <MC module>` for a run of `PROJECT.json`,
`tlapm <module>_proofs.tla` for the proofs.

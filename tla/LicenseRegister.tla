--------------------------- MODULE LicenseRegister ---------------------------
(***************************************************************************)
(* The license rows and everything that writes them: the nightly jobs of   *)
(* license.cron.ts, the upsert of sync.service.ts for a record of the ACFS *)
(* interface or a row of a DIW file, and an approved inspection.           *)
(*                                                                         *)
(* The expiry job lists licenses first and then marks and announces them   *)
(* one by one; a review reads the status and writes later.                 *)
(***************************************************************************)
EXTENDS Naturals

CONSTANTS
    Licenses,     \* license numbers
    Reviews,      \* approvals in flight at one time
    OtherTypes,   \* whether a record may name another type than its license has
    MaxDeaths,    \* bound: how often the process ends in the middle of the job
    None          \* no license

ASSUME NoneIsNull == None \notin Licenses
ASSUME BoundsType == OtherTypes \in BOOLEAN /\ MaxDeaths \in Nat

VARIABLES
    license,  \* licenses rows
    job,      \* licenseExpiryCheck
    told,     \* licenses whose last expiry the supervisors were told of
    review,   \* approvals that have read their license
    deaths    \* how often the job was cut off

vars == <<license, job, told, review, deaths>>

Types == {"RNG4", "HAZMAT"}
Status == {"ACTIVE", "SUSPENDED", "EXPIRED", "REVOKED", "PENDING"}
Dates == {"none", "past", "future"}   \* expireDate is null, over, or to come

\* reason: null, MOCK_OVERDUE, "Failed inspection ...".  A row without a type
\* does not exist.
Row == [type: Types \cup {"none"}, status: Status, reason: {"none", "overdue", "failed"},
        expires: Dates]

Absent == [type |-> "none", status |-> "ACTIVE", reason |-> "none", expires |-> "none"]

\* "fresh" is history: the listed licenses nobody wrote since.
Job == [todo: SUBSET Licenses, current: Licenses \cup {None}, fresh: SUBSET Licenses]

Resting == [todo |-> {}, current |-> None, fresh |-> {}]

Review == [license: Licenses \cup {None}, failed: BOOLEAN, status: Status]

NoReview == [license |-> None, failed |-> FALSE, status |-> "ACTIVE"]

TypeOK ==
    /\ license \in [Licenses -> Row]
    /\ job \in Job
    /\ told \subseteq Licenses
    /\ review \in [Reviews -> Review]
    /\ deaths \in 0 .. MaxDeaths

Exists(l) == license[l].type # "none"

\* What the seed leaves behind.
Seeded == {Absent,
           [type |-> "HAZMAT", status |-> "ACTIVE", reason |-> "none", expires |-> "future"],
           [type |-> "HAZMAT", status |-> "ACTIVE", reason |-> "none", expires |-> "past"],
           [type |-> "RNG4", status |-> "ACTIVE", reason |-> "none", expires |-> "none"],
           [type |-> "RNG4", status |-> "SUSPENDED", reason |-> "overdue", expires |-> "none"]}

Init ==
    /\ license \in [Licenses -> Seeded]
    /\ job = Resting
    /\ told = {}
    /\ review = [r \in Reviews |-> NoReview]
    /\ deaths = 0

\* License l is written by somebody other than the job.
Write(l, row) ==
    /\ license' = [license EXCEPT ![l] = row]
    /\ job' = [job EXCEPT !.fresh = @ \ {l}]
-----------------------------------------------------------------------------
(* sync.service.ts *)

\* Faulty variant: an RNG4 record gets a date like any other.
UpsertDated(l, type, status, date) ==
    /\ date \in Dates \ {"none"}
    /\ Exists(l) /\ ~OtherTypes => type = license[l].type
    /\ Write(l, [license[l] EXCEPT !.type = IF Exists(l) THEN @ ELSE type,
                                   !.status = status, !.expires = date])
    /\ UNCHANGED <<told, review, deaths>>

\* The type of the record decides the date; a row that exists keeps its own type,
\* and the columns of a suspension.
Upsert(l, type, status, date) ==
    /\ date \in Dates \ {"none"}
    /\ Exists(l) /\ ~OtherTypes => type = license[l].type
    /\ Write(l, [license[l] EXCEPT !.type = IF Exists(l) THEN @ ELSE type,
                                   !.status = status,
                                   !.expires = IF type = "RNG4" THEN "none" ELSE date])
    /\ UNCHANGED <<told, review, deaths>>
-----------------------------------------------------------------------------
(* license.cron.ts *)

\* The expireDate of l is over.
DayPasses(l) ==
    /\ license[l].expires = "future"
    /\ license' = [license EXCEPT ![l].expires = "past"]
    /\ UNCHANGED <<job, told, review, deaths>>

\* Faulty variant: the status is not asked.
ListAnyExpired ==
    LET expired == {l \in Licenses : license[l].expires = "past"}
    IN  /\ job = Resting
        /\ expired # {}
        /\ job' = [job EXCEPT !.todo = expired, !.fresh = expired]
        /\ UNCHANGED <<license, told, review, deaths>>

\* Faulty variant: the licenses that are SUSPENDED.
ListSuspended ==
    LET expired == {l \in Licenses : license[l].status = "SUSPENDED"
                                     /\ license[l].expires = "past"}
    IN  /\ job = Resting
        /\ expired # {}
        /\ job' = [job EXCEPT !.todo = expired, !.fresh = expired]
        /\ UNCHANGED <<license, told, review, deaths>>

ListExpired ==
    LET expired == {l \in Licenses : license[l].status = "ACTIVE"
                                     /\ license[l].expires = "past"}
    IN  /\ job = Resting
        /\ expired # {}
        /\ job' = [job EXCEPT !.todo = expired, !.fresh = expired]
        /\ UNCHANGED <<license, told, review, deaths>>

MarkExpired(l) ==
    /\ l \in job.todo
    /\ job.current = None
    /\ license' = [license EXCEPT ![l].status = "EXPIRED"]
    /\ told' = told \ {l}
    /\ job' = [job EXCEPT !.todo = @ \ {l}, !.current = l, !.fresh = @ \ {l}]
    /\ UNCHANGED <<review, deaths>>

\* Faulty variant: the supervisors of the wrong agency are asked for.
AnnounceNobody ==
    /\ job.current # None
    /\ job' = [job EXCEPT !.current = None]
    /\ UNCHANGED <<license, told, review, deaths>>

\* The supervisors are told of the license just marked.
Announce ==
    /\ job.current # None
    /\ told' = told \cup {job.current}
    /\ job' = [job EXCEPT !.current = None]
    /\ UNCHANGED <<license, review, deaths>>

\* The process ends or the database fails; the next night starts over.
JobDies ==
    /\ job # Resting
    /\ deaths < MaxDeaths
    /\ deaths' = deaths + 1
    /\ job' = Resting
    /\ UNCHANGED <<license, told, review>>

Overdue == {l \in Licenses : license[l].type = "RNG4" /\ license[l].reason = "overdue"}

\* Faulty variant: only licenses that are ACTIVE are suspended.
FeeCheckActive ==
    LET due == {l \in Overdue : license[l].status = "ACTIVE"}
    IN  /\ due # {}
        /\ license' = [l \in Licenses |-> IF l \in due
                                          THEN [license[l] EXCEPT !.status = "SUSPENDED"]
                                          ELSE license[l]]
        /\ job' = [job EXCEPT !.fresh = @ \ due]
        /\ UNCHANGED <<told, review, deaths>>

\* rng4FeeCheck, in one statement and whatever the status; RNG4 is the type that
\* is suspended on nonpayment.
FeeCheck ==
    /\ license' = [l \in Licenses |-> IF l \in Overdue
                                      THEN [license[l] EXCEPT !.status = "SUSPENDED"]
                                      ELSE license[l]]
    /\ job' = [job EXCEPT !.fresh = @ \ Overdue]
    /\ UNCHANGED <<told, review, deaths>>
-----------------------------------------------------------------------------
(* approveReport *)

ReadForReview(r, l, failed) ==
    /\ review[r] = NoReview
    /\ Exists(l)
    /\ review' = [review EXCEPT ![r] = [license |-> l, failed |-> failed,
                                        status |-> license[l].status]]
    /\ UNCHANGED <<license, job, told, deaths>>

Approve(r) ==
    LET q == review[r]
        row == license[q.license]
    IN  /\ q.license # None
        /\ IF q.failed
           THEN Write(q.license, [row EXCEPT !.status = "SUSPENDED", !.reason = "failed"])
           ELSE IF q.status = "SUSPENDED"
           THEN Write(q.license, [row EXCEPT !.status = "ACTIVE", !.reason = "none"])
           ELSE UNCHANGED <<license, job>>
        /\ review' = [review EXCEPT ![r] = NoReview]
        /\ UNCHANGED <<told, deaths>>

JobStep == ListExpired \/ (\E l \in Licenses : MarkExpired(l)) \/ Announce

Next ==
    \/ \E l \in Licenses, type \in Types, status \in Status, date \in Dates :
          Upsert(l, type, status, date)
    \/ \E l \in Licenses : DayPasses(l)
    \/ JobStep
    \/ JobDies
    \/ FeeCheck
    \/ \E r \in Reviews, l \in Licenses, failed \in BOOLEAN : ReadForReview(r, l, failed)
    \/ \E r \in Reviews : Approve(r)

Spec == Init /\ [][Next]_vars

\* The jobs run every night.
FairSpec == Spec /\ WF_vars(JobStep) /\ WF_vars(FeeCheck)
-----------------------------------------------------------------------------
\* This step marks l.
Marks(l) == l \in job.todo /\ job'.current = l /\ job.current = None

\* The job marks only an ACTIVE license whose date is over, unless somebody wrote
\* the license after the job listed it.
MarksUnlessStale ==
    [][\A l \in Licenses : Marks(l) /\ l \in job.fresh =>
          license[l].status = "ACTIVE" /\ license[l].expires = "past"]_vars

\* A license whose fee is overdue is suspended by the next night, whatever the
\* synchronisation, the expiry job or a review made of it, unless an inspection
\* has replaced the mark of the unpaid fee.
NonpaymentSuspends ==
    \A l \in Licenses :
        l \in Overdue ~> license[l].status = "SUSPENDED" \/ l \notin Overdue

\* No license stays ACTIVE past its date, even if the job is cut off.
ExpiryNoticed ==
    \A l \in Licenses :
        license[l].status = "ACTIVE" /\ license[l].expires = "past" ~>
            ~(license[l].status = "ACTIVE" /\ license[l].expires = "past")

\* While every record names the type its license has, no synchronisation, job or
\* review gives an RNG4 license a date.
Rng4HasNoDate == \A l \in Licenses : license[l].type = "RNG4" => license[l].expires = "none"

\* While the job is not cut off, the supervisors are told of every license it marks.
AnnouncedUnlessCutOff ==
    \A l \in Licenses : job.current = l ~> l \in told \/ deaths > 0
=============================================================================

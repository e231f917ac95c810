------------------------------- MODULE SyncRuns -------------------------------
(***************************************************************************)
(* The runs of sync.service.ts: trigger fetches the records of ACFS, and   *)
(* importDiw takes a file of DIW; both write a row of sync_logs and store  *)
(* their records one by one, so runs overlap and end in the middle.        *)
(*                                                                         *)
(* What a record makes of the license row is in LicenseRegister; here a    *)
(* row is the age of the data it was last written with.                    *)
(***************************************************************************)
EXTENDS Naturals, Sequences

CONSTANTS
    Requests,    \* the last trigger and import requests
    Licenses,    \* license numbers
    Names,       \* names of businesses
    NameOf,      \* the name the record of a license gives
    Records,     \* the licenses of each agency, in the order of its records
    MaxVersion   \* bound: how often the agencies change their data

Agencies == {"ACFS", "DIW"}

ASSUME NameOfType == NameOf \in [Licenses -> Names]
ASSUME RecordsType == Records \in [Agencies -> Seq(Licenses)]
ASSUME MaxVersionType == MaxVersion \in Nat \ {0}

VARIABLES
    run,         \* what each request has read, and how far it is
    log,         \* status of the sync_logs row of each request
    recent,      \* requests whose row was started less than five minutes ago
    businesses,  \* how many rows of businesses have each name
    license,     \* version of the data each licenses row was written with; 0: no row
    source,      \* version of the data the agencies have now
    slipped      \* history: rows created by a request after what it had looked
                 \* for was created by another

vars == <<run, log, recent, businesses, license, source, slipped>>

LogStatus == {"none", "RUNNING", "SUCCESS", "FAILED"}

Stages == {"idle",
           "cleared",  \* every check passed, no row in sync_logs yet
           "begun",    \* the row is there, the records are not fetched
           "storing",  \* about to look up the business of the next record
           "missing",  \* no business of that name was found
           "found",    \* the business is there
           "over",     \* answered
           "cut"}      \* died

\* "fresh" and "alone" are history: nobody has created what the request looked for
\* since it looked; no other run of the agency stored records while this one did.
Run == [agency: Agencies, stage: Stages, version: 0 .. MaxVersion, next: Nat \ {0},
        fresh: BOOLEAN, alone: BOOLEAN]

Idle == [agency |-> "ACFS", stage |-> "idle", version |-> 0, next |-> 1,
         fresh |-> TRUE, alone |-> TRUE]

TypeOK ==
    /\ run \in [Requests -> Run]
    /\ \A r \in Requests : run[r].next <= Len(Records[run[r].agency]) + 1
    /\ log \in [Requests -> LogStatus]
    /\ recent \subseteq Requests
    /\ businesses \in [Names -> Nat]
    /\ license \in [Licenses -> 0 .. MaxVersion]
    /\ source \in 1 .. MaxVersion
    /\ slipped \in [runs: SUBSET Requests, businesses: [Names -> Nat]]

\* An empty register, or one that has businesses already.
Init ==
    /\ run = [r \in Requests |-> Idle]
    /\ log = [r \in Requests |-> "none"]
    /\ recent = {}
    /\ businesses \in [Names -> 0 .. 1]
    /\ license = [l \in Licenses |-> 0]
    /\ source = 1
    /\ slipped = [runs |-> {}, businesses |-> [n \in Names |-> 0]]

Rows(r) == Records[run[r].agency]
More(r) == run[r].next <= Len(Rows(r))
Current(r) == Rows(r)[run[r].next]
Name(r) == NameOf[Current(r)]

Storing(r) == run[r].stage \in {"storing", "missing", "found"}
Rivals(r) == {q \in Requests \ {r} : Storing(q) /\ run[q].agency = run[r].agency}

\* Nothing that request r has read matters any more.
Leave(r, stage) ==
    run' = [run EXCEPT ![r] = [Idle EXCEPT !.stage = stage, !.agency = run[r].agency]]
-----------------------------------------------------------------------------
(* A run begins.  The record of a request that has ended is used again once its *)
(* row in sync_logs is too old to matter.                                       *)

Free(r) == run[r].stage \in {"idle", "over", "cut"} /\ r \notin recent

Receive(r, q) ==
    /\ Free(r)
    /\ run' = [run EXCEPT ![r] = q]
    /\ log' = [log EXCEPT ![r] = "none"]
    /\ slipped' = [slipped EXCEPT !.runs = @ \ {r}]
    /\ UNCHANGED <<recent, businesses, license, source>>

\* Faulty variant: a run that is RUNNING blocks the next one, however old it is.
NoneRunning == \A r \in Requests : run[r].agency = "ACFS" => log[r] # "RUNNING"

\* trigger asks for a row of the agency that was started in the last five minutes.
NoneRecent == \A r \in recent : run[r].agency # "ACFS"

\* Faulty variant: only a run that is still RUNNING counts.
TriggerUnlessRunning(r) == NoneRunning /\ Receive(r, [Idle EXCEPT !.stage = "cleared"])

Trigger(r) == NoneRecent /\ Receive(r, [Idle EXCEPT !.stage = "cleared"])

\* importDiw has no limit, and the file may be of any age.
Import(r) ==
    \E v \in 1 .. source :
        Receive(r, [Idle EXCEPT !.agency = "DIW", !.stage = "cleared", !.version = v])

\* Request r starts to store records of version v.
Opened(r, v) ==
    [q \in Requests |->
       IF q = r THEN [run[r] EXCEPT !.stage = "storing", !.version = v, !.alone = Rivals(r) = {}]
       ELSE IF q \in Rivals(r) THEN [run[q] EXCEPT !.alone = FALSE]
       ELSE run[q]]

\* The row is created RUNNING; a file is there already, records are not.
Begin(r) ==
    LET trigger == run[r].agency = "ACFS"
        late(q) == trigger /\ run[q].stage = "cleared" /\ run[q].agency = "ACFS"
    IN  /\ run[r].stage = "cleared"
        /\ log' = [log EXCEPT ![r] = "RUNNING"]
        /\ recent' = recent \cup {r}
        /\ run' = IF trigger
                  THEN [q \in Requests |->
                          IF q = r THEN [run[r] EXCEPT !.stage = "begun", !.fresh = TRUE]
                          ELSE [run[q] EXCEPT !.fresh = @ /\ ~late(q)]]
                  ELSE Opened(r, run[r].version)
        /\ slipped' = [slipped EXCEPT !.runs = IF run[r].fresh THEN @ ELSE @ \cup {r}]
        /\ UNCHANGED <<businesses, license, source>>

\* Faulty variant: the answer may be one that was kept from an earlier run.
FetchKept(r) ==
    /\ run[r].stage = "begun"
    /\ \E v \in 1 .. source : run' = Opened(r, v)
    /\ UNCHANGED <<log, recent, businesses, license, source, slipped>>

Fetch(r) ==
    /\ run[r].stage = "begun"
    /\ run' = Opened(r, source)
    /\ UNCHANGED <<log, recent, businesses, license, source, slipped>>
-----------------------------------------------------------------------------
(* upsert, once per record. *)

\* Faulty variant: the name is compared with another column, and never found.
LookUpNobody(r) ==
    /\ run[r].stage = "storing"
    /\ More(r)
    /\ run' = [run EXCEPT ![r].stage = "missing"]
    /\ UNCHANGED <<log, recent, businesses, license, source, slipped>>

LookUp(r) ==
    /\ run[r].stage = "storing"
    /\ More(r)
    /\ run' = [run EXCEPT ![r].stage = IF businesses[Name(r)] = 0 THEN "missing" ELSE "found"]
    /\ UNCHANGED <<log, recent, businesses, license, source, slipped>>

CreateBusiness(r) ==
    LET n == Name(r)
        late(q) == run[q].stage = "missing" /\ Name(q) = n
    IN  /\ run[r].stage = "missing"
        /\ businesses' = [businesses EXCEPT ![n] = @ + 1]
        /\ run' = [q \in Requests |->
                     IF q = r THEN [run[r] EXCEPT !.stage = "found", !.fresh = TRUE]
                     ELSE [run[q] EXCEPT !.fresh = @ /\ ~late(q)]]
        /\ slipped' = [slipped EXCEPT !.businesses[n] = IF run[r].fresh THEN @ ELSE @ + 1]
        /\ UNCHANGED <<log, recent, license, source>>

\* license.upsert, in one statement.
Store(r) ==
    /\ run[r].stage = "found"
    /\ license' = [license EXCEPT ![Current(r)] = run[r].version]
    /\ run' = [run EXCEPT ![r].stage = "storing", ![r].next = @ + 1]
    /\ UNCHANGED <<log, recent, businesses, source, slipped>>
-----------------------------------------------------------------------------
(* A run ends. *)

End(r, status) ==
    /\ log' = [log EXCEPT ![r] = status]
    /\ Leave(r, "over")
    /\ UNCHANGED <<recent, businesses, license, source, slipped>>

Succeed(r) ==
    /\ run[r].stage = "storing"
    /\ ~More(r)
    /\ End(r, "SUCCESS")

\* Faulty variant: a record that fails is passed over.
PassOver(r) ==
    /\ Storing(r)
    /\ More(r)
    /\ run' = [run EXCEPT ![r].stage = "storing", ![r].next = @ + 1]
    /\ UNCHANGED <<log, recent, businesses, license, source, slipped>>

\* ACFS does not answer, a row is bad, master data is missing, a statement fails:
\* the records stored so far stay.
Fail(r) ==
    /\ run[r].stage = "begun" \/ (Storing(r) /\ More(r))
    /\ End(r, "FAILED")

\* The process ends, or the last update of the log fails: nobody awaits it inside
\* the try, so it is not caught.  The row stays as it is.
CutOff(r) ==
    /\ run[r].stage \notin {"idle", "over", "cut"}
    /\ Leave(r, "cut")
    /\ UNCHANGED <<log, recent, businesses, license, source, slipped>>

\* Five minutes pass; a run may take longer.
Age(r) ==
    /\ r \in recent
    /\ recent' = recent \ {r}
    /\ UNCHANGED <<run, log, businesses, license, source, slipped>>

\* The agencies change their data.
Publish ==
    /\ source < MaxVersion
    /\ source' = source + 1
    /\ UNCHANGED <<run, log, recent, businesses, license, slipped>>

Proceed(r) ==
    \/ Begin(r)
    \/ Fetch(r)
    \/ LookUp(r)
    \/ CreateBusiness(r)
    \/ Store(r)
    \/ Succeed(r)
    \/ Fail(r)
    \/ CutOff(r)

Next ==
    \/ \E r \in Requests : Trigger(r) \/ Import(r) \/ Proceed(r) \/ Age(r)
    \/ Publish

Spec == Init /\ [][Next]_vars

\* Time passes.
FairSpec == Spec /\ \A r \in Requests : WF_vars(Age(r))
-----------------------------------------------------------------------------
\* IMPLEMENTATION_GUIDE_1.md:669, "Rate-limit 1/5min/agency": two triggered runs start
\* within five minutes only if one had passed the check before the other began.
OneRunPerWindow ==
    \A q, r \in recent \ slipped.runs :
        run[q].agency = "ACFS" /\ run[r].agency = "ACFS" => q = r

\* Businesses of one name are as many as imports created while another was creating
\* it, and one: looking up by a name that is not unique is right otherwise.
OneBusinessPerName == \A n \in Names : businesses[n] <= 1 + slipped.businesses[n]

\* This step ends run r.
Ends(r) == log[r] = "RUNNING" /\ log'[r] # "RUNNING"

\* The log tells the truth: a run that ends as SUCCESS has brought every license of
\* its agency to the data it worked on, one that ends as FAILED those before the bad
\* record, unless another run of the agency stored records at the same time.
LogTellsTruth ==
    [][\A r \in Requests : Ends(r) /\ run[r].alone /\ run[r].stage # "begun" =>
          \A i \in 1 .. Len(Rows(r)) :
              log'[r] = "SUCCESS" \/ i < run[r].next => license[Rows(r)[i]] = run[r].version]_vars

\* A license of ACFS never goes back to older data, unless runs overlapped.  (A file
\* of DIW may be older than the one before.)
NeverOlder ==
    [][\A l \in Licenses : license'[l] < license[l] =>
          \E r \in Requests :
              /\ run[r].stage = "found" /\ Current(r) = l /\ run'[r].next # run[r].next
              /\ run[r].agency = "DIW" \/ ~run[r].alone]_vars

\* However its runs end, an agency is blocked by them only for a while.
BlockedForAWhile == ~NoneRecent ~> NoneRecent
=============================================================================

----------------------------- MODULE ExpiryNotices -----------------------------
(***************************************************************************)
(* The first half of licenseExpiryCheck of license.cron.ts: the notices    *)
(* sent a fixed number of days before a license expires, to the owner of   *)
(* the business and, the second time, to the inspectors of its zone.       *)
(* (The second half, and what else the job meets, is in LicenseRegister.)  *)
(*                                                                         *)
(* Each deadline is one day wide and the job runs once a day.  It begins   *)
(* at 08:00 and is over by midnight, or was cut off.                       *)
(***************************************************************************)
EXTENDS Naturals

CONSTANTS
    Licenses,     \* license numbers
    Inspectors,   \* inspectors of the agency and zone of the licenses
    Owner,        \* the owner of the businesses
    Owned,        \* the licenses whose business has an owner
    Early, Late,  \* the deadlines, 90 and 30 days ahead
    Quiet,        \* days in which a notice is not repeated, 7 in the code
    MaxDays,      \* bound: the longest a license is valid
    None

ASSUME PeopleAssumption == Owner \notin Inspectors /\ None \notin Licenses \cup Inspectors \cup {Owner}
ASSUME OwnedType == Owned \subseteq Licenses
ASSUME DaysAssumption ==
    /\ Early \in Nat /\ Late \in Nat /\ Quiet \in Nat /\ MaxDays \in Nat
    /\ Late > 0 /\ Early > Late + Quiet /\ MaxDays > Early

VARIABLES
    left,     \* days until expireDate; 0: it is over, or null
    onDuty,   \* the inspectors who are active and have the zone
    age,      \* days since the last LICENSE_EXPIRING of a license to a person
    job,      \* licenseExpiryCheck
    fresh,    \* history: licenses and inspectors unchanged since the last listing
    sent      \* history: notices to a person about the date a license has now

vars == <<left, onDuty, age, job, fresh, sent>>

People == Inspectors \cup {Owner}

Job == [stage: {"listing", "telling", "creating", "over"}, days: {Early, Late},
        todo: SUBSET Licenses, license: Licenses \cup {None},
        to: SUBSET People, person: People \cup {None}]

Morning == [stage |-> "listing", days |-> Early, todo |-> {}, license |-> None,
            to |-> {}, person |-> None]

\* Quiet + 1 stands for any longer time, and for no notice.
LongAgo == Quiet + 1

TypeOK ==
    /\ left \in [Licenses -> 0 .. MaxDays]
    /\ onDuty \subseteq Inspectors
    /\ age \in [Licenses -> [People -> 0 .. LongAgo]]
    /\ job \in Job
    /\ fresh \subseteq Licenses \cup Inspectors
    /\ sent \in [Licenses -> [People -> Nat]]

Init ==
    /\ left \in [Licenses -> 0 .. MaxDays]
    /\ onDuty \in SUBSET Inspectors
    /\ age = [l \in Licenses |-> [p \in People |-> LongAgo]]
    /\ job = Morning
    /\ fresh = {}
    /\ sent = [l \in Licenses |-> [p \in People |-> 0]]
-----------------------------------------------------------------------------
(* The job, once for each deadline. *)

\* Faulty variant: everything up to the deadline is listed, day after day.
ListUpTo ==
    /\ job.stage = "listing"
    /\ job' = [job EXCEPT !.stage = "telling",
                          !.todo = {l \in Licenses : left[l] \in 1 .. job.days}]
    /\ fresh' = Licenses \cup Inspectors
    /\ UNCHANGED <<left, onDuty, age, sent>>

List ==
    /\ job.stage = "listing"
    /\ job' = [job EXCEPT !.stage = "telling", !.todo = {l \in Licenses : left[l] = job.days}]
    /\ fresh' = Licenses \cup Inspectors
    /\ UNCHANGED <<left, onDuty, age, sent>>

\* Faulty variant: the inspectors are told at both deadlines.
EverybodyConcerned(l) == (IF l \in Owned THEN {Owner} ELSE {}) \cup onDuty

\* Faulty variant: at the second deadline it is the inspectors in place of the owner.
InspectorsInstead(l) ==
    IF job.days = Late THEN onDuty ELSE IF l \in Owned THEN {Owner} ELSE {}

\* Who is told of l; inspectors only at the second deadline.
Concerned(l) ==
    (IF l \in Owned THEN {Owner} ELSE {}) \cup (IF job.days = Late THEN onDuty ELSE {})

Gather(l) ==
    /\ job.stage = "telling" /\ job.to = {}
    /\ l \in job.todo
    /\ job' = [job EXCEPT !.todo = @ \ {l}, !.license = l, !.to = Concerned(l)]
    /\ UNCHANGED <<left, onDuty, age, fresh, sent>>

\* Is there a notice of the last days?  On the last of them the hour decides.
Search(p) ==
    LET last == age[job.license][p]
    IN  /\ job.stage = "telling" /\ p \in job.to
        /\ \/ last <= Quiet /\ job' = [job EXCEPT !.to = @ \ {p}]
           \/ last >= Quiet /\ job' = [job EXCEPT !.stage = "creating", !.person = p]
        /\ UNCHANGED <<left, onDuty, age, fresh, sent>>

Create ==
    LET l == job.license
        p == job.person
    IN  /\ job.stage = "creating"
        /\ age' = [age EXCEPT ![l][p] = 0]
        /\ sent' = [sent EXCEPT ![l][p] = IF l \in fresh THEN @ + 1 ELSE @]
        /\ job' = [job EXCEPT !.stage = "telling", !.to = @ \ {p}, !.person = None]
        /\ UNCHANGED <<left, onDuty, fresh>>

\* Everybody is told: the next deadline, or the end.
Turn ==
    /\ job.stage = "telling" /\ job.to = {} /\ job.todo = {}
    /\ job' = IF job.days = Early THEN [Morning EXCEPT !.days = Late]
              ELSE [Morning EXCEPT !.stage = "over"]
    /\ UNCHANGED <<left, onDuty, age, fresh, sent>>

\* The process is down or ends, or a statement fails.  Nothing is made up for later.
CutOff ==
    /\ job.stage # "over"
    /\ job' = [Morning EXCEPT !.stage = "over"]
    /\ UNCHANGED <<left, onDuty, age, fresh, sent>>
-----------------------------------------------------------------------------
(* What goes on meanwhile. *)

DayPasses ==
    /\ job.stage = "over"
    /\ job' = Morning
    /\ left' = [l \in Licenses |-> IF left[l] = 0 THEN 0 ELSE left[l] - 1]
    /\ age' = [l \in Licenses |-> [p \in People |-> IF age[l][p] = LongAgo THEN LongAgo
                                                    ELSE age[l][p] + 1]]
    /\ UNCHANGED <<onDuty, fresh, sent>>

\* A synchronised record changes the date of l.
Renew(l, days) ==
    /\ days # left[l]
    /\ left' = [left EXCEPT ![l] = days]
    /\ fresh' = fresh \ {l}
    /\ sent' = [sent EXCEPT ![l] = [p \in People |-> 0]]
    /\ UNCHANGED <<onDuty, age, job>>

\* An inspector is made active or given the zone, or loses either.
Reassign(p) ==
    /\ onDuty' = IF p \in onDuty THEN onDuty \ {p} ELSE onDuty \cup {p}
    /\ fresh' = fresh \ {p}
    /\ UNCHANGED <<left, age, job, sent>>

Next ==
    \/ List \/ Create \/ Turn \/ CutOff \/ DayPasses
    \/ \E l \in Licenses : Gather(l)
    \/ \E p \in People : Search(p)
    \/ \E l \in Licenses, days \in 0 .. MaxDays : Renew(l, days)
    \/ \E p \in Inspectors : Reassign(p)

Spec == Init /\ [][Next]_vars
-----------------------------------------------------------------------------
\* However often the job is cut off, inspectors change and dates move, nobody hears of
\* one date of a license more often than there are deadlines for him: deadlines
\* of one day and a daily job are enough.
OncePerDeadline ==
    \A l \in Licenses :
        /\ sent[l][Owner] <= 2
        /\ \A p \in Inspectors : sent[l][p] <= 1

\* When the job is done with a deadline everybody concerned has had a notice of late,
\* unless the date or the inspector changed under its hands: a notice found in
\* place of a new one is never an old one.
ToldInTime ==
    [][Turn => \A l \in fresh \cap Licenses, p \in People :
          /\ left[l] = job.days
          /\ \/ p = Owner /\ l \in Owned
             \/ p \in onDuty \cap fresh /\ job.days = Late
          => age[l][p] <= Quiet]_vars

\* A notice is true when it is sent, and is sent to somebody it concerns, unless the
\* date or the inspector changed after the listing; and whatever changed, nobody gets
\* two about one license within the quiet days.
DueUnlessStale ==
    [][\A l \in Licenses, p \in People : age'[l][p] < age[l][p] =>
          /\ age[l][p] >= Quiet
          /\ l \in fresh => left[l] \in {Early, Late}
          /\ p \in Inspectors \cap fresh /\ l \in fresh => p \in onDuty /\ left[l] = Late]_vars
=============================================================================

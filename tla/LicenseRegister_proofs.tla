------------------------ MODULE LicenseRegister_proofs ------------------------
(***************************************************************************)
(* Proofs about LicenseRegister, for any number of licenses, reviews and   *)
(* interruptions of the job.                                               *)
(***************************************************************************)
EXTENDS LicenseRegister, TLAPS

\* What the job relies on: a license it has listed and nobody has written since
\* is still what it listed.
ListingHolds ==
    \A l \in job.fresh : license[l].status = "ACTIVE" /\ license[l].expires = "past"

IInv == TypeOK /\ ListingHolds

LEMMA RestingTyped == Resting \in Job
BY DEF Resting, Job

LEMMA NoReviewTyped == NoReview \in Review
BY DEF NoReview, Review, Status

LEMMA SeededTyped == Seeded \subseteq Row
BY DEF Seeded, Absent, Row, Types, Status, Dates

LEMMA InitInv == Init => IInv
<1> SUFFICES ASSUME Init PROVE IInv
  OBVIOUS
<1>1. TypeOK
  BY SeededTyped, RestingTyped, NoReviewTyped, BoundsType DEF Init, TypeOK
<1>2. ListingHolds
  BY DEF Init, ListingHolds, Resting
<1> QED
  BY <1>1, <1>2 DEF IInv

\* A step that writes at most license l, and takes it from the job's fresh ones.
LEMMA OneWrite ==
    ASSUME IInv, NEW l \in Licenses, NEW row \in Row, Write(l, row)
    PROVE  /\ license' \in [Licenses -> Row] /\ job' \in Job
           /\ ListingHolds'
<1> USE DEF IInv
<1>1. license' = [license EXCEPT ![l] = row] /\ job' = [job EXCEPT !.fresh = @ \ {l}]
  BY DEF Write
<1>2. license' \in [Licenses -> Row] /\ job' \in Job
  BY <1>1 DEF TypeOK, Job
<1>3. job'.fresh = job.fresh \ {l} /\ job.fresh \subseteq Licenses
  BY <1>1 DEF TypeOK, Job
<1>4. \A k \in Licenses \ {l} : license'[k] = license[k]
  BY <1>1 DEF TypeOK
<1>5. ListingHolds'
  BY <1>3, <1>4 DEF ListingHolds
<1> QED
  BY <1>2, <1>5

LEMMA UpsertInv ==
    ASSUME IInv, NEW l \in Licenses, NEW type \in Types, NEW status \in Status,
           NEW date \in Dates, Upsert(l, type, status, date)
    PROVE  IInv'
<1> DEFINE row == [license[l] EXCEPT !.type = IF Exists(l) THEN @ ELSE type,
                                     !.status = status,
                                     !.expires = IF type = "RNG4" THEN "none" ELSE date]
<1>1. row \in Row
  BY DEF IInv, TypeOK, Row, Types, Dates
<1>2. Write(l, row) /\ UNCHANGED <<told, review, deaths>>
  BY DEF Upsert
<1> QED
  BY <1>1, <1>2, OneWrite DEF IInv, TypeOK

LEMMA ApproveInv ==
    ASSUME IInv, NEW r \in Reviews, Approve(r)
    PROVE  IInv'
<1> USE DEF IInv
<1> DEFINE q == review[r]
           row == license[q.license]
<1>1. q \in Review /\ q.license \in Licenses /\ row \in Row
  BY DEF Approve, TypeOK, Review
<1>2. review' \in [Reviews -> Review] /\ UNCHANGED <<told, deaths>>
  BY NoReviewTyped DEF Approve, TypeOK
<1>3. [row EXCEPT !.status = "SUSPENDED", !.reason = "failed"] \in Row
  BY <1>1 DEF Row, Status
<1>4. [row EXCEPT !.status = "ACTIVE", !.reason = "none"] \in Row
  BY <1>1 DEF Row, Status
<1>5. CASE q.failed
  <2>1. Write(q.license, [row EXCEPT !.status = "SUSPENDED", !.reason = "failed"])
    BY <1>5 DEF Approve
  <2> QED
    BY <1>1, <1>2, <1>3, <2>1, OneWrite DEF TypeOK
<1>6. CASE ~q.failed /\ q.status = "SUSPENDED"
  <2>1. Write(q.license, [row EXCEPT !.status = "ACTIVE", !.reason = "none"])
    BY <1>6 DEF Approve
  <2> QED
    BY <1>1, <1>2, <1>4, <2>1, OneWrite DEF TypeOK
<1>7. CASE ~q.failed /\ q.status # "SUSPENDED"
  <2>1. UNCHANGED <<license, job>>
    BY <1>7 DEF Approve
  <2> QED
    BY <1>2, <2>1 DEF TypeOK, ListingHolds
<1> QED
  BY <1>5, <1>6, <1>7

\* The jobs, time, crashes and reads.
LEMMA JobInv ==
    ASSUME IInv, JobStep \/ JobDies \/ FeeCheck
    PROVE  IInv'
<1> USE DEF IInv
<1>1. CASE ListExpired
  BY <1>1 DEF ListExpired, TypeOK, Job, Resting, ListingHolds
<1>2. ASSUME NEW l \in Licenses, MarkExpired(l) PROVE IInv'
  <2>1. license' = [license EXCEPT ![l].status = "EXPIRED"]
    BY <1>2 DEF MarkExpired
  <2>2. license' \in [Licenses -> Row]
    BY <2>1 DEF TypeOK, Row, Status
  <2>3. job' = [job EXCEPT !.todo = job.todo \ {l}, !.current = l, !.fresh = job.fresh \ {l}]
    BY <1>2 DEF MarkExpired
  <2>4. job' \in Job /\ job'.fresh = job.fresh \ {l} /\ job.fresh \subseteq Licenses
    BY <2>3 DEF TypeOK, Job
  <2>5. \A k \in Licenses \ {l} : license'[k] = license[k]
    BY <2>1 DEF TypeOK
  <2>6. ListingHolds'
    BY <2>4, <2>5 DEF ListingHolds
  <2> QED
    BY <1>2, <2>2, <2>4, <2>6 DEF MarkExpired, TypeOK
<1>3. CASE Announce
  BY <1>3 DEF Announce, TypeOK, Job, ListingHolds
<1>4. CASE JobDies
  BY <1>4, RestingTyped, BoundsType DEF JobDies, TypeOK, Resting, ListingHolds
<1>5. CASE FeeCheck
  <2>1. license' \in [Licenses -> Row]
    BY <1>5 DEF FeeCheck, TypeOK, Row, Status
  <2>2. job' \in Job /\ job'.fresh = job.fresh \ Overdue /\ job.fresh \subseteq Licenses
    BY <1>5 DEF FeeCheck, TypeOK, Job
  <2>3. \A l \in Licenses \ Overdue : license'[l] = license[l]
    BY <1>5 DEF FeeCheck
  <2>4. ListingHolds'
    BY <2>2, <2>3 DEF ListingHolds
  <2> QED
    BY <1>5, <2>1, <2>2, <2>4 DEF FeeCheck, TypeOK
<1> QED
  BY <1>1, <1>2, <1>3, <1>4, <1>5 DEF JobStep

LEMMA OtherInv ==
    ASSUME IInv,
           \/ \E l \in Licenses : DayPasses(l)
           \/ \E r \in Reviews, l \in Licenses, failed \in BOOLEAN : ReadForReview(r, l, failed)
    PROVE  IInv'
<1> USE DEF IInv
<1>1. ASSUME NEW l \in Licenses, DayPasses(l) PROVE IInv'
  <2>1. license' = [license EXCEPT ![l].expires = "past"] /\ license[l].expires = "future"
    BY <1>1 DEF DayPasses
  <2>2. license' \in [Licenses -> Row]
    BY <2>1 DEF TypeOK, Row, Dates
  <2>3. job' = job /\ job.fresh \subseteq Licenses
    BY <1>1 DEF DayPasses, TypeOK, Job
  <2>4. l \notin job.fresh /\ \A k \in Licenses \ {l} : license'[k] = license[k]
    BY <2>1 DEF TypeOK, ListingHolds
  <2>5. ListingHolds'
    BY <2>3, <2>4 DEF ListingHolds
  <2> QED
    BY <1>1, <2>2, <2>3, <2>5 DEF DayPasses, TypeOK
<1>2. ASSUME NEW r \in Reviews, NEW l \in Licenses, NEW failed \in BOOLEAN,
             ReadForReview(r, l, failed)
      PROVE  IInv'
  <2>1. license[l].status \in Status
    BY DEF TypeOK, Row
  <2>2. review' \in [Reviews -> Review]
    BY <1>2, <2>1 DEF ReadForReview, TypeOK, Review
  <2> QED
    BY <1>2, <2>2 DEF ReadForReview, TypeOK, ListingHolds
<1> QED
  BY <1>1, <1>2

LEMMA StepInv == IInv /\ [Next]_vars => IInv'
<1> SUFFICES ASSUME IInv, [Next]_vars PROVE IInv'
  OBVIOUS
<1>1. CASE UNCHANGED vars
  BY <1>1 DEF IInv, vars, TypeOK, ListingHolds
<1>2. CASE Next
  BY <1>2, UpsertInv, ApproveInv, JobInv, OtherInv DEF Next
<1> QED
  BY <1>1, <1>2

\* licenses, jobs and reviews keep their types.
THEOREM RegisterTyped == Spec => []TypeOK
<1>1. Spec => []IInv
  BY InitInv, StepInv, PTL DEF Spec
<1>2. IInv => TypeOK
  BY DEF IInv
<1> QED
  BY <1>1, <1>2, PTL

\* licenseExpiryCheck marks only an ACTIVE license that is over, unless somebody
\* has written it since the job listed it, for any number of licenses.
THEOREM MarksJustified == Spec => MarksUnlessStale
<1>1. Spec => []IInv
  BY InitInv, StepInv, PTL DEF Spec
<1>2. IInv /\ [Next]_vars =>
        [\A l \in Licenses : Marks(l) /\ l \in job.fresh =>
           license[l].status = "ACTIVE" /\ license[l].expires = "past"]_vars
  BY DEF IInv, ListingHolds
<1> QED
  BY <1>1, <1>2, PTL DEF Spec, MarksUnlessStale
-----------------------------------------------------------------------------
LEMMA UpsertKeepsRng4 ==
    ASSUME ~OtherTypes, TypeOK, Rng4HasNoDate,
           NEW l \in Licenses, NEW type \in Types, NEW status \in Status,
           NEW date \in Dates, Upsert(l, type, status, date)
    PROVE  Rng4HasNoDate'
<1> DEFINE row == [license[l] EXCEPT !.type = IF Exists(l) THEN license[l].type ELSE type,
                                     !.status = status,
                                     !.expires = IF type = "RNG4" THEN "none" ELSE date]
<1>1. license' = [license EXCEPT ![l] = row]
  BY DEF Upsert, Write
<1>2. row.type = type /\ row.expires = IF type = "RNG4" THEN "none" ELSE date
  BY DEF Upsert, TypeOK, Row
<1> QED
  BY <1>1, <1>2 DEF TypeOK, Rng4HasNoDate

\* Nobody but the upsert touches type or date, except time.
LEMMA OthersKeepRng4 ==
    ASSUME TypeOK, Rng4HasNoDate, TypeOK',
           \/ JobStep \/ JobDies \/ FeeCheck
           \/ \E l \in Licenses : DayPasses(l)
           \/ \E r \in Reviews, l \in Licenses, failed \in BOOLEAN : ReadForReview(r, l, failed)
           \/ \E r \in Reviews : Approve(r)
    PROVE  Rng4HasNoDate'
<1> DEFINE Kept(l) == license'[l].type = license[l].type /\ license'[l].expires = license[l].expires
<1>0. (\A l \in Licenses : Kept(l)) => Rng4HasNoDate'
  BY DEF Rng4HasNoDate
<1>1. CASE \E l \in Licenses : DayPasses(l)
  BY <1>1 DEF DayPasses, TypeOK, Row, Rng4HasNoDate
<1>2. CASE FeeCheck
  <2>1. \A l \in Licenses : Kept(l)
    BY <1>2 DEF FeeCheck, TypeOK, Row
  <2> QED
    BY <1>0, <2>1
<1>3. CASE JobStep
  <2>1. CASE ListExpired \/ Announce
    BY <2>1 DEF ListExpired, Announce, Rng4HasNoDate
  <2>2. ASSUME NEW l \in Licenses, MarkExpired(l) PROVE Rng4HasNoDate'
    <3> DEFINE row == [license[l] EXCEPT !.status = "EXPIRED"]
    <3>1. license' = [license EXCEPT ![l] = row]
      BY <2>2 DEF MarkExpired
    <3>2. row.type = license[l].type /\ row.expires = license[l].expires
      BY DEF TypeOK, Row
    <3> QED
      BY <3>1, <3>2 DEF TypeOK, Rng4HasNoDate
  <2> QED
    BY <1>3, <2>1, <2>2 DEF JobStep
<1>4. ASSUME NEW r \in Reviews, Approve(r) PROVE Rng4HasNoDate'
  <2> DEFINE k == review[r].license
  <2> DEFINE failed == [license[k] EXCEPT !.status = "SUSPENDED", !.reason = "failed"]
             passed == [license[k] EXCEPT !.status = "ACTIVE", !.reason = "none"]
  <2>1. \/ license' = [license EXCEPT ![k] = failed]
        \/ license' = [license EXCEPT ![k] = passed]
        \/ license' = license
    BY <1>4 DEF Approve, Write
  <2>2. k \in Licenses
    BY <1>4 DEF Approve, TypeOK, Review
  <2>3. /\ failed.type = license[k].type /\ failed.expires = license[k].expires
        /\ passed.type = license[k].type /\ passed.expires = license[k].expires
    BY <2>2 DEF TypeOK, Row
  <2> HIDE DEF failed, passed, k
  <2>4. \A l \in Licenses : Kept(l)
    BY <2>1, <2>2, <2>3 DEF TypeOK
  <2> QED
    BY <1>0, <2>4
<1>5. CASE JobDies \/ \E r \in Reviews, l \in Licenses, failed \in BOOLEAN : ReadForReview(r, l, failed)
  BY <1>5 DEF JobDies, ReadForReview, Rng4HasNoDate
<1> QED
  BY <1>1, <1>2, <1>3, <1>4, <1>5

\* The README's "RNG4 licenses always have expireDate = null" holds for any number of
\* licenses as long as no record names another type than its license has.
THEOREM Rng4Undated == ASSUME ~OtherTypes PROVE Spec => []Rng4HasNoDate
<1>1. Init => Rng4HasNoDate
  BY DEF Init, Rng4HasNoDate, Seeded, Absent
<1>2. TypeOK /\ TypeOK' /\ Rng4HasNoDate /\ [Next]_vars => Rng4HasNoDate'
  <2> SUFFICES ASSUME TypeOK, TypeOK', Rng4HasNoDate, [Next]_vars PROVE Rng4HasNoDate'
    OBVIOUS
  <2>1. CASE UNCHANGED vars
    BY <2>1 DEF vars, Rng4HasNoDate
  <2>2. CASE Next
    BY <2>2, UpsertKeepsRng4, OthersKeepRng4 DEF Next
  <2> QED
    BY <2>1, <2>2
<1> QED
  BY <1>1, <1>2, RegisterTyped, PTL DEF Spec
=============================================================================

--------------------------- MODULE ExpiryNotices_proofs ---------------------------
(***************************************************************************)
(* Types, that nobody hears of one date of a license more often than there *)
(* are deadlines for him (OncePerDeadline), that a notice is due when it   *)
(* is sent (DueUnlessStale), and that everybody concerned is told          *)
(* (ToldInTime), for any deadlines, licenses and people.  The invariant    *)
(* relates the number of notices sent to the days left and to how far the  *)
(* job has come today (Counted); AllTold says whom it has yet to tell.     *)
(***************************************************************************)
EXTENDS ExpiryNotices, TLAPS

\* What the job holds in its hands at each stage.
Shape ==
    /\ job.stage \in {"listing", "over"} => job.todo = {} /\ job.to = {} /\ job.license = None
    /\ job.license \notin job.todo
    /\ job.to # {} => job.license \in Licenses
    /\ job.days = Early => job.to \subseteq {Owner}
    /\ job.stage = "creating" =>
          job.person \in job.to /\ age[job.license][job.person] >= Quiet

\* A license whose date has not changed since has the deadline it was listed for.
Listed(l) == l \in fresh /\ (l \in job.todo \/ l = job.license) => left[l] = job.days

\* An inspector who has not changed since is on duty.
OnDuty(p) == p \in fresh /\ p \in job.to => p \in onDuty

\* The job is done for today with l and p, at the deadline it is at.
Dealt(l, p) ==
    /\ job.stage \in {"telling", "creating"}
    /\ l \notin job.todo
    /\ job.license = l => p \notin job.to

PastEarly(l, p) == job.stage = "over" \/ job.days = Late \/ Dealt(l, p)
PastLate(l, p) == job.stage = "over" \/ (job.days = Late /\ Dealt(l, p))

\* No deadline of p for the present date of l is to come again.
LateOver(l, p) == left[l] < Late \/ (left[l] = Late /\ PastLate(l, p))
EarlyOver(l, p) == left[l] < Early \/ (left[l] = Early /\ PastEarly(l, p))

Counted(l, p) ==
    \/ sent[l][p] = 0
    \/ sent[l][p] = 1 /\ p = Owner /\ EarlyOver(l, p)
    \/ sent[l][p] = 1 /\ p # Owner /\ LateOver(l, p)
    \/ sent[l][p] = 2 /\ p = Owner /\ LateOver(l, p)

IInv ==
    /\ TypeOK
    /\ Shape
    /\ \A l \in Licenses : Listed(l)
    /\ \A p \in Inspectors : OnDuty(p)
    /\ \A l \in Licenses, p \in People : Counted(l, p)

USE DaysAssumption

LEMMA MorningTyped ==
    /\ Morning \in Job /\ Morning.stage = "listing" /\ Morning.days = Early
    /\ Morning.todo = {} /\ Morning.license = None /\ Morning.to = {} /\ Morning.person = None
  BY DEF Morning, Job

LEMMA InitInv == Init => IInv
<1> SUFFICES ASSUME Init PROVE IInv
  OBVIOUS
<1>1. TypeOK
  BY MorningTyped DEF Init, TypeOK, LongAgo
<1>2. Shape
  BY MorningTyped, PeopleAssumption DEF Init, Shape
<1>3. \A l \in Licenses : Listed(l)
  BY DEF Init, Listed
<1>4. \A p \in Inspectors : OnDuty(p)
  BY DEF Init, OnDuty
<1>5. \A l \in Licenses, p \in People : Counted(l, p)
  BY DEF Init, Counted
<1> QED
  BY <1>1, <1>2, <1>3, <1>4, <1>5 DEF IInv
-----------------------------------------------------------------------------
(* Steps that send nothing. *)

\* The counts hold as long as no deadline that was over is to come again.
LEMMA CountedStill ==
    ASSUME NEW l \in Licenses, NEW p \in People, Counted(l, p),
           sent'[l][p] = sent[l][p], left'[l] = left[l],
           PastLate(l, p) => PastLate(l, p)', PastEarly(l, p) => PastEarly(l, p)'
    PROVE  Counted(l, p)'
  BY DEF Counted, LateOver, EarlyOver

LEMMA ListInv == ASSUME IInv, List PROVE IInv'
<1>1. PICK n \in Job :
         /\ job' = n /\ n.stage = "telling" /\ n.days = job.days
         /\ n.todo = {l \in Licenses : left[l] = job.days}
         /\ n.license = job.license /\ n.to = job.to
  <2> DEFINE n == [job EXCEPT !.stage = "telling", !.todo = {l \in Licenses : left[l] = job.days}]
  <2>1. job \in Job
    BY DEF IInv, TypeOK
  <2>2. n \in Job /\ n.stage = "telling" /\ n.days = job.days
        /\ n.todo = {l \in Licenses : left[l] = job.days}
        /\ n.license = job.license /\ n.to = job.to
    BY <2>1 DEF Job
  <2>3. job' = n
    BY DEF List
  <2> QED
    BY <2>2, <2>3
<1>2. /\ job.stage = "listing" /\ fresh' = Licenses \cup Inspectors
      /\ UNCHANGED <<left, onDuty, age, sent>>
      /\ job.license = None /\ job.to = {}
  BY DEF List, IInv, Shape
<1>3. TypeOK'
  BY <1>1, <1>2 DEF IInv, TypeOK
<1>4. Shape'
  BY <1>1, <1>2, PeopleAssumption DEF Shape
<1>5. ASSUME NEW l \in Licenses PROVE Listed(l)'
  BY <1>1, <1>2, <1>5, PeopleAssumption DEF Listed
<1>6. ASSUME NEW p \in Inspectors PROVE OnDuty(p)'
  BY <1>1, <1>2 DEF OnDuty
<1>7. ASSUME NEW l \in Licenses, NEW p \in People PROVE Counted(l, p)'
  BY <1>1, <1>2, CountedStill DEF IInv, PastLate, PastEarly, Dealt
<1> QED
  BY <1>3, <1>4, <1>5, <1>6, <1>7 DEF IInv

LEMMA GatherInv == ASSUME IInv, NEW l \in Licenses, Gather(l) PROVE IInv'
<1>1. PICK n \in Job :
         /\ job' = n /\ n.stage = job.stage /\ n.days = job.days
         /\ n.todo = job.todo \ {l} /\ n.license = l /\ n.to = Concerned(l)
  <2> DEFINE n == [job EXCEPT !.todo = @ \ {l}, !.license = l, !.to = Concerned(l)]
  <2>1. job \in Job /\ onDuty \subseteq Inspectors
    BY DEF IInv, TypeOK
  <2>2. Concerned(l) \subseteq People
    BY <2>1 DEF Concerned, People
  <2>3. n \in Job /\ n.stage = job.stage /\ n.days = job.days
        /\ n.todo = job.todo \ {l} /\ n.license = l /\ n.to = Concerned(l)
    BY <2>1, <2>2 DEF Job
  <2>4. job' = n
    BY DEF Gather
  <2> QED
    BY <2>3, <2>4
<1>2. /\ job.stage = "telling" /\ l \in job.todo /\ job.to = {}
      /\ UNCHANGED <<left, onDuty, age, fresh, sent>>
  BY DEF Gather
<1>3. TypeOK'
  BY <1>1, <1>2 DEF IInv, TypeOK
<1>4. Shape'
  <2>1. job.days = Early => Concerned(l) \subseteq {Owner}
    BY DEF Concerned
  <2> QED
    BY <1>1, <1>2, <2>1 DEF Shape
<1>5. ASSUME NEW k \in Licenses PROVE Listed(k)'
  BY <1>1, <1>2 DEF IInv, Listed
<1>6. ASSUME NEW p \in Inspectors PROVE OnDuty(p)'
  BY <1>1, <1>2, PeopleAssumption DEF OnDuty, Concerned
<1>7. ASSUME NEW k \in Licenses, NEW p \in People PROVE Counted(k, p)'
  BY <1>1, <1>2, CountedStill DEF IInv, PastLate, PastEarly, Dealt
<1> QED
  BY <1>3, <1>4, <1>5, <1>6, <1>7 DEF IInv

LEMMA SearchInv == ASSUME IInv, NEW p \in People, Search(p) PROVE IInv'
<1>0. job \in Job
  BY DEF IInv, TypeOK
<1>1. PICK n \in Job :
         /\ job' = n /\ n.days = job.days /\ n.todo = job.todo /\ n.license = job.license
         /\ \/ n.stage = "telling" /\ n.to = job.to \ {p}
            \/ /\ n.stage = "creating" /\ n.to = job.to /\ n.person = p
               /\ age[job.license][p] >= Quiet
  <2>1. CASE job' = [job EXCEPT !.to = @ \ {p}]
    <3>1. job' \in Job
      BY <1>0, <2>1 DEF Job
    <3> QED
      BY <1>0, <2>1, <3>1 DEF Search, Job
  <2>2. CASE job' = [job EXCEPT !.stage = "creating", !.person = p] /\ age[job.license][p] >= Quiet
    <3>1. job' \in Job
      BY <1>0, <2>2 DEF Job
    <3> QED
      BY <1>0, <2>2, <3>1 DEF Job
  <2> QED
    BY <2>1, <2>2 DEF Search
<1>2. /\ job.stage = "telling" /\ p \in job.to
      /\ UNCHANGED <<left, onDuty, age, fresh, sent>>
  BY DEF Search
<1>3. TypeOK'
  BY <1>1, <1>2 DEF IInv, TypeOK
<1>4. Shape'
  BY <1>1, <1>2 DEF IInv, Shape
<1>5. ASSUME NEW k \in Licenses PROVE Listed(k)'
  BY <1>1, <1>2 DEF IInv, Listed
<1>6. ASSUME NEW x \in Inspectors PROVE OnDuty(x)'
  BY <1>1, <1>2 DEF IInv, OnDuty
<1>7. ASSUME NEW k \in Licenses, NEW x \in People PROVE Counted(k, x)'
  BY <1>1, <1>2, CountedStill DEF IInv, PastLate, PastEarly, Dealt
<1> QED
  BY <1>3, <1>4, <1>5, <1>6, <1>7 DEF IInv
LEMMA RestInv ==
    ASSUME IInv, NEW n \in Job, job' = n, UNCHANGED <<left, onDuty, age, fresh, sent>>,
           n.todo = {}, n.to = {}, n.license = None, n.stage \in {"listing", "over"},
           \A l \in Licenses, p \in People :
              (PastLate(l, p) => PastLate(l, p)') /\ (PastEarly(l, p) => PastEarly(l, p)')
    PROVE  IInv'
<1>1. TypeOK'
  BY DEF IInv, TypeOK
<1>2. Shape'
  BY PeopleAssumption DEF Shape
<1>3. \A k \in Licenses : Listed(k)'
  BY PeopleAssumption DEF Listed
<1>4. \A x \in Inspectors : OnDuty(x)'
  BY DEF OnDuty
<1>5. ASSUME NEW k \in Licenses, NEW x \in People PROVE Counted(k, x)'
  BY CountedStill DEF IInv
<1> QED
  BY <1>1, <1>2, <1>3, <1>4, <1>5 DEF IInv

LEMMA TurnInv == ASSUME IInv, Turn \/ CutOff PROVE IInv'
<1>0. job \in Job
  BY DEF IInv, TypeOK
<1> DEFINE next == [Morning EXCEPT !.days = Late]
           end == [Morning EXCEPT !.stage = "over"]
<1>1. /\ end \in Job /\ end.todo = {} /\ end.to = {} /\ end.license = None
      /\ end.stage = "over"
  <2>1. end \in Job
    BY MorningTyped DEF Job
  <2> QED
    BY <2>1 DEF Morning
<1>2. /\ next \in Job /\ next.todo = {} /\ next.to = {} /\ next.license = None
      /\ next.stage = "listing" /\ next.days = Late
  <2>1. next \in Job
    BY MorningTyped DEF Job
  <2> QED
    BY <2>1 DEF Morning
<1>3. UNCHANGED <<left, onDuty, age, fresh, sent>>
  BY DEF Turn, CutOff
<1>4. CASE job' = end
  <2> HIDE DEF end
  <2>1. \A l \in Licenses, p \in People :
           (PastLate(l, p) => PastLate(l, p)') /\ (PastEarly(l, p) => PastEarly(l, p)')
    BY <1>1, <1>4 DEF PastLate, PastEarly
  <2> QED
    BY <1>1, <1>3, <1>4, <2>1, RestInv
<1>5. CASE job' = next /\ job.days = Early /\ job.stage = "telling"
  <2> HIDE DEF next
  <2>1. \A l \in Licenses, p \in People :
           (PastLate(l, p) => PastLate(l, p)') /\ (PastEarly(l, p) => PastEarly(l, p)')
    BY <1>2, <1>5 DEF PastLate, PastEarly
  <2> QED
    BY <1>2, <1>3, <1>5, <2>1, RestInv
<1> QED
  BY <1>4, <1>5 DEF Turn, CutOff
-----------------------------------------------------------------------------
(* A notice. *)

LEMMA CreateInv == ASSUME IInv, Create PROVE IInv'
<1>1. PICK l, p : l = job.license /\ p = job.person
  OBVIOUS
<1>2. /\ job \in Job /\ age \in [Licenses -> [People -> 0 .. LongAgo]]
      /\ sent \in [Licenses -> [People -> Nat]] /\ left \in [Licenses -> 0 .. MaxDays]
  BY DEF IInv, TypeOK
<1>3. /\ l \in Licenses /\ p \in job.to /\ p \in People /\ job.stage = "creating"
      /\ l \notin job.todo
  BY <1>1, <1>2 DEF Create, IInv, Shape, Job
<1>4. PICK n \in Job :
         /\ job' = n /\ n.stage = "telling" /\ n.days = job.days /\ n.todo = job.todo
         /\ n.license = l /\ n.to = job.to \ {p}
  <2>1. job' = [job EXCEPT !.stage = "telling", !.to = @ \ {p}, !.person = None]
    BY <1>1 DEF Create
  <2>2. job' \in Job
    BY <1>2, <2>1 DEF Job
  <2> QED
    BY <1>1, <1>2, <2>1, <2>2 DEF Job
<1>5. /\ age' = [age EXCEPT ![l] = [age[l] EXCEPT ![p] = 0]]
      /\ sent' = [sent EXCEPT ![l] = [sent[l] EXCEPT ![p] = IF l \in fresh THEN sent[l][p] + 1
                                                         ELSE sent[l][p]]]
      /\ UNCHANGED <<left, onDuty, fresh>>
  BY <1>1, <1>2, <1>3 DEF Create
<1>6. TypeOK'
  <2>1. [age[l] EXCEPT ![p] = 0] \in [People -> 0 .. LongAgo]
    BY <1>2, <1>3 DEF LongAgo
  <2>2. age' \in [Licenses -> [People -> 0 .. LongAgo]]
    BY <1>2, <1>3, <1>5, <2>1
  <2>3. sent[l] \in [People -> Nat] /\ sent[l][p] \in Nat
    BY <1>2, <1>3
  <2>4. [sent[l] EXCEPT ![p] = IF l \in fresh THEN sent[l][p] + 1 ELSE sent[l][p]]
        \in [People -> Nat]
    <3>1. (IF l \in fresh THEN sent[l][p] + 1 ELSE sent[l][p]) \in Nat
      BY <2>3
    <3> QED
      BY <2>3, <3>1
  <2>5. sent' \in [Licenses -> [People -> Nat]]
    BY <1>2, <1>3, <1>5, <2>4
  <2> QED
    BY <1>4, <1>5, <2>2, <2>5 DEF IInv, TypeOK
<1>7. Shape'
  BY <1>1, <1>3, <1>4 DEF IInv, Shape
<1>8. ASSUME NEW k \in Licenses PROVE Listed(k)'
  BY <1>1, <1>4, <1>5 DEF IInv, Listed
<1>9. ASSUME NEW x \in Inspectors PROVE OnDuty(x)'
  BY <1>4, <1>5 DEF IInv, OnDuty
<1>10. ASSUME NEW k \in Licenses, NEW x \in People PROVE Counted(k, x)'
  <2>1. (PastLate(k, x) => PastLate(k, x)') /\ (PastEarly(k, x) => PastEarly(k, x)')
    BY <1>1, <1>3, <1>4 DEF PastLate, PastEarly, Dealt
  <2>2. CASE ~(k = l /\ x = p /\ l \in fresh)
    <3>1. sent'[k][x] = sent[k][x]
      BY <1>2, <1>3, <1>5, <2>2
    <3> QED
      BY <1>5, <2>1, <3>1, CountedStill DEF IInv
  <2>3. CASE k = l /\ x = p /\ l \in fresh
    <3>1. sent'[l][p] = sent[l][p] + 1 /\ left'[l] = left[l] /\ sent[l][p] \in Nat
      BY <1>2, <1>3, <1>5, <2>3
    <3>2. left[l] = job.days /\ job.days \in {Early, Late}
      BY <1>1, <1>2, <1>3, <2>3 DEF IInv, Listed, Job
    <3>3. ~Dealt(l, p) /\ Dealt(l, p)'
      BY <1>1, <1>3, <1>4 DEF Dealt
    <3>4. Counted(l, p)
      BY <1>3 DEF IInv
    <3>5. CASE job.days = Early
      <4>1. p = Owner
        BY <1>3, <3>5 DEF IInv, Shape
      <4>2. ~LateOver(l, p) /\ ~EarlyOver(l, p)
        BY <1>3, <3>2, <3>3, <3>5 DEF LateOver, EarlyOver, PastEarly
      <4>3. sent[l][p] = 0
        BY <3>4, <4>2 DEF Counted
      <4>4. EarlyOver(l, p)'
        BY <3>1, <3>2, <3>3, <3>5 DEF EarlyOver, PastEarly
      <4> QED
        BY <2>3, <3>1, <4>1, <4>3, <4>4 DEF Counted
    <3>6. CASE job.days = Late
      <4>1. ~LateOver(l, p)
        BY <1>3, <3>2, <3>3, <3>6 DEF LateOver, PastLate
      <4>2. sent[l][p] = 0 \/ (sent[l][p] = 1 /\ p = Owner)
        BY <3>4, <4>1 DEF Counted
      <4>3. LateOver(l, p)' /\ EarlyOver(l, p)'
        BY <1>4, <3>1, <3>2, <3>3, <3>6 DEF LateOver, EarlyOver, PastLate
      <4> QED
        BY <2>3, <3>1, <4>2, <4>3 DEF Counted
    <3> QED
      BY <3>2, <3>5, <3>6
  <2> QED
    BY <2>2, <2>3
<1> QED
  BY <1>6, <1>7, <1>8, <1>9, <1>10 DEF IInv
-----------------------------------------------------------------------------
(* What goes on meanwhile. *)

LEMMA DayPassesInv == ASSUME IInv, DayPasses PROVE IInv'
<1>1. /\ age \in [Licenses -> [People -> 0 .. LongAgo]]
      /\ sent \in [Licenses -> [People -> Nat]] /\ left \in [Licenses -> 0 .. MaxDays]
  BY DEF IInv, TypeOK
<1>2. /\ job.stage = "over" /\ job' = Morning /\ UNCHANGED <<onDuty, fresh, sent>>
      /\ left' = [l \in Licenses |-> IF left[l] = 0 THEN 0 ELSE left[l] - 1]
  BY DEF DayPasses
<1>3. age' \in [Licenses -> [People -> 0 .. LongAgo]]
  <2> DEFINE older(k, x) == IF age[k][x] = LongAgo THEN LongAgo ELSE age[k][x] + 1
  <2>1. ASSUME NEW k \in Licenses, NEW x \in People PROVE older(k, x) \in 0 .. LongAgo
    <3>1. age[k][x] \in 0 .. LongAgo
      BY <1>1
    <3> QED
      BY <3>1 DEF LongAgo
  <2>2. age' = [k \in Licenses |-> [x \in People |-> older(k, x)]]
    BY DEF DayPasses
  <2> HIDE DEF older
  <2> QED
    BY <2>1, <2>2
<1>4. left' \in [Licenses -> 0 .. MaxDays]
  <2> DEFINE less(k) == IF left[k] = 0 THEN 0 ELSE left[k] - 1
  <2>1. ASSUME NEW k \in Licenses PROVE less(k) \in 0 .. MaxDays
    <3>1. left[k] \in 0 .. MaxDays
      BY <1>1
    <3> QED
      BY <3>1
  <2>2. left' = [k \in Licenses |-> less(k)]
    BY <1>2
  <2> HIDE DEF less
  <2> QED
    BY <2>1, <2>2
<1>5. TypeOK'
  BY <1>2, <1>3, <1>4, MorningTyped DEF IInv, TypeOK
<1>6. Shape'
  BY <1>2, MorningTyped, PeopleAssumption DEF Shape
<1>7. ASSUME NEW k \in Licenses PROVE Listed(k)'
  BY <1>2, MorningTyped, PeopleAssumption DEF Listed
<1>8. ASSUME NEW x \in Inspectors PROVE OnDuty(x)'
  BY <1>2, MorningTyped DEF OnDuty
<1>9. ASSUME NEW k \in Licenses, NEW x \in People PROVE Counted(k, x)'
  <2>1. left[k] \in Nat /\ left'[k] = IF left[k] = 0 THEN 0 ELSE left[k] - 1
    BY <1>1, <1>2
  <2>2. (LateOver(k, x) => left'[k] < Late) /\ (EarlyOver(k, x) => left'[k] < Early)
    BY <2>1 DEF LateOver, EarlyOver
  <2>3. Counted(k, x) /\ sent'[k][x] = sent[k][x]
    BY <1>2 DEF IInv
  <2> QED
    BY <2>2, <2>3 DEF Counted, LateOver, EarlyOver
<1> QED
  BY <1>5, <1>6, <1>7, <1>8, <1>9 DEF IInv

LEMMA RenewInv ==
    ASSUME IInv, NEW l \in Licenses, NEW days \in 0 .. MaxDays, Renew(l, days) PROVE IInv'
<1>1. sent \in [Licenses -> [People -> Nat]] /\ left \in [Licenses -> 0 .. MaxDays]
  BY DEF IInv, TypeOK
<1>2. /\ left' = [left EXCEPT ![l] = days] /\ fresh' = fresh \ {l}
      /\ sent' = [sent EXCEPT ![l] = [p \in People |-> 0]]
      /\ UNCHANGED <<onDuty, age, job>>
  BY DEF Renew
<1>3. TypeOK'
  BY <1>1, <1>2 DEF IInv, TypeOK
<1>4. Shape'
  BY <1>2 DEF IInv, Shape
<1>5. ASSUME NEW k \in Licenses PROVE Listed(k)'
  BY <1>1, <1>2 DEF IInv, Listed
<1>6. ASSUME NEW x \in Inspectors PROVE OnDuty(x)'
  BY <1>2 DEF IInv, OnDuty
<1>7. ASSUME NEW k \in Licenses, NEW x \in People PROVE Counted(k, x)'
  <2>1. CASE k = l
    BY <1>1, <1>2, <2>1 DEF Counted
  <2>2. CASE k # l
    <3>1. sent'[k][x] = sent[k][x] /\ left'[k] = left[k]
      BY <1>1, <1>2, <2>2
    <3> QED
      BY <1>2, <3>1, CountedStill DEF IInv, PastLate, PastEarly, Dealt
  <2> QED
    BY <2>1, <2>2
<1> QED
  BY <1>3, <1>4, <1>5, <1>6, <1>7 DEF IInv

LEMMA ReassignInv == ASSUME IInv, NEW p \in Inspectors, Reassign(p) PROVE IInv'
<1>1. /\ onDuty' = IF p \in onDuty THEN onDuty \ {p} ELSE onDuty \cup {p}
      /\ fresh' = fresh \ {p} /\ UNCHANGED <<left, age, job, sent>>
  BY DEF Reassign
<1>2. TypeOK'
  BY <1>1 DEF IInv, TypeOK
<1>3. Shape'
  BY <1>1 DEF IInv, Shape
<1>4. ASSUME NEW k \in Licenses PROVE Listed(k)'
  BY <1>1 DEF IInv, Listed
<1>5. ASSUME NEW x \in Inspectors PROVE OnDuty(x)'
  BY <1>1 DEF IInv, OnDuty
<1>6. ASSUME NEW k \in Licenses, NEW x \in People PROVE Counted(k, x)'
  BY <1>1, CountedStill DEF IInv, PastLate, PastEarly, Dealt
<1> QED
  BY <1>2, <1>3, <1>4, <1>5, <1>6 DEF IInv
-----------------------------------------------------------------------------
LEMMA NextInv == IInv /\ [Next]_vars => IInv'
<1> SUFFICES ASSUME IInv, [Next]_vars PROVE IInv'
  OBVIOUS
<1>1. CASE UNCHANGED vars
  BY <1>1 DEF vars, IInv, TypeOK, Shape, Listed, OnDuty, Counted, LateOver, EarlyOver,
              PastLate, PastEarly, Dealt
<1>2. CASE List \/ Create \/ Turn \/ CutOff \/ DayPasses
  BY <1>2, ListInv, CreateInv, TurnInv, DayPassesInv
<1>3. CASE \E l \in Licenses : Gather(l)
  BY <1>3, GatherInv
<1>4. CASE \E p \in People : Search(p)
  BY <1>4, SearchInv
<1>5. CASE \E l \in Licenses, days \in 0 .. MaxDays : Renew(l, days)
  BY <1>5, RenewInv
<1>6. CASE \E p \in Inspectors : Reassign(p)
  BY <1>6, ReassignInv
<1> QED
  BY <1>1, <1>2, <1>3, <1>4, <1>5, <1>6 DEF Next

\* The days, the notices and the job keep their types.
THEOREM NoticesTyped == Spec => []TypeOK
<1>1. IInv => TypeOK
  BY DEF IInv
<1> QED
  BY <1>1, InitInv, NextInv, PTL DEF Spec

\* licenseExpiryCheck: nobody hears of one date of a license more often than there are
\* deadlines for him, whatever the deadlines and however often dates change.
THEOREM OnceEach == Spec => []OncePerDeadline
<1>1. IInv => OncePerDeadline
  <2> SUFFICES ASSUME IInv, NEW l \in Licenses
               PROVE  sent[l][Owner] <= 2 /\ \A p \in Inspectors : sent[l][p] <= 1
    BY DEF OncePerDeadline
  <2>1. \A p \in People : Counted(l, p)
    BY DEF IInv
  <2>2. sent[l][Owner] <= 2
    BY <2>1 DEF People, Counted
  <2>3. ASSUME NEW p \in Inspectors PROVE sent[l][p] <= 1
    <3>1. p # Owner /\ p \in People
      BY PeopleAssumption DEF People
    <3> QED
      BY <2>1, <3>1 DEF Counted
  <2> QED
    BY <2>2, <2>3
<1> QED
  BY <1>1, InitInv, NextInv, PTL DEF Spec

\* licenseExpiryCheck: a notice is true and sent to somebody it concerns, unless the
\* date or the inspector changed after the listing, and never twice in the quiet days.
THEOREM NoticesDue == Spec => DueUnlessStale
<1>1. IInv /\ [Next]_vars =>
        [\A l \in Licenses, p \in People : age'[l][p] < age[l][p] =>
            /\ age[l][p] >= Quiet
            /\ l \in fresh => left[l] \in {Early, Late}
            /\ p \in Inspectors \cap fresh /\ l \in fresh => p \in onDuty /\ left[l] = Late]_vars
  <2> SUFFICES ASSUME IInv, [Next]_vars, NEW l \in Licenses, NEW p \in People,
                      age'[l][p] < age[l][p]
               PROVE  /\ age[l][p] >= Quiet
                      /\ l \in fresh => left[l] \in {Early, Late}
                      /\ p \in Inspectors \cap fresh /\ l \in fresh =>
                            p \in onDuty /\ left[l] = Late
    OBVIOUS
  <2>1. age \in [Licenses -> [People -> 0 .. LongAgo]] /\ job \in Job
    BY DEF IInv, TypeOK
  <2>2. age' # age /\ age[l][p] \in 0 .. LongAgo
    BY <2>1
  <2>3. ~DayPasses
    <3>1. DayPasses => age'[l][p] = IF age[l][p] = LongAgo THEN LongAgo ELSE age[l][p] + 1
      BY DEF DayPasses
    <3> QED
      BY <2>2, <3>1 DEF LongAgo
  <2>4. Create
    BY <2>2, <2>3 DEF Next, vars, List, Gather, Search, Turn, CutOff, Renew, Reassign
  <2>5. l = job.license /\ p = job.person
    BY <2>1, <2>2, <2>4 DEF Create
  <2>6. age[l][p] >= Quiet /\ p \in job.to
    BY <2>4, <2>5 DEF Create, IInv, Shape
  <2>7. l \in fresh => left[l] = job.days
    BY <2>5 DEF IInv, Listed
  <2>8. p \in Inspectors => job.days = Late
    BY <2>1, <2>6, PeopleAssumption DEF IInv, Shape, Job
  <2>9. p \in Inspectors \cap fresh => p \in onDuty
    BY <2>6 DEF IInv, OnDuty
  <2> QED
    BY <2>1, <2>6, <2>7, <2>8, <2>9 DEF Job
<1> QED
  BY <1>1, InitInv, NextInv, PTL DEF Spec, DueUnlessStale
-----------------------------------------------------------------------------
(* What the job has done for those it concerns, at the deadline it is at. *)

\* p is to be told of l at the deadline in hand, and neither has changed since the listing.
Awaits(l, p) ==
    /\ job.stage \in {"telling", "creating"}
    /\ l \in fresh /\ left[l] = job.days
    /\ (p = Owner /\ l \in Owned) \/ (p \in onDuty \cap fresh /\ job.days = Late)

\* The turn of l or of p is still to come, or there is a notice of late.
Told(l, p) ==
    Awaits(l, p) => \/ l \in job.todo
                    \/ l = job.license /\ p \in job.to
                    \/ age[l][p] <= Quiet

AllTold == \A l \in Licenses, p \in People : Told(l, p)

LEMMA ToldInit == Init => AllTold
BY MorningTyped DEF Init, AllTold, Told, Awaits

LEMMA ToldStep == IInv /\ AllTold /\ [Next]_vars => AllTold'
<1> SUFFICES ASSUME IInv, AllTold, [Next]_vars, NEW l \in Licenses, NEW p \in People
             PROVE  Told(l, p)'
    BY DEF AllTold
<1>1. /\ Told(l, p) /\ Shape
      /\ job \in Job /\ onDuty \subseteq Inspectors /\ left \in [Licenses -> 0 .. MaxDays]
      /\ age \in [Licenses -> [People -> 0 .. LongAgo]]
  BY DEF AllTold, IInv, TypeOK
<1>2. CASE UNCHANGED vars
  BY <1>1, <1>2 DEF vars, Told, Awaits
<1>3. CASE List
  <2>1. /\ job'.stage = "telling" /\ job'.days = job.days /\ left' = left
        /\ job'.todo = {k \in Licenses : left[k] = job.days}
    BY <1>1, <1>3 DEF List, Job
  <2> QED BY <2>1 DEF Told, Awaits
<1>4. ASSUME NEW k \in Licenses, Gather(k) PROVE Told(l, p)'
  <2>1. /\ job'.stage = job.stage /\ job'.days = job.days /\ job'.todo = job.todo \ {k}
        /\ job'.license = k /\ job'.to = Concerned(k) /\ job.to = {}
        /\ UNCHANGED <<left, onDuty, age, fresh>>
    BY <1>1, <1>4 DEF Gather, Job
  <2>2. CASE l = k
    BY <2>1, <2>2 DEF Told, Awaits, Concerned
  <2>3. CASE l # k
    BY <1>1, <2>1, <2>3 DEF Told, Awaits
  <2> QED BY <2>2, <2>3
<1>5. ASSUME NEW x \in People, Search(x) PROVE Told(l, p)'
  <2>1. /\ UNCHANGED <<left, onDuty, age, fresh>>
        /\ job.stage = "telling" /\ x \in job.to
    BY <1>5 DEF Search
  <2>2. CASE age[job.license][x] <= Quiet /\ job' = [job EXCEPT !.to = @ \ {x}]
    <3>1. /\ job'.stage = job.stage /\ job'.days = job.days /\ job'.todo = job.todo
          /\ job'.license = job.license /\ job'.to = job.to \ {x}
      BY <1>1, <2>2 DEF Job
    <3> QED BY <1>1, <2>1, <2>2, <3>1 DEF Told, Awaits
  <2>3. CASE job' = [job EXCEPT !.stage = "creating", !.person = x]
    <3>1. /\ job'.days = job.days /\ job'.todo = job.todo
          /\ job'.license = job.license /\ job'.to = job.to
      BY <1>1, <2>3 DEF Job
    <3> QED BY <1>1, <2>1, <3>1 DEF Told, Awaits
  <2> QED BY <1>5, <2>2, <2>3 DEF Search
<1>6. CASE Create
  <2>1. /\ job'.days = job.days /\ job'.todo = job.todo /\ job'.license = job.license
        /\ job'.to = job.to \ {job.person} /\ job.stage = "creating"
        /\ UNCHANGED <<left, onDuty, fresh>>
        /\ age' = [age EXCEPT ![job.license][job.person] = 0]
    BY <1>1, <1>6 DEF Create, Job
  <2>2. job.person \in job.to /\ job.license \in Licenses
    BY <1>1, <2>1 DEF Shape
  <2>3. CASE l = job.license /\ p = job.person
    BY <1>1, <2>1, <2>3 DEF Told
  <2>4. CASE ~(l = job.license /\ p = job.person)
    <3>1. age'[l][p] = age[l][p]
      BY <1>1, <2>1, <2>4
    <3> QED BY <1>1, <2>1, <2>4, <3>1 DEF Told, Awaits
  <2> QED BY <2>3, <2>4
<1>7. CASE Turn \/ CutOff \/ DayPasses
  BY <1>7, MorningTyped DEF Turn, CutOff, DayPasses, Told, Awaits, Morning
<1>8. ASSUME NEW k \in Licenses, NEW days \in 0 .. MaxDays, Renew(k, days) PROVE Told(l, p)'
  <2>1. /\ UNCHANGED <<onDuty, age, job>> /\ fresh' = fresh \ {k}
        /\ l # k => left'[l] = left[l]
    BY <1>1, <1>8 DEF Renew
  <2> QED BY <1>1, <2>1 DEF Told, Awaits
<1>9. ASSUME NEW x \in Inspectors, Reassign(x) PROVE Told(l, p)'
  BY <1>1, <1>9 DEF Reassign, Told, Awaits
<1> QED BY <1>2, <1>3, <1>4, <1>5, <1>6, <1>7, <1>8, <1>9 DEF Next

\* licenseExpiryCheck: when it is done with a deadline, everybody concerned has a notice
\* of late, unless the date or the inspector changed after the listing: the look for an
\* earlier notice never takes an old one for it.
THEOREM TellsInTime == Spec => ToldInTime
<1>1. IInv /\ AllTold =>
        (Turn => \A l \in fresh \cap Licenses, p \in People :
            /\ left[l] = job.days
            /\ \/ p = Owner /\ l \in Owned
               \/ p \in onDuty \cap fresh /\ job.days = Late
            => age[l][p] <= Quiet)
  <2> SUFFICES ASSUME AllTold, Turn, NEW l \in fresh \cap Licenses, NEW p \in People,
                      left[l] = job.days,
                      (p = Owner /\ l \in Owned) \/ (p \in onDuty \cap fresh /\ job.days = Late)
               PROVE  age[l][p] <= Quiet
    OBVIOUS
  <2>1. job.stage = "telling" /\ job.to = {} /\ job.todo = {} /\ Told(l, p)
    BY DEF AllTold, Turn
  <2> QED BY <2>1 DEF Told, Awaits
<1>2. IInv /\ AllTold /\ [Next]_vars => AllTold'
  BY ToldStep
<1> QED BY <1>1, <1>2, InitInv, NextInv, ToldInit, PTL DEF Spec, ToldInTime
=============================================================================

-------------------------- MODULE TaskNumbers_proofs --------------------------
(***************************************************************************)
(* Proofs about createTask: the numbers it gives (TaskNumbers), for any    *)
(* number of concurrent requests, any width of the numbers and any number  *)
(* of attempts; and the inspector it gives the task to (Accounts).         *)
(*                                                                         *)
(* The invariant of the numbers says what a request in the loop knows: the *)
(* number it drew is at most one above the numbers issued, lies above what *)
(* was issued when the request began by its attempts so far, and is the    *)
(* next number once the row is inserted, which only one request can have   *)
(* done.  The invariant of the accounts says what a request knows of the   *)
(* rows it has read, while nobody has written them.                        *)
(***************************************************************************)
EXTENDS TaskNumbers, TLAPS

Exhausted == made = Limit + 1

Counted == Gapless /\ made <= Limit + 1

Progress(r) ==
    LET q == req[r]
    IN  /\ q.stage = "looping" => q.begin + q.attempt <= made \/ Exhausted
        /\ q.stage \in {"drawn", "inserted"} =>
              /\ q.number \in 1 .. made + 1
              /\ q.number <= Limit + 1
              /\ q.begin + q.attempt < q.number \/ Exhausted

\* A request whose row is inserted has the next number, and is the only one.
Exclusive ==
    \A r \in Requests : req[r].stage = "inserted" =>
        /\ req[r].number = made + 1
        /\ \A q \in Requests : req[q].stage = "inserted" => q = r

IInv == TypeOK /\ Counted /\ (\A r \in Requests : Progress(r)) /\ Exclusive

\* What the greatest string is, and what the next number is: one more than the
\* count of the tasks, until the year has run out of numbers.
LEMMA NextNumber ==
    ASSUME made \in Nat, issued = 1 .. made, made <= Limit + 1
    PROVE  NextTaskNo = IF made <= Limit THEN made + 1 ELSE Limit + 1
<1> USE WidthAssumption
<1>1. CASE made = 0
  <2>1. issued = {}
    BY <1>1
  <2>2. LastTaskNo = 0
    BY <2>1 DEF LastTaskNo
  <2> QED
    BY <1>1, <2>2 DEF NextTaskNo
<1>2. CASE made \in 1 .. Limit
  <2>1. made \in issued /\ \A m \in issued \ {made} : Above(made, m)
    BY <1>2 DEF Above, Leading
  <2>2. \A n \in issued : n # made => ~ Above(n, made)
    BY <1>2 DEF Above, Leading
  <2>3. LastTaskNo = made
    BY <2>1, <2>2 DEF LastTaskNo
  <2>4. made % (Limit + 1) = made
    BY <1>2
  <2> QED
    BY <1>2, <2>3, <2>4 DEF NextTaskNo
<1>3. CASE made = Limit + 1
  <2>1. Leading(Limit + 1) < Leading(Limit)
    BY DEF Leading
  <2>2. Limit \in issued /\ \A m \in issued \ {Limit} : Above(Limit, m)
    <3> SUFFICES ASSUME NEW m \in issued, m # Limit
                 PROVE  Above(Limit, m)
      BY <1>3
    <3>1. CASE m = Limit + 1
      BY <2>1, <3>1 DEF Above, Leading
    <3>2. CASE m < Limit
      BY <1>3, <3>2 DEF Above, Leading
    <3> QED
      BY <1>3, <3>1, <3>2
  <2>3. \A n \in issued : n # Limit => ~ Above(n, Limit)
    <3> SUFFICES ASSUME NEW n \in issued, n # Limit
                 PROVE  ~ Above(n, Limit)
      OBVIOUS
    <3>1. CASE n = Limit + 1
      BY <2>1, <3>1 DEF Above, Leading
    <3>2. CASE n < Limit
      BY <1>3, <3>2 DEF Above, Leading
    <3> QED
      BY <1>3, <3>1, <3>2
  <2>4. LastTaskNo = Limit
    BY <2>2, <2>3 DEF LastTaskNo
  <2>5. Limit % (Limit + 1) = Limit
    OBVIOUS
  <2> QED
    BY <1>3, <2>4, <2>5 DEF NextTaskNo
<1> QED
  BY <1>1, <1>2, <1>3

LEMMA IdleTyped == Idle \in Request
BY MaxAttemptsAssumption DEF Idle, Request, Stages

LEMMA InitInv == Init => IInv
<1> SUFFICES ASSUME Init PROVE IInv
  OBVIOUS
<1>1. TypeOK
  BY IdleTyped DEF Init, TypeOK
<1>2. Counted
  BY WidthAssumption DEF Init, Counted, Gapless
<1>3. (\A r \in Requests : Progress(r)) /\ Exclusive
  BY DEF Init, Progress, Exclusive, Idle
<1> QED
  BY <1>1, <1>2, <1>3 DEF IInv

\* A step that only changes one request keeps the invariant if what it makes of
\* the request does.
LEMMA OneRequest ==
    ASSUME IInv, NEW r \in Requests, NEW n \in Request,
           req' = [req EXCEPT ![r] = n], UNCHANGED <<issued, notified, made>>,
           Progress(r)',
           n.stage = "inserted" =>
              /\ n.number = made + 1
              /\ \A q \in Requests : req[q].stage = "inserted" => q = r
    PROVE  IInv'
<1> USE DEF IInv
<1>1. TypeOK'
  BY DEF TypeOK
<1>2. Counted'
  BY DEF Counted, Gapless
<1>3. \A q \in Requests : req'[q] = IF q = r THEN n ELSE req[q]
  BY DEF TypeOK
<1>4. ASSUME NEW q \in Requests PROVE Progress(q)'
  <2>1. CASE q = r
    BY <2>1
  <2>2. CASE q # r
    BY <1>3, <2>2 DEF Progress, Exhausted
  <2> QED
    BY <2>1, <2>2
<1>5. Exclusive'
  <2> SUFFICES ASSUME NEW p \in Requests, req'[p].stage = "inserted"
               PROVE  /\ req'[p].number = made + 1
                      /\ \A q \in Requests : req'[q].stage = "inserted" => q = p
    BY DEF Exclusive
  <2>1. CASE p = r
    BY <1>3, <2>1
  <2>2. CASE p # r
    BY <1>3, <2>2 DEF Exclusive
  <2> QED
    BY <2>1, <2>2
<1> QED
  BY <1>1, <1>2, <1>4, <1>5

LEMMA StepInv == IInv /\ [Next]_vars => IInv'
<1> SUFFICES ASSUME IInv, [Next]_vars PROVE IInv'
  OBVIOUS
<1> USE WidthAssumption, MaxAttemptsAssumption
<1>1. TypeOK /\ Counted /\ Exclusive /\ \A r \in Requests : Progress(r)
  BY DEF IInv
<1>2. CASE UNCHANGED vars
  BY <1>1, <1>2 DEF vars, IInv, TypeOK, Counted, Gapless, Exclusive, Progress, Exhausted
<1>3. ASSUME NEW r \in Requests, Admit(r) \/ Work(r) \/ Abort(r)
      PROVE  IInv'
  <2>1. req[r] \in Request /\ made \in Nat /\ made <= Limit + 1
    BY <1>1 DEF TypeOK, Counted
  <2>2. CASE Admit(r)
    <3> DEFINE n == [Idle EXCEPT !.stage = "looping", !.begin = made]
    <3>1. n \in Request /\ n.stage = "looping" /\ n.begin = made /\ n.attempt = 0
      BY <2>1, IdleTyped DEF Idle, Request, Stages
    <3>2. req' = [req EXCEPT ![r] = n] /\ UNCHANGED <<issued, notified, made>>
      BY <2>2 DEF Admit
    <3> HIDE DEF n
    <3>3. Progress(r)'
      BY <1>1, <2>1, <3>1, <3>2 DEF Progress, TypeOK
    <3> QED
      BY <3>1, <3>2, <3>3, OneRequest
  <2>3. CASE Draw(r)
    <3> DEFINE n == [req[r] EXCEPT !.stage = "drawn", !.number = NextTaskNo]
    <3>1. NextTaskNo = IF made <= Limit THEN made + 1 ELSE Limit + 1
      BY <1>1, <2>1, NextNumber DEF Counted, Gapless
    <3>2. /\ n \in Request /\ n.stage = "drawn" /\ n.number = NextTaskNo
          /\ n.begin = req[r].begin /\ n.attempt = req[r].attempt
      <4>1. NextTaskNo \in Nat
        BY <2>1, <3>1
      <4> QED
        BY <2>1, <4>1 DEF Request, Stages
    <3>3. req' = [req EXCEPT ![r] = n] /\ UNCHANGED <<issued, notified, made>>
      BY <2>3 DEF Draw
    <3>4. req[r].begin + req[r].attempt <= made \/ Exhausted
      BY <1>1, <2>3 DEF Draw, Progress
    <3> HIDE DEF n
    <3>5. req'[r] = n
      BY <1>1, <3>3 DEF TypeOK
    <3>6. Progress(r)'
      BY <2>1, <3>1, <3>2, <3>3, <3>4, <3>5 DEF Progress, Exhausted, Request
    <3> QED
      BY <3>2, <3>3, <3>6, OneRequest
  <2>4. CASE Insert(r)
    <3> DEFINE n == [req[r] EXCEPT !.stage = "inserted"]
    <3>1. /\ n \in Request /\ n.stage = "inserted" /\ n.number = req[r].number
          /\ n.begin = req[r].begin /\ n.attempt = req[r].attempt
      BY <2>1 DEF Request, Stages
    <3>2. req' = [req EXCEPT ![r] = n] /\ UNCHANGED <<issued, notified, made>>
      BY <2>4 DEF Insert
    <3>3. req[r].number = made + 1
      BY <1>1, <2>1, <2>4 DEF Insert, Progress, Counted, Gapless
    <3>4. \A q \in Requests : req[q].stage = "inserted" => q = r
      BY <1>1, <2>4, <3>3 DEF Insert, Waits, Exclusive
    <3> HIDE DEF n
    <3>5. req'[r] = n
      BY <1>1, <3>2 DEF TypeOK
    <3>6. Progress(r)'
      BY <1>1, <2>1, <2>4, <3>1, <3>2, <3>5 DEF Insert, Progress, Exhausted
    <3> QED
      BY <3>1, <3>2, <3>3, <3>4, <3>6, OneRequest
  <2>5. CASE Collide(r)
    <3> DEFINE n == IF LastAttempt(r) THEN Idle
                    ELSE [req[r] EXCEPT !.stage = "looping", !.attempt = req[r].attempt + 1]
    <3>1. req' = [req EXCEPT ![r] = n] /\ UNCHANGED <<issued, notified, made>>
      BY <2>5 DEF Collide
    <3>2. n \in Request /\ n.stage \in {"idle", "looping"}
      <4>1. CASE LastAttempt(r)
        BY <4>1, IdleTyped DEF Idle
      <4>2. CASE ~ LastAttempt(r)
        <5>1. req[r].attempt + 1 \in 0 .. MaxAttempts - 1
          BY <2>1, <4>2 DEF LastAttempt, Request
        <5> QED
          BY <2>1, <4>2, <5>1 DEF Request, Stages
      <4> QED
        BY <4>1, <4>2
    <3>3. n.stage = "looping" => /\ n.begin = req[r].begin
                                 /\ n.attempt = req[r].attempt + 1
      BY <2>1 DEF Idle, Request, LastAttempt
    <3>4. req[r].begin + req[r].attempt + 1 <= made \/ Exhausted
      BY <1>1, <2>1, <2>5 DEF Collide, Progress, Counted, Gapless, Request
    <3> HIDE DEF n
    <3>5. req'[r] = n
      BY <1>1, <3>1 DEF TypeOK
    <3>6. Progress(r)'
      BY <2>1, <3>1, <3>2, <3>3, <3>4, <3>5 DEF Progress, Exhausted, Request
    <3> QED
      BY <3>1, <3>2, <3>6, OneRequest
  <2>6. CASE Commit(r)
    <3>1. req[r].number = made + 1 /\ made + 1 <= Limit + 1
      BY <1>1, <2>6 DEF Commit, Exclusive, Progress
    <3>2. \A q \in Requests : req'[q] = IF q = r THEN Idle ELSE req[q]
      BY <1>1, <2>6 DEF Commit, TypeOK
    <3>3. TypeOK'
      <4>1. req[r].number \in Nat
        BY <2>1 DEF Request
      <4>2. req' \in [Requests -> Request]
        BY <1>1, <2>6, IdleTyped DEF Commit, TypeOK
      <4>3. issued' \subseteq Nat /\ notified' \subseteq Nat /\ made' \in Nat
        <5>1. /\ issued' = issued \cup {req[r].number}
              /\ notified' = notified \cup {req[r].number}
              /\ made' = made + 1
          BY <2>6 DEF Commit
        <5>2. issued \subseteq Nat /\ notified \subseteq Nat /\ made \in Nat
          BY <1>1 DEF TypeOK
        <5>3. \A S \in SUBSET Nat : S \cup {req[r].number} \subseteq Nat
          BY <4>1, Zenon
        <5>4. made + 1 \in Nat
          BY <5>2
        <5> QED
          BY <5>1, <5>2, <5>3, <5>4, Zenon
      <4> QED
        BY <4>2, <4>3 DEF TypeOK
    <3>4. Counted'
      BY <1>1, <2>1, <2>6, <3>1 DEF Commit, Counted, Gapless
    <3>5. made' = made + 1
      BY <2>6 DEF Commit
    <3>6. ASSUME NEW q \in Requests PROVE Progress(q)'
      <4>1. CASE q = r
        BY <3>2, <4>1 DEF Progress, Idle
      <4>2. CASE q # r
        <5>1. req'[q] = req[q] /\ Progress(q) /\ req[q] \in Request
          BY <1>1, <3>2, <4>2 DEF TypeOK
        <5>2. ~ Exhausted
          BY <2>1, <3>1 DEF Exhausted
        <5> QED
          BY <2>1, <3>5, <5>1, <5>2 DEF Progress, Request
      <4> QED
        BY <4>1, <4>2
    <3>7. Exclusive'
      BY <1>1, <2>6, <3>2 DEF Commit, Exclusive, Idle
    <3> QED
      BY <3>3, <3>4, <3>6, <3>7 DEF IInv
  <2>7. CASE Abort(r)
    <3>1. req' = [req EXCEPT ![r] = Idle] /\ UNCHANGED <<issued, notified, made>>
      BY <2>7 DEF Abort
    <3>2. Progress(r)' /\ Idle.stage = "idle"
      BY <1>1, <3>1 DEF Progress, TypeOK, Idle
    <3> QED
      BY <3>1, <3>2, IdleTyped, OneRequest
  <2> QED
    BY <1>3, <2>2, <2>3, <2>4, <2>5, <2>6, <2>7 DEF Work
<1> QED
  BY <1>2, <1>3 DEF Next

LEMMA Invariant == Spec => []IInv
BY InitInv, StepInv, PTL DEF Spec

\* The tasks are numbered without a gap or a duplicate, and every assignee is
\* told, for any number of concurrent createTask requests.
THEOREM Numbering == Spec => []Gapless
<1>1. IInv => Gapless
  BY DEF IInv, Counted
<1> QED
  BY Invariant, <1>1, PTL

\* The loop of createTask fails only a request during which MaxAttempts others
\* were served, or one that comes when the year has no number left.
THEOREM FairShare == Spec => []RetriesSuffice
<1>1. IInv => RetriesSuffice
  <2> SUFFICES ASSUME IInv, NEW r \in Requests, req[r].stage = "drawn",
                      req[r].number \in issued, LastAttempt(r)
               PROVE  made >= req[r].begin + MaxAttempts \/ made > Limit
    BY DEF RetriesSuffice
  <2>1. req[r] \in Request /\ made \in Nat /\ Progress(r) /\ issued = 1 .. made
    BY DEF IInv, TypeOK, Counted, Gapless
  <2> QED
    BY <2>1, WidthAssumption, MaxAttemptsAssumption
       DEF Progress, Exhausted, LastAttempt, Request
<1> QED
  BY Invariant, <1>1, PTL

\* The model's variables keep their types.
THEOREM NumbersTyped == Spec => []TypeOK
<1>1. IInv => TypeOK
  BY DEF IInv
<1> QED
  BY Invariant, <1>1, PTL
-----------------------------------------------------------------------------
(* The other half of createTask: whom it gives the task.  Accounts models what *)
(* it reads of the assignee before it draws a number, beside those who change  *)
(* the assignee meanwhile.                                                     *)

CONSTANTS Callers, Zones, TaskZone, MaxChanges, MaxTasks

VARIABLES account, zones, token, calls, tasks, changes

A == INSTANCE Accounts WITH Requests <- Callers, req <- calls

Inspects == account = [active |-> TRUE, inspector |-> TRUE, agency |-> A!Own]

\* What a request knows.  createTask: of the account and the zones, while nobody
\* has written what it read, that they passed its checks.  A supervisor's request:
\* that the account is of his agency.  updateZones: that the rows in its snapshot
\* are all the rows, until another replacement commits.
Knows(r) ==
    LET q == calls[r]
    IN  /\ q.stage = "opened" => q.op = "task"
        /\ q.op = "task" /\ "account" \in q.fresh => Inspects
        /\ q.op = "task" /\ "zones" \in q.fresh => TaskZone \in zones
        /\ q.op \in {"agency", "zones"} /\ ~q.admin /\ "account" \in q.fresh =>
              account.agency = A!Own
        /\ q.stage = "deleting" /\ "zones" \in q.fresh => q.seen = zones

AInv == A!TypeOK /\ \A r \in Callers : Knows(r)

LEMMA IdleCall ==
    /\ A!Idle \in A!Request
    /\ A!Idle.op = "none" /\ A!Idle.stage = "idle" /\ A!Idle.fresh = {}
BY DEF A!Idle, A!Request, A!Stages, A!Agencies, A!Own

LEMMA AInitInv == ASSUME MaxChanges \in Nat, MaxTasks \in Nat PROVE A!Init => AInv
<1> SUFFICES ASSUME A!Init PROVE AInv
  OBVIOUS
<1>1. A!TypeOK
  BY IdleCall DEF A!Init, A!TypeOK, A!NoToken, A!Claims, A!Agencies, A!Own
<1>2. ASSUME NEW r \in Callers PROVE Knows(r)
  BY IdleCall DEF A!Init, Knows
<1> QED
  BY <1>1, <1>2 DEF AInv

\* A step that changes nothing but one request keeps the invariant if what it
\* makes of the request does.
LEMMA OneCall ==
    ASSUME AInv, NEW r \in Callers, NEW n \in A!Request,
           calls' = [calls EXCEPT ![r] = n], UNCHANGED <<account, zones, changes>>,
           token' \in A!Claims, tasks' \in 0 .. MaxTasks,
           n.stage = "opened" => n.op = "task",
           n.op = "task" /\ "account" \in n.fresh => Inspects,
           n.op = "task" /\ "zones" \in n.fresh => TaskZone \in zones,
           n.op \in {"agency", "zones"} /\ ~n.admin /\ "account" \in n.fresh =>
              account.agency = A!Own,
           n.stage = "deleting" /\ "zones" \in n.fresh => n.seen = zones
    PROVE  AInv'
<1>1. A!TypeOK'
  BY DEF AInv, A!TypeOK
<1>2. ASSUME NEW q \in Callers PROVE Knows(q)'
  <2>1. calls'[q] = IF q = r THEN n ELSE calls[q]
    BY DEF AInv, A!TypeOK
  <2>2. Knows(q)
    BY DEF AInv
  <2> QED
    BY <2>1, <2>2 DEF Knows, Inspects
<1> QED
  BY <1>1, <1>2 DEF AInv

\* What a write leaves of the requests: those that end are idle, the others have
\* one thing less they may rely on.
Left(R, what, gone) ==
    \A q \in Callers :
       /\ calls'[q] \in A!Request
       /\ IF q \in R THEN calls'[q] = A!Idle
          ELSE /\ calls'[q].op = calls[q].op
               /\ calls'[q].stage = calls[q].stage
               /\ calls'[q].admin = calls[q].admin
               /\ calls'[q].fresh = calls[q].fresh \ {what}
               /\ calls'[q].seen = calls[q].seen \ gone

LEMMA AfterWrite ==
    ASSUME AInv, NEW R, NEW what, NEW gone, A!Wrote(R, what, gone)
    PROVE  calls' \in [Callers -> A!Request] /\ Left(R, what, gone)
<1>1. ASSUME NEW q \in Callers, q \notin R
      PROVE  /\ calls'[q] \in A!Request
             /\ calls'[q].op = calls[q].op
             /\ calls'[q].stage = calls[q].stage
             /\ calls'[q].admin = calls[q].admin
             /\ calls'[q].fresh = calls[q].fresh \ {what}
             /\ calls'[q].seen = calls[q].seen \ gone
  <2>1. calls'[q] = [calls[q] EXCEPT !.fresh = @ \ {what}, !.seen = @ \ gone]
    BY <1>1 DEF A!Wrote
  <2>2. calls[q] \in A!Request
    BY DEF AInv, A!TypeOK
  <2> QED
    BY <2>1, <2>2 DEF A!Request
<1>2. \A q \in Callers : q \in R => calls'[q] = A!Idle
  BY DEF A!Wrote
<1>3. calls' \in [Callers -> A!Request]
  <2>1. \A q \in Callers : calls'[q] \in A!Request
    BY <1>1, <1>2, IdleCall
  <2> QED
    BY <2>1 DEF A!Wrote
<1> QED
  BY <1>1, <1>2, <1>3, IdleCall DEF Left

\* A write of the account: nobody relies on the account any longer.
LEMMA AccountWritten ==
    ASSUME AInv, NEW R, A!Wrote(R, "account", {}),
           account' \in [active: BOOLEAN, inspector: BOOLEAN, agency: A!Agencies],
           token' \in A!Claims, changes' \in 0 .. MaxChanges, UNCHANGED <<zones, tasks>>
    PROVE  AInv'
<1>1. calls' \in [Callers -> A!Request] /\ Left(R, "account", {})
  BY AfterWrite
<1>2. A!TypeOK'
  BY <1>1 DEF AInv, A!TypeOK
<1>3. ASSUME NEW q \in Callers PROVE Knows(q)'
  <2>1. CASE q \in R
    BY <1>1, <2>1, IdleCall DEF Left, Knows
  <2>2. CASE q \notin R
    <3>1. /\ calls'[q].op = calls[q].op
          /\ calls'[q].stage = calls[q].stage
          /\ calls'[q].admin = calls[q].admin
          /\ calls'[q].fresh = calls[q].fresh \ {"account"}
          /\ calls'[q].seen = calls[q].seen \ {}
      BY <1>1, <2>2 DEF Left
    <3>2. Knows(q)
      BY DEF AInv
    <3> QED
      BY <3>1, <3>2 DEF Knows
  <2> QED
    BY <2>1, <2>2
<1> QED
  BY <1>2, <1>3 DEF AInv

\* A replacement of the zones: nobody relies on the zones any longer.
LEMMA ZonesWritten ==
    ASSUME MaxChanges \in Nat, AInv, NEW r \in Callers, A!CommitReplace(r)
    PROVE  AInv'
<1>1. A!Wrote({r}, "zones", calls[r].seen)
  BY DEF A!CommitReplace
<1>2. calls' \in [Callers -> A!Request] /\ Left({r}, "zones", calls[r].seen)
  BY <1>1, AfterWrite
<1>3. A!TypeOK'
  <2>1. calls' \in [Callers -> A!Request]
    BY <1>2
  <2>2. calls[r] \in A!Request
    BY DEF AInv, A!TypeOK
  <2>3. zones' \subseteq Zones
    <3>1. zones' = (zones \ calls[r].seen) \cup calls[r].wanted
      BY DEF A!CommitReplace
    <3>2. zones \subseteq Zones /\ calls[r].wanted \subseteq Zones
      BY <2>2 DEF AInv, A!TypeOK, A!Request
    <3> QED
      BY <3>1, <3>2
  <2>4. changes' \in 0 .. MaxChanges
    BY DEF AInv, A!TypeOK, A!CommitReplace, A!Count
  <2> QED
    BY <2>1, <2>3, <2>4 DEF AInv, A!TypeOK, A!CommitReplace
<1>4. ASSUME NEW q \in Callers PROVE Knows(q)'
  <2>1. CASE q = r
    BY <1>2, <2>1, IdleCall DEF Left, Knows
  <2>2. CASE q # r
    <3>1. /\ calls'[q].op = calls[q].op
          /\ calls'[q].stage = calls[q].stage
          /\ calls'[q].admin = calls[q].admin
          /\ calls'[q].fresh = calls[q].fresh \ {"zones"}
      BY <1>2, <2>2 DEF Left
    <3>2. Knows(q) /\ account' = account
      BY DEF AInv, A!CommitReplace
    <3> QED
      BY <3>1, <3>2 DEF Knows, Inspects
  <2> QED
    BY <2>1, <2>2
<1> QED
  BY <1>3, <1>4 DEF AInv

LEMMA AStepInv ==
    ASSUME MaxChanges \in Nat, MaxTasks \in Nat
    PROVE  AInv /\ [A!Next]_(A!vars) => AInv'
<1> SUFFICES ASSUME AInv, [A!Next]_(A!vars) PROVE AInv'
  OBVIOUS
<1>1. A!TypeOK /\ \A r \in Callers : Knows(r)
  BY DEF AInv
<1>2. CASE UNCHANGED A!vars
  BY <1>1, <1>2 DEF A!vars, AInv, A!TypeOK, Knows, Inspects
<1>3. CASE A!SetRoles
  <2>1. account' \in [active: BOOLEAN, inspector: BOOLEAN, agency: A!Agencies]
    BY <1>1, <1>3 DEF A!SetRoles, A!TypeOK
  <2>2. changes' \in 0 .. MaxChanges /\ token' \in A!Claims
    BY <1>1, <1>3 DEF A!SetRoles, A!TypeOK, A!Count
  <2> QED
    BY <1>3, <2>1, <2>2, AccountWritten DEF A!SetRoles
<1>4. CASE A!Suspend
  <2>1. account' \in [active: BOOLEAN, inspector: BOOLEAN, agency: A!Agencies]
    BY <1>1, <1>4 DEF A!Suspend, A!TypeOK
  <2>2. changes' \in 0 .. MaxChanges /\ token' \in A!Claims
    BY <1>1, <1>4 DEF A!Suspend, A!TypeOK, A!NoToken, A!Claims, A!Agencies, A!Own
  <2> QED
    BY <1>4, <2>1, <2>2, AccountWritten DEF A!Suspend
<1>5. CASE A!ExpireToken
  <2>1. token' \in A!Claims
    BY <1>5 DEF A!ExpireToken, A!NoToken, A!Claims, A!Agencies, A!Own
  <2> QED
    BY <1>1, <1>5, <2>1 DEF A!ExpireToken, AInv, A!TypeOK, Knows, Inspects
<1>6. ASSUME NEW r \in Callers, NEW agency \in A!Agencies, A!SetAgency(r, agency)
      PROVE  AInv'
  <2>1. account' \in [active: BOOLEAN, inspector: BOOLEAN, agency: A!Agencies]
    BY <1>1, <1>6 DEF A!SetAgency, A!TypeOK
  <2>2. changes' \in 0 .. MaxChanges /\ token' \in A!Claims
    BY <1>1, <1>6 DEF A!SetAgency, A!TypeOK, A!Count
  <2> QED
    BY <1>6, <2>1, <2>2, AccountWritten DEF A!SetAgency
<1>7. ASSUME NEW r \in Callers, A!CommitReplace(r)
      PROVE  AInv'
  BY <1>7, ZonesWritten
<1>8. ASSUME NEW r \in Callers, NEW admin \in BOOLEAN, NEW op \in {"agency", "zones"},
             A!ReadTarget(r, op, admin)
      PROVE  AInv'
  <2> DEFINE n == [A!Idle EXCEPT !.op = op, !.stage = "ready", !.admin = admin,
                                 !.fresh = {"account"}]
  <2>1. n \in A!Request /\ n.op # "task" /\ n.stage = "ready" /\ n.admin = admin
    BY IdleCall DEF A!Idle, A!Request, A!Stages
  <2>2. /\ calls' = [calls EXCEPT ![r] = n] /\ (admin \/ account.agency = A!Own)
        /\ UNCHANGED <<account, zones, token, tasks, changes>>
    BY <1>8 DEF A!ReadTarget, A!Enter
  <2> HIDE DEF n
  <2> QED
    BY <1>1, <2>1, <2>2, OneCall DEF A!TypeOK
<1>9. ASSUME NEW r \in Callers, NEW Z \in SUBSET Zones, A!BeginReplace(r, Z)
      PROVE  AInv'
  <2> DEFINE n == [calls[r] EXCEPT !.stage = "deleting", !.wanted = Z, !.seen = zones,
                                   !.fresh = calls[r].fresh \cup {"zones"}]
  <2>1. calls[r] \in A!Request /\ calls[r].op = "zones" /\ zones \subseteq Zones
    BY <1>1, <1>9 DEF A!TypeOK, A!BeginReplace, A!Ready
  <2>2. /\ n \in A!Request /\ n.op = "zones" /\ n.stage = "deleting" /\ n.seen = zones
        /\ n.admin = calls[r].admin /\ n.fresh = calls[r].fresh \cup {"zones"}
    BY <2>1 DEF A!Request, A!Stages
  <2>3. /\ calls' = [calls EXCEPT ![r] = n]
        /\ UNCHANGED <<account, zones, token, tasks, changes>>
    BY <1>9 DEF A!BeginReplace
  <2> HIDE DEF n
  <2>4. ~n.admin /\ "account" \in n.fresh => account.agency = A!Own
    BY <1>1, <2>1, <2>2 DEF Knows
  <2> QED
    BY <1>1, <2>2, <2>3, <2>4, OneCall DEF A!TypeOK
<1>10. ASSUME NEW r \in Callers, A!ReadAccount(r)
       PROVE  AInv'
  <2> DEFINE n == [A!Idle EXCEPT !.op = "login", !.stage = "ready",
                                 !.inspector = account.inspector, !.agency = account.agency]
  <2>1. n \in A!Request /\ n.op = "login" /\ n.stage = "ready"
    BY <1>1, IdleCall DEF A!TypeOK, A!Idle, A!Request, A!Stages
  <2>2. /\ calls' = [calls EXCEPT ![r] = n]
        /\ UNCHANGED <<account, zones, token, tasks, changes>>
    BY <1>10 DEF A!ReadAccount, A!Enter
  <2> HIDE DEF n
  <2> QED
    BY <1>1, <2>1, <2>2, OneCall DEF A!TypeOK
<1>11. ASSUME NEW r \in Callers, A!ReadAssignee(r)
       PROVE  AInv'
  <2> DEFINE n == [A!Idle EXCEPT !.op = "task", !.stage = "opened", !.fresh = {"account"}]
  <2>1. /\ n \in A!Request /\ n.op = "task" /\ n.stage = "opened" /\ n.fresh = {"account"}
    BY IdleCall DEF A!Idle, A!Request, A!Stages
  <2>2. /\ calls' = [calls EXCEPT ![r] = n]
        /\ UNCHANGED <<account, zones, token, tasks, changes>>
    BY <1>11 DEF A!ReadAssignee, A!Enter
  <2>3. Inspects
    BY <1>1, <1>11 DEF A!ReadAssignee, A!TypeOK, Inspects
  <2> HIDE DEF n
  <2> QED
    BY <1>1, <2>1, <2>2, <2>3, OneCall DEF A!TypeOK
<1>12. ASSUME NEW r \in Callers, A!LoadZones(r)
       PROVE  AInv'
  <2>1. calls[r] \in A!Request /\ calls[r].op = "task" /\ Knows(r)
    BY <1>1, <1>12 DEF A!TypeOK, A!LoadZones, Knows
  <2>2. UNCHANGED <<account, zones, token, tasks, changes>>
    BY <1>12 DEF A!LoadZones
  <2>3. CASE TaskZone \in zones
    <3> DEFINE n == [calls[r] EXCEPT !.stage = "ready", !.fresh = @ \cup {"zones"}]
    <3>1. /\ n \in A!Request /\ n.op = "task" /\ n.stage = "ready"
          /\ n.fresh = calls[r].fresh \cup {"zones"}
      BY <2>1 DEF A!Request, A!Stages
    <3>2. calls' = [calls EXCEPT ![r] = n]
      BY <1>12, <2>3 DEF A!LoadZones
    <3>3. "account" \in n.fresh => Inspects
      BY <2>1, <3>1 DEF Knows
    <3> HIDE DEF n
    <3> QED
      BY <1>1, <2>2, <2>3, <3>1, <3>2, <3>3, OneCall DEF A!TypeOK
  <2>4. CASE TaskZone \notin zones
    <3>1. calls' = [calls EXCEPT ![r] = A!Idle]
      BY <1>12, <2>4 DEF A!LoadZones
    <3> QED
      BY <1>1, <2>2, <3>1, IdleCall, OneCall DEF A!TypeOK
  <2> QED
    BY <2>3, <2>4
<1>13. ASSUME NEW r \in Callers, A!Sign(r) \/ A!CreateTask(r) \/ A!Abort(r)
       PROVE  AInv'
  <2>1. calls' = [calls EXCEPT ![r] = A!Idle] /\ UNCHANGED <<account, zones, changes>>
    BY <1>13 DEF A!Sign, A!CreateTask, A!Abort
  <2>2. token' \in A!Claims
    <3>1. calls[r] \in A!Request
      BY <1>1 DEF A!TypeOK
    <3>2. CASE A!Sign(r)
      BY <1>1, <3>1, <3>2 DEF A!Sign, A!TypeOK, A!Claims, A!Request
    <3>3. CASE A!CreateTask(r) \/ A!Abort(r)
      BY <1>1, <3>3 DEF A!CreateTask, A!Abort, A!TypeOK
    <3> QED
      BY <1>13, <3>2, <3>3
  <2>3. tasks' \in 0 .. MaxTasks
    BY <1>1, <1>13 DEF A!Sign, A!CreateTask, A!Abort, A!TypeOK
  <2> QED
    BY <2>1, <2>2, <2>3, IdleCall, OneCall
<1> QED
  BY <1>2, <1>3, <1>4, <1>5, <1>6, <1>7, <1>8, <1>9, <1>10, <1>11, <1>12, <1>13 DEF A!Next

LEMMA AInvariant ==
    ASSUME MaxChanges \in Nat, MaxTasks \in Nat
    PROVE  A!Spec => []AInv
BY AInitInv, AStepInv, PTL DEF A!Spec

\* The variables of Accounts keep their types.
THEOREM AccountsTyped ==
    ASSUME MaxChanges \in Nat, MaxTasks \in Nat
    PROVE  A!Spec => []A!TypeOK
<1>1. AInv => A!TypeOK
  BY DEF AInv
<1> QED
  BY AInvariant, <1>1, PTL

\* However many requests change the assignee while createTask reads him, the task
\* goes to an active inspector of the supervisor's agency who covers the zone, unless
\* one of them wrote what createTask had read.
THEOREM Fit ==
    ASSUME MaxChanges \in Nat, MaxTasks \in Nat
    PROVE  A!Spec => A!FitUnlessStale
<1>1. ASSUME AInv, A!Next, NEW r \in Callers, tasks' # tasks, calls'[r] # calls[r],
             calls[r].fresh = {"account", "zones"}
      PROVE  /\ account = [active |-> TRUE, inspector |-> TRUE, agency |-> A!Own]
             /\ TaskZone \in zones
  <2>1. PICK c \in Callers : A!CreateTask(c)
    BY <1>1 DEF A!Next, A!SetRoles, A!Suspend, A!ExpireToken, A!ReadTarget, A!SetAgency,
       A!BeginReplace, A!CommitReplace, A!ReadAccount, A!Sign, A!ReadAssignee, A!LoadZones,
       A!Abort
  <2>2. c = r
    BY <1>1, <2>1 DEF A!CreateTask, AInv, A!TypeOK
  <2>3. calls[r].op = "task" /\ Knows(r)
    BY <1>1, <2>1, <2>2 DEF A!CreateTask, A!Ready, AInv
  <2> QED
    BY <1>1, <2>3 DEF Knows, Inspects
<1>2. AInv /\ [A!Next]_(A!vars) =>
        (\A r \in Callers :
            tasks' # tasks /\ calls'[r] # calls[r]
                /\ calls[r].fresh = {"account", "zones"} =>
              /\ account = [active |-> TRUE, inspector |-> TRUE, agency |-> A!Own]
              /\ TaskZone \in zones)
  BY <1>1 DEF A!vars
<1> QED
  BY AInvariant, <1>2, PTL DEF A!Spec, A!FitUnlessStale, A!vars

\* The zones of an inspector change only as a set: to exactly what the request asked
\* for, unless another replacement committed after this one had taken its snapshot.
THEOREM Replaced ==
    ASSUME MaxChanges \in Nat, MaxTasks \in Nat
    PROVE  A!Spec => A!ReplacedUnlessOverlapped
<1>1. ASSUME AInv, A!Next, zones' # zones
      PROVE  \E r \in Callers : /\ calls[r].stage = "deleting" /\ calls'[r] = A!Idle
                                /\ zones' = calls[r].wanted \/ "zones" \notin calls[r].fresh
  <2>1. PICK r \in Callers : A!CommitReplace(r)
    BY <1>1 DEF A!Next, A!SetRoles, A!Suspend, A!ExpireToken, A!ReadTarget, A!SetAgency,
       A!BeginReplace, A!ReadAccount, A!Sign, A!ReadAssignee, A!LoadZones, A!CreateTask,
       A!Abort
  <2>2. calls[r].stage = "deleting" /\ calls'[r] = A!Idle
    BY <2>1 DEF A!CommitReplace, A!Wrote
  <2>3. "zones" \in calls[r].fresh => calls[r].seen = zones
    BY <1>1, <2>2 DEF AInv, Knows
  <2>4. zones' = (zones \ calls[r].seen) \cup calls[r].wanted
    BY <2>1 DEF A!CommitReplace
  <2> QED
    BY <2>2, <2>3, <2>4
<1>2. AInv /\ [A!Next]_(A!vars) =>
        (zones' # zones =>
           \E r \in Callers : /\ calls[r].stage = "deleting" /\ calls'[r] = A!Idle
                              /\ zones' = calls[r].wanted \/ "zones" \notin calls[r].fresh)
  BY <1>1 DEF A!vars
<1> QED
  BY AInvariant, <1>2, PTL DEF A!Spec, A!ReplacedUnlessOverlapped, A!vars

\* updateAgency and updateZones look for the account in one statement and write it in
\* another: what a supervisor may not do, he can do only to an account that changed
\* between the two.
THEOREM OwnAgencyOnly ==
    ASSUME MaxChanges \in Nat, MaxTasks \in Nat
    PROVE  A!Spec => A!JurisdictionUnlessStale
<1>1. ASSUME AInv, A!Next, NEW r \in Callers, calls[r].op \in {"agency", "zones"},
             ~calls[r].admin, "account" \in calls[r].fresh, calls'[r] = A!Idle,
             account' # account \/ zones' # zones
      PROVE  account.agency = A!Own /\ account'.agency = A!Own
  <2>1. account.agency = A!Own /\ calls[r] # A!Idle /\ calls[r] \in A!Request
    BY <1>1, IdleCall DEF AInv, Knows, A!TypeOK
  <2>2. ASSUME A!SetRoles \/ A!Suspend PROVE FALSE
    <3>1. A!Wrote({}, "account", {})
      BY <2>2 DEF A!SetRoles, A!Suspend
    <3>2. calls'[r].op = calls[r].op
      BY <1>1, <3>1, AfterWrite DEF Left
    <3> QED
      BY <1>1, <3>2, IdleCall
  <2>3. ASSUME NEW c \in Callers, NEW agency \in A!Agencies, A!SetAgency(c, agency)
        PROVE  account'.agency = A!Own
    <3>1. A!Wrote({c}, "account", {})
      BY <2>3 DEF A!SetAgency
    <3>2. c = r
      <4>1. c # r => calls'[r].op = calls[r].op
        BY <1>1, <3>1, AfterWrite DEF Left
      <4> QED
        BY <1>1, <4>1, IdleCall
    <3>3. agency = A!Own
      BY <1>1, <2>3, <3>2 DEF A!SetAgency
    <3> QED
      BY <1>1, <2>3, <3>3 DEF A!SetAgency, AInv, A!TypeOK
  <2>4. ASSUME NEW c \in Callers, A!CommitReplace(c)
        PROVE  account' = account
    BY <2>4 DEF A!CommitReplace
  <2>5. \/ A!SetRoles \/ A!Suspend
        \/ \E c \in Callers, agency \in A!Agencies : A!SetAgency(c, agency)
        \/ \E c \in Callers : A!CommitReplace(c)
    BY <1>1 DEF A!Next, A!ExpireToken, A!ReadTarget, A!BeginReplace, A!ReadAccount, A!Sign,
       A!ReadAssignee, A!LoadZones, A!CreateTask, A!Abort
  <2> QED
    BY <2>1, <2>2, <2>3, <2>4, <2>5
<1>2. AInv /\ [A!Next]_(A!vars) =>
        (\A r \in Callers :
          /\ calls[r].op \in {"agency", "zones"} /\ ~calls[r].admin /\ "account" \in calls[r].fresh
          /\ calls'[r] = A!Idle /\ (account' # account \/ zones' # zones)
          => account.agency = A!Own /\ account'.agency = A!Own)
  BY <1>1 DEF A!vars
<1> QED
  BY AInvariant, <1>2, PTL DEF A!Spec, A!JurisdictionUnlessStale, A!vars
=============================================================================

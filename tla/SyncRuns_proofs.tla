----------------------------- MODULE SyncRuns_proofs -----------------------------
(***************************************************************************)
(* Types, the rate limit, the businesses, the log and the age of the data  *)
(* of SyncRuns, for any number of requests and any records.  The invariant *)
(* says what a request that has looked something up, and has not been      *)
(* overtaken, still knows (Knows); a second layer, what a run alone in its *)
(* agency has brought the licenses to (Ages).                              *)
(***************************************************************************)
EXTENDS SyncRuns, TLAPS

\* A request about to store a record has one; a trigger that has passed the check and
\* was not overtaken would pass it again; a name that was looked up in vain and not
\* created by another is still missing.
Knows(r) ==
    /\ run[r].stage \in {"missing", "found"} => More(r)
    /\ run[r].stage = "cleared" /\ run[r].agency = "ACFS" /\ run[r].fresh => NoneRecent
    /\ run[r].stage = "missing" /\ run[r].fresh => businesses[Name(r)] = 0

IInv ==
    /\ TypeOK
    /\ \A r \in Requests : Knows(r)
    /\ OneRunPerWindow
    /\ OneBusinessPerName

USE RecordsType, NameOfType, MaxVersionType

LEMMA IdleTyped ==
    /\ Idle \in Run /\ Idle.stage = "idle" /\ Idle.next = 1
    /\ Idle.agency = "ACFS" /\ Idle.fresh = TRUE
  BY DEF Idle, Run, Agencies, Stages

LEMMA Lengths == \A a \in Agencies : Len(Records[a]) \in Nat /\ Records[a] \in Seq(Licenses)
  BY DEF Agencies

LEMMA InitInv == Init => IInv
<1> SUFFICES ASSUME Init PROVE IInv
  OBVIOUS
<1>1. \A r \in Requests : run[r] = Idle
  BY DEF Init
<1>2. TypeOK
  <2>1. run \in [Requests -> Run]
    BY IdleTyped DEF Init
  <2>2. \A r \in Requests : run[r].next <= Len(Records[run[r].agency]) + 1
    <3>1. "ACFS" \in Agencies /\ Len(Records["ACFS"]) \in Nat
      BY Lengths DEF Agencies
    <3>2. 1 <= Len(Records["ACFS"]) + 1
      BY <3>1
    <3> QED
      BY <1>1, <3>2, IdleTyped
  <2>3. slipped \in [runs: SUBSET Requests, businesses: [Names -> Nat]]
    BY DEF Init
  <2> QED
    BY <2>1, <2>2, <2>3 DEF Init, TypeOK, LogStatus
<1>3. \A r \in Requests : Knows(r)
  BY <1>1, IdleTyped DEF Knows
<1>4. OneRunPerWindow
  BY DEF Init, OneRunPerWindow
<1>5. OneBusinessPerName
  <2>1. slipped.businesses = [n \in Names |-> 0]
    BY DEF Init
  <2>2. ASSUME NEW n \in Names PROVE businesses[n] <= 1 + slipped.businesses[n]
    <3>1. slipped.businesses[n] = 0 /\ businesses[n] \in 0 .. 1
      BY <2>1 DEF Init
    <3> QED
      BY <3>1
  <2> QED
    BY <2>2 DEF OneBusinessPerName
<1> QED
  BY <1>2, <1>3, <1>4, <1>5 DEF IInv
-----------------------------------------------------------------------------
(* How requests change. *)

\* Request x is where it was, and what it has looked up was not overtaken.
Same(x) ==
    /\ run'[x].agency = run[x].agency
    /\ run'[x].stage = run[x].stage
    /\ run'[x].next = run[x].next
    /\ run'[x].fresh => run[x].fresh

LEMMA KnowsStill ==
    ASSUME NEW x \in Requests, Knows(x), Same(x),
           run[x].stage = "cleared" /\ run[x].agency = "ACFS" /\ run'[x].fresh /\ NoneRecent
              => NoneRecent',
           run[x].stage = "missing" /\ run'[x].fresh => businesses'[Name(x)] = businesses[Name(x)]
    PROVE  Knows(x)'
<1>1. (More(x)' <=> More(x)) /\ Name(x)' = Name(x)
  BY DEF Same, More, Rows, Name, Current
<1> QED
  BY <1>1 DEF Knows, Same

LEMMA SomeFields ==
    ASSUME NEW q \in Run, NEW b \in BOOLEAN
    PROVE  /\ [q EXCEPT !.fresh = b] \in Run /\ [q EXCEPT !.alone = b] \in Run
           /\ [q EXCEPT !.fresh = b].fresh = b /\ [q EXCEPT !.alone = b].fresh = q.fresh
           /\ [q EXCEPT !.fresh = b].agency = q.agency /\ [q EXCEPT !.alone = b].agency = q.agency
           /\ [q EXCEPT !.fresh = b].stage = q.stage /\ [q EXCEPT !.alone = b].stage = q.stage
           /\ [q EXCEPT !.fresh = b].next = q.next /\ [q EXCEPT !.alone = b].next = q.next
  BY DEF Run

\* The check of trigger depends on the agency of recent requests only.
LEMMA RecentKept ==
    ASSUME recent \subseteq Requests, recent' \subseteq recent,
           \A x \in recent : run'[x].agency = run[x].agency
    PROVE  NoneRecent => NoneRecent'
  BY DEF NoneRecent

LEMMA WindowKept ==
    ASSUME OneRunPerWindow, recent' \subseteq recent, slipped'.runs = slipped.runs,
           \A x \in recent : run'[x].agency = run[x].agency
    PROVE  OneRunPerWindow'
  BY DEF OneRunPerWindow

\* A step that moves one request and none of what the others have looked up.
LEMMA OneMoves ==
    ASSUME IInv, NEW r \in Requests, NEW n \in Run, run' = [run EXCEPT ![r] = n],
           n.agency = run[r].agency, n.next <= Len(Records[n.agency]) + 1,
           UNCHANGED <<recent, businesses, source, slipped>>,
           log' \in [Requests -> LogStatus], license' \in [Licenses -> 0 .. MaxVersion],
           Knows(r)'
    PROVE  IInv'
<1>1. run \in [Requests -> Run] /\ recent \subseteq Requests
  BY DEF IInv, TypeOK
<1>2. run'[r] = n /\ \A x \in Requests \ {r} : run'[x] = run[x]
  BY <1>1
<1>3. \A x \in Requests : run'[x].agency = run[x].agency
  BY <1>2
<1>4. run' \in [Requests -> Run]
  BY <1>1
<1>5. \A x \in Requests : run'[x].next <= Len(Records[run'[x].agency]) + 1
  BY <1>2 DEF IInv, TypeOK
<1>6. TypeOK'
  BY <1>4, <1>5 DEF IInv, TypeOK
<1>7. NoneRecent => NoneRecent'
  BY <1>1, <1>3, RecentKept
<1>8. ASSUME NEW x \in Requests \ {r} PROVE Knows(x)'
  BY <1>2, <1>7, KnowsStill DEF IInv, Same
<1>9. OneRunPerWindow'
  BY <1>1, <1>3, WindowKept DEF IInv
<1> QED
  BY <1>6, <1>8, <1>9 DEF IInv, OneBusinessPerName
-----------------------------------------------------------------------------
(* The records. *)

LEMMA LookUpInv == ASSUME IInv, NEW r \in Requests, LookUp(r) PROVE IInv'
<1>0. run \in [Requests -> Run] /\ run[r].next <= Len(Records[run[r].agency]) + 1
  BY DEF IInv, TypeOK
<1>1. PICK stage \in {"missing", "found"} :
         /\ run' = [run EXCEPT ![r].stage = stage]
         /\ stage = "missing" => businesses[Name(r)] = 0
  BY DEF LookUp
<1> DEFINE n == [run[r] EXCEPT !.stage = stage]
<1>2. /\ n \in Run /\ n.stage = stage /\ n.agency = run[r].agency /\ n.next = run[r].next
  BY <1>0 DEF Run, Stages
<1>3. run' = [run EXCEPT ![r] = n]
  BY <1>0, <1>1
<1> HIDE DEF n
<1>4. run'[r] = n
  BY <1>0, <1>3
<1>5. (More(r)' <=> More(r)) /\ Name(r)' = Name(r)
  BY <1>2, <1>4 DEF More, Rows, Name, Current
<1>6. UNCHANGED <<log, recent, businesses, license, source, slipped>> /\ More(r)
  BY DEF LookUp
<1>7. Knows(r)'
  BY <1>1, <1>2, <1>4, <1>5, <1>6 DEF Knows
<1>8. log' \in [Requests -> LogStatus] /\ license' \in [Licenses -> 0 .. MaxVersion]
  BY <1>6 DEF IInv, TypeOK
<1> QED
  BY <1>0, <1>2, <1>3, <1>6, <1>7, <1>8, OneMoves

LEMMA StoreInv == ASSUME IInv, NEW r \in Requests, Store(r) PROVE IInv'
<1>0. /\ run \in [Requests -> Run] /\ license \in [Licenses -> 0 .. MaxVersion]
      /\ log \in [Requests -> LogStatus]
  BY DEF IInv, TypeOK
<1> DEFINE n == [run[r] EXCEPT !.stage = "storing", !.next = @ + 1]
<1>2. /\ n \in Run /\ n.stage = "storing" /\ n.agency = run[r].agency
      /\ n.next = run[r].next + 1
  <2>1. run[r] \in Run /\ run[r].next + 1 \in Nat \ {0}
    BY <1>0 DEF Run
  <2> QED
    BY <2>1 DEF Run, Stages
<1>3. run' = [run EXCEPT ![r] = n]
  BY <1>0 DEF Store
<1> HIDE DEF n
<1>4. run[r].next <= Len(Records[run[r].agency])
  BY DEF Store, IInv, Knows, More, Rows
<1>5. n.next <= Len(Records[n.agency]) + 1
  <2>1. run[r].next \in Nat /\ run[r].agency \in Agencies
    BY <1>0 DEF Run
  <2>2. Len(Records[run[r].agency]) \in Nat
    BY <2>1, Lengths
  <2> QED
    BY <1>2, <1>4, <2>1, <2>2
<1>6. Knows(r)'
  BY <1>0, <1>2, <1>3 DEF Knows
<1>7. UNCHANGED <<log, recent, businesses, source, slipped>>
      /\ license' \in [Licenses -> 0 .. MaxVersion]
  <2>1. run[r].version \in 0 .. MaxVersion
    BY <1>0 DEF Run
  <2> QED
    BY <1>0, <2>1 DEF Store
<1> QED
  BY <1>0, <1>2, <1>3, <1>5, <1>6, <1>7, OneMoves

LEMMA LeaveInv ==
    ASSUME IInv, NEW r \in Requests, NEW stage \in {"over", "cut"}, Leave(r, stage),
           log' \in [Requests -> LogStatus],
           UNCHANGED <<recent, businesses, license, source, slipped>>
    PROVE  IInv'
<1>0. run \in [Requests -> Run] /\ license' \in [Licenses -> 0 .. MaxVersion]
  BY DEF IInv, TypeOK
<1> DEFINE n == [Idle EXCEPT !.stage = stage, !.agency = run[r].agency]
<1>1. run[r].agency \in Agencies
  BY <1>0 DEF Run
<1>2. /\ n \in Run /\ n.stage = stage /\ n.agency = run[r].agency /\ n.next = 1
  <2>1. n \in Run
    BY <1>1, IdleTyped DEF Run, Stages
  <2> QED
    BY <2>1 DEF Idle
<1>3. run' = [run EXCEPT ![r] = n]
  BY <1>0 DEF Leave
<1> HIDE DEF n
<1>5. n.next <= Len(Records[n.agency]) + 1
  BY <1>1, <1>2, Lengths
<1>6. Knows(r)'
  BY <1>0, <1>2, <1>3 DEF Knows
<1> QED
  BY <1>0, <1>2, <1>3, <1>5, <1>6, OneMoves

LEMMA EndInv ==
    ASSUME IInv, NEW r \in Requests, Succeed(r) \/ Fail(r) \/ CutOff(r) PROVE IInv'
<1>0. log \in [Requests -> LogStatus]
  BY DEF IInv, TypeOK
<1>1. CASE Succeed(r) \/ Fail(r)
  <2>1. PICK status \in {"SUCCESS", "FAILED"} : End(r, status)
    BY <1>1 DEF Succeed, Fail
  <2>2. log' \in [Requests -> LogStatus] /\ Leave(r, "over")
        /\ UNCHANGED <<recent, businesses, license, source, slipped>>
    BY <1>0, <2>1 DEF End, LogStatus
  <2> QED
    BY <2>2, LeaveInv
<1>2. CASE CutOff(r)
  <2>1. log' = log /\ Leave(r, "cut")
        /\ UNCHANGED <<recent, businesses, license, source, slipped>>
    BY <1>2 DEF CutOff
  <2> QED
    BY <1>0, <2>1, LeaveInv
<1> QED
  BY <1>1, <1>2
-----------------------------------------------------------------------------
(* Requests that others overtake. *)

\* Run requests change in their "fresh" and "alone" only, all but r.
OthersStay(r) == \A x \in Requests \ {r} : run'[x] \in Run /\ Same(x)

LEMMA OpenedKeeps ==
    ASSUME run \in [Requests -> Run], NEW r \in Requests, NEW v \in 0 .. MaxVersion,
           run' = Opened(r, v)
    PROVE  /\ OthersStay(r) /\ run' \in [Requests -> Run]
           /\ run'[r].agency = run[r].agency /\ run'[r].next = run[r].next
           /\ run'[r].stage = "storing"
<1>1. ASSUME NEW x \in Requests \ {r} PROVE run'[x] \in Run /\ Same(x)
  <2>1. run'[x] = run[x] \/ run'[x] = [run[x] EXCEPT !.alone = FALSE]
    BY DEF Opened
  <2>2. run[x] \in Run
    OBVIOUS
  <2>3. CASE run'[x] = run[x]
    BY <2>2, <2>3 DEF Same
  <2>4. CASE run'[x] = [run[x] EXCEPT !.alone = FALSE]
    BY <2>2, <2>4 DEF Same, Run
  <2> QED
    BY <2>1, <2>3, <2>4
<1>2. PICK b \in BOOLEAN :
         run'[r] = [run[r] EXCEPT !.stage = "storing", !.version = v, !.alone = b]
  BY DEF Opened
<1>3. /\ run'[r] \in Run /\ run'[r].agency = run[r].agency /\ run'[r].next = run[r].next
      /\ run'[r].stage = "storing"
  <2>1. run[r] \in Run
    OBVIOUS
  <2> QED
    BY <1>2, <2>1 DEF Run, Stages
<1>4. run' \in [Requests -> Run]
  BY <1>1, <1>3 DEF Opened
<1> QED
  BY <1>1, <1>3, <1>4 DEF OthersStay

LEMMA FetchInv == ASSUME IInv, NEW r \in Requests, Fetch(r) PROVE IInv'
<1>0. run \in [Requests -> Run] /\ source \in 0 .. MaxVersion /\ recent \subseteq Requests
  BY DEF IInv, TypeOK
<1>1. run' = Opened(r, source) /\ UNCHANGED <<log, recent, businesses, license, source, slipped>>
  BY DEF Fetch
<1>2. /\ OthersStay(r) /\ run' \in [Requests -> Run]
      /\ run'[r].agency = run[r].agency /\ run'[r].next = run[r].next
      /\ run'[r].stage = "storing"
  BY <1>0, <1>1, OpenedKeeps
<1>3. \A x \in Requests : run'[x].agency = run[x].agency /\ run'[x].next = run[x].next
  BY <1>2 DEF OthersStay, Same
<1>4. TypeOK'
  BY <1>1, <1>2, <1>3 DEF IInv, TypeOK
<1>5. NoneRecent => NoneRecent'
  BY <1>0, <1>1, <1>3, RecentKept
<1>6. ASSUME NEW x \in Requests PROVE Knows(x)'
  <2>1. CASE x = r
    BY <1>2, <2>1 DEF Knows
  <2>2. CASE x # r
    BY <1>1, <1>2, <1>5, <2>2, KnowsStill DEF IInv, OthersStay
  <2> QED
    BY <2>1, <2>2
<1>7. OneRunPerWindow'
  BY <1>0, <1>1, <1>3, WindowKept DEF IInv
<1> QED
  BY <1>1, <1>4, <1>6, <1>7 DEF IInv, OneBusinessPerName

LEMMA NameTyped ==
    ASSUME IInv, NEW x \in Requests, run[x].stage = "missing" PROVE Name(x) \in Names
<1>1. run[x] \in Run
  BY DEF IInv, TypeOK
<1>2. run[x].next \in Nat \ {0} /\ run[x].agency \in Agencies
  BY <1>1 DEF Run
<1>3. run[x].next <= Len(Records[run[x].agency])
  BY DEF IInv, Knows, More, Rows
<1>4. Records[run[x].agency] \in Seq(Licenses)
  BY <1>2, Lengths
<1>5. Records[run[x].agency][run[x].next] \in Licenses
  BY <1>2, <1>3, <1>4
<1> QED
  BY <1>5 DEF Name, Current, Rows

\* The business is created; whoever else found the name missing is overtaken.
LEMMA CreateBusinessInv == ASSUME IInv, NEW r \in Requests, CreateBusiness(r) PROVE IInv'
<1>0. /\ run \in [Requests -> Run] /\ recent \subseteq Requests
      /\ businesses \in [Names -> Nat] /\ slipped \in [runs: SUBSET Requests, businesses: [Names -> Nat]]
  BY DEF IInv, TypeOK
<1>1. PICK m : m = Name(r)
  OBVIOUS
<1>2. m \in Names
  BY <1>1, NameTyped DEF CreateBusiness
<1> DEFINE late(q) == run[q].stage = "missing" /\ Name(q) = m
           n == [run[r] EXCEPT !.stage = "found", !.fresh = TRUE]
           o(q) == [run[q] EXCEPT !.fresh = @ /\ ~late(q)]
<1>3. /\ run[r].stage = "missing"
      /\ businesses' = [businesses EXCEPT ![m] = @ + 1]
      /\ run' = [q \in Requests |-> IF q = r THEN n ELSE o(q)]
      /\ UNCHANGED <<log, recent, license, source>>
  BY <1>1 DEF CreateBusiness
<1>4. /\ slipped'.runs = slipped.runs
      /\ slipped'.businesses = [slipped.businesses EXCEPT ![m] = IF run[r].fresh THEN @ ELSE @ + 1]
  BY <1>0, <1>1 DEF CreateBusiness
<1>5. slipped' \in [runs: SUBSET Requests, businesses: [Names -> Nat]]
  <2>1. slipped'.businesses \in [Names -> Nat]
    BY <1>0, <1>2, <1>4
  <2>2. slipped' = [slipped EXCEPT !.businesses = slipped'.businesses]
    BY <1>0, <1>1 DEF CreateBusiness
  <2> QED
    BY <1>0, <2>1, <2>2
<1>6. /\ n \in Run /\ n.agency = run[r].agency /\ n.next = run[r].next /\ n.stage = "found"
      /\ n.fresh = TRUE
  BY <1>0 DEF Run, Stages
<1>7. ASSUME NEW q \in Requests
      PROVE  /\ o(q) \in Run /\ o(q).agency = run[q].agency /\ o(q).next = run[q].next
             /\ o(q).stage = run[q].stage /\ o(q).fresh = (run[q].fresh /\ ~late(q))
  <2> DEFINE b == run[q].fresh /\ ~late(q)
  <2>1. b \in BOOLEAN /\ run[q] \in Run
    BY <1>0
  <2>2. o(q) = [run[q] EXCEPT !.fresh = b]
    OBVIOUS
  <2> HIDE DEF b, o, late
  <2>3. o(q) \in Run /\ o(q).agency = run[q].agency /\ o(q).next = run[q].next
        /\ o(q).stage = run[q].stage /\ o(q).fresh = b
    BY <2>1, <2>2 DEF Run
  <2> QED
    BY <2>3 DEF b
<1> HIDE DEF n, o
<1>8. run'[r] = n /\ \A x \in Requests \ {r} : run'[x] = o(x)
  BY <1>3
<1>9. \A x \in Requests : run'[x].agency = run[x].agency /\ run'[x].next = run[x].next
  BY <1>6, <1>7, <1>8
<1>10. run' \in [Requests -> Run]
  BY <1>3, <1>6, <1>7
<1>11. TypeOK'
  <2>1. businesses' \in [Names -> Nat]
    BY <1>0, <1>2, <1>3
  <2> QED
    BY <1>3, <1>5, <1>9, <1>10, <2>1 DEF IInv, TypeOK
<1>12. NoneRecent => NoneRecent'
  BY <1>0, <1>3, <1>9, RecentKept
<1>13. ASSUME NEW x \in Requests PROVE Knows(x)'
  <2>1. CASE x = r
    <3>1. More(r)' <=> More(r)
      BY <1>9 DEF More, Rows
    <3> QED
      BY <1>3, <1>6, <1>8, <2>1, <3>1 DEF IInv, Knows
  <2>2. CASE x # r
    <3>1. Same(x)
      BY <1>7, <1>8, <2>2 DEF Same
    <3>2. run[x].stage = "missing" /\ run'[x].fresh => businesses'[Name(x)] = businesses[Name(x)]
      <4>1. ASSUME run[x].stage = "missing", run'[x].fresh PROVE Name(x) # m /\ Name(x) \in Names
        BY <1>7, <1>8, <2>2, <4>1, NameTyped
      <4> QED
        BY <1>0, <1>3, <4>1
    <3> QED
      BY <1>12, <3>1, <3>2, KnowsStill DEF IInv
  <2> QED
    BY <2>1, <2>2
<1>14. OneRunPerWindow'
  BY <1>0, <1>3, <1>4, <1>9, WindowKept DEF IInv
<1>15. ASSUME NEW k \in Names PROVE (businesses[k] <= 1 + slipped.businesses[k])'
  <2>1. businesses[k] <= 1 + slipped.businesses[k] /\ businesses[k] \in Nat
        /\ slipped.businesses[k] \in Nat
    BY <1>0 DEF IInv, OneBusinessPerName
  <2>2. CASE k # m
    BY <1>0, <1>3, <1>4, <2>1, <2>2
  <2>3. CASE k = m /\ run[r].fresh
    <3>1. businesses[m] = 0
      BY <1>1, <1>3, <2>3 DEF IInv, Knows
    <3>2. businesses'[m] = 1 /\ slipped'.businesses[m] = slipped.businesses[m]
      BY <1>0, <1>2, <1>3, <1>4, <2>3, <3>1
    <3> QED
      BY <2>1, <2>3, <3>2
  <2>4. CASE k = m /\ ~run[r].fresh
    <3>1. businesses'[m] = businesses[m] + 1 /\ slipped'.businesses[m] = slipped.businesses[m] + 1
      BY <1>0, <1>2, <1>3, <1>4, <2>4
    <3> QED
      BY <2>1, <2>4, <3>1
  <2> QED
    BY <2>2, <2>3, <2>4
<1> QED
  BY <1>11, <1>13, <1>14, <1>15 DEF IInv, OneBusinessPerName
-----------------------------------------------------------------------------
(* A run begins. *)

\* Request r, whose row is out of the window, is used again for q, which knows what
\* it has read.
LEMMA ReceiveInv ==
    ASSUME IInv, NEW r \in Requests, NEW q \in Run, Receive(r, q), r \notin recent,
           q.next = 1, q.stage = "cleared", q.agency = "ACFS" => NoneRecent
    PROVE  IInv'
<1>0. /\ run \in [Requests -> Run] /\ recent \subseteq Requests
      /\ slipped \in [runs: SUBSET Requests, businesses: [Names -> Nat]]
      /\ log \in [Requests -> LogStatus]
  BY DEF IInv, TypeOK
<1>1. /\ run' = [run EXCEPT ![r] = q] /\ log' = [log EXCEPT ![r] = "none"]
      /\ slipped' = [slipped EXCEPT !.runs = @ \ {r}]
      /\ UNCHANGED <<recent, businesses, license, source>>
  BY DEF Receive
<1>2. run'[r] = q /\ \A x \in Requests \ {r} : run'[x] = run[x]
  BY <1>0, <1>1
<1>3. \A x \in recent : x \in Requests /\ run'[x].agency = run[x].agency
  BY <1>0, <1>2
<1>4. /\ slipped' \in [runs: SUBSET Requests, businesses: [Names -> Nat]]
      /\ slipped'.runs = slipped.runs \ {r} /\ slipped'.businesses = slipped.businesses
  BY <1>0, <1>1
<1>5. \A x \in Requests : run'[x].next <= Len(Records[run'[x].agency]) + 1
  <2>1. q.next <= Len(Records[q.agency]) + 1
    <3>1. q.agency \in Agencies
      BY DEF Run
    <3>2. Len(Records[q.agency]) \in Nat
      BY <3>1, Lengths
    <3> QED
      BY <3>2
  <2> QED
    BY <1>2, <2>1 DEF IInv, TypeOK
<1>6. TypeOK'
  <2>1. run' \in [Requests -> Run] /\ log' \in [Requests -> LogStatus]
    BY <1>0, <1>1 DEF LogStatus
  <2> QED
    BY <1>1, <1>4, <1>5, <2>1 DEF IInv, TypeOK
<1>7. NoneRecent => NoneRecent'
  BY <1>0, <1>1, <1>3, RecentKept
<1>8. ASSUME NEW x \in Requests PROVE Knows(x)'
  <2>1. CASE x = r
    BY <1>2, <1>7, <2>1 DEF Knows
  <2>2. CASE x # r
    BY <1>1, <1>2, <1>7, <2>2, KnowsStill DEF IInv, Same
  <2> QED
    BY <2>1, <2>2
<1>9. OneRunPerWindow'
  BY <1>1, <1>3, <1>4 DEF IInv, OneRunPerWindow
<1> QED
  BY <1>1, <1>4, <1>6, <1>8, <1>9 DEF IInv, OneBusinessPerName

LEMMA FirstInv ==
    ASSUME IInv, NEW r \in Requests, Trigger(r) \/ Import(r) PROVE IInv'
<1>1. CASE Trigger(r)
  <2> DEFINE q == [Idle EXCEPT !.stage = "cleared"]
  <2>1. q \in Run
    BY IdleTyped DEF Run, Stages
  <2>2. q.next = 1 /\ q.stage = "cleared"
    BY DEF Idle
  <2>3. Receive(r, q) /\ NoneRecent /\ r \notin recent
    BY <1>1 DEF Trigger, Receive, Free
  <2> HIDE DEF q
  <2> QED
    BY <2>1, <2>2, <2>3, ReceiveInv
<1>2. CASE Import(r)
  <2>1. PICK v \in 1 .. source :
           Receive(r, [Idle EXCEPT !.agency = "DIW", !.stage = "cleared", !.version = v])
    BY <1>2 DEF Import
  <2> DEFINE q == [Idle EXCEPT !.agency = "DIW", !.stage = "cleared", !.version = v]
  <2>2. v \in 0 .. MaxVersion
    BY DEF IInv, TypeOK
  <2>3. q \in Run
    BY <2>2, IdleTyped DEF Run, Stages, Agencies
  <2>4. q.next = 1 /\ q.stage = "cleared" /\ q.agency = "DIW"
    BY DEF Idle
  <2>5. Receive(r, q) /\ r \notin recent
    BY <2>1 DEF Receive, Free
  <2> HIDE DEF q
  <2> QED
    BY <2>3, <2>4, <2>5, ReceiveInv
<1> QED
  BY <1>1, <1>2

\* The row is created; a trigger that passed the check before is overtaken.
LEMMA BeginKeeps ==
    ASSUME IInv, NEW r \in Requests, Begin(r)
    PROVE  /\ OthersStay(r) /\ run' \in [Requests -> Run]
           /\ run'[r].agency = run[r].agency /\ run'[r].next = run[r].next
           /\ run'[r].stage \in {"begun", "storing"}
           /\ \A x \in Requests \ {r} : run[r].agency = "ACFS" /\ run[x].stage = "cleared"
                 /\ run[x].agency = "ACFS" => ~run'[x].fresh
<1>0. run \in [Requests -> Run]
  BY DEF IInv, TypeOK
<1>1. CASE run[r].agency # "ACFS"
  <2>1. run' = Opened(r, run[r].version)
    BY <1>1 DEF Begin
  <2>2. run[r].version \in 0 .. MaxVersion
    BY <1>0 DEF Run
  <2> QED
    BY <1>0, <1>1, <2>1, <2>2, OpenedKeeps
<1>2. CASE run[r].agency = "ACFS"
  <2> DEFINE late(q) == run[q].stage = "cleared" /\ run[q].agency = "ACFS"
             n == [run[r] EXCEPT !.stage = "begun", !.fresh = TRUE]
             o(q) == [run[q] EXCEPT !.fresh = @ /\ ~late(q)]
  <2>1. run' = [q \in Requests |-> IF q = r THEN n ELSE o(q)]
    BY <1>2 DEF Begin
  <2>2. n \in Run /\ n.agency = run[r].agency /\ n.next = run[r].next /\ n.stage = "begun"
    BY <1>0 DEF Run, Stages
  <2>3. ASSUME NEW q \in Requests
        PROVE  /\ o(q) \in Run /\ o(q).agency = run[q].agency /\ o(q).next = run[q].next
               /\ o(q).stage = run[q].stage /\ o(q).fresh = (run[q].fresh /\ ~late(q))
    <3> DEFINE b == run[q].fresh /\ ~late(q)
    <3>1. b \in BOOLEAN /\ run[q] \in Run
      BY <1>0
    <3>2. o(q) = [run[q] EXCEPT !.fresh = b]
      OBVIOUS
    <3> HIDE DEF b, o, late
    <3>3. o(q) \in Run /\ o(q).agency = run[q].agency /\ o(q).next = run[q].next
          /\ o(q).stage = run[q].stage /\ o(q).fresh = b
      BY <3>1, <3>2 DEF Run
    <3> QED
      BY <3>3 DEF b
  <2> HIDE DEF n, o
  <2>4. run'[r] = n /\ \A x \in Requests \ {r} : run'[x] = o(x)
    BY <2>1
  <2>5. OthersStay(r)
    BY <2>3, <2>4 DEF OthersStay, Same
  <2>6. run' \in [Requests -> Run]
    BY <2>1, <2>2, <2>3
  <2> QED
    BY <2>2, <2>3, <2>4, <2>5, <2>6
<1> QED
  BY <1>1, <1>2

LEMMA BeginInv == ASSUME IInv, NEW r \in Requests, Begin(r) PROVE IInv'
<1>0. /\ run \in [Requests -> Run] /\ recent \subseteq Requests
      /\ slipped \in [runs: SUBSET Requests, businesses: [Names -> Nat]]
      /\ log \in [Requests -> LogStatus]
  BY DEF IInv, TypeOK
<1>1. /\ run[r].stage = "cleared" /\ log' = [log EXCEPT ![r] = "RUNNING"]
      /\ recent' = recent \cup {r} /\ UNCHANGED <<businesses, license, source>>
      /\ slipped' = [slipped EXCEPT !.runs = IF run[r].fresh THEN @ ELSE @ \cup {r}]
  BY DEF Begin
<1>2. /\ OthersStay(r) /\ run' \in [Requests -> Run]
      /\ run'[r].agency = run[r].agency /\ run'[r].next = run[r].next
      /\ run'[r].stage \in {"begun", "storing"}
  BY BeginKeeps
<1>3. \A x \in Requests : run'[x].agency = run[x].agency /\ run'[x].next = run[x].next
  BY <1>2 DEF OthersStay, Same
<1>4. /\ slipped' \in [runs: SUBSET Requests, businesses: [Names -> Nat]]
      /\ slipped'.businesses = slipped.businesses /\ slipped.runs \subseteq slipped'.runs
      /\ ~run[r].fresh => r \in slipped'.runs
  BY <1>0, <1>1
<1>5. TypeOK'
  <2>1. log' \in [Requests -> LogStatus] /\ recent' \subseteq Requests
    BY <1>0, <1>1 DEF LogStatus
  <2> QED
    BY <1>1, <1>2, <1>3, <1>4, <2>1 DEF IInv, TypeOK
<1>6. ASSUME NEW x \in Requests PROVE Knows(x)'
  <2>1. CASE x = r
    BY <1>2, <2>1 DEF Knows
  <2>2. CASE x # r
    <3>1. ASSUME run[x].stage = "cleared", run[x].agency = "ACFS", run'[x].fresh, NoneRecent
          PROVE  NoneRecent'
      <4>1. run[r].agency # "ACFS"
        BY <2>2, <3>1, BeginKeeps
      <4> QED
        BY <1>0, <1>1, <1>3, <3>1, <4>1 DEF NoneRecent
    <3> QED
      BY <1>1, <1>2, <2>2, <3>1, KnowsStill DEF IInv, OthersStay
  <2> QED
    BY <2>1, <2>2
<1>7. OneRunPerWindow'
  <2> SUFFICES ASSUME NEW p \in (recent \ slipped.runs)', NEW q \in (recent \ slipped.runs)',
                      run'[p].agency = "ACFS", run'[q].agency = "ACFS"
               PROVE  p = q
    BY DEF OneRunPerWindow
  <2>1. p \in Requests /\ q \in Requests /\ run[p].agency = "ACFS" /\ run[q].agency = "ACFS"
    BY <1>0, <1>1, <1>3
  <2>2. CASE p # r /\ q # r
    BY <1>1, <1>4, <2>1, <2>2 DEF IInv, OneRunPerWindow
  <2>3. ASSUME p = r \/ q = r PROVE \A x \in recent : run[x].agency # "ACFS"
    <3>1. run[r].fresh
      BY <1>4, <2>3
    <3> QED
      BY <1>1, <2>1, <2>3, <3>1 DEF IInv, Knows, NoneRecent
  <2> QED
    BY <1>1, <2>1, <2>2, <2>3
<1> QED
  BY <1>1, <1>4, <1>5, <1>6, <1>7 DEF IInv, OneBusinessPerName
-----------------------------------------------------------------------------
LEMMA TimeInv ==
    ASSUME IInv, Publish \/ \E r \in Requests : Age(r) PROVE IInv'
<1>0. recent \subseteq Requests /\ source \in 1 .. MaxVersion
  BY DEF IInv, TypeOK
<1>1. /\ recent' \subseteq recent /\ source' \in 1 .. MaxVersion
      /\ UNCHANGED <<run, log, businesses, license, slipped>>
  BY <1>0 DEF Publish, Age
<1>2. TypeOK'
  BY <1>0, <1>1 DEF IInv, TypeOK
<1>3. NoneRecent => NoneRecent'
  BY <1>0, <1>1, RecentKept
<1>4. ASSUME NEW x \in Requests PROVE Knows(x)'
  BY <1>1, <1>3, KnowsStill DEF IInv, Same
<1>5. OneRunPerWindow'
  BY <1>1, WindowKept DEF IInv
<1> QED
  BY <1>1, <1>2, <1>4, <1>5 DEF IInv, OneBusinessPerName

LEMMA NextInv == IInv /\ [Next]_vars => IInv'
<1> SUFFICES ASSUME IInv, [Next]_vars PROVE IInv'
  OBVIOUS
<1>1. CASE UNCHANGED vars
  <2>1. UNCHANGED <<run, log, recent, businesses, license, source, slipped>>
    BY <1>1 DEF vars
  <2>2. \A x \in Requests : Knows(x)' <=> Knows(x)
    BY <2>1 DEF Knows, More, Rows, Name, Current, NoneRecent
  <2> QED
    BY <2>1, <2>2 DEF IInv, TypeOK, OneRunPerWindow, OneBusinessPerName
<1>2. ASSUME NEW r \in Requests, Proceed(r) PROVE IInv'
  BY <1>2, BeginInv, FetchInv, LookUpInv, CreateBusinessInv, StoreInv, EndInv DEF Proceed
<1>3. ASSUME NEW r \in Requests, Trigger(r) \/ Import(r) PROVE IInv'
  BY <1>3, FirstInv
<1>4. CASE Publish \/ \E r \in Requests : Age(r)
  BY <1>4, TimeInv
<1> QED
  BY <1>1, <1>2, <1>3, <1>4 DEF Next

\* The runs, the log and the rows keep their types; no run goes past its last record.
THEOREM RunsTyped == Spec => []TypeOK
<1>1. IInv => TypeOK
  BY DEF IInv
<1> QED
  BY <1>1, InitInv, NextInv, PTL DEF Spec

\* trigger: within five minutes there is one run of ACFS, but for those that had passed
\* the check before it began, for any number of requests.
THEOREM RateLimited == Spec => []OneRunPerWindow
<1>1. IInv => OneRunPerWindow
  BY DEF IInv
<1> QED
  BY <1>1, InitInv, NextInv, PTL DEF Spec

\* upsert: a business is created twice only by requests that had both looked for it
\* before, for any records.
THEOREM NamesOnce == Spec => []OneBusinessPerName
<1>1. IInv => OneBusinessPerName
  BY DEF IInv
<1> QED
  BY <1>1, InitInv, NextInv, PTL DEF Spec
-----------------------------------------------------------------------------
(* What a run alone in its agency has brought the licenses to.  licenses.licenseNo *)
(* is unique in the table, not in an agency: the agencies number apart.            *)

OwnNumbers ==
    \A i \in 1 .. Len(Records["ACFS"]), j \in 1 .. Len(Records["DIW"]) :
        Records["ACFS"][i] # Records["DIW"][j]

Brought(r) ==
    Storing(r) /\ run[r].alone =>
        /\ \A i \in 1 .. run[r].next - 1 : license[Rows(r)[i]] = run[r].version
        /\ run[r].agency = "ACFS" =>
              \A i \in 1 .. Len(Rows(r)) : license[Rows(r)[i]] <= run[r].version

\* Nothing is newer than the source; a run that stores knows whether it is alone.
Ages ==
    /\ \A l \in Licenses : license[l] <= source
    /\ \A r \in Requests : run[r].version <= source
    /\ \A r \in Requests : ~Storing(r) => run[r].next = 1
    /\ \A q, r \in Requests :
          q # r /\ Storing(q) /\ Storing(r) /\ run[q].agency = run[r].agency => ~run[r].alone
    /\ \A r \in Requests : Brought(r)

LEMMA AgesInit == Init => Ages
<1> SUFFICES ASSUME Init PROVE Ages
  OBVIOUS
<1>1. /\ \A r \in Requests : run[r].stage = "idle" /\ run[r].next = 1 /\ run[r].version = 0
      /\ source = 1 /\ \A l \in Licenses : license[l] = 0
  BY DEF Init, Idle
<1>2. \A r \in Requests : ~Storing(r)
  BY <1>1 DEF Storing
<1> QED
  BY <1>1, <1>2 DEF Ages, Brought

LEMMA Ranges ==
    ASSUME IInv, NEW r \in Requests
    PROVE  /\ run[r].agency \in Agencies /\ run[r].next \in Nat \ {0} /\ run[r].version \in Nat
           /\ Len(Rows(r)) \in Nat /\ run[r].next <= Len(Rows(r)) + 1
           /\ \A i \in 1 .. Len(Rows(r)) : Rows(r)[i] \in Licenses
           /\ \A l \in Licenses : license[l] \in Nat
           /\ source \in Nat
<1>1. run[r] \in Run /\ license \in [Licenses -> 0 .. MaxVersion] /\ source \in 1 .. MaxVersion
  BY DEF IInv, TypeOK
<1>2. run[r].agency \in Agencies /\ run[r].next \in Nat \ {0} /\ run[r].version \in Nat
  BY <1>1 DEF Run
<1>3. Rows(r) \in Seq(Licenses)
  BY <1>2, Lengths DEF Rows
<1>4. run[r].next <= Len(Rows(r)) + 1
  BY DEF IInv, TypeOK, Rows
<1> QED
  BY <1>1, <1>2, <1>3, <1>4

\* Request x stores what it stored, at the same place.
Still(x) ==
    /\ Storing(x)' <=> Storing(x)
    /\ run'[x].agency = run[x].agency
    /\ run'[x].next = run[x].next
    /\ run'[x].version = run[x].version
    /\ run'[x].alone = run[x].alone

\* A step that stores nothing and lets nobody begin to.
LEMMA AgesStill ==
    ASSUME IInv, Ages, license' = license, source' \in Nat, source <= source',
           \A x \in Requests :
              Still(x) \/ (~Storing(x)' /\ run'[x].next = 1 /\ run'[x].version <= source')
    PROVE  Ages'
<1>1. \A l \in Licenses : license'[l] <= source'
  BY Ranges DEF Ages, IInv, TypeOK
<1>2. \A x \in Requests : run'[x].version <= source'
  BY Ranges DEF Ages, Still
<1>3. \A x \in Requests : ~Storing(x)' => run'[x].next = 1
  BY DEF Ages, Still
<1>4. \A q, x \in Requests :
         q # x /\ Storing(q)' /\ Storing(x)' /\ run'[q].agency = run'[x].agency => ~run'[x].alone
  BY DEF Ages, Still
<1>5. ASSUME NEW x \in Requests, Storing(x)' PROVE Brought(x)'
  <2>1. Still(x) /\ Brought(x)
    BY <1>5 DEF Ages
  <2>2. Rows(x)' = Rows(x)
    BY <2>1 DEF Still, Rows
  <2> QED
    BY <2>1, <2>2 DEF Still, Brought
<1>6. \A x \in Requests : Brought(x)'
  BY <1>5 DEF Brought
<1> QED
  BY <1>1, <1>2, <1>3, <1>4, <1>6 DEF Ages

\* A run begins to store: what it has is at least as new as all there is, if it was fetched.
LEMMA AgesOpened ==
    ASSUME IInv, Ages, NEW r \in Requests, NEW v \in 0 .. MaxVersion, run' = Opened(r, v),
           ~Storing(r), v <= source, run[r].agency = "ACFS" => v = source,
           UNCHANGED <<license, source>>
    PROVE  Ages'
<1>0. run \in [Requests -> Run]
  BY DEF IInv, TypeOK
<1>1. /\ run'[r].stage = "storing" /\ run'[r].version = v /\ run'[r].next = 1
      /\ run'[r].agency = run[r].agency /\ run'[r].alone = (Rivals(r) = {})
  <2>1. run'[r] = [run[r] EXCEPT !.stage = "storing", !.version = v, !.alone = (Rivals(r) = {})]
    BY DEF Opened
  <2>2. run[r].next = 1 /\ run[r] \in Run
    BY <1>0 DEF Ages
  <2> QED
    BY <2>1, <2>2 DEF Run
<1>2. ASSUME NEW x \in Requests, x # r
      PROVE  /\ run'[x].stage = run[x].stage /\ run'[x].version = run[x].version
             /\ run'[x].next = run[x].next /\ run'[x].agency = run[x].agency
             /\ run'[x].alone = (run[x].alone /\ x \notin Rivals(r))
  <2>1. run[x] \in Run
    BY <1>0
  <2>2. CASE x \in Rivals(r)
    <3>1. run'[x] = [run[x] EXCEPT !.alone = FALSE]
      BY <1>2, <2>2 DEF Opened
    <3> QED
      BY <2>1, <2>2, <3>1 DEF Run
  <2>3. CASE x \notin Rivals(r)
    <3>1. run'[x] = run[x] /\ run[x].alone \in BOOLEAN
      BY <1>2, <2>1, <2>3 DEF Opened, Run
    <3> QED
      BY <2>3, <3>1
  <2> QED
    BY <2>2, <2>3
<1>3. Storing(r)' /\ \A x \in Requests : x # r => (Storing(x)' <=> Storing(x))
  BY <1>1, <1>2 DEF Storing
<1>4. \A x \in Requests : Rows(x)' = Rows(x)
  BY <1>1, <1>2 DEF Rows
<1>5. \A x \in Requests : run'[x].version <= source
  BY <1>1, <1>2 DEF Ages
<1>6. \A x \in Requests : ~Storing(x)' => run'[x].next = 1
  BY <1>1, <1>2, <1>3 DEF Ages
<1>7. ASSUME NEW q \in Requests, NEW x \in Requests, q # x, Storing(q)', Storing(x)',
             run'[q].agency = run'[x].agency
      PROVE  ~run'[x].alone
  <2>1. CASE x = r
    <3>1. q \in Rivals(r)
      BY <1>1, <1>2, <1>3, <1>7, <2>1 DEF Rivals
    <3> QED
      BY <1>1, <2>1, <3>1
  <2>2. CASE q = r
    <3>1. x \in Rivals(r)
      BY <1>1, <1>2, <1>3, <1>7, <2>2 DEF Rivals
    <3> QED
      BY <1>2, <1>7, <2>2, <3>1
  <2>3. CASE x # r /\ q # r
    BY <1>2, <1>3, <1>7, <2>3 DEF Ages
  <2> QED
    BY <2>1, <2>2, <2>3
<1>8. ASSUME NEW x \in Requests PROVE Brought(x)'
  <2>1. CASE x = r
    <3>1. run[r].agency = "ACFS" => \A i \in 1 .. Len(Rows(r)) : license[Rows(r)[i]] <= v
      BY Ranges DEF Ages
    <3> QED
      BY <1>1, <1>4, <2>1, <3>1 DEF Brought
  <2>2. CASE x # r
    <3>1. /\ Brought(x) /\ (Storing(x)' <=> Storing(x)) /\ Rows(x)' = Rows(x)
          /\ run'[x].next = run[x].next /\ run'[x].version = run[x].version
          /\ run'[x].agency = run[x].agency /\ (run'[x].alone => run[x].alone)
      BY <1>2, <1>3, <1>4, <2>2 DEF Ages
    <3> QED
      BY <3>1 DEF Brought
  <2> QED
    BY <2>1, <2>2
<1> QED
  BY <1>5, <1>6, <1>7, <1>8 DEF Ages

LEMMA AgesStore ==
    ASSUME OwnNumbers, IInv, Ages, NEW r \in Requests, Store(r)
    PROVE  Ages'
<1>0. run \in [Requests -> Run] /\ license \in [Licenses -> 0 .. MaxVersion]
  BY DEF IInv, TypeOK
<1>1. /\ run[r].stage = "found" /\ source' = source
      /\ license' = [license EXCEPT ![Current(r)] = run[r].version]
      /\ run' = [run EXCEPT ![r].stage = "storing", ![r].next = @ + 1]
  BY DEF Store
<1>2. run[r].next \in 1 .. Len(Rows(r)) /\ Current(r) = Rows(r)[run[r].next]
  BY <1>1, Ranges DEF IInv, Knows, More, Current
<1>3. Current(r) \in Licenses /\ run[r].version \in Nat
  BY <1>2, Ranges
<1>4. \A l \in Licenses : license'[l] = IF l = Current(r) THEN run[r].version ELSE license[l]
  BY <1>0, <1>1, <1>3
<1>5. /\ run'[r].stage = "storing" /\ run'[r].version = run[r].version
      /\ run'[r].next = run[r].next + 1 /\ run'[r].agency = run[r].agency
      /\ run'[r].alone = run[r].alone
  <2>1. run[r] \in Run /\ run'[r] = [run[r] EXCEPT !.stage = "storing", !.next = @ + 1]
    BY <1>0, <1>1
  <2> QED
    BY <2>1 DEF Run
<1>6. \A x \in Requests : x # r => run'[x] = run[x]
  BY <1>0, <1>1
<1>7. \A x \in Requests : Rows(x)' = Rows(x) /\ (Storing(x)' <=> Storing(x))
  BY <1>1, <1>5, <1>6 DEF Rows, Storing
<1>8. \A l \in Licenses : license'[l] <= source
  BY <1>4 DEF Ages
<1>9. \A x \in Requests : run'[x].version <= source /\ (~Storing(x)' => run'[x].next = 1)
  BY <1>5, <1>6, <1>7 DEF Ages, Storing
<1>10. \A q, x \in Requests :
         q # x /\ Storing(q)' /\ Storing(x)' /\ run'[q].agency = run'[x].agency => ~run'[x].alone
  BY <1>5, <1>6, <1>7 DEF Ages
<1>11. ASSUME NEW x \in Requests, Storing(x), run[x].alone PROVE Brought(x)'
  <2>1. /\ Brought(x) /\ run'[x].version = run[x].version /\ run'[x].agency = run[x].agency
    BY <1>5, <1>6 DEF Ages
  <2>2. CASE x = r
    <3>1. ASSUME NEW i \in 1 .. Len(Rows(r)), i < run[r].next + 1
          PROVE  license'[Rows(r)[i]] = run[r].version
      <4>1. Rows(r)[i] \in Licenses /\ (i = run[r].next \/ i \in 1 .. run[r].next - 1)
        BY <1>2, <3>1, Ranges
      <4> QED
        BY <1>2, <1>4, <1>11, <2>1, <2>2, <4>1 DEF Brought
    <3>2. ASSUME run[r].agency = "ACFS", NEW i \in 1 .. Len(Rows(r))
          PROVE  license'[Rows(r)[i]] <= run[r].version
      <4>1. Rows(r)[i] \in Licenses
        BY Ranges
      <4> QED
        BY <1>3, <1>4, <1>11, <2>1, <2>2, <3>2, <4>1 DEF Brought
    <3>3. \A i \in 1 .. run'[r].next - 1 : i \in 1 .. Len(Rows(r)) /\ i < run[r].next + 1
      BY <1>2, <1>5, Ranges
    <3> QED
      BY <1>5, <1>7, <2>2, <3>1, <3>2, <3>3 DEF Brought
  <2>3. CASE x # r
    <3>1. run[x].agency # run[r].agency
      BY <1>1, <1>11, <2>3 DEF Ages, Storing
    <3>2. ASSUME NEW i \in 1 .. Len(Rows(x)) PROVE license'[Rows(x)[i]] = license[Rows(x)[i]]
      <4>1. Rows(x)[i] # Rows(r)[run[r].next]
        BY <1>2, <3>1, Ranges DEF Rows, Agencies, OwnNumbers
      <4>2. Rows(x)[i] \in Licenses
        BY Ranges
      <4> QED
        BY <1>2, <1>4, <4>1, <4>2
    <3>3. \A i \in 1 .. run[x].next - 1 : i \in 1 .. Len(Rows(x))
      BY Ranges
    <3> QED
      BY <1>6, <1>7, <2>1, <2>3, <3>2, <3>3 DEF Brought
  <2> QED
    BY <2>2, <2>3
<1>12. \A x \in Requests : Brought(x)'
  <2>1. \A x \in Requests : run'[x].alone = run[x].alone
    BY <1>5, <1>6
  <2> QED
    BY <1>7, <1>11, <2>1 DEF Brought
<1> QED
  BY <1>1, <1>8, <1>9, <1>10, <1>12 DEF Ages

LEMMA LeftStill ==
    ASSUME IInv, NEW r \in Requests, NEW stage \in {"over", "cut"}, Leave(r, stage)
    PROVE  /\ ~Storing(r)' /\ run'[r].next = 1 /\ run'[r].version = 0
           /\ \A x \in Requests : x # r => run'[x] = run[x]
<1>1. /\ run'[r] = [Idle EXCEPT !.stage = stage, !.agency = run[r].agency]
      /\ \A x \in Requests : x # r => run'[x] = run[x]
  BY DEF Leave, IInv, TypeOK
<1> QED
  BY <1>1 DEF Idle, Storing

LEMMA AgesStep == ASSUME OwnNumbers PROVE IInv /\ Ages /\ [Next]_vars => Ages'
<1> SUFFICES ASSUME IInv, Ages, [Next]_vars PROVE Ages'
  OBVIOUS
<1>0. /\ run \in [Requests -> Run] /\ source \in Nat /\ source \in 0 .. MaxVersion
  BY DEF IInv, TypeOK
<1>1. \A x \in Requests : run'[x] = run[x] => Still(x)
  BY DEF Still, Storing
<1>2. CASE UNCHANGED vars
  BY <1>0, <1>1, <1>2, AgesStill DEF vars
<1>3. ASSUME NEW r \in Requests, NEW q \in Run, Receive(r, q), q.stage = "cleared",
             q.next = 1, q.version <= source
      PROVE  Ages'
  <2>1. /\ run' = [run EXCEPT ![r] = q] /\ license' = license /\ source' = source
    BY <1>3 DEF Receive
  <2>2. run'[r] = q /\ \A x \in Requests : x # r => run'[x] = run[x]
    BY <1>0, <2>1
  <2>3. ~Storing(r)'
    BY <1>3, <2>2 DEF Storing
  <2> QED
    BY <1>0, <1>1, <1>3, <2>1, <2>2, <2>3, AgesStill
<1>4. ASSUME NEW r \in Requests, Trigger(r) PROVE Ages'
  <2> DEFINE q == [Idle EXCEPT !.stage = "cleared"]
  <2>1. q \in Run /\ Receive(r, q)
    BY <1>4, IdleTyped DEF Trigger, Run, Stages
  <2>2. q.next = 1 /\ q.stage = "cleared" /\ q.version <= source
    BY <1>0 DEF Idle
  <2> HIDE DEF q
  <2> QED
    BY <1>3, <2>1, <2>2
<1>5. ASSUME NEW r \in Requests, Import(r) PROVE Ages'
  <2>1. PICK v \in 1 .. source :
          Receive(r, [Idle EXCEPT !.agency = "DIW", !.stage = "cleared", !.version = v])
    BY <1>5 DEF Import
  <2> DEFINE q == [Idle EXCEPT !.agency = "DIW", !.stage = "cleared", !.version = v]
  <2>2. v \in 0 .. MaxVersion /\ v <= source
    BY DEF IInv, TypeOK
  <2>3. q \in Run
    BY <2>2, IdleTyped DEF Run, Stages, Agencies
  <2>4. q.next = 1 /\ q.stage = "cleared" /\ q.version = v
    BY DEF Idle
  <2>5. Receive(r, q)
    BY <2>1
  <2> HIDE DEF q
  <2> QED
    BY <1>3, <2>2, <2>3, <2>4, <2>5
<1>6. ASSUME NEW r \in Requests, Begin(r) PROVE Ages'
  <2>1. /\ run[r].stage = "cleared" /\ UNCHANGED <<license, source>> /\ ~Storing(r)
    BY <1>6 DEF Begin, Storing
  <2>2. CASE run[r].agency = "ACFS"
    <3>1. run'[r] = [run[r] EXCEPT !.stage = "begun", !.fresh = TRUE]
      BY <1>6, <2>2 DEF Begin
    <3>2. ~Storing(r)' /\ run'[r].next = 1 /\ run'[r].version <= source
      <4>1. run'[r].stage = "begun" /\ run'[r].next = run[r].next /\ run'[r].version = run[r].version
        BY <1>0, <3>1 DEF Run
      <4> QED
        BY <2>1, <4>1 DEF Storing, Ages
    <3>3. ASSUME NEW x \in Requests, x # r PROVE Still(x)
      <4>1. PICK b : run'[x] = [run[x] EXCEPT !.fresh = b]
        BY <1>6, <2>2, <3>3 DEF Begin
      <4>2. /\ run'[x].stage = run[x].stage /\ run'[x].next = run[x].next
            /\ run'[x].version = run[x].version /\ run'[x].agency = run[x].agency
            /\ run'[x].alone = run[x].alone
        BY <1>0, <4>1 DEF Run
      <4> QED
        BY <4>2 DEF Still, Storing
    <3> QED
      BY <1>0, <2>1, <3>2, <3>3, AgesStill
  <2>3. CASE run[r].agency # "ACFS"
    <3>1. run' = Opened(r, run[r].version)
      BY <1>6, <2>3 DEF Begin
    <3>2. run[r].version \in 0 .. MaxVersion /\ run[r].version <= source
      BY <1>0 DEF Run, Ages
    <3> QED
      BY <2>1, <2>3, <3>1, <3>2, AgesOpened
  <2> QED
    BY <2>2, <2>3
<1>7. ASSUME NEW r \in Requests, Fetch(r) PROVE Ages'
  <2>1. run' = Opened(r, source) /\ UNCHANGED <<license, source>> /\ ~Storing(r)
    BY <1>7 DEF Fetch, Storing
  <2> QED
    BY <1>0, <2>1, AgesOpened
<1>8. ASSUME NEW r \in Requests, LookUp(r) \/ CreateBusiness(r) PROVE Ages'
  <2>1. UNCHANGED <<license, source>>
    BY <1>8 DEF LookUp, CreateBusiness
  <2>2. ASSUME NEW x \in Requests PROVE Still(x)
    <3>1. CASE LookUp(r)
      <4>1. \/ run'[x] = run[x]
            \/ /\ \E s \in {"missing", "found"} : run'[x] = [run[x] EXCEPT !.stage = s]
               /\ run[x].stage = "storing"
        BY <1>0, <3>1 DEF LookUp
      <4> QED
        BY <1>0, <1>1, <4>1 DEF Still, Storing, Run
    <3>2. CASE CreateBusiness(r)
      <4>1. \/ /\ run[x].stage = "missing"
               /\ run'[x] = [run[x] EXCEPT !.stage = "found", !.fresh = TRUE]
            \/ \E b : run'[x] = [run[x] EXCEPT !.fresh = b]
        BY <3>2 DEF CreateBusiness
      <4>2. /\ Storing(x)' <=> Storing(x)
            /\ run'[x].next = run[x].next /\ run'[x].version = run[x].version
            /\ run'[x].agency = run[x].agency /\ run'[x].alone = run[x].alone
        BY <1>0, <4>1 DEF Run, Storing
      <4> QED
        BY <4>2 DEF Still
    <3> QED
      BY <1>8, <3>1, <3>2
  <2> QED
    BY <1>0, <2>1, <2>2, AgesStill
<1>9. ASSUME NEW r \in Requests, Succeed(r) \/ Fail(r) \/ CutOff(r) PROVE Ages'
  <2>1. PICK stage \in {"over", "cut"} : Leave(r, stage)
    BY <1>9 DEF Succeed, Fail, CutOff, End
  <2>2. UNCHANGED <<license, source>>
    BY <1>9 DEF Succeed, Fail, CutOff, End
  <2> QED
    BY <1>0, <1>1, <2>1, <2>2, LeftStill, AgesStill
<1>10. CASE Publish \/ \E r \in Requests : Age(r)
  <2>1. /\ run' = run /\ license' = license /\ source' \in Nat /\ source <= source'
    BY <1>0, <1>10 DEF Publish, Age
  <2> QED
    BY <1>1, <2>1, AgesStill
<1>11. ASSUME NEW r \in Requests, Proceed(r) PROVE Ages'
  BY <1>6, <1>7, <1>8, <1>9, <1>11, AgesStore DEF Proceed
<1> QED
  BY <1>2, <1>4, <1>5, <1>10, <1>11 DEF Next

\* upsert: a license of ACFS goes back to older data only while runs overlap, if the
\* agencies number apart.
THEOREM Forward == ASSUME OwnNumbers PROVE Spec => NeverOlder
<1>1. IInv /\ Ages /\ [Next]_vars =>
        [\A l \in Licenses : license'[l] < license[l] =>
           \E r \in Requests :
              /\ run[r].stage = "found" /\ Current(r) = l /\ run'[r].next # run[r].next
              /\ run[r].agency = "DIW" \/ ~run[r].alone]_vars
  <2> SUFFICES ASSUME IInv, Ages, [Next]_vars, NEW l \in Licenses, license'[l] < license[l]
               PROVE  \E r \in Requests :
                         /\ run[r].stage = "found" /\ Current(r) = l /\ run'[r].next # run[r].next
                         /\ run[r].agency = "DIW" \/ ~run[r].alone
    OBVIOUS
  <2>0. /\ run \in [Requests -> Run] /\ license \in [Licenses -> 0 .. MaxVersion]
        /\ license[l] \in Nat /\ license' # license
    BY DEF IInv, TypeOK
  <2>1. PICK r \in Requests : Store(r)
    BY <2>0 DEF Next, vars, Trigger, Import, Receive, Proceed, Begin, Fetch, LookUp, CreateBusiness,
                Succeed, Fail, End, CutOff, Age, Publish
  <2>2. /\ run[r].stage = "found"
        /\ license' = [license EXCEPT ![Current(r)] = run[r].version]
    BY <2>1 DEF Store
  <2>3. Current(r) = l /\ license'[l] = run[r].version
    BY <2>0, <2>2
  <2>4. run'[r].next # run[r].next
    <3>1. run'[r] = [run[r] EXCEPT !.stage = "storing", !.next = @ + 1]
      BY <2>0, <2>1 DEF Store
    <3>2. run'[r].next = run[r].next + 1 /\ run[r].next \in Nat
      BY <2>0, <3>1 DEF Run
    <3> QED
      BY <3>2
  <2>5. ASSUME run[r].agency = "ACFS", run[r].alone PROVE FALSE
    <3>1. run[r].next \in 1 .. Len(Rows(r)) /\ l = Rows(r)[run[r].next]
      BY <2>2, <2>3, Ranges DEF IInv, Knows, More, Current
    <3>2. license[l] <= run[r].version
      BY <2>2, <2>5, <3>1 DEF Ages, Brought, Storing
    <3> QED
      BY <2>0, <2>3, <3>2, Ranges
  <2> QED
    BY <2>2, <2>3, <2>4, <2>5, Ranges DEF Agencies
<1>2. IInv /\ Ages /\ [Next]_vars => IInv' /\ Ages'
  BY NextInv, AgesStep
<1> QED
  BY <1>1, <1>2, InitInv, AgesInit, PTL DEF Spec, NeverOlder

\* The end of a run in sync_logs tells what it has done: SUCCESS that every license of
\* its agency has the data it worked on, FAILED that those before the bad record have,
\* if it was alone and the agencies number apart.
THEOREM Truth == ASSUME OwnNumbers PROVE Spec => LogTellsTruth
<1>1. IInv /\ Ages /\ [Next]_vars =>
        [\A r \in Requests : Ends(r) /\ run[r].alone /\ run[r].stage # "begun" =>
            \A i \in 1 .. Len(Rows(r)) :
               log'[r] = "SUCCESS" \/ i < run[r].next => license[Rows(r)[i]] = run[r].version]_vars
  <2> SUFFICES ASSUME IInv, Ages, [Next]_vars, NEW r \in Requests, Ends(r), run[r].alone,
                      run[r].stage # "begun", NEW i \in 1 .. Len(Rows(r)),
                      log'[r] = "SUCCESS" \/ i < run[r].next
               PROVE  license[Rows(r)[i]] = run[r].version
    OBVIOUS
  <2>0. /\ log \in [Requests -> LogStatus] /\ log[r] = "RUNNING" /\ log'[r] # "RUNNING"
        /\ Len(Rows(r)) \in Nat /\ run[r].next \in Nat \ {0} /\ run[r].next <= Len(Rows(r)) + 1
    BY Ranges DEF IInv, TypeOK, Ends
  <2>1. Storing(r) /\ (log'[r] = "SUCCESS" => ~More(r))
    <3>1. CASE \E q \in Requests : Trigger(q) \/ Import(q)
      <4>1. log' = [log EXCEPT ![r] = "none"] /\ Free(r)
        BY <2>0, <3>1 DEF Trigger, Import, Receive
      <4>2. run[r].next = 1 /\ log'[r] = "none"
        BY <2>0, <4>1 DEF Ages, Free, Storing
      <4> QED
        BY <4>2
    <3>2. CASE \E q \in Requests : Begin(q)
      BY <2>0, <3>2 DEF Begin
    <3>3. CASE \E q \in Requests : Succeed(q)
      <4>1. Succeed(r)
        BY <2>0, <3>3 DEF Succeed, End
      <4> QED
        BY <4>1 DEF Succeed, Storing
    <3>4. CASE \E q \in Requests : Fail(q)
      <4>1. Fail(r)
        BY <2>0, <3>4 DEF Fail, End
      <4>2. log'[r] = "FAILED"
        BY <2>0, <4>1 DEF Fail, End
      <4> QED
        BY <4>1, <4>2 DEF Fail
    <3>5. CASE log' = log
      BY <2>0, <3>5
    <3> QED
      BY <3>1, <3>2, <3>3, <3>4, <3>5
         DEF Next, vars, Proceed, Fetch, LookUp, CreateBusiness, Store, CutOff, Age, Publish
  <2>2. i \in 1 .. run[r].next - 1
    BY <2>0, <2>1 DEF More
  <2> QED
    BY <2>1, <2>2 DEF Ages, Brought
<1>2. IInv /\ Ages /\ [Next]_vars => IInv' /\ Ages'
  BY NextInv, AgesStep
<1> QED
  BY <1>1, <1>2, InitInv, AgesInit, PTL DEF Spec, LogTellsTruth
=============================================================================

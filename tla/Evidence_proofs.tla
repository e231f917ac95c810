----------------------------- MODULE Evidence_proofs -----------------------------
(***************************************************************************)
(* The two stores of Evidence agree, its audit log counts the documents,   *)
(* and the evidence of a submitted report is frozen, for any number of     *)
(* documents and requests.  Holds says what a request in the middle of an  *)
(* operation may rely on: the document of an unfinished upload is known to *)
(* nobody else, and the object a deletion has removed does not come back.  *)
(* Counted relates the audit rows to the documents, and Believes says what *)
(* a request may still think of the report and its task.                   *)
(***************************************************************************)
EXTENDS Evidence, FiniteSetTheorems, TLAPS

\* There is an audit row of the upload of d, or its request is yet to append it, or
\* died before.
Told(d) ==
    \/ d \in audit.created \cup cut.log.created
    \/ \E r \in Requests : At(r, "upload", "done") /\ req[r].doc = d

Holds(r) ==
    LET q == req[r]
    IN  /\ q.stage \in {"found", "half", "done"} => q.doc \in Docs /\ q.op \in Ops
        /\ At(r, "upload", "half") =>
              /\ q.doc \in object /\ q.doc \notin row
              /\ ~Told(q.doc)
              /\ \A x \in Requests \ {r} : req[x].doc # q.doc
        /\ At(r, "delete", "half") => q.doc \notin object

\* Document d is in both stores or in none, up to unfinished operations.
Agrees(d) ==
    (d \in object <=> d \in row) \/ d \in cut.docs
    \/ \E r \in Requests : req[r].stage = "half" /\ req[r].doc = d

\* The log tells of d.
Tells(d) == d \in row => Told(d)

IInv ==
    /\ TypeOK
    /\ \A r \in Requests : Holds(r)
    /\ \A d \in Docs : Agrees(d) /\ Tells(d)

LEMMA StillTyped ==
    ASSUME TypeOK, UNCHANGED <<workflow, astray>>, object' \subseteq Docs, row' \subseteq Docs,
           audit' \in Log, cut' \in [docs: SUBSET Docs, log: Log], req' \in [Requests -> Request]
    PROVE  TypeOK'
BY DEF TypeOK, workflow, Workflow!TypeOK

LEMMA IdleTyped ==
    Idle \in Request /\ Idle.stage = "idle" /\ Idle.doc = None /\ Idle.op = "none"
  BY DEF Idle, Request, Stages

LEMMA InitInv == Init => IInv
<1> SUFFICES ASSUME Init PROVE IInv
  OBVIOUS
<1>1. \A r \in Requests : req[r] = Idle
  BY DEF Init
<1>2. object = {} /\ row = {} /\ cut.docs = {}
  BY DEF Init
<1>3. TypeOK
  <2>1. audit \in Log /\ cut \in [docs: SUBSET Docs, log: Log] /\ astray \in BOOLEAN
    BY DEF Init, NoLog, Log
  <2>3. Workflow!TypeOK
    BY DEF Init, Workflow!Init, Workflow!TypeOK
  <2>2. req \in [Requests -> Request]
    BY IdleTyped DEF Init
  <2> QED
    BY <1>2, <2>1, <2>2, <2>3 DEF TypeOK
<1> QED
  BY <1>1, <1>2, <1>3, IdleTyped DEF IInv, Holds, At, Agrees, Tells
-----------------------------------------------------------------------------
(* A step that touches neither stores nor log, and no request between them. *)

Unfinished == {"half", "done"}

LEMMA Harmless ==
    ASSUME IInv, UNCHANGED <<object, row, audit, cut>>, req' \in [Requests -> Request],
           Workflow!TypeOK', astray' \in BOOLEAN,
           \A r \in Requests :
              \/ req'[r].op = req[r].op /\ req'[r].stage = req[r].stage /\ req'[r].doc = req[r].doc
              \/ /\ req[r].stage \notin Unfinished /\ req'[r].stage \notin Unfinished
                 /\ \/ req'[r].doc = None \/ req'[r].doc = req[r].doc
                    \/ req'[r].doc \in row /\ req'[r].op = "delete"
                 /\ req'[r].stage = "found" => req'[r].doc \in row /\ req'[r].op = "delete"
    PROVE  IInv'
<1>1. TypeOK'
  BY DEF IInv, TypeOK
<1>2. \A r \in Requests, op \in Ops : At(r, op, "half")' <=> At(r, op, "half")
  BY DEF At, Unfinished
<1>3. \A d \in Docs : Told(d)' <=> Told(d)
  BY DEF Told, At, Unfinished
<1>4. ASSUME NEW r \in Requests PROVE Holds(r)'
  <2>1. req'[r].stage \in {"found", "half", "done"} => req'[r].doc \in Docs /\ req'[r].op \in Ops
    BY DEF IInv, TypeOK, Holds, Unfinished, Ops
  <2>2. ASSUME At(r, "upload", "half")'
        PROVE  (/\ req[r].doc \in object /\ req[r].doc \notin row
                /\ ~Told(req[r].doc)
                /\ \A x \in Requests \ {r} : req[x].doc # req[r].doc)'
    <3>1. At(r, "upload", "half") /\ req'[r].doc = req[r].doc /\ req[r].doc \in Docs
      BY <2>2 DEF At, Unfinished, IInv, Holds
    <3>2. /\ req[r].doc \in object /\ req[r].doc \notin row
          /\ ~Told(req[r].doc)
          /\ \A x \in Requests \ {r} : req[x].doc # req[r].doc
      BY <3>1 DEF IInv, Holds
    <3>3. ASSUME NEW x \in Requests \ {r} PROVE req'[x].doc # req[r].doc
      <4>1. req'[x].doc = req[x].doc \/ req'[x].doc = None \/ req'[x].doc \in row
        BY Zenon
      <4> QED
        BY <3>1, <3>2, <4>1, NoneIsNull
    <3>4. (~Told(req[r].doc))'
      <4> DEFINE d == req[r].doc
      <4>1. ~Told(d)'
        BY <1>3, <3>1, <3>2
      <4> QED
        BY <3>1, <4>1 DEF Told, At
    <3> QED
      BY <3>1, <3>2, <3>3, <3>4
  <2>3. At(r, "delete", "half")' => req'[r].doc \notin object
    <3>1. ASSUME At(r, "delete", "half")'
          PROVE  At(r, "delete", "half") /\ req'[r].doc = req[r].doc
      BY <3>1 DEF At, Unfinished
    <3>2. At(r, "delete", "half") => req[r].doc \notin object
      BY DEF IInv, Holds
    <3> QED
      BY <3>1, <3>2
  <2> QED
    BY <2>1, <2>2, <2>3 DEF Holds
<1>5. ASSUME NEW d \in Docs PROVE Agrees(d)' /\ Tells(d)'
  <2>1. Agrees(d)'
    BY DEF IInv, Agrees, Unfinished
  <2>2. Tells(d)'
    BY <1>3 DEF IInv, Tells
  <2> QED
    BY <2>1, <2>2
<1> QED
  BY <1>1, <1>4, <1>5 DEF IInv

\* What a request has read is not the less for somebody else's write, only less fresh.
LEMMA Refreshed ==
    ASSUME req \in [Requests -> Request], MoveTask
    PROVE  /\ req' \in [Requests -> Request]
           /\ \A r \in Requests :
                 /\ req'[r].op = req[r].op /\ req'[r].stage = req[r].stage
                 /\ req'[r].draft = req[r].draft /\ req'[r].doc = req[r].doc
                 /\ \A x \in req'[r].fresh :
                       /\ x \in req[r].fresh
                       /\ IF x = "task" THEN status' = status ELSE report' = report
<1> DEFINE left(r) == {x \in req[r].fresh : IF x = "task" THEN status' = status ELSE report' = report}
<1>1. req' = [r \in Requests |-> [req[r] EXCEPT !.fresh = left(r)]]
  BY DEF MoveTask
<1>2. \A r \in Requests : left(r) \subseteq req[r].fresh /\ req[r] \in Request
  OBVIOUS
<1>3. \A r \in Requests : [req[r] EXCEPT !.fresh = left(r)] \in Request
  <2> SUFFICES ASSUME NEW r \in Requests PROVE [req[r] EXCEPT !.fresh = left(r)] \in Request
    OBVIOUS
  <2>1. left(r) \in SUBSET {"report", "task"} /\ req[r] \in Request
    BY <1>2 DEF Request
  <2> HIDE DEF left
  <2> QED
    BY <2>1 DEF Request
<1>4. \A r \in Requests : \A x \in left(r) :
        x \in req[r].fresh /\ IF x = "task" THEN status' = status ELSE report' = report
  OBVIOUS
<1> HIDE DEF left
<1>5. \A r \in Requests : req'[r] = [req[r] EXCEPT !.fresh = left(r)]
  BY <1>1
<1>6. ASSUME NEW r \in Requests
      PROVE  /\ req'[r].op = req[r].op /\ req'[r].stage = req[r].stage
             /\ req'[r].draft = req[r].draft /\ req'[r].doc = req[r].doc
             /\ req'[r].fresh = left(r)
  <2>1. req[r] \in Request /\ req'[r] = [req[r] EXCEPT !.fresh = left(r)]
    BY <1>2, <1>5
  <2> QED
    BY <2>1 DEF Request
<1> QED
  BY <1>1, <1>3, <1>4, <1>6

LEMMA RowsTyped ==
    ASSUME Workflow!TypeOK, NEW op, Workflow!Write(op) PROVE Workflow!TypeOK'
BY DEF Workflow!TypeOK, Workflow!Write, Workflow!Start, Workflow!Cancel, Workflow!Update,
       Workflow!Submit, Workflow!Approve, Workflow!Return

\* A step of a request outside the stores leaves the task alone.
LEMMA HarmlessAlone ==
    ASSUME IInv, UNCHANGED <<workflow, object, row, audit, cut, astray>>,
           req' \in [Requests -> Request],
           \A r \in Requests :
              \/ req'[r].op = req[r].op /\ req'[r].stage = req[r].stage /\ req'[r].doc = req[r].doc
              \/ /\ req[r].stage \notin Unfinished /\ req'[r].stage \notin Unfinished
                 /\ \/ req'[r].doc = None \/ req'[r].doc = req[r].doc
                    \/ req'[r].doc \in row /\ req'[r].op = "delete"
                 /\ req'[r].stage = "found" => req'[r].doc \in row /\ req'[r].op = "delete"
    PROVE  IInv'
<1>1. Workflow!TypeOK' /\ astray' \in BOOLEAN
  BY DEF IInv, TypeOK, workflow, Workflow!TypeOK
<1> QED
  BY <1>1, Harmless

LEMMA HarmlessSteps ==
    ASSUME IInv,
           \/ MoveTask
           \/ \E r \in Requests, op \in Ops : ReadReport(r, op)
           \/ \E r \in Requests : LoadTask(r)
           \/ \E r \in Requests, d \in Docs : FindRow(r, d)
    PROVE  IInv'
<1>0. req \in [Requests -> Request] /\ row \subseteq Docs
  BY DEF IInv, TypeOK
<1>1. CASE MoveTask
  <2>1. /\ req' \in [Requests -> Request]
        /\ \A r \in Requests : req'[r].op = req[r].op /\ req'[r].stage = req[r].stage
                               /\ req'[r].doc = req[r].doc
    BY <1>0, <1>1, Refreshed
  <2>2. Workflow!TypeOK' /\ astray' \in BOOLEAN
    BY <1>1, RowsTyped DEF IInv, TypeOK, MoveTask
  <2> QED
    BY <1>1, <2>1, <2>2, Harmless DEF MoveTask
<1>2. ASSUME NEW r \in Requests, NEW op \in Ops, ReadReport(r, op) PROVE IInv'
  <2> DEFINE n == [Idle EXCEPT !.op = op, !.stage = "opened", !.draft = (report = "draft"),
                              !.fresh = {"report"}]
  <2>1. n \in Request
    BY IdleTyped DEF Request, Stages
  <2>2. n.stage = "opened" /\ n.doc = None
    BY DEF Idle
  <2>3. req' = [req EXCEPT ![r] = n] /\ req[r].stage = "idle"
        /\ UNCHANGED <<workflow, object, row, audit, cut, astray>>
    BY <1>2, IdleTyped DEF ReadReport
  <2> HIDE DEF n
  <2> QED
    BY <1>0, <2>1, <2>2, <2>3, HarmlessAlone DEF Unfinished
<1>3. ASSUME NEW r \in Requests, LoadTask(r) PROVE IInv'
  <2>1. UNCHANGED <<workflow, object, row, audit, cut, astray>> /\ req[r].stage = "opened"
    BY <1>3 DEF LoadTask
  <2>2. CASE req' = [req EXCEPT ![r] = Idle]
    BY <1>0, <2>1, <2>2, IdleTyped, HarmlessAlone DEF Unfinished
  <2>3. CASE Pass(r)
    <3> DEFINE n == [req[r] EXCEPT !.stage = "ready", !.fresh = @ \cup {"task"}]
    <3>1. n \in Request /\ n.stage = "ready" /\ n.doc = req[r].doc /\ n.op = req[r].op
      BY <1>0 DEF Request, Stages
    <3>2. req' = [req EXCEPT ![r] = n]
      BY <1>0, <2>3 DEF Pass
    <3> HIDE DEF n
    <3>3. \A x \in Requests : req'[x].doc = req[x].doc
      BY <1>0, <3>1, <3>2
    <3> QED
      BY <1>0, <2>1, <3>1, <3>2, <3>3, HarmlessAlone DEF Unfinished
  <2> QED
    BY <1>3, <2>2, <2>3 DEF LoadTask
<1>4. ASSUME NEW r \in Requests, NEW d \in Docs, FindRow(r, d) PROVE IInv'
  <2> DEFINE n == [req[r] EXCEPT !.stage = "found", !.doc = d]
  <2>1. n \in Request /\ n.stage = "found" /\ n.doc = d /\ n.op = "delete"
    BY <1>0, <1>4 DEF FindRow, At, Request, Stages
  <2>2. req' = [req EXCEPT ![r] = n] /\ req[r].stage = "ready" /\ d \in row
        /\ UNCHANGED <<workflow, object, row, audit, cut, astray>>
    BY <1>0, <1>4 DEF FindRow, At
  <2> HIDE DEF n
  <2> QED
    BY <1>0, <2>1, <2>2, HarmlessAlone DEF Unfinished
<1> QED
  BY <1>1, <1>2, <1>3, <1>4
-----------------------------------------------------------------------------
(* uploadEvidence *)

LEMMA PutObjectInv ==
    ASSUME IInv, NEW r \in Requests, NEW d \in Docs, PutObject(r, d) PROVE IInv'
<1> DEFINE n == [req[r] EXCEPT !.stage = "half", !.doc = d]
<1>0. TypeOK /\ req \in [Requests -> Request]
  BY DEF IInv, TypeOK
<1>1. n \in Request /\ n.stage = "half" /\ n.doc = d /\ n.op = "upload" /\ req[r].stage = "ready"
  BY <1>0 DEF PutObject, At, Request, Stages
<1>2. /\ req' = [req EXCEPT ![r] = n] /\ row' = row /\ object' = object \cup {d}
      /\ d \notin object /\ d \notin row /\ d \notin cut.docs
      /\ d \notin audit.created \cup cut.log.created
  BY <1>0 DEF PutObject, Used
<1> HIDE DEF n
<1>3. req'[r] = n /\ \A x \in Requests \ {r} : req'[x] = req[x] /\ req[x].doc # d
  BY <1>0, <1>2 DEF PutObject, Used
<1>4. UNCHANGED <<status, report, recorded, waited, audit, cut, astray>>
  BY DEF PutObject, workflow
<1>5. TypeOK'
  <2>1. object' \subseteq Docs /\ row' \subseteq Docs /\ audit' \in Log
        /\ cut' \in [docs: SUBSET Docs, log: Log] /\ req' \in [Requests -> Request]
    BY <1>0, <1>1, <1>2, <1>4 DEF TypeOK
  <2> QED
    BY <1>0, <1>4, <2>1, StillTyped DEF workflow
<1>6. ASSUME NEW x \in Docs PROVE Told(x)' <=> Told(x)
  BY <1>1, <1>3, <1>4 DEF Told, At
<1>7. ~Told(d)'
  BY <1>1, <1>2, <1>3, <1>4 DEF Told, At
<1>8. ASSUME NEW x \in Requests PROVE Holds(x)'
  <2>1. CASE x = r
    BY <1>1, <1>2, <1>3, <1>7, <2>1 DEF Holds, At, Ops
  <2>2. CASE x # r
    <3>1. req'[x] = req[x] /\ req[x].doc # d
      BY <1>3, <2>2
    <3>2. \A op \in {"upload", "delete"}, stage \in Stages : At(x, op, stage)' <=> At(x, op, stage)
      BY <3>1 DEF At
    <3>3. ASSUME At(x, "upload", "half")
          PROVE  (/\ req[x].doc \in object /\ req[x].doc \notin row
                  /\ ~Told(req[x].doc)
                  /\ \A y \in Requests \ {x} : req[y].doc # req[x].doc)'
      <4> DEFINE k == req[x].doc
      <4>1. k \in Docs \ {d} /\ k \in object /\ k \notin row
            /\ ~Told(k)
            /\ \A y \in Requests \ {x} : req[y].doc # k
        BY <3>1, <3>3 DEF IInv, Holds, At
      <4> QED
        BY <1>1, <1>2, <1>3, <1>6, <3>1, <4>1
    <3>4. At(x, "delete", "half") => req[x].doc \notin object
      BY DEF IInv, Holds
    <3>5. req[x].stage \in {"found", "half", "done"} => req[x].doc \in Docs /\ req[x].op \in Ops
      BY DEF IInv, Holds
    <3> QED
      BY <1>2, <3>1, <3>2, <3>3, <3>4, <3>5 DEF Holds, Stages
  <2> QED
    BY <2>1, <2>2
<1>9. ASSUME NEW x \in Docs PROVE Agrees(x)' /\ Tells(x)'
  <2>1. CASE x = d
    BY <1>1, <1>2, <1>3, <2>1 DEF Agrees, Tells
  <2>2. CASE x # d
    <3>1. Agrees(x) /\ Tells(x)
      BY DEF IInv
    <3>2. Agrees(x)'
      BY <1>1, <1>2, <1>3, <1>4, <2>2, <3>1 DEF Agrees
    <3>3. Tells(x)'
      BY <1>2, <1>6, <2>2, <3>1 DEF Tells
    <3> QED
      BY <3>2, <3>3
  <2> QED
    BY <2>1, <2>2
<1> QED
  BY <1>5, <1>8, <1>9 DEF IInv
-----------------------------------------------------------------------------
(* The steps between the stores: request r goes on with its document d. *)

\* What holds of d before and after such a step, and of all other documents.
Local(r, d) ==
    /\ req' \in [Requests -> Request]
    /\ req[r].doc = d /\ req'[r].doc \in {d, None}
    /\ \A x \in Requests \ {r} : req'[x] = req[x]
    /\ \A k \in Docs \ {d} : /\ k \in object' <=> k \in object
                             /\ k \in row' <=> k \in row
                             /\ k \in cut'.docs <=> k \in cut.docs
    /\ d \in object' => d \in object
    /\ \A k \in Docs \ {d} :
          k \in (audit.created \cup cut.log.created)' <=> k \in audit.created \cup cut.log.created

LEMMA Elsewhere ==
    ASSUME IInv, NEW r \in Requests, NEW d \in Docs, Local(r, d)
    PROVE  /\ \A x \in Requests \ {r} : Holds(x)'
           /\ \A k \in Docs \ {d} : Agrees(k)' /\ Tells(k)'
<1>a. req[r].doc = d /\ req'[r].doc \in {d, None}
  BY DEF Local
<1>b. \A x \in Requests \ {r} : req'[x] = req[x]
  BY DEF Local
<1>c. \A k \in Docs \ {d} : /\ k \in object' <=> k \in object
                            /\ k \in row' <=> k \in row
                            /\ k \in cut'.docs <=> k \in cut.docs
  BY DEF Local
<1>d. d \in object' => d \in object
  BY DEF Local
<1>1. ASSUME NEW k \in Docs \ {d} PROVE Told(k)' <=> Told(k)
  <2>1. (\E q \in Requests : At(q, "upload", "done") /\ req[q].doc = k)'
        <=> \E q \in Requests : At(q, "upload", "done") /\ req[q].doc = k
    BY <1>a, <1>b, NoneIsNull DEF At
  <2> QED
    BY <2>1 DEF Told, Local
<1>2. ASSUME NEW x \in Requests \ {r} PROVE Holds(x)'
  <2>1. req'[x] = req[x]
    BY <1>b
  <2>2. \A op \in {"upload", "delete"}, stage \in Stages : At(x, op, stage)' <=> At(x, op, stage)
    BY <2>1 DEF At
  <2>3. ASSUME At(x, "upload", "half")
        PROVE  (/\ req[x].doc \in object /\ req[x].doc \notin row
                /\ ~Told(req[x].doc)
                /\ \A y \in Requests \ {x} : req[y].doc # req[x].doc)'
    <3>0. PICK k : k = req[x].doc
      OBVIOUS
    <3>1. k \in Docs /\ k \in object /\ k \notin row
          /\ ~Told(k)
          /\ \A y \in Requests \ {x} : req[y].doc # k
      BY <2>3, <3>0 DEF IInv, Holds, At
    <3>2. k # d /\ k # None
      BY <1>a, <3>1, NoneIsNull
    <3>3. ASSUME NEW y \in Requests \ {x} PROVE req'[y].doc # k
      BY <1>a, <1>b, <3>1, <3>2
    <3>4. k \in object' /\ k \notin row'
      BY <1>c, <3>1, <3>2
    <3>5. ~Told(k)'
      BY <1>1, <3>1, <3>2
    <3>6. k = req'[x].doc
      BY <2>1, <3>0
    <3>7. ~Told(req[x].doc)'
      BY <3>5, <3>6 DEF Told
    <3> QED
      BY <3>3, <3>4, <3>6, <3>7
  <2>4. At(x, "delete", "half") => req'[x].doc \notin object'
    <3>1. At(x, "delete", "half") => req[x].doc \notin object /\ req[x].doc \in Docs
      BY DEF IInv, Holds, At
    <3> QED
      BY <1>c, <1>d, <2>1, <3>1
  <2>5. req[x].stage \in {"found", "half", "done"} => req[x].doc \in Docs /\ req[x].op \in Ops
    BY DEF IInv, Holds
  <2> QED
    BY <2>1, <2>2, <2>3, <2>4, <2>5 DEF Holds, Stages
<1>3. ASSUME NEW k \in Docs \ {d} PROVE Agrees(k)' /\ Tells(k)'
  <2>1. Agrees(k) /\ Tells(k)
    BY DEF IInv
  <2>2. Agrees(k)'
    BY <1>a, <1>b, <1>c, <2>1, NoneIsNull DEF Agrees
  <2>3. Tells(k)'
    BY <1>1, <1>c, <2>1 DEF Tells
  <2> QED
    BY <2>2, <2>3
<1> QED
  BY <1>2, <1>3

LEMMA CreateRowInv ==
    ASSUME IInv, NEW r \in Requests, CreateRow(r) PROVE IInv'
<1>9. PICK d : d = req[r].doc
  OBVIOUS
<1> DEFINE n == [req[r] EXCEPT !.stage = "done"]
<1>0. TypeOK /\ req \in [Requests -> Request]
  BY DEF IInv, TypeOK
<1>1. /\ d \in Docs /\ d \in object /\ d \notin row
      /\ \A x \in Requests \ {r} : req[x].doc # d
  BY <1>9 DEF CreateRow, IInv, Holds, At
<1>2. n \in Request /\ n.op = "upload" /\ n.stage = "done" /\ n.doc = d
  BY <1>0, <1>9 DEF CreateRow, At, Request, Stages
<1>3. req' = [req EXCEPT ![r] = n] /\ row' = row \cup {d} /\ UNCHANGED <<workflow, object, audit, cut, astray>>
  BY <1>0, <1>9 DEF CreateRow, Goto
<1> HIDE DEF n
<1>4. TypeOK'
  BY <1>0, <1>1, <1>2, <1>3, StillTyped DEF TypeOK
<1>5. Local(r, d)
  BY <1>0, <1>2, <1>3, <1>9 DEF Local
<1>6. Told(d)'
  BY <1>0, <1>1, <1>2, <1>3 DEF Told, At
<1>7. Holds(r)'
  BY <1>0, <1>1, <1>2, <1>3 DEF Holds, At, Ops
<1>8. Agrees(d)' /\ Tells(d)'
  BY <1>1, <1>3, <1>6 DEF Agrees, Tells
<1> QED
  BY <1>1, <1>4, <1>5, <1>7, <1>8, Elsewhere DEF IInv
-----------------------------------------------------------------------------
(* deleteEvidence *)

LEMMA RemoveObjectInv ==
    ASSUME IInv, NEW r \in Requests, RemoveObject(r) PROVE IInv'
<1>9. PICK d : d = req[r].doc
  OBVIOUS
<1> DEFINE n == [req[r] EXCEPT !.stage = "half"]
<1>0. TypeOK /\ req \in [Requests -> Request]
  BY DEF IInv, TypeOK
<1>1. d \in Docs /\ Tells(d)
  BY <1>9 DEF RemoveObject, IInv, Holds, At
<1>2. n \in Request /\ n.op = "delete" /\ n.stage = "half" /\ n.doc = d
      /\ req[r].stage = "found"
  BY <1>0, <1>9 DEF RemoveObject, At, Request, Stages
<1>3. /\ req' = [req EXCEPT ![r] = n] /\ object' = object \ {d} /\ UNCHANGED <<workflow, row, audit, cut, astray>>
  BY <1>0, <1>9 DEF RemoveObject, Goto
<1> HIDE DEF n
<1>5. TypeOK'
  BY <1>0, <1>1, <1>2, <1>3, StillTyped DEF TypeOK
<1>6. Local(r, d)
  BY <1>0, <1>2, <1>3, <1>9 DEF Local
<1>7. Told(d)' <=> Told(d)
  BY <1>0, <1>2, <1>3, <1>9 DEF Told, At
<1>8. Holds(r)'
  BY <1>0, <1>1, <1>2, <1>3 DEF Holds, At, Ops
<1>10. Agrees(d)' /\ Tells(d)'
  BY <1>0, <1>1, <1>2, <1>3, <1>7 DEF Agrees, Tells
<1> QED
  BY <1>1, <1>5, <1>6, <1>8, <1>10, Elsewhere DEF IInv

LEMMA DeleteRowInv ==
    ASSUME IInv, NEW r \in Requests, DeleteRow(r) PROVE IInv'
<1>9. PICK d : d = req[r].doc
  OBVIOUS
<1> DEFINE n == [req[r] EXCEPT !.stage = "done"]
<1>0. TypeOK /\ req \in [Requests -> Request]
  BY DEF IInv, TypeOK
<1>1. d \in Docs /\ d \notin object
  BY <1>9 DEF DeleteRow, IInv, Holds, At
<1>2. n \in Request /\ n.op = "delete" /\ n.stage = "done" /\ n.doc = d
  BY <1>0, <1>9 DEF DeleteRow, At, Request, Stages
<1>3. req' = [req EXCEPT ![r] = n] /\ row' = row \ {d} /\ UNCHANGED <<workflow, object, audit, cut, astray>>
  BY <1>0, <1>9 DEF DeleteRow, Goto
<1> HIDE DEF n
<1>5. TypeOK'
  BY <1>0, <1>2, <1>3, StillTyped DEF TypeOK
<1>6. Local(r, d)
  BY <1>0, <1>2, <1>3, <1>9 DEF Local
<1>8. Holds(r)'
  BY <1>0, <1>1, <1>2, <1>3 DEF Holds, At, Ops
<1>10. Agrees(d)' /\ Tells(d)'
  BY <1>1, <1>3 DEF Agrees, Tells
<1> QED
  BY <1>1, <1>5, <1>6, <1>8, <1>10, Elsewhere DEF IInv
-----------------------------------------------------------------------------
(* The end of a request. *)

LEMMA LoggedTyped ==
    ASSUME NEW log \in Log, NEW q, q.doc \in Docs
    PROVE  /\ Logged(log, q) \in Log
           /\ Logged(log, q).created =
                 IF q.op = "upload" THEN log.created \cup {q.doc} ELSE log.created
           /\ Logged(log, q).deleted = IF q.op = "upload" THEN log.deleted ELSE log.deleted + 1
BY DEF Log, Logged

\* A request that is done leaves its row in the log or among what is missing there.
LEMMA ToldStill ==
    ASSUME TypeOK, NEW r \in Requests, req[r].doc \in Docs, req' = [req EXCEPT ![r] = Idle],
           audit'.created \cup cut'.log.created =
              (audit.created \cup cut.log.created)
                 \cup (IF At(r, "upload", "done") THEN {req[r].doc} ELSE {}),
           NEW k \in Docs
    PROVE  Told(k)' <=> Told(k)
<1>1. req'[r] = Idle /\ \A x \in Requests \ {r} : req'[x] = req[x]
  BY DEF TypeOK
<1>2. \A x \in Requests \ {r} : At(x, "upload", "done")' <=> At(x, "upload", "done")
  BY <1>1 DEF At
<1>3. ~At(r, "upload", "done")'
  BY <1>1, IdleTyped DEF At
<1> QED
  BY <1>1, <1>2, <1>3 DEF Told

LEMMA AppendInv ==
    ASSUME IInv, NEW r \in Requests, Append(r) PROVE IInv'
<1>4. PICK d : d = req[r].doc
  OBVIOUS
<1>0. TypeOK /\ req \in [Requests -> Request] /\ audit \in Log
  BY DEF IInv, TypeOK
<1>1. d \in Docs /\ req[r].stage = "done" /\ Agrees(d) /\ Tells(d)
  BY <1>4 DEF Append, IInv, Holds
<1>2. /\ req' = [req EXCEPT ![r] = Idle] /\ audit' = Logged(audit, req[r])
      /\ UNCHANGED <<workflow, object, row, cut, astray>>
  BY DEF Append
<1>3. /\ audit' \in Log
      /\ audit'.created = IF req[r].op = "upload" THEN audit.created \cup {d} ELSE audit.created
  BY <1>0, <1>1, <1>2, <1>4, LoggedTyped
<1>5. TypeOK'
  BY <1>0, <1>2, <1>3, IdleTyped, StillTyped DEF TypeOK
<1>6. Local(r, d)
  BY <1>0, <1>2, <1>3, <1>4, IdleTyped DEF Local
<1>7. Told(d)' <=> Told(d)
  BY <1>0, <1>1, <1>2, <1>3, <1>4, ToldStill DEF At
<1>8. Holds(r)'
  BY <1>0, <1>2, IdleTyped DEF Holds, At
<1>10. Agrees(d)' /\ Tells(d)'
  BY <1>0, <1>1, <1>2, <1>4, <1>7 DEF Agrees, Tells
<1> QED
  BY <1>1, <1>5, <1>6, <1>8, <1>10, Elsewhere DEF IInv

LEMMA AbortInv ==
    ASSUME IInv, NEW r \in Requests, Abort(r) PROVE IInv'
<1>5. PICK d : d = req[r].doc
  OBVIOUS
<1>0. TypeOK /\ req \in [Requests -> Request] /\ cut \in [docs: SUBSET Docs, log: Log]
  BY DEF IInv, TypeOK
<1>1. req' = [req EXCEPT ![r] = Idle] /\ UNCHANGED <<workflow, object, row, audit, astray>>
  BY DEF Abort
<1>2. cut' = [docs |-> IF req[r].stage = "half" THEN cut.docs \cup {d} ELSE cut.docs,
              log |-> IF req[r].stage = "done" THEN Logged(cut.log, req[r]) ELSE cut.log]
  BY <1>5 DEF Abort
<1>3. CASE req[r].stage \notin {"half", "done"}
  <2>1. cut' = cut
    BY <1>0, <1>2, <1>3
  <2> QED
    BY <1>0, <1>1, <1>3, <2>1, IdleTyped, HarmlessAlone DEF Unfinished
<1>4. CASE req[r].stage \in {"half", "done"}
  <2>1. d \in Docs /\ Agrees(d) /\ Tells(d)
    BY <1>4, <1>5 DEF IInv, Holds
  <2>2. /\ cut'.log \in Log
        /\ cut'.log.created = IF At(r, "upload", "done") THEN cut.log.created \cup {d}
                              ELSE cut.log.created
    <3>1. cut.log \in Log
      BY <1>0
    <3>2. cut'.log = IF req[r].stage = "done" THEN Logged(cut.log, req[r]) ELSE cut.log
      BY <1>2
    <3> QED
      BY <1>5, <2>1, <3>1, <3>2, LoggedTyped DEF At
  <2>3. TypeOK'
    <3>1. cut' \in [docs: SUBSET Docs, log: Log]
      BY <1>0, <1>2, <2>1, <2>2
    <3> QED
      BY <1>0, <1>1, <3>1, IdleTyped, StillTyped DEF TypeOK
  <2>4. Local(r, d)
    BY <1>0, <1>1, <1>2, <1>5, <2>2, IdleTyped DEF Local
  <2>5. Told(d)' <=> Told(d)
    <3>1. audit'.created \cup cut'.log.created =
             (audit.created \cup cut.log.created)
                \cup (IF At(r, "upload", "done") THEN {d} ELSE {})
      BY <1>1, <2>2
    <3> QED
      BY <1>0, <1>1, <1>5, <2>1, <3>1, ToldStill
  <2>6. Holds(r)'
    BY <1>0, <1>1, IdleTyped DEF Holds, At
  <2>7. Agrees(d)' /\ Tells(d)'
    BY <1>0, <1>1, <1>2, <2>1, <1>5, <2>5, <1>4 DEF Agrees, Tells
  <2> QED
    BY <2>1, <2>3, <2>4, <2>6, <2>7, Elsewhere DEF IInv
<1> QED
  BY <1>3, <1>4
-----------------------------------------------------------------------------
(* The numbers of the log. *)

\* The documents the log names, or would.
Made == audit.created \cup cut.log.created
        \cup {req[r].doc : r \in {x \in Requests : At(x, "upload", "done")}}
Ending == {r \in Requests : At(r, "delete", "done")}

Counted ==
    /\ IsFiniteSet(Made) /\ IsFiniteSet(Ending)
    /\ Cardinality(Made \ row) = audit.deleted + cut.log.deleted + Cardinality(Ending)

LEMMA MadeTold == \A d : d \in Made <=> Told(d)
BY DEF Made, Told

\* Nothing that is counted changes.
LEMMA CountedStill ==
    ASSUME Counted, Made' = Made, Made \ row' = Made \ row, Ending' = Ending,
           audit'.deleted + cut'.log.deleted = audit.deleted + cut.log.deleted
    PROVE  Counted'
BY DEF Counted

\* One request goes on, from a stage before "done" to another.
LEMMA CountedBefore ==
    ASSUME IInv, Counted, NEW r \in Requests, NEW n, req' = [req EXCEPT ![r] = n],
           req[r].stage # "done", n.stage # "done", row' = row, UNCHANGED audit,
           cut'.log = cut.log
    PROVE  Counted'
<1>1. req'[r] = n /\ \A x \in Requests \ {r} : req'[x] = req[x]
  BY DEF IInv, TypeOK
<1>2. \A x \in Requests, op \in Ops : At(x, op, "done")' <=> At(x, op, "done")
  BY <1>1 DEF At
<1>3. \A x \in Requests : At(x, "upload", "done") => req'[x].doc = req[x].doc
  BY <1>1 DEF At
<1>4. Made' = Made
  BY <1>2, <1>3 DEF Made, Ops
<1>5. Ending' = Ending
  BY <1>2 DEF Ending, Ops
<1> QED
  BY <1>4, <1>5, CountedStill

LEMMA CountedCreate ==
    ASSUME IInv, Counted, NEW r \in Requests, CreateRow(r) PROVE Counted'
<1>9. PICK d : d = req[r].doc
  OBVIOUS
<1>1. d \notin row /\ d \notin Made
  BY <1>9, MadeTold DEF CreateRow, IInv, Holds, At
<1>2. /\ req'[r].op = "upload" /\ req'[r].stage = "done" /\ req'[r].doc = d
      /\ req[r].op = "upload" /\ req[r].stage = "half"
      /\ \A x \in Requests \ {r} : req'[x] = req[x]
  BY <1>9 DEF CreateRow, Goto, At, IInv, TypeOK, Request
<1>3. row' = row \cup {d} /\ UNCHANGED <<audit, cut>>
  BY <1>9 DEF CreateRow
<1>4. Made' = Made \cup {d}
  BY <1>2, <1>3 DEF Made, At
<1>5. Ending' = Ending
  BY <1>2 DEF Ending, At
<1>6. Made' \ row' = Made \ row
  BY <1>1, <1>3, <1>4
<1>7. IsFiniteSet(Made')
  BY <1>4, FS_AddElement DEF Counted
<1> QED
  BY <1>3, <1>5, <1>6, <1>7 DEF Counted

\* One document more is gone, and one deletion more is to be logged.
LEMMA CountedDelete ==
    ASSUME IInv, Counted, NEW r \in Requests, DeleteRow(r) PROVE Counted'
<1>9. PICK d : d = req[r].doc
  OBVIOUS
<1>1. d \in row /\ d \in Docs /\ row' = row \ {d} /\ UNCHANGED <<audit, cut>>
  BY <1>9 DEF DeleteRow, IInv, TypeOK
<1>2. d \in Made
  BY <1>1, MadeTold DEF IInv, Tells
<1>3. /\ req'[r].op = "delete" /\ req'[r].stage = "done"
      /\ req[r].op = "delete" /\ req[r].stage = "half"
      /\ \A x \in Requests \ {r} : req'[x] = req[x]
  BY DEF DeleteRow, Goto, At, IInv, TypeOK, Request
<1>4. Made' = Made
  BY <1>1, <1>3 DEF Made, At
<1>5. Ending' = Ending \cup {r} /\ r \notin Ending
  BY <1>3 DEF Ending, At
<1>6. Made' \ row' = (Made \ row) \cup {d} /\ d \notin Made \ row
  BY <1>1, <1>2, <1>4
<1>7. IsFiniteSet(Made \ row)
  BY FS_Subset DEF Counted
<1>8. Cardinality(Made' \ row') = Cardinality(Made \ row) + 1
  BY <1>6, <1>7, FS_AddElement
<1>10. IsFiniteSet(Ending') /\ Cardinality(Ending') = Cardinality(Ending) + 1
  BY <1>5, FS_AddElement DEF Counted
<1>11. Cardinality(Ending) \in Nat
  BY FS_CardinalityType DEF Counted
<1>12. audit.deleted \in Nat /\ cut.log.deleted \in Nat
  BY DEF IInv, TypeOK, Log
<1> QED
  BY <1>1, <1>4, <1>8, <1>10, <1>11, <1>12 DEF Counted

\* A row of the log, or one that is missing there, takes the place of a request.
LEMMA CountedEnd ==
    ASSUME IInv, Counted, NEW r \in Requests, req[r].stage = "done",
           req' = [req EXCEPT ![r] = Idle], row' = row,
           \/ audit' = Logged(audit, req[r]) /\ cut' = cut
           \/ audit' = audit /\ cut'.log = Logged(cut.log, req[r])
    PROVE  Counted'
<1>0. audit \in Log /\ cut.log \in Log /\ req[r].doc \in Docs /\ req[r].op \in Ops
  BY DEF IInv, TypeOK, Holds
<1>1. req'[r] = Idle /\ \A x \in Requests \ {r} : req'[x] = req[x]
  BY DEF IInv, TypeOK
<1>4. \A log \in Log :
         /\ req[r].op = "upload" => /\ Logged(log, req[r]).created = log.created \cup {req[r].doc}
                                   /\ Logged(log, req[r]).deleted = log.deleted
         /\ req[r].op = "delete" => /\ Logged(log, req[r]).created = log.created
                                   /\ Logged(log, req[r]).deleted = log.deleted + 1
  BY <1>0, LoggedTyped
<1>5. audit.deleted \in Nat /\ cut.log.deleted \in Nat
  BY <1>0 DEF Log
<1>2. CASE req[r].op = "upload"
  <2>1. /\ audit'.created \cup cut'.log.created =
             audit.created \cup cut.log.created \cup {req[r].doc}
        /\ audit'.deleted = audit.deleted /\ cut'.log.deleted = cut.log.deleted
    BY <1>0, <1>2, <1>4
  <2>2. Made' = Made
    BY <1>1, <1>2, <2>1, IdleTyped DEF Made, At
  <2>3. Ending' = Ending
    BY <1>1, <1>2, IdleTyped DEF Ending, At
  <2> QED
    BY <2>1, <2>2, <2>3, CountedStill
<1>3. CASE req[r].op = "delete"
  <2>1. /\ audit'.created \cup cut'.log.created = audit.created \cup cut.log.created
        /\ audit'.deleted + cut'.log.deleted = audit.deleted + cut.log.deleted + 1
    BY <1>0, <1>3, <1>4, <1>5
  <2>2. Made' = Made
    BY <1>1, <1>3, <2>1, IdleTyped DEF Made, At
  <2>3. Ending' = Ending \ {r} /\ r \in Ending
    BY <1>1, <1>3, IdleTyped DEF Ending, At
  <2>4. IsFiniteSet(Ending') /\ Cardinality(Ending') = Cardinality(Ending) - 1
    BY <2>3, FS_RemoveElement DEF Counted
  <2>5. Cardinality(Ending) \in Nat /\ audit.deleted \in Nat /\ cut.log.deleted \in Nat
    BY <1>0, FS_CardinalityType DEF Counted, Log
  <2> QED
    BY <2>1, <2>2, <2>4, <2>5 DEF Counted
<1> QED
  BY <1>0, <1>2, <1>3 DEF Ops

LEMMA CountedNext == IInv /\ Counted /\ [Next]_vars => Counted'
<1> SUFFICES ASSUME IInv, Counted, [Next]_vars PROVE Counted'
  OBVIOUS
<1>0. TypeOK /\ req \in [Requests -> Request]
  BY DEF IInv, TypeOK
<1>1. CASE UNCHANGED vars
  BY <1>1 DEF vars, Counted, Made, Ending, At
<1>2. CASE MoveTask
  <2>1. \A r \in Requests : /\ req'[r].op = req[r].op /\ req'[r].stage = req[r].stage
                            /\ req'[r].doc = req[r].doc
    BY <1>0, <1>2, Refreshed
  <2>2. UNCHANGED <<row, audit, cut>>
    BY <1>2 DEF MoveTask
  <2>3. Made' = Made
    BY <2>1, <2>2 DEF Made, At
  <2>4. Ending' = Ending
    BY <2>1 DEF Ending, At
  <2> QED
    BY <2>2, <2>3, <2>4, CountedStill
<1>3. ASSUME NEW r \in Requests, NEW op \in Ops, ReadReport(r, op) PROVE Counted'
  <2> DEFINE n == [Idle EXCEPT !.op = op, !.stage = "opened", !.draft = (report = "draft"),
                              !.fresh = {"report"}]
  <2>1. n.stage = "opened" /\ req[r].stage = "idle" /\ req' = [req EXCEPT ![r] = n]
    BY <1>3, IdleTyped DEF ReadReport, Idle
  <2> HIDE DEF n
  <2> QED
    BY <1>3, <2>1, CountedBefore DEF ReadReport
<1>4. ASSUME NEW r \in Requests, LoadTask(r) PROVE Counted'
  <2> DEFINE n == [req[r] EXCEPT !.stage = "ready", !.fresh = @ \cup {"task"}]
  <2>1. n.stage = "ready"
    BY <1>0 DEF Request
  <2>2. req' = [req EXCEPT ![r] = n] \/ req' = [req EXCEPT ![r] = Idle]
    BY <1>0, <1>4 DEF LoadTask, Pass
  <2> HIDE DEF n
  <2> QED
    BY <1>4, <2>1, <2>2, CountedBefore, IdleTyped DEF LoadTask
<1>5. ASSUME NEW r \in Requests, NEW d \in Docs, PutObject(r, d) \/ FindRow(r, d)
      PROVE  Counted'
  <2>1. PICK to \in {"found", "half"} : req' = [req EXCEPT ![r].stage = to, ![r].doc = d]
    BY <1>5 DEF PutObject, FindRow
  <2> DEFINE n == [req[r] EXCEPT !.stage = to, !.doc = d]
  <2>2. n.stage = to /\ req' = [req EXCEPT ![r] = n] /\ req[r].stage = "ready"
    BY <1>0, <1>5, <2>1 DEF PutObject, FindRow, At, Request
  <2> HIDE DEF n
  <2> QED
    BY <1>5, <2>2, CountedBefore DEF PutObject, FindRow
<1>6. ASSUME NEW r \in Requests, RemoveObject(r) PROVE Counted'
  <2> DEFINE n == [req[r] EXCEPT !.stage = "half"]
  <2>1. n.stage = "half" /\ req' = [req EXCEPT ![r] = n] /\ req[r].stage = "found"
    BY <1>0, <1>6 DEF RemoveObject, Goto, At, Request
  <2> HIDE DEF n
  <2> QED
    BY <1>6, <2>1, CountedBefore DEF RemoveObject
<1>7. ASSUME NEW r \in Requests, Append(r) PROVE Counted'
  BY <1>7, CountedEnd DEF Append
<1>8. ASSUME NEW r \in Requests, Abort(r) PROVE Counted'
  <2>1. req' = [req EXCEPT ![r] = Idle] /\ row' = row /\ audit' = audit
        /\ cut'.log = IF req[r].stage = "done" THEN Logged(cut.log, req[r]) ELSE cut.log
    BY <1>8 DEF Abort
  <2>2. CASE req[r].stage = "done"
    BY <2>1, <2>2, CountedEnd
  <2>3. CASE req[r].stage # "done"
    BY <2>1, <2>3, CountedBefore, IdleTyped
  <2> QED
    BY <2>2, <2>3
<1> QED
  BY <1>1, <1>2, <1>3, <1>4, <1>5, <1>6, <1>7, <1>8, CountedCreate, CountedDelete DEF Next

LEMMA CountedInit == Init => Counted
<1> SUFFICES ASSUME Init PROVE Counted
  OBVIOUS
<1>1. \A r \in Requests : req[r].stage = "idle"
  BY IdleTyped DEF Init
<1>2. Made = {} /\ Ending = {} /\ audit.deleted = 0 /\ cut.log.deleted = 0
  BY <1>1 DEF Init, NoLog, Made, Ending, At
<1>3. IsFiniteSet({}) /\ Cardinality({}) = 0
  BY FS_EmptySet
<1>4. Made \ row = {}
  BY <1>2
<1> QED
  BY <1>2, <1>3, <1>4 DEF Counted
-----------------------------------------------------------------------------
(* What a request may believe of the two rows while nobody has written     *)
(* them.                                                                   *)

Open == report = "draft" \/ status = "RETURNED"

Believes(r) ==
    /\ req[r].stage = "opened" /\ "report" \in req[r].fresh => (req[r].draft <=> report = "draft")
    /\ req[r].stage \in {"ready", "found", "half"} /\ req[r].fresh = {"report", "task"} => Open

\* A report under review or approved is a draft only if somebody went astray.
Closed == status \in {"PENDING_REVIEW", "APPROVED"} /\ report = "draft" => astray

BInv == TypeOK /\ Closed /\ \A r \in Requests : Believes(r)

\* One request goes on, and the rows stay as they are.
LEMMA BelievesStill ==
    ASSUME BInv, NEW r \in Requests, NEW n, req' = [req EXCEPT ![r] = n],
           UNCHANGED <<status, report, astray>>,
           n.stage # "opened",
           n.stage \in {"ready", "found", "half"} /\ n.fresh = {"report", "task"} => Open
    PROVE  Closed' /\ \A x \in Requests : Believes(x)'
<1>1. (Open' <=> Open) /\ Closed'
  BY DEF Open, Closed, BInv
<1>2. req'[r] = n /\ \A x \in Requests \ {r} : req'[x] = req[x]
  BY DEF BInv, TypeOK
<1>3. Believes(r)'
  BY <1>1, <1>2 DEF Believes
<1>4. ASSUME NEW x \in Requests \ {r} PROVE Believes(x)'
  BY <1>1, <1>2 DEF Believes, BInv
<1> QED
  BY <1>1, <1>3, <1>4

\* Only a write whose check fails by then makes a draft of a report under review.
LEMMA ClosedStep ==
    ASSUME TypeOK, Closed, MoveTask PROVE Closed'
<1>1. PICK op \in Workflow!Ops :
         Workflow!Write(op) /\ astray' = (op # "submit" /\ (astray \/ ~Workflow!Passes(op)))
  BY DEF MoveTask
<1>2. CASE op = "start"
  BY <1>1, <1>2 DEF Closed, Workflow!Write, Workflow!Start
<1>3. CASE op = "cancel"
  BY <1>1, <1>3 DEF Closed, Workflow!Write, Workflow!Cancel
<1>4. CASE op = "update"
  BY <1>1, <1>4 DEF Closed, Workflow!Write, Workflow!Update, Workflow!Passes
<1>5. CASE op = "submit"
  BY <1>1, <1>5 DEF Closed, Workflow!Write, Workflow!Submit
<1>6. CASE op = "approve"
  BY <1>1, <1>6 DEF Closed, Workflow!Write, Workflow!Approve, Workflow!Passes
<1>7. CASE op = "return"
  BY <1>1, <1>7 DEF Closed, Workflow!Write, Workflow!Return
<1> QED
  BY <1>2, <1>3, <1>4, <1>5, <1>6, <1>7 DEF Workflow!Ops

LEMMA BelievesInv ==
    ASSUME BInv, [Next]_vars PROVE Closed' /\ \A x \in Requests : Believes(x)'
<1>0. req \in [Requests -> Request] /\ TypeOK /\ Closed /\ \A x \in Requests : Believes(x)
  BY DEF BInv, TypeOK
<1>1. CASE UNCHANGED vars
  BY <1>0, <1>1 DEF vars, workflow, Believes, Open, Closed
<1>2. CASE MoveTask
  <2> SUFFICES ASSUME NEW x \in Requests PROVE Believes(x)'
    BY <1>0, <1>2, ClosedStep
  <2>1. /\ req'[x].stage = req[x].stage /\ req'[x].draft = req[x].draft
        /\ \A k \in req'[x].fresh :
              k \in req[x].fresh /\ IF k = "task" THEN status' = status ELSE report' = report
    BY <1>0, <1>2, Refreshed
  <2>2. req[x].fresh \subseteq {"report", "task"}
    BY <1>0 DEF Request
  <2>3. "report" \in req'[x].fresh => "report" \in req[x].fresh /\ report' = report
    BY <2>1
  <2>4. req'[x].fresh = {"report", "task"} =>
          req[x].fresh = {"report", "task"} /\ report' = report /\ status' = status
    BY <2>1, <2>2
  <2> QED
    BY <1>0, <2>1, <2>3, <2>4 DEF Believes, Open
<1>3. ASSUME NEW r \in Requests, NEW op \in Ops, ReadReport(r, op)
      PROVE  Closed' /\ \A x \in Requests : Believes(x)'
  <2> DEFINE n == [Idle EXCEPT !.op = op, !.stage = "opened", !.draft = (report = "draft"),
                              !.fresh = {"report"}]
  <2>1. n.stage = "opened" /\ n.draft = (report = "draft")
    BY DEF Idle
  <2>2. req' = [req EXCEPT ![r] = n] /\ UNCHANGED <<status, report, astray>>
    BY <1>3 DEF ReadReport, workflow
  <2> HIDE DEF n
  <2>3. Believes(r)'
    BY <1>0, <2>1, <2>2 DEF Believes
  <2>4. ASSUME NEW x \in Requests \ {r} PROVE Believes(x)'
    BY <1>0, <2>2 DEF Believes, Open
  <2> QED
    BY <1>0, <2>2, <2>3, <2>4 DEF Closed
<1>4. ASSUME NEW r \in Requests, LoadTask(r)
      PROVE  Closed' /\ \A x \in Requests : Believes(x)'
  <2>1. UNCHANGED <<status, report, astray>>
    BY <1>4 DEF LoadTask, workflow
  <2>2. CASE req' = [req EXCEPT ![r] = Idle]
    BY <2>1, <2>2, BelievesStill, IdleTyped
  <2>3. CASE Pass(r) /\ (req[r].draft \/ status = "RETURNED")
    <3> DEFINE n == [req[r] EXCEPT !.stage = "ready", !.fresh = @ \cup {"task"}]
    <3>1. req' = [req EXCEPT ![r] = n] /\ n.stage = "ready" /\ n.fresh = req[r].fresh \cup {"task"}
      BY <1>0, <2>3 DEF Pass, Request
    <3> HIDE DEF n
    <3>2. n.fresh = {"report", "task"} => "report" \in req[r].fresh
      BY <3>1
    <3>3. "report" \in req[r].fresh => Open
      BY <1>0, <1>4, <2>3 DEF LoadTask, Believes, Open
    <3> QED
      BY <2>1, <3>1, <3>2, <3>3, BelievesStill
  <2> QED
    BY <1>4, <2>2, <2>3 DEF LoadTask
<1>5. ASSUME NEW r \in Requests, CreateRow(r) \/ RemoveObject(r) \/ DeleteRow(r)
      PROVE  Closed' /\ \A x \in Requests : Believes(x)'
  <2>1. PICK to \in {"half", "done"} :
           /\ Goto(r, to) /\ req[r].stage \in {"found", "half"}
           /\ UNCHANGED <<status, report, astray>>
    BY <1>5 DEF CreateRow, RemoveObject, DeleteRow, At, workflow
  <2> DEFINE n == [req[r] EXCEPT !.stage = to]
  <2>2. req' = [req EXCEPT ![r] = n] /\ n.stage = to /\ n.fresh = req[r].fresh
    BY <1>0, <2>1 DEF Goto, Request
  <2> HIDE DEF n
  <2>3. req[r].fresh = {"report", "task"} => Open
    BY <1>0, <2>1 DEF Believes
  <2> QED
    BY <2>1, <2>2, <2>3, BelievesStill
<1>6. ASSUME NEW r \in Requests, NEW d \in Docs, PutObject(r, d) \/ FindRow(r, d)
      PROVE  Closed' /\ \A x \in Requests : Believes(x)'
  <2>1. PICK to \in {"found", "half"} :
           /\ req' = [req EXCEPT ![r].stage = to, ![r].doc = d]
           /\ req[r].stage = "ready" /\ UNCHANGED <<status, report, astray>>
    BY <1>6 DEF PutObject, FindRow, At, workflow
  <2> DEFINE n == [req[r] EXCEPT !.stage = to, !.doc = d]
  <2>2. req' = [req EXCEPT ![r] = n] /\ n.stage = to /\ n.fresh = req[r].fresh
    BY <1>0, <2>1 DEF Request
  <2> HIDE DEF n
  <2>3. req[r].fresh = {"report", "task"} => Open
    BY <1>0, <2>1 DEF Believes
  <2> QED
    BY <2>1, <2>2, <2>3, BelievesStill
<1>7. ASSUME NEW r \in Requests, Append(r) \/ Abort(r)
      PROVE  Closed' /\ \A x \in Requests : Believes(x)'
  <2>1. req' = [req EXCEPT ![r] = Idle] /\ UNCHANGED <<status, report, astray>>
    BY <1>7 DEF Append, Abort, workflow
  <2> QED
    BY <2>1, BelievesStill, IdleTyped
<1> QED
  BY <1>1, <1>2, <1>3, <1>4, <1>5, <1>6, <1>7 DEF Next
-----------------------------------------------------------------------------
LEMMA NextInv == IInv /\ [Next]_vars => IInv'
<1> SUFFICES ASSUME IInv, [Next]_vars PROVE IInv'
  OBVIOUS
<1>1. CASE UNCHANGED vars
  BY <1>1, HarmlessAlone DEF vars, IInv, TypeOK
<1>2. ASSUME NEW r \in Requests,
             CreateRow(r) \/ RemoveObject(r) \/ DeleteRow(r) \/ Append(r) \/ Abort(r)
      PROVE  IInv'
  BY <1>2, CreateRowInv, RemoveObjectInv, DeleteRowInv, AppendInv, AbortInv
<1>3. ASSUME NEW r \in Requests, NEW d \in Docs, PutObject(r, d) PROVE IInv'
  BY <1>3, PutObjectInv
<1> QED
  BY <1>1, <1>2, <1>3, HarmlessSteps DEF Next

\* The stores, the log and the requests keep their types.
THEOREM EvidenceTyped == Spec => []TypeOK
<1>1. IInv => TypeOK
  BY DEF IInv
<1> QED
  BY <1>1, InitInv, NextInv, PTL DEF Spec

\* uploadEvidence and deleteEvidence: whatever overlaps, a document is in both stores
\* or in none, but for requests that are between them or died there.
THEOREM StoresConsistent == Spec => []StoresAgree
<1>1. IInv => StoresAgree
  BY DEF IInv, Agrees, StoresAgree
<1> QED
  BY <1>1, InitInv, NextInv, PTL DEF Spec

\* AuditInterceptor: there is one audit row for each document there ever was and one for
\* each that is gone, but for audit rows that are to come or never came; deletions that
\* overlap are not counted twice.
THEOREM AuditConsistent == Spec => []AuditCounts
<1>1. IInv /\ Counted => AuditCounts
  <2> SUFFICES ASSUME IInv, Counted PROVE AuditCounts
    OBVIOUS
  <2>1. row \subseteq Made
    BY MadeTold DEF IInv, Tells, TypeOK
  <2> QED
    BY <2>1 DEF Counted, AuditCounts, Made, Ending
<1> QED
  BY <1>1, InitInv, NextInv, CountedInit, CountedNext, PTL DEF Spec

\* ownedReport and the check of both operations: the evidence of a report that is handed
\* in or approved changes only by a request that had read the report or its task before
\* they were last written, or after a request that wrote them although its check would
\* have failed by then.
THEOREM EvidenceFrozen == Spec => FrozenUnlessStale
<1>1. BInv /\ [Next]_vars =>
        (<<object, row>>' # <<object, row>> =>
            \/ status \notin {"PENDING_REVIEW", "APPROVED"}
            \/ astray
            \/ \E r \in Requests : /\ req'[r].stage # req[r].stage
                                   /\ req[r].fresh # {"report", "task"})
  <2> SUFFICES ASSUME BInv, Next, <<object, row>>' # <<object, row>>,
                      status \in {"PENDING_REVIEW", "APPROVED"}, ~astray
               PROVE  \E r \in Requests : /\ req'[r].stage # req[r].stage
                                          /\ req[r].fresh # {"report", "task"}
    BY DEF vars
  <2>1. PICK r \in Requests : \/ CreateRow(r) \/ RemoveObject(r) \/ DeleteRow(r)
                             \/ \E d \in Docs : PutObject(r, d)
    BY DEF Next, MoveTask, ReadReport, LoadTask, FindRow, Append, Abort
  <2>2. /\ req[r].stage \in {"ready", "found", "half"}
        /\ req'[r].stage # req[r].stage
    BY <2>1 DEF CreateRow, RemoveObject, DeleteRow, PutObject, At, Goto, BInv, TypeOK, Request
  <2>3. ~Open
    BY DEF BInv, Closed, Open
  <2> QED
    BY <2>2, <2>3 DEF BInv, Believes
<1>2. Init => BInv
  <2>1. Init => Closed /\ \A r \in Requests : Believes(r)
    BY DEF Init, Workflow!Init, Closed, Believes, Idle
  <2> QED
    BY <2>1, InitInv DEF IInv, BInv
<1>3. TypeOK' /\ BInv /\ [Next]_vars => BInv'
  BY BelievesInv DEF BInv
<1> QED
  BY <1>1, <1>2, <1>3, EvidenceTyped, PTL DEF Spec, FrozenUnlessStale
=============================================================================

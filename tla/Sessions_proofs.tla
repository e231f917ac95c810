---------------------------- MODULE Sessions_proofs ----------------------------
(***************************************************************************)
(* Proofs about Sessions, for any number of sessions and requests.         *)
(*                                                                         *)
(* A refresh revokes its session in one statement and opens the successor  *)
(* in another.  That the successor's parent is revoked needs what holds in *)
(* between: the session a request has rotated stays revoked, and its row   *)
(* is not purged, until the request is done.                               *)
(***************************************************************************)
EXTENDS Sessions, TLAPS

IsRevoked(s) == s \in SessionIds /\ session[s].state = "revoked"

Holds(q) ==
    /\ q.op = "refresh" => q.session \in SessionIds
    /\ q.op = "login" => q.session = None
    /\ q.stage = "opened" => q.op = "refresh"
    /\ q.stage = "rotated" => q.op = "refresh" /\ IsRevoked(q.session)
    /\ q.stage = "replay" => q.op = "refresh" /\ q.revoked
    /\ q.op = "refresh" /\ q.revoked => IsRevoked(q.session) /\ q.stage \notin {"ready", "rotated"}

ParentOf(s) == session[s].parent # None => IsRevoked(session[s].parent)

IInv ==
    /\ TypeOK
    /\ \A s \in SessionIds : ParentOf(s)
    /\ \A r \in Requests : Holds(req[r])

-----------------------------------------------------------------------------
LEMMA IdleTyped == Idle \in Request
BY MaxChangesType DEF Idle, Request, Ops, Stages

LEMMA NoRowTyped == NoRow \in SessionRow
BY MaxChangesType DEF NoRow, SessionRow

\* An updateMany keeps the rows' type, and touches no column but the state.
LEMMA RevokeTyped ==
    ASSUME session \in [SessionIds -> SessionRow], NEW S
    PROVE  /\ Revoke(S) \in [SessionIds -> SessionRow]
           /\ \A s \in SessionIds :
                 /\ Revoke(S)[s].state = IF s \in S THEN "revoked" ELSE session[s].state
                 /\ Revoke(S)[s].parent = session[s].parent
                 /\ Revoke(S)[s].expired = session[s].expired
<1> SUFFICES ASSUME NEW s \in SessionIds
             PROVE  LET x == IF s \in S THEN [session[s] EXCEPT !.state = "revoked"]
                             ELSE session[s]
                    IN  /\ x \in SessionRow
                        /\ x.state = IF s \in S THEN "revoked" ELSE session[s].state
                        /\ x.parent = session[s].parent
                        /\ x.expired = session[s].expired
  BY DEF Revoke
<1>1. session[s] \in SessionRow
  OBVIOUS
<1>2. CASE s \in S
  BY <1>1, <1>2 DEF SessionRow
<1>3. CASE s \notin S
  BY <1>1, <1>3
<1> QED
  BY <1>2, <1>3

\* Both forms in which an action writes the requests keep their type, and leave
\* the requests other than r what they were, but for what they vouch for.
LEMMA ContinueTyped ==
    ASSUME TypeOK, NEW r \in Requests, NEW n \in Request,
           \/ Enter(r, n)
           \/ \E all \in BOOLEAN, rows \in SUBSET (SessionIds \cup {None}) : Continue(r, n, all, rows)
    PROVE  /\ req' \in [Requests -> Request]
           /\ req'[r] = n
           /\ \A q \in Requests : q # r =>
                 /\ req'[q].op = req[q].op
                 /\ req'[q].stage = req[q].stage
                 /\ req'[q].session = req[q].session
                 /\ req'[q].revoked = req[q].revoked
<1>1. CASE Enter(r, n)
  BY <1>1 DEF Enter, TypeOK
<1>2. ASSUME NEW all \in BOOLEAN, NEW rows \in SUBSET (SessionIds \cup {None}), Continue(r, n, all, rows)
      PROVE  /\ req' \in [Requests -> Request]
             /\ req'[r] = n
             /\ \A q \in Requests : q # r =>
                   /\ req'[q].op = req[q].op
                   /\ req'[q].stage = req[q].stage
                   /\ req'[q].session = req[q].session
                   /\ req'[q].revoked = req[q].revoked
  <2> DEFINE Other(q) == IF all \/ req[q].session \in rows THEN [req[q] EXCEPT !.password = None]
                         ELSE req[q]
  <2>1. ASSUME NEW q \in Requests
        PROVE  /\ Other(q) \in Request
               /\ Other(q).op = req[q].op
               /\ Other(q).stage = req[q].stage
               /\ Other(q).session = req[q].session
               /\ Other(q).revoked = req[q].revoked
    <3>1. req[q] \in Request
      BY DEF TypeOK
    <3> QED
      BY <3>1 DEF Request
  <2>2. req' = [q \in Requests |-> IF q = r THEN n ELSE Other(q)]
    BY <1>2 DEF Continue
  <2> HIDE DEF Other
  <2> QED
    BY <2>1, <2>2
<1> QED
  BY <1>1, <1>2

\* An action that writes request r, revokes no row back and opens no session
\* keeps the invariant if what it makes of r is consistent.
LEMMA Preserved ==
    ASSUME IInv, NEW r \in Requests, NEW n \in Request,
           \/ Enter(r, n)
           \/ \E all \in BOOLEAN, rows \in SUBSET (SessionIds \cup {None}) : Continue(r, n, all, rows),
           account' \in Account,
           session' \in [SessionIds -> SessionRow],
           \A s \in SessionIds : /\ session[s].state = "revoked" => session'[s].state = "revoked"
                                 /\ session'[s].parent = session[s].parent,
           Holds(n)'
    PROVE  IInv'
<1>1. TypeOK
  BY DEF IInv
<1>2. /\ req' \in [Requests -> Request]
      /\ req'[r] = n
      /\ \A q \in Requests : q # r => /\ req'[q].op = req[q].op
                                      /\ req'[q].stage = req[q].stage
                                      /\ req'[q].session = req[q].session
                                      /\ req'[q].revoked = req[q].revoked
  BY <1>1, ContinueTyped
<1>3. TypeOK'
  BY <1>2 DEF TypeOK
<1>4. \A s \in SessionIds : ParentOf(s)'
  BY DEF IInv, ParentOf, IsRevoked
<1>5. ASSUME NEW q \in Requests PROVE Holds(req[q])'
  <2>1. CASE q = r
    BY <1>2, <2>1
  <2>2. CASE q # r
    BY <1>2, <2>2 DEF IInv, Holds, IsRevoked
  <2> QED
    BY <2>1, <2>2
<1> QED
  BY <1>3, <1>4, <1>5 DEF IInv

\* The special case of a request that is done.
LEMMA Done ==
    ASSUME IInv, NEW r \in Requests,
           \/ Enter(r, Idle)
           \/ \E all \in BOOLEAN, rows \in SUBSET (SessionIds \cup {None}) : Continue(r, Idle, all, rows),
           account' \in Account,
           session' \in [SessionIds -> SessionRow],
           \A s \in SessionIds : /\ session[s].state = "revoked" => session'[s].state = "revoked"
                                 /\ session'[s].parent = session[s].parent
    PROVE  IInv'
<1>1. Holds(Idle)'
  BY DEF Holds, Idle
<1> QED
  BY <1>1, IdleTyped, Preserved

\* Changing the password keeps the types and revokes sessions at most.
LEMMA NewPasswordTyped ==
    ASSUME TypeOK, NEW s \in SessionIds \cup {None}, NewPassword(s)
    PROVE  /\ account' \in Account
           /\ session' \in [SessionIds -> SessionRow]
           /\ \A x \in SessionIds : /\ session[x].state = "revoked" => session'[x].state = "revoked"
                                    /\ session'[x].parent = session[x].parent
<1> DEFINE p == account.password + 1
<1>1. account \in Account /\ session \in [SessionIds -> SessionRow]
  BY DEF TypeOK
<1>2. p \in 0 .. MaxChanges
  BY <1>1, MaxChangesType DEF NewPassword, Account
<1>3. account' = [account EXCEPT !.mustChange = FALSE, !.password = p]
  BY DEF NewPassword
<1>4. account' \in Account
  BY <1>1, <1>2, <1>3 DEF Account
<1>5. session' = [x \in SessionIds |->
                    IF x = s
                    THEN [session[x] EXCEPT !.password = IF session[x].password = None THEN None ELSE p]
                    ELSE Revoke(Live)[x]]
  BY DEF NewPassword
<1> HIDE DEF p
<1>6. ASSUME NEW x \in SessionIds
      PROVE  /\ session'[x] \in SessionRow
             /\ session[x].state = "revoked" => session'[x].state = "revoked"
             /\ session'[x].parent = session[x].parent
  <2>1. CASE x = s
    <3>1. PICK v \in {None, p} : session'[x] = [session[x] EXCEPT !.password = v]
      BY <1>5, <2>1
    <3>2. session[x] \in SessionRow
      BY <1>1
    <3> QED
      BY <1>2, <3>1, <3>2 DEF SessionRow
  <2>2. CASE x # s
    <3>1. session'[x] = Revoke(Live)[x]
      BY <1>5, <2>2
    <3>2. /\ Revoke(Live) \in [SessionIds -> SessionRow]
          /\ Revoke(Live)[x].state = IF x \in Live THEN "revoked" ELSE session[x].state
          /\ Revoke(Live)[x].parent = session[x].parent
      BY <1>1, RevokeTyped
    <3> QED
      BY <3>1, <3>2
  <2> QED
    BY <2>1, <2>2
<1>7. session' \in [SessionIds -> SessionRow]
  BY <1>5, <1>6
<1> QED
  BY <1>4, <1>6, <1>7
-----------------------------------------------------------------------------
LEMMA InitInv == Init => IInv
<1> SUFFICES ASSUME Init PROVE IInv
  OBVIOUS
<1>1. account \in Account
  <2>1. 0 \in 0 .. MaxChanges
    BY MaxChangesType
  <2> QED
    BY <2>1 DEF Init, Account
<1>2. TypeOK
  BY <1>1, IdleTyped, NoRowTyped DEF Init, TypeOK
<1>3. \A s \in SessionIds : ParentOf(s)
  BY DEF Init, ParentOf, NoRow
<1>4. \A r \in Requests : Holds(req[r])
  BY DEF Init, Holds, Idle
<1> QED
  BY <1>2, <1>3, <1>4 DEF IInv

\* The actions that only read.
LEMMA Reading ==
    ASSUME IInv, NEW r \in Requests,
           \/ ReadAccount(r)
           \/ \E op \in Ops : Receive(r, op)
           \/ \E s \in SessionIds : ReadSession(r, s)
           \/ \E s \in SessionIds, op \in Ops : Authenticate(r, op, s)
           \/ LoadAccount(r)
    PROVE  IInv'
<1>1. TypeOK /\ Holds(req[r]) /\ req[r] \in Request /\ account \in Account
  BY DEF IInv, TypeOK
<1>2. ASSUME NEW n \in Request, Enter(r, n), UNCHANGED <<account, session>>,
             n.op = "refresh" => n.session \in SessionIds,
             n.op = "login" => n.session = None,
             n.stage # "rotated",
             n.stage = "opened" => n.op = "refresh",
             n.stage = "replay" => n.op = "refresh" /\ n.revoked,
             n.op = "refresh" /\ n.revoked => IsRevoked(n.session) /\ n.stage # "ready"
      PROVE  IInv'
  <2>1. Holds(n)'
    BY <1>2 DEF Holds, IsRevoked
  <2> QED
    BY <1>1, <1>2, <2>1, Preserved DEF TypeOK
<1>3. CASE ReadAccount(r)
  <2> DEFINE n == [Idle EXCEPT !.op = IF account.mustChange THEN "change" ELSE "login",
                               !.stage = "ready", !.password = account.password]
  <2>1. n \in Request /\ n.op # "refresh" /\ n.session = None /\ n.stage = "ready"
    BY <1>1, IdleTyped DEF Account, Request, Idle, Ops, Stages
  <2>2. Enter(r, n) /\ UNCHANGED <<account, session>>
    BY <1>3 DEF ReadAccount
  <2> HIDE DEF n
  <2> QED
    BY <1>2, <2>1, <2>2
<1>4. ASSUME NEW op \in Ops, Receive(r, op)
      PROVE  IInv'
  <2> DEFINE n == [Idle EXCEPT !.op = op, !.stage = "ready"]
  <2>1. n \in Request /\ n.op \notin {"refresh", "login"} /\ n.stage = "ready"
    BY <1>4, IdleTyped DEF Receive, Request, Idle, Ops, Stages
  <2>2. Enter(r, n) /\ UNCHANGED <<account, session>>
    BY <1>4 DEF Receive
  <2> HIDE DEF n
  <2> QED
    BY <1>2, <2>1, <2>2
<1>5. ASSUME NEW s \in SessionIds, ReadSession(r, s)
      PROVE  IInv'
  <2> DEFINE n == [Idle EXCEPT !.op = "refresh", !.stage = "opened", !.session = s,
                               !.revoked = session[s].state = "revoked",
                               !.password = session[s].password]
  <2>1. session[s].password \in (0 .. MaxChanges) \cup {None}
    BY <1>1 DEF TypeOK, SessionRow
  <2>2. /\ n \in Request /\ n.op = "refresh" /\ n.session \in SessionIds /\ n.stage = "opened"
        /\ n.revoked => IsRevoked(n.session)
    BY <2>1, IdleTyped DEF Request, Idle, Ops, Stages, IsRevoked
  <2>3. Enter(r, n) /\ UNCHANGED <<account, session>>
    BY <1>5 DEF ReadSession
  <2> HIDE DEF n
  <2> QED
    BY <1>2, <2>2, <2>3
<1>6. ASSUME NEW s \in SessionIds, NEW op \in Ops, Authenticate(r, op, s)
      PROVE  IInv'
  <2> DEFINE n == [Idle EXCEPT !.op = op, !.stage = "ready", !.session = s]
  <2>1. n \in Request /\ n.op \notin {"refresh", "login"} /\ n.stage = "ready"
    BY <1>6, IdleTyped DEF Authenticate, Request, Idle, Ops, Stages
  <2>2. Enter(r, n) /\ UNCHANGED <<account, session>>
    BY <1>6 DEF Authenticate
  <2> HIDE DEF n
  <2> QED
    BY <1>2, <2>1, <2>2
<1>7. CASE LoadAccount(r)
  <2> DEFINE Moved(stage) == [req[r] EXCEPT !.stage = stage]
  <2>1. /\ UNCHANGED <<account, session>>
        /\ \/ Enter(r, Idle)
           \/ Enter(r, Moved("replay")) /\ req[r].revoked
           \/ Enter(r, Moved("ready")) /\ ~req[r].revoked
    BY <1>7 DEF LoadAccount
  <2>2. req[r].stage = "opened"
    BY <1>7 DEF LoadAccount
  <2>3. \A stage \in {"replay", "ready"} :
           /\ Moved(stage) \in Request
           /\ Moved(stage).op = req[r].op
           /\ Moved(stage).session = req[r].session
           /\ Moved(stage).revoked = req[r].revoked
           /\ Moved(stage).stage = stage
    BY <1>1 DEF Request, Stages
  <2>4. req[r].op = "refresh"
    BY <1>1, <2>2 DEF Holds
  <2> HIDE DEF Moved
  <2>5. CASE Enter(r, Idle)
    BY <1>2, <2>1, <2>5, IdleTyped DEF Idle
  <2>6. CASE Enter(r, Moved("replay")) /\ req[r].revoked
    BY <1>1, <1>2, <2>1, <2>3, <2>4, <2>6 DEF Holds
  <2>7. CASE Enter(r, Moved("ready")) /\ ~req[r].revoked
    BY <1>1, <1>2, <2>1, <2>3, <2>4, <2>7 DEF Holds
  <2> QED
    BY <2>1, <2>5, <2>6, <2>7
<1> QED
  BY <1>3, <1>4, <1>5, <1>6, <1>7

\* The actions that revoke sessions or change the account.
LEMMA Writing ==
    ASSUME IInv, NEW r \in Requests,
           \/ Rotate(r) \/ RevokeAll(r) \/ Logout(r) \/ ChangePassword(r)
           \/ ResetPassword(r) \/ Suspend(r) \/ Abort(r)
    PROVE  IInv'
<1>1. /\ TypeOK /\ Holds(req[r]) /\ req[r] \in Request /\ account \in Account
      /\ session \in [SessionIds -> SessionRow] /\ Live \subseteq SessionIds
  BY DEF IInv, TypeOK, Live
<1>2. \A S : /\ Revoke(S) \in [SessionIds -> SessionRow]
             /\ \A s \in SessionIds :
                   /\ session[s].state = "revoked" => Revoke(S)[s].state = "revoked"
                   /\ s \in S => Revoke(S)[s].state = "revoked"
                   /\ Revoke(S)[s].parent = session[s].parent
  BY <1>1, RevokeTyped
<1>3. CASE Rotate(r)
  <2>a. [req[r] EXCEPT !.stage = "rotated"] \in Request
    BY <1>1 DEF Request, Stages
  <2>b. PICK n \in Request : n = [req[r] EXCEPT !.stage = "rotated"]
    BY <2>a
  <2>1. n.op = "refresh" /\ n.session = req[r].session /\ n.stage = "rotated" /\ ~n.revoked
    BY <1>1, <1>3, <2>b DEF Rotate, Ready, Request, Holds
  <2>2. session' = Revoke({req[r].session}) /\ account' = account
    BY <1>3 DEF Rotate
  <2>3. req[r].session \in SessionIds
    BY <1>1, <1>3 DEF Rotate, Ready, Holds
  <2>4. Continue(r, n, FALSE, {req[r].session})
    BY <1>3, <2>b DEF Rotate
  <2>5. Holds(n)'
    <3>1. session'[req[r].session].state = "revoked"
      BY <1>2, <2>2, <2>3
    <3> QED
      BY <2>1, <2>3, <3>1 DEF Holds, IsRevoked
  <2>6. \E all \in BOOLEAN, rows \in SUBSET (SessionIds \cup {None}) : Continue(r, n, all, rows)
    BY <2>3, <2>4
  <2> QED
    BY <1>1, <1>2, <2>1, <2>2, <2>5, <2>6, Preserved
<1>4. CASE RevokeAll(r)
  <2> DEFINE s == req[r].session
  <2>1. session' = [Revoke(Live) EXCEPT ![s].replayed = TRUE] /\ account' = account
    BY <1>4 DEF RevokeAll
  <2>2. Continue(r, Idle, FALSE, Live \cup {s})
    BY <1>4 DEF RevokeAll
  <2>3. \E all \in BOOLEAN, rows \in SUBSET (SessionIds \cup {None}) : Continue(r, Idle, all, rows)
    <3>1. s \in SessionIds \cup {None}
      BY <1>1 DEF Request
    <3> QED
      BY <1>1, <2>2, <3>1
  <2>4. session' \in [SessionIds -> SessionRow]
    <3>1. \A row \in SessionRow : [row EXCEPT !.replayed = TRUE] \in SessionRow
      BY DEF SessionRow
    <3> QED
      BY <1>2, <2>1, <3>1
  <2>5. ASSUME NEW x \in SessionIds
        PROVE  /\ session[x].state = "revoked" => session'[x].state = "revoked"
               /\ session'[x].parent = session[x].parent
    <3>1. session'[x] = IF x = s THEN [Revoke(Live)[x] EXCEPT !.replayed = TRUE]
                        ELSE Revoke(Live)[x]
      BY <1>2, <2>1
    <3>2. Revoke(Live)[x] \in SessionRow
      BY <1>2
    <3>3. session'[x].state = Revoke(Live)[x].state /\ session'[x].parent = Revoke(Live)[x].parent
      BY <3>1, <3>2 DEF SessionRow
    <3> QED
      BY <1>2, <3>3
  <2> QED
    BY <1>1, <2>1, <2>3, <2>4, <2>5, Done
<1>5. CASE Logout(r)
  <2>1. session' = Revoke({req[r].session}) /\ account' = account
    BY <1>5 DEF Logout
  <2>2. {req[r].session} \in SUBSET (SessionIds \cup {None})
    BY <1>1 DEF Request
  <2>3. \E all \in BOOLEAN, rows \in SUBSET (SessionIds \cup {None}) : Continue(r, Idle, all, rows)
    BY <1>5, <2>2 DEF Logout
  <2> QED
    BY <1>1, <1>2, <2>1, <2>3, Done
<1>6. CASE ChangePassword(r)
  <2>1. req[r].session \in SessionIds \cup {None} /\ NewPassword(req[r].session)
    BY <1>1, <1>6 DEF ChangePassword, Request
  <2>2. \E all \in BOOLEAN, rows \in SUBSET (SessionIds \cup {None}) : Continue(r, Idle, all, rows)
    BY <1>6 DEF ChangePassword
  <2> QED
    BY <1>1, <2>1, <2>2, NewPasswordTyped, Done
<1>7. CASE ResetPassword(r)
  <2>1. NewPassword(None)
    BY <1>7 DEF ResetPassword
  <2>2. \E all \in BOOLEAN, rows \in SUBSET (SessionIds \cup {None}) : Continue(r, Idle, all, rows)
    BY <1>7 DEF ResetPassword
  <2> QED
    BY <1>1, <2>1, <2>2, NewPasswordTyped, Done
<1>8. CASE Suspend(r)
  <2>1. session' = Revoke(Live) /\ account' = [account EXCEPT !.active = FALSE]
    BY <1>8 DEF Suspend
  <2>2. account' \in Account
    BY <1>1, <2>1 DEF Account
  <2>3. \E all \in BOOLEAN, rows \in SUBSET (SessionIds \cup {None}) : Continue(r, Idle, all, rows)
    BY <1>8 DEF Suspend
  <2> QED
    BY <1>1, <1>2, <2>1, <2>2, <2>3, Done
<1>9. CASE Abort(r)
  BY <1>1, <1>9, Done DEF Abort
<1> QED
  BY <1>3, <1>4, <1>5, <1>6, <1>7, <1>8, <1>9

\* createSession: the row is new, so nobody's parent is among those that change,
\* and its parent is the session the request has rotated.
LEMMA Opening ==
    ASSUME IInv, NEW r \in Requests, OpenSession(r)
    PROVE  IInv'
<1> DEFINE q == req[r]
<1>1. /\ TypeOK /\ Holds(q) /\ q \in Request
      /\ session \in [SessionIds -> SessionRow] /\ \A s \in SessionIds : ParentOf(s)
  BY DEF IInv, TypeOK
<1>2. PICK s \in SessionIds :
        /\ session[s].state = "none"
        /\ session' = [session EXCEPT ![s] = Opened(q)]
  BY DEF OpenSession
<1> DEFINE row == Opened(q)
<1>3. row \in SessionRow /\ row.parent = q.session
  BY <1>1, NoRowTyped DEF NoRow, SessionRow, Request, Opened
<1>4. session' = [session EXCEPT ![s] = row]
  BY <1>2
<1>5. q.stage = "rotated" \/ q.op = "login"
  BY DEF OpenSession, Ready
<1> HIDE DEF row
<1>6. session' \in [SessionIds -> SessionRow]
  BY <1>1, <1>3, <1>4
<1>7. \A x \in SessionIds : IsRevoked(x) => session'[x].state = "revoked"
  BY <1>1, <1>2, <1>4 DEF IsRevoked
<1>8. Enter(r, Idle) /\ account' = account
  BY DEF OpenSession
<1>9. TypeOK'
  BY <1>1, <1>6, <1>8, IdleTyped DEF TypeOK, Enter
<1>10. ASSUME NEW p \in Requests PROVE Holds(req[p])'
  <2>1. CASE p = r
    BY <1>1, <1>8, <2>1 DEF Enter, TypeOK, Holds, Idle
  <2>2. CASE p # r
    <3>1. req'[p] = req[p] /\ Holds(req[p])
      BY <1>1, <1>8, <2>2 DEF Enter, TypeOK, IInv
    <3> QED
      BY <1>7, <3>1 DEF Holds, IsRevoked
  <2> QED
    BY <2>1, <2>2
<1>11. q.session # None => IsRevoked(q.session)
  BY <1>1, <1>5 DEF OpenSession, Holds
<1>12. ASSUME NEW x \in SessionIds PROVE ParentOf(x)'
  <2>1. CASE x = s
    BY <1>1, <1>3, <1>4, <1>7, <1>11, <2>1 DEF ParentOf, IsRevoked
  <2>2. CASE x # s
    BY <1>1, <1>4, <1>7, <2>2 DEF ParentOf, IsRevoked
  <2> QED
    BY <2>1, <2>2
<1> QED
  BY <1>9, <1>10, <1>12 DEF IInv

\* Time: expiry changes no column the invariant looks at, and the clean-up takes
\* rows no request holds, with the references to them.
LEMMA Passing ==
    ASSUME IInv, NEW s \in SessionIds, Expire(s) \/ Purge(s)
    PROVE  IInv'
<1>1. TypeOK /\ session \in [SessionIds -> SessionRow] /\ session[s] \in SessionRow
  BY DEF IInv, TypeOK
<1>2. UNCHANGED <<account, req>>
  BY DEF Expire, Purge
<1>3. CASE Expire(s)
  <2>1. session' = [session EXCEPT ![s] = [session[s] EXCEPT !.expired = TRUE]]
    BY <1>1, <1>3 DEF Expire
  <2>2. [session[s] EXCEPT !.expired = TRUE] \in SessionRow
    BY <1>1 DEF SessionRow
  <2>3. session' \in [SessionIds -> SessionRow]
    BY <1>1, <2>1, <2>2
  <2>4. \A x \in SessionIds : /\ session'[x].state = session[x].state
                              /\ session'[x].parent = session[x].parent
    BY <1>1, <2>1, <2>2 DEF SessionRow
  <2> QED
    BY <1>1, <1>2, <2>3, <2>4 DEF IInv, TypeOK, ParentOf, IsRevoked, Holds
<1>4. CASE Purge(s)
  <2> DEFINE Kept(x) == [session[x] EXCEPT !.parent = IF @ = s THEN None ELSE @]
  <2>1. session' = [x \in SessionIds |-> IF x = s THEN NoRow ELSE Kept(x)]
    BY <1>4 DEF Purge
  <2>2. \A x \in SessionIds :
           /\ Kept(x) \in SessionRow
           /\ Kept(x).state = session[x].state
           /\ Kept(x).parent = IF session[x].parent = s THEN None ELSE session[x].parent
    BY <1>1 DEF SessionRow
  <2> HIDE DEF Kept
  <2>3. session' \in [SessionIds -> SessionRow]
    BY <2>1, <2>2, NoRowTyped
  <2>4. \A x \in SessionIds : x # s => session'[x].state = session[x].state
    BY <2>1, <2>2
  <2>5. ASSUME NEW x \in SessionIds PROVE ParentOf(x)'
    <3>1. CASE x = s
      BY <2>1, <3>1 DEF ParentOf, NoRow
    <3>2. CASE x # s
      BY <2>1, <2>2, <2>4, <3>2 DEF IInv, ParentOf, IsRevoked
    <3> QED
      BY <3>1, <3>2
  <2>6. \A r \in Requests : Holds(req[r])'
    BY <1>2, <1>4, <2>4 DEF Purge, IInv, Holds, IsRevoked
  <2> QED
    BY <1>1, <1>2, <2>3, <2>5, <2>6 DEF IInv, TypeOK
<1> QED
  BY <1>3, <1>4

LEMMA StepInv == IInv /\ [Next]_vars => IInv'
<1> SUFFICES ASSUME IInv, [Next]_vars PROVE IInv'
  OBVIOUS
<1>1. CASE UNCHANGED vars
  BY <1>1 DEF vars, IInv, TypeOK, ParentOf, IsRevoked, Holds
<1>2. ASSUME NEW r \in Requests,
             ReadAccount(r) \/ Proceed(r) \/ \E op \in Ops : Receive(r, op)
      PROVE  IInv'
  BY <1>2, Reading, Writing, Opening DEF Proceed
<1>3. ASSUME NEW r \in Requests, NEW s \in SessionIds,
             ReadSession(r, s) \/ \E op \in Ops : Authenticate(r, op, s)
      PROVE  IInv'
  BY <1>3, Reading
<1>4. ASSUME NEW s \in SessionIds, Expire(s) \/ Purge(s)
      PROVE  IInv'
  BY <1>4, Passing
<1> QED
  BY <1>1, <1>2, <1>3, <1>4 DEF Next

LEMMA Invariant == Spec => []IInv
BY InitInv, StepInv, PTL DEF Spec

\* The model's variables keep their types.
THEOREM SessionsTyped == Spec => []TypeOK
<1>1. IInv => TypeOK
  BY DEF IInv
<1> QED
  BY Invariant, <1>1, PTL

\* However many refreshes, logouts, suspensions and password changes overlap, and
\* whichever of them die, a session is never good at the same time as the one it
\* replaces.
THEOREM OneAtATime == Spec => []ParentRevoked
<1>1. IInv => ParentRevoked
  BY DEF IInv, ParentOf, IsRevoked, ParentRevoked
<1> QED
  BY Invariant, <1>1, PTL
-----------------------------------------------------------------------------
(* Who may open a session.  A password in a session or a request says that  *)
(* what was read is still so: an account that is active and has that        *)
(* password, and for a refresh that its session is live, or was until this  *)
(* very request rotated it.                                                 *)

Sound(s) ==
    session[s].state = "live" =>
        /\ ~session[s].replayed
        /\ ~Slipped(s) =>
              /\ account.active
              /\ session[s].password = account.password
              /\ session[s].parent # None =>
                    /\ ~session[session[s].parent].replayed
                    /\ \A x \in Successors(session[s].parent) : x = s \/ Slipped(x)

ReadLive(q) ==
    q.op = "refresh" /\ q.stage \in {"opened", "ready"} /\ ~q.revoked =>
        /\ session[q.session].state = "live"
        /\ session[q.session].password = q.password

HasRotated(q) ==
    q.stage = "rotated" =>
        /\ account.active /\ q.password = account.password
        /\ ~session[q.session].replayed
        /\ \A x \in Successors(q.session) : Slipped(x)

Vouched(q) ==
    q.password # None =>
        /\ q.op = "login" => account.active /\ q.password = account.password
        /\ ReadLive(q)
        /\ HasRotated(q)

\* Of two requests that rotated one session, one has read it before the other
\* wrote it.
OneRotation ==
    \A p, q \in Requests :
        /\ req[p].stage = "rotated" /\ req[p].password # None
        /\ req[q].stage = "rotated" /\ req[q].password # None
        /\ req[p].session = req[q].session
        => p = q

JInv ==
    /\ \A s \in SessionIds : Sound(s)
    /\ \A r \in Requests : Vouched(req[r])
    /\ OneRotation

LEMMA JustifiedInit == Init => JInv
<1> SUFFICES ASSUME Init PROVE JInv
  OBVIOUS
<1>1. \A s \in SessionIds : Sound(s)
  BY DEF Init, Sound, NoRow
<1>2. \A r \in Requests : Vouched(req[r]) /\ req[r].stage = "idle"
  BY DEF Init, Vouched, Idle
<1> QED
  BY <1>1, <1>2 DEF JInv, OneRotation

LEMMA IdleVouched == Vouched(Idle)
BY DEF Vouched, Idle

\* What the others have after Continue.
LEMMA Others ==
    ASSUME TypeOK, NEW r \in Requests, NEW n, NEW all \in BOOLEAN, NEW rows, Continue(r, n, all, rows)
    PROVE  /\ req'[r] = n
           /\ \A q \in Requests \ {r} :
                 /\ all \/ req[q].session \in rows => req'[q].password = None
                 /\ ~all /\ req[q].session \notin rows => req'[q] = req[q]
BY DEF Continue, TypeOK, Request

\* A request that has only read keeps the invariant if what it makes of itself is
\* vouched for.
LEMMA JustifiedRead ==
    ASSUME TypeOK, JInv, NEW r \in Requests, NEW n, Enter(r, n), UNCHANGED <<account, session>>,
           Vouched(n), n.stage # "rotated"
    PROVE  JInv'
<1>1. req'[r] = n /\ \A q \in Requests \ {r} : req'[q] = req[q]
  BY DEF Enter, TypeOK
<1>2. ASSUME NEW s \in SessionIds PROVE Sound(s)'
  BY DEF JInv, Sound, Slipped, Successors
<1>3. ASSUME NEW q \in Requests PROVE Vouched(req[q])'
  <2>1. Vouched(req'[q])
    BY <1>1 DEF JInv
  <2> QED
    BY <2>1 DEF Vouched, ReadLive, HasRotated, Slipped, Successors
<1>4. OneRotation'
  BY <1>1 DEF JInv, OneRotation
<1> QED
  BY <1>2, <1>3, <1>4 DEF JInv

LEMMA JustifiedReading ==
    ASSUME IInv, JInv, NEW r \in Requests,
           \/ ReadAccount(r)
           \/ \E op \in Ops : Receive(r, op)
           \/ \E s \in SessionIds : ReadSession(r, s)
           \/ \E s \in SessionIds, op \in Ops : Authenticate(r, op, s)
           \/ LoadAccount(r)
           \/ Abort(r)
    PROVE  JInv'
<1>1. TypeOK /\ Holds(req[r]) /\ Vouched(req[r]) /\ req[r] \in Request
  BY DEF IInv, JInv, TypeOK
<1>2. CASE ReadAccount(r)
  <2> DEFINE n == [Idle EXCEPT !.op = IF account.mustChange THEN "change" ELSE "login",
                               !.stage = "ready", !.password = account.password]
  <2>1. n.op \in {"change", "login"} /\ n.stage = "ready" /\ n.password = account.password
    BY DEF Idle
  <2>2. Enter(r, n) /\ UNCHANGED <<account, session>> /\ account.active
    BY <1>2 DEF ReadAccount
  <2> HIDE DEF n
  <2>3. Vouched(n)
    BY <2>1, <2>2 DEF Vouched, ReadLive, HasRotated
  <2> QED
    BY <1>1, <2>1, <2>2, <2>3, JustifiedRead
<1>3. ASSUME NEW op \in Ops, Receive(r, op)
      PROVE  JInv'
  <2> DEFINE n == [Idle EXCEPT !.op = op, !.stage = "ready"]
  <2>1. n.stage = "ready" /\ n.password = None
    BY DEF Idle
  <2>2. Enter(r, n) /\ UNCHANGED <<account, session>>
    BY <1>3 DEF Receive
  <2> HIDE DEF n
  <2> QED
    BY <1>1, <2>1, <2>2, JustifiedRead DEF Vouched
<1>4. ASSUME NEW s \in SessionIds, ReadSession(r, s)
      PROVE  JInv'
  <2> DEFINE n == [Idle EXCEPT !.op = "refresh", !.stage = "opened", !.session = s,
                               !.revoked = session[s].state = "revoked",
                               !.password = session[s].password]
  <2>1. /\ n.op = "refresh" /\ n.stage = "opened" /\ n.session = s
        /\ n.password = session[s].password
        /\ ~n.revoked => session[s].state # "revoked"
    BY DEF Idle
  <2>2. Enter(r, n) /\ UNCHANGED <<account, session>> /\ session[s].state # "none"
    BY <1>4 DEF ReadSession
  <2>3. session[s].state \in {"none", "live", "revoked"}
    BY <1>1 DEF TypeOK, SessionRow
  <2> HIDE DEF n
  <2>4. Vouched(n)
    BY <2>1, <2>2, <2>3 DEF Vouched, ReadLive, HasRotated
  <2> QED
    BY <1>1, <2>1, <2>2, <2>4, JustifiedRead
<1>5. ASSUME NEW s \in SessionIds, NEW op \in Ops, Authenticate(r, op, s)
      PROVE  JInv'
  <2> DEFINE n == [Idle EXCEPT !.op = op, !.stage = "ready", !.session = s]
  <2>1. n.stage = "ready" /\ n.password = None
    BY DEF Idle
  <2>2. Enter(r, n) /\ UNCHANGED <<account, session>>
    BY <1>5 DEF Authenticate
  <2> HIDE DEF n
  <2> QED
    BY <1>1, <2>1, <2>2, JustifiedRead DEF Vouched
<1>6. CASE LoadAccount(r)
  <2> DEFINE Moved(stage) == [req[r] EXCEPT !.stage = stage]
  <2>1. /\ UNCHANGED <<account, session>>
        /\ \/ Enter(r, Idle)
           \/ \E stage \in {"replay", "ready"} : Enter(r, Moved(stage))
    BY <1>6 DEF LoadAccount
  <2>2. req[r].stage = "opened" /\ req[r].op = "refresh"
    BY <1>1, <1>6 DEF LoadAccount, Holds
  <2>3. ASSUME NEW stage \in {"replay", "ready"}
        PROVE  /\ Moved(stage).op = req[r].op
               /\ Moved(stage).session = req[r].session
               /\ Moved(stage).revoked = req[r].revoked
               /\ Moved(stage).password = req[r].password
               /\ Moved(stage).stage = stage
    BY <1>1 DEF Request
  <2> HIDE DEF Moved
  <2>4. ASSUME NEW stage \in {"replay", "ready"} PROVE Vouched(Moved(stage))
    BY <1>1, <2>2, <2>3 DEF Vouched, ReadLive, HasRotated
  <2> QED
    BY <1>1, <2>1, <2>3, <2>4, IdleVouched, JustifiedRead DEF Idle
<1>7. CASE Abort(r)
  BY <1>1, <1>7, IdleVouched, JustifiedRead DEF Abort, Idle
<1> QED
  BY <1>2, <1>3, <1>4, <1>5, <1>6, <1>7

\* A password change or a suspension leaves no request vouched for.
LEMMA JustifiedAll ==
    ASSUME TypeOK, NEW r \in Requests, Continue(r, Idle, TRUE, {}),
           \A s \in SessionIds : Sound(s)'
    PROVE  JInv'
<1>1. ASSUME NEW q \in Requests PROVE req'[q].password = None
  <2>1. req[q] \in Request
    BY DEF TypeOK
  <2>2. req'[q] = IF q = r THEN Idle ELSE [req[q] EXCEPT !.password = None]
    BY DEF Continue
  <2> QED
    BY <2>1, <2>2 DEF Request, Idle
<1>2. \A q \in Requests : Vouched(req[q])'
  BY <1>1 DEF Vouched
<1> QED
  BY <1>1, <1>2 DEF JInv, OneRotation

\* The one session a change of password may leave has the new password then.
LEMMA JustifiedChange ==
    ASSUME IInv, JInv, NEW r \in Requests, ChangePassword(r) \/ ResetPassword(r)
    PROVE  JInv'
<1>1. TypeOK /\ session \in [SessionIds -> SessionRow] /\ account \in Account
  BY DEF IInv, TypeOK
<1>2. PICK k : NewPassword(k)
  BY DEF ChangePassword, ResetPassword
<1>3. /\ account'.active = account.active
      /\ account'.password = account.password + 1
  BY <1>1, <1>2 DEF NewPassword, Account
<1>4. \A x \in SessionIds :
         session'[x] = IF x = k
                       THEN [session[x] EXCEPT !.password =
                               IF session[x].password = None THEN None ELSE account.password + 1]
                       ELSE Revoke(Live)[x]
  BY <1>2 DEF NewPassword
<1>5. account.password + 1 # None
  BY <1>1, MaxChangesType, NoneIsNull DEF Account
<1>6. ASSUME NEW x \in SessionIds
      PROVE  /\ session'[x].parent = session[x].parent
             /\ session'[x].replayed = session[x].replayed
             /\ Slipped(x)' <=> Slipped(x)
             /\ session'[x].state = "live" =>
                  /\ session[x].state = "live"
                  /\ ~Slipped(x) => session'[x].password = account'.password
  <2>1. session[x] \in SessionRow
    BY <1>1
  <2>2. CASE x = k
    BY <1>3, <1>4, <1>5, <2>1, <2>2 DEF SessionRow, Slipped
  <2>3. CASE x # k
    <3>1. session'[x] = IF x \in Live THEN [session[x] EXCEPT !.state = "revoked"] ELSE session[x]
      BY <1>4, <2>3 DEF Revoke
    <3>2. x \in Live <=> session[x].state = "live"
      BY DEF Live
    <3> QED
      BY <2>1, <3>1, <3>2 DEF SessionRow, Slipped
  <2> QED
    BY <2>2, <2>3
<1>7. ASSUME NEW s \in SessionIds PROVE Sound(s)'
  <2>1. Sound(s) /\ (session[s].parent # None => session[s].parent \in SessionIds)
    BY <1>1 DEF JInv, SessionRow
  <2>2. \A p : Successors(p)' = Successors(p)
    BY <1>6 DEF Successors
  <2> QED
    BY <1>3, <1>6, <2>1, <2>2 DEF Sound, Successors
<1>8. Continue(r, Idle, TRUE, {})
  BY DEF ChangePassword, ResetPassword
<1> QED
  BY <1>1, <1>7, <1>8, JustifiedAll

LEMMA JustifiedSuspend ==
    ASSUME IInv, JInv, NEW r \in Requests, Suspend(r)
    PROVE  JInv'
<1>1. TypeOK /\ session \in [SessionIds -> SessionRow]
  BY DEF IInv, TypeOK
<1>2. session' = Revoke(Live) /\ Continue(r, Idle, TRUE, {})
  BY DEF Suspend
<1>3. ASSUME NEW s \in SessionIds PROVE session'[s].state # "live"
  BY <1>1, <1>2, RevokeTyped DEF Live
<1> QED
  BY <1>1, <1>2, <1>3, JustifiedAll DEF Sound

\* What revoking the sessions in S leaves, marking none or one of them as replayed.
LEMMA RevokeColumns ==
    ASSUME session \in [SessionIds -> SessionRow], NEW S, NEW s \in SessionIds
    PROVE  /\ Revoke(S)[s].parent = session[s].parent
           /\ Revoke(S)[s].password = session[s].password
           /\ Revoke(S)[s].replayed = session[s].replayed
           /\ Revoke(S)[s].state = IF s \in S THEN "revoked" ELSE session[s].state
<1>1. session[s] \in SessionRow
  OBVIOUS
<1>2. Revoke(S)[s] = IF s \in S THEN [session[s] EXCEPT !.state = "revoked"] ELSE session[s]
  BY DEF Revoke
<1> QED
  BY <1>1, <1>2 DEF SessionRow

\* Revoking the sessions in S, where everyone who has read one of them, or a session
\* that is marked as replayed, is among those with out-of-date reads.
Revokes(S, rows) ==
    /\ S \subseteq rows
    /\ account' = account
    /\ \A x \in SessionIds :
          /\ session'[x].parent = session[x].parent
          /\ session'[x].password = session[x].password
          /\ session'[x].state = IF x \in S THEN "revoked" ELSE session[x].state
          /\ x \notin rows => session'[x].replayed = session[x].replayed
    /\ Live \subseteq S \/ \A x \in SessionIds : session'[x].replayed = session[x].replayed

LEMMA JustifiedRevoke ==
    ASSUME IInv, JInv, NEW r \in Requests, NEW n, NEW S, NEW rows,
           Continue(r, n, FALSE, rows), Revokes(S, rows),
           Vouched(n)',
           n.stage = "rotated" => n.session \in rows
    PROVE  JInv'
<1>1. /\ TypeOK /\ session \in [SessionIds -> SessionRow]
      /\ req'[r] = n
      /\ \A q \in Requests \ {r} : \/ req'[q].password = None
                                   \/ req[q].session \notin rows /\ req'[q] = req[q]
  <2>1. TypeOK /\ session \in [SessionIds -> SessionRow] /\ req \in [Requests -> Request]
    BY DEF IInv, TypeOK
  <2>2. \A q \in Requests :
           req'[q] = IF q = r THEN n
                     ELSE IF req[q].session \in rows THEN [req[q] EXCEPT !.password = None]
                     ELSE req[q]
    BY DEF Continue
  <2>3. \A q \in Requests : [req[q] EXCEPT !.password = None].password = None
    BY <2>1 DEF Request
  <2> QED
    BY <2>1, <2>2, <2>3
<1>2. /\ \A p : Successors(p)' = Successors(p)
      /\ \A x \in SessionIds : Slipped(x)' <=> Slipped(x)
  BY DEF Successors, Slipped, Revokes
<1>3. ASSUME NEW s \in SessionIds, session'[s].state = "live" PROVE Sound(s)'
  <2>1. s \notin S /\ session[s].state = "live" /\ Sound(s)
    BY <1>3 DEF JInv, Revokes
  <2>2. \A x \in SessionIds : session'[x].replayed = session[x].replayed
    BY <2>1 DEF Live, Revokes
  <2>3. session[s].parent # None => session[s].parent \in SessionIds
    BY <1>1 DEF SessionRow
  <2>4. \A p : Successors(p) \subseteq SessionIds
    BY DEF Successors
  <2> QED
    BY <1>2, <2>1, <2>2, <2>3, <2>4 DEF Sound, Revokes
<1>4. ASSUME NEW q \in Requests PROVE Vouched(req[q])'
  <2>1. CASE q = r
    BY <1>1, <2>1
  <2>2. CASE req'[q].password = None
    BY <2>2 DEF Vouched
  <2>3. CASE q # r /\ req[q].session \notin rows /\ req'[q] = req[q]
    <3>1. Vouched(req[q]) /\ Holds(req[q])
      BY DEF IInv, JInv
    <3>2. ReadLive(req[q]) => ReadLive(req[q])'
      BY <2>3, <3>1 DEF ReadLive, Holds, Revokes
    <3>3. HasRotated(req[q]) => HasRotated(req[q])'
      BY <1>2, <2>3, <3>1 DEF HasRotated, Holds, IsRevoked, Successors, Revokes
    <3> QED
      BY <2>3, <3>1, <3>2, <3>3 DEF Vouched, Revokes
  <2> QED
    BY <1>1, <2>1, <2>2, <2>3
<1>5. OneRotation'
  BY <1>1 DEF JInv, OneRotation
<1> QED
  BY <1>3, <1>4, <1>5 DEF JInv, Sound

LEMMA JustifiedRevoking ==
    ASSUME IInv, JInv, NEW r \in Requests, Rotate(r) \/ RevokeAll(r) \/ Logout(r)
    PROVE  JInv'
<1>1. /\ TypeOK /\ session \in [SessionIds -> SessionRow]
      /\ req[r] \in Request /\ Holds(req[r]) /\ Vouched(req[r])
  BY DEF IInv, JInv, TypeOK
<1>2. CASE Rotate(r)
  <2>s. PICK s : s = req[r].session
    OBVIOUS
  <2>1. /\ Ready(r, "refresh")
        /\ session' = Revoke({s}) /\ account' = account
        /\ Continue(r, [req[r] EXCEPT !.stage = "rotated"], FALSE, {s})
    BY <1>2, <2>s DEF Rotate
  <2>2. PICK n : n = [req[r] EXCEPT !.stage = "rotated"]
    OBVIOUS
  <2>3. /\ n.op = "refresh" /\ n.stage = "rotated" /\ n.session = s
        /\ n.password = req[r].password /\ s \in SessionIds
    BY <1>1, <2>s, <2>1, <2>2 DEF Request, Ready, Holds
  <2>4. \A x \in SessionIds :
           /\ session'[x].parent = session[x].parent
           /\ session'[x].password = session[x].password
           /\ session'[x].replayed = session[x].replayed
           /\ session'[x].state = IF x \in {s} THEN "revoked" ELSE session[x].state
    BY <1>1, <2>1, RevokeColumns
  <2>5. Vouched(n)'
    <3>1. SUFFICES ASSUME req[r].password # None PROVE HasRotated(n)'
      BY <2>3 DEF Vouched, ReadLive
    <3>2. session[s].state = "live" /\ session[s].password = req[r].password /\ Sound(s)
      BY <1>1, <2>s, <2>1, <2>3, <3>1 DEF JInv, Vouched, ReadLive, Ready, Holds
    <3>3. account.active /\ req[r].password = account.password /\ ~session[s].replayed
      BY <3>1, <3>2 DEF Sound, Slipped
    <3>4. Successors(s) = {}
      BY <2>3, <3>2, NoneIsNull DEF IInv, ParentOf, IsRevoked, Successors
    <3>5. Successors(s)' = {}
      BY <2>4, <3>4 DEF Successors
    <3> QED
      BY <2>1, <2>3, <2>4, <3>3, <3>5 DEF HasRotated
  <2>6. Revokes({s}, {s}) /\ Continue(r, n, FALSE, {s})
    BY <2>1, <2>2, <2>4 DEF Revokes
  <2> QED
    BY <2>3, <2>5, <2>6, JustifiedRevoke
<1>3. CASE RevokeAll(r)
  <2>s. PICK s : s = req[r].session
    OBVIOUS
  <2>1. /\ req[r].stage = "replay"
        /\ session' = [Revoke(Live) EXCEPT ![s].replayed = TRUE] /\ account' = account
        /\ Continue(r, Idle, FALSE, Live \cup {s})
    BY <1>3, <2>s DEF RevokeAll
  <2>2. ASSUME NEW x \in SessionIds
        PROVE  /\ session'[x].parent = session[x].parent
               /\ session'[x].password = session[x].password
               /\ session'[x].state = IF x \in Live THEN "revoked" ELSE session[x].state
               /\ x \notin Live \cup {s} => session'[x].replayed = session[x].replayed
    <3>1. Revoke(Live) \in [SessionIds -> SessionRow]
      BY <1>1, RevokeTyped
    <3>2. session'[x] = IF x = s THEN [Revoke(Live)[x] EXCEPT !.replayed = TRUE] ELSE Revoke(Live)[x]
      BY <2>1, <3>1
    <3>3. /\ session'[x].parent = Revoke(Live)[x].parent
          /\ session'[x].password = Revoke(Live)[x].password
          /\ session'[x].state = Revoke(Live)[x].state
          /\ x # s => session'[x].replayed = Revoke(Live)[x].replayed
      BY <3>1, <3>2 DEF SessionRow
    <3> QED
      BY <1>1, <3>3, RevokeColumns
  <2>3. Vouched(Idle)' /\ Idle.stage # "rotated"
    BY DEF Vouched, Idle
  <2>4. Revokes(Live, Live \cup {s})
    BY <2>1, <2>2 DEF Revokes
  <2> QED
    BY <2>1, <2>3, <2>4, JustifiedRevoke
<1>4. CASE Logout(r)
  <2>1. /\ session' = Revoke({req[r].session}) /\ account' = account
        /\ Continue(r, Idle, FALSE, {req[r].session})
    BY <1>4 DEF Logout
  <2>2. \A x \in SessionIds :
           /\ session'[x].parent = session[x].parent
           /\ session'[x].password = session[x].password
           /\ session'[x].replayed = session[x].replayed
           /\ session'[x].state = IF x \in {req[r].session} THEN "revoked" ELSE session[x].state
    BY <1>1, <2>1, RevokeColumns
  <2>3. Vouched(Idle)' /\ Idle.stage # "rotated"
    BY DEF Vouched, Idle
  <2>4. Revokes({req[r].session}, {req[r].session})
    BY <2>1, <2>2 DEF Revokes
  <2> QED
    BY <2>1, <2>3, <2>4, JustifiedRevoke
<1> QED
  BY <1>2, <1>3, <1>4

\* A new session is justified if its request is vouched for, and slipped otherwise.
LEMMA JustifiedOpening ==
    ASSUME IInv, JInv, NEW r \in Requests, OpenSession(r)
    PROVE  JInv'
<1>q. PICK q : q = req[r]
  OBVIOUS
<1>1. /\ TypeOK /\ session \in [SessionIds -> SessionRow] /\ q \in Request
      /\ Holds(q) /\ Vouched(q) /\ \A s \in SessionIds : ParentOf(s)
  BY <1>q DEF IInv, JInv, TypeOK
<1>2. PICK s \in SessionIds :
        /\ session[s].state = "none"
        /\ session' = [session EXCEPT ![s] = Opened(q)]
  BY <1>q DEF OpenSession
<1>3. PICK row : row = Opened(q)
  OBVIOUS
<1>4. /\ row.state = "live" /\ row.parent = q.session /\ row.password = q.password
      /\ row.replayed = FALSE
  BY <1>3 DEF Opened, NoRow
<1>5. /\ session'[s] = row
      /\ \A x \in SessionIds \ {s} : session'[x] = session[x]
      /\ account' = account
      /\ req'[r] = Idle /\ \A p \in Requests \ {r} : req'[p] = req[p]
  BY <1>1, <1>2, <1>3 DEF OpenSession, Enter, TypeOK
<1>6. q.stage = "rotated" \/ (q.op = "login" /\ q.session = None)
  BY <1>1, <1>q DEF OpenSession, Ready, Holds
<1>7. \A x \in SessionIds : session[x].parent # s /\ ~IsRevoked(s)
  BY <1>1, <1>2, NoneIsNull DEF ParentOf, IsRevoked
<1>8. \A p : Successors(p)' \subseteq (Successors(p) \ {s}) \cup (IF p = q.session THEN {s} ELSE {})
  BY <1>4, <1>5 DEF Successors
<1>9. q.session # s
  BY <1>1, <1>6, <1>7, NoneIsNull DEF Holds
<1>10. ASSUME NEW x \in SessionIds PROVE Sound(x)'
  <2>1. CASE x = s
    <3>1. SUFFICES ASSUME q.password # None
                   PROVE  /\ account.active /\ q.password = account.password
                          /\ q.session # None =>
                                /\ ~session'[q.session].replayed
                                /\ \A y \in Successors(q.session)' : y = s \/ Slipped(y)'
      BY <1>4, <1>5, <2>1 DEF Sound, Slipped
    <3>2. account.active /\ q.password = account.password
      BY <1>1, <1>6, <3>1 DEF Vouched, HasRotated
    <3>3. ASSUME q.session # None
          PROVE  /\ ~session'[q.session].replayed
                 /\ \A y \in Successors(q.session)' : y = s \/ Slipped(y)'
      <4>1. q.session \in SessionIds /\ HasRotated(q) /\ q.stage = "rotated"
        BY <1>1, <1>6, <3>1, <3>3 DEF Vouched, Holds, IsRevoked
      <4> QED
        BY <1>5, <1>8, <1>9, <4>1 DEF HasRotated, Slipped, Successors
    <3> QED
      BY <3>2, <3>3
  <2>2. CASE x # s
    <3>p. PICK p : p = session[x].parent
      OBVIOUS
    <3>1. SUFFICES ASSUME session[x].state = "live", session[x].password # None, p # None
                   PROVE  ~session'[p].replayed /\ \A y \in Successors(p)' : y = x \/ Slipped(y)'
      BY <1>5, <2>2, <3>p DEF JInv, Sound, Slipped
    <3>2. p \in SessionIds /\ p = session[x].parent /\ p # s
      BY <1>1, <1>7, <3>p, <3>1 DEF SessionRow
    <3>3. ~session[p].replayed /\ \A y \in Successors(p) : y = x \/ Slipped(y)
      BY <3>1, <3>2 DEF JInv, Sound, Slipped
    <3>4. \A y \in Successors(p) : y # s => (Slipped(y)' <=> Slipped(y))
      BY <1>5 DEF Slipped, Successors
    <3>5. p = q.session => q.password = None
      <4>1. SUFFICES ASSUME p = q.session, q.password # None PROVE FALSE
        OBVIOUS
      <4>2. HasRotated(q) /\ q.stage = "rotated"
        BY <1>1, <1>6, <4>1, <3>2, NoneIsNull DEF Vouched
      <4>3. x \in Successors(p)
        BY <3>2 DEF Successors
      <4> QED
        BY <3>1, <4>1, <4>2, <4>3 DEF HasRotated, Slipped
    <3>6. p = q.session => Slipped(s)'
      BY <1>4, <1>5, <3>5 DEF Slipped
    <3>7. \A y \in Successors(p)' : y = x \/ Slipped(y)'
      BY <1>8, <3>3, <3>4, <3>6
    <3> QED
      BY <1>5, <3>2, <3>3, <3>7
  <2> QED
    BY <2>1, <2>2
<1>11. ASSUME NEW p \in Requests PROVE Vouched(req[p])'
  <2>1. CASE p = r
    BY <1>5, <2>1 DEF Vouched, Idle
  <2>2. CASE p # r
    <3>1. req'[p] = req[p] /\ Vouched(req[p]) /\ Holds(req[p])
      BY <1>5, <2>2 DEF IInv, JInv
    <3>2. SUFFICES ASSUME req[p].password # None PROVE ReadLive(req[p])' /\ HasRotated(req[p])'
      BY <1>5, <3>1 DEF Vouched
    <3>3. ReadLive(req[p])'
      BY <1>2, <1>5, <3>1, <3>2 DEF Vouched, ReadLive, Holds
    <3>4. HasRotated(req[p])'
      <4>k. PICK k : k = req[p].session
        OBVIOUS
      <4>1. SUFFICES ASSUME req[p].stage = "rotated"
                     PROVE  /\ account.active /\ req[p].password = account.password
                            /\ ~session'[k].replayed
                            /\ \A x \in Successors(k)' : Slipped(x)'
        BY <1>5, <3>1, <4>k DEF HasRotated
      <4>2. HasRotated(req[p]) /\ k \in SessionIds /\ k # s
        BY <1>7, <3>1, <3>2, <4>k, <4>1 DEF Vouched, Holds, IsRevoked
      <4>3. k = q.session => q.password = None
        BY <1>1, <1>6, <1>q, <2>2, <3>2, <4>k, <4>1, <4>2, NoneIsNull DEF JInv, OneRotation
      <4>4. \A x \in Successors(k) : x # s => Slipped(x)'
        BY <1>5, <4>k, <4>1, <4>2 DEF HasRotated, Slipped, Successors
      <4>5. k = q.session => Slipped(s)'
        BY <1>4, <1>5, <4>3 DEF Slipped
      <4>6. \A x \in Successors(k)' : Slipped(x)'
        BY <1>8, <4>4, <4>5
      <4> QED
        BY <1>5, <4>k, <4>1, <4>2, <4>6 DEF HasRotated
    <3> QED
      BY <3>3, <3>4
  <2> QED
    BY <2>1, <2>2
<1>12. OneRotation'
  BY <1>5 DEF JInv, OneRotation, Idle
<1> QED
  BY <1>10, <1>11, <1>12 DEF JInv

LEMMA JustifiedPassing ==
    ASSUME IInv, JInv, NEW s \in SessionIds, Expire(s) \/ Purge(s)
    PROVE  JInv'
<1>1. /\ TypeOK /\ session \in [SessionIds -> SessionRow]
      /\ UNCHANGED <<account, req>>
  BY DEF IInv, TypeOK, Expire, Purge
<1>2. ASSUME NEW x \in SessionIds, x # s \/ Expire(s)
      PROVE  /\ session'[x].state = session[x].state
             /\ session'[x].password = session[x].password
             /\ session'[x].replayed = session[x].replayed
             /\ \/ session'[x].parent = session[x].parent
                \/ session'[x].parent = None
             /\ session'[x].parent = s => Expire(s)
  <2>1. session[x] \in SessionRow
    BY <1>1
  <2>2. CASE Expire(s)
    <3>1. session'[x] = IF x = s THEN [session[x] EXCEPT !.expired = TRUE] ELSE session[x]
      BY <1>1, <2>2 DEF Expire
    <3> QED
      BY <2>1, <2>2, <3>1 DEF SessionRow
  <2>3. CASE Purge(s) /\ x # s
    <3>1. session'[x] = [session[x] EXCEPT !.parent = IF session[x].parent = s THEN None
                                                      ELSE session[x].parent]
      BY <2>3 DEF Purge
    <3> QED
      BY <2>1, <3>1, NoneIsNull DEF SessionRow
  <2> QED
    BY <1>2, <2>2, <2>3
<1>3. Purge(s) => session'[s] = NoRow /\ \A r \in Requests : req[r].session # s
  BY <1>1 DEF Purge
<1>4. ASSUME NEW p \in SessionIds, NEW x, x \in Successors(p)'
      PROVE  x \in Successors(p) /\ (Slipped(x) => Slipped(x)')
  <2>1. x \in SessionIds /\ session'[x].parent = p
    BY <1>4 DEF Successors
  <2>2. x # s \/ Expire(s)
    BY <1>3, <2>1, NoneIsNull DEF NoRow
  <2> QED
    BY <1>2, <2>1, <2>2, NoneIsNull DEF Successors, Slipped
<1>5. ASSUME NEW x \in SessionIds PROVE Sound(x)'
  <2>p. PICK p : p = session'[x].parent
    OBVIOUS
  <2>1. SUFFICES ASSUME session'[x].state = "live"
                 PROVE  /\ ~session'[x].replayed
                        /\ session'[x].password # None =>
                              /\ account.active
                              /\ session'[x].password = account.password
                              /\ p # None => /\ ~session'[p].replayed
                                             /\ \A y \in Successors(p)' : y = x \/ Slipped(y)'
    BY <1>1, <2>p DEF Sound, Slipped
  <2>2. x # s \/ Expire(s)
    BY <1>3, <2>1 DEF NoRow
  <2>3. Sound(x) /\ session[x].state = "live" /\ session'[x].password = session[x].password
        /\ session'[x].replayed = session[x].replayed
    BY <1>2, <2>1, <2>2 DEF JInv
  <2>4. ASSUME session[x].password # None, p # None
        PROVE  ~session'[p].replayed /\ \A y \in Successors(p)' : y = x \/ Slipped(y)'
    <3>1. p = session[x].parent /\ p \in SessionIds /\ (p # s \/ Expire(s))
      BY <1>1, <1>2, <2>p, <2>2, <2>4 DEF SessionRow, Expire, Purge
    <3>2. ~session[p].replayed /\ \A y \in Successors(p) : y = x \/ Slipped(y)
      BY <2>3, <2>4, <3>1 DEF Sound, Slipped
    <3> QED
      BY <1>2, <1>4, <3>1, <3>2
  <2> QED
    BY <2>1, <2>3, <2>4 DEF Sound, Slipped
<1>6. ASSUME NEW r \in Requests PROVE Vouched(req[r])'
  <2>q. PICK q : q = req[r] /\ q = req'[r]
    BY <1>1
  <2>1. Vouched(q) /\ Holds(q) /\ (q.session # s \/ Expire(s))
    BY <1>3, <2>q DEF IInv, JInv, Expire, Purge
  <2>2. q.op = "refresh" => q.session \in SessionIds
    BY <2>1 DEF Holds
  <2>3. ReadLive(q) => ReadLive(q)'
    BY <1>2, <2>1, <2>2 DEF ReadLive
  <2>4. HasRotated(q) => HasRotated(q)'
    <3>1. SUFFICES ASSUME HasRotated(q), q.stage = "rotated" PROVE HasRotated(q)'
      BY DEF HasRotated
    <3>2. q.session \in SessionIds
      BY <2>1, <3>1 DEF Holds, IsRevoked
    <3>3. \A x \in Successors(q.session)' : Slipped(x)'
      BY <1>4, <3>1, <3>2 DEF HasRotated
    <3> QED
      BY <1>1, <1>2, <2>1, <3>1, <3>2, <3>3 DEF HasRotated
  <2>5. Vouched(q)'
    BY <1>1, <2>1, <2>3, <2>4 DEF Vouched
  <2> QED
    BY <2>q, <2>5
<1>7. OneRotation'
  BY <1>1 DEF JInv, OneRotation
<1> QED
  BY <1>5, <1>6, <1>7 DEF JInv

LEMMA JustifiedStep == IInv /\ JInv /\ [Next]_vars => JInv'
<1> SUFFICES ASSUME IInv, JInv, [Next]_vars PROVE JInv'
  OBVIOUS
<1>1. CASE UNCHANGED vars
  BY <1>1 DEF vars, JInv, Sound, Slipped, Successors, Vouched, ReadLive, HasRotated, OneRotation
<1>2. ASSUME NEW r \in Requests,
             ReadAccount(r) \/ Proceed(r) \/ \E op \in Ops : Receive(r, op)
      PROVE  JInv'
  BY <1>2, JustifiedReading, JustifiedRevoking, JustifiedOpening, JustifiedChange, JustifiedSuspend
     DEF Proceed
<1>3. ASSUME NEW r \in Requests, NEW s \in SessionIds,
             ReadSession(r, s) \/ \E op \in Ops : Authenticate(r, op, s)
      PROVE  JInv'
  BY <1>3, JustifiedReading
<1>4. ASSUME NEW s \in SessionIds, Expire(s) \/ Purge(s)
      PROVE  JInv'
  BY <1>4, JustifiedPassing
<1> QED
  BY <1>1, <1>2, <1>3, <1>4 DEF Next

\* Suspension, a new password, replay detection and the single use of a token hold
\* against every request that has read after them.
THEOREM SessionsJustified == Spec => []Justified
<1>1. Init => IInv /\ JInv
  BY InitInv, JustifiedInit
<1>2. IInv /\ JInv /\ [Next]_vars => IInv' /\ JInv'
  BY StepInv, JustifiedStep
<1>3. JInv => Justified
  BY DEF JInv, Justified, Sound, Live, Slipped
<1> QED
  BY <1>1, <1>2, <1>3, PTL DEF Spec
=============================================================================

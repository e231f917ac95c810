--------------------------- MODULE Credentials_proofs ---------------------------
(***************************************************************************)
(* Types, and the three invariants of Credentials: what a request still    *)
(* believes (Believes) ties its copy of the account, its token and its     *)
(* account of the identity to the rows.                                    *)
(***************************************************************************)
EXTENDS Credentials, TLAPS

\* What request r has read and done fits the rows.
Believes(r) ==
    LET q == req[r]
    IN  /\ q.op = "none" => q.stage = "idle"
        /\ q.op = "login" => q.stage = "ready" /\ q.token = None
                             /\ (q.fresh => q.failed = account.failed /\ ~account.locked)
        /\ q.op = "reset" => q.stage = "ready" /\ q.token \in Tokens
                             /\ (q.fresh => history.uses[q.token] = 0)
        /\ q.user # None => q.user \in users
        /\ q.stage = "created" => q.user # None
        /\ q.stage = "ready" /\ q.user # None => q.user = link

\* A streak that was counted in full is what the account says.
Counted == history.streak # None => history.streak = account.failed

\* A token nobody has used is good for one password, any other for those who
\* hold it.
Spent(k) ==
    /\ token[k] = "good" => history.uses[k] = 0
    /\ history.uses[k] <= 1 + history.slips[k]

IInv ==
    /\ TypeOK
    /\ \A r \in Requests : Believes(r)
    /\ Counted
    /\ \A k \in Tokens : Spent(k)
    /\ OneAccount
    /\ NoStrays

USE LimitType

LEMMA NoneApart == None \notin Tokens /\ None \notin Users
  BY NoneIsNull

LEMMA InitInv == Init => IInv
  BY DEF Init, IInv, TypeOK, Believes, Counted, Spent, OneAccount, NoStrays, Request, Idle,
         History, Ops, Stages
-----------------------------------------------------------------------------
(* How requests change. *)

LEMMA IdleTyped == Idle \in Request /\ Idle.user = None /\ Idle.op = "none" /\ Idle.stage = "idle"
  BY DEF Idle, Request, Ops, Stages

LEMMA FreshOnly ==
    ASSUME NEW q \in Request, NEW b \in BOOLEAN, NEW n, n = [q EXCEPT !.fresh = b]
    PROVE  /\ n \in Request /\ n.fresh = b
           /\ n.op = q.op /\ n.stage = q.stage /\ n.failed = q.failed
           /\ n.token = q.token /\ n.user = q.user
  BY DEF Request

\* Done ends request r and leaves the others all but their "fresh".
LEMMA DoneKeeps ==
    ASSUME req \in [Requests -> Request], NEW r \in Requests, Done(r)
    PROVE  /\ req' \in [Requests -> Request]
           /\ req'[r] = Idle
           /\ \A q \in Requests \ {r} :
                 /\ req'[q].op = req[q].op /\ req'[q].stage = req[q].stage
                 /\ req'[q].failed = req[q].failed /\ req'[q].token = req[q].token
                 /\ req'[q].user = req[q].user
                 /\ req'[q].fresh <=> req[q].fresh /\ ~(req[q].op = req[r].op
                                                       /\ req[q].token = req[r].token)
<1>1. \A q \in Requests : req[q] \in Request
  OBVIOUS
<1>2. \A q \in Requests \ {r} :
         req'[q] = [req[q] EXCEPT !.fresh = @ /\ ~(req[q].op = req[r].op
                                                  /\ req[q].token = req[r].token)]
  BY DEF Done
<1>3. req'[r] = Idle /\ DOMAIN req' = Requests
  BY DEF Done
<1>4. ASSUME NEW q \in Requests \ {r}
      PROVE  /\ req'[q] \in Request
             /\ req'[q].op = req[q].op /\ req'[q].stage = req[q].stage
             /\ req'[q].failed = req[q].failed /\ req'[q].token = req[q].token
             /\ req'[q].user = req[q].user
             /\ req'[q].fresh <=> req[q].fresh /\ ~(req[q].op = req[r].op
                                                   /\ req[q].token = req[r].token)
  <2> DEFINE b == req[q].fresh /\ ~(req[q].op = req[r].op /\ req[q].token = req[r].token)
  <2>1. b \in BOOLEAN
    OBVIOUS
  <2>2. req'[q] = [req[q] EXCEPT !.fresh = b]
    BY <1>2
  <2> HIDE DEF b
  <2>3. /\ req'[q] \in Request /\ req'[q].fresh = b
        /\ req'[q].op = req[q].op /\ req'[q].stage = req[q].stage
        /\ req'[q].failed = req[q].failed /\ req'[q].token = req[q].token
        /\ req'[q].user = req[q].user
    BY <1>1, <2>1, <2>2, FreshOnly
  <2> QED
    BY <2>3 DEF b
<1>5. req' \in [Requests -> Request]
  BY <1>3, <1>4, IdleTyped DEF Done
<1> QED
  BY <1>3, <1>4, <1>5

\* An account of the identity is linked or lost, or its request is about to link it.
NotStray(u) ==
    \/ u = link
    \/ u \in history.lost
    \/ \E r \in Requests : req[r].stage = "created" /\ req[r].user = u

LEMMA StrayForm == NoStrays <=> \A u \in users : NotStray(u)
  BY DEF NoStrays, NotStray

LEMMA StrayFormNext == NoStrays' <=> \A u \in users' : NotStray(u)'
  BY DEF NoStrays, NotStray

\* Nothing is lost when no request in the middle of its two statements is disturbed.
LEMMA StraysKept ==
    ASSUME IInv, users' = users, link' = link, history'.lost = history.lost,
           \A q \in Requests : req[q].stage = "created" =>
               req'[q].stage = "created" /\ req'[q].user = req[q].user
    PROVE  NoStrays'
<1>1. \A u \in users : NotStray(u)
  BY StrayForm DEF IInv
<1>2. \A u \in users : NotStray(u)'
  BY <1>1 DEF NotStray
<1> QED
  BY <1>2, StrayFormNext
-----------------------------------------------------------------------------
(* Logins. *)

LEMMA EnterKeeps ==
    ASSUME IInv, NEW r \in Requests, NEW q \in Request, Enter(r, q), q.stage = "ready",
           UNCHANGED <<account, token, users, link, history>>,
           q.op \in {"login", "reset", "mtoken"},
           q.op = "login" => q.token = None /\ q.failed = account.failed /\ ~account.locked,
           q.op = "reset" => q.token \in Tokens /\ history.uses[q.token] = 0,
           q.user # None => q.user = link
    PROVE  IInv'
<1>1. req' = [req EXCEPT ![r] = q] /\ req[r].stage = "idle"
  BY IdleTyped DEF Enter
<1>2. TypeOK'
  BY <1>1 DEF IInv, TypeOK
<1>3. ASSUME NEW x \in Requests PROVE Believes(x)'
  <2>1. CASE x = r
    BY <1>1, <2>1 DEF IInv, TypeOK, Believes
  <2>2. CASE x # r
    BY <1>1, <2>2 DEF IInv, TypeOK, Believes
  <2> QED
    BY <2>1, <2>2
<1>4. NoStrays'
  BY <1>1, StraysKept DEF IInv, TypeOK
<1> QED
  BY <1>2, <1>3, <1>4 DEF IInv, Counted, Spent, OneAccount

LEMMA ReadAccountInv ==
    ASSUME IInv, NEW r \in Requests, ReadAccount(r) PROVE IInv'
<1> DEFINE q == [Idle EXCEPT !.op = "login", !.stage = "ready", !.failed = account.failed]
<1>1. /\ q \in Request /\ q.stage = "ready" /\ q.op = "login" /\ q.token = None
      /\ q.failed = account.failed /\ q.user = None
  BY DEF IInv, TypeOK, Idle, Request, Ops, Stages
<1>2. Enter(r, q) /\ ~account.locked /\ UNCHANGED <<account, token, users, link, history>>
  BY DEF ReadAccount
<1> QED
  BY <1>1, <1>2, EnterKeeps

\* A login that ends leaves nothing that another login in flight believes, because
\* none of them is fresh any more.
LEMMA EndLogin ==
    ASSUME IInv, NEW r \in Requests, req[r].op = "login", Done(r),
           UNCHANGED <<token, users, link>>,
           account' \in [failed: 0 .. MaxFailed, locked: BOOLEAN],
           history' \in History, history'.uses = history.uses,
           history'.slips = history.slips, history'.answered = history.answered,
           history'.lost = history.lost, Counted'
    PROVE  IInv'
<1>1. TypeOK'
  BY DoneKeeps DEF IInv, TypeOK
<1>2. ASSUME NEW x \in Requests PROVE Believes(x)'
  <2>1. CASE x = r
    BY <2>1, DoneKeeps, IdleTyped DEF IInv, TypeOK, Believes
  <2>2. CASE x # r
    BY <2>2, DoneKeeps DEF IInv, TypeOK, Believes
  <2> QED
    BY <2>1, <2>2
<1>3. NoStrays'
  BY DoneKeeps, StraysKept DEF IInv, TypeOK, Believes
<1> QED
  BY <1>1, <1>2, <1>3 DEF IInv, Spent, OneAccount

LEMMA FailLoginInv ==
    ASSUME IInv, NEW r \in Requests, FailLogin(r) PROVE IInv'
<1> DEFINE streak == IF history.streak # None /\ req[r].fresh THEN history.streak + 1 ELSE None
<1>1. /\ account' = [failed |-> req[r].failed + 1, locked |-> Locks(req[r].failed + 1)]
      /\ history' = [history EXCEPT !.streak = streak]
      /\ req[r].failed + 1 <= MaxFailed
      /\ req[r].op = "login" /\ Done(r) /\ UNCHANGED <<token, users, link>>
  BY DEF FailLogin
<1>2. req[r].failed \in Nat
  BY DEF IInv, TypeOK, Request
<1>3. account' \in [failed: 0 .. MaxFailed, locked: BOOLEAN]
  BY <1>1, <1>2 DEF Locks
<1>4. streak # None => streak = req[r].failed + 1
  BY <1>1 DEF IInv, Counted, Believes
<1>5. /\ history' \in History /\ history'.uses = history.uses
      /\ history'.slips = history.slips /\ history'.answered = history.answered
      /\ history'.lost = history.lost /\ history'.streak = streak
  BY <1>1, <1>2, <1>4 DEF IInv, TypeOK, History
<1>6. Counted'
  BY <1>1, <1>4, <1>5 DEF Counted
<1> QED
  BY <1>1, <1>3, <1>5, <1>6, EndLogin

LEMMA PassLoginInv ==
    ASSUME IInv, NEW r \in Requests, PassLogin(r) PROVE IInv'
<1>1. account' \in [failed: 0 .. MaxFailed, locked: BOOLEAN] /\ account'.failed = 0
  BY DEF PassLogin
<1>2. /\ history' \in History /\ history'.uses = history.uses
      /\ history'.slips = history.slips /\ history'.answered = history.answered
      /\ history'.lost = history.lost /\ history'.streak = 0
  BY DEF PassLogin, IInv, TypeOK, History
<1>3. Counted'
  BY <1>1, <1>2 DEF Counted
<1> QED
  BY <1>1, <1>2, <1>3, EndLogin DEF PassLogin

LEMMA ChangePasswordInv ==
    ASSUME IInv, ChangePassword PROVE IInv'
<1> DEFINE row(q) == [req[q] EXCEPT !.fresh = @ /\ req[q].op # "login"]
<1>1. req' = [q \in Requests |-> row(q)]
  BY DEF ChangePassword
<1>2. \A q \in Requests :
         /\ row(q) \in Request
         /\ row(q).op = req[q].op /\ row(q).stage = req[q].stage
         /\ row(q).token = req[q].token /\ row(q).user = req[q].user
         /\ row(q).fresh <=> req[q].fresh /\ req[q].op # "login"
  <2> SUFFICES ASSUME NEW q \in Requests
               PROVE  /\ row(q) \in Request
                      /\ row(q).op = req[q].op /\ row(q).stage = req[q].stage
                      /\ row(q).token = req[q].token /\ row(q).user = req[q].user
                      /\ row(q).fresh <=> req[q].fresh /\ req[q].op # "login"
    OBVIOUS
  <2> DEFINE b == req[q].fresh /\ req[q].op # "login"
  <2>1. b \in BOOLEAN /\ req[q] \in Request
    BY DEF IInv, TypeOK
  <2>2. row(q) = [req[q] EXCEPT !.fresh = b]
    OBVIOUS
  <2> HIDE DEF b, row
  <2>3. /\ row(q) \in Request /\ row(q).fresh = b
        /\ row(q).op = req[q].op /\ row(q).stage = req[q].stage
        /\ row(q).token = req[q].token /\ row(q).user = req[q].user
    BY <2>1, <2>2, FreshOnly
  <2> QED
    BY <2>3 DEF b
<1> HIDE DEF row
<1>3. account' \in [failed: 0 .. MaxFailed, locked: BOOLEAN] /\ account'.failed = 0
  BY DEF ChangePassword
<1>4. /\ history' \in History /\ history'.uses = history.uses
      /\ history'.slips = history.slips /\ history'.answered = history.answered
      /\ history'.lost = history.lost /\ history'.streak = 0
  BY DEF ChangePassword, IInv, TypeOK, History
<1>5. UNCHANGED <<token, users, link>>
  BY DEF ChangePassword
<1>6. TypeOK'
  BY <1>1, <1>2, <1>3, <1>4, <1>5 DEF IInv, TypeOK
<1>7. ASSUME NEW x \in Requests PROVE Believes(x)'
  BY <1>1, <1>2, <1>4, <1>5 DEF IInv, Believes
<1>8. NoStrays'
  BY <1>1, <1>2, <1>4, <1>5, StraysKept
<1>9. Counted' /\ (\A k \in Tokens : Spent(k)') /\ OneAccount'
  BY <1>3, <1>4, <1>5 DEF IInv, Counted, Spent, OneAccount
<1> QED
  BY <1>6, <1>7, <1>8, <1>9 DEF IInv

LEMMA UnlockInv == ASSUME IInv, Unlock PROVE IInv'
<1>1. /\ account' \in [failed: 0 .. MaxFailed, locked: BOOLEAN]
      /\ account'.failed = account.failed /\ account'.locked = FALSE
      /\ UNCHANGED <<token, users, link, req, history>>
  BY DEF Unlock, IInv, TypeOK
<1> QED
  BY <1>1 DEF IInv, TypeOK, Believes, Counted, Spent, OneAccount, NoStrays
-----------------------------------------------------------------------------
(* Reset tokens. *)

LEMMA TokenInv ==
    ASSUME IInv, NEW k \in Tokens, Forgot(k) \/ ExpireToken(k) PROVE IInv'
<1>1. CASE Forgot(k)
  <2>1. /\ history' \in History
        /\ history'.streak = history.streak /\ history'.answered = history.answered
        /\ history'.lost = history.lost
        /\ history'.uses = [history.uses EXCEPT ![k] = 0]
        /\ history'.slips = [history.slips EXCEPT ![k] = 0]
    BY <1>1 DEF Forgot, IInv, TypeOK, History
  <2>2. token' = [token EXCEPT ![k] = "good"] /\ UNCHANGED <<account, users, link, req>>
        /\ \A r \in Requests : req[r].token # k
    BY <1>1 DEF Forgot
  <2>3. TypeOK'
    BY <2>1, <2>2 DEF IInv, TypeOK
  <2>4. ASSUME NEW x \in Requests PROVE Believes(x)'
    BY <2>1, <2>2 DEF IInv, TypeOK, History, Believes
  <2>5. ASSUME NEW m \in Tokens PROVE Spent(m)'
    BY <2>1, <2>2 DEF IInv, TypeOK, History, Spent
  <2> QED
    BY <2>1, <2>2, <2>3, <2>4, <2>5 DEF IInv, Counted, OneAccount, NoStrays
<1>2. CASE ExpireToken(k)
  BY <1>2 DEF ExpireToken, IInv, TypeOK, Believes, Counted, Spent, OneAccount, NoStrays
<1> QED
  BY <1>1, <1>2

LEMMA ReadTokenInv ==
    ASSUME IInv, NEW r \in Requests, NEW k \in Tokens, ReadToken(r, k) PROVE IInv'
<1> DEFINE q == [Idle EXCEPT !.op = "reset", !.stage = "ready", !.token = k]
<1>1. /\ q \in Request /\ q.stage = "ready" /\ q.op = "reset" /\ q.token = k
      /\ q.user = None
  <2>1. q \in Request
    BY IdleTyped DEF Request, Ops, Stages
  <2> QED
    BY <2>1 DEF Idle
<1>2. Enter(r, q) /\ UNCHANGED <<account, token, users, link, history>>
      /\ history.uses[k] = 0
  BY DEF ReadToken, IInv, Spent
<1> QED
  BY <1>1, <1>2, EnterKeeps

LEMMA ResetInv ==
    ASSUME IInv, NEW r \in Requests, Reset(r) PROVE IInv'
<1> DEFINE k == req[r].token
<1>1. k \in Tokens /\ req[r].op = "reset" /\ req[r].stage = "ready"
      /\ (req[r].fresh => history.uses[k] = 0)
  BY DEF Reset, IInv, Believes
<1> DEFINE uses == [history.uses EXCEPT ![k] = @ + 1]
           slips == [history.slips EXCEPT ![k] = IF req[r].fresh THEN @ ELSE @ + 1]
<1>0. history \in History /\ uses \in [Tokens -> Nat] /\ slips \in [Tokens -> Nat]
  <2>1. history \in History /\ history.uses \in [Tokens -> Nat] /\ history.slips \in [Tokens -> Nat]
    BY DEF IInv, TypeOK, History
  <2>2. history.uses[k] + 1 \in Nat /\ history.slips[k] + 1 \in Nat /\ history.slips[k] \in Nat
    BY <1>1, <2>1
  <2>3. uses \in [Tokens -> Nat]
    BY <2>1, <2>2
  <2>4. slips \in [Tokens -> Nat]
    BY <2>1, <2>2
  <2> QED
    BY <2>1, <2>3, <2>4
<1>9. history'.uses = uses /\ history'.slips = slips
  BY <1>0 DEF Reset, History
<1>2. /\ history' \in History
      /\ history'.streak = history.streak /\ history'.answered = history.answered
      /\ history'.lost = history.lost
  BY <1>0 DEF Reset, History
<1>3. token' = [token EXCEPT ![k] = "used"] /\ UNCHANGED <<account, users, link>> /\ Done(r)
  BY DEF Reset
<1>4. TypeOK'
  BY <1>2, <1>3, DoneKeeps DEF IInv, TypeOK
<1>5. ASSUME NEW x \in Requests PROVE Believes(x)'
  <2>1. CASE x = r
    BY <1>3, <2>1, DoneKeeps, IdleTyped DEF IInv, TypeOK, Believes
  <2>2. CASE x # r
    <3>1. /\ req'[x].op = req[x].op /\ req'[x].stage = req[x].stage
          /\ req'[x].failed = req[x].failed /\ req'[x].token = req[x].token
          /\ req'[x].user = req[x].user
          /\ req'[x].fresh <=> req[x].fresh /\ ~(req[x].op = req[r].op
                                                /\ req[x].token = k)
      BY <1>3, <2>2, DoneKeeps DEF IInv, TypeOK
    <3>2. req[x].op = "reset" /\ req'[x].fresh =>
             history'.uses[req[x].token] = history.uses[req[x].token]
      BY <1>0, <1>1, <1>9, <3>1 DEF IInv, TypeOK, History, Believes
    <3> QED
      BY <1>3, <3>1, <3>2 DEF IInv, Believes
  <2> QED
    BY <2>1, <2>2
<1>6. ASSUME NEW m \in Tokens PROVE Spent(m)'
  BY <1>0, <1>1, <1>3, <1>9 DEF IInv, TypeOK, History, Spent
<1>7. NoStrays'
  BY <1>1, <1>2, <1>3, DoneKeeps, StraysKept DEF IInv, TypeOK
<1> QED
  BY <1>2, <1>3, <1>4, <1>5, <1>6, <1>7 DEF IInv, Counted, OneAccount
-----------------------------------------------------------------------------
(* The identity. *)

LEMMA FindLinkInv ==
    ASSUME IInv, NEW r \in Requests, FindLink(r) PROVE IInv'
<1> DEFINE q == [Idle EXCEPT !.op = "mtoken", !.stage = "ready", !.user = link]
<1>0. link \in Users \cup {None}
  BY DEF IInv, TypeOK
<1>1. q \in Request /\ q.stage = "ready" /\ q.op = "mtoken" /\ q.user = link
  <2>1. q \in Request
    BY <1>0, IdleTyped DEF Request, Ops, Stages
  <2> QED
    BY <2>1 DEF Idle
<1>2. Enter(r, q) /\ UNCHANGED <<account, token, users, link, history>>
  BY DEF FindLink
<1> QED
  BY <1>1, <1>2, EnterKeeps

LEMMA CreateUserInv ==
    ASSUME IInv, NEW r \in Requests, CreateUser(r) PROVE IInv'
<1>1. PICK u \in Users \ users :
         /\ users' = users \cup {u}
         /\ req' = [req EXCEPT ![r].stage = "created", ![r].user = u]
  BY DEF CreateUser
<1> DEFINE q == [req[r] EXCEPT !.stage = "created", !.user = u]
<1>2. req' = [req EXCEPT ![r] = q]
  BY <1>1 DEF IInv, TypeOK
<1>3. q \in Request /\ q.op = "mtoken" /\ q.stage = "created" /\ q.user = u
  BY DEF CreateUser, IInv, TypeOK, Request, Stages
<1>4. UNCHANGED <<account, token, link, history>> /\ req[r].stage = "ready"
  BY DEF CreateUser
<1> HIDE DEF q
<1>5. TypeOK'
  <2>1. req' \in [Requests -> Request]
    BY <1>2, <1>3 DEF IInv, TypeOK
  <2>2. users' \subseteq Users /\ link' \in users' \cup {None}
    BY <1>1, <1>4 DEF IInv, TypeOK
  <2> QED
    BY <1>4, <2>1, <2>2 DEF IInv, TypeOK
<1>6. ASSUME NEW x \in Requests PROVE Believes(x)'
  <2>1. CASE x = r
    <3>1. req'[x] = q /\ u \in users'
      BY <1>1, <1>2, <2>1 DEF IInv, TypeOK
    <3>2. u # None
      BY NoneApart
    <3> QED
      BY <1>3, <3>1, <3>2 DEF Believes
  <2>2. CASE x # r
    BY <1>1, <1>2, <1>4, <2>2 DEF IInv, TypeOK, Believes
  <2> QED
    BY <2>1, <2>2
<1>7. ASSUME NEW v \in users' PROVE NotStray(v)'
  <2>1. CASE v = u
    BY <1>2, <1>3, <2>1 DEF IInv, TypeOK, NotStray
  <2>2. CASE v \in users
    <3>1. NotStray(v)
      BY <2>2, StrayForm DEF IInv
    <3> QED
      BY <1>2, <1>4, <3>1 DEF IInv, TypeOK, NotStray
  <2> QED
    BY <1>1, <1>7, <2>1, <2>2
<1> QED
  BY <1>4, <1>5, <1>6, <1>7, StrayFormNext DEF IInv, Counted, Spent, OneAccount

LEMMA CreateLinkInv ==
    ASSUME IInv, NEW r \in Requests, CreateLink(r) PROVE IInv'
<1> DEFINE q == [req[r] EXCEPT !.stage = "ready"]
<1>1. /\ req' = [req EXCEPT ![r] = q] /\ req[r].stage = "created"
      /\ link = None /\ link' = req[r].user
      /\ UNCHANGED <<account, token, users, history>>
  BY DEF CreateLink, IInv, TypeOK
<1>2. req[r].user \in users /\ req[r].op = "mtoken"
  BY <1>1 DEF IInv, TypeOK, Believes, Request, Ops
<1>3. q \in Request /\ q.op = "mtoken" /\ q.stage = "ready" /\ q.user = req[r].user
  BY <1>2 DEF IInv, TypeOK, Request, Stages
<1> HIDE DEF q
<1>4. TypeOK'
  BY <1>1, <1>2, <1>3 DEF IInv, TypeOK
<1>5. ASSUME NEW x \in Requests PROVE Believes(x)'
  <2>1. CASE x = r
    BY <1>1, <1>2, <1>3, <2>1 DEF IInv, TypeOK, Believes
  <2>2. CASE x # r
    BY <1>1, <2>2 DEF IInv, TypeOK, Believes
  <2> QED
    BY <2>1, <2>2
<1>6. ASSUME NEW v \in users' PROVE NotStray(v)'
  <2>1. NotStray(v) /\ v # None
    BY <1>1, <1>6, StrayForm, NoneApart DEF IInv, TypeOK
  <2> QED
    BY <1>1, <2>1 DEF IInv, TypeOK, NotStray
<1>7. OneAccount'
  BY <1>1, NoneApart DEF IInv, TypeOK, History, OneAccount
<1> QED
  BY <1>1, <1>4, <1>5, <1>6, <1>7, StrayFormNext DEF IInv, Counted, Spent

LEMMA AnswerInv ==
    ASSUME IInv, NEW r \in Requests, Answer(r) PROVE IInv'
<1>1. req' = [req EXCEPT ![r] = Idle] /\ req[r].stage = "ready"
      /\ UNCHANGED <<account, token, users, link>>
  BY DEF Answer
<1>2. req[r].user = link /\ req[r].user \in Users
  BY DEF Answer, IInv, TypeOK, Believes, Request
<1>3. /\ history' \in History
      /\ history'.streak = history.streak /\ history'.lost = history.lost
      /\ history'.uses = history.uses /\ history'.slips = history.slips
      /\ history'.answered = history.answered \cup {req[r].user}
  BY <1>2 DEF Answer, IInv, TypeOK, History
<1>4. TypeOK'
  BY <1>1, <1>3, IdleTyped DEF IInv, TypeOK
<1>5. ASSUME NEW x \in Requests PROVE Believes(x)'
  BY <1>1, <1>3, IdleTyped DEF IInv, TypeOK, Believes
<1>6. NoStrays'
  BY <1>1, <1>3, StraysKept DEF IInv, TypeOK
<1> QED
  BY <1>1, <1>2, <1>3, <1>4, <1>5, <1>6 DEF IInv, Counted, Spent, OneAccount

LEMMA AbortInv ==
    ASSUME IInv, NEW r \in Requests, Abort(r) PROVE IInv'
<1> DEFINE lost == IF req[r].stage = "created" THEN history.lost \cup {req[r].user}
                   ELSE history.lost
<1>1. req' = [req EXCEPT ![r] = Idle] /\ history' = [history EXCEPT !.lost = lost]
      /\ UNCHANGED <<account, token, users, link>>
  BY DEF Abort
<1>2. lost \in SUBSET Users
  BY DEF IInv, TypeOK, History, Believes
<1>3. /\ history' \in History
      /\ history'.streak = history.streak /\ history'.answered = history.answered
      /\ history'.uses = history.uses /\ history'.slips = history.slips
      /\ history'.lost = lost
  BY <1>1, <1>2 DEF IInv, TypeOK, History
<1>4. TypeOK'
  BY <1>1, <1>3, IdleTyped DEF IInv, TypeOK
<1>5. ASSUME NEW x \in Requests PROVE Believes(x)'
  BY <1>1, <1>3, IdleTyped DEF IInv, TypeOK, Believes
<1>6. ASSUME NEW v \in users' PROVE NotStray(v)'
  <2>1. NotStray(v)
    BY <1>1, <1>6, StrayForm DEF IInv
  <2>2. ASSUME NEW x \in Requests, req[x].stage = "created", req[x].user = v
        PROVE  NotStray(v)'
    BY <1>1, <1>3, <2>2 DEF IInv, TypeOK, NotStray
  <2> QED
    BY <1>1, <1>3, <2>1, <2>2 DEF NotStray
<1> QED
  BY <1>1, <1>3, <1>4, <1>5, <1>6, StrayFormNext DEF IInv, Counted, Spent, OneAccount
-----------------------------------------------------------------------------
LEMMA NextInv == IInv /\ [Next]_vars => IInv'
<1> SUFFICES ASSUME IInv, [Next]_vars PROVE IInv'
  OBVIOUS
<1>1. CASE UNCHANGED vars
  BY <1>1 DEF vars, IInv, TypeOK, Believes, Counted, Spent, OneAccount, NoStrays
<1>2. ASSUME NEW r \in Requests,
             \/ ReadAccount(r) \/ FailLogin(r) \/ PassLogin(r) \/ Reset(r)
             \/ FindLink(r) \/ CreateUser(r) \/ CreateLink(r) \/ Answer(r) \/ Abort(r)
      PROVE  IInv'
  BY <1>2, ReadAccountInv, FailLoginInv, PassLoginInv, ResetInv, FindLinkInv,
     CreateUserInv, CreateLinkInv, AnswerInv, AbortInv
<1>3. ASSUME NEW r \in Requests, NEW k \in Tokens, ReadToken(r, k) PROVE IInv'
  BY <1>3, ReadTokenInv
<1>4. ASSUME NEW k \in Tokens, Forgot(k) \/ ExpireToken(k) PROVE IInv'
  BY <1>4, TokenInv
<1>5. CASE ChangePassword \/ Unlock
  BY <1>5, ChangePasswordInv, UnlockInv
<1> QED
  BY <1>1, <1>2, <1>3, <1>4, <1>5 DEF Next

\* Every reachable state is well typed; in particular the link names an account there is.
THEOREM CredentialsTyped == Spec => []TypeOK
<1>1. IInv => TypeOK
  BY DEF IInv
<1> QED
  BY <1>1, InitInv, NextInv, PTL DEF Spec

\* resetPassword: a token sets one password, and one more for every request that had
\* read it before its first use, for any number of requests and tokens.
THEOREM TokensOnce == Spec => []SingleUse
<1>1. IInv => SingleUse
  BY DEF IInv, Spent, SingleUse
<1> QED
  BY <1>1, InitInv, NextInv, PTL DEF Spec

\* tangRatLogin: whoever logs in with an identity gets the account it is linked to.
THEOREM SameAccount == Spec => []OneAccount
<1>1. IInv => OneAccount
  BY DEF IInv
<1> QED
  BY <1>1, InitInv, NextInv, PTL DEF Spec

\* tangRatLogin: the only accounts left over are those of requests that failed between
\* the two statements.
THEOREM FewStrays == Spec => []NoStrays
<1>1. IInv => NoStrays
  BY DEF IInv
<1> QED
  BY <1>1, InitInv, NextInv, PTL DEF Spec

\* The steps that set the streak back.
PassLoginOrChange == ChangePassword \/ \E r \in Requests : PassLogin(r)

\* selfLogin: for any limit, failed logins that all counted lock the account exactly
\* when they reach it.
THEOREM LockCounts == Spec => LockedAtLimit
<1>1. IInv /\ [Next]_vars =>
        [history'.streak \notin {None, history.streak} /\ history'.streak # 0 =>
            /\ account'.failed = history'.streak
            /\ account'.locked <=> history'.streak >= Limit]_vars
  <2> SUFFICES ASSUME IInv, Next, history'.streak \notin {None, history.streak},
                      history'.streak # 0
               PROVE  /\ account'.failed = history'.streak
                      /\ account'.locked <=> history'.streak >= Limit
    BY DEF vars
  <2>0. history \in History
    BY DEF IInv, TypeOK
  <2>1. PICK r \in Requests : FailLogin(r)
    <3>1. history'.streak # history.streak
      OBVIOUS
    <3>2. ~PassLoginOrChange
      BY DEF PassLoginOrChange, PassLogin, ChangePassword, IInv, TypeOK, History
    <3> QED
      BY <2>0, <3>1, <3>2 DEF Next, PassLoginOrChange, ReadAccount, Reset, FindLink, CreateUser,
         CreateLink, Answer, Abort, ReadToken, Forgot, ExpireToken, Unlock, History
  <2>2. /\ history'.streak = IF history.streak # None /\ req[r].fresh
                             THEN history.streak + 1 ELSE None
        /\ account' = [failed |-> req[r].failed + 1, locked |-> Locks(req[r].failed + 1)]
        /\ req[r].op = "login"
    BY <2>0, <2>1 DEF FailLogin, History
  <2>3. history.streak = account.failed /\ req[r].failed = account.failed
    BY <2>2 DEF IInv, Counted, Believes
  <2> QED
    BY <2>2, <2>3 DEF Locks
<1> QED
  BY <1>1, InitInv, NextInv, PTL DEF Spec, LockedAtLimit

\* selfLogin: a lock ends by time or a new password, or by a login that had read the
\* account before it was locked.
THEOREM LockStays == Spec => LockHolds
<1>1. IInv /\ [Next]_vars =>
        [account.locked /\ ~account'.locked =>
            \A r \in Requests : req[r].op = "login" /\ req'[r] = Idle => ~req[r].fresh]_vars
  <2> SUFFICES ASSUME IInv, Next, account.locked, NEW r \in Requests,
                      req[r].op = "login", req'[r] = Idle, ~account'.locked
               PROVE  ~req[r].fresh
    BY DEF vars
  <2> QED
    BY DEF IInv, Believes
<1> QED
  BY <1>1, InitInv, NextInv, PTL DEF Spec, LockHolds
=============================================================================

------------------------------- MODULE Sessions -------------------------------
(***************************************************************************)
(* The sessions of one account: auth.service.ts, session-cleanup.service.ts*)
(* and the suspension and removal of an account in user.service.ts.        *)
(*                                                                         *)
(* A request reads the account or a session row, decides, and writes later *)
(* what it decided; in between other requests, an administrator and the    *)
(* passing of time may change both.  Whether a password, a code, a token   *)
(* or an mToken is right is left to Credentials: here every request has it.*)
(***************************************************************************)
EXTENDS Naturals

CONSTANTS
    SessionIds,   \* ids user_sessions rows can take; a purged row frees its id
    Requests,     \* requests on this account in flight at one time
    None,         \* no session
    MaxChanges    \* bound: how often the password changes

ASSUME NoneIsNull == None \notin SessionIds \cup Requests \cup Nat
ASSUME MaxChangesType == MaxChanges \in Nat

VARIABLES
    account,   \* the system_users row
    session,   \* user_sessions rows
    req        \* what each request in flight has read so far

vars == <<account, session, req>>

\* "password" counts the changes of the password.
Account == [active: BOOLEAN, mustChange: BOOLEAN, password: 0 .. MaxChanges]

\* All but state and expired is history: the session a refresh rotated into this
\* one; the password its holder proved or set last, None if the session, or one it
\* descends from, was opened by a request whose reads were out of date by then; and
\* whether its token was presented again after the session was revoked.
SessionRow == [state: {"none", "live", "revoked"}, expired: BOOLEAN,
               parent: SessionIds \cup {None}, password: (0 .. MaxChanges) \cup {None},
               replayed: BOOLEAN]

NoRow == [state |-> "none", expired |-> FALSE, parent |-> None, password |-> None,
          replayed |-> FALSE]

Ops == {"none", "login", "refresh", "logout", "change", "reset", "suspend"}
Stages == {"idle",     \* no request
           "opened",   \* refresh has read the session, not yet its account
           "replay",   \* refresh has found the session revoked
           "ready",    \* every guard passed
           "rotated"}  \* refresh has revoked the session it replaces

\* "password" is history: the password a login or refresh stands for, None once
\* somebody has written the account or the session it has read.
Request == [op: Ops, stage: Stages, session: SessionIds \cup {None},
            revoked: BOOLEAN, password: (0 .. MaxChanges) \cup {None}]

Idle == [op |-> "none", stage |-> "idle", session |-> None, revoked |-> FALSE,
         password |-> None]

TypeOK ==
    /\ account \in Account
    /\ session \in [SessionIds -> SessionRow]
    /\ req \in [Requests -> Request]

Live == {s \in SessionIds : session[s].state = "live"}

\* A session the guard accepts.
Usable == {s \in Live : ~session[s].expired}

Init ==
    /\ account \in [active: {TRUE}, mustChange: BOOLEAN, password: {0}]
    /\ session = [s \in SessionIds |-> NoRow]
    /\ req = [r \in Requests |-> Idle]
-----------------------------------------------------------------------------
(* Reads. *)

Enter(r, q) == req' = [req EXCEPT ![r] = q]

\* tangRatLogin and selfLogin check the account they have read.  One that must
\* change its password gets no session but a token to do so with.
ReadAccount(r) ==
    /\ req[r] = Idle
    /\ account.active
    /\ Enter(r, [Idle EXCEPT !.op = IF account.mustChange THEN "change" ELSE "login",
                             !.stage = "ready", !.password = account.password])
    /\ UNCHANGED <<account, session>>

\* JwtAuthGuard, before the handlers of logout and change-password.
Authenticate(r, op, s) ==
    /\ req[r] = Idle
    /\ op \in {"logout", "change"}
    /\ s \in Usable
    /\ Enter(r, [Idle EXCEPT !.op = op, !.stage = "ready", !.session = s])
    /\ UNCHANGED <<account, session>>

\* refresh reads the session its token names ...
ReadSession(r, s) ==
    /\ req[r] = Idle
    /\ session[s].state # "none"
    /\ Enter(r, [Idle EXCEPT !.op = "refresh", !.stage = "opened", !.session = s,
                             !.revoked = session[s].state = "revoked",
                             !.password = session[s].password])
    /\ UNCHANGED <<account, session>>

\* Faulty variant: refresh does not look at the account.
LoadAccountUnchecked(r) ==
    LET q == req[r]
    IN  /\ q.stage = "opened"
        /\ Enter(r, IF q.revoked THEN [q EXCEPT !.stage = "replay"]
                    ELSE IF session[q.session].expired THEN Idle
                    ELSE [q EXCEPT !.stage = "ready"])
        /\ UNCHANGED <<account, session>>

\* ... and then, by the include, the account.
LoadAccount(r) ==
    LET q == req[r]
    IN  /\ q.stage = "opened"
        /\ Enter(r, IF q.revoked THEN [q EXCEPT !.stage = "replay"]
                    ELSE IF session[q.session].expired \/ ~account.active THEN Idle
                    ELSE [q EXCEPT !.stage = "ready"])
        /\ UNCHANGED <<account, session>>

\* resetPassword has read a reset token, an administrator asks for a suspension.
Receive(r, op) ==
    /\ req[r] = Idle
    /\ op \in {"reset", "suspend"}
    /\ Enter(r, [Idle EXCEPT !.op = op, !.stage = "ready"])
    /\ UNCHANGED <<account, session>>
-----------------------------------------------------------------------------
(* Writes. *)

\* Request r goes on as n; the others' copies of the written rows are stale.
Continue(r, n, all, rows) ==
    req' = [q \in Requests |->
              IF q = r THEN n
              ELSE IF all \/ req[q].session \in rows THEN [req[q] EXCEPT !.password = None]
              ELSE req[q]]

Ready(r, op) == req[r].op = op /\ req[r].stage = "ready"

\* What updateMany makes of the sessions it selects.
Revoke(S) == [s \in SessionIds |-> IF s \in S THEN [session[s] EXCEPT !.state = "revoked"]
                                   ELSE session[s]]

\* Faulty variant: the session that is replaced stays valid.
RotateNothing(r) ==
    /\ Ready(r, "refresh")
    /\ Enter(r, [req[r] EXCEPT !.stage = "rotated"])
    /\ UNCHANGED <<account, session>>

Rotate(r) ==
    LET q == req[r]
    IN  /\ Ready(r, "refresh")
        /\ session' = Revoke({q.session})
        /\ Continue(r, [q EXCEPT !.stage = "rotated"], FALSE, {q.session})
        /\ UNCHANGED account

\* The row request q creates.
Opened(q) == [NoRow EXCEPT !.state = "live", !.parent = q.session, !.password = q.password]

\* createSession, for a login or after a rotation.
OpenSession(r) ==
    /\ Ready(r, "login") \/ req[r].stage = "rotated"
    /\ \E s \in SessionIds :
          /\ session[s].state = "none"
          /\ session' = [session EXCEPT ![s] = Opened(req[r])]
    /\ Enter(r, Idle)
    /\ UNCHANGED account

\* Faulty variant: only the session of the token is revoked, again.
RevokeOne(r) ==
    LET s == req[r].session
    IN  /\ req[r].stage = "replay"
        /\ session' = [Revoke({s}) EXCEPT ![s].replayed = TRUE]
        /\ Continue(r, Idle, FALSE, {s})
        /\ UNCHANGED account

\* A token that was used before: every session of the account is revoked.
RevokeAll(r) ==
    LET s == req[r].session
        hit == Live
    IN  /\ req[r].stage = "replay"
        /\ session' = [Revoke(hit) EXCEPT ![s].replayed = TRUE]
        /\ Continue(r, Idle, FALSE, hit \cup {s})
        /\ UNCHANGED account

\* logout writes the row without asking whether it was revoked meanwhile.
Logout(r) ==
    LET s == req[r].session
    IN  /\ Ready(r, "logout")
        /\ session' = Revoke({s})
        /\ Continue(r, Idle, FALSE, {s})
        /\ UNCHANGED account

\* A new password; every live session but s is revoked, and s is from now on
\* held by whoever set the new password.
NewPassword(s) ==
    /\ account.password < MaxChanges
    /\ account' = [account EXCEPT !.mustChange = FALSE, !.password = @ + 1]
    /\ session' = [x \in SessionIds |->
                     IF x = s
                     THEN [session[x] EXCEPT !.password =
                             IF session[x].password = None THEN None ELSE account.password + 1]
                     ELSE Revoke(Live)[x]]

\* changePassword, with the token of a session or of a login that must change it.
ChangePassword(r) ==
    /\ Ready(r, "change")
    /\ NewPassword(req[r].session)
    /\ Continue(r, Idle, TRUE, {})

\* The transaction of resetPassword.
ResetPassword(r) ==
    /\ Ready(r, "reset")
    /\ NewPassword(None)
    /\ Continue(r, Idle, TRUE, {})

\* suspend and remove; nothing makes an account active again.
Suspend(r) ==
    /\ Ready(r, "suspend")
    /\ account' = [account EXCEPT !.active = FALSE]
    /\ session' = Revoke(Live)
    /\ Continue(r, Idle, TRUE, {})

\* expiresAt passes.
Expire(s) ==
    /\ session[s].state # "none"
    /\ ~session[s].expired
    /\ session' = [session EXCEPT ![s].expired = TRUE]
    /\ UNCHANGED <<account, req>>

\* The hourly clean-up deletes rows that expired thirty days ago; no request is
\* in flight that long.
Purge(s) ==
    /\ session[s].expired
    /\ \A r \in Requests : req[r].session # s
    /\ session' = [x \in SessionIds |->
                     IF x = s THEN NoRow
                     ELSE [session[x] EXCEPT !.parent = IF @ = s THEN None ELSE @]]
    /\ UNCHANGED <<account, req>>

\* A database error or the end of the process between two statements.
Abort(r) ==
    /\ req[r] # Idle
    /\ Enter(r, Idle)
    /\ UNCHANGED <<account, session>>

Proceed(r) ==
    \/ LoadAccount(r)
    \/ Rotate(r)
    \/ OpenSession(r)
    \/ RevokeAll(r)
    \/ Logout(r)
    \/ ChangePassword(r)
    \/ ResetPassword(r)
    \/ Suspend(r)
    \/ Abort(r)

Next ==
    \/ \E r \in Requests : ReadAccount(r) \/ Proceed(r) \/ \E op \in Ops : Receive(r, op)
    \/ \E r \in Requests, s \in SessionIds :
          ReadSession(r, s) \/ \E op \in Ops : Authenticate(r, op, s)
    \/ \E s \in SessionIds : Expire(s) \/ Purge(s)

Spec == Init /\ [][Next]_vars

\* A request in flight is answered or dies, and time passes.
FairSpec ==
    /\ Spec
    /\ \A r \in Requests : WF_vars(Proceed(r))
    /\ \A s \in SessionIds : WF_vars(Expire(s))
-----------------------------------------------------------------------------
(* What holds however the requests interleave. *)

\* A session that replaces another exists only once that other is revoked: at no
\* moment are the old and the new refresh token both good.
ParentRevoked ==
    \A s \in SessionIds : session[s].parent # None =>
        session[session[s].parent].state = "revoked"

Successors(p) == {s \in SessionIds : session[s].parent = p}

\* Opened, or descended from one opened, on reads that were out of date by then.
Slipped(s) == session[s].password = None

\* A session that is good belongs to an active account and to its current password,
\* and is the one successor of a session whose token was not presented again.  The
\* only way round suspension, a new password, replay detection and single use is a
\* request that had read the account or its session before and wrote after.
Justified ==
    \A s \in Live \ {x \in SessionIds : Slipped(x)} :
        /\ account.active
        /\ session[s].password = account.password
        /\ session[s].parent # None =>
              /\ ~session[session[s].parent].replayed
              /\ \A x \in Successors(session[s].parent) : x = s \/ Slipped(x)

\* Suspending an account takes effect for good even if a session slipped through:
\* it cannot be renewed for ever.
SuspensionTakesEffect == [](~account.active => <>[](Usable = {}))
=============================================================================

------------------------------ MODULE Credentials ------------------------------
(***************************************************************************)
(* How an account is proved to auth.service.ts: the counter of failed      *)
(* logins and its lock, the tokens that reset a password, and the account  *)
(* made for an mToken identity at its first login.  What a login opens is  *)
(* in Sessions.                                                            *)
(*                                                                         *)
(* bcrypt takes its time between the read of an account or token and the   *)
(* write, so requests on one account overlap easily.                       *)
(***************************************************************************)
EXTENDS Naturals, FiniteSets

CONSTANTS
    Requests,    \* requests in flight at one time
    Limit,       \* failed logins that lock the account, 5 in the code
    MaxFailed,   \* bound: where the counter is not counted any further
    Tokens,      \* ids password_reset_tokens rows can take
    Users,       \* ids of the accounts that can be made for the identity
    None

ASSUME LimitType == Limit \in Nat \ {0} /\ MaxFailed \in Nat /\ Limit <= MaxFailed
ASSUME NoneIsNull == None \notin Nat \cup Tokens \cup Users \cup Requests

VARIABLES
    account,   \* the account of an administrator
    token,     \* its password_reset_tokens rows
    users,     \* accounts made for one mToken identity
    link,      \* the account its auth_provider_links row names
    req,       \* what each request in flight has read
    history    \* looked at by no action

vars == <<account, token, users, link, req, history>>

Ops == {"none", "login", "reset", "mtoken"}
Stages == {"idle",
           "ready",    \* the row is read and every check passed
           "created"}  \* the account is made, its link is not

\* "fresh" is history: nobody has written since what the request has read.
Request == [op: Ops, stage: Stages, failed: 0 .. MaxFailed, token: Tokens \cup {None},
            user: Users \cup {None}, fresh: BOOLEAN]

Idle == [op |-> "none", stage |-> "idle", failed |-> 0, token |-> None, user |-> None,
         fresh |-> TRUE]

\* streak: failed logins in a row, None if one of them did not count;
\* uses, slips: how often a token set a password, and did so on an outdated read;
\* answered: accounts the identity was logged in to; lost: accounts of requests that
\* failed after making them.
History == [streak: (0 .. MaxFailed) \cup {None}, uses: [Tokens -> Nat],
            slips: [Tokens -> Nat], answered: SUBSET Users, lost: SUBSET Users]

TypeOK ==
    /\ account \in [failed: 0 .. MaxFailed, locked: BOOLEAN]
    /\ token \in [Tokens -> {"none", "good", "used", "expired"}]
    /\ users \subseteq Users
    /\ link \in users \cup {None}
    /\ req \in [Requests -> Request]
    /\ history \in History

Init ==
    /\ account = [failed |-> 0, locked |-> FALSE]
    /\ token = [k \in Tokens |-> "none"]
    /\ users = {}
    /\ link = None
    /\ req = [r \in Requests |-> Idle]
    /\ history = [streak |-> 0, uses |-> [k \in Tokens |-> 0], slips |-> [k \in Tokens |-> 0],
                  answered |-> {}, lost |-> {}]

Enter(r, q) == req[r] = Idle /\ req' = [req EXCEPT ![r] = q]

\* Request r ends; the other requests of the same kind have read what it wrote.
Done(r) ==
    req' = [q \in Requests |->
              IF q = r THEN Idle
              ELSE [req[q] EXCEPT !.fresh = @ /\ ~(req[q].op = req[r].op
                                                   /\ req[q].token = req[r].token)]]
-----------------------------------------------------------------------------
(* selfLogin *)

\* Faulty variant: the lock is not asked.
ReadAnyAccount(r) ==
    /\ Enter(r, [Idle EXCEPT !.op = "login", !.stage = "ready", !.failed = account.failed])
    /\ UNCHANGED <<account, token, users, link, history>>

ReadAccount(r) ==
    /\ ~account.locked
    /\ Enter(r, [Idle EXCEPT !.op = "login", !.stage = "ready", !.failed = account.failed])
    /\ UNCHANGED <<account, token, users, link, history>>

\* Faulty variant: the account is locked one failure too late.
LocksLate(attempts) == attempts > Limit

Locks(attempts) == attempts >= Limit

\* A password or code is wrong.  The counter is not increased but set.
FailLogin(r) ==
    LET attempts == req[r].failed + 1
    IN  /\ req[r].op = "login"
        /\ attempts <= MaxFailed
        /\ account' = [failed |-> attempts, locked |-> Locks(attempts)]
        /\ history' = [history EXCEPT !.streak = IF @ # None /\ req[r].fresh THEN @ + 1 ELSE None]
        /\ Done(r)
        /\ UNCHANGED <<token, users, link>>

\* Both are right.
PassLogin(r) ==
    /\ req[r].op = "login"
    /\ account' = [failed |-> 0, locked |-> FALSE]
    /\ history' = [history EXCEPT !.streak = 0]
    /\ Done(r)
    /\ UNCHANGED <<token, users, link>>

\* changePassword, which reads nothing of the account, clears the counter too.
ChangePassword ==
    /\ account' = [failed |-> 0, locked |-> FALSE]
    /\ history' = [history EXCEPT !.streak = 0]
    /\ req' = [q \in Requests |-> [req[q] EXCEPT !.fresh = @ /\ req[q].op # "login"]]
    /\ UNCHANGED <<token, users, link>>

\* Fifteen minutes later the lock is over; the counter stays.
Unlock ==
    /\ account.locked
    /\ account' = [account EXCEPT !.locked = FALSE]
    /\ UNCHANGED <<token, users, link, req, history>>
-----------------------------------------------------------------------------
(* forgotPassword and resetPassword *)

\* Another token may be good still.  The row of a token that is of no use to anyone
\* stands for the new one.
Forgot(k) ==
    /\ token[k] # "good"
    /\ \A r \in Requests : req[r].token # k
    /\ token' = [token EXCEPT ![k] = "good"]
    /\ history' = [history EXCEPT !.uses[k] = 0, !.slips[k] = 0]
    /\ UNCHANGED <<account, users, link, req>>

\* Faulty variant: usedAt is not asked.
ReadAnyToken(r, k) ==
    /\ token[k] \in {"good", "used"}
    /\ Enter(r, [Idle EXCEPT !.op = "reset", !.stage = "ready", !.token = k])
    /\ UNCHANGED <<account, token, users, link, history>>

ReadToken(r, k) ==
    /\ token[k] = "good"
    /\ Enter(r, [Idle EXCEPT !.op = "reset", !.stage = "ready", !.token = k])
    /\ UNCHANGED <<account, token, users, link, history>>

\* The transaction names the token by id and does not ask for usedAt again.
Reset(r) ==
    LET k == req[r].token
    IN  /\ req[r].op = "reset"
        /\ token' = [token EXCEPT ![k] = "used"]
        /\ history' = [history EXCEPT !.uses[k] = @ + 1,
                                      !.slips[k] = IF req[r].fresh THEN @ ELSE @ + 1]
        /\ Done(r)
        /\ UNCHANGED <<account, users, link>>

ExpireToken(k) ==
    /\ token[k] = "good"
    /\ token' = [token EXCEPT ![k] = "expired"]
    /\ UNCHANGED <<account, users, link, req, history>>
-----------------------------------------------------------------------------
(* tangRatLogin *)

\* The link, if there is one, names the account.
FindLink(r) ==
    /\ Enter(r, [Idle EXCEPT !.op = "mtoken", !.stage = "ready", !.user = link])
    /\ UNCHANGED <<account, token, users, link, history>>

CreateUser(r) ==
    /\ req[r].op = "mtoken" /\ req[r].stage = "ready" /\ req[r].user = None
    /\ \E u \in Users \ users :
          /\ users' = users \cup {u}
          /\ req' = [req EXCEPT ![r].stage = "created", ![r].user = u]
    /\ UNCHANGED <<account, token, link, history>>

\* Faulty variant: the second link replaces the first.
CreateLinkAnyway(r) ==
    /\ req[r].stage = "created"
    /\ link' = req[r].user
    /\ req' = [req EXCEPT ![r].stage = "ready"]
    /\ UNCHANGED <<account, token, users, history>>

\* Identities are linked once: the second link violates the unique key.
CreateLink(r) ==
    /\ req[r].stage = "created"
    /\ link = None
    /\ link' = req[r].user
    /\ req' = [req EXCEPT ![r].stage = "ready"]
    /\ UNCHANGED <<account, token, users, history>>

\* The login times are updated and a session is created for the account.
Answer(r) ==
    /\ req[r].op = "mtoken" /\ req[r].stage = "ready" /\ req[r].user # None
    /\ history' = [history EXCEPT !.answered = @ \cup {req[r].user}]
    /\ req' = [req EXCEPT ![r] = Idle]
    /\ UNCHANGED <<account, token, users, link>>

\* Faulty variant: the request starts over and makes another account.
TryAgain(r) ==
    /\ req[r].stage = "created"
    /\ req' = [req EXCEPT ![r].stage = "ready", ![r].user = None]
    /\ UNCHANGED <<account, token, users, link, history>>

\* The unique key, a database error, the end of the process; what was written stays.
Abort(r) ==
    /\ req[r] # Idle
    /\ req' = [req EXCEPT ![r] = Idle]
    /\ history' = [history EXCEPT !.lost = IF req[r].stage = "created" THEN @ \cup {req[r].user}
                                           ELSE @]
    /\ UNCHANGED <<account, token, users, link>>

Next ==
    \/ \E r \in Requests : \/ ReadAccount(r) \/ FailLogin(r) \/ PassLogin(r)
                           \/ Reset(r)
                           \/ FindLink(r) \/ CreateUser(r) \/ CreateLink(r) \/ Answer(r)
                           \/ Abort(r)
    \/ \E r \in Requests, k \in Tokens : ReadToken(r, k)
    \/ \E k \in Tokens : Forgot(k) \/ ExpireToken(k)
    \/ ChangePassword
    \/ Unlock

Spec == Init /\ [][Next]_vars
-----------------------------------------------------------------------------
\* Limit failed logins in a row lock the account, and from then on so does every
\* further one, unless a login among them had read the account before another
\* wrote it: lost updates are the only way round the limit.
LockedAtLimit ==
    [][history'.streak \notin {None, history.streak} /\ history'.streak # 0 =>
          /\ account'.failed = history'.streak
          /\ account'.locked <=> history'.streak >= Limit]_vars

\* A lock ends by time or a new password, unless a login was under way that had read
\* the account before it was locked.
LockHolds ==
    [][account.locked /\ ~account'.locked =>
          \A r \in Requests : req[r].op = "login" /\ req'[r] = Idle => ~req[r].fresh]_vars

\* IMPLEMENTATION_GUIDE_1.md:616, "single-use token check": a token sets one password,
\* and one more for every request that had read it before its first use.
SingleUse == \A k \in Tokens : history.uses[k] <= 1 + history.slips[k]

\* Whoever logs in with an identity gets the account it is linked to, first logins
\* that race and die included.
OneAccount == history.answered \subseteq {link}

\* An account made for the identity is the linked one, or a request is about to link
\* it, or its request failed: the two statements leave nothing else behind.
NoStrays ==
    users \ {link} \subseteq history.lost \cup
        {req[r].user : r \in {x \in Requests : req[x].stage = "created"}}
=============================================================================

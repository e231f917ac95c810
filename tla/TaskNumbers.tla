----------------------------- MODULE TaskNumbers -----------------------------
(***************************************************************************)
(* How createTask of inspection.service.ts numbers the tasks of one year.  *)
(*                                                                         *)
(* A transaction reads the greatest taskNo, adds one and inserts; taskNo   *)
(* is unique, and a request that collides starts over, a bounded number of *)
(* times.  The numbers are strings, "T-2026-" and at least four digits,    *)
(* and the greatest one is the greatest STRING.                            *)
(***************************************************************************)
EXTENDS Naturals

CONSTANTS
    Requests,     \* createTask requests that can be in flight at one time
    Radix,        \* 10: the base the number is written in
    Limit,        \* 9999: the greatest number that has the padded width
    MaxAttempts   \* 10: times a request tries to insert

ASSUME WidthAssumption ==
    /\ Radix \in Nat \ {0} /\ Limit \in Nat \ {0}
    /\ (Limit + 1) \div Radix < Limit
ASSUME MaxAttemptsAssumption == MaxAttempts \in Nat \ {0}

VARIABLES
    issued,    \* numbers of the committed tasks
    notified,  \* numbers the assignee was sent a notification about
    made,      \* history: how many tasks were committed
    req        \* the loop of each request

vars == <<issued, notified, made, req>>

Stages == {"idle",      \* no request
           "looping",   \* at the head of the loop
           "drawn",     \* has read the last number and computed the next
           "inserted"}  \* its row is inserted, the transaction is open

\* "begin" is a history variable: the tasks committed when the request came in.
Request == [stage: Stages, attempt: 0 .. MaxAttempts - 1, number: Nat, begin: Nat]

Idle == [stage |-> "idle", attempt |-> 0, number |-> 0, begin |-> 0]

TypeOK ==
    /\ issued \subseteq Nat
    /\ notified \subseteq Nat
    /\ made \in Nat
    /\ req \in [Requests -> Request]

Init ==
    /\ issued = {}
    /\ notified = {}
    /\ made = 0
    /\ req = [r \in Requests |-> Idle]
-----------------------------------------------------------------------------
(* The order of the strings: a number of one digit more than the padding is *)
(* compared by its leading digits first.                                    *)

Leading(n) == IF n <= Limit THEN n ELSE n \div Radix

Above(m, n) ==
    \/ Leading(m) > Leading(n)
    \/ Leading(m) = Leading(n) /\ m > n

\* orderBy: { taskNo: 'desc' }, and 0 where there is none.
LastTaskNo ==
    IF issued = {} THEN 0
    ELSE CHOOSE n \in issued : \A m \in issued \ {n} : Above(n, m)

\* slice(-4) keeps the digits of the padded width.
NextTaskNo == (LastTaskNo % (Limit + 1)) + 1

\* The request is past its checks of business, assignee and license.
Admit(r) ==
    /\ req[r] = Idle
    /\ req' = [req EXCEPT ![r] = [Idle EXCEPT !.stage = "looping", !.begin = made]]
    /\ UNCHANGED <<issued, notified, made>>

\* Faulty variant: the last number is read once, before the loop.
DrawOnce(r) ==
    /\ req[r].stage = "looping"
    /\ req' = [req EXCEPT ![r] =
                 [@ EXCEPT !.stage = "drawn",
                           !.number = IF req[r].attempt = 0 THEN NextTaskNo ELSE @]]
    /\ UNCHANGED <<issued, notified, made>>

Draw(r) ==
    /\ req[r].stage = "looping"
    /\ req' = [req EXCEPT ![r] = [@ EXCEPT !.stage = "drawn", !.number = NextTaskNo]]
    /\ UNCHANGED <<issued, notified, made>>

\* The index entry of a row that is not committed makes others wait for it.
Waits(r) ==
    \E q \in Requests : req[q].stage = "inserted" /\ req[q].number = req[r].number

\* Faulty variant: taskNo is not unique.
InsertAgain(r) ==
    /\ req[r].stage = "drawn"
    /\ req' = [req EXCEPT ![r] = [@ EXCEPT !.stage = "inserted"]]
    /\ UNCHANGED <<issued, notified, made>>

Insert(r) ==
    /\ req[r].stage = "drawn"
    /\ ~Waits(r)
    /\ req[r].number \notin issued
    /\ req' = [req EXCEPT ![r] = [@ EXCEPT !.stage = "inserted"]]
    /\ UNCHANGED <<issued, notified, made>>

LastAttempt(r) == req[r].attempt = MaxAttempts - 1

\* Faulty variant: the attempts are not counted.
CollideForever(r) ==
    /\ req[r].stage = "drawn"
    /\ req[r].number \in issued
    /\ req' = [req EXCEPT ![r] = [@ EXCEPT !.stage = "looping"]]
    /\ UNCHANGED <<issued, notified, made>>

\* P2002: the transaction rolls back; the request tries again or fails.
Collide(r) ==
    /\ req[r].stage = "drawn"
    /\ req[r].number \in issued
    /\ req' = [req EXCEPT ![r] =
                 IF LastAttempt(r) THEN Idle
                 ELSE [@ EXCEPT !.stage = "looping", !.attempt = req[r].attempt + 1]]
    /\ UNCHANGED <<issued, notified, made>>

\* The notification is created and both rows are committed.
Commit(r) ==
    /\ req[r].stage = "inserted"
    /\ issued' = issued \cup {req[r].number}
    /\ notified' = notified \cup {req[r].number}
    /\ made' = made + 1
    /\ req' = [req EXCEPT ![r] = Idle]

\* Any other error, a transaction that took too long, or the end of the process:
\* the transaction rolls back.
Abort(r) ==
    /\ req[r] # Idle
    /\ req' = [req EXCEPT ![r] = Idle]
    /\ UNCHANGED <<issued, notified, made>>

Work(r) == Draw(r) \/ Insert(r) \/ Collide(r) \/ Commit(r)

Next == \E r \in Requests : Admit(r) \/ Work(r) \/ Abort(r)

Spec == Init /\ [][Next]_vars

\* The database answers a statement or the client's timeout ends the transaction.
FairSpec == Spec /\ \A r \in Requests : WF_vars(Work(r) \/ Abort(r))
-----------------------------------------------------------------------------
\* The tasks of a year are numbered 1, 2, 3, ... without a gap or a duplicate,
\* however many requests draw the same number at the same time and whichever of
\* them fail; and the assignee of each is told.
Gapless == issued = 1 .. made /\ notified = issued

\* A request fails with a collision only after MaxAttempts other tasks were
\* created while it ran: ten requests at once are all served.  The year that has
\* run out of numbers is the exception.
RetriesSuffice ==
    \A r \in Requests :
        req[r].stage = "drawn" /\ req[r].number \in issued /\ LastAttempt(r) =>
            made >= req[r].begin + MaxAttempts \/ made > Limit

\* Every request ends: nobody collides forever or waits for another for good.
Answered == \A r \in Requests : req[r].stage # "idle" ~> req[r].stage = "idle"
=============================================================================

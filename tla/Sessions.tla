------------------------------ MODULE Sessions ------------------------------
(***************************************************************************)
(* Accounts and sign-in sessions: services/auth.py, services/users.py,     *)
(* auth_deps.py and the routes of routers/auth.py and routers/users.py.    *)
(* No row is locked: a sign-in checks the password, sweeps, inserts its    *)
(* session and answers with the role in four steps; a role change, reset   *)
(* or archive deletes the sessions it sees, then writes the account, and   *)
(* both become visible together at its commit.                             *)
(***************************************************************************)
EXTENDS Integers, FiniteSets, FiniteSetsExt

CONSTANTS Threads, None,
          Users,      \* people, with the rank each starts at
          StartRank,
          Owner,      \* the highest rank
          Sends,      \* the requests each thread carries
          Lifetime,   \* ticks a session lives
          MaxNow, MaxSessions, MaxEpoch   \* bounds

VARIABLES now,
          account,  \* users rows; epoch counts what must end their sessions
          session,  \* sessions: row or None by id
          job,
          crossed   \* people a sign-in and a change of whom overlapped

vars == <<now, account, session, job, crossed>>

Ids == 1 .. MaxSessions
Rows == {i \in Ids : session[i] # None}
Ranks == 0 .. Owner
Idle == [phase |-> "idle"]
Present(u) == ~account[u].deleted
Active(u) == Present(u) /\ ~account[u].archived

AccountRows == [rank : Ranks, archived : BOOLEAN, deleted : BOOLEAN, cited : BOOLEAN,
                epoch : 0 .. MaxEpoch]
SessionRows == [user : Users, expires : 0 .. (MaxNow + Lifetime), epoch : 0 .. MaxEpoch,
                shown : Ranks \cup {None}]

TypeOK ==
    /\ now \in 0 .. MaxNow
    /\ account \in [Users -> AccountRows]
    /\ \A i \in Rows : session[i] \in SessionRows
    /\ crossed \subseteq Users

Init ==
    /\ now = 0
    /\ account = [u \in Users |-> [rank |-> StartRank[u], archived |-> FALSE, deleted |-> FALSE,
                                   cited |-> FALSE, epoch |-> 0]]
    /\ session = [i \in Ids |-> None]
    /\ job = [t \in Threads |-> Idle]
    /\ crossed = {}

-----------------------------------------------------------------------------
(* Ranks, and who a request acts for.                                      *)

\* Seeded fault: an equal rank is enough.
CanManage_Equal(actor, target) == actor >= target

CanManage(actor, target) == actor > target

\* _resolve_active_session: within the cap, and not of an archived user.
Resolves(i) == now <= session[i].expires /\ Active(session[i].user)

Acting == {session[i].user : i \in {i \in Rows : Resolves(i)}}

Changes == {"role", "reset", "archive", "delete"}

\* Somebody's sign-in and a change of his account are under way together.
Meets(u, o) ==
    \E t \in Threads : /\ job[t].phase # "idle" /\ job[t].user = u
                       /\ (job[t].op = "signIn") # (o = "signIn")

-----------------------------------------------------------------------------
(* Signing in.                                                             *)

\* authenticate accepts the password of an account that is not archived.
Authenticate(t) ==
    /\ job[t].phase = "idle" /\ "signIn" \in Sends[t]
    /\ \E u \in Users :
        /\ Active(u)
        /\ job' = [job EXCEPT ![t] = [phase |-> "sweep", op |-> "signIn", user |-> u,
                                      epoch |-> account[u].epoch]]
        /\ crossed' = IF Meets(u, "signIn") THEN crossed \cup {u} ELSE crossed
    /\ UNCHANGED <<now, account, session>>

\* sweep_expired_sessions, a commit of its own.
Sweep(t) ==
    /\ job[t].phase = "sweep"
    /\ session' = [i \in Ids |-> IF i \in Rows /\ session[i].expires <= now THEN None
                                 ELSE session[i]]
    /\ job' = [job EXCEPT ![t].phase = "open"]
    /\ UNCHANGED <<now, account, crossed>>

\* The insert; its foreign key refuses a user deleted since.
Open(t) ==
    /\ job[t].phase = "open"
    /\ LET u == job[t].user IN
       IF Present(u)
       THEN /\ Rows # Ids
            /\ LET i == Min(Ids \ Rows) IN
               /\ session' = [session EXCEPT ![i] =
                    [user |-> u, expires |-> now + Lifetime, epoch |-> job[t].epoch,
                     shown |-> None]]
               /\ job' = [job EXCEPT ![t] = [phase |-> "respond", op |-> "signIn", user |-> u,
                                             id |-> i]]
       ELSE job' = [job EXCEPT ![t] = Idle] /\ UNCHANGED session
    /\ UNCHANGED <<now, account, crossed>>

\* The answer reads the row again: the commit expired it.
Shown(t) == account[job[t].user].rank

Respond(t) ==
    /\ job[t].phase = "respond"
    /\ session' = [i \in Ids |-> IF i \in Rows /\ i = job[t].id /\ session[i].shown = None
                                    /\ session[i].user = job[t].user
                                 THEN [session[i] EXCEPT !.shown = Shown(t)] ELSE session[i]]
    /\ job' = [job EXCEPT ![t] = Idle]
    /\ UNCHANGED <<now, account, crossed>>

\* A request: a session past its cap is deleted, otherwise its user acts.
\* Signing out deletes it too.
EndSession(i) ==
    /\ now > session[i].expires \/ Resolves(i)
    /\ session' = [session EXCEPT ![i] = None]
    /\ UNCHANGED <<now, account, job, crossed>>

-----------------------------------------------------------------------------
(* Managing a subordinate.                                                 *)

\* The route reads the actor, then the target, and refuses unless the actor
\* outranks the target, and the rank to be assigned.
Manage(t) ==
    /\ job[t].phase = "idle"
    /\ \E o \in Sends[t] \cap Changes, a \in Acting, u \in Users, k \in Ranks :
        /\ Present(u)
        /\ CanManage(account[a].rank, account[u].rank)
        /\ IF o = "role" THEN CanManage(account[a].rank, k) ELSE k = 0
        /\ account[u].epoch < MaxEpoch
        /\ job' = [job EXCEPT ![t] = [phase |-> "revoke", op |-> o, user |-> u, rank |-> k]]
        /\ crossed' = IF Meets(u, o) THEN crossed \cup {u} ELSE crossed
    /\ UNCHANGED <<now, account, session>>

SessionsOf(u) == {i \in Rows : session[i].user = u}

\* Seeded fault: a role change leaves the sessions alone.
Revoked_NotForRole(t) == IF job[t].op = "role" THEN {} ELSE SessionsOf(job[t].user)

\* revoke_user_sessions: the rows its DELETE sees.
Revoked(t) == SessionsOf(job[t].user)

Revoke(t) ==
    /\ job[t].phase = "revoke"
    /\ job' = [job EXCEPT ![t] = [phase |-> "commit", op |-> @.op, user |-> @.user,
                                  rank |-> @.rank, ends |-> Revoked(t)]]
    /\ UNCHANGED <<now, account, session, crossed>>

\* Hard deletion is refused while transactions cite the user, and cascades.
Commit(t) ==
    LET j == job[t]  u == j.user
        refused == ~Present(u) \/ (j.op = "delete" /\ account[u].cited)
        ends == IF j.op = "delete" THEN SessionsOf(u) ELSE j.ends
    IN
    /\ j.phase = "commit"
    /\ IF refused THEN UNCHANGED <<account, session>>
       ELSE /\ account[u].epoch < MaxEpoch
            /\ account' = [account EXCEPT
                 ![u].rank = IF j.op = "role" THEN j.rank ELSE @,
                 ![u].archived = @ \/ j.op = "archive",
                 ![u].deleted = j.op = "delete",
                 ![u].epoch = @ + 1]
            /\ session' = [i \in Ids |-> IF i \in ends \cap SessionsOf(u) THEN None
                                          ELSE session[i]]
    /\ job' = [job EXCEPT ![t] = Idle]
    /\ UNCHANGED <<now, crossed>>

\* Restoring: the check and the write, with nothing between them to miss.
Restore(u) ==
    /\ Present(u) /\ account[u].archived
    /\ \E a \in Acting : CanManage(account[a].rank, account[u].rank)
    /\ account' = [account EXCEPT ![u].archived = FALSE]
    /\ UNCHANGED <<now, session, job, crossed>>

\* A transaction cites its user for ever.
Cite(u) ==
    /\ u \in Acting /\ ~account[u].cited
    /\ account' = [account EXCEPT ![u].cited = TRUE]
    /\ UNCHANGED <<now, session, job, crossed>>

Tick == now < MaxNow /\ now' = now + 1 /\ UNCHANGED <<account, session, job, crossed>>

Next ==
    \/ Tick
    \/ \E t \in Threads : Authenticate(t) \/ Sweep(t) \/ Open(t) \/ Respond(t)
                          \/ Manage(t) \/ Revoke(t) \/ Commit(t)
    \/ \E i \in Rows : EndSession(i)
    \/ \E u \in Users : Restore(u) \/ Cite(u)

Spec == Init /\ [][Next]_vars

-----------------------------------------------------------------------------
(* Properties.                                                             *)

\* A session belongs to the account as it is now: no role change, reset,
\* archive or restore happened since its sign-in, unless the two overlapped.
SessionsAreCurrent ==
    \A i \in Rows : session[i].user \notin crossed =>
        session[i].epoch = account[session[i].user].epoch

\* The role a page was shown at sign-in is the role the server checks.
ShownRoleIsLive ==
    \A i \in Rows : session[i].user \notin crossed /\ session[i].shown # None =>
        session[i].shown = account[session[i].user].rank

\* Whatever overlaps, nobody becomes an Owner, and no Owner is changed.
OwnersAreFixed ==
    [][\A u \in Users :
        /\ account[u].rank = Owner => account'[u].rank = Owner /\ account'[u].archived = FALSE
                                      /\ ~account'[u].deleted
        /\ account'[u].rank = Owner => account[u].rank = Owner]_vars
=============================================================================

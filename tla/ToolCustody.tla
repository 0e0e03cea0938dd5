---------------------------- MODULE ToolCustody ----------------------------
(***************************************************************************)
(* Checkout, return, count correction and archiving of tools, and the      *)
(* archiving of the users who hold them, as concurrent requests split at   *)
(* their row locks.  A checkout locks the user and then the tool; a return *)
(* locks the tool, and its row refers to the user, so that writing it      *)
(* takes the foreign key's share of the user's row; a correction locks the *)
(* tool only; archiving a user locks the user, reads what he holds, and,   *)
(* when it is to force the tools in, locks those tools in no stated order  *)
(* and returns the balances it read.                                       *)
(*                                                                         *)
(* Custody is not stored: out is the sum over tool_transactions that every *)
(* custody query computes.  A thread serves at most one request.           *)
(***************************************************************************)
EXTENDS Integers

CONSTANTS Threads, Tools, Users,
          None,                 \* no thread, no tool, no user
          Ops,                  \* the operations in use
          Amounts,              \* the quantities a request may carry
          Opening,              \* every tool's shelf count at the start
          HeldAtStart           \* what a user may hold of a tool at the start

ToolOps == {"checkout", "return", "correct", "retire"}
UserOps == {"archive", "forceArchive"}

ASSUME ToolCustodyAssumption ==
    /\ None \notin Threads \cup Tools \cup Users
    /\ Ops \subseteq ToolOps \cup UserOps
    /\ Amounts \subseteq Nat \ {0} /\ Opening \in Nat /\ HeldAtStart \subseteq Nat

VARIABLES
    onHand,     \* tools.quantity
    out,        \* checkouts minus returns, per tool and user
    live,       \* tools.archived_at is NULL
    active,     \* users.archived_at is NULL
    ledger,     \* history: what the tool's rows add up to on the shelf
    toolLock, userLock,
    pc,         \* how far each thread's request has come
    job,        \* the request
    count,      \* the tool counts each session has read
    held        \* the balances each session archiving a user has read

vars == <<onHand, out, live, active, ledger, toolLock, userLock, pc, job, count, held>>
crib == <<onHand, out, live, active, ledger>>
locks == <<toolLock, userLock>>

Job == [op : ToolOps \cup UserOps, tool : Tools \cup {None}, user : Users \cup {None}, qty : Nat]
NoJob == [op |-> "return", tool |-> None, user |-> None, qty |-> 0]
NothingRead == [t \in Threads |-> [k \in Tools |-> 0]]

TypeOK ==
    /\ onHand \in [Tools -> Int] /\ ledger \in [Tools -> Int]
    /\ out \in [Tools -> [Users -> Int]]
    /\ live \in [Tools -> BOOLEAN] /\ active \in [Users -> BOOLEAN]
    /\ toolLock \in [Tools -> Threads \cup {None}]
    /\ userLock \in [Users -> Threads \cup {None}]
    /\ pc \in [Threads -> {"idle", "called", "user", "read", "locked", "done"}]
    /\ job \in [Threads -> Job]
    /\ count \in [Threads -> [Tools -> Int]] /\ held \in [Threads -> [Tools -> Nat]]
    /\ \A t \in Threads : pc[t] # "idle" =>
          /\ job[t].op \in ToolOps => job[t].tool \in Tools
          /\ job[t].op \notin {"correct", "retire"} => job[t].user \in Users

Init ==
    /\ onHand = [k \in Tools |-> Opening]
    /\ out \in [Tools -> [Users -> HeldAtStart]]
    /\ live = [k \in Tools |-> TRUE] /\ active = [u \in Users |-> TRUE]
    /\ ledger = [k \in Tools |-> 0]
    /\ toolLock = [k \in Tools |-> None] /\ userLock = [u \in Users |-> None]
    /\ pc = [t \in Threads |-> "idle"]
    /\ job = [t \in Threads |-> NoJob]
    /\ count = NothingRead /\ held = NothingRead

-----------------------------------------------------------------------------
\* The request arrives and takes its row locks.

Call(t, o, k, u, q) ==
    /\ pc[t] = "idle" /\ o \in Ops
    /\ pc' = [pc EXCEPT ![t] = "called"]
    /\ job' = [job EXCEPT ![t] = [op |-> o, tool |-> k, user |-> u, qty |-> q]]
    /\ UNCHANGED <<crib, locks, count, held>>

Doing(t, at, ops) == pc[t] = at /\ job[t].op \in ops

\* The end of a request, by commit or rollback: its row locks go.
Release(t) ==
    /\ pc' = [pc EXCEPT ![t] = "done"]
    /\ toolLock' = [k \in Tools |-> IF toolLock[k] = t THEN None ELSE toolLock[k]]
    /\ userLock' = [u \in Users |-> IF userLock[u] = t THEN None ELSE userLock[u]]
    /\ UNCHANGED <<job, count, held>>

\* Seeded fault: a checkout finds archived users too.
LockUser_AnyUser(t) ==
    LET u == job[t].user IN
    /\ Doing(t, "called", {"checkout"} \cup UserOps)
    /\ userLock[u] = None
    /\ userLock' = [userLock EXCEPT ![u] = t]
    /\ pc' = [pc EXCEPT ![t] = "user"]
    /\ UNCHANGED <<crib, toolLock, job, count, held>>

\* Only a checkout's query asks for an active user; an archived one is not
\* found (NotFound).
LockUser(t) ==
    LET u == job[t].user IN
    /\ Doing(t, "called", {"checkout"} \cup UserOps)
    /\ userLock[u] = None
    /\ job[t].op = "checkout" => active[u]
    /\ userLock' = [userLock EXCEPT ![u] = t]
    /\ pc' = [pc EXCEPT ![t] = "user"]
    /\ UNCHANGED <<crib, toolLock, job, count, held>>

\* Seeded fault: the tool is loaded without FOR UPDATE.
LockTool_NoLock(t) ==
    LET k == job[t].tool IN
    /\ Doing(t, "user", {"checkout"}) \/ Doing(t, "called", ToolOps \ {"checkout"})
    /\ live[k]
    /\ count' = [count EXCEPT ![t][k] = onHand[k]]
    /\ pc' = [pc EXCEPT ![t] = "locked"]
    /\ UNCHANGED <<crib, locks, job, held>>

\* A tool query that locks sees live tools only, and loads the count.
LockTool(t) ==
    LET k == job[t].tool IN
    /\ Doing(t, "user", {"checkout"}) \/ Doing(t, "called", ToolOps \ {"checkout"})
    /\ toolLock[k] = None /\ live[k]
    /\ toolLock' = [toolLock EXCEPT ![k] = t]
    /\ count' = [count EXCEPT ![t][k] = onHand[k]]
    /\ pc' = [pc EXCEPT ![t] = "locked"]
    /\ UNCHANGED <<crib, userLock, job, held>>

\* Seeded fault: the sum over no rows is NULL, not zero.
ReadCustody_NullSum(t) ==
    /\ Doing(t, "user", UserOps)
    /\ held' = [held EXCEPT ![t] = [k \in Tools |->
                   IF out[k][job[t].user] > 0 THEN out[k][job[t].user] ELSE None]]
    /\ pc' = [pc EXCEPT ![t] = "read"]
    /\ UNCHANGED <<crib, locks, job, count>>

\* user_custody: the positive balances over all tools, archived ones included.
ReadCustody(t) ==
    /\ Doing(t, "user", UserOps)
    /\ held' = [held EXCEPT ![t] = [k \in Tools |->
                   IF out[k][job[t].user] > 0 THEN out[k][job[t].user] ELSE 0]]
    /\ pc' = [pc EXCEPT ![t] = "read"]
    /\ UNCHANGED <<crib, locks, job, count>>

\* return_all_for_user locks the tools of that reading, row by row.
ToReturn(t) == {k \in Tools : held[t][k] > 0}
LockHeld(t, k) ==
    /\ Doing(t, "read", {"forceArchive"})
    /\ k \in ToReturn(t) /\ toolLock[k] = None
    /\ toolLock' = [toolLock EXCEPT ![k] = t]
    /\ count' = [count EXCEPT ![t][k] = onHand[k]]
    /\ UNCHANGED <<crib, userLock, pc, job, held>>

-----------------------------------------------------------------------------
\* Under the locks: write and commit.

\* Write tool k's count and append a row worth delta on the shelf.
Book(t, k, delta) ==
    /\ onHand' = [onHand EXCEPT ![k] = count[t][k] + delta]
    /\ ledger' = [ledger EXCEPT ![k] = @ + delta]

Overdrawn(t) == job[t].qty > count[t][job[t].tool]
CommitCheckout(t) ==
    LET k == job[t].tool  u == job[t].user IN
    /\ Doing(t, "locked", {"checkout"}) /\ ~Overdrawn(t)
    /\ Book(t, k, -job[t].qty)
    /\ out' = [out EXCEPT ![k][u] = @ + job[t].qty]
    /\ UNCHANGED <<live, active>>
    /\ Release(t)

\* Seeded fault: the cap only asks that something is out.
ExceedsCustody_SomeOut(t) == out[job[t].tool][job[t].user] <= 0

\* The balance is summed after the tool is locked; the insert waits for whoever
\* has the user FOR UPDATE.
ExceedsCustody(t) == job[t].qty > out[job[t].tool][job[t].user]
CommitReturn(t) ==
    LET k == job[t].tool  u == job[t].user IN
    /\ Doing(t, "locked", {"return"}) /\ ~ExceedsCustody(t)
    /\ userLock[u] = None
    /\ Book(t, k, job[t].qty)
    /\ out' = [out EXCEPT ![k][u] = @ - job[t].qty]
    /\ UNCHANGED <<live, active>>
    /\ Release(t)

Unchanged(t) == job[t].qty = count[t][job[t].tool]
CommitCorrect(t) ==
    LET k == job[t].tool IN
    /\ Doing(t, "locked", {"correct"}) /\ ~Unchanged(t)
    /\ Book(t, k, job[t].qty - count[t][k])
    /\ UNCHANGED <<out, live, active>>
    /\ Release(t)

\* Seeded fault: one user with nothing is enough.
StillOut_Everyone(k) == \A u \in Users : out[k][u] > 0

StillOut(k) == \E u \in Users : out[k][u] > 0
CommitRetire(t) ==
    /\ Doing(t, "locked", {"retire"}) /\ ~StillOut(job[t].tool)
    /\ live' = [live EXCEPT ![job[t].tool] = FALSE]
    /\ UNCHANGED <<onHand, out, active, ledger>>
    /\ Release(t)

\* Archive with nothing held, or with everything that was read as held returned.
CommitArchive(t) ==
    LET u == job[t].user IN
    /\ Doing(t, "read", UserOps)
    /\ job[t].op = "archive" => ToReturn(t) = {}
    /\ \A k \in ToReturn(t) : toolLock[k] = t
    /\ onHand' = [k \in Tools |-> IF k \in ToReturn(t) THEN count[t][k] + held[t][k] ELSE onHand[k]]
    /\ ledger' = [k \in Tools |-> ledger[k] + held[t][k]]
    /\ out' = [k \in Tools |-> [out[k] EXCEPT ![u] = @ - held[t][k]]]
    /\ active' = [active EXCEPT ![u] = FALSE]
    /\ UNCHANGED live
    /\ Release(t)

\* Restoring loads the user without a lock; the UPDATE of an archived one waits
\* for the row.
Restore(u) ==
    /\ ~active[u] /\ userLock[u] = None
    /\ active' = [active EXCEPT ![u] = TRUE]
    /\ UNCHANGED <<onHand, out, live, ledger, locks, pc, job, count, held>>

\* The early returns, each of which rolls back.
NotFound(t) ==
    \/ Doing(t, "called", {"checkout"}) /\ ~active[job[t].user] /\ userLock[job[t].user] = None
    \/ /\ Doing(t, "user", {"checkout"}) \/ Doing(t, "called", ToolOps \ {"checkout"})
       /\ ~live[job[t].tool] /\ toolLock[job[t].tool] = None
Refused(t) ==
    \/ Doing(t, "locked", {"checkout"}) /\ Overdrawn(t)
    \/ Doing(t, "locked", {"return"}) /\ ExceedsCustody(t)
    \/ Doing(t, "locked", {"correct"}) /\ Unchanged(t)
    \/ Doing(t, "locked", {"retire"}) /\ StillOut(job[t].tool)
    \/ Doing(t, "read", {"archive"}) /\ ToReturn(t) # {}

\* Seeded fault: a refused request leaves its transaction open.
Refuse_KeepsLocks(t) ==
    /\ NotFound(t) \/ Refused(t)
    /\ pc' = [pc EXCEPT ![t] = "done"]
    /\ UNCHANGED <<crib, locks, job, count, held>>

Refuse(t) ==
    /\ NotFound(t) \/ Refused(t)
    /\ UNCHANGED crib
    /\ Release(t)

\* Threads each of which waits for a tool or a user another of them has locked:
\* the database aborts one.
Waits(t, s) ==
    /\ t # s
    /\ \/ Doing(t, "read", {"forceArchive"}) /\ \E k \in ToReturn(t) : toolLock[k] = s
       \/ Doing(t, "user", {"checkout"}) /\ toolLock[job[t].tool] = s
       \/ Doing(t, "locked", {"return"}) /\ ~ExceedsCustody(t) /\ userLock[job[t].user] = s
AbortDeadlock(t) ==
    /\ \E S \in SUBSET Threads : t \in S /\ \A s \in S : \E r \in S : Waits(s, r)
    /\ UNCHANGED crib
    /\ Release(t)

Work(t) ==
    \/ LockUser(t) \/ LockTool(t) \/ ReadCustody(t) \/ \E k \in Tools : LockHeld(t, k)
    \/ CommitCheckout(t) \/ CommitReturn(t) \/ CommitCorrect(t) \/ CommitRetire(t)
    \/ CommitArchive(t) \/ Refuse(t) \/ AbortDeadlock(t)

Request(t) ==
    \/ \E o \in {"checkout", "return"}, k \in Tools, u \in Users, q \in Amounts : Call(t, o, k, u, q)
    \/ \E k \in Tools, q \in Amounts \cup {0} : Call(t, "correct", k, None, q)
    \/ \E k \in Tools : Call(t, "retire", k, None, 0)
    \/ \E o \in UserOps, u \in Users : Call(t, o, None, u, 0)

Next == (\E t \in Threads : Request(t) \/ Work(t)) \/ \E u \in Users : Restore(u)

Spec == Init /\ [][Next]_vars

\* An accepted request is worked on: its thread runs, free locks are granted and
\* deadlocks broken.  Nothing makes anyone send a request.
FairSpec == Spec /\ \A t \in Threads : WF_vars(Work(t))

-----------------------------------------------------------------------------
\* "A tool return can never exceed what the target user currently has checked
\* out": over all returns, nobody's balance goes below zero.
ReturnsCovered == \A k \in Tools, u \in Users : out[k][u] >= 0

\* A tool's count is where it started plus all its rows: no update is lost.
CountIsLedger == \A k \in Tools : onHand[k] = Opening + ledger[k]

\* Archiving a user cannot be crossed by a checkout that would leave a tool
\* with a user the Tools page no longer shows.
NobodyStranded == \A k \in Tools, u \in Users : ~active[u] => out[k][u] <= 0

\* A tool is archived only when no user still has custody, and none gets it after.
RetiredIsIn == \A k \in Tools, u \in Users : ~live[k] => out[k][u] <= 0

\* Both hold with every call in use (tools.py).
ToolsHold == CountIsLedger /\ RetiredIsIn

\* Every accepted request ends and holds no lock then, even when two forced
\* returns lock their tools in opposite orders, or a return has the tool and
\* wants the user of a checkout or an archive that has the user and wants the tool.
EveryRequestEnds ==
    \A t \in Threads :
        []<>(/\ pc[t] \in {"idle", "done"}
             /\ \A k \in Tools : toolLock[k] # t
             /\ \A u \in Users : userLock[u] # t)

\* The requests behave as the indivisible operations of ToolLedger: what a forced
\* return read before it locked the tools is still so when it writes.
Crib == INSTANCE ToolLedger
BehavesAsLedger == Crib!Spec
=============================================================================

--------------------------- MODULE StoreroomProofs ---------------------------
(***************************************************************************)
(* What holds of the crib, the weekly sheets, the catalogue's codes and    *)
(* the request queue for every number of clerks, tools, users, items,      *)
(* orders, crews, requests, codes, dispenses and instants: for each        *)
(* component an inductive invariant and its theorems, then the properties  *)
(* of Storeroom, in which they all run.                                    *)
(***************************************************************************)
EXTENDS Storeroom, FiniteSetTheorems, WellFoundedInduction, TLAPS

-----------------------------------------------------------------------------
(* The crib.  Counts follow the rows, nobody archived is left with a tool,   *)
(* no balance goes below zero and the interleaved requests implement         *)
(* ToolLedger.                                                               *)

\* The two halves of TypeOK: what is stored, and what the threads hold.
StoreOK ==
    /\ onHand \in [Tools -> Int] /\ ledger \in [Tools -> Int]
    /\ out \in [Tools -> [Users -> Int]]
    /\ live \in [Tools -> BOOLEAN] /\ active \in [Users -> BOOLEAN]
ThreadsOK ==
    /\ toolLock \in [Tools -> Threads \cup {None}]
    /\ userLock \in [Users -> Threads \cup {None}]
    /\ pc \in [Threads -> {"idle", "called", "user", "read", "locked", "done"}]
    /\ job \in [Threads -> Job]
    /\ count \in [Threads -> [Tools -> Int]] /\ held \in [Threads -> [Tools -> Nat]]
    /\ \A t \in Threads : pc[t] # "idle" =>
          /\ job[t].op \in ToolOps => job[t].tool \in Tools
          /\ job[t].op \notin {"correct", "retire"} => job[t].user \in Users

LEMMA Halves == TypeOK <=> StoreOK /\ ThreadsOK
  BY DEF TypeOK, StoreOK, ThreadsOK

\* Ending a request keeps the threads' half, unless the thread never began.
LEMMA ReleaseThreads ==
  ASSUME ThreadsOK, NEW t \in Threads, pc[t] # "idle", Release(t)
  PROVE  ThreadsOK'
  BY DEF ThreadsOK, Release

\* Every request leaves every variable in its type: TypeOK of ToolCustody.
THEOREM TypeCorrect == Spec => []TypeOK
<1> USE ToolCustodyAssumption DEF ToolCustodyAssumption
<1>1. Init => TypeOK
  <2> SUFFICES ASSUME Init PROVE TypeOK
    OBVIOUS
  <2>1. out \in [Tools -> [Users -> Int]]
    <3>1. ASSUME NEW f \in [Users -> HeldAtStart] PROVE f \in [Users -> Int]
      <4>1. HeldAtStart \subseteq Int
        OBVIOUS
      <4>2. QED
        BY <4>1
    <3>2. QED
      BY <3>1 DEF Init
  <2>2. StoreOK
    BY <2>1 DEF Init, StoreOK
  <2>3. job \in [Threads -> Job]
    BY DEF Init, NoJob, Job, ToolOps
  <2>4. count \in [Threads -> [Tools -> Int]] /\ held \in [Threads -> [Tools -> Nat]]
    BY DEF Init, NothingRead
  <2>5. ThreadsOK
    BY <2>3, <2>4 DEF Init, ThreadsOK
  <2>6. QED
    BY <2>2, <2>5, Halves
<1>2. TypeOK /\ [Next]_vars => TypeOK'
  <2> SUFFICES ASSUME StoreOK, ThreadsOK, [Next]_vars PROVE StoreOK' /\ ThreadsOK'
    BY DEF TypeOK, StoreOK, ThreadsOK
  <2>1. ASSUME NEW t \in Threads, Request(t) PROVE StoreOK' /\ ThreadsOK'
    <3>1. ASSUME NEW o \in ToolOps \cup UserOps, NEW k \in Tools \cup {None},
                 NEW u \in Users \cup {None}, NEW q \in Nat, Call(t, o, k, u, q),
                 o \in ToolOps => k \in Tools, o \notin {"correct", "retire"} => u \in Users
          PROVE  StoreOK' /\ ThreadsOK'
      <4>1. StoreOK'
        BY <3>1 DEF Call, StoreOK, crib
      <4>2. [op |-> o, tool |-> k, user |-> u, qty |-> q] \in Job
        BY DEF Job
      <4>3. ThreadsOK'
        BY <3>1, <4>2 DEF Call, ThreadsOK, locks
      <4>4. QED
        BY <4>1, <4>3
    <3>2. QED
      BY <2>1, <3>1 DEF Request, ToolOps, UserOps
  <2>2. ASSUME NEW t \in Threads, LockUser(t) PROVE StoreOK' /\ ThreadsOK'
    BY <2>2 DEF LockUser, Doing, StoreOK, ThreadsOK, crib, Job, ToolOps, UserOps
  <2>3. ASSUME NEW t \in Threads, LockTool(t) PROVE StoreOK' /\ ThreadsOK'
    BY <2>3 DEF LockTool, Doing, StoreOK, ThreadsOK, crib, Job, ToolOps, UserOps
  <2>4. ASSUME NEW t \in Threads, ReadCustody(t) PROVE StoreOK' /\ ThreadsOK'
    <3>1. job[t].user \in Users
      BY <2>4 DEF ReadCustody, Doing, ThreadsOK, UserOps
    <3>2. [k \in Tools |-> IF out[k][job[t].user] > 0 THEN out[k][job[t].user] ELSE 0]
            \in [Tools -> Nat]
      BY <3>1 DEF StoreOK
    <3>3. held' \in [Threads -> [Tools -> Nat]]
      BY <2>4, <3>2 DEF ReadCustody, ThreadsOK
    <3>4. QED
      BY <2>4, <3>3 DEF ReadCustody, Doing, StoreOK, ThreadsOK, crib, locks
  <2>5. ASSUME NEW t \in Threads, NEW k \in Tools, LockHeld(t, k) PROVE StoreOK' /\ ThreadsOK'
    BY <2>5 DEF LockHeld, Doing, StoreOK, ThreadsOK, crib, Job
  <2>6. ASSUME NEW t \in Threads, CommitCheckout(t) PROVE StoreOK' /\ ThreadsOK'
    <3>1. job[t].qty \in Int /\ pc[t] # "idle" /\ job[t].tool \in Tools /\ job[t].user \in Users
      <4>1. job[t].op = "checkout" /\ pc[t] = "locked" /\ job[t] \in Job
        BY <2>6 DEF CommitCheckout, Doing, ThreadsOK
      <4>2. job[t].qty \in Int
        BY <4>1 DEF Job
      <4>3. job[t].tool \in Tools /\ job[t].user \in Users
        BY <4>1 DEF ThreadsOK, ToolOps
      <4>4. QED
        BY <4>1, <4>2, <4>3
    <3>2. count[t][job[t].tool] \in Int
      BY <3>1 DEF ThreadsOK
    <3>3. onHand' \in [Tools -> Int] /\ ledger' \in [Tools -> Int]
      BY <2>6, <3>1, <3>2 DEF CommitCheckout, Book, StoreOK
    <3>4. out' \in [Tools -> [Users -> Int]]
      BY <2>6, <3>1 DEF CommitCheckout, StoreOK
    <3>5. StoreOK'
      BY <2>6, <3>3, <3>4 DEF CommitCheckout, StoreOK
    <3>6. QED
      BY <2>6, <3>1, <3>5, ReleaseThreads DEF CommitCheckout
  <2>7. ASSUME NEW t \in Threads, CommitReturn(t) PROVE StoreOK' /\ ThreadsOK'
    <3>1. job[t].qty \in Int /\ pc[t] # "idle" /\ job[t].tool \in Tools /\ job[t].user \in Users
      <4>1. job[t].op = "return" /\ pc[t] = "locked" /\ job[t] \in Job
        BY <2>7 DEF CommitReturn, Doing, ThreadsOK
      <4>2. job[t].qty \in Int
        BY <4>1 DEF Job
      <4>3. job[t].tool \in Tools /\ job[t].user \in Users
        BY <4>1 DEF ThreadsOK, ToolOps
      <4>4. QED
        BY <4>1, <4>2, <4>3
    <3>2. count[t][job[t].tool] \in Int
      BY <3>1 DEF ThreadsOK
    <3>3. onHand' \in [Tools -> Int] /\ ledger' \in [Tools -> Int]
      BY <2>7, <3>1, <3>2 DEF CommitReturn, Book, StoreOK
    <3>4. out' \in [Tools -> [Users -> Int]]
      BY <2>7, <3>1 DEF CommitReturn, StoreOK
    <3>5. StoreOK'
      BY <2>7, <3>3, <3>4 DEF CommitReturn, StoreOK
    <3>6. QED
      BY <2>7, <3>1, <3>5, ReleaseThreads DEF CommitReturn
  <2>8. ASSUME NEW t \in Threads, CommitCorrect(t) PROVE StoreOK' /\ ThreadsOK'
    <3>1. job[t].qty \in Int /\ pc[t] # "idle" /\ job[t].tool \in Tools
      BY <2>8 DEF CommitCorrect, Doing, ThreadsOK, Job, ToolOps
    <3>2. count[t][job[t].tool] \in Int
      BY <3>1 DEF ThreadsOK
    <3>3. onHand' \in [Tools -> Int] /\ ledger' \in [Tools -> Int]
      BY <2>8, <3>1, <3>2 DEF CommitCorrect, Book, StoreOK
    <3>5. StoreOK'
      BY <2>8, <3>3 DEF CommitCorrect, StoreOK
    <3>6. QED
      BY <2>8, <3>1, <3>5, ReleaseThreads DEF CommitCorrect
  <2>9. ASSUME NEW t \in Threads, CommitRetire(t) PROVE StoreOK' /\ ThreadsOK'
    BY <2>9, ReleaseThreads DEF CommitRetire, Doing, StoreOK
  <2>10. ASSUME NEW t \in Threads, CommitArchive(t) PROVE StoreOK' /\ ThreadsOK'
    <3>1. pc[t] # "idle" /\ job[t].user \in Users
      BY <2>10 DEF CommitArchive, Doing, ThreadsOK, UserOps
    <3>2. held[t] \in [Tools -> Nat] /\ count[t] \in [Tools -> Int]
      BY DEF ThreadsOK
    <3>3. onHand' \in [Tools -> Int] /\ ledger' \in [Tools -> Int]
      BY <2>10, <3>2 DEF CommitArchive, StoreOK
    <3>4. ASSUME NEW k \in Tools
          PROVE  [out[k] EXCEPT ![job[t].user] = @ - held[t][k]] \in [Users -> Int]
      <4>1. out[k] \in [Users -> Int] /\ held[t][k] \in Int
        BY <3>2 DEF StoreOK
      <4>2. out[k][job[t].user] - held[t][k] \in Int
        BY <3>1, <4>1
      <4>3. QED
        BY <3>1, <4>1, <4>2
    <3>5. out' \in [Tools -> [Users -> Int]]
      BY <2>10, <3>4 DEF CommitArchive
    <3>6. StoreOK'
      BY <2>10, <3>3, <3>5 DEF CommitArchive, StoreOK
    <3>7. QED
      BY <2>10, <3>1, <3>6, ReleaseThreads DEF CommitArchive
  <2>11. ASSUME NEW t \in Threads, Refuse(t) \/ AbortDeadlock(t) PROVE StoreOK' /\ ThreadsOK'
    <3>1. pc[t] # "idle"
      BY <2>11 DEF Refuse, NotFound, Refused, AbortDeadlock, Waits, Doing
    <3>2. StoreOK'
      BY <2>11 DEF Refuse, AbortDeadlock, crib, StoreOK
    <3>3. QED
      BY <2>11, <3>1, <3>2, ReleaseThreads DEF Refuse, AbortDeadlock
  <2>12. ASSUME NEW u \in Users, Restore(u) PROVE StoreOK' /\ ThreadsOK'
    BY <2>12 DEF Restore, StoreOK, ThreadsOK, locks
  <2>13. CASE UNCHANGED vars
    BY <2>13 DEF vars, StoreOK, ThreadsOK
  <2>14. QED
    BY <2>1, <2>2, <2>3, <2>4, <2>5, <2>6, <2>7, <2>8, <2>9, <2>10, <2>11, <2>12, <2>13
       DEF Next, Work
<1>3. QED
  BY <1>1, <1>2, PTL DEF Spec

-----------------------------------------------------------------------------
\* Why the locks are enough: what a thread knows at each point of its request.

\* A locked tool's count is the one the thread loaded.
Fresh == \A t \in Threads, k \in Tools : toolLock[k] = t => count[t][k] = onHand[k]

\* A thread about to write has its tool, which is live.
HasTool ==
    \A t \in Threads : pc[t] = "locked" =>
        job[t].op \in ToolOps /\ toolLock[job[t].tool] = t /\ live[job[t].tool]

\* A thread past its first lock has its user; a checkout's user is active.
AtUser(t) == pc[t] \in {"user", "read"} \/ Doing(t, "locked", {"checkout"})
HasUser ==
    \A t \in Threads : AtUser(t) =>
        /\ job[t].op \in {"checkout"} \cup UserOps
        /\ userLock[job[t].user] = t
        /\ job[t].op = "checkout" => active[job[t].user]

\* While its user is locked the balances a thread has read stay what they are.
Balance(k, u) == IF out[k][u] > 0 THEN out[k][u] ELSE 0
ReadingStands ==
    \A t \in Threads : pc[t] = "read" =>
        /\ job[t].op \in UserOps
        /\ \A k \in Tools : held[t][k] = Balance(k, job[t].user)

IInv == /\ Fresh /\ HasTool /\ HasUser /\ ReadingStands
        /\ CountIsLedger /\ NobodyStranded /\ RetiredIsIn

LEMMA InitIInv == Init => IInv
  BY ToolCustodyAssumption
     DEF ToolCustodyAssumption, Init, IInv, Fresh, HasTool, HasUser, AtUser, Doing, ReadingStands,
         CountIsLedger, NobodyStranded, RetiredIsIn

\* A reading stands while nothing moves and its thread's request stays as it is.
LEMMA ReadingKept ==
  ASSUME IInv, out' = out, NEW S \in SUBSET Threads,
         \A s \in S : pc'[s] = "read" => pc[s] = "read" /\ job'[s] = job[s] /\ held'[s] = held[s],
         \A s \in Threads \ S : pc'[s] # "read"
  PROVE  ReadingStands'
<1>1. ASSUME NEW s \in Threads, pc'[s] = "read"
      PROVE  /\ job'[s].op \in UserOps
             /\ \A k \in Tools :
                   held'[s][k] = IF out[k][job'[s].user] > 0 THEN out[k][job'[s].user] ELSE 0
  <2>1. pc[s] = "read" /\ job'[s] = job[s] /\ held'[s] = held[s]
    BY <1>1
  <2>2. QED
    BY <2>1 DEF IInv, ReadingStands, Balance
<1>2. QED
  BY <1>1 DEF ReadingStands, Balance

\* Taking a lock or reading balances disturbs nothing another thread relies on.
LEMMA LockingKeeps ==
  ASSUME TypeOK, IInv, NEW t \in Threads,
         Request(t) \/ LockUser(t) \/ LockTool(t) \/ ReadCustody(t) \/ \E k \in Tools : LockHeld(t, k)
  PROVE  IInv'
<1> USE ToolCustodyAssumption DEF ToolCustodyAssumption, crib, locks
<1>1. crib' = crib
  BY DEF Request, Call, LockUser, LockTool, ReadCustody, LockHeld
<1>2. CountIsLedger' /\ NobodyStranded' /\ RetiredIsIn'
  BY <1>1 DEF IInv, CountIsLedger, NobodyStranded, RetiredIsIn
<1>3. CASE Request(t)
  <2>1. pc[t] = "idle" /\ pc' = [pc EXCEPT ![t] = "called"] /\ UNCHANGED <<crib, locks, count, held>>
    BY <1>3 DEF Request, Call
  <2>2. \A s \in Threads : s # t => job'[s] = job[s]
    BY <1>3 DEF Request, Call, TypeOK
  <2>3. Fresh' /\ HasTool' /\ HasUser'
    BY <2>1, <2>2 DEF IInv, TypeOK, Fresh, HasTool, HasUser, AtUser, Doing
  <2>4. \A s \in Threads \ {t} : pc'[s] = pc[s] /\ job'[s] = job[s] /\ held'[s] = held[s]
    BY <2>1, <2>2 DEF TypeOK
  <2>5. pc'[t] # "read" /\ out' = out
    BY <1>1, <2>1 DEF TypeOK
  <2>6. ReadingStands'
    BY <2>4, <2>5, ReadingKept
  <2>7. QED
    BY <1>2, <2>3, <2>6 DEF IInv
<1>4. CASE LockUser(t)
  <2>1. Fresh' /\ HasTool' /\ ReadingStands'
    <3>1. Fresh' /\ HasTool'
      BY <1>4 DEF IInv, TypeOK, LockUser, Doing, Fresh, HasTool
    <3>2. /\ \A s \in Threads \ {t} : pc'[s] = pc[s] /\ job'[s] = job[s] /\ held'[s] = held[s]
          /\ pc'[t] # "read" /\ out' = out
      BY <1>4 DEF LockUser, TypeOK
    <3>3. QED
      BY <3>1, <3>2, ReadingKept
  <2>2. job[t].user \in Users
    BY <1>4 DEF LockUser, Doing, TypeOK, UserOps
  <2>3. userLock' = [userLock EXCEPT ![job[t].user] = t] /\ userLock[job[t].user] = None
    BY <1>4 DEF LockUser
  <2>4. ASSUME NEW s \in Threads, AtUser(s)' , s # t
        PROVE  /\ job[s].op \in {"checkout"} \cup UserOps
               /\ userLock'[job[s].user] = s
               /\ job[s].op = "checkout" => active[job[s].user]
    <3>1. AtUser(s)
      BY <1>4, <2>4 DEF LockUser, AtUser, Doing, TypeOK
    <3>2. QED
      BY <2>2, <2>3, <2>4, <3>1 DEF IInv, HasUser, TypeOK
  <2>5. /\ job[t].op \in {"checkout"} \cup UserOps
        /\ userLock'[job[t].user] = t
        /\ job[t].op = "checkout" => active[job[t].user]
    BY <1>4, <2>2 DEF LockUser, Doing, TypeOK
  <2>6. HasUser'
    BY <1>1, <1>4, <2>4, <2>5 DEF LockUser, HasUser
  <2>7. QED
    BY <1>2, <2>1, <2>6 DEF IInv
<1>5. CASE LockTool(t)
  <2>1. job[t].tool \in Tools
    BY <1>5 DEF LockTool, Doing, TypeOK, ToolOps
  <2>2. Fresh'
    BY <1>5, <2>1 DEF IInv, TypeOK, LockTool, Fresh
  <2>3. HasTool'
    BY <1>5, <2>1 DEF IInv, TypeOK, LockTool, Doing, HasTool, ToolOps
  <2>4. HasUser' /\ ReadingStands'
    <3>1. HasUser'
      BY <1>5 DEF IInv, TypeOK, LockTool, Doing, HasUser, AtUser
    <3>2. /\ \A s \in Threads \ {t} : pc'[s] = pc[s] /\ job'[s] = job[s] /\ held'[s] = held[s]
          /\ pc'[t] # "read" /\ out' = out
      BY <1>5 DEF LockTool, TypeOK
    <3>3. QED
      BY <3>1, <3>2, ReadingKept
  <2>5. QED
    BY <1>2, <2>2, <2>3, <2>4 DEF IInv
<1>6. CASE ReadCustody(t)
  <2>1. Fresh' /\ HasTool' /\ HasUser'
    BY <1>6 DEF IInv, TypeOK, ReadCustody, Doing, Fresh, HasTool, HasUser, AtUser
  <2>2. job[t].user \in Users
    BY <1>6 DEF ReadCustody, Doing, TypeOK, UserOps
  <2>3. ReadingStands'
    <3>1. held'[t] = [k \in Tools |-> IF out[k][job[t].user] > 0 THEN out[k][job[t].user] ELSE 0]
      BY <1>6 DEF TypeOK, ReadCustody
    <3>2. \A s \in Threads \ {t} : pc'[s] = pc[s] /\ held'[s] = held[s]
      BY <1>6 DEF TypeOK, ReadCustody
    <3>3. job' = job /\ out' = out /\ job[t].op \in UserOps
      BY <1>6 DEF ReadCustody, Doing
    <3>4. ASSUME NEW s \in Threads, pc'[s] = "read"
          PROVE  /\ job[s].op \in UserOps
                 /\ \A k \in Tools :
                       held'[s][k] = IF out[k][job[s].user] > 0 THEN out[k][job[s].user] ELSE 0
      <4>1. CASE s = t
        BY <3>1, <3>3, <4>1
      <4>2. CASE s # t
        <5>1. pc[s] = "read" /\ held'[s] = held[s]
          BY <3>2, <3>4, <4>2
        <5>2. QED
          BY <5>1 DEF IInv, ReadingStands, Balance
      <4>3. QED
        BY <4>1, <4>2
    <3>5. QED
      BY <3>3, <3>4 DEF ReadingStands, Balance
  <2>4. QED
    BY <1>2, <2>1, <2>3 DEF IInv
<1>7. ASSUME NEW k \in Tools, LockHeld(t, k) PROVE IInv'
  <2>1. Fresh' /\ HasTool'
    BY <1>7 DEF IInv, TypeOK, LockHeld, Doing, Fresh, HasTool
  <2>2. HasUser' /\ ReadingStands'
    <3>1. HasUser'
      BY <1>7 DEF IInv, TypeOK, LockHeld, Doing, HasUser, AtUser
    <3>2. (\A s \in Threads : pc'[s] = pc[s] /\ job'[s] = job[s] /\ held'[s] = held[s]) /\ out' = out
      BY <1>7 DEF LockHeld
    <3>3. QED
      BY <3>1, <3>2, ReadingKept
  <2>3. QED
    BY <1>2, <2>1, <2>2 DEF IInv
<1>8. QED
  BY <1>3, <1>4, <1>5, <1>6, <1>7

\* What a commit writes under its locks leaves the other threads' knowledge true.
LEMMA ReleaseKeeps ==
  ASSUME TypeOK, TypeOK', IInv, NEW t \in Threads, Release(t),
         \A k \in Tools : toolLock[k] # t => onHand'[k] = onHand[k] /\ live'[k] = live[k],
         \A u \in Users : userLock[u] # t => active'[u] = active[u],
         \A k \in Tools, u \in Users :
             out'[k][u] = out[k][u] \/ userLock[u] = t \/ userLock[u] = None
  PROVE  Fresh' /\ HasTool' /\ HasUser' /\ ReadingStands'
<1> USE ToolCustodyAssumption DEF ToolCustodyAssumption
<1>1. /\ \A k \in Tools : toolLock'[k] = IF toolLock[k] = t THEN None ELSE toolLock[k]
      /\ \A u \in Users : userLock'[u] = IF userLock[u] = t THEN None ELSE userLock[u]
      /\ \A s \in Threads : pc'[s] = IF s = t THEN "done" ELSE pc[s]
      /\ UNCHANGED <<job, count, held>>
  BY DEF Release, TypeOK
<1>2. Fresh'
  BY <1>1 DEF IInv, Fresh
<1>3. ASSUME NEW s \in Threads, pc'[s] = "locked"
      PROVE  job[s].op \in ToolOps /\ toolLock'[job[s].tool] = s /\ live'[job[s].tool]
  <2>1. s # t /\ pc[s] = "locked"
    BY <1>1, <1>3
  <2>2. job[s].op \in ToolOps /\ toolLock[job[s].tool] = s /\ live[job[s].tool]
    BY <2>1 DEF IInv, HasTool
  <2>3. job[s].tool \in Tools
    BY <2>1, <2>2 DEF TypeOK
  <2>4. QED
    BY <1>1, <2>1, <2>2, <2>3
<1>4. HasTool'
  BY <1>1, <1>3 DEF HasTool
<1>5. ASSUME NEW s \in Threads, AtUser(s)'
      PROVE  /\ s # t /\ AtUser(s) /\ job[s].user \in Users
             /\ job[s].op \in {"checkout"} \cup UserOps
             /\ userLock[job[s].user] = s /\ userLock'[job[s].user] = s
             /\ job[s].op = "checkout" => active'[job[s].user]
  <2>1. s # t /\ AtUser(s)
    BY <1>1, <1>5 DEF AtUser, Doing
  <2>2. /\ job[s].op \in {"checkout"} \cup UserOps
        /\ userLock[job[s].user] = s
        /\ job[s].op = "checkout" => active[job[s].user]
    BY <2>1 DEF IInv, HasUser
  <2>3. job[s].user \in Users
    BY <2>1, <2>2 DEF TypeOK, AtUser, Doing, UserOps
  <2>4. QED
    BY <1>1, <2>1, <2>2, <2>3
<1>6. HasUser'
  BY <1>1, <1>5 DEF HasUser
<1>7. ASSUME NEW s \in Threads, pc'[s] = "read"
      PROVE  job[s].op \in UserOps /\ \A k \in Tools : held[s][k] = Balance(k, job[s].user)'
  <2>1. AtUser(s)'
    BY <1>7 DEF AtUser
  <2>2. s # t /\ job[s].user \in Users /\ userLock[job[s].user] = s
    BY <1>5, <2>1
  <2>3. job[s].op \in UserOps /\ \A k \in Tools : held[s][k] = Balance(k, job[s].user)
    BY <1>1, <1>7, <2>2 DEF IInv, ReadingStands
  <2>4. \A k \in Tools : out'[k][job[s].user] = out[k][job[s].user]
    BY <2>2
  <2>5. QED
    BY <1>1, <2>3, <2>4 DEF Balance
<1>8. ReadingStands'
  BY <1>1, <1>7 DEF ReadingStands
<1>9. QED
  BY <1>2, <1>4, <1>6, <1>8

\* What a thread about to write to a tool knows.
LEMMA AtTool ==
  ASSUME TypeOK, IInv, NEW t \in Threads, pc[t] = "locked"
  PROVE  /\ job[t].tool \in Tools /\ live[job[t].tool] /\ toolLock[job[t].tool] = t
         /\ count[t][job[t].tool] = onHand[job[t].tool] /\ job[t].qty \in Nat
         /\ job[t].op \in {"checkout", "return"} => job[t].user \in Users
         /\ job[t].op = "checkout" => active[job[t].user] /\ userLock[job[t].user] = t
<1>1. job[t].op \in ToolOps /\ live[job[t].tool] /\ toolLock[job[t].tool] = t
  BY DEF IInv, HasTool
<1>2. job[t].tool \in Tools /\ job[t].op \in {"checkout", "return"} => job[t].user \in Users
  BY <1>1 DEF TypeOK
<1>3. job[t].qty \in Nat
  BY DEF TypeOK, Job
<1>4. job[t].op = "checkout" => active[job[t].user] /\ userLock[job[t].user] = t
  BY DEF IInv, HasUser, AtUser, Doing
<1>5. job[t].tool \in Tools
  BY <1>1 DEF TypeOK
<1>6. count[t][job[t].tool] = onHand[job[t].tool]
  BY <1>1, <1>5 DEF IInv, Fresh
<1>7. QED
  BY <1>1, <1>2, <1>3, <1>4, <1>5, <1>6

LEMMA CommitKeeps ==
  ASSUME TypeOK, TypeOK', IInv, NEW t \in Threads,
         CommitCheckout(t) \/ CommitReturn(t) \/ CommitCorrect(t) \/ CommitRetire(t)
  PROVE  IInv'
<1> DEFINE k == job[t].tool
           u == job[t].user
           q == job[t].qty
<1>1. /\ k \in Tools /\ live[k] /\ toolLock[k] = t /\ q \in Nat
      /\ count[t][k] = onHand[k] /\ onHand[k] \in Int
      /\ job[t].op \in {"checkout", "return"} => u \in Users
      /\ job[t].op = "checkout" => active[u] /\ userLock[u] = t
  <2>1. pc[t] = "locked"
    BY DEF CommitCheckout, CommitReturn, CommitCorrect, CommitRetire, Doing
  <2>2. QED
    BY <2>1, AtTool DEF TypeOK
<1>2. CASE CommitCheckout(t)
  <2>1. /\ u \in Users /\ active[u] /\ userLock[u] = t /\ Release(t) /\ UNCHANGED <<live, active>>
        /\ onHand' = [onHand EXCEPT ![k] = onHand[k] - q]
        /\ ledger' = [ledger EXCEPT ![k] = @ - q]
        /\ out' = [out EXCEPT ![k][u] = @ + q]
    BY <1>1, <1>2 DEF CommitCheckout, Doing, Book, TypeOK
  <2>2. \A kk \in Tools, uu \in Users : uu # u \/ kk # k => out'[kk][uu] = out[kk][uu]
    BY <1>1, <2>1 DEF TypeOK
  <2>3. \A kk \in Tools, uu \in Users : out'[kk][uu] = out[kk][uu] \/ userLock[uu] = t
    BY <2>1, <2>2
  <2>4. Fresh' /\ HasTool' /\ HasUser' /\ ReadingStands'
    <3>1. \A kk \in Tools : toolLock[kk] # t => onHand'[kk] = onHand[kk] /\ live'[kk] = live[kk]
      BY <1>1, <2>1 DEF TypeOK
    <3>2. QED
      BY <2>1, <2>3, <3>1, ReleaseKeeps
  <2>5. CountIsLedger'
    BY <1>1, <2>1, ToolCustodyAssumption DEF IInv, CountIsLedger, TypeOK, ToolCustodyAssumption
  <2>6. NobodyStranded' /\ RetiredIsIn'
    BY <1>1, <2>1, <2>2 DEF IInv, NobodyStranded, RetiredIsIn
  <2>7. QED
    BY <2>4, <2>5, <2>6 DEF IInv
<1>3. CASE CommitReturn(t)
  <2>1. /\ u \in Users /\ Release(t) /\ UNCHANGED <<live, active>> /\ userLock[u] = None
        /\ onHand' = [onHand EXCEPT ![k] = onHand[k] + q]
        /\ ledger' = [ledger EXCEPT ![k] = @ + q]
        /\ out' = [out EXCEPT ![k][u] = @ - q]
    BY <1>1, <1>3 DEF CommitReturn, Doing, Book, TypeOK
  <2>2. \A kk \in Tools, uu \in Users : out'[kk][uu] <= out[kk][uu]
    BY <1>1, <2>1 DEF TypeOK
  <2>3. \A kk \in Tools, uu \in Users : out'[kk][uu] = out[kk][uu] \/ userLock[uu] = None
    BY <1>1, <2>1 DEF TypeOK
  <2>4. Fresh' /\ HasTool' /\ HasUser' /\ ReadingStands'
    <3>1. \A kk \in Tools : toolLock[kk] # t => onHand'[kk] = onHand[kk] /\ live'[kk] = live[kk]
      BY <1>1, <2>1 DEF TypeOK
    <3>2. QED
      BY <2>1, <2>3, <3>1, ReleaseKeeps
  <2>5. CountIsLedger'
    BY <1>1, <2>1, ToolCustodyAssumption DEF IInv, CountIsLedger, TypeOK, ToolCustodyAssumption
  <2>6. \A kk \in Tools, uu \in Users : out[kk][uu] \in Int /\ out'[kk][uu] \in Int
    BY DEF TypeOK
  <2>7. NobodyStranded' /\ RetiredIsIn'
    BY <2>1, <2>2, <2>6 DEF IInv, NobodyStranded, RetiredIsIn
  <2>8. QED
    BY <2>4, <2>5, <2>7 DEF IInv
<1>4. CASE CommitCorrect(t)
  <2>1. /\ Release(t) /\ UNCHANGED <<out, live, active>>
        /\ onHand' = [onHand EXCEPT ![k] = onHand[k] + (q - onHand[k])]
        /\ ledger' = [ledger EXCEPT ![k] = @ + (q - onHand[k])]
    BY <1>1, <1>4 DEF CommitCorrect, Book
  <2>2. Fresh' /\ HasTool' /\ HasUser' /\ ReadingStands'
    <3>1. \A kk \in Tools : toolLock[kk] # t => onHand'[kk] = onHand[kk] /\ live'[kk] = live[kk]
      BY <1>1, <2>1 DEF TypeOK
    <3>2. \A kk \in Tools, uu \in Users : out'[kk][uu] = out[kk][uu]
      BY <2>1
    <3>3. QED
      BY <2>1, <3>1, <3>2, ReleaseKeeps
  <2>3. CountIsLedger'
    BY <1>1, <2>1, ToolCustodyAssumption DEF IInv, CountIsLedger, TypeOK, ToolCustodyAssumption
  <2>4. NobodyStranded' /\ RetiredIsIn'
    BY <2>1 DEF IInv, NobodyStranded, RetiredIsIn
  <2>5. QED
    BY <2>2, <2>3, <2>4 DEF IInv
<1>5. CASE CommitRetire(t)
  <2>1. /\ Release(t) /\ UNCHANGED <<onHand, out, active, ledger>>
        /\ live' = [live EXCEPT ![k] = FALSE] /\ ~StillOut(k)
    BY <1>5 DEF CommitRetire
  <2>2. Fresh' /\ HasTool' /\ HasUser' /\ ReadingStands'
    <3>1. \A kk \in Tools : toolLock[kk] # t => onHand'[kk] = onHand[kk] /\ live'[kk] = live[kk]
      BY <1>1, <2>1 DEF TypeOK
    <3>2. \A kk \in Tools, uu \in Users : out'[kk][uu] = out[kk][uu]
      BY <2>1
    <3>3. QED
      BY <2>1, <3>1, <3>2, ReleaseKeeps
  <2>3. CountIsLedger' /\ NobodyStranded'
    BY <2>1 DEF IInv, CountIsLedger, NobodyStranded
  <2>4. RetiredIsIn'
    BY <1>1, <2>1 DEF IInv, RetiredIsIn, StillOut, TypeOK
  <2>5. QED
    BY <2>2, <2>3, <2>4 DEF IInv
<1>6. QED
  BY <1>2, <1>3, <1>4, <1>5

LEMMA ArchiveKeeps ==
  ASSUME TypeOK, TypeOK', IInv, NEW t \in Threads, CommitArchive(t)
  PROVE  IInv'
<1> DEFINE u == job[t].user
<1>1. /\ pc[t] = "read" /\ job[t].op \in UserOps /\ userLock[u] = t
      /\ \A k \in Tools : held[t][k] = Balance(k, u)
  BY DEF CommitArchive, Doing, IInv, HasUser, AtUser, ReadingStands
<1>2. u \in Users
  BY <1>1 DEF TypeOK, UserOps
<1>3. \A k \in Tools : /\ held[t][k] \in Nat /\ onHand[k] \in Int /\ ledger[k] \in Int
                       /\ \A uu \in Users : out[k][uu] \in Int
  BY DEF TypeOK
<1>4. ASSUME NEW k \in Tools
      PROVE  /\ onHand'[k] = onHand[k] + held[t][k] /\ ledger'[k] = ledger[k] + held[t][k]
             /\ toolLock[k] # t => onHand'[k] = onHand[k]
  <2>1. CASE k \in ToReturn(t)
    <3>1. toolLock[k] = t /\ count[t][k] = onHand[k]
      BY <2>1 DEF CommitArchive, IInv, Fresh
    <3>2. QED
      BY <2>1, <3>1 DEF CommitArchive
  <2>2. CASE k \notin ToReturn(t)
    <3>1. held[t][k] = 0
      BY <1>3, <2>2 DEF ToReturn
    <3>2. QED
      BY <1>3, <2>2, <3>1 DEF CommitArchive
  <2>3. QED
    BY <2>1, <2>2
<1>5. ASSUME NEW k \in Tools, NEW uu \in Users
      PROVE  out'[k][uu] = IF uu = u THEN out[k][u] - held[t][k] ELSE out[k][uu]
  BY <1>2 DEF CommitArchive, TypeOK
<1>6. active' = [active EXCEPT ![u] = FALSE] /\ live' = live /\ Release(t)
  BY DEF CommitArchive
<1>7. Fresh' /\ HasTool' /\ HasUser' /\ ReadingStands'
  <2>1. \A k \in Tools : toolLock[k] # t => onHand'[k] = onHand[k] /\ live'[k] = live[k]
    BY <1>4, <1>6
  <2>2. \A uu \in Users : userLock[uu] # t => active'[uu] = active[uu]
    BY <1>1, <1>2, <1>6 DEF TypeOK
  <2>3. \A k \in Tools, uu \in Users : out'[k][uu] = out[k][uu] \/ userLock[uu] = t
    BY <1>1, <1>5
  <2>4. QED
    BY <1>6, <2>1, <2>2, <2>3, ReleaseKeeps
<1>8. CountIsLedger'
  BY <1>3, <1>4, ToolCustodyAssumption DEF IInv, CountIsLedger, ToolCustodyAssumption
<1>9. NobodyStranded'
  BY <1>1, <1>2, <1>3, <1>5, <1>6 DEF IInv, NobodyStranded, TypeOK, Balance
<1>10. RetiredIsIn'
  BY <1>3, <1>5, <1>6 DEF IInv, RetiredIsIn
<1>11. QED
  BY <1>7, <1>8, <1>9, <1>10 DEF IInv

LEMMA OtherKeeps ==
  ASSUME TypeOK, TypeOK', IInv,
         \/ \E t \in Threads : Refuse(t) \/ AbortDeadlock(t)
         \/ \E u \in Users : Restore(u)
         \/ UNCHANGED vars
  PROVE  IInv'
<1>1. ASSUME NEW t \in Threads, Refuse(t) \/ AbortDeadlock(t) PROVE IInv'
  <2>1. Release(t) /\ UNCHANGED <<onHand, out, live, active, ledger>>
    BY <1>1 DEF Refuse, AbortDeadlock, crib
  <2>2. \A k \in Tools, u \in Users : out'[k][u] = out[k][u]
    BY <2>1
  <2>3. Fresh' /\ HasTool' /\ HasUser' /\ ReadingStands'
    BY <2>1, <2>2, ReleaseKeeps
  <2>4. QED
    BY <2>1, <2>3 DEF IInv, CountIsLedger, NobodyStranded, RetiredIsIn
<1>2. ASSUME NEW u \in Users, Restore(u) PROVE IInv'
  <2>1. UNCHANGED <<onHand, out, live, ledger, toolLock, userLock, pc, job, count, held>>
    BY <1>2 DEF Restore, locks
  <2>2. \A uu \in Users : active[uu] => active'[uu]
    BY <1>2 DEF Restore, TypeOK
  <2>3. ASSUME NEW s \in Threads, AtUser(s)', job[s].op = "checkout" PROVE active'[job[s].user]
    <3>1. AtUser(s)
      BY <2>1, <2>3 DEF AtUser, Doing
    <3>2. active[job[s].user] /\ job[s].user \in Users
      BY <2>3, <3>1 DEF IInv, HasUser, TypeOK, AtUser, Doing
    <3>3. QED
      BY <2>2, <3>2
  <2>4. HasUser'
    BY <2>1, <2>3 DEF IInv, HasUser, AtUser, Doing
  <2>5. NobodyStranded'
    BY <1>2, <2>1, <2>2 DEF IInv, NobodyStranded
  <2>6. QED
    BY <2>1, <2>4, <2>5 DEF IInv, Fresh, HasTool, ReadingStands, Balance, CountIsLedger, RetiredIsIn
<1>3. CASE UNCHANGED vars
  BY <1>3 DEF vars, IInv, Fresh, HasTool, HasUser, AtUser, Doing, ReadingStands, Balance,
              CountIsLedger, NobodyStranded, RetiredIsIn
<1>4. QED
  BY <1>1, <1>2, <1>3

LEMMA Invariant == Spec => [](TypeOK /\ IInv)
<1>1. TypeOK /\ TypeOK' /\ IInv /\ [Next]_vars => IInv'
  BY LockingKeeps, CommitKeeps, ArchiveKeeps, OtherKeeps DEF Next, Work
<1>2. QED
  BY <1>1, InitIInv, TypeCorrect, PTL DEF Spec

\* A tool's count is what its rows say, and an archived tool is with nobody,
\* whatever the requests and however they interleave: ToolsHold of ToolCustody.
THEOREM CountsAndShelvesHold == Spec => []ToolsHold
<1>1. IInv => ToolsHold
  BY DEF IInv, ToolsHold
<1>2. QED
  BY <1>1, Invariant, PTL

\* No archived user has a tool out, whatever the requests and however they
\* interleave: NobodyStranded of ToolCustody.
THEOREM ArchivedHaveNothing == Spec => []NobodyStranded
<1>1. IInv => NobodyStranded
  BY DEF IInv
<1>2. QED
  BY <1>1, Invariant, PTL

-----------------------------------------------------------------------------
\* The balances.

\* A request that has begun is one in use, for an amount in use.
Begun(t) ==
    pc[t] # "idle" => /\ job[t].op \in Ops
                      /\ job[t].op \in {"checkout", "return"} => job[t].qty \in Amounts
                      /\ job[t].op = "correct" => job[t].qty \in Amounts \cup {0}
UInv == ReturnsCovered /\ \A t \in Threads : Begun(t)

LEMMA InitUInv == Init => UInv
<1>1. \A h \in HeldAtStart : h >= 0
  BY ToolCustodyAssumption DEF ToolCustodyAssumption
<1>2. Init => ReturnsCovered
  BY <1>1 DEF Init, ReturnsCovered
<1>3. QED
  BY <1>2 DEF Init, UInv, Begun

LEMMA BegunStep ==
  ASSUME TypeOK, NEW s \in Threads, Begun(s), [Next]_vars
  PROVE  Begun(s)'
<1>1. ASSUME NEW t \in Threads, Request(t) PROVE Begun(s)'
  <2>1. CASE s = t
    BY <1>1, <2>1 DEF Request, Call, Begun, TypeOK, UserOps
  <2>2. CASE s # t
    BY <1>1, <2>2 DEF Request, Call, Begun, TypeOK
  <2>3. QED
    BY <2>1, <2>2
<1>2. ASSUME NEW t \in Threads, Work(t) PROVE Begun(s)'
  <2>1. pc[t] # "idle"
    BY <1>2, SMTT(30) DEF Work, LockUser, LockTool, ReadCustody, LockHeld, CommitCheckout, CommitReturn,
                CommitCorrect, CommitRetire, CommitArchive, Refuse, NotFound, Refused,
                AbortDeadlock, Waits, Doing
  <2>2. job' = job /\ (s # t => pc'[s] = pc[s])
    BY <1>2 DEF Work, LockUser, LockTool, ReadCustody, LockHeld, CommitCheckout, CommitReturn,
                CommitCorrect, CommitRetire, CommitArchive, Refuse, AbortDeadlock, Release, TypeOK
  <2>3. QED
    BY <2>1, <2>2, SMTT(30) DEF Begun
<1>3. ASSUME NEW u \in Users, Restore(u) PROVE Begun(s)'
  BY <1>3 DEF Restore, Begun
<1>4. CASE UNCHANGED vars
  BY <1>4 DEF vars, Begun
<1>5. QED
  BY <1>1, <1>2, <1>3, <1>4 DEF Next

\* Every step is an operation of the ledger or none.
LEMMA StepRefines ==
  ASSUME TypeOK, IInv, UInv, [Next]_vars
  PROVE  [Crib!Next]_<<onHand, out, live, active>>
<1> USE DEF Crib!Next
<1>1. ASSUME NEW t \in Threads, CommitCheckout(t) PROVE Crib!Next
  <2> DEFINE k == job[t].tool
             u == job[t].user
             q == job[t].qty
  <2>1. pc[t] = "locked" /\ job[t].op = "checkout"
    BY <1>1 DEF CommitCheckout, Doing
  <2>2. /\ k \in Tools /\ u \in Users /\ q \in Amounts /\ q \in Nat /\ live[k] /\ active[u]
        /\ count[t][k] = onHand[k] /\ onHand[k] \in Int
    BY <2>1, AtTool DEF UInv, Begun, TypeOK
  <2>3. q <= onHand[k] /\ count[t][k] + (-q) = onHand[k] - q
    BY <1>1, <2>2 DEF CommitCheckout, Overdrawn
  <2>4. Crib!Checkout(k, u, q)
    BY <1>1, <2>2, <2>3 DEF CommitCheckout, Book, Crib!Checkout
  <2>5. QED
    BY <2>2, <2>4
<1>2. ASSUME NEW t \in Threads, CommitReturn(t) PROVE Crib!Next
  <2> DEFINE k == job[t].tool
             u == job[t].user
             q == job[t].qty
  <2>1. pc[t] = "locked" /\ job[t].op = "return"
    BY <1>2 DEF CommitReturn, Doing
  <2>2. /\ k \in Tools /\ u \in Users /\ q \in Amounts /\ q \in Nat /\ live[k]
        /\ count[t][k] = onHand[k] /\ out[k][u] \in Int
    BY <2>1, AtTool DEF UInv, Begun, TypeOK
  <2>3. Crib!Return(k, u, q)
    BY <1>2, <2>2 DEF CommitReturn, Book, ExceedsCustody, Crib!Return, TypeOK
  <2>4. QED
    BY <2>2, <2>3
<1>3. ASSUME NEW t \in Threads, CommitCorrect(t) PROVE Crib!Next
  <2> DEFINE k == job[t].tool
             q == job[t].qty
  <2>1. pc[t] = "locked" /\ job[t].op = "correct"
    BY <1>3 DEF CommitCorrect, Doing
  <2>2. /\ k \in Tools /\ q \in Amounts \cup {0} /\ q \in Nat /\ live[k]
        /\ count[t][k] = onHand[k] /\ onHand[k] \in Int
    BY <2>1, AtTool DEF UInv, Begun, TypeOK
  <2>3. count[t][k] + (q - count[t][k]) = q
    BY <2>2
  <2>4. Crib!CorrectCount(k, q)
    BY <1>3, <2>2, <2>3 DEF CommitCorrect, Book, Crib!CorrectCount
  <2>5. QED
    BY <2>2, <2>4
<1>4. ASSUME NEW t \in Threads, CommitRetire(t) PROVE Crib!Next
  <2> DEFINE k == job[t].tool
  <2>1. k \in Tools
    BY <1>4, AtTool DEF CommitRetire, Doing
  <2>2. \A u \in Users : out[k][u] \in Int /\ out[k][u] >= 0 /\ ~(out[k][u] > 0)
    BY <1>4, <2>1 DEF CommitRetire, StillOut, UInv, ReturnsCovered, TypeOK
  <2>3. Crib!RetireTool(k)
    BY <1>4, <2>2 DEF CommitRetire, Crib!RetireTool
  <2>4. QED
    BY <2>1, <2>3
<1>5. ASSUME NEW t \in Threads, CommitArchive(t) PROVE Crib!Next
  <2> DEFINE u == job[t].user
  <2>1. pc[t] = "read" /\ job[t].op \in UserOps /\ u \in Users
    BY <1>5 DEF CommitArchive, Doing, UserOps, TypeOK
  <2>2. \A k \in Tools : out[k][u] \in Nat /\ held[t][k] = out[k][u] /\ onHand[k] \in Int
    BY <2>1 DEF IInv, ReadingStands, Balance, UInv, ReturnsCovered, TypeOK
  <2>3. onHand' = [k \in Tools |-> onHand[k] + out[k][u]]
    <3>1. \A k \in ToReturn(t) : count[t][k] = onHand[k]
      BY <1>5 DEF CommitArchive, ToReturn, IInv, Fresh
    <3>2. \A k \in Tools \ ToReturn(t) : onHand[k] = onHand[k] + out[k][u]
      BY <2>2 DEF ToReturn
    <3>3. \A k \in Tools : (IF k \in ToReturn(t) THEN count[t][k] + held[t][k] ELSE onHand[k])
                              = onHand[k] + out[k][u]
      BY <2>2, <3>1, <3>2
    <3>4. QED
      BY <1>5, <3>3 DEF CommitArchive
  <2>4. out' = [k \in Tools |-> [out[k] EXCEPT ![u] = 0]]
    BY <1>5, <2>2 DEF CommitArchive
  <2>5. Crib!ArchiveUser(u)
    BY <1>5, <2>3, <2>4 DEF CommitArchive, Crib!ArchiveUser
  <2>6. QED
    BY <2>1, <2>5
<1>6. ASSUME NEW u \in Users, Restore(u) PROVE Crib!Next
  BY <1>6 DEF Restore, Crib!RestoreUser
<1>7. ASSUME NEW t \in Threads,
             \/ Request(t) \/ LockUser(t) \/ LockTool(t) \/ ReadCustody(t)
             \/ (\E k \in Tools : LockHeld(t, k)) \/ Refuse(t) \/ AbortDeadlock(t)
      PROVE  UNCHANGED <<onHand, out, live, active>>
  BY <1>7 DEF Request, Call, LockUser, LockTool, ReadCustody, LockHeld, Refuse, AbortDeadlock, crib
<1>8. CASE UNCHANGED vars
  BY <1>8 DEF vars
<1>9. QED
  BY <1>1, <1>2, <1>3, <1>4, <1>5, <1>6, <1>7, <1>8 DEF Next, Work

LEMMA BalanceInvariant == Spec => []UInv
<1>1. TypeOK /\ IInv /\ UInv /\ [Next]_vars => UInv'
  <2> SUFFICES ASSUME TypeOK, IInv, UInv, [Next]_vars PROVE UInv'
    OBVIOUS
  <2>1. \A t \in Threads : Begun(t)'
    BY BegunStep DEF UInv
  <2>2. CASE UNCHANGED out
    BY <2>1, <2>2 DEF UInv, ReturnsCovered
  <2>3. CASE Crib!Next
    <3>1. \A k \in Tools, u \in Users : out[k][u] \in Int /\ out[k][u] >= 0
      BY DEF UInv, ReturnsCovered, TypeOK
    <3>2. ASSUME NEW k \in Tools, NEW u \in Users, NEW q \in Amounts,
                 Crib!Checkout(k, u, q) \/ Crib!Return(k, u, q)
          PROVE  ReturnsCovered'
      <4>1. q \in Nat
        BY ToolCustodyAssumption DEF ToolCustodyAssumption
      <4>2. ASSUME NEW kk \in Tools, NEW uu \in Users PROVE out'[kk][uu] >= 0
        <5>1. CASE kk = k /\ uu = u
          BY <3>1, <3>2, <4>1, <5>1 DEF TypeOK, Crib!Checkout, Crib!Return
        <5>2. CASE ~(kk = k /\ uu = u)
          BY <3>1, <3>2, <5>2 DEF TypeOK, Crib!Checkout, Crib!Return
        <5>3. QED
          BY <5>1, <5>2
      <4>3. QED
        BY <4>2 DEF ReturnsCovered
    <3>3. ASSUME NEW u \in Users, Crib!ArchiveUser(u) PROVE ReturnsCovered'
      BY <3>1, <3>3 DEF ReturnsCovered, TypeOK, Crib!ArchiveUser
    <3>4. QED
      BY <2>1, <2>2, <2>3, <3>2, <3>3
         DEF Crib!Next, Crib!CorrectCount, Crib!RetireTool, Crib!RestoreUser, UInv
  <2>4. QED
    BY <2>2, <2>3, StepRefines
<1>2. QED
  BY <1>1, InitUInv, Invariant, PTL DEF Spec

\* No user ever returns more of a tool than he has out, nor is what he has taken
\* in twice: ReturnsCovered of ToolCustody.
THEOREM ReturnsAreCovered == Spec => []ReturnsCovered
<1>1. UInv => ReturnsCovered
  BY DEF UInv
<1>2. QED
  BY <1>1, BalanceInvariant, PTL

\* The locking requests implement the indivisible operations of ToolLedger:
\* BehavesAsLedger of ToolCustody.
THEOREM ImplementsLedger == Spec => BehavesAsLedger
<1>1. Init => Crib!Init
  BY DEF Init, Crib!Init
<1>2. TypeOK /\ IInv /\ UInv /\ [Next]_vars => [Crib!Next]_<<onHand, out, live, active>>
  BY StepRefines
<1>3. QED
  BY <1>1, <1>2, BalanceInvariant, Invariant, PTL DEF Spec, BehavesAsLedger, Crib!Spec, Crib!ledgerVars

-----------------------------------------------------------------------------
(* Weekly sheets.  The windows leave no gap before the latest end (NoGap), and *)
(* a printed sheet has all that was committed before its window closed (Prints). *)

ExportInstants == 0 .. xMaxNow
ExportJob == {Export!Idle} \cup [phase : {"commit", "render"}, start : ExportInstants, end : ExportInstants]

\* A window that does not lie in the future; the latest end exists.
ExportTInv ==
    /\ xNow \in ExportInstants
    /\ xCreated \in [xDispenses -> ExportInstants \cup {None}]
    /\ xCommitted \in [xDispenses -> ExportInstants \cup {None}]
    /\ xVoided \subseteq Export!Committed
    /\ xSheets \subseteq Export!SheetRows
    /\ xJob \in [Clerks -> ExportJob]
    /\ \A d \in xDispenses : xCommitted[d] # None => xCreated[d] # None
    /\ \A w \in xSheets : w.end <= xNow
    /\ \A t \in Clerks : xJob[t].phase # "idle" => xJob[t].end <= xNow
ExportHasLatest == xSheets # {} => \E w \in xSheets : \A v \in xSheets : v.end <= w.end

\* The windows leave no gap before the latest end, and an export still to commit
\* begins no later than that.
ExportNoGap ==
    /\ \A c \in Nat : c < Export!LatestEnd(xSheets) => \E w \in xSheets : Export!InWindow(c, w)
    /\ \A t \in Clerks : xJob[t].phase = "commit" => xJob[t].start <= Export!LatestEnd(xSheets)

\* A sheet still blank is its export's to render; a printed one has all that was
\* committed before its window closed.
ExportPrints ==
    /\ \A w \in xSheets : w.printed = None => xJob[w.by].phase = "render"
    /\ \A w \in xSheets : w.printed # None =>
          \A d \in Export!Committed \ xVoided :
             xCommitted[d] < w.end /\ Export!InWindow(xCreated[d], w) => d \in w.printed

ExportIInv == ExportTInv /\ ExportHasLatest /\ ExportNoGap /\ ExportPrints

-----------------------------------------------------------------------------
\* The maximum of a set of ends that has one.
LEMMA ExportLatestOf ==
    ASSUME ExportConstantsOK, NEW s \in SUBSET Export!SheetRows,
           s # {} => \E w \in s : \A v \in s : v.end <= w.end
    PROVE  /\ Export!LatestEnd(s) \in Nat /\ \A w \in s : w.end <= Export!LatestEnd(s)
           /\ s = {} => Export!LatestEnd(s) = 0
           /\ s # {} => \E w \in s : w.end = Export!LatestEnd(s)
<1>1. CASE s = {}
  BY <1>1 DEF Export!LatestEnd
<1>2. CASE s # {}
  <2> DEFINE E == {w.end : w \in s}
  <2>1. PICK w \in s : \A v \in s : v.end <= w.end
    BY <1>2
  <2>2. \A v \in s : v.end \in Nat
    BY DEF Export!SheetRows, ExportConstantsOK
  <2>3. w.end \in E /\ \A e \in E : e \in Nat /\ w.end >= e
    BY <2>1, <2>2
  <2>4. Export!Max(E) \in E /\ \A e \in E : Export!Max(E) >= e
    BY <2>3 DEF Export!Max
  <2>5. Export!LatestEnd(s) = Export!Max(E)
    BY <1>2 DEF Export!LatestEnd
  <2> QED
    BY <1>2, <2>2, <2>3, <2>4, <2>5
<1> QED
  BY <1>1, <1>2

LEMMA ExportInitIInv == ASSUME ExportConstantsOK, Export!Init PROVE ExportIInv
<1>1. ExportTInv /\ ExportHasLatest /\ ExportPrints
  BY DEF ExportConstantsOK, Export!Init, ExportTInv, ExportInstants, ExportJob, Export!Committed,
     ExportHasLatest, ExportPrints, Export!Idle
<1>2. ExportNoGap
  BY DEF Export!Init, ExportNoGap, Export!LatestEnd, Export!Idle
<1> QED
  BY <1>1, <1>2 DEF ExportIInv

\* Time passes, a dispense is flushed, committed or voided: no sheet changes.
LEMMA ExportDispenseStep ==
    ASSUME ExportConstantsOK, ExportIInv, Export!Tick \/ \E d \in xDispenses : Export!Flush(d) \/ Export!CommitDispense(d) \/ Export!Void(d)
    PROVE  ExportIInv'
<1> USE DEF ExportIInv
<1>1. xSheets' = xSheets /\ xJob' = xJob
  BY DEF Export!Tick, Export!Flush, Export!CommitDispense, Export!Void
<1>2. ExportHasLatest' /\ ExportNoGap'
  BY <1>1 DEF ExportHasLatest, ExportNoGap
<1>3. CASE Export!Tick
  BY <1>1, <1>2, <1>3 DEF ExportConstantsOK, Export!Tick, ExportTInv, ExportInstants, ExportJob,
     Export!Idle, Export!SheetRows, Export!Committed, ExportPrints
<1>4. ASSUME NEW d \in xDispenses, Export!Flush(d) PROVE ExportIInv'
  <2>1. ExportTInv'
    BY <1>4 DEF ExportConstantsOK, Export!Flush, ExportTInv, ExportInstants, Export!Committed
  <2>2. \A e \in Export!Committed : xCreated'[e] = xCreated[e]
    BY <1>4 DEF Export!Flush, ExportTInv, Export!Committed
  <2> QED
    BY <1>1, <1>2, <1>4, <2>1, <2>2 DEF Export!Flush, ExportPrints, Export!Committed
<1>5. ASSUME NEW d \in xDispenses, Export!CommitDispense(d) PROVE ExportIInv'
  <2>1. ExportTInv'
    BY <1>5 DEF ExportConstantsOK, Export!CommitDispense, ExportTInv, ExportInstants,
       Export!Committed
  <2>2. Export!Committed' = Export!Committed \cup {d} /\ \A e \in Export!Committed : xCommitted'[e] = xCommitted[e]
    BY <1>5, <1>1 DEF ExportConstantsOK, Export!CommitDispense, ExportTInv, ExportInstants,
       Export!Committed
  <2>3. xCommitted'[d] = xNow /\ xNow \in Nat /\ \A w \in xSheets : w.end \in Nat /\ w.end <= xNow
    BY <1>5 DEF ExportConstantsOK, Export!CommitDispense, ExportTInv, ExportInstants,
       Export!SheetRows
  <2> QED
    BY <1>1, <1>2, <1>5, <2>1, <2>2, <2>3 DEF Export!CommitDispense, ExportPrints
<1>6. ASSUME NEW d \in xDispenses, Export!Void(d) PROVE ExportIInv'
  <2>1. ExportTInv'
    BY <1>6 DEF Export!Void, ExportTInv, Export!Committed
  <2> QED
    BY <1>1, <1>2, <1>6, <2>1 DEF Export!Void, ExportPrints, Export!Committed
<1> QED
  BY <1>3, <1>4, <1>5, <1>6

LEMMA ExportStartStep ==
    ASSUME ExportConstantsOK, ExportIInv, NEW t \in Clerks, Export!Start(t)
    PROVE  ExportIInv'
<1> DEFINE j == [phase |-> "commit", start |-> Export!LatestEnd(xSheets), end |-> xNow]
<1>1. /\ xJob' = [xJob EXCEPT ![t] = j] /\ xJob[t].phase = "idle"
      /\ UNCHANGED <<xNow, xCreated, xCommitted, xVoided, xSheets>>
  BY DEF Export!Start
<1>2. /\ Export!LatestEnd(xSheets) \in Nat /\ \A w \in xSheets : w.end <= Export!LatestEnd(xSheets)
      /\ xSheets = {} => Export!LatestEnd(xSheets) = 0
      /\ xSheets # {} => \E w \in xSheets : w.end = Export!LatestEnd(xSheets)
  BY ExportLatestOf DEF ExportIInv, ExportTInv, ExportHasLatest
<1>3. Export!LatestEnd(xSheets) \in ExportInstants /\ xNow \in ExportInstants
  BY <1>2 DEF ExportConstantsOK, ExportIInv, ExportTInv, Export!SheetRows, ExportInstants
<1>4. j \in ExportJob /\ j.phase = "commit" /\ j.start = Export!LatestEnd(xSheets) /\ j.end = xNow
  BY <1>3 DEF ExportJob
<1> HIDE DEF j
<1>5. ExportTInv'
  BY <1>1, <1>3, <1>4 DEF ExportIInv, ExportTInv, Export!Committed, ExportConstantsOK,
     ExportInstants
<1>6. ExportHasLatest'
  BY <1>1 DEF ExportIInv, ExportHasLatest
<1>7. ExportNoGap'
  BY <1>1, <1>2, <1>4 DEF ExportIInv, ExportTInv, ExportNoGap
<1>8. ExportPrints'
  BY <1>1, <1>4 DEF ExportIInv, ExportTInv, ExportPrints, Export!Committed, Export!SheetRows
<1> QED
  BY <1>5, <1>6, <1>7, <1>8 DEF ExportIInv

\* The new window begins no later than the latest end, so it leaves no gap.
LEMMA ExportCommitRunStep ==
    ASSUME ExportConstantsOK, ExportIInv, NEW t \in Clerks, Export!CommitRun(t)
    PROVE  ExportIInv'
<1> DEFINE n == [start |-> xJob[t].start, end |-> xJob[t].end, by |-> t, printed |-> None]
<1>1. /\ xSheets' = xSheets \cup {n} /\ xJob' = [xJob EXCEPT ![t].phase = "render"]
      /\ xJob[t].phase = "commit" /\ UNCHANGED <<xNow, xCreated, xCommitted, xVoided>>
  BY DEF Export!CommitRun
<1>2. /\ xJob[t] \in [phase : {"commit", "render"}, start : ExportInstants, end : ExportInstants]
      /\ xJob[t].start <= Export!LatestEnd(xSheets) /\ xJob[t].end <= xNow /\ xNow \in ExportInstants
  BY <1>1 DEF ExportIInv, ExportTInv, ExportJob, Export!Idle, ExportNoGap
<1>3. n \in Export!SheetRows /\ n.start = xJob[t].start /\ n.end = xJob[t].end /\ n.by = t /\ n.printed = None
  BY <1>2 DEF Export!SheetRows, ExportInstants
<1>4. PICK j \in ExportJob : /\ xJob' = [xJob EXCEPT ![t] = j] /\ j.phase = "render"
                             /\ j.start = xJob[t].start /\ j.end = xJob[t].end
  <2> DEFINE r == [xJob[t] EXCEPT !.phase = "render"]
  <2>1. r \in ExportJob /\ r.phase = "render" /\ r.start = xJob[t].start /\ r.end = xJob[t].end
    BY <1>2 DEF ExportJob
  <2>2. xJob' = [xJob EXCEPT ![t] = r]
    BY <1>1
  <2> HIDE DEF r
  <2> QED
    BY <2>1, <2>2
<1> HIDE DEF n
<1>5. ExportTInv'
  BY <1>1, <1>2, <1>3, <1>4 DEF ExportIInv, ExportTInv, Export!Committed
<1>6. ExportHasLatest'
  <2>1. \A w \in xSheets \cup {n} : w.end \in Nat
    BY <1>3 DEF ExportConstantsOK, ExportIInv, ExportTInv, Export!SheetRows
  <2>2. CASE xSheets = {}
    BY <1>1, <2>1, <2>2 DEF ExportHasLatest
  <2>3. CASE xSheets # {}
    <3>1. PICK w \in xSheets : \A v \in xSheets : v.end <= w.end
      BY <2>3 DEF ExportIInv, ExportHasLatest
    <3>2. CASE n.end <= w.end
      BY <1>1, <3>1, <3>2 DEF ExportHasLatest
    <3>3. CASE w.end < n.end
      BY <1>1, <2>1, <3>1, <3>3 DEF ExportHasLatest
    <3> QED
      BY <2>1, <3>2, <3>3
  <2> QED
    BY <2>2, <2>3
<1>7. /\ Export!LatestEnd(xSheets) \in Nat /\ Export!LatestEnd(xSheets)' \in Nat
      /\ Export!LatestEnd(xSheets) <= Export!LatestEnd(xSheets)'
      /\ Export!LatestEnd(xSheets)' \in {Export!LatestEnd(xSheets), n.end}
  <2>1. /\ Export!LatestEnd(xSheets) \in Nat /\ \A w \in xSheets : w.end <= Export!LatestEnd(xSheets)
        /\ xSheets = {} => Export!LatestEnd(xSheets) = 0
        /\ xSheets # {} => \E w \in xSheets : w.end = Export!LatestEnd(xSheets)
    BY ExportLatestOf DEF ExportIInv, ExportTInv, ExportHasLatest
  <2>2. PICK s : s = xSheets'
    OBVIOUS
  <2>3. s \in SUBSET Export!SheetRows /\ (s # {} => \E w \in s : \A v \in s : v.end <= w.end)
    BY <1>5, <1>6, <2>2 DEF ExportTInv, ExportHasLatest
  <2>4. /\ Export!LatestEnd(s) \in Nat /\ \A w \in s : w.end <= Export!LatestEnd(s)
        /\ s # {} => \E w \in s : w.end = Export!LatestEnd(s)
    BY <2>3, ExportLatestOf
  <2>5. s = xSheets \cup {n} /\ n.end \in Nat /\ \A w \in xSheets : w.end \in Nat
    BY <1>1, <1>3, <2>2 DEF ExportConstantsOK, ExportIInv, ExportTInv, Export!SheetRows
  <2>6. Export!LatestEnd(xSheets) <= Export!LatestEnd(s) /\ Export!LatestEnd(s) \in {Export!LatestEnd(xSheets), n.end}
    BY <2>1, <2>4, <2>5
  <2>7. Export!LatestEnd(xSheets)' = Export!LatestEnd(s)
    BY <2>2 DEF Export!LatestEnd
  <2> QED
    BY <2>1, <2>4, <2>6, <2>7
<1>8. ExportNoGap'
  <2> HIDE DEF ExportIInv
  <2>1. ASSUME NEW c \in Nat, c < Export!LatestEnd(xSheets)'
        PROVE  \E w \in xSheets' : Export!InWindow(c, w)
    <3>1. CASE c < Export!LatestEnd(xSheets)
      BY <1>1, <3>1 DEF ExportIInv, ExportNoGap
    <3>2. CASE Export!LatestEnd(xSheets) <= c
      <4>1. n.start \in Nat /\ n.end \in Nat /\ n.start <= Export!LatestEnd(xSheets)
        BY <1>2, <1>3 DEF ExportInstants
      <4>2. Export!LatestEnd(xSheets)' = n.end
        BY <1>7, <2>1, <3>2
      <4>3. n.start <= c /\ c < n.end
        BY <1>7, <2>1, <3>2, <4>1, <4>2
      <4> QED
        BY <1>1, <4>3 DEF Export!InWindow
    <3> QED
      BY <1>7, <3>1, <3>2
  <2>2. ASSUME NEW v \in Clerks, xJob'[v].phase = "commit"
        PROVE  xJob'[v].start <= Export!LatestEnd(xSheets)'
    <3>1. v # t /\ xJob'[v] = xJob[v]
      BY <1>4, <2>2 DEF ExportIInv, ExportTInv
    <3>2. xJob[v].start \in Nat /\ xJob[v].start <= Export!LatestEnd(xSheets)
      BY <2>2, <3>1 DEF ExportIInv, ExportTInv, ExportNoGap, ExportJob, Export!Idle, ExportInstants
    <3> QED
      BY <1>7, <3>1, <3>2
  <2> QED
    BY <2>1, <2>2 DEF ExportNoGap
<1>9. ExportPrints'
  BY <1>1, <1>3, <1>4 DEF ExportIInv, ExportTInv, ExportPrints, Export!Committed, Export!SheetRows
<1> QED
  BY <1>5, <1>6, <1>8, <1>9 DEF ExportIInv

\* Rendering fills the blank sheets of one export and moves no window.
LEMMA ExportRenderStep ==
    ASSUME ExportConstantsOK, ExportIInv, NEW t \in Clerks, Export!Render(t)
    PROVE  ExportIInv'
<1> DEFINE Filled(w) == IF w.by = t /\ w.printed = None THEN [w EXCEPT !.printed = Export!Printable(w)]
                        ELSE w
<1>1. /\ xSheets' = {Filled(w) : w \in xSheets} /\ xJob' = [xJob EXCEPT ![t] = Export!Idle]
      /\ xJob[t].phase = "render" /\ UNCHANGED <<xNow, xCreated, xCommitted, xVoided>>
  BY DEF Export!Render
<1>2. ASSUME NEW w \in xSheets
      PROVE  /\ Filled(w) \in Export!SheetRows /\ Filled(w).start = w.start /\ Filled(w).end = w.end
             /\ Filled(w).by = w.by
             /\ w.by = t /\ w.printed = None => Filled(w).printed = Export!Printable(w)
             /\ ~(w.by = t /\ w.printed = None) => Filled(w).printed = w.printed
             /\ Export!Printable(w) # None
  <2>1. Export!Printable(w) \in SUBSET xDispenses
    BY DEF Export!Printable, Export!Committed
  <2>2. w \in Export!SheetRows
    BY DEF ExportIInv, ExportTInv
  <2> HIDE DEF ExportIInv
  <2> QED
    BY <2>1, <2>2 DEF ExportConstantsOK, Export!SheetRows
<1> HIDE DEF Filled
<1>3. /\ \A w \in xSheets' : \E v \in xSheets : w = Filled(v)
      /\ \A v \in xSheets : Filled(v) \in xSheets'
  BY <1>1
<1>4. Export!Idle \in ExportJob /\ Export!Idle.phase = "idle"
  BY DEF Export!Idle, ExportJob
<1>5. ExportTInv'
  <2>1. xSheets' \subseteq Export!SheetRows /\ \A w \in xSheets' : w.end <= xNow
    BY <1>2, <1>3 DEF ExportIInv, ExportTInv
  <2> QED
    BY <1>1, <1>4, <2>1 DEF ExportIInv, ExportTInv, Export!Committed
<1>6. ExportHasLatest'
  <2> SUFFICES ASSUME xSheets' # {} PROVE \E w \in xSheets' : \A v \in xSheets' : v.end <= w.end
    BY DEF ExportHasLatest
  <2>1. xSheets # {}
    BY <1>3
  <2>2. PICK w \in xSheets : \A v \in xSheets : v.end <= w.end
    BY <2>1 DEF ExportIInv, ExportHasLatest
  <2> QED
    BY <1>2, <1>3, <2>2
<1>7. Export!LatestEnd(xSheets)' = Export!LatestEnd(xSheets)
  <2>1. {w.end : w \in xSheets'} = {w.end : w \in xSheets}
    BY <1>2, <1>3
  <2>2. xSheets' = {} <=> xSheets = {}
    BY <1>3
  <2> QED
    BY <2>1, <2>2 DEF Export!LatestEnd
<1>8. ExportNoGap'
  <2>1. ASSUME NEW c \in Nat, c < Export!LatestEnd(xSheets)
        PROVE  \E w \in xSheets' : Export!InWindow(c, w)
    <3>1. PICK w \in xSheets : Export!InWindow(c, w)
      BY <2>1 DEF ExportIInv, ExportNoGap
    <3> QED
      BY <1>2, <1>3, <3>1 DEF Export!InWindow
  <2>2. \A v \in Clerks : xJob'[v].phase = "commit" => xJob'[v] = xJob[v]
    BY <1>1, <1>4 DEF ExportIInv, ExportTInv
  <2> QED
    BY <1>7, <2>1, <2>2 DEF ExportIInv, ExportNoGap
<1>9. ExportPrints'
  <2>1. ASSUME NEW v \in xSheets, Filled(v).printed = None
        PROVE  xJob'[Filled(v).by].phase = "render"
    <3>1. v.printed = None /\ v.by # t /\ v.by \in Clerks
      BY <1>2, <2>1 DEF ExportIInv, ExportTInv, Export!SheetRows
    <3> QED
      BY <1>1, <1>2, <3>1 DEF ExportIInv, ExportTInv, ExportPrints
  <2>2. ASSUME NEW v \in xSheets, Filled(v).printed # None,
               NEW d \in Export!Committed \ xVoided,
               xCommitted[d] < v.end, Export!InWindow(xCreated[d], v)
        PROVE  d \in Filled(v).printed
    <3>1. CASE v.by = t /\ v.printed = None
      BY <1>2, <2>2, <3>1 DEF Export!Printable
    <3>2. CASE ~(v.by = t /\ v.printed = None)
      BY <1>2, <2>2, <3>2 DEF ExportIInv, ExportPrints
    <3> QED
      BY <3>1, <3>2
  <2>3. Export!Committed' = Export!Committed
    BY <1>1 DEF Export!Committed
  <2> QED
    BY <1>1, <1>2, <1>3, <2>1, <2>2, <2>3 DEF ExportPrints, Export!InWindow
<1> QED
  BY <1>5, <1>6, <1>8, <1>9 DEF ExportIInv

-----------------------------------------------------------------------------
(* The theorems *)

LEMMA ExportInvariant == ExportConstantsOK => (Export!Spec => []ExportIInv)
<1> SUFFICES ASSUME ExportConstantsOK PROVE Export!Spec => []ExportIInv
  OBVIOUS
<1>1. ExportIInv /\ UNCHANGED Export!vars => ExportIInv'
  BY DEF Export!vars, ExportIInv, ExportTInv, ExportHasLatest, ExportNoGap, ExportPrints,
     Export!Committed, Export!InWindow
<1>2. ExportIInv /\ [Export!Next]_Export!vars => ExportIInv'
  BY <1>1, ExportDispenseStep, ExportStartStep, ExportCommitRunStep,
     ExportRenderStep DEF Export!Next
<1> QED
  BY <1>2, ExportInitIInv, PTL DEF Export!Spec

\* Every operation leaves every variable in its type: TypeOK of WeeklyExport.
THEOREM ExportTypeCorrect == ExportConstantsOK => (Export!Spec => []Export!TypeOK)
<1>1. ExportIInv => Export!TypeOK
  BY DEF ExportIInv, ExportTInv, Export!TypeOK, ExportInstants
<1> QED
  BY <1>1, ExportInvariant, PTL

\* Whatever exports overlap, a dispense committed before every window over it closed
\* is on a sheet once they are rendered: NothingSkipped (dispense_export_xlsx.py).
THEOREM ExportNothingIsSkipped == ExportConstantsOK => (Export!Spec => []Export!NothingSkipped)
<1> SUFFICES ASSUME ExportConstantsOK PROVE Export!Spec => []Export!NothingSkipped
  OBVIOUS
<1>1. ASSUME ExportIInv PROVE Export!NothingSkipped
  <2> SUFFICES ASSUME Export!Rendered, NEW d \in Export!Committed \ xVoided,
                      NEW v \in xSheets, v.end > xCreated[d],
                      \A w \in xSheets : w.end > xCreated[d] => xCommitted[d] < w.end
               PROVE  Export!SheetsOf(d) # {}
    BY DEF Export!NothingSkipped
  <2>1. xCreated[d] \in Nat /\ \A w \in xSheets : w.end \in Nat /\ w.by \in Clerks
    BY <1>1 DEF ExportConstantsOK, ExportIInv, ExportTInv, Export!Committed, ExportInstants,
       Export!SheetRows
  <2>2. Export!LatestEnd(xSheets) \in Nat /\ v.end <= Export!LatestEnd(xSheets)
    BY <1>1, ExportLatestOf DEF ExportIInv, ExportTInv, ExportHasLatest
  <2>3. PICK w \in xSheets : Export!InWindow(xCreated[d], w)
    BY <1>1, <2>1, <2>2 DEF ExportIInv, ExportNoGap
  <2>4. w.printed # None
    BY <1>1, <2>1 DEF ExportIInv, ExportPrints, Export!Rendered
  <2>5. d \in w.printed
    BY <1>1, <2>1, <2>3, <2>4 DEF ExportIInv, ExportPrints, Export!InWindow
  <2> QED
    BY <2>4, <2>5 DEF Export!SheetsOf
<1> QED
  BY <1>1, ExportInvariant, PTL

-----------------------------------------------------------------------------
(* Item codes.  The database keeps each kind of code unique (Unique), the check *)
(* made before a write the two kinds apart (Claims, OneHolder), and one edit at *)
(* a time locks an item (EditsApart).                                      *)

\* What a request under way may rely on: a deleted item stays deleted.
CatalogueWellRead(j) ==
    /\ j.req.op \in {"create", "edit", "relabel"}
    /\ j.adds \subseteq iCodes
    /\ j.req.op = "create" => j.req.id = None /\ j.req.code \in j.adds
    /\ j.req.op # "create" => j.req.id \in Catalogue!Ids /\ iItem[j.req.id] # None
    /\ j.req.op = "edit" => j.req.code \in iCodes
                            /\ (iItem[j.req.id].primary = j.req.code \/ j.req.code \in j.adds)
    /\ \A f \in j.frees : /\ f.id \in Catalogue!Ids /\ f.id # j.req.id /\ f.code \in iCodes
                          /\ iItem[f.id] # None /\ iItem[f.id].archived

CatalogueTInv ==
    /\ iItem \in [Catalogue!Ids -> Catalogue!ItemRows \cup {None}]
    /\ DOMAIN iJob = Clerks
    /\ \A t \in Clerks : iJob[t].phase \in {"idle", "commit"}
    /\ \A t \in Clerks : iJob[t].phase = "commit" => CatalogueWellRead(iJob[t])
    /\ {iRaced, iRefused} \subseteq SUBSET iCodes

\* One edit at a time locks an item.
CatalogueEditsApart ==
    \A s, t \in Clerks :
        /\ s # t /\ iJob[s].phase = "commit" /\ iJob[t].phase = "commit"
        /\ iJob[s].req.op = "edit" /\ iJob[t].req.op = "edit"
        => iJob[s].req.id # iJob[t].req.id

\* The database's two unique constraints.
CatalogueUnique ==
    \A i, k \in Catalogue!Ids :
        i # k /\ iItem[i] # None /\ iItem[k] # None =>
            /\ iItem[i].primary = iItem[k].primary => iItem[i].primary = None
            /\ iItem[i].alts \cap iItem[k].alts = {}

\* Nobody else has a live item's code as his primary.
CatalogueOneHolder(c) ==
    \A i, k \in Catalogue!Ids :
        /\ i # k /\ iItem[i] # None /\ iItem[k] # None
        /\ ~iItem[i].archived /\ (iItem[i].primary = c \/ c \in iItem[i].alts)
        => iItem[k].primary # c

\* A code about to be written is on no other live item, and whose primary it
\* is gives it up.
CatalogueClear(j, c) ==
    \A i \in Catalogue!Ids :
        i # j.req.id /\ iItem[i] # None =>
            /\ iItem[i].primary = c \/ c \in iItem[i].alts => iItem[i].archived
            /\ iItem[i].primary = c => \E f \in j.frees : f.id = i /\ f.how \in {"purge", "retire"}

CatalogueClaims == \A t \in Clerks : iJob[t].phase = "commit" => \A c \in iJob[t].adds \ iRaced : CatalogueClear(iJob[t], c)

CatalogueIInv ==
    /\ CatalogueTInv /\ CatalogueEditsApart /\ CatalogueUnique /\ CatalogueClaims
    /\ \A c \in iCodes \ iRaced : CatalogueOneHolder(c)
    /\ iStolen = {}

\* A set of the Catalogue instance is as large as elsewhere.
LEMMA CatalogueSizes == ASSUME NEW S PROVE Catalogue!Cardinality(S) = Cardinality(S)
  BY DEF Catalogue!Cardinality, Cardinality

-----------------------------------------------------------------------------
LEMMA CatalogueLeastIsOne == ASSUME NEW S \in SUBSET Nat, S # {} PROVE Catalogue!Min(S) \in S
<1>1. PICK R : R = OpToRel(<, Nat) /\ IsWellFoundedOn(R, Nat)
  BY NatLessThanWellFounded, Zenon
<1>2. ASSUME NEW y \in Nat, NEW x \in Nat, <<y, x>> \notin R PROVE x <= y
  <2>1. <<y, x>> \in Nat \X Nat
    OBVIOUS
  <2>2. ~(y < x)
    BY <1>1, <1>2, <2>1, Zenon DEF OpToRel
  <2> QED
    BY <2>2
<1>3. PICK x \in S : \A y \in S : ~(<<y, x>> \in R)
  <2>1. S \subseteq Nat
    OBVIOUS
  <2> QED
    BY <1>1, <2>1, WFMin, Zenon
<1>4. \A y \in S : x <= y
  BY <1>2, <1>3
<1> QED
  BY <1>4 DEF Catalogue!Min

LEMMA CatalogueInitIInv == ASSUME CatalogueConstantsOK, Catalogue!Init PROVE CatalogueIInv
  BY DEF CatalogueConstantsOK, Catalogue!Init, CatalogueIInv, CatalogueTInv, CatalogueEditsApart,
     CatalogueUnique, CatalogueClaims, CatalogueOneHolder, Catalogue!Idle, Catalogue!Ids

\* What Holder finds: somebody else who has the code, by preference as primary.
LEMMA CatalogueHolderFacts ==
    ASSUME CatalogueConstantsOK, CatalogueTInv, NEW c \in iCodes, NEW self,
           \A h \in {Catalogue!Holder(c, self)} \ {None} : iItem[h].archived
    PROVE  /\ Catalogue!Holder(c, self) # None =>
                 /\ Catalogue!Holder(c, self) \in Catalogue!Items \ {self}
                 /\ c \in Catalogue!Held(Catalogue!Holder(c, self)) /\ iItem[Catalogue!Holder(c, self)].archived
           /\ \A i \in Catalogue!Items \ {self} : c \in Catalogue!Held(i) =>
                 /\ Catalogue!Holder(c, self) # None
                 /\ iItem[i].primary = c => iItem[Catalogue!Holder(c, self)].primary = c
<1> DEFINE others == Catalogue!Holders(c) \ {self}
           primary == {i \in others : iItem[i].primary = c}
<1>1. others \subseteq Nat /\ primary \subseteq others
  BY DEF Catalogue!Holders, Catalogue!Items, Catalogue!Ids, CatalogueConstantsOK
<1>2. CASE others = {}
  BY <1>1, <1>2 DEF Catalogue!Holder, Catalogue!Holders
<1>3. CASE others # {} /\ primary # {}
  <2>1. Catalogue!Min(primary) \in primary
    BY <1>1, <1>3, CatalogueLeastIsOne
  <2>2. Catalogue!Holder(c, self) = Catalogue!Min(primary)
    BY <1>3 DEF Catalogue!Holder
  <2> QED
    BY <1>1, <2>1, <2>2 DEF Catalogue!Holders, CatalogueConstantsOK
<1>4. CASE others # {} /\ primary = {}
  <2>1. Catalogue!Min(others) \in others
    BY <1>1, <1>4, CatalogueLeastIsOne
  <2>2. Catalogue!Holder(c, self) = Catalogue!Min(others)
    BY <1>4 DEF Catalogue!Holder
  <2> QED
    BY <1>1, <1>4, <2>1, <2>2 DEF Catalogue!Holders, CatalogueConstantsOK
<1> QED
  BY <1>2, <1>3, <1>4

LEMMA CatalogueHeldIs ==
    ASSUME NEW i \in Catalogue!Ids, NEW c
    PROVE  c \in Catalogue!Held(i) <=> iItem[i].primary = c \/ c \in iItem[i].alts
  BY DEF Catalogue!Held

\* What a request may ask for.
LEMMA CatalogueAskedIs ==
    ASSUME CatalogueConstantsOK, NEW t \in Clerks, NEW o \in iSends[t], NEW r \in Catalogue!Asked(o)
    PROVE  /\ o \in {"create", "edit", "relabel"} /\ r.op = o
           /\ o = "create" => r.id = None /\ r.code \in iCodes
           /\ o # "create" => r.id \in Catalogue!Items
           /\ o = "edit" => r.code \in iCodes
           /\ o = "relabel" => r.codes \in SUBSET iCodes
<1>1. o \in {"create", "edit", "relabel"}
  BY DEF CatalogueConstantsOK
<1>2. CASE o = "create"
  BY <1>2 DEF Catalogue!Asked, Catalogue!Ask
<1>3. CASE o = "edit"
  BY <1>3 DEF Catalogue!Asked, Catalogue!Ask
<1>4. CASE o = "relabel"
  BY <1>4 DEF Catalogue!Asked, Catalogue!Ask
<1> QED
  BY <1>1, <1>2, <1>3, <1>4

\* A request that has read holds what it will write.
LEMMA CatalogueReadStep ==
    ASSUME CatalogueConstantsOK, CatalogueIInv, NEW t \in Clerks, Catalogue!Read(t)
    PROVE  CatalogueIInv'
<1>1. PICK o \in iSends[t] : \E r \in Catalogue!Asked(o) :
        /\ o = "edit" => ~Catalogue!Locked(r.id)
        /\ Catalogue!Accepted(r)
        /\ iJob' = [iJob EXCEPT ![t] =
             [phase |-> "commit", req |-> r, adds |-> Catalogue!NewCodes(r),
              frees |-> {Catalogue!Freed(Catalogue!Holder(c, r.id), c) : c \in
                            {c \in Catalogue!NewCodes(r) : Catalogue!Holder(c, r.id) # None}},
              drops |-> IF r.op = "relabel" THEN iItem[r.id].alts \ r.codes ELSE {}]]
  BY DEF Catalogue!Read
<1>2. PICK r \in Catalogue!Asked(o) :
        /\ o = "edit" => ~Catalogue!Locked(r.id)
        /\ Catalogue!Accepted(r)
        /\ iJob' = [iJob EXCEPT ![t] =
             [phase |-> "commit", req |-> r, adds |-> Catalogue!NewCodes(r),
              frees |-> {Catalogue!Freed(Catalogue!Holder(c, r.id), c) : c \in
                            {c \in Catalogue!NewCodes(r) : Catalogue!Holder(c, r.id) # None}},
              drops |-> IF r.op = "relabel" THEN iItem[r.id].alts \ r.codes ELSE {}]]
  BY <1>1
<1>3. UNCHANGED <<iItem, iRaced, iStolen, iRefused>> /\ iJob[t].phase = "idle"
  BY DEF Catalogue!Read
<1> DEFINE frees == {Catalogue!Freed(Catalogue!Holder(c, r.id), c) : c \in {c \in Catalogue!NewCodes(r) : Catalogue!Holder(c, r.id) # None}}
           j == iJob'[t]
<1>4. /\ j.phase = "commit" /\ j.req = r /\ j.adds = Catalogue!NewCodes(r) /\ j.frees = frees
      /\ DOMAIN iJob' = Clerks /\ \A u \in Clerks \ {t} : iJob'[u] = iJob[u]
  BY <1>2 DEF CatalogueIInv, CatalogueTInv
<1>5. /\ r.op \in {"create", "edit", "relabel"}
      /\ r.op = "create" => r.id = None /\ r.code \in iCodes
      /\ r.op # "create" => r.id \in Catalogue!Items
      /\ r.op = "edit" => r.code \in iCodes /\ ~Catalogue!Locked(r.id)
      /\ r.op = "relabel" => r.codes \in SUBSET iCodes
  BY <1>2, CatalogueAskedIs
<1>6. /\ Catalogue!NewCodes(r) \subseteq iCodes
      /\ r.op = "create" => r.code \in Catalogue!NewCodes(r)
      /\ r.op = "edit" => iItem[r.id].primary = r.code \/ r.code \in Catalogue!NewCodes(r)
  BY <1>5 DEF Catalogue!NewCodes
<1>7. \A c \in Catalogue!NewCodes(r) : \A h \in {Catalogue!Holder(c, r.id)} \ {None} : iItem[h].archived
  BY <1>2 DEF Catalogue!Accepted, Catalogue!CodeFree
<1>8. \A c \in Catalogue!NewCodes(r) :
        /\ Catalogue!Holder(c, r.id) # None =>
              /\ Catalogue!Holder(c, r.id) \in Catalogue!Items \ {r.id}
              /\ c \in Catalogue!Held(Catalogue!Holder(c, r.id)) /\ iItem[Catalogue!Holder(c, r.id)].archived
        /\ \A i \in Catalogue!Items \ {r.id} : c \in Catalogue!Held(i) =>
              /\ Catalogue!Holder(c, r.id) # None
              /\ iItem[i].primary = c => iItem[Catalogue!Holder(c, r.id)].primary = c
  BY <1>6, <1>7, CatalogueHolderFacts DEF CatalogueIInv
<1>9. \A f \in frees : \E c \in Catalogue!NewCodes(r) :
        /\ Catalogue!Holder(c, r.id) # None /\ f.id = Catalogue!Holder(c, r.id) /\ f.code = c
  BY DEF Catalogue!Freed
<1>10. \A i \in Catalogue!Items : i \in Catalogue!Ids /\ iItem[i] # None
  BY DEF Catalogue!Items
<1> HIDE DEF frees, j
<1>11. CatalogueWellRead(j)
  <2>1. \A f \in frees : /\ f.id \in Catalogue!Ids /\ f.id # r.id /\ f.code \in iCodes
                         /\ iItem[f.id] # None /\ iItem[f.id].archived
    BY <1>6, <1>8, <1>9, <1>10
  <2> QED
    BY <1>4, <1>5, <1>6, <1>10, <2>1 DEF CatalogueWellRead
<1>12. CatalogueTInv'
  <2>1. \A u \in Clerks : iJob'[u].phase = "commit" => CatalogueWellRead(iJob[u])'
    BY <1>3, <1>4, <1>11 DEF CatalogueIInv, CatalogueTInv, CatalogueWellRead, j
  <2> QED
    BY <1>3, <1>4, <2>1 DEF CatalogueIInv, CatalogueTInv, j
<1>13. CatalogueEditsApart'
  BY <1>3, <1>4, <1>5 DEF CatalogueIInv, CatalogueEditsApart, Catalogue!Locked, j
<1>14. \A c \in Catalogue!NewCodes(r) \ iRaced : CatalogueClear(j, c)
  <2> SUFFICES ASSUME NEW c \in Catalogue!NewCodes(r) \ iRaced, NEW i \in Catalogue!Ids,
                      i # r.id, iItem[i] # None,
                      iItem[i].primary = c \/ c \in iItem[i].alts
               PROVE  /\ iItem[i].archived
                      /\ iItem[i].primary = c =>
                           \E f \in frees : f.id = i /\ f.how \in {"purge", "retire"}
    BY <1>4 DEF CatalogueClear
  <2>0. c \in iCodes /\ c # None
    BY <1>6 DEF CatalogueConstantsOK
  <2>1. i \in Catalogue!Items /\ c \in Catalogue!Held(i)
    BY <2>0 DEF Catalogue!Items, Catalogue!Purged, Catalogue!Held
  <2> DEFINE h == Catalogue!Holder(c, r.id)
  <2>2. h # None /\ h \in Catalogue!Items \ {r.id} /\ c \in Catalogue!Held(h) /\ iItem[h].archived
    BY <1>8, <2>1
  <2>3. iItem[i].primary = c => iItem[h].primary = c
    BY <1>8, <2>1
  <2>4. h \in Catalogue!Ids /\ iItem[h] # None
    BY <2>2 DEF Catalogue!Items
  <2> HIDE DEF h
  <2>5. iItem[i].archived
    <3> SUFFICES ASSUME ~iItem[i].archived PROVE FALSE
      OBVIOUS
    <3>1. i # h
      BY <2>2
    <3>2. iItem[h].primary # c
      BY <2>0, <2>4, <3>1 DEF CatalogueIInv, CatalogueOneHolder
    <3>3. c \in iItem[h].alts /\ c \in iItem[i].alts
      BY <2>2, <2>3, <3>2 DEF Catalogue!Held
    <3> QED
      BY <2>4, <3>1, <3>3 DEF CatalogueIInv, CatalogueUnique
  <2>6. ASSUME iItem[i].primary = c
        PROVE  \E f \in frees : f.id = i /\ f.how \in {"purge", "retire"}
    <3>1. h = i
      BY <2>0, <2>3, <2>4, <2>6 DEF CatalogueIInv, CatalogueUnique
    <3>2. Catalogue!Freed(h, c) \in frees
      BY <2>2 DEF frees, h
    <3>3. Catalogue!Freed(h, c).id = i /\ Catalogue!Freed(h, c).how \in {"purge", "retire"}
      BY <2>6, <3>1 DEF Catalogue!Freed
    <3> QED
      BY <3>2, <3>3
  <2> QED
    BY <2>5, <2>6
<1>15. CatalogueClaims'
  <2>1. \A u \in Clerks : iJob'[u].phase = "commit" => \A c \in iJob'[u].adds \ iRaced : CatalogueClear(iJob[u], c)'
    BY <1>3, <1>4, <1>14 DEF CatalogueIInv, CatalogueClaims, CatalogueClear, j
  <2> QED
    BY <1>3, <2>1 DEF CatalogueClaims
<1> QED
  BY <1>3, <1>12, <1>13, <1>15 DEF CatalogueIInv, CatalogueUnique, CatalogueOneHolder

\* The rows once the holders of the codes have given them up.
LEMMA CatalogueFreesRows ==
    ASSUME CatalogueConstantsOK, CatalogueTInv, NEW j, CatalogueWellRead(j)
    PROVE  LET rows == Catalogue!AfterFrees(j.frees) IN
           /\ rows \in [Catalogue!Ids -> Catalogue!ItemRows \cup {None}]
           /\ \A i \in Catalogue!Ids : iItem[i] = None <=> rows[i] = None
           /\ \A i \in Catalogue!Ids : iItem[i] # None =>
                /\ rows[i].archived = iItem[i].archived
                /\ rows[i].primary \in {iItem[i].primary, None}
                /\ rows[i].alts \subseteq iItem[i].alts
           /\ \A i \in Catalogue!Ids : (\A f \in j.frees : f.id # i) => rows[i] = iItem[i]
           /\ \A f \in j.frees : f.how \in {"purge", "retire"} => rows[f.id].primary = None
<1> DEFINE rows == Catalogue!AfterFrees(j.frees)
           mine(i) == {f \in j.frees : f.id = i}
           row(i) == IF mine(i) = {} \/ i \notin Catalogue!Items THEN iItem[i]
                     ELSE IF \E f \in mine(i) : f.how = "purge" THEN Catalogue!Purged
                     ELSE [iItem[i] EXCEPT
                             !.primary = IF \E f \in mine(i) : f.how = "retire" THEN None ELSE @,
                             !.alts = @ \ {f.code : f \in {f \in mine(i) : f.how = "drop"}}]
<1>1. rows = [i \in Catalogue!Ids |-> row(i)]
  BY DEF Catalogue!AfterFrees
<1>2. Catalogue!Purged \in Catalogue!ItemRows
  BY DEF Catalogue!Purged, Catalogue!ItemRows
<1>3. ASSUME NEW i \in Catalogue!Ids
      PROVE  /\ row(i) \in Catalogue!ItemRows \cup {None}
             /\ iItem[i] = None <=> row(i) = None
             /\ iItem[i] # None => /\ row(i).archived = iItem[i].archived
                                   /\ row(i).primary \in {iItem[i].primary, None}
                                   /\ row(i).alts \subseteq iItem[i].alts
             /\ mine(i) = {} => row(i) = iItem[i]
             /\ \A f \in mine(i) : f.how \in {"purge", "retire"} => row(i).primary = None
  <2>1. CASE mine(i) = {}
    BY <2>1 DEF CatalogueTInv
  <2>2. CASE mine(i) # {} /\ i \notin Catalogue!Items
    <3>1. iItem[i] # None
      BY <2>2 DEF CatalogueWellRead
    <3>2. iItem[i] = Catalogue!Purged
      BY <2>2, <3>1 DEF Catalogue!Items
    <3> QED
      BY <1>2, <2>2, <3>1, <3>2 DEF Catalogue!Purged
  <2>3. CASE mine(i) # {} /\ i \in Catalogue!Items /\ \E f \in mine(i) : f.how = "purge"
    <3>1. row(i) = Catalogue!Purged
      BY <2>3
    <3>2. iItem[i] # None /\ iItem[i].archived
      BY <2>3 DEF CatalogueWellRead
    <3>3. iItem[i].archived \in BOOLEAN
      BY <3>2 DEF CatalogueTInv, Catalogue!ItemRows
    <3>4. Catalogue!Purged # None
      BY <1>2 DEF CatalogueConstantsOK
    <3>5. row(i).archived = iItem[i].archived
      BY <3>1, <3>2, <3>3 DEF Catalogue!Purged
    <3> HIDE DEF row
    <3> QED
      BY <1>2, <2>3, <3>1, <3>2, <3>4, <3>5 DEF Catalogue!Purged
  <2>4. CASE mine(i) # {} /\ i \in Catalogue!Items /\ ~\E f \in mine(i) : f.how = "purge"
    <3>0. PICK gone, lost : /\ gone = (\E f \in mine(i) : f.how = "retire")
                            /\ lost = {f.code : f \in {f \in mine(i) : f.how = "drop"}}
      OBVIOUS
    <3>1. row(i) = [iItem[i] EXCEPT !.primary = IF gone THEN None ELSE @, !.alts = @ \ lost]
      BY <2>4, <3>0
    <3>2. iItem[i] # None /\ iItem[i] \in Catalogue!ItemRows
      BY <2>4 DEF Catalogue!Items, CatalogueTInv
    <3>3. row(i) \in Catalogue!ItemRows
      BY <3>1, <3>2 DEF Catalogue!ItemRows
    <3>4. row(i) # None
      BY <3>3 DEF CatalogueConstantsOK
    <3>5. /\ row(i).archived = iItem[i].archived
          /\ row(i).primary = IF gone THEN None ELSE iItem[i].primary
          /\ row(i).alts \subseteq iItem[i].alts
      <4>1. PICK r : r = row(i)
        OBVIOUS
      <4>2. r = [iItem[i] EXCEPT !.primary = IF gone THEN None ELSE @, !.alts = @ \ lost]
        BY <3>1, <4>1
      <4> HIDE DEF row
      <4>3. /\ r.archived = iItem[i].archived /\ r.alts = iItem[i].alts \ lost
            /\ r.primary = IF gone THEN None ELSE iItem[i].primary
        BY <3>2, <4>2 DEF Catalogue!ItemRows
      <4> QED
        BY <4>1, <4>3
    <3> HIDE DEF row
    <3> QED
      BY <2>4, <3>0, <3>2, <3>3, <3>4, <3>5
  <2> QED
    BY <2>1, <2>2, <2>3, <2>4
<1> HIDE DEF row
<1>4. \A f \in j.frees : f.id \in Catalogue!Ids /\ f \in mine(f.id)
  BY DEF CatalogueWellRead
<1> QED
  BY <1>1, <1>3, <1>4

\* What a commit that goes through makes of the rows.
LEMMA CatalogueCommitRows ==
    ASSUME CatalogueConstantsOK, CatalogueIInv, NEW j, CatalogueWellRead(j),
           j.req.op = "create" => Catalogue!Free # {},
           NEW new, new = Catalogue!Written(j.req, j, Catalogue!AfterFrees(j.frees))
    PROVE  /\ new \in [Catalogue!Ids -> Catalogue!ItemRows \cup {None}]
           /\ \A i \in Catalogue!Ids : iItem[i] # None => new[i] # None
           /\ \A i \in Catalogue!Ids : iItem[i] # None => new[i].archived = iItem[i].archived
           /\ \A i \in Catalogue!Ids : iItem[i] # None /\ i # j.req.id /\ (\A f \in j.frees : f.id # i)
                             => new[i] = iItem[i]
           /\ \A i \in Catalogue!Ids, c \in iCodes :
                /\ new[i] # None /\ (new[i].primary = c \/ c \in new[i].alts)
                /\ ~(iItem[i] # None /\ (iItem[i].primary = c \/ c \in iItem[i].alts))
                => c \in j.adds
           /\ \A i \in Catalogue!Ids, c \in iCodes :
                /\ new[i] # None /\ new[i].primary = c
                /\ ~(iItem[i] # None /\ iItem[i].primary = c)
                => c \in j.adds /\ (iItem[i] = None \/ i = j.req.id)
           /\ \A i \in Catalogue!Ids, c \in iCodes :
                /\ i # j.req.id /\ iItem[i] # None
                /\ (new[i].primary = c \/ c \in new[i].alts)
                => (iItem[i].primary = c \/ c \in iItem[i].alts)
           /\ \A f \in j.frees : f.how \in {"purge", "retire"} => new[f.id].primary = None
           /\ j.req.op = "edit" => new[j.req.id].primary = j.req.code
<1> DEFINE rows == Catalogue!AfterFrees(j.frees)
<1>0. new = Catalogue!Written(j.req, j, rows)
  OBVIOUS
<1>1. CatalogueWellRead(j)
  OBVIOUS
<1>2. /\ rows \in [Catalogue!Ids -> Catalogue!ItemRows \cup {None}]
      /\ \A i \in Catalogue!Ids : iItem[i] = None <=> rows[i] = None
      /\ \A i \in Catalogue!Ids : iItem[i] # None =>
            /\ rows[i].archived = iItem[i].archived
            /\ rows[i].primary \in {iItem[i].primary, None}
            /\ rows[i].alts \subseteq iItem[i].alts
      /\ \A i \in Catalogue!Ids : (\A f \in j.frees : f.id # i) => rows[i] = iItem[i]
      /\ \A f \in j.frees : f.how \in {"purge", "retire"} => rows[f.id].primary = None
  BY <1>1, CatalogueFreesRows DEF CatalogueIInv
<1> HIDE DEF rows
<1>3. /\ None \notin iCodes /\ \A r \in Catalogue!ItemRows : r # None
      /\ None \notin Catalogue!Ids
  BY DEF CatalogueConstantsOK, Catalogue!Ids
<1>4. CASE j.req.op = "create"
  <2>1. Catalogue!Free \subseteq Nat /\ Catalogue!Free # {}
    BY <1>4 DEF Catalogue!Free, Catalogue!Ids, CatalogueConstantsOK
  <2>2. PICK n : n = Catalogue!Min(Catalogue!Free)
    OBVIOUS
  <2>3. n \in Catalogue!Free /\ n \in Catalogue!Ids /\ iItem[n] = None
    BY <2>1, <2>2, CatalogueLeastIsOne DEF Catalogue!Free
  <2>4. new = [rows EXCEPT ![n] = Catalogue!NewItem(j.req.code)]
    BY <1>0, <1>4, <2>2 DEF Catalogue!Written
  <2>5. j.req.id = None /\ j.req.code \in j.adds /\ j.req.code \in iCodes
    BY <1>1, <1>4 DEF CatalogueWellRead
  <2>6. Catalogue!NewItem(j.req.code) \in Catalogue!ItemRows
    BY <2>5 DEF Catalogue!NewItem, Catalogue!ItemRows
  <2>7. /\ new \in [Catalogue!Ids -> Catalogue!ItemRows \cup {None}]
        /\ new[n] # None /\ new[n].primary = j.req.code /\ new[n].alts = {}
        /\ \A i \in Catalogue!Ids \ {n} : new[i] = rows[i]
    <3>1. PICK r : r = Catalogue!NewItem(j.req.code)
      OBVIOUS
    <3>2. r \in Catalogue!ItemRows /\ r.primary = j.req.code /\ r.alts = {}
      BY <2>6, <3>1 DEF Catalogue!NewItem
    <3>3. new = [rows EXCEPT ![n] = r]
      BY <2>4, <3>1
    <3> QED
      BY <1>2, <1>3, <2>3, <3>2, <3>3
  <2>8. \A f \in j.frees : f.id \in Catalogue!Ids \ {n}
    BY <1>1, <2>3 DEF CatalogueWellRead
  <2>9. \A i \in Catalogue!Ids : iItem[i] # None => i # n
    BY <2>3
  <2>10. /\ \A i \in Catalogue!Ids : iItem[i] # None => new[i] # None /\ new[i].archived = iItem[i].archived
         /\ \A i \in Catalogue!Ids : iItem[i] # None /\ (\A f \in j.frees : f.id # i) => new[i] = iItem[i]
         /\ \A f \in j.frees : f.how \in {"purge", "retire"} => new[f.id].primary = None
    BY <1>2, <2>7, <2>8, <2>9
  <2>11. \A i \in Catalogue!Ids, c \in iCodes :
            new[i] # None /\ (new[i].primary = c \/ c \in new[i].alts) =>
               \/ iItem[i] # None /\ (iItem[i].primary = c \/ c \in iItem[i].alts)
               \/ i = n /\ c = j.req.code
    BY <1>2, <1>3, <2>7
  <2>12. \A i \in Catalogue!Ids, c \in iCodes :
            new[i] # None /\ new[i].primary = c =>
               \/ iItem[i] # None /\ iItem[i].primary = c
               \/ i = n /\ c = j.req.code
    BY <1>2, <1>3, <2>7
  <2>13. j.req.op # "edit"
    BY <1>4, SMTT(30)
  <2> QED
    BY <2>3, <2>5, <2>7, <2>9, <2>10, <2>11, <2>12, <2>13
<1>5. CASE j.req.op = "edit"
  <2>1. PICK n : n = j.req.id
    OBVIOUS
  <2>2. n \in Catalogue!Ids /\ iItem[n] # None /\ j.req.code \in iCodes
        /\ (iItem[n].primary = j.req.code \/ j.req.code \in j.adds)
        /\ \A f \in j.frees : f.id \in Catalogue!Ids \ {n}
    BY <1>1, <1>5, <2>1 DEF CatalogueWellRead
  <2>3. new = [rows EXCEPT ![n].primary = j.req.code]
    BY <1>0, <1>5, <2>1 DEF Catalogue!Written
  <2>4. rows[n] \in Catalogue!ItemRows
    BY <1>2, <2>2
  <2>5. /\ new \in [Catalogue!Ids -> Catalogue!ItemRows \cup {None}]
        /\ new[n] # None /\ new[n].primary = j.req.code /\ new[n].alts = rows[n].alts
        /\ new[n].archived = rows[n].archived
        /\ \A i \in Catalogue!Ids \ {n} : new[i] = rows[i]
    BY <1>2, <1>3, <2>2, <2>3, <2>4 DEF Catalogue!ItemRows
  <2>6. /\ \A i \in Catalogue!Ids : iItem[i] # None => new[i] # None /\ new[i].archived = iItem[i].archived
        /\ \A i \in Catalogue!Ids : iItem[i] # None /\ i # n /\ (\A f \in j.frees : f.id # i) => new[i] = iItem[i]
        /\ \A f \in j.frees : f.how \in {"purge", "retire"} => new[f.id].primary = None
    BY <1>2, <2>2, <2>5
  <2>7. \A i \in Catalogue!Ids, c \in iCodes :
            new[i] # None /\ (new[i].primary = c \/ c \in new[i].alts) =>
               \/ iItem[i] # None /\ (iItem[i].primary = c \/ c \in iItem[i].alts)
               \/ i = n /\ c = j.req.code
    BY <1>2, <1>3, <2>2, <2>5
  <2>8. \A i \in Catalogue!Ids, c \in iCodes :
            new[i] # None /\ new[i].primary = c =>
               \/ iItem[i] # None /\ iItem[i].primary = c
               \/ i = n /\ c = j.req.code
    BY <1>2, <1>3, <2>2, <2>5, SMTT(30)
  <2> QED
    BY <2>1, <2>2, <2>5, <2>6, <2>7, <2>8
<1>6. CASE j.req.op = "relabel"
  <2>1. PICK n : n = j.req.id
    OBVIOUS
  <2>2. n \in Catalogue!Ids /\ iItem[n] # None /\ j.adds \subseteq iCodes
        /\ \A f \in j.frees : f.id \in Catalogue!Ids \ {n}
    BY <1>1, <1>6, <2>1 DEF CatalogueWellRead
  <2>3. new = [rows EXCEPT ![n].alts = (@ \ j.drops) \cup j.adds]
    BY <1>0, <1>6, <2>1 DEF Catalogue!Written
  <2>4. rows[n] \in Catalogue!ItemRows
    BY <1>2, <2>2
  <2>5. /\ new \in [Catalogue!Ids -> Catalogue!ItemRows \cup {None}]
        /\ new[n] # None /\ new[n].primary = rows[n].primary
        /\ new[n].alts = (rows[n].alts \ j.drops) \cup j.adds
        /\ new[n].archived = rows[n].archived
        /\ \A i \in Catalogue!Ids \ {n} : new[i] = rows[i]
    BY <1>2, <1>3, <2>2, <2>3, <2>4 DEF Catalogue!ItemRows
  <2>6. /\ \A i \in Catalogue!Ids : iItem[i] # None => new[i] # None /\ new[i].archived = iItem[i].archived
        /\ \A i \in Catalogue!Ids : iItem[i] # None /\ i # n /\ (\A f \in j.frees : f.id # i) => new[i] = iItem[i]
        /\ \A f \in j.frees : f.how \in {"purge", "retire"} => new[f.id].primary = None
    BY <1>2, <2>2, <2>5
  <2>7. \A i \in Catalogue!Ids, c \in iCodes :
            new[i] # None /\ (new[i].primary = c \/ c \in new[i].alts) =>
               \/ iItem[i] # None /\ (iItem[i].primary = c \/ c \in iItem[i].alts)
               \/ i = n /\ c \in j.adds
    BY <1>2, <1>3, <2>2, <2>5
  <2>8. \A i \in Catalogue!Ids, c \in iCodes :
            new[i] # None /\ new[i].primary = c => iItem[i] # None /\ iItem[i].primary = c
    BY <1>2, <1>3, <2>2, <2>5
  <2>9. j.req.op # "edit"
    BY <1>6
  <2> QED
    BY <2>1, <2>2, <2>5, <2>6, <2>7, <2>8, <2>9
<1> QED
  BY <1>1, <1>4, <1>5, <1>6 DEF CatalogueWellRead

\* A commit goes through or fails; the other requests keep what they rely on.
LEMMA CatalogueCommitStep ==
    ASSUME CatalogueConstantsOK, CatalogueIInv, NEW t \in Clerks, Catalogue!Commit(t)
    PROVE  CatalogueIInv'
<1> DEFINE j == iJob[t]
           rows == Catalogue!AfterFrees(j.frees)
<1>1. /\ j.phase = "commit"
      /\ j.req.op # "edit" /\ j.req.id # None => ~Catalogue!Locked(j.req.id)
      /\ \A f \in j.frees : ~Catalogue!Locked(f.id)
      /\ j.req.op = "create" => Catalogue!Free # {}
      /\ iRefused' = iRefused \cup Catalogue!StillCited(j.frees)
      /\ iJob' = [iJob EXCEPT ![t] = Catalogue!Idle]
  BY DEF Catalogue!Commit
<1>2. CatalogueWellRead(j)
  BY <1>1 DEF CatalogueIInv, CatalogueTInv
<1>3. DOMAIN iJob' = Clerks /\ iJob'[t].phase = "idle" /\ \A u \in Clerks \ {t} : iJob'[u] = iJob[u]
  BY <1>1 DEF CatalogueIInv, CatalogueTInv, Catalogue!Idle
<1>4. iRefused' \subseteq iCodes
  BY <1>1, <1>2 DEF Catalogue!StillCited, CatalogueWellRead, CatalogueIInv, CatalogueTInv
<1>5. CatalogueEditsApart'
  BY <1>3 DEF CatalogueIInv, CatalogueEditsApart
<1>6. CASE UNCHANGED <<iItem, iRaced, iStolen>>
  <2>1. \A u \in Clerks : iJob'[u].phase = "commit" => iJob'[u] = iJob[u]
    BY <1>3
  <2>2. CatalogueTInv'
    BY <1>3, <1>4, <1>6 DEF CatalogueIInv, CatalogueTInv, CatalogueWellRead
  <2>3. CatalogueClaims'
    BY <1>6, <2>1, <1>3 DEF CatalogueIInv, CatalogueClaims, CatalogueClear
  <2> QED
    BY <1>5, <1>6, <2>2, <2>3 DEF CatalogueIInv, CatalogueUnique, CatalogueOneHolder
<1>7. CASE ~UNCHANGED <<iItem, iRaced, iStolen>>
  <2>1. PICK new : new = Catalogue!Written(j.req, j, rows)
    OBVIOUS
  <2>2. /\ ~Catalogue!Violates(j, rows, new)
        /\ iItem' = new
        /\ iRaced' = iRaced \cup UNION {j.adds \cap iJob[u].adds : u \in
                            {u \in Clerks \ {t} : iJob[u].phase = "commit"}}
        /\ iStolen' = iStolen \cup {c \in iCodes : \E i \in Catalogue!Live :
                  /\ c \in Catalogue!Held(i)
                  /\ j.req.id # i
                  /\ c \notin {new[i].primary} \cup new[i].alts}
    BY <1>7, <2>1 DEF Catalogue!Commit
  <2>3. /\ new \in [Catalogue!Ids -> Catalogue!ItemRows \cup {None}]
        /\ \A i \in Catalogue!Ids : iItem[i] # None => new[i] # None
        /\ \A i \in Catalogue!Ids : iItem[i] # None => new[i].archived = iItem[i].archived
        /\ \A i \in Catalogue!Ids : iItem[i] # None /\ i # j.req.id /\ (\A f \in j.frees : f.id # i)
                          => new[i] = iItem[i]
        /\ \A i \in Catalogue!Ids, c \in iCodes :
             /\ new[i] # None /\ (new[i].primary = c \/ c \in new[i].alts)
             /\ ~(iItem[i] # None /\ (iItem[i].primary = c \/ c \in iItem[i].alts))
             => c \in j.adds
        /\ \A i \in Catalogue!Ids, c \in iCodes :
             /\ new[i] # None /\ new[i].primary = c
             /\ ~(iItem[i] # None /\ iItem[i].primary = c)
             => c \in j.adds /\ (iItem[i] = None \/ i = j.req.id)
        /\ \A i \in Catalogue!Ids, c \in iCodes :
             /\ i # j.req.id /\ iItem[i] # None
             /\ (new[i].primary = c \/ c \in new[i].alts)
             => (iItem[i].primary = c \/ c \in iItem[i].alts)
        /\ \A f \in j.frees : f.how \in {"purge", "retire"} => new[f.id].primary = None
        /\ j.req.op = "edit" => new[j.req.id].primary = j.req.code
    <3>1. new = Catalogue!Written(j.req, j, Catalogue!AfterFrees(j.frees))
      BY <2>1
    <3> HIDE DEF j, rows
    <3>2. j.req.op = "create" => Catalogue!Free # {}
      BY <1>1
    <3> QED
      BY <1>2, <3>1, <3>2, CatalogueCommitRows
  <2> HIDE DEF j, rows
  <2>4. j.adds \subseteq iCodes /\ None \notin iCodes /\ None \notin Catalogue!Ids
    BY <1>2 DEF CatalogueWellRead, CatalogueConstantsOK, Catalogue!Ids
  <2>5. iRaced \subseteq iRaced' /\ iRaced' \subseteq iCodes
        /\ \A u \in Clerks \ {t} : iJob[u].phase = "commit" => j.adds \cap iJob[u].adds \subseteq iRaced'
    BY <2>2, <2>4 DEF CatalogueIInv, CatalogueTInv
  <2>6. \A u \in Clerks \ {t} : iJob[u].phase = "commit" => CatalogueWellRead(iJob[u])'
    <3> SUFFICES ASSUME NEW u \in Clerks \ {t}, iJob[u].phase = "commit"
                 PROVE  CatalogueWellRead(iJob[u])'
      OBVIOUS
    <3>1. CatalogueWellRead(iJob[u])
      BY DEF CatalogueIInv, CatalogueTInv
    <3>2. \A f \in iJob[u].frees : iItem'[f.id] # None /\ iItem'[f.id].archived
      BY <2>2, <2>3, <3>1 DEF CatalogueWellRead
    <3>3. iJob[u].req.op # "create" => iItem'[iJob[u].req.id] # None
      BY <2>2, <2>3, <3>1 DEF CatalogueWellRead
    <3>4. iJob[u].req.op = "edit" => iItem'[iJob[u].req.id] = iItem[iJob[u].req.id]
      <4> SUFFICES ASSUME iJob[u].req.op = "edit"
                   PROVE  iItem'[iJob[u].req.id] = iItem[iJob[u].req.id]
        OBVIOUS
      <4>1. Catalogue!Locked(iJob[u].req.id) /\ iJob[u].req.id \in Catalogue!Ids /\ iItem[iJob[u].req.id] # None
        BY <3>1 DEF Catalogue!Locked, CatalogueWellRead
      <4>2. iJob[u].req.id # j.req.id
        <5>1. CASE j.req.op = "edit"
          BY <1>1, <5>1 DEF CatalogueIInv, CatalogueEditsApart, j
        <5>2. CASE j.req.op # "edit"
          BY <1>1, <2>4, <4>1, <5>2
        <5> QED
          BY <5>1, <5>2
      <4>3. \A f \in j.frees : f.id # iJob[u].req.id
        BY <1>1, <4>1
      <4> QED
        BY <2>2, <2>3, <4>1, <4>2, <4>3
    <3>5. iJob'[u] = iJob[u]
      BY <1>3
    <3> QED
      BY <3>1, <3>2, <3>3, <3>4, <3>5 DEF CatalogueWellRead
  <2>7. CatalogueTInv'
    <3>1. \A u \in Clerks : iJob'[u].phase = "commit" => u # t /\ iJob'[u] = iJob[u]
      BY <1>3
    <3>2. \A u \in Clerks : iJob'[u].phase = "commit" => CatalogueWellRead(iJob[u])'
      BY <2>6, <3>1
    <3> QED
      BY <1>3, <1>4, <2>2, <2>3, <2>5, <3>2 DEF CatalogueIInv, CatalogueTInv
  <2>8. CatalogueUnique'
    <3>1. \A i, k \in Catalogue!Ids : i # k /\ new[i] # None /\ new[k] # None =>
             /\ ~(new[i].primary = new[k].primary /\ new[i].primary # None)
             /\ new[i].alts \cap new[k].alts = {}
      BY <2>2 DEF Catalogue!Violates
    <3> QED
      BY <2>2, <3>1 DEF CatalogueUnique
  <2>9. \A c \in j.adds \ iRaced : CatalogueClear(j, c)
    BY <1>1 DEF CatalogueIInv, CatalogueClaims, j
  <2>10. ASSUME NEW c \in iCodes \ iRaced', NEW i \in Catalogue!Ids, NEW k \in Catalogue!Ids,
                i # k,
                new[i] # None, new[k] # None, ~new[i].archived,
                new[i].primary = c \/ c \in new[i].alts
         PROVE  new[k].primary # c
    <3>0. c \notin iRaced
      BY <2>5
    <3>1. CASE c \notin j.adds
      <4>1. iItem[i] # None /\ (iItem[i].primary = c \/ c \in iItem[i].alts)
        BY <2>3, <2>10, <3>1
      <4>2. ~iItem[i].archived
        BY <2>3, <2>10, <4>1
      <4>3. new[k].primary = c => iItem[k] # None /\ iItem[k].primary = c
        BY <2>3, <2>10, <3>1
      <4> QED
        BY <2>10, <3>0, <4>1, <4>2, <4>3 DEF CatalogueIInv, CatalogueOneHolder
    <3>2. CASE c \in j.adds
      <4>1. CatalogueClear(j, c)
        BY <2>9, <3>0, <3>2
      <4>2. i = j.req.id \/ iItem[i] = None
        <5> SUFFICES ASSUME i # j.req.id, iItem[i] # None PROVE FALSE
          OBVIOUS
        <5>1. iItem[i].primary = c \/ c \in iItem[i].alts
          BY <2>3, <2>10
        <5>2. iItem[i].archived
          BY <4>1, <5>1 DEF CatalogueClear
        <5> QED
          BY <2>3, <2>10, <5>2
      <4>3. SUFFICES ASSUME new[k].primary = c PROVE FALSE
        OBVIOUS
      <4>4. c # None
        BY <2>4
      <4>5. new[i].primary # c
        BY <2>2, <2>8, <2>10, <4>3, <4>4 DEF CatalogueUnique
      <4>6. CASE iItem[k] # None /\ k # j.req.id
        <5>1. iItem[k].primary = c
          BY <2>3, <2>10, <4>3, <4>6
        <5>2. \E f \in j.frees : f.id = k /\ f.how \in {"purge", "retire"}
          BY <4>1, <4>6, <5>1 DEF CatalogueClear
        <5> QED
          BY <2>3, <4>3, <4>4, <5>2
      <4>7. CASE iItem[k] = None \/ k = j.req.id
        <5>1. CASE j.req.op = "create"
          <6>1. j.req.id = None
            BY <1>2, <5>1 DEF CatalogueWellRead
          <6>2. iItem[i] = None /\ iItem[k] = None
            BY <2>4, <4>2, <4>7, <6>1
          <6>3. i \in Catalogue!Free /\ k \in Catalogue!Free
            BY <6>2 DEF Catalogue!Free
          <6>4. new = [rows EXCEPT ![Catalogue!Min(Catalogue!Free)] = Catalogue!NewItem(j.req.code)]
            BY <2>1, <5>1 DEF Catalogue!Written
          <6>5. rows[i] = None /\ rows[k] = None /\ rows \in [Catalogue!Ids -> Catalogue!ItemRows \cup {None}]
            BY <1>2, <6>2, CatalogueFreesRows DEF rows, CatalogueIInv
          <6>6. i = Catalogue!Min(Catalogue!Free) /\ k = Catalogue!Min(Catalogue!Free)
            BY <2>10, <6>4, <6>5
          <6> QED
            BY <2>10, <6>6
        <5>2. CASE j.req.op # "create"
          <6>1. j.req.id \in Catalogue!Ids /\ iItem[j.req.id] # None
            BY <1>2, <5>2 DEF CatalogueWellRead
          <6>2. \A n \in Catalogue!Ids : iItem[n] = None => new[n] = None
            <7>1. \A n \in Catalogue!Ids : iItem[n] = None => rows[n] = None
              BY <1>2, CatalogueFreesRows DEF rows, CatalogueIInv
            <7>2. rows \in [Catalogue!Ids -> Catalogue!ItemRows \cup {None}]
              BY <1>2, CatalogueFreesRows DEF rows, CatalogueIInv
            <7>3. CASE j.req.op = "edit"
              BY <2>1, <6>1, <7>1, <7>2, <7>3 DEF Catalogue!Written
            <7>4. CASE j.req.op = "relabel"
              BY <2>1, <6>1, <7>1, <7>2, <7>4 DEF Catalogue!Written
            <7> QED
              BY <1>2, <5>2, <7>3, <7>4 DEF CatalogueWellRead
          <6> QED
            BY <2>10, <4>2, <4>7, <6>2
        <5> QED
          BY <5>1, <5>2
      <4> QED
        BY <4>6, <4>7
    <3> QED
      BY <3>1, <3>2
  <2>11. \A c \in iCodes \ iRaced' : CatalogueOneHolder(c)'
    BY <2>2, <2>10 DEF CatalogueOneHolder
  <2>12. CatalogueClaims'
    <3> SUFFICES ASSUME NEW u \in Clerks \ {t}, iJob[u].phase = "commit",
                        NEW c \in iJob[u].adds \ iRaced', NEW i \in Catalogue!Ids, i # iJob[u].req.id,
                        new[i] # None, new[i].primary = c \/ c \in new[i].alts
                 PROVE  /\ new[i].archived
                        /\ new[i].primary = c =>
                             \E f \in iJob[u].frees : f.id = i /\ f.how \in {"purge", "retire"}
      <4>1. \A u \in Clerks : iJob'[u].phase = "commit" => u \in Clerks \ {t} /\ iJob'[u] = iJob[u]
        BY <1>3
      <4> QED
        BY <2>2, <4>1 DEF CatalogueClaims, CatalogueClear
    <3>1. c \in iCodes /\ c \notin iRaced /\ c \notin j.adds
      <4>1. CatalogueWellRead(iJob[u])
        BY DEF CatalogueIInv, CatalogueTInv
      <4> QED
        BY <2>5, <4>1 DEF CatalogueWellRead
    <3>2. CatalogueClear(iJob[u], c)
      BY <3>1 DEF CatalogueIInv, CatalogueClaims
    <3>3. iItem[i] # None /\ (iItem[i].primary = c \/ c \in iItem[i].alts)
      BY <2>3, <3>1
    <3>4. new[i].primary = c => iItem[i].primary = c
      BY <2>3, <3>1
    <3> QED
      BY <2>3, <3>2, <3>3, <3>4 DEF CatalogueClear
  <2>13. iStolen' = {}
    <3>1. ASSUME NEW c \in iCodes, NEW i \in Catalogue!Live, c \in Catalogue!Held(i), j.req.id # i
          PROVE  c \in {new[i].primary} \cup new[i].alts
      <4>1. i \in Catalogue!Ids /\ iItem[i] # None /\ ~iItem[i].archived
        BY <3>1 DEF Catalogue!Live, Catalogue!Items
      <4>2. \A f \in j.frees : f.id # i
        BY <1>2, <4>1 DEF CatalogueWellRead
      <4>3. new[i] = iItem[i]
        BY <2>3, <3>1, <4>1, <4>2
      <4> QED
        BY <3>1, <4>3 DEF Catalogue!Held
    <3> QED
      BY <2>2, <3>1 DEF CatalogueIInv
  <2> QED
    BY <1>5, <2>7, <2>8, <2>11, <2>12, <2>13 DEF CatalogueIInv
<1> QED
  BY <1>6, <1>7

\* A deletion, a movement or a request of a live item changes no code.
LEMMA CatalogueCatalogueStep ==
    ASSUME CatalogueConstantsOK, CatalogueIInv, NEW n \in Catalogue!Items,
           ~Catalogue!Locked(n), Catalogue!Archive(n) \/ Catalogue!Use(n) \/ Catalogue!Cite(n),
           UNCHANGED <<iJob, iRaced, iStolen, iRefused>>
    PROVE  CatalogueIInv'
<1>1. n \in Catalogue!Ids /\ iItem[n] \in Catalogue!ItemRows /\ iItem[n] # None
  BY DEF Catalogue!Items, CatalogueIInv, CatalogueTInv
<1>2. /\ iItem' \in [Catalogue!Ids -> Catalogue!ItemRows \cup {None}] /\ iItem'[n] \in Catalogue!ItemRows
      /\ iItem'[n].primary = iItem[n].primary /\ iItem'[n].alts = iItem[n].alts
      /\ iItem[n].archived => iItem'[n].archived
      /\ \A i \in Catalogue!Ids \ {n} : iItem'[i] = iItem[i]
  <2>1. CASE Catalogue!Archive(n)
    BY <1>1, <2>1 DEF Catalogue!Archive, Catalogue!ItemRows, CatalogueIInv, CatalogueTInv
  <2>2. CASE Catalogue!Use(n)
    BY <1>1, <2>2 DEF Catalogue!Use, Catalogue!ItemRows, CatalogueIInv, CatalogueTInv
  <2>3. CASE Catalogue!Cite(n)
    BY <1>1, <2>3 DEF Catalogue!Cite, Catalogue!ItemRows, CatalogueIInv, CatalogueTInv
  <2> QED
    BY <2>1, <2>2, <2>3
<1>3. iItem'[n] # None
  BY <1>2 DEF CatalogueConstantsOK
<1>4. \A i \in Catalogue!Ids : /\ iItem'[i] # None <=> iItem[i] # None
                               /\ iItem[i] # None => /\ iItem'[i].primary = iItem[i].primary
                                                     /\ iItem'[i].alts = iItem[i].alts
                                                     /\ iItem[i].archived => iItem'[i].archived
  BY <1>1, <1>2, <1>3
<1>5. \A t \in Clerks : iJob[t].phase = "commit" => CatalogueWellRead(iJob[t])'
  <2> SUFFICES ASSUME NEW t \in Clerks, iJob[t].phase = "commit"
               PROVE  CatalogueWellRead(iJob[t])'
    OBVIOUS
  <2>1. CatalogueWellRead(iJob[t])
    BY DEF CatalogueIInv, CatalogueTInv
  <2> QED
    BY <1>4, <2>1 DEF CatalogueWellRead
<1>6. CatalogueTInv'
  BY <1>2, <1>5 DEF CatalogueIInv, CatalogueTInv
<1>7. CatalogueUnique'
  BY <1>4 DEF CatalogueIInv, CatalogueUnique
<1>8. \A c \in iCodes \ iRaced : CatalogueOneHolder(c)'
  BY <1>4 DEF CatalogueIInv, CatalogueOneHolder
<1>9. CatalogueClaims'
  <2>1. \A t \in Clerks : iJob[t].phase = "commit" => \A c \in iJob[t].adds \ iRaced : CatalogueClear(iJob[t], c)'
    BY <1>4 DEF CatalogueIInv, CatalogueClaims, CatalogueClear
  <2> QED
    BY <2>1 DEF CatalogueClaims
<1> QED
  BY <1>6, <1>7, <1>8, <1>9 DEF CatalogueIInv, CatalogueEditsApart

LEMMA CatalogueInvariant == CatalogueConstantsOK => (Catalogue!Spec => []CatalogueIInv)
<1> SUFFICES ASSUME CatalogueConstantsOK PROVE Catalogue!Spec => []CatalogueIInv
  OBVIOUS
<1>1. Catalogue!Init => CatalogueIInv
  BY CatalogueInitIInv
<1>2. CatalogueIInv /\ [Catalogue!Next]_Catalogue!vars => CatalogueIInv'
  <2> SUFFICES ASSUME CatalogueIInv, [Catalogue!Next]_Catalogue!vars PROVE CatalogueIInv'
    OBVIOUS
  <2>1. CASE UNCHANGED Catalogue!vars
    BY <2>1 DEF Catalogue!vars, CatalogueIInv, CatalogueTInv, CatalogueWellRead,
       CatalogueEditsApart, CatalogueUnique, CatalogueOneHolder, CatalogueClear, CatalogueClaims
  <2>2. ASSUME NEW t \in Clerks, Catalogue!Read(t) PROVE CatalogueIInv'
    BY <2>2, CatalogueReadStep
  <2>3. ASSUME NEW t \in Clerks, Catalogue!Commit(t) PROVE CatalogueIInv'
    BY <2>3, CatalogueCommitStep
  <2>4. ASSUME NEW i \in Catalogue!Items, ~Catalogue!Locked(i),
               Catalogue!Archive(i) \/ Catalogue!Use(i) \/ Catalogue!Cite(i),
               UNCHANGED <<iJob, iRaced, iStolen, iRefused>>
        PROVE  CatalogueIInv'
    BY <2>4, CatalogueCatalogueStep
  <2> QED
    BY <2>1, <2>2, <2>3, <2>4 DEF Catalogue!Next
<1> QED
  BY <1>1, <1>2, PTL DEF Catalogue!Spec

\* Every item is a row of codes.
THEOREM CatalogueTypeCorrect == CatalogueConstantsOK => (Catalogue!Spec => []Catalogue!TypeOK)
<1> SUFFICES ASSUME CatalogueConstantsOK PROVE Catalogue!Spec => []Catalogue!TypeOK
  OBVIOUS
<1>1. CatalogueIInv => Catalogue!TypeOK
  BY DEF CatalogueIInv, CatalogueTInv, Catalogue!TypeOK, Catalogue!Items
<1> QED
  BY <1>1, CatalogueInvariant, PTL

\* A scan finds one live item, unless two overlapping requests claimed the code.
THEOREM CatalogueScansFindOne == CatalogueConstantsOK => (Catalogue!Spec => []Catalogue!ScanFindsOne)
<1> SUFFICES ASSUME CatalogueConstantsOK PROVE Catalogue!Spec => []Catalogue!ScanFindsOne
  OBVIOUS
<1>1. CatalogueIInv => Catalogue!ScanFindsOne
  <2> SUFFICES ASSUME CatalogueIInv, NEW c \in iCodes \ iRaced
               PROVE  Catalogue!Cardinality(Catalogue!Holders(c) \cap Catalogue!Live) <= 1
    BY DEF Catalogue!ScanFindsOne
  <2> DEFINE S == Catalogue!Holders(c) \cap Catalogue!Live
  <2>1. \A i, k \in S : i = k
    <3> SUFFICES ASSUME NEW i \in S, NEW k \in S, i # k PROVE FALSE
      OBVIOUS
    <3>1. /\ i \in Catalogue!Ids /\ iItem[i] # None /\ ~iItem[i].archived
          /\ k \in Catalogue!Ids /\ iItem[k] # None /\ ~iItem[k].archived
          /\ iItem[i].primary = c \/ c \in iItem[i].alts
          /\ iItem[k].primary = c \/ c \in iItem[k].alts
      BY DEF Catalogue!Holders, Catalogue!Live, Catalogue!Items, Catalogue!Held
    <3>2. iItem[i].primary # c /\ iItem[k].primary # c
      BY <3>1 DEF CatalogueIInv, CatalogueOneHolder
    <3> QED
      BY <3>1, <3>2 DEF CatalogueIInv, CatalogueUnique
  <2>2. S = {} \/ \E i : S = {i}
    BY <2>1
  <2> HIDE DEF S
  <2>3. S = {} => Cardinality(S) = 0
    BY FS_EmptySet
  <2>4. (\E i : S = {i}) => Cardinality(S) = 1
    BY FS_Singleton
  <2>5. Catalogue!Cardinality(S) <= 1
    BY <2>2, <2>3, <2>4, CatalogueSizes
  <2> QED
    BY <2>5 DEF S
<1> QED
  BY <1>1, CatalogueInvariant, PTL

\* A reuse of a deleted item's code takes none from a live item.
THEOREM CatalogueLiveItemsKeepCodes ==
    CatalogueConstantsOK => (Catalogue!Spec => []Catalogue!LiveKeepsCodes)
<1> SUFFICES ASSUME CatalogueConstantsOK PROVE Catalogue!Spec => []Catalogue!LiveKeepsCodes
  OBVIOUS
<1>1. CatalogueIInv => Catalogue!LiveKeepsCodes
  BY DEF CatalogueIInv, Catalogue!LiveKeepsCodes
<1> QED
  BY <1>1, CatalogueInvariant, PTL

-----------------------------------------------------------------------------
(* The request queue.  What a request has read is pending with it (JobOK): who *)
(* holds the item writes every row its move leaves on the wrong side (Follows), *)
(* who does not neither revives a filed request nor moves the count (Beside); *)
(* a crew has one filed request that is live or about to be (OneFiling).   *)

QueueAllOps == {"file", "ask", "add", "stock", "mark", "cancel", "reopen", "close", "fulfil"}

-----------------------------------------------------------------------------
(* What a request carries, reads and may rely on.                          *)

QueueNames(r) == ({r.id} \cup r.sibs) \ {None}

\* The rows a request names are there, and of its kind: neither changes.
QueueWellAsked(r) ==
    /\ r.op \in QueueAllOps
    /\ r.op \in {"file", "ask", "add"} => r.order \in qOrders
    /\ r.op \in {"file", "ask", "stock"} => r.id = None
    /\ r.op \in {"mark", "cancel", "reopen", "close", "fulfil"} => r.id \in Fulfilled!Ids
    /\ r.op = "stock" => r.n \in Int
    /\ r.op # "fulfil" => r.sibs = {}
    /\ r.sibs \subseteq Fulfilled!Ids
    /\ \A i \in QueueNames(r) : /\ i \in Fulfilled!Ids /\ qReq[i] # None
                                /\ r.op \in {"add", "mark", "cancel"} => qReq[i].kind = "material"
                                /\ r.op = "fulfil" => qReq[i].kind = "catalogue"

QueueTInv ==
    /\ qOnHand \in Int
    /\ qClosed \subseteq qOrders
    /\ qReq \in [Fulfilled!Ids -> Fulfilled!RequestRows \cup {None}]
    /\ qLine \in [qOrders -> Nat] /\ qLogged \in [qOrders -> Nat] /\ qFilled \in [qOrders -> Nat]
    /\ qItemLock \in Clerks \cup {None}
    /\ qRowLock \in [Fulfilled!Ids -> Clerks \cup {None}]
    /\ DOMAIN qJob = Clerks
    /\ \A t \in Clerks : /\ qJob[t].phase \in {"idle", "locking", "commit"}
                         /\ qJob[t].phase # "idle" => QueueWellAsked(qJob[t].req)

\* Whoever changes the count holds the item, and whoever writes the rows he names.
QueueLocks ==
    \A t \in Clerks :
        /\ qItemLock = t <=> qJob[t].phase # "idle" /\ qJob[t].req.op \in Fulfilled!LocksItem
        /\ qJob[t].phase = "commit" => \A i \in QueueNames(qJob[t].req) : qRowLock[i] = t

\* What a pending write read is of the rows as they are, and just so of those
\* its request has locked.
QueueSound(j) ==
    /\ DOMAIN j.does.rows \subseteq Fulfilled!Ids /\ DOMAIN j.saw = DOMAIN j.does.rows
    /\ \A i \in DOMAIN j.does.rows :
          /\ j.does.rows[i] \in Fulfilled!RequestRows /\ j.saw[i] \in Fulfilled!RequestRows
          /\ qReq[i] # None /\ qReq[i].kind = j.saw[i].kind
          /\ i \in QueueNames(j.req) => qReq[i] = j.saw[i]
          /\ j.saw[i].kind = "catalogue" => i \in QueueNames(j.req)
          /\ j.does.rows[i].status # "resolved" => j.saw[i].auto = None
    /\ j.does.news \subseteq Fulfilled!RequestRows /\ Fulfilled!IsFiniteSet(j.does.news)
    /\ \A n \in j.does.news : n.status = "open" /\ n.auto = None
    /\ j.does.hand \in Int
    /\ \A o \in j.does.adds \cap qOrders : j.seen[o] \in Nat

\* A fulfilment links what it has locked, and nobody else links anything.
QueueLinks(j) ==
    /\ j.does.fills \subseteq DOMAIN j.does.rows \cap QueueNames(j.req)
    /\ \A i \in DOMAIN j.does.rows \ j.does.fills : j.does.rows[i].auto = j.saw[i].auto
    /\ \A i \in j.does.fills :
          /\ j.saw[i].kind = "catalogue" /\ j.saw[i].auto = None
          /\ j.does.rows[i].status = "resolved"
          /\ j.does.rows[i].auto = "added" <=> j.saw[i].order \in j.does.adds

\* The material taken from a stocked request.
QueueCloses(j) ==
    j.req.op = "add" /\ j.req.id # None =>
        /\ j.req.id \in DOMAIN j.does.rows
        /\ j.does.rows[j.req.id].status = "resolved" /\ j.saw[j.req.id].status = "stocked"

QueueChanges(j, i) == j.does.rows[i].status # j.saw[i].status

\* Without the item: what waits or is stocked by this write is marked so.
QueueBeside(j) ==
    /\ j.does.hand = 0
    /\ \A n \in j.does.news : n.loose \/ n.kind = "catalogue"
    /\ \A i \in DOMAIN j.does.rows : QueueChanges(j, i) =>
          /\ j.does.rows[i].status = "open" => j.does.rows[i].loose
          /\ j.does.rows[i].status = "stocked" =>
                i \in QueueNames(j.req) /\ j.saw[i].status = "open" /\ j.does.rows[i].by # "auto"

\* With the item: every row the count's move leaves on the wrong side is written.
QueueFollows(j) ==
    \A i \in Fulfilled!Ids : qReq[i] # None /\ qReq[i].kind = "material" =>
        /\ qOnHand + j.does.hand <= 0 /\ qReq[i].status = "stocked" /\ qReq[i].by = "auto" =>
              /\ i \in DOMAIN j.does.rows /\ j.saw[i].status = "stocked"
              /\ j.does.rows[i].status # "stocked"
        /\ qOnHand + j.does.hand > 0 /\ qReq[i].status = "open" /\ ~qReq[i].loose /\ ~qReq[i].onShelf =>
              /\ i \in DOMAIN j.does.rows /\ j.saw[i].status = "open"
              /\ j.does.rows[i].status # "open"
QueueEdges(j) ==
    \A i \in DOMAIN j.does.rows : QueueChanges(j, i) =>
        /\ j.saw[i].status # "resolved"
        /\ j.does.rows[i].status = "open" => qOnHand + j.does.hand <= 0
        /\ j.does.rows[i].status = "stocked" => qOnHand + j.does.hand > 0
\* The one request filed is the crew's first.
QueueFilesFirst(j) ==
    \A n \in j.does.news :
        /\ DOMAIN j.does.rows = {} /\ j.does.hand = 0 /\ \A m \in j.does.news : m = n
        /\ ~n.onShelf => qOnHand <= 0
        /\ \A i \in Fulfilled!Ids :
              qReq[i] # None /\ qReq[i].kind = "material" /\ qReq[i].order = n.order /\ Fulfilled!IsLive(qReq[i])
              => qReq[i].loose
QueueHolding(j) == QueueFollows(j) /\ QueueEdges(j) /\ QueueFilesFirst(j)

QueueJobOK(j) ==
    /\ QueueSound(j) /\ QueueLinks(j) /\ QueueCloses(j)
    /\ IF j.req.op \in Fulfilled!LocksItem THEN QueueHolding(j) ELSE QueueBeside(j)

\* A link closes its request.
QueueLinked ==
    \A i \in Fulfilled!Ids : qReq[i] # None /\ qReq[i].auto # None =>
        qReq[i].status = "resolved" /\ qReq[i].kind = "catalogue"

\* The filed requests that are live or about to be, at most one a crew.
QueueRevives(j, i) ==
    /\ j.phase = "commit" /\ j.req.op \in Fulfilled!LocksItem
    /\ i \in DOMAIN j.does.rows /\ Fulfilled!IsLive(j.does.rows[i]) /\ QueueChanges(j, i)
QueueFiling(i) ==
    /\ qReq[i] # None /\ qReq[i].kind = "material" /\ ~qReq[i].loose
    /\ Fulfilled!IsLive(qReq[i]) \/ \E t \in Clerks : QueueRevives(qJob[t], i)
QueueOneFiling ==
    \A i, k \in Fulfilled!Ids : QueueFiling(i) /\ QueueFiling(k) /\ qReq[i].order = qReq[k].order => i = k

QueueIInv ==
    /\ QueueTInv /\ QueueLocks /\ QueueLinked /\ QueueOneFiling
    /\ Fulfilled!AutoStockedIsOnShelf /\ Fulfilled!NoMissedRestock /\ Fulfilled!AddedOnce
    /\ \A t \in Clerks : qJob[t].phase = "commit" => QueueJobOK(qJob[t])

\* A set of the Fulfilled instance is finite, and as large, as elsewhere.
LEMMA QueueSizes ==
    ASSUME NEW S
    PROVE  /\ Fulfilled!IsFiniteSet(S) <=> IsFiniteSet(S)
           /\ Fulfilled!Cardinality(S) = Cardinality(S)
  BY DEF Fulfilled!IsFiniteSet, IsFiniteSet, Fulfilled!Cardinality, Cardinality

-----------------------------------------------------------------------------
LEMMA QueueLeastIsOne == ASSUME NEW S \in SUBSET Nat, S # {} PROVE Fulfilled!Min(S) \in S
<1>1. PICK R : R = OpToRel(<, Nat) /\ IsWellFoundedOn(R, Nat)
  BY NatLessThanWellFounded, Zenon
<1>2. ASSUME NEW y \in Nat, NEW x \in Nat, <<y, x>> \notin R PROVE x <= y
  <2>1. <<y, x>> \in Nat \X Nat
    OBVIOUS
  <2>2. ~(y < x)
    BY <1>1, <1>2, <2>1, Zenon DEF OpToRel
  <2> QED
    BY <2>2
<1>3. PICK x \in S : \A y \in S : ~(<<y, x>> \in R)
  <2>1. S \subseteq Nat
    OBVIOUS
  <2> QED
    BY <1>1, <2>1, WFMin, Zenon
<1>4. \A y \in S : x <= y
  BY <1>2, <1>3
<1> QED
  BY <1>4 DEF Fulfilled!Min

\* Any set of ids is finite.
LEMMA QueueIdsFinite ==
    ASSUME QueueConstantsOK, NEW S \in SUBSET Fulfilled!Ids
    PROVE  Fulfilled!IsFiniteSet(S) /\ Fulfilled!Cardinality(S) \in Nat
<1>1. 1 \in Int /\ qMaxRows \in Int
  BY DEF QueueConstantsOK
<1>2. Fulfilled!IsFiniteSet(Fulfilled!Ids)
  BY <1>1, FS_Interval, QueueSizes, Zenon DEF Fulfilled!Ids
<1>3. Fulfilled!IsFiniteSet(S)
  BY <1>2, FS_Subset, QueueSizes, Zenon
<1> QED
  BY <1>3, FS_CardinalityType, QueueSizes, Zenon

LEMMA QueueInitIInv == ASSUME QueueConstantsOK, Fulfilled!Init PROVE QueueIInv
<1>1. /\ \A i \in Fulfilled!Ids : qReq[i] = None
      /\ \A t \in Clerks : qJob[t].phase = "idle"
  BY DEF Fulfilled!Init, Fulfilled!Idle
<1>2. QueueTInv
  BY <1>1 DEF Fulfilled!Init, QueueTInv
<1>3. QueueLocks
  BY <1>1 DEF Fulfilled!Init, QueueLocks, QueueConstantsOK
<1>4. QueueLinked /\ QueueOneFiling
  BY <1>1 DEF QueueLinked, QueueOneFiling, QueueFiling
<1>5. Fulfilled!AutoStockedIsOnShelf /\ Fulfilled!NoMissedRestock
  BY <1>1 DEF Fulfilled!AutoStockedIsOnShelf, Fulfilled!NoMissedRestock, Fulfilled!Material,
     Fulfilled!Rows
<1>6. Fulfilled!AddedOnce
  <2> SUFFICES ASSUME NEW o \in qOrders
               PROVE  qFilled[o] = Fulfilled!Cardinality({i \in Fulfilled!Catalogue : qReq[i].order = o /\ qReq[i].auto = "added"})
    BY DEF Fulfilled!AddedOnce
  <2>1. {i \in Fulfilled!Catalogue : qReq[i].order = o /\ qReq[i].auto = "added"} = {}
    BY <1>1 DEF Fulfilled!Catalogue, Fulfilled!Rows
  <2>2. qFilled[o] = 0
    BY DEF Fulfilled!Init
  <2> QED
    BY <2>1, <2>2, FS_EmptySet, QueueSizes, Zenon
<1> QED
  BY <1>1, <1>2, <1>3, <1>4, <1>5, <1>6 DEF QueueIInv

-----------------------------------------------------------------------------
(* Locking, refusals and rollbacks: no row and no count changes.           *)

LEMMA QueueStillStep ==
    ASSUME QueueConstantsOK, QueueIInv, UNCHANGED <<qOnHand, qReq, qFilled>>, QueueTInv',
           QueueLocks',
           \A t \in Clerks : qJob'[t] = qJob[t] \/ qJob'[t].phase # "commit"
    PROVE  QueueIInv'
<1>1. QueueLinked' /\ Fulfilled!AutoStockedIsOnShelf' /\ Fulfilled!NoMissedRestock' /\ Fulfilled!AddedOnce'
  BY DEF QueueIInv, QueueLinked, Fulfilled!AutoStockedIsOnShelf, Fulfilled!NoMissedRestock,
     Fulfilled!AddedOnce, Fulfilled!Material, Fulfilled!Catalogue, Fulfilled!Rows
<1>2. \A i \in Fulfilled!Ids, t \in Clerks : QueueRevives(qJob'[t], i) => QueueRevives(qJob[t], i)
  BY DEF QueueRevives
<1>3. QueueOneFiling'
  <2>1. \A i \in Fulfilled!Ids : QueueFiling(i)' => QueueFiling(i)
    BY <1>2 DEF QueueFiling, QueueRevives, QueueChanges
  <2> QED
    BY <2>1 DEF QueueIInv, QueueOneFiling
<1>4. ASSUME NEW t \in Clerks, qJob'[t].phase = "commit" PROVE QueueJobOK(qJob[t])'
  <2>1. qJob'[t] = qJob[t] /\ QueueJobOK(qJob[t])
    BY <1>4 DEF QueueIInv
  <2>2. QueueSound(qJob[t])'
    BY <2>1 DEF QueueJobOK, QueueSound
  <2>4. QueueLinks(qJob[t])' /\ QueueCloses(qJob[t])'
    BY <2>1 DEF QueueJobOK, QueueLinks, QueueCloses
  <2>5. qJob'[t].req.op \notin Fulfilled!LocksItem => QueueBeside(qJob[t])'
    BY <2>1 DEF QueueJobOK, QueueBeside, QueueChanges
  <2>3. qJob'[t].req.op \in Fulfilled!LocksItem => QueueHolding(qJob[t])'
    BY <2>1 DEF QueueJobOK, QueueHolding, QueueFollows, QueueEdges, QueueFilesFirst, QueueChanges
  <2> QED
    BY <2>2, <2>3, <2>4, <2>5 DEF QueueJobOK
<1> QED
  BY <1>1, <1>3, <1>4 DEF QueueIInv

\* A work order is closed.
LEMMA QueueArchiveStep ==
    ASSUME QueueConstantsOK, QueueIInv, NEW o \in qOrders, Fulfilled!Archive(o) PROVE QueueIInv'
<1>1. UNCHANGED <<qOnHand, qReq, qLine, qLogged, qFilled, qItemLock, qRowLock, qJob>> /\ qClosed' = qClosed \cup {o}
  BY DEF Fulfilled!Archive
<1>2. QueueTInv'
  BY <1>1 DEF QueueIInv, QueueTInv, QueueWellAsked, Fulfilled!Ids
<1>3. QueueLocks'
  BY <1>1 DEF QueueIInv, QueueLocks
<1> QED
  BY <1>1, <1>2, <1>3, QueueStillStep

\* Whoever ends lets go of what he held, and of nothing else.
LEMMA QueueEndsFacts ==
    ASSUME QueueConstantsOK, QueueIInv, NEW t \in Clerks, Fulfilled!Ends(t)
    PROVE  /\ DOMAIN qJob' = Clerks /\ qJob'[t].phase = "idle"
           /\ \A u \in Clerks \ {t} : qJob'[u] = qJob[u]
           /\ qItemLock' \in Clerks \cup {None} /\ qRowLock' \in [Fulfilled!Ids -> Clerks \cup {None}]
           /\ QueueLocks'
<1>1. /\ DOMAIN qJob' = Clerks /\ qJob'[t].phase = "idle"
      /\ \A u \in Clerks \ {t} : qJob'[u] = qJob[u]
  BY DEF Fulfilled!Ends, QueueIInv, QueueTInv, Fulfilled!Idle
<1>2. qItemLock' \in Clerks \cup {None} /\ qRowLock' \in [Fulfilled!Ids -> Clerks \cup {None}]
  BY DEF Fulfilled!Ends, QueueIInv, QueueTInv
<1>3. QueueLocks'
  <2> SUFFICES ASSUME NEW u \in Clerks
               PROVE  /\ qItemLock' = u <=> qJob'[u].phase # "idle" /\ qJob'[u].req.op \in Fulfilled!LocksItem
                      /\ qJob'[u].phase = "commit" => \A i \in QueueNames(qJob'[u].req) : qRowLock'[i] = u
    BY DEF QueueLocks
  <2>1. qItemLock' = IF qItemLock = t THEN None ELSE qItemLock
    BY DEF Fulfilled!Ends
  <2>2. qItemLock' = u <=> qJob'[u].phase # "idle" /\ qJob'[u].req.op \in Fulfilled!LocksItem
    BY <1>1, <2>1 DEF QueueIInv, QueueLocks, QueueConstantsOK
  <2>3. ASSUME qJob'[u].phase = "commit", NEW i \in QueueNames(qJob'[u].req)
        PROVE  qRowLock'[i] = u
    <3>1. u # t /\ qJob'[u] = qJob[u] /\ i \in Fulfilled!Ids /\ qRowLock[i] = u
      BY <1>1, <2>3 DEF QueueIInv, QueueLocks, QueueTInv, QueueWellAsked
    <3> QED
      BY <3>1 DEF Fulfilled!Ends
  <2> QED
    BY <2>2, <2>3
<1> QED
  BY <1>1, <1>2, <1>3

LEMMA QueueEndsStep ==
    ASSUME QueueConstantsOK, QueueIInv, NEW t \in Clerks, Fulfilled!Ends(t), UNCHANGED <<qOnHand, qReq, qLine, qLogged, qFilled, qClosed>>
    PROVE  QueueIInv'
<1>1. \A u \in Clerks : /\ qJob'[u].phase \in {"idle", "locking", "commit"}
                        /\ qJob'[u].phase # "idle" => qJob'[u] = qJob[u]
  BY QueueEndsFacts DEF QueueIInv, QueueTInv
<1>2. \A u \in Clerks : qJob'[u].phase # "idle" => QueueWellAsked(qJob[u].req)'
  BY <1>1 DEF QueueIInv, QueueTInv, QueueWellAsked, Fulfilled!Ids
<1>3. QueueTInv'
  BY <1>1, <1>2, QueueEndsFacts DEF QueueIInv, QueueTInv
<1> QED
  BY <1>3, QueueEndsFacts, QueueStillStep

LEMMA QueueAbortStep ==
    ASSUME QueueConstantsOK, QueueIInv, NEW t \in Clerks, Fulfilled!Abort(t) PROVE QueueIInv'
  BY QueueEndsStep DEF Fulfilled!Abort

-----------------------------------------------------------------------------
(* Reading: what each operation plans agrees with what it has read.        *)

LEMMA QueueRowFacts ==
    ASSUME NEW q \in Fulfilled!RequestRows, NEW who \in {"auto", "staff"}
    PROVE  /\ Fulfilled!Resolved(q) \in Fulfilled!RequestRows /\ Fulfilled!Resolved(q).status = "resolved"
           /\ Fulfilled!Resolved(q).auto = q.auto
           /\ Fulfilled!Reopened(q) \in Fulfilled!RequestRows /\ Fulfilled!Reopened(q).status = "open" /\ Fulfilled!Reopened(q).auto = q.auto
           /\ Fulfilled!StockedOrClosed(q, who) \in Fulfilled!RequestRows
           /\ Fulfilled!StockedOrClosed(q, who).status \in {"stocked", "resolved"}
           /\ Fulfilled!StockedOrClosed(q, who).status = "stocked" => Fulfilled!StockedOrClosed(q, who).by = who
           /\ Fulfilled!StockedOrClosed(q, who).auto = q.auto
<1>1. Fulfilled!Resolved(q) \in Fulfilled!RequestRows /\ Fulfilled!Resolved(q).status = "resolved" /\ Fulfilled!Resolved(q).auto = q.auto
  BY DEF Fulfilled!Resolved, Fulfilled!RequestRows
<1>2. Fulfilled!Reopened(q) \in Fulfilled!RequestRows /\ Fulfilled!Reopened(q).status = "open" /\ Fulfilled!Reopened(q).auto = q.auto
  BY DEF Fulfilled!Reopened, Fulfilled!RequestRows
<1>3. /\ Fulfilled!Stocked(q, who) \in Fulfilled!RequestRows /\ Fulfilled!Stocked(q, who).status = "stocked"
      /\ Fulfilled!Stocked(q, who).by = who /\ Fulfilled!Stocked(q, who).auto = q.auto
  BY DEF Fulfilled!Stocked, Fulfilled!RequestRows
<1> QED
  BY <1>1, <1>2, <1>3 DEF Fulfilled!StockedOrClosed

\* A stock write moves the rows on the wrong side of its edge, and no others.
LEMMA QueueMovedFacts ==
    ASSUME QueueConstantsOK, QueueTInv, NEW b \in Int, NEW a \in Int, NEW own, NEW m, m = Fulfilled!MovedRows(b, a, own)
    PROVE  /\ \A i \in DOMAIN m :
                 /\ i \in Fulfilled!Ids /\ i \notin own /\ qReq[i] # None /\ qReq[i].kind = "material"
                 /\ m[i] \in Fulfilled!RequestRows /\ m[i].auto = qReq[i].auto /\ m[i].status # qReq[i].status
                 /\ m[i].status = "open" => a <= 0
                 /\ m[i].status = "stocked" => a > 0
                 /\ qReq[i].status # "resolved"
           /\ \A i \in Fulfilled!Ids \ own : qReq[i] # None /\ qReq[i].kind = "material" =>
                 /\ Fulfilled!Restocked(b, a) /\ qReq[i].status = "open" => i \in DOMAIN m
                 /\ Fulfilled!WentOut(b, a) /\ qReq[i].status = "stocked" => i \in DOMAIN m
<1>1. \A i \in DOMAIN m :
         /\ i \in Fulfilled!Ids /\ i \notin own /\ qReq[i] # None /\ qReq[i].kind = "material"
         /\ \/ Fulfilled!Restocked(b, a) /\ qReq[i].status = "open"
            \/ Fulfilled!WentOut(b, a) /\ qReq[i].status = "stocked"
         /\ m[i] = IF a > 0 THEN Fulfilled!StockedOrClosed(qReq[i], "auto") ELSE Fulfilled!Reopened(qReq[i])
  BY DEF Fulfilled!MovedRows, Fulfilled!Material, Fulfilled!Rows
<1>2. \A i \in Fulfilled!Ids \ own : qReq[i] # None /\ qReq[i].kind = "material" =>
         /\ Fulfilled!Restocked(b, a) /\ qReq[i].status = "open" => i \in DOMAIN m
         /\ Fulfilled!WentOut(b, a) /\ qReq[i].status = "stocked" => i \in DOMAIN m
  BY DEF Fulfilled!MovedRows, Fulfilled!Material, Fulfilled!Rows
<1>3. \A i \in DOMAIN m : qReq[i] \in Fulfilled!RequestRows
  BY <1>1 DEF QueueTInv
<1>4. ASSUME NEW i \in DOMAIN m
      PROVE  /\ m[i] \in Fulfilled!RequestRows /\ m[i].auto = qReq[i].auto /\ m[i].status # qReq[i].status
             /\ m[i].status = "open" => a <= 0
             /\ m[i].status = "stocked" => a > 0
  <2>1. CASE a > 0
    BY <1>1, <1>3, <2>1, QueueRowFacts DEF Fulfilled!WentOut
  <2>2. CASE a <= 0
    BY <1>1, <1>3, <2>2, QueueRowFacts DEF Fulfilled!Restocked
  <2> QED
    BY <2>1, <2>2
<1> QED
  BY <1>1, <1>2, <1>4

LEMMA QueueNewRowFacts ==
    ASSUME NEW kind \in {"material", "catalogue"}, NEW o \in qOrders, NEW loose \in BOOLEAN
    PROVE  LET n == Fulfilled!NewRow(kind, o, loose) IN
           /\ n \in Fulfilled!RequestRows /\ n.kind = kind /\ n.order = o /\ n.status = "open" /\ n.auto = None
           /\ n.loose = loose /\ n.onShelf = (qOnHand > 0)
  BY DEF Fulfilled!NewRow, Fulfilled!RequestRows

LEMMA QueueLeastLive ==
    ASSUME QueueConstantsOK, NEW o, Fulfilled!LiveFor(o) # {}
    PROVE  LET m == Fulfilled!Min(Fulfilled!LiveFor(o)) IN
           m \in Fulfilled!Ids /\ qReq[m] # None /\ qReq[m].kind = "material" /\ qReq[m].order = o /\ Fulfilled!IsLive(qReq[m])
<1>1. Fulfilled!LiveFor(o) \subseteq Nat
  BY DEF Fulfilled!LiveFor, Fulfilled!Material, Fulfilled!Rows, Fulfilled!Ids, QueueConstantsOK
<1>2. Fulfilled!Min(Fulfilled!LiveFor(o)) \in Fulfilled!LiveFor(o)
  BY <1>1, QueueLeastIsOne
<1> QED
  BY <1>2 DEF Fulfilled!LiveFor, Fulfilled!Material, Fulfilled!Rows

\* What a request has read, together with what it will write.
QueueRead(j, r, w) ==
    /\ j.phase = "commit" /\ j.req = r /\ j.does = w
    /\ j.saw = [i \in DOMAIN w.rows |-> qReq[i]] /\ j.seen = [o \in w.adds |-> qLine[o]]

LEMMA QueueReadingIs ==
    ASSUME NEW r, ~Fulfilled!Refused(r)
    PROVE  QueueRead(Fulfilled!Reading(r), r, Fulfilled!Does(r))
  BY DEF Fulfilled!Reading, QueueRead

\* What is common to all: the rows are there, and read as they are.
LEMMA QueueReadSound ==
    ASSUME QueueConstantsOK, QueueIInv, NEW r, QueueWellAsked(r), NEW j, NEW w, QueueRead(j, r,
           w),
           \A i \in DOMAIN w.rows : /\ i \in Fulfilled!Ids /\ qReq[i] # None /\ w.rows[i] \in Fulfilled!RequestRows
                                    /\ qReq[i].kind = "catalogue" => i \in QueueNames(r)
                                    /\ w.rows[i].status # "resolved" => qReq[i].auto = None,
           w.news \subseteq Fulfilled!RequestRows, Fulfilled!IsFiniteSet(w.news),
           \A n \in w.news : n.status = "open" /\ n.auto = None,
           w.hand \in Int
    PROVE  QueueSound(j)
<1>1. \A i \in DOMAIN w.rows : qReq[i] \in Fulfilled!RequestRows /\ j.saw[i] = qReq[i]
  BY DEF QueueIInv, QueueTInv, QueueRead
<1>2. \A o \in w.adds \cap qOrders : j.seen[o] \in Nat
  BY DEF QueueIInv, QueueTInv, QueueRead
<1>3. DOMAIN j.saw = DOMAIN w.rows /\ j.does = w /\ j.req = r
  BY DEF QueueRead
<1> QED
  BY <1>1, <1>2, <1>3 DEF QueueSound

\* A material request is on the side of the shelf where it belongs.
LEMMA QueueSettled ==
    ASSUME QueueIInv
    PROVE  \A i \in Fulfilled!Ids : qReq[i] # None /\ qReq[i].kind = "material" =>
              /\ qReq[i] \in Fulfilled!RequestRows /\ qReq[i].auto = None
              /\ qReq[i].status = "stocked" /\ qReq[i].by = "auto" => qOnHand > 0
              /\ qReq[i].status = "open" /\ qOnHand > 0 => qReq[i].onShelf \/ qReq[i].loose
<1> SUFFICES ASSUME NEW i \in Fulfilled!Ids, qReq[i] # None, qReq[i].kind = "material"
             PROVE  /\ qReq[i] \in Fulfilled!RequestRows /\ qReq[i].auto = None
                    /\ qReq[i].status = "stocked" /\ qReq[i].by = "auto" => qOnHand > 0
                    /\ qReq[i].status = "open" /\ qOnHand > 0 => qReq[i].onShelf \/ qReq[i].loose
  OBVIOUS
<1>1. i \in Fulfilled!Material
  BY DEF Fulfilled!Material, Fulfilled!Rows
<1>2. qReq[i] \in Fulfilled!RequestRows /\ qReq[i].auto = None
  BY DEF QueueIInv, QueueTInv, QueueLinked
<1> QED
  BY <1>1, <1>2 DEF QueueIInv, Fulfilled!AutoStockedIsOnShelf, Fulfilled!NoMissedRestock

LEMMA QueueFileReads ==
    ASSUME QueueConstantsOK, QueueIInv, NEW r, QueueWellAsked(r), r.op = "file", NEW j, QueueRead(j, r, Fulfilled!Does(r))
    PROVE  QueueJobOK(j)
<1> DEFINE o == r.order  w == Fulfilled!Does(r)
<1>0. o \in qOrders /\ w = Fulfilled!Filed(o) /\ r.op \in Fulfilled!LocksItem /\ r.id = None
  BY DEF QueueWellAsked, Fulfilled!Does, Fulfilled!LocksItem
<1>1. CASE Fulfilled!LiveFor(o) # {}
  <2> DEFINE m == Fulfilled!Min(Fulfilled!LiveFor(o))
  <2>1. m \in Fulfilled!Ids /\ qReq[m] # None /\ qReq[m].kind = "material"
    BY <1>1, QueueLeastLive
  <2>2. qReq[m] \in Fulfilled!RequestRows /\ qReq[m].auto = None
    BY <2>1 DEF QueueIInv, QueueTInv, QueueLinked
  <2>3. /\ w.rows = [i \in {m} |-> qReq[i]] /\ w.news = {} /\ w.hand = 0 /\ w.adds = {} /\ w.fills = {}
    BY <1>0, <1>1 DEF Fulfilled!Filed, Fulfilled!Rewrites
  <2> HIDE DEF m, w
  <2>4. QueueSound(j)
    BY <2>1, <2>2, <2>3, FS_EmptySet, QueueSizes, QueueReadSound, SMTT(30) DEF w
  <2>5. j.does = w /\ j.req = r /\ \A i \in DOMAIN w.rows : j.saw[i] = w.rows[i]
    BY <2>3 DEF QueueRead, w
  <2>6. QueueLinks(j) /\ QueueCloses(j)
    BY <1>0, <2>3, <2>5 DEF QueueLinks, QueueCloses
  <2>7. QueueEdges(j) /\ QueueFilesFirst(j)
    BY <2>3, <2>5 DEF QueueEdges, QueueFilesFirst, QueueChanges
  <2>8. qOnHand \in Int /\ j.does.hand = 0
    BY <2>3, <2>5 DEF QueueIInv, QueueTInv
  <2>9. QueueFollows(j)
    BY <2>8, QueueSettled DEF QueueFollows
  <2> QED
    BY <1>0, <2>4, <2>5, <2>6, <2>7, <2>9 DEF QueueJobOK, QueueHolding
<1>2. CASE Fulfilled!LiveFor(o) = {}
  <2> DEFINE n == Fulfilled!NewRow("material", o, FALSE)
  <2>1. /\ n \in Fulfilled!RequestRows /\ n.kind = "material" /\ n.order = o /\ n.status = "open" /\ n.auto = None
        /\ n.loose = FALSE /\ n.onShelf = (qOnHand > 0)
    BY <1>0, QueueNewRowFacts
  <2>2. /\ DOMAIN w.rows = {} /\ w.news = {n} /\ w.hand = 0 /\ w.adds = {} /\ w.fills = {}
    BY <1>0, <1>2 DEF Fulfilled!Filed, Fulfilled!Rewrites, Fulfilled!NoRows
  <2>3. Fulfilled!IsFiniteSet({n})
    BY FS_Singleton, QueueSizes
  <2> HIDE DEF n, w
  <2>4. QueueSound(j)
    BY <2>1, <2>2, <2>3, QueueReadSound DEF w
  <2>5. j.does = w /\ j.req = r
    BY DEF QueueRead, w
  <2>6. QueueLinks(j) /\ QueueCloses(j)
    BY <1>0, <2>2, <2>5 DEF QueueLinks, QueueCloses
  <2>7. \A i \in Fulfilled!Ids :
           qReq[i] # None /\ qReq[i].kind = "material" /\ qReq[i].order = o /\ Fulfilled!IsLive(qReq[i])
           => qReq[i].loose
    <3> SUFFICES ASSUME NEW i \in Fulfilled!Ids, qReq[i] # None, qReq[i].kind = "material",
                        qReq[i].order = o, Fulfilled!IsLive(qReq[i])
                 PROVE  FALSE
      OBVIOUS
    <3>1. i \in Fulfilled!LiveFor(o)
      BY DEF Fulfilled!LiveFor, Fulfilled!Material, Fulfilled!Rows
    <3> QED
      BY <1>2, <3>1
  <2>8. qOnHand \in Int /\ j.does.hand = 0 /\ j.does.news = {n} /\ DOMAIN j.does.rows = {}
    BY <2>2, <2>5 DEF QueueIInv, QueueTInv
  <2>11. ~n.onShelf => ~(qOnHand > 0)
    BY <2>1, Zenon
  <2>12. ~n.onShelf => qOnHand <= 0
    BY <2>8, <2>11
  <2>10. QueueFilesFirst(j)
    BY <2>1, <2>7, <2>8, <2>12 DEF QueueFilesFirst
  <2>9. QueueFollows(j) /\ QueueEdges(j)
    BY <2>8, QueueSettled DEF QueueFollows, QueueEdges
  <2> QED
    BY <1>0, <2>4, <2>5, <2>6, <2>9, <2>10 DEF QueueJobOK, QueueHolding
<1> QED
  BY <1>1, <1>2

LEMMA QueueAskReads ==
    ASSUME QueueConstantsOK, QueueIInv, NEW r, QueueWellAsked(r), r.op = "ask", NEW j, QueueRead(j, r, Fulfilled!Does(r))
    PROVE  QueueJobOK(j)
<1> DEFINE o == r.order  w == Fulfilled!Does(r)  n == Fulfilled!NewRow("catalogue", o, FALSE)
<1>0. o \in qOrders /\ r.op \notin Fulfilled!LocksItem /\ r.id = None
  BY DEF QueueWellAsked, Fulfilled!LocksItem
<1>1. n \in Fulfilled!RequestRows /\ n.kind = "catalogue" /\ n.status = "open" /\ n.auto = None
  BY <1>0, QueueNewRowFacts
<1>2. /\ DOMAIN w.rows = {} /\ w.news = {n} /\ w.hand = 0 /\ w.adds = {} /\ w.fills = {}
  BY <1>0 DEF Fulfilled!Does, Fulfilled!Rewrites, Fulfilled!NoRows
<1>3. Fulfilled!IsFiniteSet({n})
  BY FS_Singleton, QueueSizes
<1> HIDE DEF n, w
<1>4. QueueSound(j)
  BY <1>1, <1>2, <1>3, QueueReadSound DEF w
<1>5. j.does = w /\ j.req = r
  BY DEF QueueRead, w
<1> QED
  BY <1>0, <1>1, <1>2, <1>4, <1>5 DEF QueueJobOK, QueueLinks, QueueCloses, QueueBeside

LEMMA QueueStockReads ==
    ASSUME QueueConstantsOK, QueueIInv, NEW r, QueueWellAsked(r), r.op = "stock", NEW j, QueueRead(j, r, Fulfilled!Does(r))
    PROVE  QueueJobOK(j)
<1> DEFINE a == qOnHand + r.n  w == Fulfilled!Does(r)  m == Fulfilled!MovedRows(qOnHand, a, {})
<1>0. r.n \in Int /\ qOnHand \in Int /\ a \in Int /\ r.op \in Fulfilled!LocksItem
  BY DEF QueueWellAsked, Fulfilled!LocksItem, QueueIInv, QueueTInv
<1>1. w.rows = m /\ w.news = {} /\ w.hand = r.n /\ w.adds = {} /\ w.fills = {}
  BY DEF Fulfilled!Does, Fulfilled!StockWrite
<1> HIDE DEF w
<1>2. j.does = w /\ j.req = r /\ \A i \in DOMAIN m : j.saw[i] = qReq[i]
  BY <1>1 DEF QueueRead, w
<1>3. /\ \A i \in DOMAIN m :
             /\ i \in Fulfilled!Ids /\ qReq[i] # None /\ qReq[i].kind = "material"
             /\ m[i] \in Fulfilled!RequestRows /\ m[i].auto = qReq[i].auto /\ m[i].status # qReq[i].status
             /\ m[i].status = "open" => a <= 0
             /\ m[i].status = "stocked" => a > 0
             /\ qReq[i].status # "resolved"
      /\ \A i \in Fulfilled!Ids : qReq[i] # None /\ qReq[i].kind = "material" =>
             /\ Fulfilled!Restocked(qOnHand, a) /\ qReq[i].status = "open" => i \in DOMAIN m
             /\ Fulfilled!WentOut(qOnHand, a) /\ qReq[i].status = "stocked" => i \in DOMAIN m
  BY <1>0, QueueMovedFacts DEF QueueIInv
<1> HIDE DEF m
<1>4. QueueSound(j)
  <2>1. \A i \in DOMAIN m : qReq[i].auto = None
    BY <1>3 DEF QueueIInv, QueueLinked
  <2> QED
    BY <1>0, <1>1, <1>3, <2>1, FS_EmptySet, QueueSizes, QueueReadSound DEF w
<1>5. QueueLinks(j) /\ QueueCloses(j)
  BY <1>1, <1>2, <1>3 DEF QueueLinks, QueueCloses
<1>6. QueueFollows(j)
  <2>1. qOnHand + j.does.hand = a /\ j.does.rows = m
    BY <1>0, <1>1, <1>2
  <2>2. ASSUME NEW i \in Fulfilled!Ids, qReq[i] # None, qReq[i].kind = "material", a <= 0,
               qReq[i].status = "stocked", qReq[i].by = "auto"
        PROVE  i \in DOMAIN m
    <3>1. qOnHand > 0
      BY <2>2, QueueSettled
    <3> QED
      BY <1>0, <1>3, <2>2, <3>1 DEF Fulfilled!WentOut
  <2>3. ASSUME NEW i \in Fulfilled!Ids, qReq[i] # None, qReq[i].kind = "material", a > 0,
               qReq[i].status = "open", ~qReq[i].loose, ~qReq[i].onShelf
        PROVE  i \in DOMAIN m
    <3>1. ~(qOnHand > 0)
      BY <2>3, QueueSettled
    <3> QED
      BY <1>0, <1>3, <2>3, <3>1 DEF Fulfilled!Restocked
  <2> HIDE DEF a
  <2>4. \A i \in DOMAIN m : j.saw[i] = qReq[i] /\ m[i].status # qReq[i].status
    BY <1>2, <1>3
  <2> QED
    BY <2>1, <2>2, <2>3, <2>4 DEF QueueFollows
<1>7. QueueEdges(j) /\ QueueFilesFirst(j)
  BY <1>0, <1>1, <1>2, <1>3 DEF QueueEdges, QueueFilesFirst
<1> QED
  BY <1>0, <1>2, <1>4, <1>5, <1>6, <1>7 DEF QueueJobOK, QueueHolding

LEMMA QueueAddReads ==
    ASSUME QueueConstantsOK, QueueIInv, NEW r, QueueWellAsked(r), r.op = "add", ~Fulfilled!Refused(r), NEW j, QueueRead(j, r, Fulfilled!Does(r))
    PROVE  QueueJobOK(j)
<1> DEFINE own == {r.id} \ {None}  a == qOnHand - 1  w == Fulfilled!Does(r)  m == Fulfilled!MovedRows(qOnHand, a, own)
<1>0. /\ qOnHand \in Int /\ a \in Int /\ r.op \in Fulfilled!LocksItem
      /\ \A i \in own : /\ i \in Fulfilled!Ids /\ qReq[i] # None /\ qReq[i].kind = "material"
                        /\ qReq[i].status = "stocked" /\ i \in QueueNames(r) /\ i = r.id
  BY DEF QueueWellAsked, Fulfilled!LocksItem, QueueIInv, QueueTInv, Fulfilled!Refused,
     Fulfilled!AddOK, QueueNames
<1>1. /\ w.rows = [i \in own \cup DOMAIN m |-> IF i \in DOMAIN m THEN m[i] ELSE Fulfilled!Resolved(qReq[i])]
      /\ w.news = {} /\ w.hand = -1 /\ w.fills = {}
  BY DEF Fulfilled!Does, Fulfilled!Added
<1> HIDE DEF w
<1>2. j.does = w /\ j.req = r /\ \A i \in DOMAIN w.rows : j.saw[i] = qReq[i]
  BY DEF QueueRead, w
<1>3. /\ \A i \in DOMAIN m :
             /\ i \in Fulfilled!Ids /\ i \notin own /\ qReq[i] # None /\ qReq[i].kind = "material"
             /\ m[i] \in Fulfilled!RequestRows /\ m[i].auto = qReq[i].auto /\ m[i].status # qReq[i].status
             /\ m[i].status = "open" => a <= 0
             /\ m[i].status = "stocked" => a > 0
             /\ qReq[i].status # "resolved"
      /\ \A i \in Fulfilled!Ids \ own : qReq[i] # None /\ qReq[i].kind = "material" =>
             /\ Fulfilled!Restocked(qOnHand, a) /\ qReq[i].status = "open" => i \in DOMAIN m
             /\ Fulfilled!WentOut(qOnHand, a) /\ qReq[i].status = "stocked" => i \in DOMAIN m
  BY <1>0, QueueMovedFacts DEF QueueIInv
<1>4. \A i \in own : /\ i \in DOMAIN w.rows /\ w.rows[i] \in Fulfilled!RequestRows
                     /\ w.rows[i].status = "resolved" /\ w.rows[i].auto = qReq[i].auto
  <2> SUFFICES ASSUME NEW i \in own
               PROVE  /\ i \in DOMAIN w.rows /\ w.rows[i] \in Fulfilled!RequestRows
                      /\ w.rows[i].status = "resolved" /\ w.rows[i].auto = qReq[i].auto
    OBVIOUS
  <2>1. qReq[i] \in Fulfilled!RequestRows
    BY <1>0 DEF QueueIInv, QueueTInv
  <2>2. i \in DOMAIN w.rows /\ w.rows[i] = Fulfilled!Resolved(qReq[i])
    BY <1>1, <1>3
  <2> QED
    BY <2>1, <2>2, QueueRowFacts
<1>5. /\ DOMAIN w.rows = own \cup DOMAIN m /\ \A i \in DOMAIN m : w.rows[i] = m[i]
  BY <1>1
<1> HIDE DEF m, own
<1>6. QueueSound(j)
  <2>1. \A i \in DOMAIN w.rows : /\ i \in Fulfilled!Ids /\ qReq[i] # None /\ qReq[i].kind = "material"
                                 /\ w.rows[i] \in Fulfilled!RequestRows
    BY <1>0, <1>3, <1>4, <1>5
  <2>2. \A i \in DOMAIN w.rows : qReq[i].auto = None
    BY <2>1, QueueSettled
  <2>3. w.news = {} /\ w.hand \in Int
    BY <1>1
  <2>4. QueueRead(j, r, w)
    BY DEF w
  <2> QED
    BY <2>1, <2>2, <2>3, <2>4, FS_EmptySet, QueueSizes, QueueReadSound
<1>7. QueueLinks(j)
  BY <1>1, <1>2, <1>3, <1>4, <1>5 DEF QueueLinks
<1>8. QueueCloses(j)
  BY <1>0, <1>2, <1>4 DEF QueueCloses, own
<1>9. QueueFollows(j)
  <2>1. ASSUME NEW i \in Fulfilled!Ids, qReq[i] # None, qReq[i].kind = "material",
               qOnHand + w.hand <= 0,
               qReq[i].status = "stocked", qReq[i].by = "auto"
        PROVE  i \in DOMAIN w.rows /\ w.rows[i].status # "stocked"
    <3>1. qOnHand > 0
      BY <2>1, QueueSettled
    <3>2. i \in own \/ i \in DOMAIN m
      BY <1>0, <1>1, <1>3, <2>1, <3>1 DEF Fulfilled!WentOut
    <3> QED
      BY <1>3, <1>4, <1>5, <2>1, <3>2
  <2>2. ASSUME NEW i \in Fulfilled!Ids, qReq[i] # None, qReq[i].kind = "material",
               qOnHand + w.hand > 0,
               qReq[i].status = "open", ~qReq[i].loose, ~qReq[i].onShelf
        PROVE  FALSE
    BY <1>0, <1>1, <2>2, QueueSettled
  <2>3. \A i \in DOMAIN w.rows : j.saw[i] = qReq[i]
    BY <1>2
  <2>4. j.does = w
    BY <1>2
  <2> QED
    BY <2>1, <2>2, <2>3, <2>4 DEF QueueFollows
<1>10. QueueEdges(j) /\ QueueFilesFirst(j)
  BY <1>0, <1>1, <1>2, <1>3, <1>4, <1>5 DEF QueueEdges, QueueFilesFirst
<1> QED
  BY <1>0, <1>2, <1>6, <1>7, <1>8, <1>9, <1>10 DEF QueueJobOK, QueueHolding

\* A mark, a cancellation or a patch writes the one row it has locked.
LEMMA QueueOneRowReads ==
    ASSUME QueueConstantsOK, QueueIInv, NEW r, QueueWellAsked(r), r.op \in {"mark", "cancel",
           "reopen", "close"},
           ~Fulfilled!Refused(r), NEW j, QueueRead(j, r, Fulfilled!Does(r))
    PROVE  QueueJobOK(j)
<1> DEFINE i == r.id  w == Fulfilled!Does(r)
<1>0. /\ r.op \notin Fulfilled!LocksItem /\ r.op # "add" /\ i \in QueueNames(r) /\ i \in Fulfilled!Ids /\ qReq[i] \in Fulfilled!RequestRows
      /\ qReq[i] # None
      /\ r.op \in {"mark", "cancel"} => qReq[i].kind = "material" /\ qReq[i].status = "open"
      /\ r.op = "reopen" => qReq[i].auto = None
  <2>1. r.op \notin Fulfilled!LocksItem /\ r.op # "add" /\ i \in Fulfilled!Ids /\ None \notin Fulfilled!Ids
    BY DEF QueueWellAsked, Fulfilled!LocksItem, QueueConstantsOK, Fulfilled!Ids
  <2>2. i \in QueueNames(r)
    BY <2>1 DEF QueueNames
  <2>3. qReq[i] # None /\ (r.op \in {"mark", "cancel"} => qReq[i].kind = "material")
    BY <2>2 DEF QueueWellAsked
  <2>4. qReq[i] \in Fulfilled!RequestRows
    BY <2>1, <2>3 DEF QueueIInv, QueueTInv
  <2>5. r.op \in {"mark", "cancel"} => qReq[i].status = "open"
    BY DEF Fulfilled!Refused
  <2>6. r.op = "reopen" => qReq[i].auto = None
    BY SMTT(30) DEF Fulfilled!Refused, Fulfilled!PatchOK
  <2> QED
    BY <2>1, <2>2, <2>3, <2>4, <2>5, <2>6
<1>1. /\ DOMAIN w.rows = {i} /\ w.news = {} /\ w.hand = 0 /\ w.adds = {} /\ w.fills = {}
      /\ r.op = "mark" => w.rows[i] = Fulfilled!StockedOrClosed(qReq[i], "staff")
      /\ r.op \in {"cancel", "close"} => w.rows[i] = Fulfilled!Resolved(qReq[i])
      /\ r.op = "reopen" => w.rows[i] = [Fulfilled!Reopened(qReq[i]) EXCEPT !.loose = TRUE]
  BY DEF Fulfilled!Does, Fulfilled!Rewrites, Fulfilled!Patched
<1> HIDE DEF w
<1>2. j.does = w /\ j.req = r /\ j.saw[i] = qReq[i]
  BY <1>1 DEF QueueRead, w
<1>3. /\ Fulfilled!Reopened(qReq[i]) \in Fulfilled!RequestRows /\ Fulfilled!Reopened(qReq[i]).status = "open"
      /\ Fulfilled!Reopened(qReq[i]).auto = qReq[i].auto
  BY <1>0, QueueRowFacts
<1>4. /\ [Fulfilled!Reopened(qReq[i]) EXCEPT !.loose = TRUE] \in Fulfilled!RequestRows
      /\ [Fulfilled!Reopened(qReq[i]) EXCEPT !.loose = TRUE].status = "open"
      /\ [Fulfilled!Reopened(qReq[i]) EXCEPT !.loose = TRUE].auto = qReq[i].auto
      /\ [Fulfilled!Reopened(qReq[i]) EXCEPT !.loose = TRUE].loose
  BY <1>3 DEF Fulfilled!RequestRows
<1>10. /\ Fulfilled!Resolved(qReq[i]) \in Fulfilled!RequestRows /\ Fulfilled!Resolved(qReq[i]).status = "resolved"
       /\ Fulfilled!Resolved(qReq[i]).auto = qReq[i].auto
  BY <1>0, QueueRowFacts
<1>11. /\ Fulfilled!StockedOrClosed(qReq[i], "staff") \in Fulfilled!RequestRows
       /\ Fulfilled!StockedOrClosed(qReq[i], "staff").status \in {"stocked", "resolved"}
       /\ Fulfilled!StockedOrClosed(qReq[i], "staff").status = "stocked" =>
             Fulfilled!StockedOrClosed(qReq[i], "staff").by = "staff"
       /\ Fulfilled!StockedOrClosed(qReq[i], "staff").auto = qReq[i].auto
  BY <1>0, QueueRowFacts
<1>12. r.op \in {"mark", "cancel"} => qReq[i].auto = None
  BY <1>0, QueueSettled
<1>5. /\ w.rows[i] \in Fulfilled!RequestRows /\ w.rows[i].auto = qReq[i].auto
      /\ w.rows[i].status = "open" => w.rows[i].loose
      /\ w.rows[i].status = "stocked" => qReq[i].status = "open" /\ w.rows[i].by # "auto"
      /\ w.rows[i].status # "resolved" => qReq[i].auto = None
  <2>1. CASE r.op = "mark"
    BY <1>0, <1>1, <1>11, <1>12, <2>1
  <2>2. CASE r.op \in {"cancel", "close"}
    BY <1>1, <1>10, <2>2
  <2>3. CASE r.op = "reopen"
    BY <1>0, <1>1, <1>4, <2>3
  <2> QED
    BY <2>1, <2>2, <2>3
<1>7. QueueSound(j)
  <2>1. QueueRead(j, r, w)
    BY DEF w
  <2>2. \A k \in DOMAIN w.rows : /\ k \in Fulfilled!Ids /\ qReq[k] # None /\ w.rows[k] \in Fulfilled!RequestRows
                                 /\ qReq[k].kind = "catalogue" => k \in QueueNames(r)
                                 /\ w.rows[k].status # "resolved" => qReq[k].auto = None
    BY <1>0, <1>1, <1>5
  <2>3. w.news = {} /\ w.hand \in Int
    BY <1>1
  <2> QED
    BY <2>1, <2>2, <2>3, FS_EmptySet, QueueSizes, QueueReadSound
<1>8. QueueLinks(j) /\ QueueCloses(j)
  BY <1>0, <1>1, <1>2, <1>5 DEF QueueLinks, QueueCloses
<1>9. QueueBeside(j)
  BY <1>0, <1>1, <1>2, <1>5 DEF QueueBeside
<1> QED
  BY <1>0, <1>2, <1>7, <1>8, <1>9 DEF QueueJobOK

\* The rows filed for a fulfilment's crews, finitely many.
LEMMA QueueFewOrders ==
    ASSUME QueueConstantsOK, NEW S \in SUBSET Fulfilled!Ids, NEW O,
           O \subseteq {qReq[i].order : i \in S}, NEW f,
           DOMAIN f = O
    PROVE  Fulfilled!IsFiniteSet({f[o] : o \in O})
<1> DEFINE N == {f[o] : o \in O}  D == {i \in S : qReq[i].order \in O}  g == [i \in D |-> f[qReq[i].order]]
<1>1. g \in Surjection(D, N)
  <2>1. g \in [D -> N]
    OBVIOUS
  <2>2. \A n \in N : \E i \in D : g[i] = n
    OBVIOUS
  <2> QED
    BY <2>1, <2>2 DEF Surjection
<1>2. Fulfilled!IsFiniteSet(D)
  BY QueueIdsFinite
<1> HIDE DEF g, N, D
<1>3. Fulfilled!IsFiniteSet(N)
  BY <1>1, <1>2, FS_Surjection, QueueSizes, Zenon
<1> QED
  BY <1>3 DEF N

LEMMA QueueFulfilReads ==
    ASSUME QueueConstantsOK, QueueIInv, NEW r, QueueWellAsked(r), r.op = "fulfil", ~Fulfilled!Refused(r), NEW j, QueueRead(j, r, Fulfilled!Does(r))
    PROVE  QueueJobOK(j)
<1> DEFINE w == Fulfilled!Does(r)  T == Fulfilled!Targets(r)
           orders == {qReq[i].order : i \in T} \ qClosed
           waiting == {o \in orders : qOnHand <= 0 /\ Fulfilled!LiveFor(o) # {}}
           missing == {o \in orders : qOnHand <= 0 /\ Fulfilled!LiveFor(o) = {}}
           again == {Fulfilled!Min(Fulfilled!LiveFor(o)) : o \in waiting}
<1>0. /\ r.op \notin Fulfilled!LocksItem /\ T \subseteq QueueNames(r) /\ T \subseteq Fulfilled!Ids
      /\ \A i \in T : /\ qReq[i] # None /\ qReq[i] \in Fulfilled!RequestRows /\ qReq[i].kind = "catalogue"
                      /\ qReq[i].status = "open" /\ qReq[i].auto = None
  <2>1. r.id \in QueueNames(r) /\ r.sibs \subseteq QueueNames(r)
    BY DEF QueueWellAsked, QueueNames, QueueConstantsOK, Fulfilled!Ids
  <2>2. T \subseteq QueueNames(r) /\ \A i \in T : qReq[i].status = "open"
    BY <2>1 DEF Fulfilled!Targets, Fulfilled!Refused
  <2> QED
    <3>1. T \subseteq QueueNames(r) /\ r.op \notin Fulfilled!LocksItem
      BY <2>2 DEF Fulfilled!LocksItem
    <3>2. \A i \in T : i \in Fulfilled!Ids /\ qReq[i] # None /\ qReq[i].kind = "catalogue"
      BY <3>1 DEF QueueWellAsked
    <3>3. \A i \in T : qReq[i] \in Fulfilled!RequestRows
      BY <3>2 DEF QueueIInv, QueueTInv
    <3>4. \A i \in T : qReq[i].auto = None
      BY <2>2, <3>2 DEF QueueIInv, QueueLinked
    <3> QED
      BY <2>2, <3>1, <3>2, <3>3, <3>4
<1>1. /\ w.rows = [i \in T \cup again |->
                     IF i \in T
                     THEN [Fulfilled!Resolved(qReq[i]) EXCEPT
                             !.auto = IF qReq[i].order \in qClosed THEN "skipped" ELSE "added"]
                     ELSE [qReq[i] EXCEPT !.loose = TRUE]]
      /\ w.news = {Fulfilled!NewRow("material", o, TRUE) : o \in missing}
      /\ w.hand = 0 /\ w.adds = orders /\ w.fills = T
  BY DEF Fulfilled!Does, Fulfilled!Fulfilled
<1>2. \A i \in again : /\ i \in Fulfilled!Ids /\ qReq[i] # None /\ qReq[i].kind = "material"
                       /\ qReq[i] \in Fulfilled!RequestRows /\ qReq[i].auto = None
  <2>1. \A o \in waiting : LET m == Fulfilled!Min(Fulfilled!LiveFor(o)) IN
           m \in Fulfilled!Ids /\ qReq[m] # None /\ qReq[m].kind = "material"
    BY QueueLeastLive
  <2> HIDE DEF waiting
  <2>2. \A i \in again : i \in Fulfilled!Ids /\ qReq[i] # None /\ qReq[i].kind = "material"
    BY <2>1
  <2> QED
    BY <2>2, QueueSettled
<1>3. orders \subseteq qOrders
  BY <1>0 DEF Fulfilled!RequestRows
<1>4. /\ \A n \in w.news : /\ n \in Fulfilled!RequestRows /\ n.kind = "material" /\ n.status = "open"
                           /\ n.auto = None /\ n.loose
  <2> SUFFICES ASSUME NEW n \in w.news
               PROVE  n \in Fulfilled!RequestRows /\ n.kind = "material" /\ n.status = "open"
                      /\ n.auto = None /\ n.loose
    OBVIOUS
  <2>1. PICK o \in missing : n = Fulfilled!NewRow("material", o, TRUE)
    BY <1>1
  <2>2. o \in qOrders
    BY <1>3
  <2> HIDE DEF missing, w
  <2>3. /\ Fulfilled!NewRow("material", o, TRUE) \in Fulfilled!RequestRows /\ Fulfilled!NewRow("material", o, TRUE).kind = "material"
        /\ Fulfilled!NewRow("material", o, TRUE).status = "open" /\ Fulfilled!NewRow("material", o, TRUE).auto = None
        /\ Fulfilled!NewRow("material", o, TRUE).loose = TRUE
    BY <2>2, QueueNewRowFacts, ZenonT(30)
  <2> QED
    BY <2>1, <2>3
<1>5. Fulfilled!IsFiniteSet(w.news)
  <2> DEFINE f == [o \in missing |-> Fulfilled!NewRow("material", o, TRUE)]
  <2>1. w.news = {f[o] : o \in missing}
    BY <1>1
  <2>2. missing \subseteq {qReq[i].order : i \in T} /\ DOMAIN f = missing
    OBVIOUS
  <2> HIDE DEF f, missing, T
  <2> QED
    BY <1>0, <2>1, <2>2, QueueFewOrders
<1>6. /\ DOMAIN w.rows = T \cup again
      /\ \A i \in T : /\ w.rows[i] \in Fulfilled!RequestRows /\ w.rows[i].status = "resolved"
                      /\ w.rows[i].auto = "added" <=> qReq[i].order \in orders
      /\ \A i \in again \ T : /\ w.rows[i] \in Fulfilled!RequestRows /\ w.rows[i].status = qReq[i].status
                              /\ w.rows[i].auto = qReq[i].auto
  <2>1. DOMAIN w.rows = T \cup again
    BY <1>1
  <2>2. ASSUME NEW i \in T
        PROVE  /\ w.rows[i] \in Fulfilled!RequestRows /\ w.rows[i].status = "resolved"
               /\ w.rows[i].auto = "added" <=> qReq[i].order \in orders
    <3>1. Fulfilled!Resolved(qReq[i]) \in Fulfilled!RequestRows /\ Fulfilled!Resolved(qReq[i]).status = "resolved"
      BY <1>0, QueueRowFacts
    <3>2. w.rows[i] = [Fulfilled!Resolved(qReq[i]) EXCEPT
                          !.auto = IF qReq[i].order \in qClosed THEN "skipped" ELSE "added"]
      BY <1>1
    <3>3. w.rows[i] \in Fulfilled!RequestRows /\ w.rows[i].status = "resolved"
      BY <3>1, <3>2 DEF Fulfilled!RequestRows
    <3>4. w.rows[i].auto = IF qReq[i].order \in qClosed THEN "skipped" ELSE "added"
      BY <3>1, <3>2 DEF Fulfilled!RequestRows
    <3> QED
      BY <3>3, <3>4
  <2>3. ASSUME NEW i \in again \ T
        PROVE  /\ w.rows[i] \in Fulfilled!RequestRows /\ w.rows[i].status = qReq[i].status
               /\ w.rows[i].auto = qReq[i].auto
    <3>1. w.rows[i] = [qReq[i] EXCEPT !.loose = TRUE] /\ qReq[i] \in Fulfilled!RequestRows
      BY <1>1, <1>2
    <3> QED
      BY <3>1 DEF Fulfilled!RequestRows
  <2> QED
    BY <2>1, <2>2, <2>3
<1>7. QueueRead(j, r, w)
  OBVIOUS
<1>8. j.does = w /\ j.req = r /\ \A i \in DOMAIN w.rows : j.saw[i] = qReq[i]
  BY DEF QueueRead
<1>9. w.hand = 0 /\ w.adds = orders /\ w.fills = T
  BY <1>1
<1> HIDE DEF w, T, orders, again, waiting, missing
<1>10. QueueSound(j)
  <2>1. \A i \in DOMAIN w.rows : /\ i \in Fulfilled!Ids /\ qReq[i] # None /\ w.rows[i] \in Fulfilled!RequestRows
                                 /\ qReq[i].kind = "catalogue" => i \in QueueNames(r)
                                 /\ w.rows[i].status # "resolved" => qReq[i].auto = None
    BY <1>0, <1>2, <1>6
  <2> QED
    BY <1>4, <1>5, <1>7, <1>9, <2>1, QueueReadSound
<1>11. QueueLinks(j)
  BY <1>0, <1>6, <1>8, <1>9 DEF QueueLinks
<1>12. QueueCloses(j)
  BY <1>8 DEF QueueCloses
<1>13. QueueBeside(j)
  BY <1>4, <1>6, <1>8, <1>9 DEF QueueBeside, QueueChanges
<1> QED
  BY <1>0, <1>8, <1>10, <1>11, <1>12, <1>13 DEF QueueJobOK

LEMMA QueueReadOK ==
    ASSUME QueueConstantsOK, QueueIInv, NEW r, QueueWellAsked(r), ~Fulfilled!Refused(r)
    PROVE  QueueRead(Fulfilled!Reading(r), r, Fulfilled!Does(r)) /\ QueueJobOK(Fulfilled!Reading(r))
<1>1. QueueRead(Fulfilled!Reading(r), r, Fulfilled!Does(r))
  BY QueueReadingIs
<1>2. r.op \in QueueAllOps
  BY DEF QueueWellAsked
<1> QED
  BY <1>1, <1>2, QueueFileReads, QueueAskReads, QueueStockReads, QueueAddReads, QueueOneRowReads,
     QueueFulfilReads DEF QueueAllOps

-----------------------------------------------------------------------------
(* Arrivals and locks.                                                     *)

LEMMA QueueAskedIsWell ==
    ASSUME QueueConstantsOK, QueueIInv, NEW o \in QueueAllOps, NEW r \in Fulfilled!Asked(o)
    PROVE  QueueWellAsked(r)
<1>1. /\ Fulfilled!Material \subseteq Fulfilled!Ids /\ Fulfilled!Catalogue \subseteq Fulfilled!Ids /\ Fulfilled!Rows \subseteq Fulfilled!Ids /\ None \notin Fulfilled!Ids
      /\ \A i \in Fulfilled!Rows : qReq[i] # None
      /\ \A i \in Fulfilled!Material : qReq[i] # None /\ qReq[i].kind = "material"
      /\ \A i \in Fulfilled!Catalogue : qReq[i] # None /\ qReq[i].kind = "catalogue"
  BY DEF Fulfilled!Material, Fulfilled!Catalogue, Fulfilled!Rows, Fulfilled!Ids, QueueConstantsOK
<1> HIDE DEF QueueAllOps
<1>2. CASE o \in {"file", "ask"}
  <2>1. PICK w \in qOrders \ qClosed : r = Fulfilled!Ask(o, w, None, 0, {})
    BY <1>2 DEF Fulfilled!Asked
  <2> QED
    BY <1>2, <2>1 DEF Fulfilled!Ask, QueueWellAsked, QueueNames, QueueAllOps
<1>3. CASE o = "add"
  <2>1. PICK w \in qOrders \ qClosed, i \in Fulfilled!Material \cup {None} : r = Fulfilled!Ask(o, w, i, 0, {})
    BY <1>3 DEF Fulfilled!Asked
  <2> QED
    BY <1>1, <1>3, <2>1 DEF Fulfilled!Ask, QueueWellAsked, QueueNames, QueueAllOps
<1>4. CASE o = "stock"
  <2>1. PICK d \in {-1, 1, 2} : r = Fulfilled!Ask(o, None, None, d, {})
    BY <1>4 DEF Fulfilled!Asked
  <2> QED
    BY <1>4, <2>1 DEF Fulfilled!Ask, QueueWellAsked, QueueNames, QueueAllOps
<1>5. CASE o \in {"mark", "cancel"}
  <2>1. PICK i \in Fulfilled!Material : r = Fulfilled!Ask(o, None, i, 0, {})
    BY <1>5 DEF Fulfilled!Asked
  <2> QED
    BY <1>1, <1>5, <2>1 DEF Fulfilled!Ask, QueueWellAsked, QueueNames, QueueAllOps
<1>6. CASE o \in {"reopen", "close"}
  <2>1. PICK i \in Fulfilled!Rows : r = Fulfilled!Ask(o, None, i, 0, {})
    BY <1>6 DEF Fulfilled!Asked
  <2> QED
    BY <1>1, <1>6, <2>1 DEF Fulfilled!Ask, QueueWellAsked, QueueNames, QueueAllOps
<1>7. CASE o = "fulfil"
  <2>1. PICK i \in Fulfilled!Catalogue : r \in {Fulfilled!Ask(o, None, i, 0, S) : S \in SUBSET Fulfilled!Siblings(i)}
    BY <1>7 DEF Fulfilled!Asked
  <2>2. PICK S \in SUBSET Fulfilled!Siblings(i) : r = Fulfilled!Ask(o, None, i, 0, S)
    BY <2>1
  <2> QED
    BY <1>1, <1>7, <2>2 DEF Fulfilled!Ask, QueueWellAsked, QueueNames, QueueAllOps,
       Fulfilled!Siblings
<1> QED
  BY <1>2, <1>3, <1>4, <1>5, <1>6, <1>7 DEF QueueAllOps

\* A request takes its item or rows, and with the last of them reads.
LEMMA QueueTakeStep ==
    ASSUME QueueConstantsOK, QueueIInv, NEW t \in Clerks, NEW r, QueueWellAsked(r),
           NEW S \in SUBSET Fulfilled!Ids, NEW j,
           qJob[t].phase = "idle" \/ (qJob[t].phase = "locking" /\ qJob[t].req = r),
           \A i \in S : qRowLock[i] = None,
           qRowLock' = [i \in Fulfilled!Ids |-> IF i \in S THEN t ELSE qRowLock[i]],
           qItemLock' = IF r.op \in Fulfilled!LocksItem THEN t ELSE qItemLock,
           r.op \in Fulfilled!LocksItem => qItemLock \in {None, t},
           qJob' = [qJob EXCEPT ![t] = j],
           UNCHANGED <<qOnHand, qClosed, qReq, qLine, qLogged, qFilled>>,
           \/ j.phase = "locking" /\ j.req = r
           \/ j = Fulfilled!Reading(r) /\ ~Fulfilled!Refused(r) /\ \A i \in QueueNames(r) : i \in S \/ qRowLock[i] = t
    PROVE  QueueIInv'
<1>1. /\ DOMAIN qJob' = Clerks /\ qJob'[t] = j /\ \A u \in Clerks \ {t} : qJob'[u] = qJob[u]
  BY DEF QueueIInv, QueueTInv
<1>2. /\ j.phase \in {"locking", "commit"} /\ j.req = r
      /\ j.phase = "commit" => /\ j = Fulfilled!Reading(r) /\ ~Fulfilled!Refused(r)
                               /\ \A i \in QueueNames(r) : i \in S \/ qRowLock[i] = t
  <2>1. ~Fulfilled!Refused(r) => Fulfilled!Reading(r).phase = "commit" /\ Fulfilled!Reading(r).req = r
    BY QueueReadingIs DEF QueueRead
  <2>2. CASE j.phase = "locking" /\ j.req = r
    BY <2>2
  <2>3. CASE j = Fulfilled!Reading(r) /\ ~Fulfilled!Refused(r) /\ \A i \in QueueNames(r) : i \in S \/ qRowLock[i] = t
    BY <2>1, <2>3
  <2> QED
    BY <2>2, <2>3
<1>3. QueueTInv'
  <2>1. \A u \in Clerks : /\ qJob'[u].phase \in {"idle", "locking", "commit"}
                          /\ qJob'[u].phase # "idle" => QueueWellAsked(qJob'[u].req)
    BY <1>1, <1>2 DEF QueueIInv, QueueTInv
  <2>2. \A u \in Clerks : qJob'[u].phase # "idle" => QueueWellAsked(qJob[u].req)'
    BY <2>1 DEF QueueWellAsked, Fulfilled!Ids
  <2> QED
    BY <1>1, <2>1, <2>2 DEF QueueIInv, QueueTInv
<1>4. QueueLocks'
  <2> SUFFICES ASSUME NEW u \in Clerks
               PROVE  /\ qItemLock' = u <=> qJob'[u].phase # "idle" /\ qJob'[u].req.op \in Fulfilled!LocksItem
                      /\ qJob'[u].phase = "commit" => \A i \in QueueNames(qJob'[u].req) : qRowLock'[i] = u
    BY DEF QueueLocks
  <2>1. qItemLock' = u <=> qJob'[u].phase # "idle" /\ qJob'[u].req.op \in Fulfilled!LocksItem
    BY <1>1, <1>2 DEF QueueIInv, QueueLocks, QueueConstantsOK
  <2>2. ASSUME qJob'[u].phase = "commit", NEW i \in QueueNames(qJob'[u].req)
        PROVE  qRowLock'[i] = u
    <3>1. CASE u = t
      <4>1. i \in Fulfilled!Ids /\ (i \in S \/ qRowLock[i] = t)
        BY <1>1, <1>2, <2>2, <3>1 DEF QueueWellAsked
      <4> QED
        BY <3>1, <4>1
    <3>2. CASE u # t
      <4>1. i \in Fulfilled!Ids /\ qRowLock[i] = u
        BY <1>1, <2>2, <3>2 DEF QueueIInv, QueueLocks, QueueTInv, QueueWellAsked
      <4> QED
        BY <4>1 DEF QueueConstantsOK
    <3> QED
      BY <3>1, <3>2
  <2> QED
    BY <2>1, <2>2
<1>5. CASE j.phase = "locking"
  BY <1>1, <1>3, <1>4, <1>5, QueueStillStep
<1>6. CASE j.phase = "commit"
  <2>1. QueueRead(j, r, Fulfilled!Does(r)) /\ QueueJobOK(j)
    BY <1>2, <1>6, QueueReadOK
  <2>2. QueueLinked' /\ Fulfilled!AutoStockedIsOnShelf' /\ Fulfilled!NoMissedRestock' /\ Fulfilled!AddedOnce'
    BY DEF QueueIInv, QueueLinked, Fulfilled!AutoStockedIsOnShelf, Fulfilled!NoMissedRestock,
       Fulfilled!AddedOnce, Fulfilled!Material, Fulfilled!Catalogue, Fulfilled!Rows
  <2>3. ASSUME NEW u \in Clerks, qJob'[u].phase = "commit" PROVE QueueJobOK(qJob[u])'
    <3>1. QueueJobOK(qJob'[u])
      BY <1>1, <2>1, <2>3 DEF QueueIInv
    <3>2. QueueSound(qJob[u])'
      BY <3>1, SMTT(30) DEF QueueJobOK, QueueSound
    <3>3. QueueLinks(qJob[u])' /\ QueueCloses(qJob[u])'
      BY <3>1, ZenonT(30) DEF QueueJobOK, QueueLinks, QueueCloses
    <3>4. qJob'[u].req.op \notin Fulfilled!LocksItem => QueueBeside(qJob[u])'
      BY <3>1, SMTT(30) DEF QueueJobOK, QueueBeside, QueueChanges
    <3>5. qJob'[u].req.op \in Fulfilled!LocksItem => QueueHolding(qJob[u])'
      BY <3>1 DEF QueueJobOK, QueueHolding, QueueFollows, QueueEdges, QueueFilesFirst, QueueChanges
    <3> QED
      BY <3>2, <3>3, <3>4, <3>5 DEF QueueJobOK
  <2>4. QueueOneFiling'
    <3>1. ASSUME NEW i \in Fulfilled!Ids, QueueRevives(j, i) PROVE Fulfilled!IsLive(qReq[i])
      <4>1. j.saw[i] = qReq[i] /\ j.saw[i].status # "resolved" /\ i \in DOMAIN j.does.rows
        BY <2>1, <3>1 DEF QueueJobOK, QueueHolding, QueueEdges, QueueRevives, QueueRead
      <4>2. qReq[i] \in Fulfilled!RequestRows
        BY <2>1, <4>1 DEF QueueJobOK, QueueSound
      <4> QED
        BY <4>1, <4>2 DEF Fulfilled!IsLive, Fulfilled!RequestRows
    <3>2. \A i \in Fulfilled!Ids, u \in Clerks \ {t} : QueueRevives(qJob'[u], i) => QueueRevives(qJob[u], i)
      BY <1>1
    <3>3. \A i \in Fulfilled!Ids : QueueFiling(i)' => QueueFiling(i)
      <4> SUFFICES ASSUME NEW i \in Fulfilled!Ids, QueueFiling(i)' PROVE QueueFiling(i)
        OBVIOUS
      <4>1. qReq[i] # None /\ qReq[i].kind = "material" /\ ~qReq[i].loose
        BY DEF QueueFiling
      <4>2. CASE Fulfilled!IsLive(qReq[i])
        BY <4>1, <4>2 DEF QueueFiling
      <4>3. CASE ~Fulfilled!IsLive(qReq[i])
        <5>1. PICK u \in Clerks : QueueRevives(qJob[u], i)'
          BY <4>3 DEF QueueFiling, Fulfilled!IsLive
        <5>2. QueueRevives(qJob'[u], i)
          BY <5>1 DEF QueueRevives, QueueChanges
        <5>3. u # t
          BY <1>1, <3>1, <4>3, <5>2
        <5> QED
          BY <3>2, <4>1, <5>2, <5>3 DEF QueueFiling
      <4> QED
        BY <4>2, <4>3
    <3> QED
      BY <3>3 DEF QueueIInv, QueueOneFiling
  <2> QED
    BY <1>3, <1>4, <2>2, <2>3, <2>4 DEF QueueIInv
<1> QED
  BY <1>2, <1>5, <1>6
LEMMA QueueTakesStep ==
    ASSUME QueueConstantsOK, QueueIInv, NEW t \in Clerks, qJob[t].phase = "idle",
           NEW o \in QueueAllOps,
           NEW r \in Fulfilled!Asked(o), Fulfilled!Takes(t, r), UNCHANGED <<qOnHand, qClosed, qReq, qLine, qLogged, qFilled>>
    PROVE  QueueIInv'
<1> DEFINE item == r.op \in Fulfilled!LocksItem
           own == IF item THEN {} ELSE {r.id} \ {None}
           rest == ({r.id} \cup r.sibs) \ (own \cup {None})
<1>1. QueueWellAsked(r)
  BY QueueAskedIsWell
<1>2. own \subseteq QueueNames(r) /\ QueueNames(r) \subseteq Fulfilled!Ids /\ QueueNames(r) \subseteq own \cup rest
  BY <1>1 DEF QueueWellAsked, QueueNames
<1>3. CASE rest = {} /\ Fulfilled!Refused(r)
  <2>1. UNCHANGED <<qJob, qItemLock, qRowLock>>
    BY <1>3 DEF Fulfilled!Takes
  <2>2. QueueTInv' /\ QueueLocks'
    BY <2>1 DEF QueueIInv, QueueTInv, QueueWellAsked, QueueLocks
  <2> QED
    BY <2>1, <2>2, QueueStillStep
<1>4. CASE ~(rest = {} /\ Fulfilled!Refused(r))
  <2> DEFINE j == IF rest = {} THEN Fulfilled!Reading(r) ELSE [phase |-> "locking", req |-> r]
  <2>1. /\ qJob' = [qJob EXCEPT ![t] = j]
        /\ qItemLock' = IF item THEN t ELSE qItemLock
        /\ qRowLock' = [i \in Fulfilled!Ids |-> IF i \in own THEN t ELSE qRowLock[i]]
        /\ item => qItemLock = None
        /\ \A i \in own : qRowLock[i] = None
    BY <1>4 DEF Fulfilled!Takes
  <2>2. \/ j.phase = "locking" /\ j.req = r
        \/ j = Fulfilled!Reading(r) /\ ~Fulfilled!Refused(r) /\ \A i \in QueueNames(r) : i \in own \/ qRowLock[i] = t
    BY <1>2, <1>4
  <2>3. own \in SUBSET Fulfilled!Ids
    BY <1>2
  <2> HIDE DEF own, rest, j
  <2> QED
    BY <1>1, <2>1, <2>2, <2>3, QueueTakeStep
<1> QED
  BY <1>3, <1>4

LEMMA QueueLockRowStep ==
    ASSUME QueueConstantsOK, QueueIInv, NEW t \in Clerks, Fulfilled!LockRow(t) PROVE QueueIInv'
<1> DEFINE i == Fulfilled!Min(Fulfilled!Wanted(t))  r == qJob[t].req
<1>1. /\ qJob[t].phase = "locking" /\ qRowLock[i] = None
      /\ UNCHANGED <<qOnHand, qClosed, qReq, qLine, qLogged, qFilled>>
  BY DEF Fulfilled!LockRow
<1>2. QueueWellAsked(r) /\ (qItemLock = t <=> r.op \in Fulfilled!LocksItem)
  BY <1>1 DEF QueueIInv, QueueTInv, QueueLocks
<1>3. Fulfilled!Wanted(t) = {k \in QueueNames(r) : qRowLock[k] # t} /\ QueueNames(r) \subseteq Fulfilled!Ids
  BY <1>2 DEF Fulfilled!Wanted, QueueNames, QueueWellAsked
<1>4. CASE /\ Fulfilled!Wanted(t) # {i} /\ qRowLock' = [qRowLock EXCEPT ![i] = t] /\ UNCHANGED qItemLock
           /\ DOMAIN qJob' = Clerks /\ \A u \in Clerks : qJob'[u] = qJob[u]
  <2>1. QueueTInv'
    <3>1. \A u \in Clerks : qJob'[u].phase # "idle" => QueueWellAsked(qJob[u].req)'
      BY <1>1, <1>4 DEF QueueIInv, QueueTInv, QueueWellAsked, Fulfilled!Ids
    <3>2. qRowLock' \in [Fulfilled!Ids -> Clerks \cup {None}]
      BY <1>4 DEF QueueIInv, QueueTInv
    <3> QED
      BY <1>1, <1>4, <3>1, <3>2 DEF QueueIInv, QueueTInv
  <2>2. QueueLocks'
    <3> SUFFICES ASSUME NEW u \in Clerks
                 PROVE  /\ qItemLock' = u <=> qJob'[u].phase # "idle" /\ qJob'[u].req.op \in Fulfilled!LocksItem
                        /\ qJob'[u].phase = "commit" => \A k \in QueueNames(qJob'[u].req) : qRowLock'[k] = u
      BY DEF QueueLocks
    <3>1. ASSUME qJob[u].phase = "commit", NEW k \in QueueNames(qJob[u].req)
          PROVE  qRowLock'[k] = u
      <4>1. k \in Fulfilled!Ids /\ qRowLock[k] = u /\ u # None
        BY <3>1 DEF QueueIInv, QueueLocks, QueueTInv, QueueWellAsked, QueueConstantsOK
      <4>2. k # i
        BY <1>1, <4>1
      <4> HIDE DEF i
      <4> QED
        BY <1>4, <4>1, <4>2 DEF QueueIInv, QueueTInv
    <3> QED
      BY <1>4, <3>1 DEF QueueIInv, QueueLocks
  <2> QED
    BY <1>1, <1>4, <2>1, <2>2, QueueStillStep
<1>5. CASE /\ Fulfilled!Wanted(t) = {i} /\ ~Fulfilled!Refused(r) /\ qRowLock' = [qRowLock EXCEPT ![i] = t]
           /\ qJob' = [qJob EXCEPT ![t] = Fulfilled!Reading(r)] /\ UNCHANGED qItemLock
  <2>1. i \in Fulfilled!Ids /\ \A k \in QueueNames(r) : k \in {i} \/ qRowLock[k] = t
    BY <1>3, <1>5
  <2> HIDE DEF i, r
  <2>2. qRowLock' = [k \in Fulfilled!Ids |-> IF k \in {i} THEN t ELSE qRowLock[k]]
    BY <1>5, <2>1 DEF QueueIInv, QueueTInv
  <2>3. qItemLock' = (IF r.op \in Fulfilled!LocksItem THEN t ELSE qItemLock) /\ (r.op \in Fulfilled!LocksItem => qItemLock \in {None, t})
    BY <1>2, <1>5
  <2>4. {i} \in SUBSET Fulfilled!Ids /\ \A k \in {i} : qRowLock[k] = None
    BY <1>1, <2>1
  <2>5. qJob[t].req = r
    BY DEF r
  <2> QED
    BY <1>1, <1>2, <1>5, <2>1, <2>2, <2>3, <2>4, <2>5, QueueTakeStep
<1>6. CASE Fulfilled!Ends(t)
  BY <1>1, <1>6, QueueEndsStep
<1> QED
  <2>1. CASE Fulfilled!Wanted(t) # {i}
    <3>1. /\ qRowLock' = [qRowLock EXCEPT ![i] = t] /\ UNCHANGED qItemLock
          /\ qJob' = [qJob EXCEPT ![t] = qJob[t]]
      BY <2>1 DEF Fulfilled!LockRow
    <3>2. DOMAIN qJob' = Clerks /\ \A u \in Clerks : qJob'[u] = qJob[u]
      BY <3>1 DEF QueueIInv, QueueTInv
    <3> QED
      BY <1>4, <2>1, <3>1, <3>2
  <2>2. CASE Fulfilled!Wanted(t) = {i} /\ ~Fulfilled!Refused(r)
    BY <1>5, <2>2 DEF Fulfilled!LockRow
  <2>3. CASE Fulfilled!Wanted(t) = {i} /\ Fulfilled!Refused(r)
    BY <1>6, <2>3 DEF Fulfilled!LockRow
  <2> QED
    BY <2>1, <2>2, <2>3

-----------------------------------------------------------------------------
(* Commits.                                                                *)

LEMMA QueueSeqFn ==
    ASSUME NEW S, Fulfilled!IsFiniteSet(S), NEW n \in Nat, n = Fulfilled!Cardinality(S)
    PROVE  Fulfilled!SetToSeq(S) \in [1 .. n -> S]
<1>1. ExistsBijection(1 .. n, S)
  BY FS_CardinalityType, QueueSizes
<1>2. PICK f : f \in Bijection(1 .. n, S)
  BY <1>1 DEF ExistsBijection
<1>3. f \in [1 .. n -> S] /\ Fulfilled!IsInjective(f)
  BY <1>2 DEF Bijection, Injection, IsInjective, Fulfilled!IsInjective
<1>4. \E h \in [1 .. Fulfilled!Cardinality(S) -> S] : Fulfilled!IsInjective(h)
  BY <1>3
<1>5. (CHOOSE h \in [1 .. Fulfilled!Cardinality(S) -> S] : Fulfilled!IsInjective(h)) \in [1 .. Fulfilled!Cardinality(S) -> S]
  BY <1>4
<1> QED
  BY <1>5 DEF Fulfilled!SetToSeq

LEMMA QueueFnLen == ASSUME NEW n \in Nat, NEW S, NEW g \in [1 .. n -> S] PROVE Len(g) = n
  OBVIOUS

\* The place of a free id is the number of free ids up to it.
LEMMA QueuePlaces ==
    ASSUME QueueConstantsOK, NEW i \in Fulfilled!Free
    PROVE  /\ Fulfilled!Cardinality({k \in Fulfilled!Free : k <= i}) \in Nat \ {0}
           /\ \A h \in Fulfilled!Free : h < i => Fulfilled!Cardinality({k \in Fulfilled!Free : k <= i}) # 1
<1>1. Fulfilled!Free \subseteq Fulfilled!Ids /\ Fulfilled!Ids \subseteq Int
  BY DEF Fulfilled!Free, Fulfilled!Ids
<1> DEFINE P == {k \in Fulfilled!Free : k <= i}
<1>2. Fulfilled!IsFiniteSet(P) /\ Fulfilled!Cardinality(P) \in Nat
  <2>1. P \in SUBSET Fulfilled!Ids
    BY <1>1
  <2> QED
    BY <2>1, QueueIdsFinite
<1>3. i \in P
  BY <1>1
<1> HIDE DEF P
<1>4. Fulfilled!Cardinality(P) # 0
  BY <1>2, <1>3, FS_EmptySet, QueueSizes
<1>5. ASSUME NEW h \in Fulfilled!Free, h < i PROVE Fulfilled!Cardinality(P) # 1
  <2>1. h \in P /\ h # i
    BY <1>1, <1>5 DEF P
  <2>2. Fulfilled!IsFiniteSet({h, i}) /\ {h, i} \subseteq P /\ Fulfilled!Cardinality({h, i}) = 2
    <3>1. Fulfilled!IsFiniteSet({h}) /\ Fulfilled!Cardinality({h}) = 1 /\ i \notin {h}
      BY <2>1, FS_Singleton, QueueSizes
    <3>4. IsFiniteSet({h}) /\ Cardinality({h}) = 1
      BY FS_Singleton
    <3>5. IsFiniteSet({h} \cup {i}) /\ Cardinality({h} \cup {i}) = 2
      BY <3>1, <3>4, FS_AddElement
    <3>2. Fulfilled!IsFiniteSet({h} \cup {i}) /\ Fulfilled!Cardinality({h} \cup {i}) = 2
      BY <3>5, QueueSizes
    <3>3. {h} \cup {i} = {h, i}
      OBVIOUS
    <3> QED
      BY <1>3, <2>1, <3>2, <3>3
  <2>3. 2 <= Fulfilled!Cardinality(P)
    BY <1>2, <2>2, FS_Subset, QueueSizes
  <2> QED
    BY <1>2, <2>3
<1> QED
  BY <1>2, <1>4, <1>5 DEF P

LEMMA QueueMergedFacts ==
    ASSUME NEW q \in Fulfilled!RequestRows, NEW saw \in Fulfilled!RequestRows,
           NEW new \in Fulfilled!RequestRows, NEW m,
           m = Fulfilled!Merged(q, saw, new)
    PROVE  /\ m \in Fulfilled!RequestRows /\ m.kind = q.kind /\ m.order = q.order /\ m.onShelf = q.onShelf
           /\ m.status = IF new.status = saw.status THEN q.status ELSE new.status
           /\ m.by = IF new.status = saw.status THEN q.by ELSE new.by
           /\ m.auto = IF new.auto = saw.auto THEN q.auto ELSE new.auto
           /\ m.loose <=> q.loose \/ new.loose
  BY ZenonT(30) DEF Fulfilled!Merged, Fulfilled!RequestRows

\* Whether line, logged and filled grow, they stay numbers.
LEMMA QueueUnitsIsNat ==
    ASSUME QueueConstantsOK, NEW j, QueueSound(j), QueueLinks(j), NEW o
    PROVE  Fulfilled!Units(j.does, j.saw, o) \in Nat
<1>1. {i \in j.does.fills : j.saw[i].order = o} \in SUBSET Fulfilled!Ids
  BY DEF QueueSound, QueueLinks
<1>2. Fulfilled!Cardinality({i \in j.does.fills : j.saw[i].order = o}) \in Nat
  BY <1>1, QueueIdsFinite
<1> QED
  BY <1>2 DEF Fulfilled!Units

\* What a commit that collides with nobody's line writes, row by row.
QueueWritten(t) ==
    /\ QueueJobOK(qJob[t]) /\ Fulfilled!Ends(t) /\ qClosed' = qClosed /\ qOnHand' = qOnHand + qJob[t].does.hand
    /\ qJob[t].phase = "commit" /\ QueueWellAsked(qJob[t].req)
    /\ DOMAIN qReq' = Fulfilled!Ids
    /\ \A i \in DOMAIN qJob[t].does.rows :
          /\ qReq'[i] = Fulfilled!Merged(qReq[i], qJob[t].saw[i], qJob[t].does.rows[i])
          /\ qRowLock[i] \in {None, t}
    /\ \A i \in Fulfilled!Ids \ DOMAIN qJob[t].does.rows :
          qReq'[i] = qReq[i] \/ (qReq[i] = None /\ qReq'[i] \in qJob[t].does.news)
    /\ (\A m, n \in qJob[t].does.news : m = n) =>
          \A i, k \in Fulfilled!Ids : qReq[i] = None /\ qReq'[i] # None /\ qReq[k] = None /\ qReq'[k] # None => i = k

LEMMA QueueCommitWrites ==
    ASSUME QueueConstantsOK, QueueIInv, NEW t \in Clerks, Fulfilled!Commit(t), ~Fulfilled!LineCollides(qJob[t])
    PROVE  QueueWritten(t)
<1> DEFINE j == qJob[t]  w == j.does  ids == DOMAIN w.rows  news == Fulfilled!SetToSeq(w.news)
           place(i) == Fulfilled!Cardinality({k \in Fulfilled!Free : k <= i})
<1>1. /\ j.phase = "commit" /\ QueueJobOK(j) /\ QueueWellAsked(j.req) /\ Fulfilled!Ends(t) /\ qClosed' = qClosed
      /\ \A i \in ids : qRowLock[i] \in {None, t}
      /\ qOnHand' = qOnHand + w.hand
      /\ qReq' = [i \in Fulfilled!Ids |->
                     IF i \in ids THEN Fulfilled!Merged(qReq[i], j.saw[i], w.rows[i])
                     ELSE IF i \in Fulfilled!Free /\ place(i) <= Len(news) THEN news[place(i)]
                     ELSE qReq[i]]
  BY DEF Fulfilled!Commit, QueueIInv, QueueTInv
<1>2. ids \subseteq Fulfilled!Ids /\ Fulfilled!IsFiniteSet(w.news) /\ \A i \in ids : qReq[i] # None
  BY <1>1 DEF QueueJobOK, QueueSound
<1>3. Fulfilled!Cardinality(w.news) \in Nat
  BY <1>2, FS_CardinalityType, QueueSizes
<1>4. news \in [1 .. Fulfilled!Cardinality(w.news) -> w.news]
  BY <1>2, <1>3, QueueSeqFn
<1>5. Len(news) = Fulfilled!Cardinality(w.news)
  BY <1>3, <1>4, QueueFnLen, Zenon
<1>6. \A i \in Fulfilled!Free : place(i) \in Nat \ {0} /\ \A h \in Fulfilled!Free : h < i => place(i) # 1
  BY QueuePlaces
<1>7. Fulfilled!Free \subseteq Fulfilled!Ids /\ \A i \in Fulfilled!Ids : i \in Fulfilled!Free <=> qReq[i] = None
  BY DEF Fulfilled!Free, Fulfilled!Rows
<1> HIDE DEF news, place, w
<1>8. ASSUME NEW i \in Fulfilled!Ids, i \notin ids
      PROVE  qReq'[i] = qReq[i] \/ (qReq[i] = None /\ qReq'[i] \in w.news)
  <2>1. CASE i \in Fulfilled!Free /\ place(i) <= Len(news)
    <3>1. place(i) \in 1 .. Fulfilled!Cardinality(w.news) /\ qReq'[i] = news[place(i)]
      BY <1>1, <1>3, <1>5, <1>6, <1>8, <2>1
    <3> QED
      BY <1>4, <1>7, <2>1, <3>1
  <2>2. CASE ~(i \in Fulfilled!Free /\ place(i) <= Len(news))
    BY <1>1, <1>8, <2>2
  <2> QED
    BY <2>1, <2>2
<1>9. ASSUME \A m, n \in w.news : m = n, NEW i \in Fulfilled!Ids, NEW k \in Fulfilled!Ids,
             qReq[i] = None, qReq'[i] # None,
             qReq[k] = None, qReq'[k] # None
      PROVE  i = k
  <2>1. Fulfilled!Cardinality(w.news) <= 1
    <3>1. CASE w.news = {}
      <4>1. Fulfilled!Cardinality(w.news) = 0
        BY <3>1, FS_EmptySet, QueueSizes, Zenon
      <4> QED
        BY <4>1
    <3>2. CASE w.news # {}
      <4>1. PICK n \in w.news : TRUE
        BY <3>2
      <4>2. w.news = {n}
        BY <1>9, <4>1
      <4>3. Fulfilled!Cardinality({n}) = 1
        BY FS_Singleton, QueueSizes
      <4>4. Fulfilled!Cardinality(w.news) = 1
        BY <4>2, <4>3, Zenon
      <4> QED
        BY <4>4
    <3> QED
      BY <3>1, <3>2
  <2>2. /\ i \in Fulfilled!Free /\ i \notin ids /\ place(i) <= Len(news)
        /\ k \in Fulfilled!Free /\ k \notin ids /\ place(k) <= Len(news)
    BY <1>1, <1>2, <1>7, <1>9
  <2>3. place(i) = 1 /\ place(k) = 1
    BY <1>3, <1>5, <1>6, <2>1, <2>2
  <2>4. ~(i < k) /\ ~(k < i) /\ i \in Int /\ k \in Int
    BY <1>6, <2>2, <2>3 DEF Fulfilled!Ids
  <2> QED
    BY <2>4
<1>10. DOMAIN qReq' = Fulfilled!Ids /\ \A i \in ids : qReq'[i] = Fulfilled!Merged(qReq[i], j.saw[i], w.rows[i])
  BY <1>1, <1>2
<1> QED
  BY <1>1, <1>8, <1>9, <1>10 DEF QueueWritten, w

\* A row stays a row of its kind and its order, and keeps its marks.
LEMMA QueueRowKept ==
    ASSUME QueueConstantsOK, QueueIInv, NEW t \in Clerks, QueueWritten(t), NEW i \in Fulfilled!Ids, qReq[i] # None
    PROVE  /\ qReq[i] \in Fulfilled!RequestRows /\ qReq'[i] \in Fulfilled!RequestRows /\ qReq'[i] # None
           /\ qReq'[i].kind = qReq[i].kind /\ qReq'[i].order = qReq[i].order
           /\ qReq'[i].onShelf = qReq[i].onShelf
           /\ qReq[i].loose => qReq'[i].loose
           /\ IF i \in DOMAIN qJob[t].does.rows /\ QueueChanges(qJob[t], i)
              THEN /\ qReq'[i].status = qJob[t].does.rows[i].status
                   /\ qReq'[i].by = qJob[t].does.rows[i].by
              ELSE qReq'[i].status = qReq[i].status /\ qReq'[i].by = qReq[i].by
           /\ IF i \in DOMAIN qJob[t].does.rows
              THEN /\ qJob[t].does.rows[i].loose => qReq'[i].loose
                   /\ qReq'[i].auto = IF qJob[t].does.rows[i].auto = qJob[t].saw[i].auto
                                     THEN qReq[i].auto ELSE qJob[t].does.rows[i].auto
              ELSE qReq'[i] = qReq[i]
<1>1. qReq[i] \in Fulfilled!RequestRows /\ (qReq[i].loose \in BOOLEAN)
  BY DEF QueueIInv, QueueTInv, Fulfilled!RequestRows
<1>2. CASE i \in DOMAIN qJob[t].does.rows
  <2> DEFINE saw == qJob[t].saw[i]  new == qJob[t].does.rows[i]
  <2>1. saw \in Fulfilled!RequestRows /\ new \in Fulfilled!RequestRows /\ qReq'[i] = Fulfilled!Merged(qReq[i], saw, new)
    BY <1>2 DEF QueueWritten, QueueJobOK, QueueSound
  <2>2. QueueChanges(qJob[t], i) <=> new.status # saw.status
    BY DEF QueueChanges
  <2> HIDE DEF saw, new
  <2>3. /\ qReq'[i] \in Fulfilled!RequestRows /\ qReq'[i].kind = qReq[i].kind /\ qReq'[i].order = qReq[i].order
        /\ qReq'[i].onShelf = qReq[i].onShelf
        /\ qReq'[i].status = IF new.status = saw.status THEN qReq[i].status ELSE new.status
        /\ qReq'[i].by = IF new.status = saw.status THEN qReq[i].by ELSE new.by
        /\ qReq'[i].auto = IF new.auto = saw.auto THEN qReq[i].auto ELSE new.auto
        /\ qReq'[i].loose <=> qReq[i].loose \/ new.loose
    BY <1>1, <2>1, QueueMergedFacts
  <2>4. qReq'[i] # None
    BY <2>3 DEF QueueConstantsOK
  <2> QED
    BY <1>1, <1>2, <2>2, <2>3, <2>4 DEF saw, new
<1>3. CASE i \notin DOMAIN qJob[t].does.rows
  <2>1. qReq'[i] = qReq[i]
    BY <1>3 DEF QueueWritten
  <2> QED
    BY <1>1, <1>3, <2>1
<1> QED
  BY <1>2, <1>3

\* A row that was not there is an open one that was filed.
LEMMA QueueRowFiled ==
    ASSUME QueueConstantsOK, QueueIInv, NEW t \in Clerks, QueueWritten(t), NEW i \in Fulfilled!Ids, qReq[i] = None, qReq'[i] # None
    PROVE  /\ i \notin DOMAIN qJob[t].does.rows /\ qReq'[i] \in qJob[t].does.news
           /\ qReq'[i] \in Fulfilled!RequestRows /\ qReq'[i].status = "open" /\ qReq'[i].auto = None
<1>1. i \notin DOMAIN qJob[t].does.rows
  BY DEF QueueWritten, QueueJobOK, QueueSound
<1>2. qReq'[i] \in qJob[t].does.news
  BY <1>1 DEF QueueWritten
<1> QED
  BY <1>1, <1>2 DEF QueueWritten, QueueJobOK, QueueSound

LEMMA QueueCommitTInv ==
    ASSUME QueueConstantsOK, QueueIInv, NEW t \in Clerks, QueueWritten(t), Fulfilled!Commit(t), ~Fulfilled!LineCollides(qJob[t])
                    PROVE  QueueTInv' /\ QueueLocks'
<1> DEFINE j == qJob[t]
<1>1. j.phase = "commit" /\ QueueSound(j) /\ QueueLinks(j) /\ Fulfilled!Ends(t) /\ qClosed' = qClosed
      /\ qOnHand' = qOnHand + j.does.hand
  BY DEF QueueWritten, QueueJobOK
<1>2. qOnHand' \in Int
  BY <1>1 DEF QueueSound, QueueIInv, QueueTInv
<1>3. \A o \in qOrders : Fulfilled!Units(j.does, j.saw, o) \in Nat
  BY <1>1, QueueUnitsIsNat
<1>4. qLine' \in [qOrders -> Nat]
  <2>1. qLine' = [o \in qOrders |-> IF o \in j.does.adds
                        THEN j.seen[o] + Fulfilled!Units(j.does, j.saw, o) ELSE qLine[o]]
    BY DEF Fulfilled!Commit
  <2>2. \A o \in qOrders : (o \in j.does.adds => j.seen[o] \in Nat) /\ qLine[o] \in Nat
    BY <1>1 DEF QueueSound, QueueIInv, QueueTInv
  <2> HIDE DEF j
  <2> QED
    BY <1>3, <2>1, <2>2
<1>5. qLogged' \in [qOrders -> Nat]
  <2>1. qLogged' = [o \in qOrders |-> qLogged[o] + Fulfilled!Units(j.does, j.saw, o)]
    BY DEF Fulfilled!Commit
  <2>2. \A o \in qOrders : qLogged[o] \in Nat
    BY DEF QueueIInv, QueueTInv
  <2> HIDE DEF j
  <2> QED
    BY <1>3, <2>1, <2>2
<1>6. qFilled' \in [qOrders -> Nat]
  <2>1. qFilled' = [o \in qOrders |-> qFilled[o] +
                     (IF j.does.fills = {} THEN 0 ELSE Fulfilled!Units(j.does, j.saw, o))]
    BY DEF Fulfilled!Commit
  <2>2. \A o \in qOrders : qFilled[o] \in Nat
    BY DEF QueueIInv, QueueTInv
  <2> HIDE DEF j
  <2> QED
    BY <1>3, <2>1, <2>2
<1>7. qReq' \in [Fulfilled!Ids -> Fulfilled!RequestRows \cup {None}]
  <2>1. qReq' = [i \in Fulfilled!Ids |-> qReq'[i]]
    BY DEF Fulfilled!Commit
  <2>2. ASSUME NEW i \in Fulfilled!Ids, qReq'[i] # None PROVE qReq'[i] \in Fulfilled!RequestRows
    BY <2>2, QueueRowKept, QueueRowFiled
  <2> QED
    BY <2>1, <2>2
<1>8. /\ DOMAIN qJob' = Clerks /\ qJob'[t].phase = "idle"
      /\ \A u \in Clerks \ {t} : qJob'[u] = qJob[u]
      /\ qItemLock' \in Clerks \cup {None} /\ qRowLock' \in [Fulfilled!Ids -> Clerks \cup {None}]
      /\ QueueLocks'
  BY <1>1, QueueEndsFacts
<1>9. \A u \in Clerks : /\ qJob'[u].phase \in {"idle", "locking", "commit"}
                        /\ qJob'[u].phase # "idle" => QueueWellAsked(qJob[u].req)'
  <2>1. ASSUME NEW u \in Clerks, u # t, qJob[u].phase # "idle"
        PROVE  QueueWellAsked(qJob[u].req)'
    <3>3. QueueWellAsked(qJob[u].req)
      BY <2>1 DEF QueueIInv, QueueTInv
    <3>1. QueueWellAsked(qJob[u].req) /\ qJob'[u] = qJob[u]
      BY <1>8, <2>1, <3>3
    <3>2. \A i \in Fulfilled!Ids : qReq[i] # None => qReq'[i] # None /\ qReq'[i].kind = qReq[i].kind
      BY QueueRowKept
    <3> QED
      BY <3>1, <3>2 DEF QueueWellAsked
  <2> QED
    BY <1>8, <2>1 DEF QueueIInv, QueueTInv
<1> QED
  BY <1>1, <1>2, <1>4, <1>5, <1>6, <1>7, <1>8, <1>9 DEF QueueIInv, QueueTInv

LEMMA QueueCommitLinked ==
    ASSUME QueueConstantsOK, QueueIInv, NEW t \in Clerks, QueueWritten(t) PROVE QueueLinked'
<1> SUFFICES ASSUME NEW i \in Fulfilled!Ids, qReq'[i] # None, qReq'[i].auto # None
             PROVE  qReq'[i].status = "resolved" /\ qReq'[i].kind = "catalogue"
  BY DEF QueueLinked
<1> DEFINE j == qJob[t]
<1>1. qReq[i] # None
  BY QueueRowFiled
<1>2. QueueSound(j) /\ QueueLinks(j)
  BY DEF QueueWritten, QueueJobOK
<1>3. qReq[i].auto # None => qReq[i].status = "resolved" /\ qReq[i].kind = "catalogue"
  BY <1>1 DEF QueueIInv, QueueLinked
<1>4. CASE i \notin DOMAIN j.does.rows
  BY <1>1, <1>3, <1>4, QueueRowKept
<1>5. CASE i \in DOMAIN j.does.rows
  <2>1. /\ qReq'[i].kind = qReq[i].kind
        /\ qReq'[i].status = IF QueueChanges(j, i) THEN j.does.rows[i].status ELSE qReq[i].status
        /\ qReq'[i].auto = IF j.does.rows[i].auto = j.saw[i].auto THEN qReq[i].auto ELSE j.does.rows[i].auto
    BY <1>1, <1>5, QueueRowKept
  <2>2. CASE i \in j.does.fills
    <3>1. /\ i \in QueueNames(j.req) /\ j.saw[i].kind = "catalogue" /\ j.does.rows[i].status = "resolved"
          /\ qReq[i] = j.saw[i]
      BY <1>2, <1>5, <2>2 DEF QueueSound, QueueLinks
    <3> QED
      BY <2>1, <3>1 DEF QueueChanges
  <2>3. CASE i \notin j.does.fills
    <3>1. j.does.rows[i].auto = j.saw[i].auto
      BY <1>2, <1>5, <2>3 DEF QueueLinks
    <3>2. qReq[i].status = "resolved" /\ qReq[i].kind = "catalogue" /\ qReq[i].auto # None
      BY <1>3, <2>1, <3>1
    <3>3. i \in QueueNames(j.req) /\ qReq[i] = j.saw[i]
      BY <1>2, <1>5, <3>2 DEF QueueSound
    <3>4. j.does.rows[i].status = "resolved"
      BY <1>2, <1>5, <3>2, <3>3 DEF QueueSound
    <3> QED
      BY <2>1, <3>2, <3>4
  <2> QED
    BY <2>2, <2>3
<1> QED
  BY <1>4, <1>5

\* Whether the committer moves the shelf or works beside it, no request is on
\* its wrong side.
LEMMA QueueCommitSides == ASSUME QueueConstantsOK, QueueIInv, NEW t \in Clerks, QueueWritten(t)
                     PROVE  Fulfilled!AutoStockedIsOnShelf' /\ Fulfilled!NoMissedRestock'
<1> DEFINE j == qJob[t]
<1>1. QueueJobOK(j) /\ qOnHand' = qOnHand + j.does.hand /\ qOnHand \in Int /\ j.does.hand \in Int
  BY DEF QueueWritten, QueueIInv, QueueTInv, QueueJobOK, QueueSound
<1>2. ASSUME NEW i \in Fulfilled!Ids, qReq'[i] # None, qReq'[i].kind = "material",
             qReq'[i].status = "stocked", qReq'[i].by = "auto"
      PROVE  qOnHand' > 0
  <2>1. qReq[i] # None
    BY <1>2, QueueRowFiled
  <2>2. qReq[i].kind = "material"
    BY <1>2, <2>1, QueueRowKept
  <2>3. CASE i \in DOMAIN j.does.rows /\ QueueChanges(j, i)
    <3>1. j.does.rows[i].status = "stocked" /\ j.does.rows[i].by = "auto"
      BY <1>2, <2>1, <2>3, QueueRowKept
    <3> QED
      BY <1>1, <2>3, <3>1 DEF QueueJobOK, QueueHolding, QueueEdges, QueueBeside
  <2>4. CASE ~(i \in DOMAIN j.does.rows /\ QueueChanges(j, i))
    <3>1. qReq[i].status = "stocked" /\ qReq[i].by = "auto"
      BY <1>2, <2>1, <2>4, QueueRowKept
    <3>2. qOnHand > 0
      BY <2>1, <2>2, <3>1, QueueSettled
    <3>3. CASE j.req.op \in Fulfilled!LocksItem
      <4>1. qOnHand + j.does.hand <= 0 => i \in DOMAIN j.does.rows /\ QueueChanges(j, i)
        BY <1>1, <2>1, <2>2, <3>1, <3>3 DEF QueueJobOK, QueueHolding, QueueFollows, QueueChanges
      <4> QED
        BY <1>1, <2>4, <4>1
    <3>4. CASE j.req.op \notin Fulfilled!LocksItem
      BY <1>1, <3>2, <3>4 DEF QueueJobOK, QueueBeside
    <3> QED
      BY <3>3, <3>4
  <2> QED
    BY <2>3, <2>4
<1>3. ASSUME NEW i \in Fulfilled!Ids, qReq'[i] # None, qReq'[i].kind = "material",
             qReq'[i].status = "open", qOnHand' > 0
      PROVE  qReq'[i].onShelf \/ qReq'[i].loose
  <2>1. CASE qReq[i] = None
    <3>1. qReq'[i] \in j.does.news
      BY <1>3, <2>1, QueueRowFiled
    <3>2. CASE j.req.op \in Fulfilled!LocksItem
      <4>1. ~qReq'[i].onShelf => qOnHand <= 0 /\ j.does.hand = 0
        BY <1>1, <3>1, <3>2 DEF QueueJobOK, QueueHolding, QueueFilesFirst
      <4> QED
        BY <1>1, <1>3, <4>1
    <3>3. CASE j.req.op \notin Fulfilled!LocksItem
      BY <1>1, <1>3, <3>1, <3>3 DEF QueueJobOK, QueueBeside
    <3> QED
      BY <3>2, <3>3
  <2>2. CASE qReq[i] # None
    <3>1. /\ qReq'[i].kind = qReq[i].kind /\ qReq'[i].onShelf = qReq[i].onShelf
          /\ qReq[i].loose => qReq'[i].loose
          /\ i \in DOMAIN j.does.rows /\ QueueChanges(j, i) => qReq'[i].status = j.does.rows[i].status
          /\ ~(i \in DOMAIN j.does.rows /\ QueueChanges(j, i)) => qReq'[i].status = qReq[i].status
          /\ i \in DOMAIN j.does.rows /\ j.does.rows[i].loose => qReq'[i].loose
      <4>1. CASE i \in DOMAIN j.does.rows /\ QueueChanges(j, i)
        BY <2>2, <4>1, QueueRowKept
      <4>2. CASE ~(i \in DOMAIN j.does.rows /\ QueueChanges(j, i))
        BY <2>2, <4>2, QueueRowKept
      <4> QED
        BY <4>1, <4>2
    <3>2. CASE i \in DOMAIN j.does.rows /\ QueueChanges(j, i)
      BY <1>1, <1>3, <3>1, <3>2 DEF QueueJobOK, QueueHolding, QueueEdges, QueueBeside
    <3>3. CASE ~(i \in DOMAIN j.does.rows /\ QueueChanges(j, i))
      <4>1. qReq[i].status = "open" /\ qReq[i].kind = "material"
        BY <1>3, <3>1, <3>3
      <4>2. CASE j.req.op \in Fulfilled!LocksItem
        <5>1. qOnHand + j.does.hand > 0 /\ ~qReq[i].loose /\ ~qReq[i].onShelf =>
                 i \in DOMAIN j.does.rows /\ QueueChanges(j, i)
          BY <1>1, <2>2, <4>1, <4>2 DEF QueueJobOK, QueueHolding, QueueFollows, QueueChanges
        <5> QED
          BY <1>1, <1>3, <3>1, <3>3, <5>1
      <4>3. CASE j.req.op \notin Fulfilled!LocksItem
        <5>1. qOnHand > 0
          BY <1>1, <1>3, <4>3 DEF QueueJobOK, QueueBeside
        <5>2. qReq[i].onShelf \/ qReq[i].loose
          BY <2>2, <4>1, <5>1, QueueSettled
        <5> QED
          BY <3>1, <5>2
      <4> QED
        BY <4>2, <4>3
    <3> QED
      BY <3>2, <3>3
  <2> QED
    BY <2>1, <2>2
<1> HIDE DEF j
<1>4. Fulfilled!Material' = {i \in Fulfilled!Ids : qReq'[i] # None /\ qReq'[i].kind = "material"}
  BY DEF Fulfilled!Material, Fulfilled!Rows
<1> QED
  BY <1>2, <1>3, <1>4 DEF Fulfilled!AutoStockedIsOnShelf, Fulfilled!NoMissedRestock

LEMMA QueueCommitAdded ==
    ASSUME QueueConstantsOK, QueueIInv, NEW t \in Clerks, QueueWritten(t), Fulfilled!Commit(t), ~Fulfilled!LineCollides(qJob[t])
                     PROVE  Fulfilled!AddedOnce'
<1> DEFINE j == qJob[t]
           Done(o) == {i \in Fulfilled!Ids : qReq[i] # None /\ qReq[i].kind = "catalogue" /\ qReq[i].order = o
                                   /\ qReq[i].auto = "added"}
           Now(o) == {i \in Fulfilled!Ids : qReq'[i] # None /\ qReq'[i].kind = "catalogue" /\ qReq'[i].order = o
                                  /\ qReq'[i].auto = "added"}
           Link(o) == {i \in j.does.fills : j.saw[i].order = o /\ o \in j.does.adds}
<1> SUFFICES ASSUME NEW o \in qOrders PROVE qFilled'[o] = Fulfilled!Cardinality(Now(o))
  <2>1. ASSUME NEW o
        PROVE  {i \in Fulfilled!Catalogue : qReq[i].order = o /\ qReq[i].auto = "added"}' = Now(o)
    BY DEF Fulfilled!Catalogue, Fulfilled!Rows
  <2> HIDE DEF Now
  <2> QED
    BY <2>1 DEF Fulfilled!AddedOnce
<1>1. QueueSound(j) /\ QueueLinks(j)
  BY DEF QueueWritten, QueueJobOK
<1>2. /\ Link(o) \subseteq Fulfilled!Ids
      /\ \A i \in Link(o) : /\ i \in DOMAIN j.does.rows /\ qReq[i] # None /\ qReq[i] = j.saw[i]
                            /\ qReq[i].kind = "catalogue" /\ qReq[i].order = o /\ qReq[i].auto = None
                            /\ j.does.rows[i].auto = "added"
  BY <1>1 DEF QueueSound, QueueLinks
<1>3. \A i \in Fulfilled!Ids : i \in Now(o) <=> i \in Done(o) \/ i \in Link(o)
  <2> SUFFICES ASSUME NEW i \in Fulfilled!Ids
               PROVE  i \in Now(o) <=> i \in Done(o) \/ i \in Link(o)
    OBVIOUS
  <2>1. CASE qReq[i] = None
    <3>1. i \notin Done(o) /\ i \notin Link(o)
      BY <1>2, <2>1
    <3>2. qReq'[i] # None => qReq'[i].auto = None
      BY <2>1, QueueRowFiled
    <3> QED
      BY <3>1, <3>2 DEF QueueConstantsOK
  <2>2. CASE qReq[i] # None /\ i \notin DOMAIN j.does.rows
    <3>1. qReq'[i] = qReq[i]
      BY <2>2, QueueRowKept
    <3> QED
      BY <1>2, <2>2, <3>1
  <2>3. CASE qReq[i] # None /\ i \in DOMAIN j.does.rows
    <3>1. /\ qReq'[i] # None /\ qReq'[i].kind = qReq[i].kind /\ qReq'[i].order = qReq[i].order
          /\ qReq'[i].auto = IF j.does.rows[i].auto = j.saw[i].auto THEN qReq[i].auto ELSE j.does.rows[i].auto
      BY <2>3, QueueRowKept
    <3>2. CASE i \in j.does.fills
      <4>1. /\ qReq[i] = j.saw[i] /\ j.saw[i].auto = None /\ qReq[i].kind = "catalogue"
            /\ j.does.rows[i].auto = "added" <=> j.saw[i].order \in j.does.adds
        BY <1>1, <3>2 DEF QueueSound, QueueLinks
      <4>2. qReq'[i].auto = "added" <=> qReq[i].order \in j.does.adds
        BY <3>1, <4>1 DEF QueueConstantsOK
      <4>3. i \in Now(o) <=> i \in Link(o)
        BY <2>3, <3>1, <3>2, <4>1, <4>2
      <4>4. i \notin Done(o)
        BY <4>1 DEF QueueConstantsOK
      <4> QED
        BY <4>3, <4>4
    <3>3. CASE i \notin j.does.fills
      <4>1. qReq'[i].auto = qReq[i].auto
        BY <1>1, <2>3, <3>1, <3>3 DEF QueueLinks
      <4> QED
        BY <2>3, <3>1, <3>3, <4>1
    <3> QED
      BY <3>2, <3>3
  <2> QED
    BY <2>1, <2>2, <2>3
<1>4. Now(o) = Done(o) \cup Link(o)
  BY <1>2, <1>3
<1>5. Done(o) \cap Link(o) = {}
  BY <1>2 DEF QueueConstantsOK
<1>6. Fulfilled!IsFiniteSet(Done(o)) /\ Fulfilled!IsFiniteSet(Link(o)) /\ Fulfilled!Cardinality(Done(o)) \in Nat /\ Fulfilled!Cardinality(Link(o)) \in Nat
  <2>1. Done(o) \in SUBSET Fulfilled!Ids /\ Link(o) \in SUBSET Fulfilled!Ids
    BY <1>2
  <2> HIDE DEF Done, Link
  <2> QED
    BY <2>1, QueueIdsFinite
<1>7. qFilled[o] = Fulfilled!Cardinality(Done(o))
  <2>1. {i \in Fulfilled!Catalogue : qReq[i].order = o /\ qReq[i].auto = "added"} = Done(o)
    BY DEF Fulfilled!Catalogue, Fulfilled!Rows
  <2> QED
    BY <2>1 DEF QueueIInv, Fulfilled!AddedOnce
<1>8. qFilled'[o] = qFilled[o] + Fulfilled!Cardinality(Link(o))
  <2>1. qFilled'[o] = qFilled[o] + (IF j.does.fills = {} THEN 0 ELSE Fulfilled!Units(j.does, j.saw, o))
    BY DEF Fulfilled!Commit
  <2>2. CASE j.does.fills = {} \/ o \notin j.does.adds
    <3>1. Link(o) = {}
      BY <2>2
    <3>2. Fulfilled!Cardinality(Link(o)) = 0
      BY <3>1, FS_EmptySet, QueueSizes, Zenon
    <3> QED
      BY <2>1, <2>2, <3>2 DEF Fulfilled!Units
  <2>3. CASE j.does.fills # {} /\ o \in j.does.adds
    <3>1. Link(o) = {i \in j.does.fills : j.saw[i].order = o}
      BY <2>3
    <3>2. Fulfilled!Units(j.does, j.saw, o) = Fulfilled!Cardinality({i \in j.does.fills : j.saw[i].order = o})
      BY <2>3 DEF Fulfilled!Units
    <3> QED
      BY <2>1, <2>3, <3>1, <3>2, Zenon
  <2> QED
    BY <2>2, <2>3
<1> HIDE DEF Done, Link, Now, j
<1>9. Fulfilled!Cardinality(Done(o) \cup Link(o)) = Fulfilled!Cardinality(Done(o)) + Fulfilled!Cardinality(Link(o)) - Fulfilled!Cardinality(Done(o) \cap Link(o))
  BY <1>6, FS_Union, QueueSizes
<1>10. Fulfilled!Cardinality(Done(o) \cap Link(o)) = 0
  BY <1>5, FS_EmptySet, QueueSizes, Zenon
<1>11. Fulfilled!Cardinality(Now(o)) = Fulfilled!Cardinality(Done(o)) + Fulfilled!Cardinality(Link(o))
  BY <1>4, <1>6, <1>9, <1>10
<1> QED
  BY <1>7, <1>8, <1>11

\* What a row is by now of what it was: a commit beside the shelf revives no
\* filed request, and one that moves it only what it said it would.
LEMMA QueueRevived ==
    ASSUME QueueConstantsOK, QueueIInv, NEW t \in Clerks, QueueWritten(t),
           NEW i \in Fulfilled!Ids, qReq'[i] # None,
           qReq'[i].kind = "material", ~qReq'[i].loose, Fulfilled!IsLive(qReq'[i]), qReq[i] # None
    PROVE  /\ ~qReq[i].loose
           /\ qJob[t].req.op \notin Fulfilled!LocksItem => Fulfilled!IsLive(qReq[i])
           /\ Fulfilled!IsLive(qReq[i]) \/ QueueRevives(qJob[t], i)
<1> DEFINE j == qJob[t]
<1>1. QueueJobOK(j) /\ j.phase = "commit"
  BY DEF QueueWritten
<1>2. qReq[i].loose => qReq'[i].loose
  BY QueueRowKept
<1>3. CASE i \in DOMAIN j.does.rows /\ QueueChanges(j, i)
  <2>1. /\ qReq'[i].status = j.does.rows[i].status
        /\ j.does.rows[i].loose => qReq'[i].loose
    BY <1>3, QueueRowKept
  <2>2. Fulfilled!IsLive(j.does.rows[i])
    BY <2>1 DEF Fulfilled!IsLive
  <2>3. j.req.op \in Fulfilled!LocksItem => QueueRevives(j, i)
    BY <1>1, <1>3, <2>2 DEF QueueRevives
  <2>4. j.req.op \notin Fulfilled!LocksItem => Fulfilled!IsLive(qReq[i])
    <3>1. SUFFICES ASSUME j.req.op \notin Fulfilled!LocksItem PROVE Fulfilled!IsLive(qReq[i])
      OBVIOUS
    <3>2. j.does.rows[i].status = "stocked"
      BY <1>1, <1>3, <2>1, <2>2, <3>1 DEF QueueJobOK, QueueBeside, Fulfilled!IsLive
    <3>3. i \in QueueNames(j.req) /\ j.saw[i].status = "open"
      BY <1>1, <1>3, <3>1, <3>2 DEF QueueJobOK, QueueBeside
    <3>4. qReq[i] = j.saw[i]
      BY <1>1, <1>3, <3>3 DEF QueueJobOK, QueueSound
    <3> QED
      BY <3>3, <3>4 DEF Fulfilled!IsLive
  <2> QED
    BY <1>2, <2>3, <2>4
<1>4. CASE ~(i \in DOMAIN j.does.rows /\ QueueChanges(j, i))
  <2>1. qReq'[i].status = qReq[i].status
    BY <1>4, QueueRowKept
  <2> QED
    BY <1>2, <2>1 DEF Fulfilled!IsLive
<1> QED
  BY <1>3, <1>4

LEMMA QueueCommitFiles ==
    ASSUME QueueConstantsOK, QueueIInv, NEW t \in Clerks, QueueWritten(t) PROVE QueueOneFiling'
<1> DEFINE j == qJob[t]
<1>0. QueueJobOK(j) /\ j.phase = "commit"
  BY DEF QueueWritten
<1>1. \A u \in Clerks : qJob'[u].phase = "commit" => u # t /\ qJob'[u] = qJob[u]
  <2>1. Fulfilled!Ends(t)
    BY DEF QueueWritten
  <2> QED
    BY <2>1, QueueEndsFacts
<1>2. ASSUME NEW i \in Fulfilled!Ids, QueueFiling(i)' PROVE
          /\ qReq'[i] # None /\ qReq'[i].kind = "material" /\ ~qReq'[i].loose
          /\ Fulfilled!IsLive(qReq'[i]) \/ \E u \in Clerks : u # t /\ QueueRevives(qJob[u], i)
  <2>1. \A u \in Clerks : QueueRevives(qJob[u], i)' => u # t /\ QueueRevives(qJob[u], i)
    BY <1>1 DEF QueueRevives, QueueChanges
  <2> QED
    BY <1>2, <2>1 DEF QueueFiling, Fulfilled!IsLive
<1>3. ASSUME NEW i \in Fulfilled!Ids, QueueFiling(i)', qReq[i] # None
      PROVE  QueueFiling(i) /\ qReq'[i].order = qReq[i].order
  <2>1. qReq'[i].kind = qReq[i].kind /\ qReq'[i].order = qReq[i].order /\ (qReq[i].loose => qReq'[i].loose)
    BY <1>3, QueueRowKept
  <2>2. qReq[i].kind = "material" /\ ~qReq[i].loose
    BY <1>2, <1>3, <2>1
  <2>3. Fulfilled!IsLive(qReq'[i]) => Fulfilled!IsLive(qReq[i]) \/ QueueRevives(j, i)
    BY <1>2, <1>3, QueueRevived
  <2>4. Fulfilled!IsLive(qReq[i]) \/ \E u \in Clerks : QueueRevives(qJob[u], i)
    BY <1>2, <1>3, <2>3
  <2> QED
    BY <1>3, <2>1, <2>2, <2>4 DEF QueueFiling
<1>4. ASSUME NEW i \in Fulfilled!Ids, QueueFiling(i)', qReq[i] = None
      PROVE  /\ j.req.op \in Fulfilled!LocksItem /\ \A m, n \in j.does.news : m = n
             /\ DOMAIN j.does.rows = {}
             /\ \A k \in Fulfilled!Ids : qReq[k] # None /\ qReq[k].kind = "material"
                               /\ qReq[k].order = qReq'[i].order /\ Fulfilled!IsLive(qReq[k]) => qReq[k].loose
  <2>1. qReq'[i] \in j.does.news /\ qReq'[i].kind = "material" /\ ~qReq'[i].loose
    BY <1>2, <1>4, QueueRowFiled
  <2>2. j.req.op \in Fulfilled!LocksItem
    BY <1>0, <2>1 DEF QueueJobOK, QueueBeside
  <2>3. QueueFilesFirst(j)
    BY <1>0, <2>2 DEF QueueJobOK, QueueHolding
  <2> QED
    BY <2>1, <2>2, <2>3 DEF QueueFilesFirst
<1>5. ASSUME NEW i \in Fulfilled!Ids, NEW k \in Fulfilled!Ids, QueueFiling(i)',
             QueueFiling(k)', qReq'[i].order = qReq'[k].order,
             qReq[i] = None, qReq[k] # None
      PROVE  FALSE
  <2>1. QueueFiling(k) /\ qReq[k].order = qReq'[i].order
    BY <1>3, <1>5
  <2>2. ~Fulfilled!IsLive(qReq[k])
    BY <1>4, <1>5, <2>1 DEF QueueFiling
  <2>3. PICK u \in Clerks : QueueRevives(qJob[u], k)
    BY <2>1, <2>2 DEF QueueFiling
  <2>4. u = t
    <3>1. qItemLock = u /\ qItemLock = t
      BY <1>0, <1>4, <1>5, <2>3 DEF QueueIInv, QueueLocks, QueueRevives
    <3> QED
      BY <3>1
  <2> QED
    BY <1>4, <1>5, <2>3, <2>4 DEF QueueRevives
<1>6. ASSUME NEW i \in Fulfilled!Ids, NEW k \in Fulfilled!Ids, QueueFiling(i)', QueueFiling(k)', qReq'[i].order = qReq'[k].order
      PROVE  i = k
  <2>1. CASE qReq[i] # None /\ qReq[k] # None
    BY <1>3, <1>6, <2>1 DEF QueueIInv, QueueOneFiling
  <2>2. CASE qReq[i] = None /\ qReq[k] = None
    <3>1. (\A m, n \in j.does.news : m = n) /\ qReq'[i] # None /\ qReq'[k] # None
      BY <1>2, <1>4, <1>6, <2>2
    <3> QED
      BY <2>2, <3>1 DEF QueueWritten
  <2>3. CASE (qReq[i] = None /\ qReq[k] # None) \/ (qReq[i] # None /\ qReq[k] = None)
    BY <1>5, <1>6, <2>3
  <2> QED
    BY <2>1, <2>2, <2>3
<1> QED
  BY <1>6 DEF QueueOneFiling

\* What others have pending still agrees with the rows.
LEMMA QueueCommitJobs ==
    ASSUME QueueConstantsOK, QueueIInv, NEW t \in Clerks, QueueWritten(t), NEW u \in Clerks,
           u # t,
           qJob[u].phase = "commit", qJob'[u] = qJob[u]
    PROVE  QueueJobOK(qJob[u])'
<1> DEFINE j == qJob[t]  k == qJob[u]
<1>1. QueueJobOK(k) /\ QueueWellAsked(k.req)
  BY DEF QueueIInv, QueueTInv
<1>2. QueueSound(qJob[u])'
  <2>1. ASSUME NEW i \in DOMAIN k.does.rows
        PROVE  /\ qReq'[i] # None /\ qReq'[i].kind = k.saw[i].kind
               /\ i \in QueueNames(k.req) => qReq'[i] = k.saw[i]
    <3>1. /\ i \in Fulfilled!Ids /\ qReq[i] # None /\ qReq[i].kind = k.saw[i].kind
          /\ i \in QueueNames(k.req) => qReq[i] = k.saw[i]
      BY <1>1 DEF QueueJobOK, QueueSound
    <3>2. qReq'[i] # None /\ qReq'[i].kind = qReq[i].kind
      BY <3>1, QueueRowKept
    <3>3. ASSUME i \in QueueNames(k.req) PROVE qReq'[i] = qReq[i]
      <4>1. qRowLock[i] = u
        BY <3>3 DEF QueueIInv, QueueLocks
      <4>2. i \notin DOMAIN j.does.rows
        BY <4>1 DEF QueueWritten, QueueConstantsOK
      <4> QED
        BY <3>1, <4>2 DEF QueueWritten
    <3> QED
      BY <3>1, <3>2, <3>3
  <2>2. QueueSound(k)
    BY <1>1, SMTT(30) DEF QueueJobOK
  <2> QED
    BY <2>1, <2>2 DEF QueueSound
<1>3. QueueLinks(qJob[u])' /\ QueueCloses(qJob[u])'
  BY <1>1 DEF QueueJobOK, QueueLinks, QueueCloses
<1>4. qJob'[u].req.op \notin Fulfilled!LocksItem => QueueBeside(qJob[u])'
  BY <1>1 DEF QueueJobOK, QueueBeside, QueueChanges
<1>5. ASSUME k.req.op \in Fulfilled!LocksItem PROVE QueueHolding(qJob[u])'
  <2>1. QueueHolding(k) /\ j.req.op \notin Fulfilled!LocksItem
    <3>1. qItemLock = u
      BY <1>5 DEF QueueIInv, QueueLocks
    <3>2. j.req.op \notin Fulfilled!LocksItem
      BY <3>1 DEF QueueIInv, QueueLocks, QueueWritten
    <3> QED
      BY <1>1, <1>5, <3>2 DEF QueueJobOK
  <2>2. QueueBeside(j) /\ qOnHand' = qOnHand /\ qOnHand \in Int
    <3>1. QueueBeside(j) /\ qOnHand' = qOnHand + j.does.hand
      BY <2>1 DEF QueueWritten, QueueJobOK
    <3> QED
      BY <3>1 DEF QueueBeside, QueueIInv, QueueTInv
  <2>3. QueueEdges(qJob[u])'
    BY <2>1, <2>2 DEF QueueHolding, QueueEdges, QueueChanges
  <2>4. QueueFollows(qJob[u])'
    <3>1. ASSUME NEW i \in Fulfilled!Ids, qReq'[i] # None, qReq'[i].kind = "material",
                 qOnHand + k.does.hand <= 0,
                 qReq'[i].status = "stocked", qReq'[i].by = "auto"
          PROVE  i \in DOMAIN k.does.rows /\ k.saw[i].status = "stocked" /\ k.does.rows[i].status # "stocked"
      <4>1. qReq[i] # None
        BY <3>1, QueueRowFiled
      <4>2. ~(i \in DOMAIN j.does.rows /\ QueueChanges(j, i))
        BY <2>2, <3>1, <4>1, QueueRowKept DEF QueueBeside
      <4>3. qReq[i].kind = "material" /\ qReq[i].status = "stocked" /\ qReq[i].by = "auto"
        BY <3>1, <4>1, <4>2, QueueRowKept
      <4> QED
        BY <2>1, <3>1, <4>1, <4>3 DEF QueueHolding, QueueFollows
    <3>2. ASSUME NEW i \in Fulfilled!Ids, qReq'[i] # None, qReq'[i].kind = "material",
                 qOnHand + k.does.hand > 0,
                 qReq'[i].status = "open", ~qReq'[i].loose, ~qReq'[i].onShelf
          PROVE  i \in DOMAIN k.does.rows /\ k.saw[i].status = "open" /\ k.does.rows[i].status # "open"
      <4>1. qReq[i] # None
        BY <2>2, <3>2, QueueRowFiled DEF QueueBeside
      <4>2. /\ qReq'[i].kind = qReq[i].kind /\ qReq'[i].onShelf = qReq[i].onShelf
            /\ qReq[i].loose => qReq'[i].loose
        BY <4>1, QueueRowKept
      <4>3. ~(i \in DOMAIN j.does.rows /\ QueueChanges(j, i))
        <5>1. i \in DOMAIN j.does.rows /\ QueueChanges(j, i) =>
                 qReq'[i].status = j.does.rows[i].status /\ (j.does.rows[i].loose => qReq'[i].loose)
          BY <4>1, QueueRowKept
        <5> QED
          BY <2>2, <3>2, <5>1 DEF QueueBeside
      <4>4. qReq'[i].status = qReq[i].status
        BY <4>1, <4>3, QueueRowKept
      <4> QED
        BY <2>1, <3>2, <4>1, <4>2, <4>4 DEF QueueHolding, QueueFollows
    <3> QED
      BY <2>2, <3>1, <3>2 DEF QueueFollows
  <2>5. QueueFilesFirst(qJob[u])'
    <3>1. ASSUME NEW n \in k.does.news, NEW i \in Fulfilled!Ids, qReq'[i] # None,
                 qReq'[i].kind = "material",
                 qReq'[i].order = n.order, Fulfilled!IsLive(qReq'[i]), ~qReq'[i].loose
          PROVE  FALSE
      <4>1. qReq[i] # None
        BY <2>2, <3>1, QueueRowFiled DEF QueueBeside
      <4>2. ~qReq[i].loose /\ Fulfilled!IsLive(qReq[i])
        BY <2>1, <3>1, <4>1, QueueRevived
      <4>3. qReq[i].kind = "material" /\ qReq[i].order = n.order
        BY <3>1, <4>1, QueueRowKept
      <4> QED
        BY <2>1, <4>1, <4>2, <4>3 DEF QueueHolding, QueueFilesFirst
    <3>2. QueueFilesFirst(k)
      BY <2>1 DEF QueueHolding
    <3> QED
      BY <2>2, <3>1, <3>2 DEF QueueFilesFirst, Fulfilled!IsLive
  <2> QED
    BY <2>3, <2>4, <2>5 DEF QueueHolding
<1> QED
  BY <1>2, <1>3, <1>4, <1>5 DEF QueueJobOK

LEMMA QueueCommitStep ==
    ASSUME QueueConstantsOK, QueueIInv, NEW t \in Clerks, Fulfilled!Commit(t) PROVE QueueIInv'
<1>1. CASE Fulfilled!LineCollides(qJob[t])
  <2>1. Fulfilled!Ends(t) /\ UNCHANGED <<qOnHand, qReq, qLine, qLogged, qFilled, qClosed>>
    BY <1>1 DEF Fulfilled!Commit
  <2> QED
    BY <2>1, QueueEndsStep
<1>2. CASE ~Fulfilled!LineCollides(qJob[t])
  <2>1. QueueWritten(t)
    BY <1>2, QueueCommitWrites
  <2>2. QueueTInv' /\ QueueLocks' /\ QueueLinked' /\ Fulfilled!AutoStockedIsOnShelf' /\ Fulfilled!NoMissedRestock' /\ Fulfilled!AddedOnce' /\ QueueOneFiling'
    BY <1>2, <2>1, QueueCommitTInv, QueueCommitLinked, QueueCommitSides, QueueCommitAdded,
       QueueCommitFiles
  <2>3. \A u \in Clerks : qJob'[u].phase = "commit" => u # t /\ qJob'[u] = qJob[u]
    <3>1. Fulfilled!Ends(t)
      BY <2>1 DEF QueueWritten
    <3> QED
      BY <3>1, QueueEndsFacts
  <2>4. \A u \in Clerks : qJob'[u].phase = "commit" => QueueJobOK(qJob[u])'
    BY <2>1, <2>3, QueueCommitJobs
  <2> QED
    BY <2>2, <2>4 DEF QueueIInv
<1> QED
  BY <1>1, <1>2

-----------------------------------------------------------------------------
LEMMA QueueNextStep ==
    ASSUME QueueConstantsOK, QueueIInv, [Fulfilled!Next]_Fulfilled!vars, \A t \in Clerks : qFulfil[t] \subseteq QueueAllOps
    PROVE  QueueIInv'
<1>1. CASE UNCHANGED Fulfilled!vars
  <2>1. QueueTInv' /\ QueueLocks'
    BY <1>1 DEF Fulfilled!vars, QueueIInv, QueueTInv, QueueWellAsked, QueueLocks
  <2> QED
    BY <1>1, <2>1, QueueStillStep DEF Fulfilled!vars
<1>2. ASSUME NEW t \in Clerks, Fulfilled!Arrive(t) PROVE QueueIInv'
  <2>1. PICK o \in qFulfil[t] : \E r \in Fulfilled!Asked(o) : Fulfilled!Within(r) /\ Fulfilled!Takes(t, r)
    BY <1>2 DEF Fulfilled!Arrive
  <2>2. PICK r \in Fulfilled!Asked(o) : Fulfilled!Takes(t, r)
    BY <2>1
  <2>3. o \in QueueAllOps
    OBVIOUS
  <2> QED
    BY <1>2, <2>2, <2>3, QueueTakesStep DEF Fulfilled!Arrive
<1> QED
  BY <1>1, <1>2, QueueLockRowStep, QueueCommitStep, QueueAbortStep,
     QueueArchiveStep DEF Fulfilled!Next, Fulfilled!Step

\* From the invariant to what is promised.
LEMMA QueuePromised ==
    ASSUME QueueConstantsOK, QueueIInv PROVE Fulfilled!TypeOK /\ Fulfilled!OneLive
<1>1. Fulfilled!TypeOK
  <2>1. \A i \in Fulfilled!Rows : qReq[i] \in Fulfilled!RequestRows
    BY DEF QueueIInv, QueueTInv, Fulfilled!Rows
  <2> QED
    BY <2>1 DEF QueueIInv, QueueTInv, Fulfilled!TypeOK
<1>2. ASSUME NEW o \in qOrders
      PROVE  Fulfilled!Cardinality({i \in Fulfilled!LiveFor(o) : ~qReq[i].loose}) <= 1
  <2> DEFINE L == {i \in Fulfilled!LiveFor(o) : ~qReq[i].loose}
  <2>1. \A i \in L : i \in Fulfilled!Ids /\ QueueFiling(i) /\ qReq[i].order = o
    BY DEF Fulfilled!LiveFor, Fulfilled!Material, Fulfilled!Rows, QueueFiling
  <2>2. \A i, k \in L : i = k
    BY <2>1 DEF QueueIInv, QueueOneFiling
  <2> HIDE DEF L
  <2>3. CASE L = {}
    <3>1. Fulfilled!Cardinality(L) = 0
      BY <2>3, FS_EmptySet, QueueSizes, Zenon
    <3> QED
      BY <3>1 DEF L
  <2>4. CASE L # {}
    <3>0. PICK i \in L : TRUE
      BY <2>4
    <3>1. L = {i}
      BY <2>2, <3>0
    <3>2. Fulfilled!Cardinality({i}) = 1
      BY FS_Singleton, QueueSizes
    <3>3. Fulfilled!Cardinality(L) = 1
      BY <3>1, <3>2, Zenon
    <3> QED
      BY <3>3 DEF L
  <2> QED
    BY <2>3, <2>4
<1> QED
  BY <1>1, <1>2 DEF Fulfilled!OneLive

\* The material taken from a stocked request is gone with it.
LEMMA QueueClosed ==
    ASSUME QueueConstantsOK, QueueIInv, NEW t \in Clerks, Fulfilled!Commit(t),
           qJob[t].req.op = "add",
           qJob[t].req.id # None, qLogged' # qLogged
    PROVE  qReq'[qJob[t].req.id].status = "resolved"
<1>1. ~Fulfilled!LineCollides(qJob[t])
  BY DEF Fulfilled!Commit
<1>2. QueueWritten(t)
  BY <1>1, QueueCommitWrites
<1> DEFINE i == qJob[t].req.id
<1>3. QueueCloses(qJob[t]) /\ QueueSound(qJob[t])
  BY <1>2 DEF QueueWritten, QueueJobOK
<1>4. i \in DOMAIN qJob[t].does.rows /\ QueueChanges(qJob[t], i) /\ i \in Fulfilled!Ids /\ qReq[i] # None
      /\ qJob[t].does.rows[i].status = "resolved"
  BY <1>3 DEF QueueCloses, QueueChanges, QueueSound
<1> QED
  BY <1>2, <1>4, QueueRowKept

-----------------------------------------------------------------------------
(* Together: whichever component runs, the others stand still.             *)

LEMMA ExportRuns == StoreroomSpec => Export!Spec
<1>1. StoreroomInit => Export!Init
  BY DEF StoreroomInit
<1>2. [StoreroomNext]_StoreroomVars => [Export!Next]_(Export!vars)
  BY DEF StoreroomNext, StoreroomVars, WeeklyExportVars, Export!vars
<1> QED
  BY <1>1, <1>2, PTL DEF StoreroomSpec, Export!Spec

LEMMA CatalogueRuns == StoreroomSpec => Catalogue!Spec
<1>1. StoreroomInit => Catalogue!Init
  BY DEF StoreroomInit
<1>2. [StoreroomNext]_StoreroomVars => [Catalogue!Next]_(Catalogue!vars)
  BY DEF StoreroomNext, StoreroomVars, ItemCodesVars, Catalogue!vars
<1> QED
  BY <1>1, <1>2, PTL DEF StoreroomSpec, Catalogue!Spec

\* Once the sheets are rendered, a dispense committed before every window over it
\* closed is on one (dispense_export_xlsx.py).
THEOREM SheetsAreComplete == StoreroomSpec => []NothingSkipped
<1>1. StoreroomSpec => [](Export!TypeOK /\ Export!NothingSkipped)
  BY ExportRuns, ExportAssumption, ExportTypeCorrect, ExportNothingIsSkipped, PTL
<1>2. Export!TypeOK /\ Export!NothingSkipped => NothingSkipped
  BY DEF NothingSkipped
<1> QED
  BY <1>1, <1>2, PTL

\* A scan finds one live item unless two overlapping requests claimed its code, and
\* the reuse of a deleted item's code takes none from a live item (items.py).
THEOREM CodesAreKept == StoreroomSpec => []CodesHold
<1>1. StoreroomSpec => [](Catalogue!TypeOK /\ Catalogue!ScanFindsOne /\ Catalogue!LiveKeepsCodes)
  BY CatalogueRuns, CatalogueAssumption, CatalogueTypeCorrect, CatalogueScansFindOne,
     CatalogueLiveItemsKeepCodes, PTL
<1>2. Catalogue!TypeOK /\ Catalogue!ScanFindsOne /\ Catalogue!LiveKeepsCodes => CodesHold
  BY DEF CodesHold
<1> QED
  BY <1>1, <1>2, PTL

-----------------------------------------------------------------------------
(* The queue runs with either set of operations: the two differ in nothing *)
(* but which requests arrive.                                              *)

LEMMA SameReads ==
    ASSUME NEW r
    PROVE  OnShelf!Refused(r) = Fulfilled!Refused(r) /\ OnShelf!Reading(r) = Fulfilled!Reading(r)
<1>1. OnShelf!Refused(r) = Fulfilled!Refused(r)
  BY Zenon DEF OnShelf!Refused, OnShelf!AddOK, OnShelf!PatchOK, Fulfilled!Refused,
     Fulfilled!AddOK, Fulfilled!PatchOK
<1>2. OnShelf!Does(r) = Fulfilled!Does(r)
  BY Zenon DEF OnShelf!Does, OnShelf!Filed, OnShelf!Rewrites, OnShelf!NoRows,
     OnShelf!StockWrite, OnShelf!Added, OnShelf!Fulfilled, OnShelf!Patched, OnShelf!Targets,
     OnShelf!NewRow, OnShelf!MovedRows, OnShelf!LiveFor, OnShelf!IsLive, OnShelf!Material,
     OnShelf!Rows, OnShelf!Ids, OnShelf!Min, OnShelf!Restocked, OnShelf!WentOut,
     OnShelf!StockedOrClosed, OnShelf!Stocked, OnShelf!Reopened, OnShelf!Resolved,
     Fulfilled!Does, Fulfilled!Filed, Fulfilled!Rewrites, Fulfilled!NoRows,
     Fulfilled!StockWrite, Fulfilled!Added, Fulfilled!Fulfilled, Fulfilled!Patched,
     Fulfilled!Targets, Fulfilled!NewRow, Fulfilled!MovedRows, Fulfilled!LiveFor,
     Fulfilled!IsLive, Fulfilled!Material, Fulfilled!Rows, Fulfilled!Ids, Fulfilled!Min,
     Fulfilled!Restocked, Fulfilled!WentOut, Fulfilled!StockedOrClosed, Fulfilled!Stocked,
     Fulfilled!Reopened, Fulfilled!Resolved
<1> QED
  BY <1>1, <1>2, Zenon DEF OnShelf!Reading, OnShelf!Idle, Fulfilled!Reading, Fulfilled!Idle

LEMMA SameRequests == ASSUME NEW o PROVE OnShelf!Asked(o) = Fulfilled!Asked(o)
  BY DEF OnShelf!Asked, OnShelf!Ask, OnShelf!Siblings, OnShelf!Catalogue,
     OnShelf!Material, OnShelf!Rows, OnShelf!Ids, Fulfilled!Asked, Fulfilled!Ask,
     Fulfilled!Siblings, Fulfilled!Catalogue, Fulfilled!Material, Fulfilled!Rows, Fulfilled!Ids

LEMMA SameTakes == ASSUME NEW t, NEW r PROVE OnShelf!Takes(t, r) <=> Fulfilled!Takes(t, r)
  BY SameReads, Zenon DEF OnShelf!Takes, OnShelf!LocksItem, OnShelf!Ids, Fulfilled!Takes,
     Fulfilled!LocksItem, Fulfilled!Ids

LEMMA SameSteps ==
    ASSUME NEW t, OnShelf!Step(t) PROVE Fulfilled!Step(t)
<1>1. OnShelf!Wanted(t) = Fulfilled!Wanted(t)
  BY Zenon DEF OnShelf!Wanted, Fulfilled!Wanted
<1>2. OnShelf!Ends(t) = Fulfilled!Ends(t)
  BY Zenon DEF OnShelf!Ends, OnShelf!Idle, OnShelf!Ids, Fulfilled!Ends, Fulfilled!Idle,
     Fulfilled!Ids
<1>3. OnShelf!LockRow(t) => Fulfilled!LockRow(t)
  <2>1. OnShelf!Min(OnShelf!Wanted(t)) = Fulfilled!Min(Fulfilled!Wanted(t))
    BY Zenon DEF OnShelf!Min, OnShelf!Wanted, Fulfilled!Min, Fulfilled!Wanted
  <2>2. /\ OnShelf!Refused(qJob[t].req) = Fulfilled!Refused(qJob[t].req)
        /\ OnShelf!Reading(qJob[t].req) = Fulfilled!Reading(qJob[t].req)
    BY SameReads, Zenon
  <2> QED
    BY <1>1, <1>2, <2>1, <2>2 DEF OnShelf!LockRow, Fulfilled!LockRow
<1>4. OnShelf!Commit(t) => Fulfilled!Commit(t)
  BY <1>2, Zenon DEF OnShelf!Commit, OnShelf!LineCollides, OnShelf!Units, OnShelf!Merged,
     OnShelf!Free, OnShelf!Rows, OnShelf!Ids, OnShelf!Cardinality, OnShelf!SetToSeq,
     OnShelf!IsInjective, Fulfilled!Commit, Fulfilled!LineCollides, Fulfilled!Units,
     Fulfilled!Merged, Fulfilled!Free, Fulfilled!Rows, Fulfilled!Ids, Fulfilled!Cardinality,
     Fulfilled!SetToSeq, Fulfilled!IsInjective
<1>5. OnShelf!Abort(t) => Fulfilled!Abort(t)
  BY <1>2, Zenon DEF OnShelf!Abort, OnShelf!Deadlocked, OnShelf!Wanted, OnShelf!Min,
     Fulfilled!Abort, Fulfilled!Deadlocked, Fulfilled!Wanted, Fulfilled!Min
<1> QED
  BY <1>3, <1>4, <1>5 DEF OnShelf!Step, Fulfilled!Step

LEMMA SameInit == OnShelf!Init => Fulfilled!Init
  BY Zenon DEF OnShelf!Init, OnShelf!Idle, OnShelf!Ids, Fulfilled!Init, Fulfilled!Idle,
     Fulfilled!Ids

\* A request of the shelf's movements is one the fulfilments know as well.
LEMMA ShelfStep == ASSUME QueueConstantsOK, QueueIInv, OnShelf!Next PROVE QueueIInv'
<1>1. ASSUME NEW t \in Clerks, OnShelf!Arrive(t) PROVE QueueIInv'
  <2>1. PICK o \in qShelf[t] : \E r \in OnShelf!Asked(o) : OnShelf!Within(r) /\ OnShelf!Takes(t, r)
    BY <1>1 DEF OnShelf!Arrive
  <2>2. PICK r \in OnShelf!Asked(o) : OnShelf!Takes(t, r)
    BY <2>1
  <2>3. r \in Fulfilled!Asked(o) /\ Fulfilled!Takes(t, r)
    BY <2>2, SameRequests, SameTakes
  <2>4. o \in QueueAllOps
    BY DEF QueueConstantsOK, QueueAllOps
  <2>5. qJob[t].phase = "idle" /\ UNCHANGED <<qOnHand, qClosed, qReq, qLine, qLogged, qFilled>>
    BY <1>1 DEF OnShelf!Arrive
  <2> QED
    BY <2>3, <2>4, <2>5, QueueTakesStep
<1>2. ASSUME NEW t \in Clerks, OnShelf!Step(t) PROVE QueueIInv'
  <2>1. Fulfilled!LockRow(t) \/ Fulfilled!Commit(t) \/ Fulfilled!Abort(t)
    BY <1>2, SameSteps DEF Fulfilled!Step
  <2> QED
    BY <2>1, QueueLockRowStep, QueueCommitStep, QueueAbortStep
<1>3. ASSUME NEW o \in qOrders, OnShelf!Archive(o) PROVE QueueIInv'
  <2>1. Fulfilled!Archive(o)
    BY <1>3 DEF OnShelf!Archive, Fulfilled!Archive
  <2> QED
    BY <2>1, QueueArchiveStep
<1> QED
  BY <1>1, <1>2, <1>3 DEF OnShelf!Next

LEMMA QueueInvariant == StoreroomSpec => []QueueIInv
<1>1. QueueConstantsOK
  BY QueueAssumption
<1>2. StoreroomInit => QueueIInv
  BY <1>1, SameInit, QueueInitIInv DEF StoreroomInit
<1>3. QueueIInv /\ [StoreroomNext]_StoreroomVars => QueueIInv'
  <2> SUFFICES ASSUME QueueIInv, [StoreroomNext]_StoreroomVars PROVE QueueIInv'
    OBVIOUS
  <2>1. CASE OnShelf!Next
    BY <1>1, <2>1, ShelfStep
  <2>2. CASE Fulfilled!Next \/ UNCHANGED RequestsVars
    <3>1. [Fulfilled!Next]_Fulfilled!vars
      BY <2>2 DEF RequestsVars, Fulfilled!vars
    <3>2. \A t \in Clerks : qFulfil[t] \subseteq QueueAllOps
      BY <1>1 DEF QueueConstantsOK, QueueAllOps
    <3> QED
      BY <1>1, <3>1, <3>2, QueueNextStep
  <2> QED
    BY <2>1, <2>2 DEF StoreroomNext, StoreroomVars
<1> QED
  BY <1>2, <1>3, PTL DEF StoreroomSpec

-----------------------------------------------------------------------------
(* The truck.  Plans know every work order's place, and only an order that *)
(* joins a stage while it is blank gets one; a building has one active     *)
(* stage.                                                                  *)

TruckHasPlaces == DOMAIN pPlace = pOrders

LEMMA TruckPlaceStep ==
    ASSUME Truck!Next
    PROVE  \/ UNCHANGED pPlace
           \/ \E w, b : pPlace' = [pPlace EXCEPT ![w] = IF @ = None THEN b ELSE @]
<1>1. PICK t \in Clerks :
        \/ Truck!SendCreate(t) \/ Truck!Create(t) \/ Truck!SendUpdate(t) \/ Truck!Update(t)
        \/ Truck!DeleteStage(t) \/ Truck!SendSlot(t) \/ Truck!Fill(t) \/ Truck!Count(t)
        \/ Truck!Slot(t) \/ Truck!SendEdit(t) \/ Truck!Plan(t) \/ Truck!Unplan(t)
        \/ Truck!Unslot(t) \/ Truck!SendMove(t) \/ Truck!Lock(t) \/ Truck!Move(t)
  BY DEF Truck!Next
<1>2. CASE Truck!Fill(t)
  BY <1>2 DEF Truck!Fill, Truck!Filled
<1>3. CASE \/ Truck!SendCreate(t) \/ Truck!Create(t) \/ Truck!SendUpdate(t) \/ Truck!Update(t)
           \/ Truck!DeleteStage(t) \/ Truck!SendSlot(t) \/ Truck!Count(t) \/ Truck!Slot(t)
  BY <1>3, Zenon DEF Truck!SendCreate, Truck!Create, Truck!SendUpdate, Truck!Update,
     Truck!DeleteStage, Truck!SendSlot, Truck!Count, Truck!Slot
<1>4. CASE \/ Truck!SendEdit(t) \/ Truck!Plan(t) \/ Truck!Unplan(t) \/ Truck!Unslot(t)
           \/ Truck!SendMove(t) \/ Truck!Lock(t) \/ Truck!Move(t)
  BY <1>4, Zenon DEF Truck!SendEdit, Truck!Plan, Truck!Unplan, Truck!Unslot, Truck!SendMove,
     Truck!Lock, Truck!Move
<1> QED
  BY <1>1, <1>2, <1>3, <1>4

LEMMA TruckStep ==
    ASSUME TruckHasPlaces, [StoreroomNext]_StoreroomVars
    PROVE  /\ TruckHasPlaces'
           /\ \A w \in pOrders : pPlace[w] # None => pPlace'[w] = pPlace[w]
<1>1. CASE UNCHANGED pPlace
  BY <1>1 DEF TruckHasPlaces
<1>2. CASE \E w, b : pPlace' = [pPlace EXCEPT ![w] = IF @ = None THEN b ELSE @]
  BY <1>2 DEF TruckHasPlaces
<1>3. UNCHANGED TruckPlanVars => UNCHANGED pPlace
  BY DEF TruckPlanVars
<1> QED
  BY <1>1, <1>2, <1>3, TruckPlaceStep DEF StoreroomNext, StoreroomVars

\* A stage that was created is a row, and a building has one that is active.
TruckStages ==
    /\ pStage = [s \in pStageIds |-> pStage[s]]
    /\ \A s \in pStageIds : pStage[s] # None =>
          pStage[s] = [building |-> pStage[s].building, status |-> pStage[s].status,
                       done |-> pStage[s].done]
    /\ Truck!OneActiveStage

\* The index keeps the building of the row that is written apart from the others'.
LEMMA TruckRowWritten ==
    ASSUME TruckStages, NEW s \in pStageIds, NEW b, NEW status, NEW done,
           status \in {"completed", "gone"} \/ Truck!Free(b, pStageIds \ {s}),
           pStage' = [pStage EXCEPT ![s] = [building |-> b, status |-> status, done |-> done]]
    PROVE  TruckStages'
<1>1. pStage' = [r \in pStageIds |-> pStage'[r]]
  BY DEF TruckStages
<1>2. pStage'[s] = [building |-> b, status |-> status, done |-> done]
  BY DEF TruckStages
<1>3. \A r \in pStageIds \ {s} : pStage'[r] = pStage[r]
  BY DEF TruckStages
<1>4. \A r \in pStageIds : pStage'[r] # None =>
         pStage'[r] = [building |-> pStage'[r].building, status |-> pStage'[r].status,
                       done |-> pStage'[r].done]
  BY <1>2, <1>3 DEF TruckStages
<1>5. \A r \in pStageIds \ {s} : Truck!Active(r)' <=> Truck!Active(r)
  BY <1>3 DEF Truck!Active, Truck!Live
<1>6. Truck!Active(s)' => Truck!Free(b, pStageIds \ {s})
  BY <1>2 DEF Truck!Active, Truck!Live
<1>7. Truck!OneActiveStage'
  <2> SUFFICES ASSUME NEW r \in pStageIds, NEW q \in pStageIds, Truck!Active(r)',
                      Truck!Active(q)', pStage'[r].building = pStage'[q].building
               PROVE  r = q
    BY DEF Truck!OneActiveStage
  <2>1. CASE r # s /\ q # s
    BY <1>3, <1>5, <2>1 DEF TruckStages, Truck!OneActiveStage
  <2>2. CASE r = s /\ q # s
    BY <1>2, <1>3, <1>5, <1>6, <2>2 DEF Truck!Free, Truck!Taken
  <2>3. CASE q = s /\ r # s
    BY <1>2, <1>3, <1>5, <1>6, <2>3 DEF Truck!Free, Truck!Taken
  <2> QED
    BY <2>1, <2>2, <2>3
<1> QED
  BY <1>1, <1>4, <1>7 DEF TruckStages

LEMMA TruckStageStep == ASSUME TruckStages, Truck!Next PROVE TruckStages'
<1>1. ASSUME UNCHANGED pStage PROVE TruckStages'
  BY <1>1 DEF TruckStages, Truck!OneActiveStage, Truck!Active, Truck!Live
<1>2. ASSUME NEW t \in Clerks, Truck!Create(t) PROVE TruckStages'
  <2>1. CASE UNCHANGED pStage
    BY <1>1, <2>1
  <2>2. CASE Truck!Free(pReq[t].building, pStageIds) /\ ~UNCHANGED pStage
    <3>1. PICK s \in pStageIds :
             pStage' = [pStage EXCEPT ![s] = [building |-> pReq[t].building,
                                              status |-> "planning", done |-> FALSE]]
      BY <1>2, <2>2 DEF Truck!Create
    <3>2. Truck!Free(pReq[t].building, pStageIds \ {s})
      BY <2>2 DEF Truck!Free, Truck!Taken
    <3> QED
      BY <3>1, <3>2, TruckRowWritten
  <2> QED
    BY <1>2, <2>1, <2>2 DEF Truck!Create
<1>3. ASSUME NEW t \in Clerks, Truck!Update(t) PROVE TruckStages'
  <2> DEFINE s == pReq[t].stage
             status == IF pReq[t].status = None THEN pStage[s].status ELSE pReq[t].status
             b == IF pReq[t].building = None THEN pStage[s].building ELSE pReq[t].building
             done == pStage[s].done \/ pReq[t].status = "completed"
  <2>1. CASE UNCHANGED pStage
    BY <1>1, <2>1
  <2>2. CASE ~UNCHANGED pStage
    <3>1. /\ status = "completed" \/ Truck!Free(b, pStageIds \ {s})
          /\ pStage' = [pStage EXCEPT ![s] = [building |-> b, status |-> status, done |-> done]]
      BY <1>3, <2>2 DEF Truck!Update
    <3>2. s \in pStageIds
      <4> SUFFICES ASSUME s \notin pStageIds PROVE pStage' = pStage
        BY <2>2
      <4> HIDE DEF s, status, b, done
      <4>1. pStage' = [r \in pStageIds |-> pStage[r]]
        BY <3>1 DEF TruckStages
      <4> QED
        BY <4>1 DEF TruckStages
    <3> HIDE DEF s, status, b, done
    <3> QED
      BY <3>1, <3>2, TruckRowWritten
  <2> QED
    BY <2>1, <2>2
<1>4. ASSUME NEW t \in Clerks, Truck!DeleteStage(t) PROVE TruckStages'
  <2>1. PICK s \in pStageIds : Truck!Live(s) /\ pStage' = [pStage EXCEPT ![s].status = "gone"]
    BY <1>4 DEF Truck!DeleteStage
  <2>2. pStage[s] = [building |-> pStage[s].building, status |-> pStage[s].status,
                     done |-> pStage[s].done]
    BY <2>1 DEF TruckStages, Truck!Live
  <2>3. [pStage[s] EXCEPT !.status = "gone"] =
           [building |-> pStage[s].building, status |-> "gone", done |-> pStage[s].done]
    BY <2>2
  <2>4. pStage' = [pStage EXCEPT ![s] = [building |-> pStage[s].building, status |-> "gone",
                                         done |-> pStage[s].done]]
    BY <2>1, <2>3
  <2> QED
    BY <2>4, TruckRowWritten
<1>5. ASSUME NEW t \in Clerks,
             \/ Truck!SendCreate(t) \/ Truck!SendUpdate(t) \/ Truck!SendSlot(t)
             \/ Truck!Fill(t) \/ Truck!Count(t) \/ Truck!Slot(t) \/ Truck!SendEdit(t)
             \/ Truck!Plan(t) \/ Truck!Unplan(t) \/ Truck!Unslot(t) \/ Truck!SendMove(t)
             \/ Truck!Lock(t) \/ Truck!Move(t)
      PROVE  UNCHANGED pStage
  BY <1>5, Zenon
     DEF Truck!SendCreate, Truck!SendUpdate, Truck!SendSlot, Truck!Fill, Truck!Count,
         Truck!Slot, Truck!SendEdit, Truck!Plan, Truck!Unplan, Truck!Unslot,
         Truck!SendMove, Truck!Lock, Truck!Move
<1> QED
  BY <1>1, <1>2, <1>3, <1>4, <1>5, Zenon DEF Truck!Next

LEMMA TruckStagesKept ==
    TruckStages /\ [StoreroomNext]_StoreroomVars => TruckStages'
<1> SUFFICES ASSUME TruckStages, [StoreroomNext]_StoreroomVars PROVE TruckStages'
  OBVIOUS
<1>1. CASE UNCHANGED pStage
  BY <1>1 DEF TruckStages, Truck!OneActiveStage, Truck!Active, Truck!Live
<1>2. UNCHANGED TruckPlanVars => UNCHANGED pStage
  BY DEF TruckPlanVars
<1> QED
  BY <1>1, <1>2, TruckStageStep DEF StoreroomNext, StoreroomVars

\* A building has one active stage however creations, reuses, renames, transitions
\* and deletions race: OneActiveStage (mass_staging.py, models.MassStage).
THEOREM TruckStagesAreApart == StoreroomSpec => []Truck!OneActiveStage
<1>1. StoreroomInit => TruckStages
  BY DEF StoreroomInit, Truck!Init, TruckStages, Truck!OneActiveStage, Truck!Active, Truck!Live
<1>2. TruckStages => Truck!OneActiveStage
  BY DEF TruckStages
<1> QED
  BY <1>1, <1>2, TruckStagesKept, PTL DEF StoreroomSpec

-----------------------------------------------------------------------------
(* What the shelf promises.                                                *)

\* Of a crew and an item there is one live request, one the shelf stocked is on it,
\* no restock is missed and a fulfilment logs each request once, however many
\* requests, clerks and work orders there are (material_requests.py).
THEOREM QueueIsKept == StoreroomSpec => []QueueFollowsShelf
<1>1. QueueConstantsOK
  BY QueueAssumption
<1>2. QueueIInv => QueueFollowsShelf
  BY <1>1, QueuePromised DEF QueueFollowsShelf, QueueIInv
<1> QED
  BY <1>2, QueueInvariant, PTL

\* Material taken from a stocked request closes it for good, and a work order's
\* building, once known, stays (material_requests.py, mass_staging.py).
THEOREM WritesStay == StoreroomSpec => WritesStand
<1>1. QueueConstantsOK
  BY QueueAssumption
<1>2. QueueIInv => \A t \in Clerks :
           Fulfilled!Commit(t) /\ qJob[t].req.op = "add" /\ qJob[t].req.id # None
           /\ qLogged' # qLogged => qReq'[qJob[t].req.id].status = "resolved"
  BY <1>1, QueueClosed
<1>3. StoreroomSpec => Fulfilled!AddCloses
  BY <1>2, QueueInvariant, PTL DEF Fulfilled!AddCloses
<1>4. StoreroomInit => TruckHasPlaces
  BY DEF StoreroomInit, Truck!Init, TruckHasPlaces
<1>5. TruckHasPlaces /\ [StoreroomNext]_StoreroomVars =>
         TruckHasPlaces' /\ \A w \in pOrders : pPlace[w] # None => pPlace'[w] = pPlace[w]
  BY TruckStep
<1>6. StoreroomSpec => Truck!PlaceStands
  BY <1>4, <1>5, PTL DEF StoreroomSpec, Truck!PlaceStands
<1> QED
  BY <1>3, <1>6 DEF WritesStand
=============================================================================

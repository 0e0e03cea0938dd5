-------------------------- MODULE StockRaceProofs --------------------------
(***************************************************************************)
(* For any set of threads and any quantities: the state is well typed, and *)
(* when only the endpoints that load the item under its lock are in use,   *)
(* no stock movement is lost and the materials line is the sum of its rows.*)
(***************************************************************************)
EXTENDS StockRace, FiniteSets, FiniteSetTheorems, TLAPS

\* Every operation leaves every variable in its type, whichever endpoints are
\* in use: TypeOK of StockRace.
THEOREM TypeCorrect == Spec => []TypeOK
<1> USE StockRaceAssumption DEF StockRaceAssumption
<1>1. Init => TypeOK
  BY DEF Init, TypeOK, NoLine, NoTxn, NoJob, NoCopy, Line, Txn, Job, Copy, Owner, LockFirst
<1>2. TypeOK /\ [Next]_vars => TypeOK'
  <2> SUFFICES ASSUME TypeOK, [Next]_vars PROVE TypeOK'
    OBVIOUS
  <2> USE DEF TypeOK, Line, Txn, Job, Copy, Owner, NoLine, stock
  <2>1. ASSUME NEW t \in Threads, NEW q \in Amounts, Call(t, q) PROVE TypeOK'
    BY <2>1 DEF Call, Accept, LockFirst, Materials
  <2>2. ASSUME NEW t \in Threads, NEW q \in Amounts, LoadOrder(t, q) PROVE TypeOK'
    BY <2>2 DEF LoadOrder, Accept, LockFirst, Materials, NoCopy
  <2>3. ASSUME NEW t \in Threads, NEW v \in Threads, VoidLockRow(t, v) PROVE TypeOK'
    BY <2>3 DEF VoidLockRow, Accept, LockFirst, Materials
  <2>4. ASSUME NEW t \in Threads, LockItem(t) PROVE TypeOK'
    BY <2>4 DEF LockItem
  <2>5. ASSUME NEW t \in Threads, CommitStock(t) PROVE TypeOK'
    BY <2>5 DEF CommitStock, Serving, Book, Release
  <2>6. ASSUME NEW t \in Threads, CommitDispense(t) PROVE TypeOK'
    BY <2>6 DEF CommitDispense, Serving, Book, Release, Attached
  <2>7. ASSUME NEW t \in Threads, CommitCorrect(t) PROVE TypeOK'
    BY <2>7 DEF CommitCorrect, Serving, Book, Release
  <2>8. ASSUME NEW t \in Threads, CommitVoid(t) PROVE TypeOK'
    <3>1. job[t].victim \in Threads
      BY <2>8 DEF CommitVoid, Serving
    <3>2. txn' \in [Threads -> Txn]
      BY <2>8, <3>1 DEF CommitVoid
    <3>3. booked' \in Int /\ onOrder' \in Int /\ onHand' \in Int
      BY <2>8, <3>1 DEF CommitVoid
    <3>4. line' \in Line
      BY <2>8, <3>1 DEF CommitVoid, LineAt
    <3>5. QED
      BY <2>8, <3>2, <3>3, <3>4 DEF CommitVoid, Release
  <2>9. ASSUME NEW t \in Threads, CommitAdd(t) PROVE TypeOK'
    BY <2>9 DEF CommitAdd, Serving, Book, Release, Attached
  <2>10. ASSUME NEW t \in Threads, CommitEdit(t) PROVE TypeOK'
    <3>1. EditDelta(t) \in Int /\ job[t].qty \in Int
      BY DEF EditDelta
    <3>2. txn' \in [Threads -> Txn] /\ booked' \in Int /\ onOrder' \in Int
      BY <2>10, <3>1 DEF CommitEdit, Book
    <3>3. onHand' \in Int /\ line' \in Line
      BY <2>10, <3>1 DEF CommitEdit
    <3>4. QED
      BY <2>10, <3>2, <3>3 DEF CommitEdit, Release
  <2>11. ASSUME NEW t \in Threads, CommitDelete(t) PROVE TypeOK'
    <3>1. txn' \in [Threads -> Txn]
      <4>1. ASSUME NEW v \in Threads PROVE [txn[v] EXCEPT !.state = "void"] \in Txn
        OBVIOUS
      <4>2. QED
        BY <2>11, <4>1 DEF CommitDelete, Contributors
    <3>2. booked' \in Int /\ onOrder' \in Int /\ onHand' \in Int /\ line' \in Line
      BY <2>11 DEF CommitDelete
    <3>3. itemLock' \in Owner /\ rowLock' \in [Threads -> Owner]
          /\ pc' \in [Threads -> {"idle", "loaded", "locked", "done"}]
          /\ UNCHANGED <<job, seen>>
      BY <2>11 DEF CommitDelete, Release
    <3>4. QED
      BY <3>1, <3>2, <3>3
  <2>12. ASSUME NEW t \in Threads, Refuse(t) PROVE TypeOK'
    BY <2>12 DEF Refuse, Release
  <2>13. ASSUME NEW t \in Threads, AbortDeadlock(t) PROVE TypeOK'
    BY <2>13 DEF AbortDeadlock, Release
  <2>14. CASE UNCHANGED vars
    BY <2>14 DEF vars
  <2>15. QED
    BY <2>1, <2>2, <2>3, <2>4, <2>5, <2>6, <2>7, <2>8, <2>9, <2>10, <2>11, <2>12, <2>13, <2>14
       DEF Next, Work, Commit
<1>3. QED
  BY <1>1, <1>2, PTL DEF Spec

-----------------------------------------------------------------------------
\* What a request knows while it holds locks, when every endpoint in use loads
\* the item by locking it.
OnlyLockFirst == Ops \subseteq LockFirst

CopyIsCurrent ==
    \A t \in Threads : pc[t] = "locked" => itemLock = t /\ seen[t].item = onHand
NothingCached ==
    \A t \in Threads : job[t].op \in LockFirst /\ ~seen[t].cached
VictimIsLive ==
    \A t \in Threads :
        pc[t] \in {"loaded", "locked"} /\ job[t].op = "void" =>
            /\ rowLock[job[t].victim] = t
            /\ txn[job[t].victim].state = "live"

IInv == TypeOK /\ CopyIsCurrent /\ NothingCached /\ VictimIsLive /\ NoLostUpdate

LEMMA InitIInv == Init => IInv
<1> USE StockRaceAssumption DEF StockRaceAssumption
<1>1. Init => TypeOK
  BY DEF Init, TypeOK, NoLine, NoTxn, NoJob, NoCopy, Line, Txn, Job, Copy, Owner, LockFirst
<1>2. QED
  BY <1>1 DEF Init, IInv, CopyIsCurrent, NothingCached, VictimIsLive, NoLostUpdate,
              NoJob, NoCopy, LockFirst

\* Up to the item lock nothing is written, and the lock makes the copy current.
LEMMA BeforeCommit ==
  ASSUME OnlyLockFirst, IInv, TypeOK', NEW t \in Threads,
         \/ \E q \in Amounts : Call(t, q) \/ LoadOrder(t, q)
         \/ \E v \in Threads : VoidLockRow(t, v)
         \/ LockItem(t)
  PROVE  IInv'
<1> USE StockRaceAssumption DEF StockRaceAssumption, IInv, OnlyLockFirst, NoLostUpdate, stock
<1>1. ASSUME NEW q \in Amounts, Call(t, q) PROVE IInv'
  BY <1>1 DEF Call, Accept, TypeOK, CopyIsCurrent, NothingCached, VictimIsLive, LockFirst, Job, Copy
<1>2. ASSUME NEW q \in Amounts, LoadOrder(t, q) PROVE IInv'
  BY <1>2 DEF LoadOrder, Accept, LockFirst, Materials
<1>3. ASSUME NEW v \in Threads, VoidLockRow(t, v) PROVE IInv'
  BY <1>3 DEF VoidLockRow, Accept, TypeOK, CopyIsCurrent, NothingCached, VictimIsLive, LockFirst, Job, Copy, Owner
<1>4. ASSUME LockItem(t) PROVE IInv'
  BY <1>4 DEF LockItem, TypeOK, CopyIsCurrent, NothingCached, VictimIsLive, Copy, Owner
<1>5. QED
  BY <1>1, <1>2, <1>3, <1>4

\* The end of a request leaves the other requests' locks and copies alone.
LEMMA ReleaseKeeps ==
  ASSUME IInv, TypeOK', NEW t \in Threads, Release(t),
         onHand' = onHand \/ itemLock = t,
         \A u \in Threads : pc[u] \in {"loaded", "locked"} /\ job[u].op = "void" /\ u # t
             => txn'[job[u].victim].state = "live"
  PROVE  CopyIsCurrent' /\ NothingCached' /\ VictimIsLive'
<1> USE DEF IInv, Release, TypeOK
<1>1. CopyIsCurrent'
  BY DEF CopyIsCurrent
<1>2. NothingCached'
  BY DEF NothingCached
<1>3. VictimIsLive'
  BY DEF VictimIsLive
<1>4. QED
  BY <1>1, <1>2, <1>3

\* A committing request writes what its copy, the current count, and the row it
\* books say: the count and the ledger move together.
LEMMA AtCommit ==
  ASSUME OnlyLockFirst, IInv, TypeOK', NEW t \in Threads, Commit(t)
  PROVE  IInv'
<1> USE StockRaceAssumption DEF StockRaceAssumption, IInv, OnlyLockFirst, TypeOK
<1> job[t].op \in LockFirst
  BY DEF NothingCached
<1>1. CASE CommitStock(t)
  <2>1. NoLostUpdate'
    BY <1>1 DEF CommitStock, Serving, Book, CopyIsCurrent, NoLostUpdate, Job
  <2>2. CopyIsCurrent' /\ NothingCached' /\ VictimIsLive'
    BY <1>1, ReleaseKeeps DEF CommitStock, Serving, Book, CopyIsCurrent, VictimIsLive, Txn
  <2>3. QED
    BY <2>1, <2>2
<1>2. CASE CommitDispense(t)
  <2>1. NoLostUpdate'
    BY <1>2 DEF CommitDispense, Serving, Book, CopyIsCurrent, NoLostUpdate, Job
  <2>2. CopyIsCurrent' /\ NothingCached' /\ VictimIsLive'
    BY <1>2, ReleaseKeeps DEF CommitDispense, Serving, Book, CopyIsCurrent, VictimIsLive, Txn
  <2>3. QED
    BY <2>1, <2>2
<1>3. CASE CommitCorrect(t)
  <2>1. NoLostUpdate'
    BY <1>3 DEF CommitCorrect, Serving, Book, CopyIsCurrent, NoLostUpdate, Job
  <2>2. CopyIsCurrent' /\ NothingCached' /\ VictimIsLive'
    BY <1>3, ReleaseKeeps DEF CommitCorrect, Serving, Book, CopyIsCurrent, VictimIsLive, Txn
  <2>3. QED
    BY <2>1, <2>2
<1>4. CASE CommitVoid(t)
  <2>1. /\ job[t].victim \in Threads /\ rowLock[job[t].victim] = t
        /\ txn[job[t].victim].state = "live"
        /\ seen[t].item = onHand /\ itemLock = t
    BY <1>4 DEF CommitVoid, Serving, CopyIsCurrent, VictimIsLive
  <2>2. NoLostUpdate'
    BY <1>4, <2>1 DEF CommitVoid, NoLostUpdate, Txn
  <2>3. ASSUME NEW u \in Threads, pc[u] \in {"loaded", "locked"}, job[u].op = "void", u # t
        PROVE  txn'[job[u].victim].state = "live"
    BY <1>4, <2>1, <2>3 DEF CommitVoid, VictimIsLive
  <2>4. CopyIsCurrent' /\ NothingCached' /\ VictimIsLive'
    BY <1>4, <2>1, <2>3, ReleaseKeeps DEF CommitVoid
  <2>5. QED
    BY <2>2, <2>4
<1>5. QED
  BY <1>1, <1>2, <1>3, <1>4
     DEF Commit, CommitAdd, CommitEdit, CommitDelete, Serving, LockFirst

LEMMA Invariant == OnlyLockFirst => (Spec => []IInv)
<1> SUFFICES ASSUME OnlyLockFirst PROVE Spec => []IInv
  OBVIOUS
<1>1. Init => IInv
  BY InitIInv
<1>2. IInv /\ TypeOK' /\ [Next]_vars => IInv'
  <2> SUFFICES ASSUME IInv, TypeOK', [Next]_vars PROVE IInv'
    OBVIOUS
  <2>1. ASSUME NEW t \in Threads, Refuse(t) \/ AbortDeadlock(t) PROVE IInv'
    <3>1. Release(t) /\ UNCHANGED stock
      BY <2>1 DEF Refuse, AbortDeadlock
    <3>2. CopyIsCurrent' /\ NothingCached' /\ VictimIsLive'
      BY <3>1, ReleaseKeeps DEF IInv, VictimIsLive, stock
    <3>3. QED
      BY <3>1, <3>2 DEF IInv, NoLostUpdate, stock
  <2>2. CASE UNCHANGED vars
    BY <2>2 DEF IInv, TypeOK, CopyIsCurrent, NothingCached, VictimIsLive, NoLostUpdate, vars
  <2>3. QED
    BY <2>1, <2>2, BeforeCommit, AtCommit DEF Next, Work
<1>3. QED
  BY <1>1, <1>2, TypeCorrect, PTL DEF Spec

\* No lost update: while only Scan / Stock, Correct Count and Void are in use,
\* the on-hand count is the opening count plus the live transactions rows, for
\* any number of concurrent requests (services/transactions.py).
THEOREM NoUpdateLost == OnlyLockFirst => (Spec => []NoLostUpdate)
<1>1. IInv => NoLostUpdate
  BY DEF IInv
<1>2. QED
  BY <1>1, Invariant, PTL

-----------------------------------------------------------------------------
\* The materials line.  The live rows linked to the order are dispenses, of one
\* unit or more; the units they stand for, one by one, are a finite set as large
\* as the line's quantity.

Linked(v) == txn[v].state = "live" /\ txn[v].linked

Units == {u \in Threads \X Int :
             Linked(u[1]) /\ 1 <= u[2] /\ u[2] <= -txn[u[1]].effect}
UnitsOf(v, n) == {v} \X (1 .. n)

RowIsFresh == \A t \in Threads : pc[t] # "done" => txn[t].state = "none"
Positive ==
    /\ \A v \in Threads : Linked(v) => txn[v].effect < 0
    /\ \A t \in Threads : pc[t] # "idle" /\ job[t].op = "dispense" => job[t].qty > 0

AInv == /\ RowIsFresh /\ Positive
        /\ IsFiniteSet(Units) /\ onOrder = -Cardinality(Units)
        /\ LineIsAggregate

\* A row of n units stands for n of them.
LEMMA UnitsCount ==
  ASSUME NEW v, NEW n \in Nat
  PROVE  IsFiniteSet(UnitsOf(v, n)) /\ Cardinality(UnitsOf(v, n)) = n
<1>1. IsFiniteSet({v}) /\ Cardinality({v}) = 1
  BY FS_Singleton
<1>2. IsFiniteSet(1 .. n) /\ Cardinality(1 .. n) = n
  BY FS_Interval
<1>3. /\ IsFiniteSet({v} \X (1 .. n))
      /\ Cardinality({v} \X (1 .. n)) = Cardinality({v}) * Cardinality(1 .. n)
  BY <1>1, <1>2, FS_Product, Zenon
<1>4. QED
  BY <1>1, <1>2, <1>3 DEF UnitsOf

\* Of a request that books nothing on the order only its place is new.
LEMMA OffTheOrder ==
  ASSUME TypeOK, TypeOK', AInv, UNCHANGED <<line, onOrder>>, RowIsFresh', Positive',
         \A v \in Threads : Linked(v)' <=> Linked(v),
         \A v \in Threads : Linked(v) => txn'[v].effect = txn[v].effect
  PROVE  AInv'
<1>1. Units' = Units
  BY DEF Units
<1>2. QED
  BY <1>1 DEF AInv, LineIsAggregate

\* A dispense adds its units to the order's and to the line.
LEMMA OnTheOrder ==
  ASSUME OnlyLockFirst, IInv, TypeOK', AInv, NEW t \in Threads, CommitDispense(t)
  PROVE  AInv'
<1> USE DEF IInv, TypeOK
<1> DEFINE n == job[t].qty
<1>1. n \in Nat /\ n > 0 /\ ~Linked(t) /\ pc[t] = "locked"
  BY DEF CommitDispense, Serving, AInv, RowIsFresh, Positive, Linked, Job
<1>2. /\ txn'[t] = [state |-> "live", kind |-> "dispense", effect |-> -n, linked |-> TRUE]
      /\ \A v \in Threads : v # t => txn'[v] = txn[v]
      /\ onOrder' = onOrder - n
  BY <1>1 DEF CommitDispense, Book
<1>3. Linked(t)' /\ \A v \in Threads : v # t => (Linked(v)' <=> Linked(v))
  BY <1>2 DEF Linked
<1>4. Units' = Units \cup UnitsOf(t, n)
  BY <1>1, <1>2, <1>3 DEF Units, UnitsOf
<1>5. Units \cap UnitsOf(t, n) = {}
  BY <1>1 DEF Units, UnitsOf
<1>6. IsFiniteSet(Units') /\ Cardinality(Units') = Cardinality(Units) + n
  <2>1. IsFiniteSet(UnitsOf(t, n)) /\ Cardinality(UnitsOf(t, n)) = n
    BY <1>1, UnitsCount
  <2>2. IsFiniteSet(Units) /\ Cardinality(Units) \in Nat
    BY FS_CardinalityType DEF AInv
  <2>3. /\ IsFiniteSet(Units \cup UnitsOf(t, n))
        /\ Cardinality(Units \cup UnitsOf(t, n)) =
              Cardinality(Units) + Cardinality(UnitsOf(t, n)) - Cardinality(Units \cap UnitsOf(t, n))
    BY <2>1, <2>2, FS_Union, Zenon
  <2>4. Cardinality(Units \cap UnitsOf(t, n)) = 0
    BY <1>5, FS_EmptySet, Zenon
  <2>5. QED
    BY <1>1, <1>4, <2>1, <2>2, <2>3, <2>4
<1>7. line'.qty = line.qty + n
  BY <1>1 DEF CommitDispense, Attached, NothingCached, NoLine, Line
<1>8. onOrder' = -Cardinality(Units')
  <2>1. onOrder = -Cardinality(Units) /\ Cardinality(Units) \in Nat
    BY FS_CardinalityType DEF AInv
  <2>2. QED
    BY <1>1, <1>2, <1>6, <2>1
<1>9. LineIsAggregate'
  BY <1>1, <1>2, <1>7 DEF AInv, LineIsAggregate, Line
<1>10. RowIsFresh' /\ Positive'
  <2>1. pc' = [pc EXCEPT ![t] = "done"] /\ job' = job
    BY DEF CommitDispense, Release
  <2>2. RowIsFresh'
    BY <1>2, <2>1 DEF AInv, RowIsFresh
  <2>3. Positive'
    BY <1>1, <1>2, <1>3, <2>1 DEF AInv, Positive
  <2>4. QED
    BY <2>2, <2>3
<1>11. QED
  BY <1>6, <1>8, <1>9, <1>10 DEF AInv

\* Voiding a dispense takes its units off both, and there were that many.
LEMMA OffTheLine ==
  ASSUME OnlyLockFirst, IInv, TypeOK', AInv, NEW t \in Threads, CommitVoid(t),
         NEW v \in Threads, v = job[t].victim, Linked(v)
  PROVE  AInv'
<1> USE DEF IInv, TypeOK
<1> DEFINE n == -txn[v].effect
<1>1. txn[v].state = "live" /\ txn[v].linked /\ pc[t] = "locked"
  BY DEF CommitVoid, Serving, Linked
<1>2. n \in Nat /\ n > 0 /\ txn[v].effect = -n
  <2>1. txn[v].effect < 0
    BY DEF AInv, Positive
  <2>2. txn[v].effect \in Int
    BY DEF Txn
  <2>3. QED
    BY <2>1, <2>2
<1>3. /\ txn' = [txn EXCEPT ![v].state = "void"] /\ onOrder' = onOrder + n
      /\ line' = IF line # NoLine THEN LineAt(line.qty - n) ELSE line
  BY <1>1, <1>2 DEF CommitVoid, Line
<1>4. /\ ~Linked(v)'
      /\ \A x \in Threads : x # v => (Linked(x)' <=> Linked(x)) /\ txn'[x] = txn[x]
  BY <1>1, <1>3 DEF Linked, Txn
<1>5. Units' = Units \ UnitsOf(v, n)
  <2>1. ASSUME NEW e \in Units' PROVE e \in Units \ UnitsOf(v, n)
    BY <1>4, <2>1 DEF Units, UnitsOf
  <2>2. ASSUME NEW e \in Units, e \notin UnitsOf(v, n) PROVE e \in Units'
    <3>1. e[1] # v
      BY <1>1, <1>2, <2>2 DEF Units, UnitsOf
    <3>2. QED
      BY <1>4, <2>2, <3>1 DEF Units
  <2>3. QED
    BY <2>1, <2>2
<1>6. Units \cap UnitsOf(v, n) = UnitsOf(v, n)
  BY <1>1, <1>2 DEF Units, UnitsOf, Linked
<1>7. /\ IsFiniteSet(Units') /\ Cardinality(Units') = Cardinality(Units) - n
      /\ Cardinality(Units') \in Nat
  <2>1. IsFiniteSet(UnitsOf(v, n)) /\ Cardinality(UnitsOf(v, n)) = n
    BY <1>2, UnitsCount
  <2>2. IsFiniteSet(Units)
    BY DEF AInv
  <2>3. /\ IsFiniteSet(Units \ UnitsOf(v, n))
        /\ Cardinality(Units \ UnitsOf(v, n)) =
              Cardinality(Units) - Cardinality(Units \cap UnitsOf(v, n))
    BY <2>2, FS_Difference, Zenon
  <2>4. IsFiniteSet(Units')
    BY <1>5, <2>3
  <2>5. Cardinality(Units') \in Nat
    BY <2>4, FS_CardinalityType
  <2>6. QED
    BY <1>5, <1>6, <2>1, <2>3, <2>4, <2>5
<1>8. Cardinality(Units) \in Nat /\ onOrder = -Cardinality(Units) /\ line.qty = Cardinality(Units)
  BY FS_CardinalityType DEF AInv, LineIsAggregate, Line
<1>9. onOrder' = -Cardinality(Units')
  BY <1>2, <1>3, <1>7, <1>8
<1>10. LineIsAggregate'
  <2>1. line # NoLine
    BY <1>2, <1>7, <1>8 DEF NoLine
  <2>2. line.qty - n >= 0 /\ line.qty - n = -onOrder'
    BY <1>2, <1>3, <1>7, <1>8
  <2>3. line'.qty = line.qty - n
    BY <1>2, <1>3, <2>1, <2>2 DEF LineAt, NoLine, Line
  <2>4. QED
    BY <2>2, <2>3 DEF LineIsAggregate
<1>11. RowIsFresh' /\ Positive'
  <2>1. pc' = [pc EXCEPT ![t] = "done"] /\ job' = job
    BY DEF CommitVoid, Release
  <2>2. RowIsFresh'
    <3>1. pc[v] = "done"
      BY <1>1 DEF AInv, RowIsFresh
    <3>2. QED
      BY <1>4, <2>1, <3>1 DEF AInv, RowIsFresh
  <2>3. Positive'
    <3>1. \A x \in Threads : Linked(x)' => Linked(x) /\ txn'[x] = txn[x]
      BY <1>4
    <3>2. \A x \in Threads : pc'[x] # "idle" => pc[x] # "idle"
      BY <1>1, <2>1
    <3>3. QED
      BY <2>1, <3>1, <3>2 DEF AInv, Positive
  <2>4. QED
    BY <2>2, <2>3
<1>12. QED
  BY <1>7, <1>9, <1>10, <1>11 DEF AInv

\* Every other step, and the theorem.
LEMMA AggregateStep ==
  ASSUME OnlyLockFirst, IInv, TypeOK', AInv, [Next]_vars
  PROVE  AInv'
<1> USE StockRaceAssumption DEF StockRaceAssumption, IInv, OnlyLockFirst
<1>1. ASSUME NEW t \in Threads, NEW q \in Amounts, Call(t, q) PROVE AInv'
  <2>1. UNCHANGED <<line, onOrder, txn>> /\ pc[t] = "idle" /\ pc' = [pc EXCEPT ![t] = "loaded"]
    BY <1>1 DEF Call, Accept, stock
  <2>2. q > 0 /\ \E o \in LockFirst : job' = [job EXCEPT ![t] = [op |-> o, qty |-> q, victim |-> NoThread]]
    <3>1. q > 0
      OBVIOUS
    <3>2. QED
      BY <1>1, <3>1 DEF Call, Accept, LockFirst
  <2>3. RowIsFresh' /\ Positive'
    BY <2>1, <2>2 DEF TypeOK, AInv, RowIsFresh, Positive, Linked
  <2>4. QED
    BY <2>1, <2>3, OffTheOrder DEF Linked
<1>2. ASSUME NEW t \in Threads, NEW q \in Amounts, LoadOrder(t, q) PROVE FALSE
  BY <1>2 DEF LoadOrder, Accept, LockFirst, Materials
<1>3. ASSUME NEW t \in Threads, NEW v \in Threads, VoidLockRow(t, v) PROVE AInv'
  <2>1. UNCHANGED <<line, onOrder, txn>> /\ pc[t] = "idle" /\ pc' = [pc EXCEPT ![t] = "loaded"]
        /\ job' = [job EXCEPT ![t] = [op |-> "void", qty |-> 0, victim |-> v]]
    BY <1>3 DEF VoidLockRow, Accept, stock
  <2>2. RowIsFresh' /\ Positive'
    BY <2>1 DEF TypeOK, AInv, RowIsFresh, Positive, Linked
  <2>3. QED
    BY <2>1, <2>2, OffTheOrder DEF Linked
<1>4. ASSUME NEW t \in Threads, LockItem(t) \/ Refuse(t) \/ AbortDeadlock(t) PROVE AInv'
  <2>1. UNCHANGED <<line, onOrder, txn, job>> /\ \E s \in {"locked", "done"} : pc' = [pc EXCEPT ![t] = s]
    BY <1>4 DEF LockItem, Refuse, AbortDeadlock, Release, stock
  <2>2. pc[t] \in {"loaded", "locked"}
    BY <1>4 DEF LockItem, Refuse, AbortDeadlock, Deadlocked, Serving
  <2>3. RowIsFresh' /\ Positive'
    <3>1. \A u \in Threads : /\ pc'[u] # "done" => pc[u] # "done"
                             /\ pc'[u] # "idle" => pc[u] # "idle"
      BY <2>1, <2>2 DEF TypeOK
    <3>2. QED
      BY <2>1, <3>1 DEF AInv, RowIsFresh, Positive, Linked
  <2>4. QED
    BY <2>1, <2>3, OffTheOrder DEF Linked
<1>5. ASSUME NEW t \in Threads, CommitStock(t) \/ CommitCorrect(t) PROVE AInv'
  <2>1. /\ UNCHANGED <<line, onOrder, job>> /\ pc[t] = "locked" /\ pc' = [pc EXCEPT ![t] = "done"]
        /\ ~txn'[t].linked /\ \A v \in Threads : v # t => txn'[v] = txn[v]
    BY <1>5 DEF CommitStock, CommitCorrect, Serving, Book, Release, TypeOK
  <2>2. ~Linked(t) /\ ~Linked(t)' /\ \A v \in Threads : v # t => (Linked(v)' <=> Linked(v))
    BY <2>1 DEF Linked, AInv, RowIsFresh
  <2>3. RowIsFresh' /\ Positive'
    BY <2>1, <2>2 DEF AInv, RowIsFresh, Positive, TypeOK
  <2>4. QED
    BY <2>1, <2>2, <2>3, OffTheOrder
<1>6. ASSUME NEW t \in Threads, CommitVoid(t), NEW v \in Threads, v = job[t].victim, ~Linked(v)
      PROVE  AInv'
  <2>1. txn[v].state = "live" /\ ~txn[v].linked /\ pc[t] = "locked"
    BY <1>6 DEF CommitVoid, Serving, VictimIsLive, TypeOK, Linked
  <2>2. /\ UNCHANGED <<line, onOrder, job>> /\ pc' = [pc EXCEPT ![t] = "done"]
        /\ txn' = [txn EXCEPT ![v].state = "void"]
    BY <1>6, <2>1 DEF CommitVoid, Release
  <2>3. ~Linked(v)' /\ \A x \in Threads : x # v => (Linked(x)' <=> Linked(x)) /\ txn'[x] = txn[x]
    BY <2>1, <2>2 DEF Linked, TypeOK
  <2>4. RowIsFresh' /\ Positive'
    <3>1. pc[v] = "done" /\ \A x \in Threads : /\ pc'[x] # "done" => pc[x] # "done"
                                              /\ pc'[x] # "idle" => pc[x] # "idle"
      BY <2>1, <2>2 DEF AInv, RowIsFresh, TypeOK
    <3>2. QED
      BY <2>2, <2>3, <3>1 DEF AInv, RowIsFresh, Positive
  <2>5. QED
    BY <2>1, <2>2, <2>3, <2>4, OffTheOrder DEF Linked
<1>7. CASE UNCHANGED vars
  BY <1>7, OffTheOrder DEF vars, Linked, AInv, RowIsFresh, Positive
<1>8. ASSUME NEW t \in Threads, CommitAdd(t) \/ CommitEdit(t) \/ CommitDelete(t) PROVE FALSE
  BY <1>8 DEF CommitAdd, CommitEdit, CommitDelete, Serving, NothingCached, LockFirst
<1>9. ASSUME NEW t \in Threads, CommitVoid(t) PROVE AInv'
  <2>1. job[t].victim \in Threads
    BY <1>9 DEF CommitVoid, Serving, TypeOK
  <2>2. QED
    BY <1>6, <1>9, <2>1, OffTheLine
<1>10. QED
  BY <1>1, <1>2, <1>3, <1>4, <1>5, <1>7, <1>8, <1>9, OnTheOrder DEF Next, Work, Commit

\* While only Scan / Stock, Correct Count and Void are in use, the order's
\* materials line is the sum of its live dispenses, whatever dispenses and voids
\* cross: LineIsAggregate of StockRace.
THEOREM LineFollowsRows == OnlyLockFirst => (Spec => []LineIsAggregate)
<1> SUFFICES ASSUME OnlyLockFirst PROVE Spec => []LineIsAggregate
  OBVIOUS
<1>1. Init => AInv
  <2> SUFFICES ASSUME Init PROVE AInv
    OBVIOUS
  <2>1. Units = {}
    BY DEF Init, Units, Linked, NoTxn
  <2>2. IsFiniteSet(Units) /\ Cardinality(Units) = 0
    BY <2>1, FS_EmptySet
  <2>3. RowIsFresh /\ Positive
    BY DEF Init, RowIsFresh, Positive, Linked, NoTxn
  <2>4. onOrder = 0 /\ line.qty = 0
    BY DEF Init, NoLine
  <2>5. onOrder = -Cardinality(Units) /\ line.qty = -onOrder
    <3>1. \A i \in Int : -i = 0 - i
      OBVIOUS
    <3>2. onOrder \in Int /\ Cardinality(Units) \in Int
      BY <2>2, <2>4
    <3>3. -onOrder = 0 - onOrder /\ -Cardinality(Units) = 0 - Cardinality(Units)
      BY <3>1, <3>2, Zenon
    <3>4. 0 - onOrder = 0 /\ 0 - Cardinality(Units) = 0
      BY <2>2, <2>4
    <3>5. QED
      BY <2>2, <2>4, <3>3, <3>4, Zenon
  <2>6. QED
    BY <2>2, <2>3, <2>5 DEF AInv, LineIsAggregate
<1>2. IInv /\ TypeOK' /\ AInv /\ [Next]_vars => AInv'
  BY AggregateStep
<1>3. AInv => LineIsAggregate
  BY DEF AInv
<1>4. Spec => []IInv
  BY Invariant
<1>5. QED
  BY <1>1, <1>2, <1>3, <1>4, TypeCorrect, PTL DEF Spec
=============================================================================

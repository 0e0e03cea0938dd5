----------------------------- MODULE StockRace -----------------------------
(***************************************************************************)
(* The stock-moving requests of one inventory item, as the database sees   *)
(* them: several server threads, each serving one request in one           *)
(* PostgreSQL transaction at READ COMMITTED, with SELECT ... FOR UPDATE    *)
(* locks on the item row and on the transactions row being voided.         *)
(*                                                                         *)
(* Every service writes an absolute quantity computed from the copy of the *)
(* item row its ORM session holds.  Scan / Stock, Correct Count and Void   *)
(* first load the row with the statement that locks it.  The three         *)
(* materials routes of a work order load the order, its lines and their    *)
(* items BEFORE they lock the item, and the session keeps the copy it has  *)
(* when the locking statement returns the row again (no populate_existing),*)
(* so that copy may be older than the lock.                                *)
(*                                                                         *)
(* A thread serves at most one request and a request writes at most one    *)
(* transactions row, so a thread also names the row it wrote.              *)
(***************************************************************************)
EXTENDS Integers

CONSTANTS Threads,      \* server threads, one request each
          NoThread,     \* the owner of a free row lock, the id of no row
          Ops,          \* the endpoints in use
          Amounts,      \* the quantities a request may carry
          Opening       \* the on-hand count before the first request

LockFirst == {"stock", "dispense", "correct", "void"}
Materials == {"add", "edit", "delete"}

ASSUME StockRaceAssumption ==
    /\ NoThread \notin Threads
    /\ Ops \subseteq LockFirst \cup Materials
    /\ Amounts \subseteq Nat \ {0}
    /\ Opening \in Int

VARIABLES
    onHand,     \* items.quantity
    line,       \* the (work order, item) materials line: its row id and quantity
    txn,        \* transactions rows, by the thread that wrote each
    booked,     \* history: the sum of the effects of the live rows of txn
    onOrder,    \* history: the part of booked linked to the work order
    itemLock,   \* who holds the item row
    rowLock,    \* who holds each transactions row
    pc,         \* how far each thread's request has come
    job,        \* the request: endpoint, quantity, row to void
    seen        \* the session's copies of the item and line rows

vars == <<onHand, line, txn, booked, onOrder, itemLock, rowLock, pc, job, seen>>
stock == <<onHand, line, txn, booked, onOrder>>

Owner == Threads \cup {NoThread}
NoLine == [row |-> NoThread, qty |-> 0]
NoTxn == [state |-> "none", kind |-> "stock", effect |-> 0, linked |-> FALSE]
NoJob == [op |-> "stock", qty |-> 0, victim |-> NoThread]
NoCopy == [cached |-> FALSE, item |-> 0, line |-> NoLine]

Line == [row : Owner, qty : Int]
Txn == [state : {"none", "live", "void"}, kind : {"stock", "dispense", "adjust"},
        effect : Int, linked : BOOLEAN]
Job == [op : LockFirst \cup Materials, qty : Nat, victim : Owner]
Copy == [cached : BOOLEAN, item : Int, line : Line]

TypeOK ==
    /\ onHand \in Int /\ booked \in Int /\ onOrder \in Int
    /\ line \in Line
    /\ txn \in [Threads -> Txn]
    /\ itemLock \in Owner
    /\ rowLock \in [Threads -> Owner]
    /\ pc \in [Threads -> {"idle", "loaded", "locked", "done"}]
    /\ job \in [Threads -> Job]
    /\ seen \in [Threads -> Copy]
    /\ \A t \in Threads : job[t].op = "void" => job[t].victim \in Threads

Init ==
    /\ onHand = Opening /\ line = NoLine
    /\ txn = [t \in Threads |-> NoTxn]
    /\ booked = 0 /\ onOrder = 0
    /\ itemLock = NoThread
    /\ rowLock = [t \in Threads |-> NoThread]
    /\ pc = [t \in Threads |-> "idle"]
    /\ job = [t \in Threads |-> NoJob]
    /\ seen = [t \in Threads |-> NoCopy]

-----------------------------------------------------------------------------
\* Up to the item lock.

Accept(t, o, q, v) ==
    /\ pc[t] = "idle" /\ o \in Ops
    /\ pc' = [pc EXCEPT ![t] = "loaded"]
    /\ job' = [job EXCEPT ![t] = [op |-> o, qty |-> q, victim |-> v]]

\* Scan / Stock and Correct Count load nothing before the locking statement.
Call(t, q) ==
    /\ \E o \in {"stock", "dispense", "correct"} : Accept(t, o, q, NoThread)
    /\ UNCHANGED <<stock, itemLock, rowLock, seen>>

\* Void locks the transactions row and reads it under that lock: a row that is
\* not live any more is "not found", and the request is over.
VoidLockRow(t, v) ==
    /\ rowLock[v] = NoThread
    /\ txn[v].state = "live"
    /\ Accept(t, "void", 0, v)
    /\ rowLock' = [rowLock EXCEPT ![v] = t]
    /\ UNCHANGED <<stock, itemLock, seen>>

\* The materials routes load the work order with its lines and their items.
\* Editing or deleting needs the line; adding finds the item cached only when
\* the order already has a line for it.
LoadOrder(t, q) ==
    /\ \E o \in Materials :
          /\ o # "add" => line # NoLine
          /\ Accept(t, o, q, NoThread)
    /\ seen' = [seen EXCEPT ![t] = IF line = NoLine THEN NoCopy
                                   ELSE [cached |-> TRUE, item |-> onHand, line |-> line]]
    /\ UNCHANGED <<stock, itemLock, rowLock>>

\* Seeded fault: the item is loaded without FOR UPDATE.
LockItem_NoLock(t) ==
    /\ pc[t] = "loaded"
    /\ pc' = [pc EXCEPT ![t] = "locked"]
    /\ seen' = IF seen[t].cached THEN seen ELSE [seen EXCEPT ![t].item = onHand]
    /\ UNCHANGED <<stock, itemLock, rowLock, job>>

\* SELECT ... FOR UPDATE on the item row fills the copy only if there is none.
LockItem(t) ==
    /\ pc[t] = "loaded" /\ itemLock = NoThread
    /\ itemLock' = t
    /\ pc' = [pc EXCEPT ![t] = "locked"]
    /\ seen' = IF seen[t].cached THEN seen ELSE [seen EXCEPT ![t].item = onHand]
    /\ UNCHANGED <<stock, rowLock, job>>

-----------------------------------------------------------------------------
\* Under the item lock: compute, write, commit.

\* The end of a request, by commit or rollback: its row locks go.
Release(t) ==
    /\ pc' = [pc EXCEPT ![t] = "done"]
    /\ itemLock' = IF itemLock = t THEN NoThread ELSE itemLock
    /\ rowLock' = [v \in Threads |-> IF rowLock[v] = t THEN NoThread ELSE rowLock[v]]
    /\ UNCHANGED <<job, seen>>

Serving(t, o) == pc[t] = "locked" /\ job[t].op = o

\* Append a live transactions row; booked and onOrder follow it.
Book(t, kind, effect, linked) ==
    /\ txn' = [txn EXCEPT ![t] = [state |-> "live", kind |-> kind,
                                  effect |-> effect, linked |-> linked]]
    /\ booked' = booked + effect
    /\ onOrder' = IF linked THEN onOrder + effect ELSE onOrder

\* Seeded fault: a line is clipped at one instead of dropping out.
LineAt_KeepsOne(q) == IF q <= 0 THEN [line EXCEPT !.qty = 1] ELSE [line EXCEPT !.qty = q]

\* A line walked to quantity q drops out at zero or below.
LineAt(q) == IF q <= 0 THEN NoLine ELSE [line EXCEPT !.qty = q]

\* attach_dispense_line: find the order's line for the item and add q to the
\* copy the session holds of that row, or to the row itself, or insert a line.
Attached(t, q) ==
    IF line = NoLine THEN [row |-> t, qty |-> q]
    ELSE IF seen[t].cached /\ seen[t].line.row = line.row
         THEN [line EXCEPT !.qty = seen[t].line.qty + q]
         ELSE [line EXCEPT !.qty = line.qty + q]

CommitStock(t) ==
    /\ Serving(t, "stock")
    /\ onHand' = seen[t].item + job[t].qty
    /\ Book(t, "stock", job[t].qty, FALSE)
    /\ UNCHANGED line
    /\ Release(t)

\* Scan / Stock against the work order; it may take the count below zero.
CommitDispense(t) ==
    /\ Serving(t, "dispense")
    /\ onHand' = seen[t].item - job[t].qty
    /\ Book(t, "dispense", -job[t].qty, TRUE)
    /\ line' = Attached(t, job[t].qty)
    /\ Release(t)

\* Seeded fault: the correction is written under a type History does not know.
CommitCorrect_NewType(t) ==
    /\ Serving(t, "correct")
    /\ job[t].qty # seen[t].item
    /\ onHand' = job[t].qty
    /\ Book(t, "correction", job[t].qty - seen[t].item, FALSE)
    /\ UNCHANGED line
    /\ Release(t)

\* Correct Count: the absolute count is given, the difference is booked.
CommitCorrect(t) ==
    /\ Serving(t, "correct")
    /\ job[t].qty # seen[t].item
    /\ onHand' = job[t].qty
    /\ Book(t, "adjust", job[t].qty - seen[t].item, FALSE)
    /\ UNCHANGED line
    /\ Release(t)

\* Void reverses the row's effect and walks the order's line back.
VoidOverdrawn(t) ==
    LET v == txn[job[t].victim]
    IN  v.kind # "dispense" /\ seen[t].item - v.effect < 0

CommitVoid(t) ==
    LET v == job[t].victim
    IN  /\ Serving(t, "void")
        /\ ~VoidOverdrawn(t)
        /\ onHand' = seen[t].item - txn[v].effect
        /\ txn' = [txn EXCEPT ![v].state = "void"]
        /\ booked' = IF txn[v].state = "live" THEN booked - txn[v].effect ELSE booked
        /\ onOrder' = IF txn[v].state = "live" /\ txn[v].linked
                      THEN onOrder - txn[v].effect ELSE onOrder
        /\ line' = IF txn[v].linked /\ line # NoLine
                   THEN LineAt(line.qty + txn[v].effect) ELSE line
        /\ Release(t)

CommitAdd(t) ==
    /\ Serving(t, "add")
    /\ onHand' = seen[t].item - job[t].qty
    /\ Book(t, "dispense", -job[t].qty, TRUE)
    /\ line' = Attached(t, job[t].qty)
    /\ Release(t)

\* Edit sets the line's total; the difference with the copy of the line is put
\* back to stock and booked.  Writing a line whose row has gone fails the flush.
EditDelta(t) == seen[t].line.qty - job[t].qty
EditRefused(t) ==
    \/ EditDelta(t) = 0
    \/ seen[t].item + EditDelta(t) < 0
    \/ line.row # seen[t].line.row

CommitEdit(t) ==
    /\ Serving(t, "edit")
    /\ ~EditRefused(t)
    /\ onHand' = seen[t].item + EditDelta(t)
    /\ Book(t, "adjust", EditDelta(t), TRUE)
    /\ line' = [line EXCEPT !.qty = job[t].qty]
    /\ Release(t)

\* Delete returns the copy's quantity and voids every live row of the order,
\* whose row locks it needs.
Contributors == {v \in Threads : txn[v].state = "live" /\ txn[v].linked}

CommitDelete(t) ==
    /\ Serving(t, "delete")
    /\ \A v \in Contributors : rowLock[v] = NoThread
    /\ onHand' = seen[t].item + seen[t].line.qty
    /\ txn' = [v \in Threads |-> IF v \in Contributors THEN [txn[v] EXCEPT !.state = "void"]
                                 ELSE txn[v]]
    /\ booked' = booked - onOrder
    /\ onOrder' = 0
    /\ line' = IF line.row = seen[t].line.row THEN NoLine ELSE line
    /\ Release(t)

\* Seeded fault: a refused request keeps its session open, and with it its locks.
Refuse_KeepsLocks(t) ==
    /\ \/ Serving(t, "correct") /\ job[t].qty = seen[t].item
       \/ Serving(t, "void") /\ VoidOverdrawn(t)
       \/ Serving(t, "edit") /\ EditRefused(t)
    /\ pc' = [pc EXCEPT ![t] = "done"]
    /\ UNCHANGED <<stock, itemLock, rowLock, job, seen>>

\* A refused request rolls back: no change to a count already there, a reversal
\* or an edit that would go below zero, a line whose row has gone.
Refuse(t) ==
    /\ \/ Serving(t, "correct") /\ job[t].qty = seen[t].item
       \/ Serving(t, "void") /\ VoidOverdrawn(t)
       \/ Serving(t, "edit") /\ EditRefused(t)
    /\ UNCHANGED stock
    /\ Release(t)

\* A delete that holds the item and wants a transactions row, against a void
\* that holds the row and wants the item: the database aborts one of the two.
Deadlocked(t, u) ==
    /\ Serving(t, "delete") /\ pc[u] = "loaded"
    /\ \E v \in Contributors : rowLock[v] = u

AbortDeadlock(t) ==
    /\ \E u \in Threads : Deadlocked(t, u) \/ Deadlocked(u, t)
    /\ UNCHANGED stock
    /\ Release(t)

Commit(t) ==
    \/ CommitStock(t) \/ CommitDispense(t) \/ CommitCorrect(t) \/ CommitVoid(t)
    \/ CommitAdd(t) \/ CommitEdit(t) \/ CommitDelete(t)

Work(t) == LockItem(t) \/ Commit(t) \/ Refuse(t) \/ AbortDeadlock(t)

Next ==
    \E t \in Threads :
        \/ \E q \in Amounts : Call(t, q) \/ LoadOrder(t, q)
        \/ \E v \in Threads : VoidLockRow(t, v)
        \/ Work(t)

Spec == Init /\ [][Next]_vars

\* A request once accepted is worked on: its thread runs, the database grants
\* free locks and breaks deadlocks.  Nothing makes a user send a request.
FairSpec == Spec /\ \A t \in Threads : WF_vars(Work(t))

-----------------------------------------------------------------------------
\* "Corrections / stocks / dispenses serialise per item and never lose updates":
\* the on-hand count is the opening count plus every live transactions row.
NoLostUpdate == onHand = Opening + booked

\* The materials line is the aggregate of the order's live transactions rows.
LineIsAggregate == line.qty = -onOrder

\* Every request that was accepted ends, even through a deadlock of a void with
\* the deletion of a materials line, and leaves no row locked.
EveryRequestEnds ==
    \A t \in Threads : []<>(pc[t] \in {"idle", "done"} /\ itemLock # t)
=============================================================================

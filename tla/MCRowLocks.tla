------------------------------ MODULE MCRowLocks ------------------------------
(***************************************************************************)
(* Requests that wait for each other's rows, one system of them at a time: *)
(* the endpoints that load an item by locking it (the extended module),    *)
(* every endpoint of an item, the crib of tools, and the clocks of two     *)
(* workers on two orders.                                                  *)
(***************************************************************************)
EXTENDS StockRace, TLC

VARIABLE on   \* the system that runs
CONSTANT None

-----------------------------------------------------------------------------
\* Three threads on one item, every endpoint in use.
CONSTANT sThreads
VARIABLES sOnHand, sLine, sTxn, sBooked, sOnOrder, sItemLock, sRowLock, sPc, sJob, sSeen
Stock == INSTANCE StockRace WITH
    onHand <- sOnHand, line <- sLine, txn <- sTxn, booked <- sBooked,
    onOrder <- sOnOrder, itemLock <- sItemLock, rowLock <- sRowLock, pc <- sPc,
    job <- sJob, seen <- sSeen, Threads <- sThreads,
    Ops <- LockFirst \cup Materials, Amounts <- {1, 2}, Opening <- 2
StockVars == <<sOnHand, sLine, sTxn, sBooked, sOnOrder, sItemLock, sRowLock, sPc, sJob, sSeen>>

-----------------------------------------------------------------------------
\* Two threads, two tools, two users; every call.
CONSTANTS kThreads, kTools, kUsers
VARIABLES kOnHand, kOut, kLive, kActive, kLedger, kToolLock, kUserLock, kPc, kJob,
          kCount, kHeld
ToolCalls == {"checkout", "return", "correct", "retire", "archive", "forceArchive"}
Crib == INSTANCE ToolCustody WITH
    onHand <- kOnHand, out <- kOut, live <- kLive, active <- kActive, ledger <- kLedger,
    toolLock <- kToolLock, userLock <- kUserLock, pc <- kPc, job <- kJob, count <- kCount,
    held <- kHeld, Threads <- kThreads, Tools <- kTools, Users <- kUsers,
    Ops <- ToolCalls, Amounts <- {1}, Opening <- 1, HeldAtStart <- {0, 1}
ToolVars == <<kOnHand, kOut, kLive, kActive, kLedger, kToolLock, kUserLock, kPc, kJob,
              kCount, kHeld>>

-----------------------------------------------------------------------------
\* Two threads, two orders, two workers; clocks that move and shifts that end.
CONSTANTS lThreads, lOrders, lWorkers, lClocks
VARIABLES lStatus, lArchived, lCompletedAt, lCrew, lClock, lBilled, lLock, lPend
Labor == INSTANCE LaborClock WITH
    status <- lStatus, archived <- lArchived, completedAt <- lCompletedAt,
    crew <- lCrew, clock <- lClock, billed <- lBilled, lock <- lLock, pend <- lPend,
    Threads <- lThreads, Orders <- lOrders, Workers <- lWorkers, Clocks <- lClocks,
    Legacy <- {}, Ops <- {"start", "punchOut"}
LaborVars == <<lStatus, lArchived, lCompletedAt, lCrew, lClock, lBilled, lLock, lPend>>

-----------------------------------------------------------------------------
\* Only the system chosen at the start takes steps; the others start one way.
MCInit ==
    /\ on \in {"lockFirst", "stock", "tools", "labor"}
    /\ Init /\ Stock!Init /\ Crib!Init /\ Labor!Init
    /\ on # "tools" => kOut = [k \in kTools |-> [u \in kUsers |-> 0]]
    /\ on # "labor" => lCrew = [w \in lOrders |-> {}]

MCNext ==
    /\ UNCHANGED on
    /\ \/ on = "lockFirst" /\ Next /\ UNCHANGED <<StockVars, ToolVars, LaborVars>>
       \/ on = "stock" /\ Stock!Next /\ UNCHANGED <<vars, ToolVars, LaborVars>>
       \/ on = "tools" /\ Crib!Next /\ UNCHANGED <<vars, StockVars, LaborVars>>
       \/ on = "labor" /\ Labor!Next /\ UNCHANGED <<vars, StockVars, ToolVars>>

MCVars == <<on, vars, StockVars, ToolVars, LaborVars>>

\* Each system's own fairness, while it is the one that runs.
MCSpec ==
    /\ MCInit /\ [][MCNext]_MCVars
    /\ \A t \in sThreads : WF_StockVars(on = "stock" /\ Stock!Work(t))
    /\ \A t \in kThreads : WF_ToolVars(on = "tools" /\ Crib!Work(t))
    /\ \A t \in lThreads : SF_LaborVars(on = "labor" /\ Labor!Finish(t))

\* Every stock and materials request ends and lets go of the item, also when a
\* void and the deletion of a line deadlock (transactions.py, work_orders.py).
StockRequestsEnd == Stock!EveryRequestEnds

\* Every tool request ends, also when two forced returns lock two tools in opposite
\* orders, and leaves nobody and nothing archived with a unit out (tools.py, users.py).
ToolRequestsEnd == Crib!EveryRequestEnds /\ [](Crib!NobodyStranded /\ Crib!ToolsHold)

\* Every start, switch and end of a shift ends, also when two workers swap orders
\* (work_orders.py).
LaborRequestsEnd == Labor!EveryRequestEnds
=============================================================================

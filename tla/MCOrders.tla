------------------------------- MODULE MCOrders -------------------------------
(***************************************************************************)
(* Values for the constants of OrderDesk (orders.cfg, names_overrun.cfg,   *)
(* labor_stale_reads.cfg).                                                 *)
(***************************************************************************)
EXTENDS OrderDesk, TLC

CONSTANTS t1, t2, u1, u2, v1, n1, n2, k1, p1, nm, d1, d2, c1, c2, p, q, r

\* A clock that moves between two orders; every route of one order; a punch-out.
Moving == t1 :> {"start", "stop"} @@ t2 :> {"assign", "start", "complete"}
OneOrder == t1 :> {"start", "stop", "complete", "hold", "route"}
         @@ t2 :> {"patch", "assign", "archive", "restore", "scanStart", "resume"}
Leaving == t1 :> {"start"} @@ t2 :> {"assign", "punchOut"}

\* The threads, workers and clocks of labor_stale_reads are values of their own.
ClockSymmetry == Permutations(Threads) \cup Permutations(Workers) \cup Permutations(Clocks)

\* One order's clocks, each request a single locked step.
OneStep == {"start", "stop", "sweep", "scanStart", "complete", "hold", "resume", "update",
            "archive", "restore", "overnight"}

\* Two files that share a number, a supervisor who may leave.
Importing == t1 :> {"import", "renumber", "archive", "restore", "leave"}
          @@ t2 :> {"import", "resolve", "edit", "route"}
CsvFiles ==
    t1 :> <<[number |-> n1, task |-> k1, place |-> None, vendor |-> nm],
            [number |-> n2, task |-> k1, place |-> None, vendor |-> None]>>
 @@ t2 :> <<[number |-> n1, task |-> None, place |-> p1, vendor |-> None],
            [number |-> None, task |-> None, place |-> None, vendor |-> None]>>
SameName == v1 :> nm

\* Two ceremonies, two files exported in the first.
TwoFiles == <<2, 0>>

\* Two lines of an order, two days in two weeks, two workers of one vendor.
EveryAsk == {"edit", "date", "block", "merge", "add", "paste"}
OneEditor == t1 :> EveryAsk @@ t2 :> {}
TwoEditors == t1 :> {"date", "block"} @@ t2 :> {"edit", "merge", "paste"}
OneVendor == u1 :> v1 @@ u2 :> v1
WeekPerDay == d1 :> 1 @@ d2 :> 2

\* A sheet with a closed row, a blank one and an open one; a paper of both numbers.
Uploaded == t1 :> {"sheet", "paper"} @@ t2 :> {"paper", "targets", "invoice"}
VendorSheet == <<[number |-> n1, closed |-> TRUE], [number |-> None, closed |-> TRUE],
                 [number |-> n2, closed |-> FALSE]>>

\* A crew of two for two hours each and one of one for one hour.
HeadsOf == c1 :> 2 @@ c2 :> 1
HoursOf == c1 :> 2 @@ c2 :> 1

\* Three names on the invoices, two of them of one worker.
TwoSpellings == p :> u1 @@ q :> u1 @@ r :> u2

\* No run names a worker beyond the hours invoiced to him (work_orders_smr_weekly.py).
NamesFitInvoice == NamesOf!NamesFitInvoice
=============================================================================

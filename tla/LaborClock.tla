----------------------------- MODULE LaborClock -----------------------------
(***************************************************************************)
(* The lifecycle of work orders and the labor clocks that run on them.     *)
(* Every transition of an order locks its row, re-reads it and commits, so *)
(* it is one step here; three requests read something before they hold the *)
(* lock that protects it, and are split there:                             *)
(*   - ending a shift finds the worker's running clock, then locks its     *)
(*     order and closes that clock;                                        *)
(*   - starting a clock while another runs elsewhere locks the new order,  *)
(*     finds the old clock, then locks the old order;                      *)
(*   - material activity reads the order without a lock and writes the     *)
(*     status that follows from what it read.                              *)
(***************************************************************************)
EXTENDS Naturals, FiniteSets

CONSTANTS Orders, Workers, Threads,
          None,         \* no thread, no clock, no worker, no order
          Clocks,       \* work_order_labor_sessions rows: the bound on starts
          Legacy,       \* the orders imported before tracking existed
          Ops           \* the endpoints in use, and whether clocks run overnight

Statuses == {"created", "assigned", "in_progress", "on_hold", "ready_to_complete",
             "completed", "review"}
PreWork == {"created", "assigned"}
Startable == {"created", "assigned", "in_progress", "on_hold"}
\* Seeded fault: approving a finished order does not stop its clocks.
Stopping_NoCompleted == {"on_hold", "ready_to_complete"}
Stopping == {"on_hold", "ready_to_complete", "completed"}
Finished == {"completed", "review"}
AllOps == {"start", "stop", "punchOut", "sweep", "activity", "scanStart", "complete", "hold",
           "resume", "update", "archive", "archiveLegacy", "restore", "overnight"}

ASSUME LaborClockAssumption ==
    /\ None \notin Orders \cup Workers \cup Threads \cup Clocks
    /\ Legacy \subseteq Orders /\ Ops \subseteq AllOps

VARIABLES
    status, archived, completedAt,  \* per work order (completedAt: is it set)
    crew,       \* work_order_technicians
    clock,      \* the labor sessions
    billed,     \* how many work_order_labor rows each session has produced
    lock,       \* who holds each work order's row between two steps
    pend        \* what each thread has read and not yet acted on

vars == <<status, archived, completedAt, crew, clock, billed, lock, pend>>
order == <<status, archived, completedAt>>
clocks == <<clock, billed>>

NoClock == [state |-> "unused", who |-> None, order |-> None, over |-> FALSE]
Idle == [op |-> "none", order |-> None, who |-> None, clock |-> None, capped |-> {},
         status |-> "created"]

TypeOK ==
    /\ status \in [Orders -> Statuses]
    /\ archived \in [Orders -> BOOLEAN] /\ completedAt \in [Orders -> BOOLEAN]
    /\ crew \in [Orders -> SUBSET Workers]
    /\ clock \in [Clocks -> [state : {"unused", "running", "ended"}, who : Workers \cup {None},
                             order : Orders \cup {None}, over : BOOLEAN]]
    /\ billed \in [Clocks -> Nat]
    /\ lock \in [Orders -> Threads \cup {None}]
    /\ pend \in [Threads -> [op : {"none", "punchOut", "switch", "activity"},
                             order : Orders \cup {None}, who : Workers \cup {None},
                             clock : Clocks \cup {None}, capped : SUBSET Clocks,
                             status : Statuses]]

Init ==
    /\ crew \in [Orders -> {{}} \cup {{u} : u \in Workers}]
    /\ status = [w \in Orders |-> IF crew[w] = {} THEN "created" ELSE "assigned"]
    /\ archived = [w \in Orders |-> FALSE] /\ completedAt = [w \in Orders |-> FALSE]
    /\ clock = [i \in Clocks |-> NoClock] /\ billed = [i \in Clocks |-> 0]
    /\ lock = [w \in Orders |-> None]
    /\ pend = [t \in Threads |-> Idle]

-----------------------------------------------------------------------------
\* Domain rules and the clocks of an order.

\* Seeded fault: an Assigned order whose crew is cleared stays Assigned.
Reconcile_Forward(s, C) == IF s = "created" /\ C # {} THEN "assigned" ELSE s

\* Created and Assigned follow from the crew.
Reconcile(s, C) == IF s \in PreWork THEN IF C = {} THEN "created" ELSE "assigned" ELSE s
AfterActivity(s) == IF s \in PreWork THEN "in_progress" ELSE s

Running(w) == {i \in Clocks : clock[i].state = "running" /\ clock[i].order = w}
RunningOf(u) == {i \in Clocks : clock[i].state = "running" /\ clock[i].who = u}

\* Seeded fault: the cap looks at clocks that have stopped as well.
OverCap_Ended(w) == {i \in Clocks : clock[i].order = w /\ clock[i].over}

OverCap(w) == {i \in Running(w) : clock[i].over}

Free == {i \in Clocks : clock[i].state = "unused"}

\* Closing a session ends it and adds its labor row, whatever it was before;
\* opening one takes an unused row.
CloseAndOpen(S, i, u, w) ==
    /\ clock' = [c \in Clocks |->
                   IF c \in S THEN [clock[c] EXCEPT !.state = "ended"]
                   ELSE IF c = i THEN [state |-> "running", who |-> u, order |-> w, over |-> FALSE]
                   ELSE clock[c]]
    /\ billed' = [c \in Clocks |-> IF c \in S THEN billed[c] + 1 ELSE billed[c]]
Close(S) == CloseAndOpen(S, None, None, None)

\* Seeded fault: the paused status misspelt.
HeldIfIdle_Misspelt(w, S) ==
    IF status[w] = "in_progress" /\ Running(w) \subseteq S THEN "held" ELSE status[w]

\* In-Progress with its last clock stopped goes On-Hold.
HeldIfIdle(w, S) ==
    IF status[w] = "in_progress" /\ Running(w) \subseteq S THEN "on_hold" ELSE status[w]
Dated(w, s) == completedAt[w] /\ s = status[w]

\* A request that finds the order live under its row lock.
At(w, o) == o \in Ops /\ lock[w] = None /\ ~archived[w]

\* Write an order's status; completed_at is kept exactly in the finished ones.
Become(w, s) ==
    /\ status' = [status EXCEPT ![w] = s]
    /\ completedAt' = [completedAt EXCEPT ![w] = (s \in Finished)]
    /\ UNCHANGED archived
HoldIfIdle(w, S) == IF HeldIfIdle(w, S) # status[w] THEN Become(w, "on_hold") ELSE UNCHANGED order

-----------------------------------------------------------------------------
\* The transitions that are one locked step.

ScanStart(w) ==
    /\ At(w, "scanStart") /\ status[w] = "assigned"
    /\ Become(w, "in_progress")
    /\ UNCHANGED <<crew, clocks, lock, pend>>

\* Notify Team Lead: only with nobody else charging.
Complete(w, u, target) ==
    /\ At(w, "complete") /\ u \in crew[w] /\ status[w] = "in_progress"
    /\ Running(w) \subseteq RunningOf(u)
    /\ Close(Running(w))
    /\ Become(w, target)
    /\ UNCHANGED <<crew, lock, pend>>

Hold(w, u) ==
    /\ At(w, "hold") /\ u \in crew[w] /\ status[w] = "in_progress"
    /\ Close(Running(w))
    /\ Become(w, "on_hold")
    /\ UNCHANGED <<crew, lock, pend>>

Resume(w, u) ==
    /\ At(w, "resume") /\ u \in crew[w] /\ status[w] = "on_hold"
    /\ Become(w, "in_progress")
    /\ UNCHANGED <<crew, clocks, lock, pend>>

\* PATCH by a Team Lead or above: a new crew C, a new status s ("keep": none
\* given).  Removed workers' clocks are closed, and the order held if that was
\* the last one; a status given wins over that, and completed_at is written
\* with it.
\* Seeded fault: the clocks of the workers added instead of the removed ones'.
Removed_Added(w, C) == {i \in Running(w) : clock[i].who \in C \ crew[w]}

Removed(w, C) == {i \in Running(w) : clock[i].who \in crew[w] \ C}
Crewed(w, C) == IF crew[w] \subseteq C THEN status[w] ELSE HeldIfIdle(w, Removed(w, C))
Patched(w, C, s) == Reconcile(IF s = "keep" THEN Crewed(w, C) ELSE s, C)
Redated(w, C, s) ==
    IF s = "keep" THEN Dated(w, Crewed(w, C)) ELSE Patched(w, C, s) \in Finished

Update(w, C, s) ==
    LET new == Patched(w, C, s)
        ends == s # "keep" /\ new \in Stopping /\ new # status[w] IN
    /\ At(w, "update")
    /\ s = "review" => status[w] = "completed"
    /\ Close(IF ends THEN Running(w) ELSE Removed(w, C))
    /\ status' = [status EXCEPT ![w] = new]
    /\ completedAt' = [completedAt EXCEPT ![w] = Redated(w, C, s)]
    /\ crew' = [crew EXCEPT ![w] = C]
    /\ UNCHANGED <<archived, lock, pend>>

Archive(w) ==
    /\ At(w, "archive")
    /\ Close(Running(w))
    /\ archived' = [archived EXCEPT ![w] = TRUE]
    /\ UNCHANGED <<status, completedAt, crew, lock, pend>>

\* The Owner's bulk UPDATE of every live legacy order.
ArchiveLegacy ==
    /\ "archiveLegacy" \in Ops /\ \A w \in Legacy : archived[w] \/ lock[w] = None
    /\ archived' = [w \in Orders |-> archived[w] \/ w \in Legacy]
    /\ UNCHANGED <<status, completedAt, crew, clocks, lock, pend>>

Restore(w) ==
    /\ "restore" \in Ops /\ lock[w] = None /\ archived[w]
    /\ archived' = [archived EXCEPT ![w] = FALSE]
    /\ UNCHANGED <<status, completedAt, crew, clocks, lock, pend>>

\* Stop closes the caller's clock if it runs here, then the over-cap clocks of
\* the order, then holds the order if it is idle; with no clock of the caller's
\* here only the cap is applied.
Stop(w, u) ==
    LET mine == RunningOf(u) \cap Running(w) IN
    /\ At(w, "stop")
    /\ Close(mine \cup OverCap(w))
    /\ IF mine = {} THEN UNCHANGED order ELSE HoldIfIdle(w, mine \cup OverCap(w))
    /\ UNCHANGED <<crew, lock, pend>>

\* Opening a card or a dashboard closes what outran the cap, archived orders
\* included, and holds nothing; a worker's own dashboard closes only his.
Sweep(w, S) ==
    /\ "sweep" \in Ops /\ lock[w] = None /\ S # {}
    /\ S = OverCap(w) \/ \E u \in Workers : S = OverCap(w) \cap RunningOf(u)
    /\ Close(S)
    /\ UNCHANGED <<order, crew, lock, pend>>

\* Twelve hours go by.
Outrun(i) ==
    /\ "overnight" \in Ops /\ clock[i].state = "running" /\ ~clock[i].over
    /\ clock' = [clock EXCEPT ![i].over = TRUE]
    /\ UNCHANGED <<order, billed, crew, lock, pend>>

-----------------------------------------------------------------------------
\* Starting a clock.

\* What Begin Charging leaves behind on order w: the caller on the crew, a new
\* clock, the order In-Progress; S are the clocks closed on the way.
Begin(w, u, i, S) ==
    /\ CloseAndOpen(S, i, u, w)
    /\ crew' = [crew EXCEPT ![w] = @ \cup {u}]

\* The caller's running clock once this order's cap is applied.
Elsewhere(w, u) == RunningOf(u) \ Running(w)
Here(w, u) == (RunningOf(u) \cap Running(w)) \ OverCap(w)

\* Charging here already: only the cap is applied.
StartAgain(w, u) ==
    /\ At(w, "start") /\ Here(w, u) # {} /\ OverCap(w) # {}
    /\ Close(OverCap(w))
    /\ UNCHANGED <<order, crew, lock, pend>>

StartFirst(w, u, i) ==
    /\ At(w, "start") /\ i \in Free
    /\ Here(w, u) = {} /\ Elsewhere(w, u) = {} /\ status[w] \in Startable
    /\ Begin(w, u, i, OverCap(w))
    /\ Become(w, "in_progress")
    /\ UNCHANGED <<lock, pend>>

\* Charging elsewhere: keep this order locked and go for that one.
StartSwitch(t, w, u, i) ==
    /\ At(w, "start") /\ pend[t] = Idle
    /\ i \in Elsewhere(w, u) /\ status[w] \in Startable
    /\ lock' = [lock EXCEPT ![w] = t]
    /\ pend' = [pend EXCEPT ![t] = [Idle EXCEPT !.op = "switch", !.order = w, !.who = u, !.clock = i,
                                             !.capped = OverCap(w)]]
    /\ UNCHANGED <<order, crew, clocks>>

\* Seeded fault: the session is kept, and the order it switches to stays locked.
Done_KeepsLock(t) ==
    /\ pend' = [pend EXCEPT ![t] = Idle]
    /\ UNCHANGED lock

Done(t) ==
    /\ pend' = [pend EXCEPT ![t] = Idle]
    /\ lock' = [w \in Orders |-> IF lock[w] = t THEN None ELSE lock[w]]

\* The other order is locked: the old clock is closed, that order held if it was
\* its last, and the new clock opened; the unique index refuses a second one.
OtherOrder(t) == clock[pend[t].clock].order
Closing(t) == {pend[t].clock} \cup pend[t].capped
Conflict(t) == RunningOf(pend[t].who) \ Closing(t) # {}
FinishSwitch(t, i) ==
    LET w == pend[t].order  b == OtherOrder(t)  held == HeldIfIdle(b, {pend[t].clock}) IN
    /\ pend[t].op = "switch" /\ lock[b] = None /\ i \in Free /\ ~Conflict(t)
    /\ Begin(w, pend[t].who, i, Closing(t))
    /\ status' = [status EXCEPT ![b] = held, ![w] = "in_progress"]
    /\ completedAt' = [completedAt EXCEPT ![b] = Dated(b, held), ![w] = FALSE]
    /\ UNCHANGED archived
    /\ Done(t)

\* A second clock, no row left, or a circle of switches each waiting for an order
\* the next has locked: the request fails and rolls back.
Waits(t, s) == pend[t].op = "switch" /\ lock[OtherOrder(t)] = s
AbortSwitch(t) ==
    /\ pend[t].op = "switch"
    /\ \/ lock[OtherOrder(t)] = None /\ (Conflict(t) \/ Free = {})
       \/ \E D \in SUBSET Threads : t \in D /\ \A s \in D : \E r \in D : Waits(s, r)
    /\ UNCHANGED <<order, crew, clocks>>
    /\ Done(t)

-----------------------------------------------------------------------------
\* Ending a shift, and material activity.

\* The clock is looked up before its order is locked.
FindClock(t, i) ==
    /\ "punchOut" \in Ops /\ pend[t] = Idle /\ clock[i].state = "running"
    /\ pend' = [pend EXCEPT ![t] = [Idle EXCEPT !.op = "punchOut", !.clock = i]]
    /\ UNCHANGED <<order, crew, clocks, lock>>

\* The locked row is fresh; the clock is the one found before.
PunchOut(t) ==
    LET S == {pend[t].clock}  w == OtherOrder(t) IN
    /\ pend[t].op = "punchOut" /\ lock[w] = None
    /\ Close(S)
    /\ HoldIfIdle(w, S)
    /\ Done(t)
    /\ UNCHANGED crew

ReadOrder(t, w) ==
    /\ "activity" \in Ops /\ pend[t] = Idle /\ ~archived[w]
    /\ pend' = [pend EXCEPT ![t] = [Idle EXCEPT !.op = "activity", !.order = w, !.status = status[w]]]
    /\ UNCHANGED <<order, crew, clocks, lock>>

\* Only a status that the rule changes is written.
LogActivity(t) ==
    LET w == pend[t].order  s == pend[t].status IN
    /\ pend[t].op = "activity" /\ lock[w] = None
    /\ status' = IF AfterActivity(s) # s THEN [status EXCEPT ![w] = AfterActivity(s)] ELSE status
    /\ UNCHANGED <<archived, completedAt, crew, clocks>>
    /\ Done(t)

-----------------------------------------------------------------------------
Finish(t) == (\E i \in Clocks : FinishSwitch(t, i)) \/ AbortSwitch(t) \/ PunchOut(t) \/ LogActivity(t)

Order(w) ==
    \/ ScanStart(w) \/ Archive(w) \/ Restore(w)
    \/ \E S \in SUBSET Clocks : Sweep(w, S)
    \/ \E C \in SUBSET Workers, s \in Statuses \cup {"keep"} : Update(w, C, s)
Tap(w, u) ==
    \/ Hold(w, u) \/ Resume(w, u) \/ Stop(w, u) \/ StartAgain(w, u)
    \/ \E s \in {"ready_to_complete", "completed"} : Complete(w, u, s)
    \/ \E i \in Clocks : StartFirst(w, u, i)
Begun(t) ==
    \/ \E w \in Orders, u \in Workers, i \in Clocks : StartSwitch(t, w, u, i)
    \/ \E i \in Clocks : FindClock(t, i)
    \/ \E w \in Orders : ReadOrder(t, w)

Next ==
    \/ \E w \in Orders : Order(w) \/ \E u \in Workers : Tap(w, u)
    \/ ArchiveLegacy
    \/ \E i \in Clocks : Outrun(i)
    \/ \E t \in Threads : Begun(t) \/ Finish(t)

Spec == Init /\ [][Next]_vars

\* A request that has begun is run to its end; a row lock goes to whoever waits
\* for it in turn, so nobody waits for it for ever.
FairSpec == Spec /\ \A t \in Threads : SF_vars(Finish(t))

-----------------------------------------------------------------------------
\* A session that ended has produced exactly one labor row, a running one none.
BilledOnce == \A i \in Clocks : billed[i] = IF clock[i].state = "ended" THEN 1 ELSE 0

\* "On-Hold means nobody is on the clock", and so do the states after the work.
StoppedMeansIdle == \A w \in Orders : status[w] \in Stopping \cup Finished => Running(w) = {}

\* Nobody charges to an order he has been taken off.
ChargingIsOnCrew == \A w \in Orders : \A i \in Running(w) : clock[i].who \in crew[w]

\* A selected technician never coexists with Created, nor an empty crew with Assigned.
PreWorkMatchesCrew ==
    \A w \in Orders : (status[w] = "created" => crew[w] = {}) /\ (status[w] = "assigned" => crew[w] # {})

\* completed_at is kept through Review and cleared by a reopening.
CompletedAtMatches == \A w \in Orders : completedAt[w] <=> status[w] \in Finished

\* Archiving an order stops every clock on it.
ArchivedIsIdle == \A w \in Orders : archived[w] => Running(w) = {}

\* One request of one order at a time: a session that ended is billed once, the
\* completion date follows the status, and an archived order has no clock.
ClocksHold == BilledOnce /\ CompletedAtMatches /\ ArchivedIsIdle

\* Whatever a thread has begun it ends, even when two workers swap jobs and each
\* start waits for the order the other holds.
EveryRequestEnds == \A t \in Threads : []<>(pend[t] = Idle)
=============================================================================

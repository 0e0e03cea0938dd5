--------------------------- MODULE OrderDeskProofs ---------------------------
(***************************************************************************)
(* What holds of work orders and the jobs around them, for any orders,     *)
(* workers, requests, files and rows: of the clocks first, whatever        *)
(* requests cross; then of the sign-in, the enrichment and the import, an  *)
(* inductive invariant each; and last the properties of OrderDesk, in      *)
(* which each of them runs.                                                *)
(***************************************************************************)
EXTENDS OrderDesk, FiniteSetTheorems, TLAPS

-----------------------------------------------------------------------------
(* The clocks.  No paused or finished order has a running clock, nobody charges *)
(* to an order he is off, and Created and Assigned follow from the crew.   *)

Rec == [state : {"unused", "running", "ended"}, who : Workers \cup {None},
        order : Orders \cup {None}, over : BOOLEAN]
Pend == [op : {"none", "punchOut", "switch", "activity"}, order : Orders \cup {None},
         who : Workers \cup {None}, clock : Clocks \cup {None}, capped : SUBSET Clocks,
         status : Statuses]

\* TypeOK in three parts.
OrdersOK ==
    /\ status \in [Orders -> Statuses]
    /\ archived \in [Orders -> BOOLEAN] /\ completedAt \in [Orders -> BOOLEAN]
    /\ crew \in [Orders -> SUBSET Workers]
ClocksOK == clock \in [Clocks -> Rec] /\ billed \in [Clocks -> Nat]
ThreadsOK == lock \in [Orders -> Threads \cup {None}] /\ pend \in [Threads -> Pend]

\* A session that was ever started belongs to an order and a worker.
Rows == \A i \in Clocks : clock[i].state # "unused" => clock[i].order \in Orders /\ clock[i].who \in Workers

\* What a thread has read is a session that was started, an order that it still
\* holds and that nobody else can therefore stop.
Held(t) ==
    /\ pend[t].op \in {"switch", "activity"} => pend[t].order \in Orders
    /\ pend[t].op \in {"switch", "punchOut"} =>
          pend[t].clock \in Clocks /\ clock[pend[t].clock].state # "unused"
    /\ pend[t].op = "switch" =>
          /\ pend[t].who \in Workers /\ lock[pend[t].order] = t
          /\ status[pend[t].order] \in Startable
          /\ clock[pend[t].clock].order # pend[t].order
          /\ \A c \in pend[t].capped : c \in Clocks /\ clock[c].state # "unused"
Waiting == \A t \in Threads : Held(t)

\* What a thread has read stays so as long as its order and its sessions do.
LEMMA HeldOn ==
  ASSUME NEW r \in Threads, pend[r] \in Pend, Held(r), pend'[r] = pend[r],
         pend[r].op = "switch" => /\ lock'[pend[r].order] = r
                                  /\ status'[pend[r].order] = status[pend[r].order],
         \A c \in Clocks : clock[c].state # "unused" =>
               clock'[c].state # "unused" /\ clock'[c].order = clock[c].order
  PROVE  Held(r)'
  BY DEF Held

LInv == OrdersOK /\ ClocksOK /\ ThreadsOK /\ Rows /\ Waiting

LEMMA Parts == TypeOK <=> OrdersOK /\ ClocksOK /\ ThreadsOK
  BY DEF TypeOK, OrdersOK, ClocksOK, ThreadsOK, Rec, Pend

\* What closing the sessions S, and opening i for u on w, does to the rows: i is
\* an unused row, or none is opened.
LEMMA Sessions ==
  ASSUME ClocksOK, Rows, NEW S \in SUBSET Clocks, NEW i \in Clocks \cup {None},
         NEW u, NEW w, CloseAndOpen(S, i, u, w),
         \A c \in S : clock[c].state # "unused",
         i \in Clocks => u \in Workers /\ w \in Orders /\ clock[i].state = "unused"
  PROVE  /\ ClocksOK' /\ Rows'
         /\ \A c \in Clocks : clock[c].state # "unused" =>
               /\ clock'[c].state # "unused"
               /\ clock'[c].order = clock[c].order /\ clock'[c].who = clock[c].who
         /\ \A x \in Orders : \A c \in Running(x)' :
               \/ c \in Running(x) \ S /\ clock'[c].who = clock[c].who
               \/ c = i /\ i \in Clocks /\ x = w /\ clock'[c].who = u
  <1> USE LaborClockAssumption DEF LaborClockAssumption
  <1>1. clock' \in [Clocks -> Rec]
    <2>1. ASSUME NEW c \in Clocks PROVE clock'[c] \in Rec
      <3>1. /\ clock[c] \in Rec
            /\ [clock[c] EXCEPT !.state = "ended"] \in Rec
        BY <2>1 DEF ClocksOK, Rec
      <3>2. c = i =>
              [state |-> "running", who |-> u, order |-> w, over |-> FALSE] \in Rec
        BY <2>1 DEF Rec
      <3> HIDE DEF Rec
      <3> QED
        BY <2>1, <3>1, <3>2 DEF CloseAndOpen
    <2>2. QED
      BY <2>1 DEF CloseAndOpen
  <1>2. billed' \in [Clocks -> Nat]
    BY DEF CloseAndOpen, ClocksOK
  <1>3. \A c \in Clocks : clock'[c].state = (IF c \in S THEN "ended" ELSE IF c = i THEN "running" ELSE clock[c].state)
    BY DEF CloseAndOpen, ClocksOK, Rec
  <1>4. \A c \in Clocks : clock'[c].who = (IF c \notin S /\ c = i THEN u ELSE clock[c].who)
                       /\ clock'[c].order = (IF c \notin S /\ c = i THEN w ELSE clock[c].order)
    BY DEF CloseAndOpen, ClocksOK, Rec
  <1>5. Rows'
    BY <1>3, <1>4 DEF Rows, ClocksOK, Rec
  <1>6. \A x \in Orders : \A c \in Running(x)' :
               \/ c \in Running(x) \ S /\ clock'[c].who = clock[c].who
               \/ c = i /\ i \in Clocks /\ x = w /\ clock'[c].who = u
    BY <1>3, <1>4 DEF Running
  <1>7. QED
    BY <1>1, <1>2, <1>3, <1>4, <1>5, <1>6 DEF ClocksOK

\* Closing only: no order gains a running session.
LEMMA Closed ==
  ASSUME ClocksOK, Rows, NEW S \in SUBSET Clocks, Close(S), \A c \in S : clock[c].state # "unused"
  PROVE  /\ ClocksOK' /\ Rows'
         /\ \A c \in Clocks : clock[c].state # "unused" =>
               /\ clock'[c].state # "unused"
               /\ clock'[c].order = clock[c].order /\ clock'[c].who = clock[c].who
         /\ \A x \in Orders : \A c \in Running(x)' :
               c \in Running(x) \ S /\ clock'[c].who = clock[c].who
  <1>1. None \notin Clocks
    BY LaborClockAssumption DEF LaborClockAssumption
  <1>2. QED
    BY <1>1, Sessions DEF Close

Good == StoppedMeansIdle /\ ChargingIsOnCrew /\ PreWorkMatchesCrew
FInv == LInv /\ Good

\* A step on one order w: it becomes s with crew C; the sessions S are closed and,
\* for a worker of that crew, i is opened.
LEMMA OneOrder ==
  ASSUME FInv, NEW w \in Orders, NEW s \in Statuses, NEW C \in SUBSET Workers,
         NEW S \in SUBSET Clocks, NEW i \in Clocks \cup {None}, NEW u,
         CloseAndOpen(S, i, u, w), \A c \in S : clock[c].state # "unused",
         status' = [status EXCEPT ![w] = s], crew' = [crew EXCEPT ![w] = C],
         archived' \in [Orders -> BOOLEAN], completedAt' \in [Orders -> BOOLEAN],
         i \in Clocks => u \in C /\ clock[i].state = "unused" /\ s = "in_progress",
         s \in Stopping \cup Finished => Running(w) \subseteq S,
         \A c \in Running(w) \ S : clock[c].who \in C,
         (s = "created" => C = {}) /\ (s = "assigned" => C # {})
  PROVE  /\ OrdersOK' /\ ClocksOK' /\ Rows' /\ Good'
         /\ \A c \in Clocks : clock[c].state # "unused" =>
               clock'[c].state # "unused" /\ clock'[c].order = clock[c].order
  <1> USE DEF FInv, LInv
  <1>1. /\ ClocksOK' /\ Rows'
        /\ \A c \in Clocks : clock[c].state # "unused" =>
               /\ clock'[c].state # "unused"
               /\ clock'[c].order = clock[c].order /\ clock'[c].who = clock[c].who
        /\ \A x \in Orders : \A c \in Running(x)' :
               \/ c \in Running(x) \ S /\ clock'[c].who = clock[c].who
               \/ c = i /\ i \in Clocks /\ x = w /\ clock'[c].who = u
    <2>1. ClocksOK /\ Rows /\ (i \in Clocks => u \in Workers /\ w \in Orders /\ clock[i].state = "unused")
      OBVIOUS
    <2>2. QED
      BY <2>1, Sessions
  <1>2. OrdersOK'
    BY DEF OrdersOK
  <1>3. \A x \in Orders : /\ status'[x] = IF x = w THEN s ELSE status[x]
                          /\ crew'[x] = IF x = w THEN C ELSE crew[x]
    BY DEF OrdersOK
  <1>4. StoppedMeansIdle'
    <2> SUFFICES ASSUME NEW x \in Orders, status'[x] \in Stopping \cup Finished,
                        NEW c \in Running(x)'
                 PROVE  FALSE
      BY DEF StoppedMeansIdle, Stopping, Finished
    <2>1. CASE x = w
      <3>1. s # "in_progress" /\ Running(w) \subseteq S
        BY <1>3, <2>1 DEF Stopping, Finished
      <3>2. QED
        BY <1>1, <2>1, <3>1
    <2>2. CASE x # w
      BY <1>1, <1>3, <2>2 DEF Good, StoppedMeansIdle
    <2>3. QED
      BY <2>1, <2>2
  <1>5. ChargingIsOnCrew'
    <2> SUFFICES ASSUME NEW x \in Orders, NEW c \in Running(x)' PROVE clock'[c].who \in crew'[x]
      BY DEF ChargingIsOnCrew
    <2>1. CASE x = w
      BY <1>1, <1>3, <2>1
    <2>2. CASE x # w
      BY <1>1, <1>3, <2>2 DEF Good, ChargingIsOnCrew
    <2>3. QED
      BY <2>1, <2>2
  <1>6. PreWorkMatchesCrew'
    BY <1>3 DEF Good, PreWorkMatchesCrew
  <1>7. QED
    BY <1>1, <1>2, <1>4, <1>5, <1>6 DEF Good

\* A step on an order nobody has locked disturbs no waiting thread.
LEMMA OthersWait ==
  ASSUME FInv, NEW w \in Orders, lock[w] = None, UNCHANGED <<lock, pend>>,
         \A x \in Orders : x # w => status'[x] = status[x],
         \A c \in Clocks : clock[c].state # "unused" =>
               clock'[c].state # "unused" /\ clock'[c].order = clock[c].order
  PROVE  ThreadsOK' /\ Waiting'
  <1> USE LaborClockAssumption DEF LaborClockAssumption, FInv, LInv
  <1>1. ThreadsOK'
    BY DEF ThreadsOK
  <1>2. ASSUME NEW t \in Threads PROVE Held(t)'
    <2>1. Held(t)
      BY DEF Waiting
    <2>2. pend[t].op = "switch" => pend[t].order \in Orders /\ pend[t].order # w
      BY <2>1 DEF Held
    <2>3. pend[t].op = "switch" => lock[pend[t].order] = t
      BY <2>1 DEF Held
    <2>4. QED
      BY <2>1, <2>2, <2>3, HeldOn DEF ThreadsOK
  <1>3. QED
    BY <1>1, <1>2 DEF Waiting

\* Both together, for the requests that are one locked step.
LEMMA LockedStep ==
  ASSUME FInv, NEW w \in Orders, lock[w] = None, UNCHANGED <<lock, pend>>,
         NEW s \in Statuses, NEW C \in SUBSET Workers,
         NEW S \in SUBSET Clocks, NEW i \in Clocks \cup {None}, NEW u,
         CloseAndOpen(S, i, u, w), \A c \in S : clock[c].state # "unused",
         status' = [status EXCEPT ![w] = s], crew' = [crew EXCEPT ![w] = C],
         archived' \in [Orders -> BOOLEAN], completedAt' \in [Orders -> BOOLEAN],
         i \in Clocks => u \in C /\ clock[i].state = "unused" /\ s = "in_progress",
         s \in Stopping \cup Finished => Running(w) \subseteq S,
         \A c \in Running(w) \ S : clock[c].who \in C,
         (s = "created" => C = {}) /\ (s = "assigned" => C # {})
  PROVE  FInv'
  <1>1. /\ OrdersOK' /\ ClocksOK' /\ Rows' /\ Good'
        /\ \A c \in Clocks : clock[c].state # "unused" =>
               clock'[c].state # "unused" /\ clock'[c].order = clock[c].order
    BY OneOrder
  <1>2. \A x \in Orders : x # w => status'[x] = status[x]
    BY DEF FInv, LInv, OrdersOK
  <1>3. ThreadsOK' /\ Waiting'
    BY <1>1, <1>2, OthersWait
  <1>4. QED
    BY <1>1, <1>3 DEF FInv, LInv

\* The same for a request that opens nothing.
LEMMA ClosingStep ==
  ASSUME FInv, NEW w \in Orders, lock[w] = None, UNCHANGED <<lock, pend>>,
         NEW s \in Statuses, NEW C \in SUBSET Workers, NEW S \in SUBSET Running(w), Close(S),
         status' = [status EXCEPT ![w] = s], crew' = [crew EXCEPT ![w] = C],
         archived' \in [Orders -> BOOLEAN], completedAt' \in [Orders -> BOOLEAN],
         s \in Stopping \cup Finished => Running(w) \subseteq S,
         \A c \in Running(w) \ S : clock[c].who \in C,
         (s = "created" => C = {}) /\ (s = "assigned" => C # {})
  PROVE  FInv'
  <1>1. None \notin Clocks /\ S \in SUBSET Clocks /\ \A c \in S : clock[c].state # "unused"
    BY LaborClockAssumption DEF LaborClockAssumption, Running
  <1>2. CloseAndOpen(S, None, None, w)
    BY <1>1 DEF Close, CloseAndOpen
  <1>3. QED
    BY <1>1, <1>2, LockedStep

\* A step that leaves an order, its crew or the sessions alone is a step to the
\* values they have.
LEMMA Same ==
  ASSUME FInv, NEW w \in Orders
  PROVE  /\ status = [status EXCEPT ![w] = status[w]] /\ status[w] \in Statuses
         /\ crew = [crew EXCEPT ![w] = crew[w]] /\ crew[w] \in SUBSET Workers
         /\ UNCHANGED clocks => Close({})
         /\ (status[w] = "created" => crew[w] = {}) /\ (status[w] = "assigned" => crew[w] # {})
         /\ status[w] \in Stopping \cup Finished => Running(w) = {}
         /\ \A c \in Running(w) : clock[c].who \in crew[w]
  <1> USE LaborClockAssumption DEF LaborClockAssumption
  <1>1. UNCHANGED clocks => Close({})
    <2> SUFFICES ASSUME UNCHANGED clocks PROVE Close({})
      OBVIOUS
    <2>1. \A c \in Clocks : c # None
      OBVIOUS
    <2>2. QED
      BY <2>1 DEF FInv, LInv, ClocksOK, Close, CloseAndOpen, clocks
  <1>2. QED
    BY <1>1 DEF FInv, LInv, OrdersOK, Good, StoppedMeansIdle, PreWorkMatchesCrew,
       ChargingIsOnCrew

\* Writing a status types the order.
LEMMA Becoming ==
  ASSUME FInv, NEW w \in Orders, NEW s \in Statuses, Become(w, s)
  PROVE  /\ status' = [status EXCEPT ![w] = s]
         /\ archived' \in [Orders -> BOOLEAN] /\ completedAt' \in [Orders -> BOOLEAN]
  BY DEF Become, FInv, LInv, OrdersOK

\* The automatic hold, and its absence.
LEMMA Holding ==
  ASSUME FInv, NEW w \in Orders, NEW S
  PROVE  /\ HeldIfIdle(w, S) \in Statuses
         /\ HeldIfIdle(w, S) # status[w] => HeldIfIdle(w, S) = "on_hold" /\ Running(w) \subseteq S
         /\ HoldIfIdle(w, S) =>
               /\ status' = [status EXCEPT ![w] = HeldIfIdle(w, S)]
               /\ archived' \in [Orders -> BOOLEAN] /\ completedAt' \in [Orders -> BOOLEAN]
  <1>1. HeldIfIdle(w, S) \in Statuses
    BY DEF HeldIfIdle, Statuses, FInv, LInv, OrdersOK
  <1>2. HeldIfIdle(w, S) # status[w] => HeldIfIdle(w, S) = "on_hold" /\ Running(w) \subseteq S
    BY DEF HeldIfIdle
  <1>3. ASSUME HoldIfIdle(w, S)
        PROVE  /\ status' = [status EXCEPT ![w] = HeldIfIdle(w, S)]
               /\ archived' \in [Orders -> BOOLEAN] /\ completedAt' \in [Orders -> BOOLEAN]
    <2>1. CASE HeldIfIdle(w, S) # status[w]
      BY <1>1, <1>2, <1>3, <2>1, Becoming DEF HoldIfIdle
    <2>2. CASE HeldIfIdle(w, S) = status[w]
      BY <1>3, <2>2, Same DEF HoldIfIdle, order, FInv, LInv, OrdersOK
    <2>3. QED
      BY <2>1, <2>2
  <1>4. QED
    BY <1>1, <1>2, <1>3

\* The requests on one order.
LEMMA OrderStep ==
  ASSUME FInv, NEW w \in Orders, Order(w)
  PROVE  FInv'
  <1> USE DEF At
  <1>1. CASE ScanStart(w)
    BY <1>1, Same, Becoming, ClosingStep DEF ScanStart, Statuses, Stopping, Finished
  <1>2. CASE Archive(w)
    <2>1. archived' \in [Orders -> BOOLEAN] /\ completedAt' \in [Orders -> BOOLEAN]
      BY <1>2 DEF Archive, FInv, LInv, OrdersOK
    <2>2. QED
      BY <1>2, <2>1, Same, ClosingStep DEF Archive
  <1>3. CASE Restore(w)
    <2>1. archived' \in [Orders -> BOOLEAN] /\ completedAt' \in [Orders -> BOOLEAN]
      BY <1>3 DEF Restore, FInv, LInv, OrdersOK
    <2>2. QED
      BY <1>3, <2>1, Same, ClosingStep DEF Restore
  <1>4. ASSUME NEW S \in SUBSET Clocks, Sweep(w, S) PROVE FInv'
    <2>1. S \in SUBSET Running(w) /\ lock[w] = None /\ Close(S)
      BY <1>4 DEF Sweep, OverCap
    <2>2. archived' \in [Orders -> BOOLEAN] /\ completedAt' \in [Orders -> BOOLEAN]
      BY <1>4 DEF Sweep, FInv, LInv, OrdersOK, order
    <2>3. UNCHANGED <<lock, pend, status, crew>>
      BY <1>4 DEF Sweep, order
    <2>4. QED
      BY <2>1, <2>2, <2>3, Same, ClosingStep
  <1>5. ASSUME NEW C \in SUBSET Workers, NEW s \in Statuses \cup {"keep"}, Update(w, C, s)
        PROVE  FInv'
    <2> DEFINE new == Patched(w, C, s)
               ends == s # "keep" /\ new \in Stopping /\ new # status[w]
               S == IF ends THEN Running(w) ELSE Removed(w, C)
    <2>1. Crewed(w, C) \in Statuses
      BY Same, Holding DEF Crewed
    <2>2. new \in Statuses /\ (new = "created" => C = {}) /\ (new = "assigned" => C # {})
      BY <2>1 DEF Patched, Reconcile, PreWork, Statuses
    <2>3. S \in SUBSET Running(w) /\ \A c \in Running(w) \ S : clock[c].who \in C
      BY Same DEF Removed
    <2>4. ASSUME new \in Stopping \cup Finished PROVE Running(w) \subseteq S
      <3>1. CASE new = status[w]
        BY <2>4, <3>1, Same
      <3>2. CASE new # status[w] /\ s = "keep"
        <4>1. new = Crewed(w, C)
          BY <2>4, <3>2 DEF Patched, Reconcile, Stopping, Finished
        <4>2. Running(w) \subseteq Removed(w, C)
          BY <3>2, <4>1, Holding DEF Crewed
        <4>3. QED
          BY <3>2, <4>2
      <3>3. CASE new # status[w] /\ s # "keep"
        <4>1. CASE new \in Stopping
          BY <3>3, <4>1
        <4>2. CASE new \notin Stopping
          <5>1. new = "review"
            BY <2>4, <4>2 DEF Stopping, Finished
          <5>2. s = "review"
            BY <3>3, <5>1 DEF Patched, Reconcile
          <5>3. status[w] = "completed"
            BY <1>5, <5>2 DEF Update
          <5>4. QED
            BY <5>3, Same DEF Finished
        <4>3. QED
          BY <4>1, <4>2
      <3>4. QED
        BY <3>1, <3>2, <3>3
    <2>5. /\ lock[w] = None /\ UNCHANGED <<archived, lock, pend>> /\ Close(S)
          /\ status' = [status EXCEPT ![w] = new] /\ crew' = [crew EXCEPT ![w] = C]
      BY <1>5 DEF Update
    <2>6. archived' \in [Orders -> BOOLEAN] /\ completedAt' \in [Orders -> BOOLEAN]
      <3>1. completedAt' = [completedAt EXCEPT ![w] = Redated(w, C, s)]
        BY <1>5 DEF Update
      <3>2. Redated(w, C, s) \in BOOLEAN
        <4>1. completedAt[w] \in BOOLEAN
          BY DEF FInv, LInv, OrdersOK
        <4>2. (Patched(w, C, s) \in Finished) \in BOOLEAN
              /\ (Crewed(w, C) = status[w]) \in BOOLEAN
          OBVIOUS
        <4>3. QED
          BY <4>1, <4>2, Zenon DEF Redated, Dated
      <3>3. QED
        BY <2>5, <3>1, <3>2 DEF FInv, LInv, OrdersOK
    <2> HIDE DEF new, S, ends
    <2>7. QED
      BY <2>2, <2>3, <2>4, <2>5, <2>6, ClosingStep
  <1>6. QED
    BY <1>1, <1>2, <1>3, <1>4, <1>5 DEF Order

\* The requests of one worker on one order.
LEMMA TapStep ==
  ASSUME FInv, NEW w \in Orders, NEW u \in Workers, Tap(w, u)
  PROVE  FInv'
  <1> USE DEF At
  <1>0. Running(w) \in SUBSET Running(w)
        /\ \A c \in Running(w) \ Running(w) : clock[c].who \in crew[w]
    OBVIOUS
  <1>1. ASSUME Hold(w, u) PROVE FInv'
    <2>1. lock[w] = None /\ Close(Running(w)) /\ Become(w, "on_hold")
          /\ UNCHANGED <<crew, lock, pend>>
      BY <1>1 DEF Hold
    <2>2. "on_hold" \in Statuses
      BY DEF Statuses
    <2>3. QED
      BY <1>0, <2>1, <2>2, Same, Becoming, ClosingStep
  <1>2. ASSUME Resume(w, u) PROVE FInv'
    BY <1>2, Same, Becoming, ClosingStep DEF Resume, Statuses, Stopping, Finished
  <1>3. ASSUME NEW s \in {"ready_to_complete", "completed"}, Complete(w, u, s) PROVE FInv'
    <2>1. lock[w] = None /\ Close(Running(w)) /\ Become(w, s) /\ UNCHANGED <<crew, lock, pend>>
      BY <1>3 DEF Complete
    <2>2. s \in Statuses /\ s # "created" /\ s # "assigned"
      BY DEF Statuses
    <2>3. QED
      BY <1>0, <2>1, <2>2, Same, Becoming, ClosingStep
  <1>4. ASSUME Stop(w, u) PROVE FInv'
    <2> DEFINE mine == RunningOf(u) \cap Running(w)
               S == mine \cup OverCap(w)
    <2>1. lock[w] = None /\ Close(S) /\ UNCHANGED <<crew, lock, pend>>
          /\ S \in SUBSET Running(w)
      BY <1>4 DEF Stop, OverCap
    <2>2. CASE mine = {}
      <3>1. UNCHANGED order
        BY <1>4, <2>2 DEF Stop
      <3>2. archived' \in [Orders -> BOOLEAN] /\ completedAt' \in [Orders -> BOOLEAN]
        BY <3>1 DEF order, FInv, LInv, OrdersOK
      <3>3. QED
        BY <2>1, <3>1, <3>2, Same, ClosingStep DEF order
    <2>3. CASE mine # {}
      <3>1. HoldIfIdle(w, S)
        BY <1>4, <2>3 DEF Stop
      <3> HIDE DEF S
      <3>2. /\ HeldIfIdle(w, S) \in Statuses
            /\ HeldIfIdle(w, S) # status[w] => HeldIfIdle(w, S) = "on_hold" /\ Running(w) \subseteq S
            /\ status' = [status EXCEPT ![w] = HeldIfIdle(w, S)]
            /\ archived' \in [Orders -> BOOLEAN] /\ completedAt' \in [Orders -> BOOLEAN]
        BY <3>1, Holding
      <3>3. QED
        BY <2>1, <3>2, Same, ClosingStep
    <2>4. QED
      BY <2>2, <2>3
  <1>5. ASSUME StartAgain(w, u) PROVE FInv'
    <2>1. lock[w] = None /\ Close(OverCap(w)) /\ UNCHANGED <<order, crew, lock, pend>>
          /\ OverCap(w) \in SUBSET Running(w)
      BY <1>5 DEF StartAgain, OverCap
    <2>2. archived' \in [Orders -> BOOLEAN] /\ completedAt' \in [Orders -> BOOLEAN]
      BY <2>1 DEF order, FInv, LInv, OrdersOK
    <2>3. QED
      BY <2>1, <2>2, Same, ClosingStep DEF order
  <1>6. ASSUME NEW i \in Clocks, StartFirst(w, u, i) PROVE FInv'
    <2>1. /\ lock[w] = None /\ UNCHANGED <<lock, pend>> /\ clock[i].state = "unused"
          /\ CloseAndOpen(OverCap(w), i, u, w) /\ Become(w, "in_progress")
          /\ crew' = [crew EXCEPT ![w] = crew[w] \cup {u}]
      BY <1>6 DEF StartFirst, Begin, Free
    <2>2. OverCap(w) \in SUBSET Clocks /\ \A c \in OverCap(w) : clock[c].state # "unused"
      BY DEF OverCap, Running
    <2>3. "in_progress" \in Statuses /\ "in_progress" \notin Stopping \cup Finished
      BY DEF Statuses, Stopping, Finished
    <2>4. crew[w] \cup {u} \in SUBSET Workers
          /\ \A c \in Running(w) : clock[c].who \in crew[w] \cup {u}
      BY Same
    <2>5. /\ status' = [status EXCEPT ![w] = "in_progress"]
          /\ archived' \in [Orders -> BOOLEAN] /\ completedAt' \in [Orders -> BOOLEAN]
      BY <2>1, <2>3, Becoming
    <2>6. QED
      BY <2>1, <2>2, <2>3, <2>4, <2>5, LockedStep
  <1>7. QED
    BY <1>1, <1>2, <1>3, <1>4, <1>5, <1>6 DEF Tap

\* The end of a request gives back its locks and nobody else's.
LEMMA Ending ==
  ASSUME FInv, NEW t \in Threads, Done(t),
         \A x \in Orders : lock[x] \in Threads \ {t} => status'[x] = status[x],
         \A c \in Clocks : clock[c].state # "unused" =>
               clock'[c].state # "unused" /\ clock'[c].order = clock[c].order
  PROVE  ThreadsOK' /\ Waiting'
  <1> USE LaborClockAssumption DEF LaborClockAssumption, FInv, LInv
  <1>1. Idle \in Pend
    BY DEF Idle, Pend, Statuses
  <1>2. ThreadsOK'
    BY <1>1 DEF ThreadsOK, Done
  <1>3. ASSUME NEW r \in Threads PROVE Held(r)'
    <2>1. CASE r = t
      BY <2>1 DEF Done, ThreadsOK, Held, Idle
    <2>2. CASE r # t
      <3>1. Held(r) /\ pend'[r] = pend[r]
        BY <2>2 DEF Waiting, Done, ThreadsOK
      <3>2. pend[r].op = "switch" =>
              /\ lock'[pend[r].order] = r
              /\ status'[pend[r].order] = status[pend[r].order]
        BY <2>2, <3>1 DEF Held, Done
      <3>3. QED
        BY <3>1, <3>2, HeldOn DEF ThreadsOK
    <2>3. QED
      BY <2>1, <2>2
  <1>4. QED
    BY <1>2, <1>3 DEF Waiting

\* A step that leaves orders and sessions alone keeps what is said of them.
LEMMA Reading ==
  ASSUME FInv, UNCHANGED <<order, crew, clocks>>
  PROVE  OrdersOK' /\ ClocksOK' /\ Rows' /\ Good'
  <1> USE DEF FInv, LInv, order, clocks
  <1>1. OrdersOK' /\ ClocksOK' /\ Rows'
    BY DEF OrdersOK, ClocksOK, Rows
  <1>2. \A x \in Orders : Running(x)' = Running(x)
    BY DEF Running
  <1>3. Good'
    BY <1>2 DEF Good, StoppedMeansIdle, ChargingIsOnCrew, PreWorkMatchesCrew
  <1>4. QED
    BY <1>1, <1>3

\* The first halves of the split requests.
LEMMA BeginStep ==
  ASSUME FInv, NEW t \in Threads, Begun(t)
  PROVE  FInv'
  <1> USE LaborClockAssumption DEF LaborClockAssumption
  <1>1. ASSUME NEW p \in Pend, pend' = [pend EXCEPT ![t] = p], pend[t] = Idle,
               UNCHANGED <<order, crew, clocks>>, lock' \in [Orders -> Threads \cup {None}],
               \A x \in Orders : lock[x] # None => lock'[x] = lock[x], Held(t)'
        PROVE  FInv'
    <2>1. ThreadsOK'
      BY <1>1 DEF FInv, LInv, ThreadsOK
    <2>2. ASSUME NEW r \in Threads PROVE Held(r)'
      <3>1. CASE r # t
        <4>1. Held(r) /\ pend'[r] = pend[r]
          BY <1>1, <3>1 DEF FInv, LInv, Waiting, ThreadsOK
        <4>2. pend[r].op = "switch" => lock'[pend[r].order] = r
          BY <1>1, <4>1 DEF Held
        <4>3. QED
          BY <1>1, <4>1, <4>2 DEF Held, order, clocks
      <3>2. QED
        BY <1>1, <3>1
    <2>3. QED
      BY <1>1, <2>1, <2>2, Reading DEF FInv, LInv, Waiting
  <1>2. ASSUME NEW w \in Orders, NEW u \in Workers, NEW i \in Clocks, StartSwitch(t, w, u, i)
        PROVE  FInv'
    <2> DEFINE p == [Idle EXCEPT !.op = "switch", !.order = w, !.who = u, !.clock = i,
                                 !.capped = OverCap(w)]
    <2>1. p \in Pend
      BY DEF Idle, Pend, Statuses, OverCap, Running
    <2>2. /\ pend' = [pend EXCEPT ![t] = p] /\ pend[t] = Idle /\ lock' = [lock EXCEPT ![w] = t]
          /\ UNCHANGED <<order, crew, clocks>> /\ lock[w] = None /\ status[w] \in Startable
          /\ clock[i].state = "running" /\ clock[i].order # w
          /\ \A c \in OverCap(w) : c \in Clocks /\ clock[c].state # "unused"
      BY <1>2 DEF StartSwitch, At, Elsewhere, RunningOf, Running, OverCap
    <2>3. Held(t)'
      BY <2>1, <2>2 DEF Held, Idle, FInv, LInv, ThreadsOK, order, clocks
    <2>4. lock' \in [Orders -> Threads \cup {None}] /\ \A x \in Orders : lock[x] # None => lock'[x] = lock[x]
      BY <2>2 DEF FInv, LInv, ThreadsOK
    <2> HIDE DEF p
    <2>5. QED
      BY <1>1, <2>1, <2>2, <2>3, <2>4
  <1>3. ASSUME NEW i \in Clocks, FindClock(t, i) PROVE FInv'
    <2> DEFINE p == [Idle EXCEPT !.op = "punchOut", !.clock = i]
    <2>1. p \in Pend
      BY DEF Idle, Pend, Statuses
    <2>2. Held(t)'
      BY <1>3, <2>1 DEF FindClock, Held, Idle, FInv, LInv, ThreadsOK, order, clocks
    <2>3. QED
      BY <1>1, <1>3, <2>1, <2>2 DEF FindClock, FInv, LInv, ThreadsOK
  <1>4. ASSUME NEW w \in Orders, ReadOrder(t, w) PROVE FInv'
    <2> DEFINE p == [Idle EXCEPT !.op = "activity", !.order = w, !.status = status[w]]
    <2>1. p \in Pend
      BY Same DEF Idle, Pend
    <2>2. Held(t)'
      BY <1>4, <2>1 DEF ReadOrder, Held, Idle, FInv, LInv, ThreadsOK, order, clocks
    <2>3. QED
      BY <1>1, <1>4, <2>1, <2>2 DEF ReadOrder, FInv, LInv, ThreadsOK
  <1>5. QED
    BY <1>2, <1>3, <1>4 DEF Begun

\* The second halves.
LEMMA FinishStep ==
  ASSUME FInv, NEW t \in Threads, Finish(t)
  PROVE  FInv'
  <1> USE LaborClockAssumption DEF LaborClockAssumption
  <1>0. Held(t) /\ Rows /\ pend[t] \in Pend
    BY DEF FInv, LInv, Waiting, ThreadsOK
  <1>1. ASSUME AbortSwitch(t) PROVE FInv'
    BY <1>1, Reading, Ending DEF AbortSwitch, FInv, LInv, order, clocks
  <1>2. ASSUME PunchOut(t) PROVE FInv'
    <2> DEFINE S == {pend[t].clock}
               w == OtherOrder(t)
    <2>1. w \in Orders /\ S \in SUBSET Clocks /\ \A c \in S : clock[c].state # "unused"
      BY <1>0, <1>2 DEF PunchOut, Held, Rows, OtherOrder
    <2>2. lock[w] = None /\ Close(S) /\ HoldIfIdle(w, S) /\ Done(t) /\ UNCHANGED crew
      BY <1>2 DEF PunchOut
    <2> HIDE DEF S, w
    <2>3. /\ HeldIfIdle(w, S) \in Statuses
          /\ HeldIfIdle(w, S) # status[w] => HeldIfIdle(w, S) = "on_hold" /\ Running(w) \subseteq S
          /\ status' = [status EXCEPT ![w] = HeldIfIdle(w, S)]
          /\ archived' \in [Orders -> BOOLEAN] /\ completedAt' \in [Orders -> BOOLEAN]
      BY <2>1, <2>2, Holding
    <2>4. CloseAndOpen(S, None, None, w) /\ None \notin Clocks
      BY <2>2 DEF Close, CloseAndOpen
    <2>5. /\ crew' = [crew EXCEPT ![w] = crew[w]] /\ crew[w] \in SUBSET Workers
          /\ HeldIfIdle(w, S) \in Stopping \cup Finished => Running(w) \subseteq S
          /\ \A c \in Running(w) \ S : clock[c].who \in crew[w]
          /\ HeldIfIdle(w, S) = "created" => crew[w] = {}
          /\ HeldIfIdle(w, S) = "assigned" => crew[w] # {}
      BY <2>1, <2>2, <2>3, Same
    <2>6. /\ OrdersOK' /\ ClocksOK' /\ Rows' /\ Good'
          /\ \A c \in Clocks : clock[c].state # "unused" =>
                clock'[c].state # "unused" /\ clock'[c].order = clock[c].order
      BY <2>1, <2>3, <2>4, <2>5, OneOrder
    <2>7. \A x \in Orders : lock[x] \in Threads \ {t} => status'[x] = status[x]
      BY <2>1, <2>2, <2>3 DEF FInv, LInv, OrdersOK
    <2>8. QED
      BY <2>2, <2>6, <2>7, Ending DEF FInv, LInv
  <1>3. ASSUME LogActivity(t) PROVE FInv'
    <2> DEFINE w == pend[t].order
               s == AfterActivity(pend[t].status)
               new == IF s # pend[t].status THEN s ELSE status[w]
    <2>1. w \in Orders /\ lock[w] = None /\ UNCHANGED <<archived, completedAt, crew, clocks>>
          /\ Done(t)
      BY <1>0, <1>3 DEF LogActivity, Held
    <2>2. new = "in_progress" \/ new = status[w]
      BY DEF AfterActivity
    <2>3. status' = [status EXCEPT ![w] = new]
      BY <1>3, <2>1, Same DEF LogActivity
    <2>4. archived' \in [Orders -> BOOLEAN] /\ completedAt' \in [Orders -> BOOLEAN]
      BY <2>1 DEF FInv, LInv, OrdersOK
    <2> HIDE DEF w, new
    <2>5. /\ new \in Statuses /\ crew' = [crew EXCEPT ![w] = crew[w]]
          /\ crew[w] \in SUBSET Workers
          /\ new \in Stopping \cup Finished => Running(w) \subseteq {}
          /\ \A c \in Running(w) \ {} : clock[c].who \in crew[w]
          /\ new = "created" => crew[w] = {}
          /\ new = "assigned" => crew[w] # {}
          /\ Close({})
      BY <2>1, <2>2, Same DEF Statuses, Stopping, Finished
    <2>6. CloseAndOpen({}, None, None, w) /\ None \notin Clocks
      BY <2>5 DEF Close, CloseAndOpen
    <2>7. /\ OrdersOK' /\ ClocksOK' /\ Rows' /\ Good'
          /\ \A c \in Clocks : clock[c].state # "unused" =>
                clock'[c].state # "unused" /\ clock'[c].order = clock[c].order
      <3> DEFINE Z == {}
      <3>1. /\ CloseAndOpen(Z, None, None, w) /\ Z \in SUBSET Clocks
            /\ \A c \in Z : clock[c].state # "unused"
            /\ new \in Stopping \cup Finished => Running(w) \subseteq Z
            /\ \A c \in Running(w) \ Z : clock[c].who \in crew[w]
        BY <2>5, <2>6
      <3> DEFINE C == crew[w]
      <3>2. /\ C \in SUBSET Workers /\ crew' = [crew EXCEPT ![w] = C]
            /\ \A c \in Running(w) \ Z : clock[c].who \in C
            /\ (new = "created" => C = {}) /\ (new = "assigned" => C # {})
        BY <2>5, <3>1
      <3>3. None \in Clocks => None \in C /\ clock[None].state = "unused" /\ new = "in_progress"
        BY <2>6
      <3>4. new \in Statuses /\ None \in Clocks \cup {None} /\ w \in Orders
        BY <2>1, <2>5
      <3> HIDE DEF Z, C, s
      <3>5. QED
        BY <2>3, <2>4, <3>1, <3>2, <3>3, <3>4, OneOrder
    <2>8. \A x \in Orders : lock[x] \in Threads \ {t} => status'[x] = status[x]
      BY <2>1, <2>3 DEF FInv, LInv, OrdersOK
    <2>9. QED
      BY <2>1, <2>7, <2>8, Ending DEF FInv, LInv
  <1>4. ASSUME NEW i \in Clocks, FinishSwitch(t, i) PROVE FInv'
    <2> DEFINE w == pend[t].order
               b == OtherOrder(t)
               c0 == pend[t].clock
               u == pend[t].who
               S == Closing(t)
               held == HeldIfIdle(b, {c0})
    <2>1. /\ w \in Orders /\ b \in Orders /\ b # w /\ u \in Workers /\ c0 \in Clocks
          /\ S \in SUBSET Clocks /\ \A c \in S : clock[c].state # "unused"
          /\ status[w] \in Startable /\ c0 \in S
      BY <1>0, <1>4 DEF FinishSwitch, Held, Rows, OtherOrder, Closing, Pend
    <2>2. /\ lock[b] = None /\ clock[i].state = "unused" /\ CloseAndOpen(S, i, u, w)
          /\ crew' = [crew EXCEPT ![w] = crew[w] \cup {u}] /\ UNCHANGED archived /\ Done(t)
          /\ status' = [status EXCEPT ![b] = held, ![w] = "in_progress"]
          /\ completedAt' = [completedAt EXCEPT ![b] = Dated(b, held), ![w] = FALSE]
      BY <1>4 DEF FinishSwitch, Begin, Free
    <2> HIDE DEF S
    <2>3. held \in Statuses /\ (held # status[b] => held = "on_hold" /\ Running(b) \subseteq {c0})
      BY <2>1, Holding
    <2> HIDE DEF held, b, c0, w, u
    <2>4. /\ ClocksOK' /\ Rows'
          /\ \A c \in Clocks : clock[c].state # "unused" =>
                /\ clock'[c].state # "unused"
                /\ clock'[c].order = clock[c].order /\ clock'[c].who = clock[c].who
          /\ \A x \in Orders : \A c \in Running(x)' :
                \/ c \in Running(x) \ S /\ clock'[c].who = clock[c].who
                \/ c = i /\ i \in Clocks /\ x = w /\ clock'[c].who = u
      <3>1. ClocksOK /\ Rows
        BY DEF FInv, LInv
      <3>2. i \in Clocks => u \in Workers /\ w \in Orders /\ clock[i].state = "unused"
        BY <2>1, <2>2
      <3>3. \A c \in S : clock[c].state # "unused"
        BY <2>1
      <3>4. CloseAndOpen(S, i, u, w) /\ S \in SUBSET Clocks
        BY <2>1, <2>2
      <3>5. QED
        BY <3>1, <3>2, <3>3, <3>4, Sessions
    <2>5. /\ \A x \in Orders : status'[x] = IF x = w THEN "in_progress" ELSE IF x = b THEN held ELSE status[x]
          /\ \A x \in Orders : crew'[x] = IF x = w THEN crew[w] \cup {u} ELSE crew[x]
      BY <2>1, <2>2 DEF FInv, LInv, OrdersOK
    <2>6. OrdersOK'
      <3>1. Dated(b, held) \in BOOLEAN
        <4>1. completedAt[b] \in BOOLEAN /\ (held = status[b]) \in BOOLEAN
          BY <2>1 DEF FInv, LInv, OrdersOK
        <4>2. QED
          BY <4>1, Zenon DEF Dated
      <3>2. "in_progress" \in Statuses
        BY DEF Statuses
      <3>3. QED
        BY <2>1, <2>2, <2>3, <3>1, <3>2 DEF FInv, LInv, OrdersOK
    <2>7. StoppedMeansIdle'
      <3> SUFFICES ASSUME NEW x \in Orders, status'[x] \in Stopping \cup Finished,
                          NEW c \in Running(x)'
                   PROVE  FALSE
        BY DEF StoppedMeansIdle, Stopping, Finished
      <3>1. x # w
        BY <2>5 DEF Stopping, Finished
      <3>2. c \in Running(x) \ S
        BY <2>4, <3>1
      <3>3. CASE x = b /\ held # status[b]
        BY <2>1, <2>3, <3>2, <3>3
      <3>4. CASE status'[x] = status[x]
        BY <3>2, <3>4 DEF FInv, Good, StoppedMeansIdle
      <3>5. QED
        BY <2>5, <3>1, <3>3, <3>4
    <2>8. ChargingIsOnCrew'
      <3> SUFFICES ASSUME NEW x \in Orders, NEW c \in Running(x)'
                   PROVE  clock'[c].who \in crew'[x]
        BY DEF ChargingIsOnCrew
      <3>1. CASE c \in Running(x) /\ clock'[c].who = clock[c].who
        BY <2>5, <3>1 DEF FInv, Good, ChargingIsOnCrew
      <3>2. CASE x = w /\ clock'[c].who = u
        BY <2>5, <3>2
      <3>3. QED
        BY <2>4, <3>1, <3>2
    <2>9. PreWorkMatchesCrew'
      BY <2>1, <2>3, <2>5 DEF FInv, Good, PreWorkMatchesCrew
    <2>10. \A x \in Orders : lock[x] \in Threads \ {t} => status'[x] = status[x]
      <3>1. lock[w] = t
        BY <1>0, <1>4 DEF FinishSwitch, Held, w
      <3>2. QED
        BY <2>2, <2>5, <3>1
    <2>11. ThreadsOK' /\ Waiting'
      BY <2>2, <2>4, <2>10, Ending
    <2>12. QED
      BY <2>4, <2>6, <2>7, <2>8, <2>9, <2>11 DEF FInv, LInv, Good
  <1>5. QED
    BY <1>1, <1>2, <1>3, <1>4 DEF Finish

LEMMA Invariant == Spec => []FInv
<1>1. Init => FInv
  <2> SUFFICES ASSUME Init PROVE FInv
    OBVIOUS
  <2> USE LaborClockAssumption DEF LaborClockAssumption, Init
  <2>1. OrdersOK
    <3>1. crew \in [Orders -> SUBSET Workers]
      <4>1. {{}} \cup {{u} : u \in Workers} \subseteq SUBSET Workers
        OBVIOUS
      <4>2. QED
        BY <4>1
    <3>2. QED
      BY <3>1 DEF OrdersOK, Statuses
  <2>2. ClocksOK /\ Rows
    BY DEF ClocksOK, Rows, Rec, NoClock
  <2>3. ThreadsOK /\ Waiting
    BY DEF ThreadsOK, Waiting, Pend, Idle, Held, Statuses
  <2>4. \A w \in Orders : Running(w) = {}
    BY DEF Running, NoClock
  <2>5. Good
    BY <2>4 DEF Good, StoppedMeansIdle, ChargingIsOnCrew, PreWorkMatchesCrew
  <2>6. QED
    BY <2>1, <2>2, <2>3, <2>5 DEF FInv, LInv
<1>2. FInv /\ [Next]_vars => FInv'
  <2> SUFFICES ASSUME FInv, [Next]_vars PROVE FInv'
    OBVIOUS
  <2>1. CASE ArchiveLegacy
    <3>1. UNCHANGED <<status, completedAt, crew, clocks, lock, pend>>
          /\ archived' \in [Orders -> BOOLEAN]
      BY <2>1 DEF ArchiveLegacy, FInv, LInv, OrdersOK
    <3>2. \A x \in Orders : Running(x)' = Running(x)
      BY <3>1 DEF Running, clocks
    <3>3. Good' /\ OrdersOK' /\ ClocksOK' /\ Rows'
      BY <3>1, <3>2 DEF FInv, LInv, Good, OrdersOK, ClocksOK, Rows, clocks,
                        StoppedMeansIdle, ChargingIsOnCrew, PreWorkMatchesCrew
    <3>4. ThreadsOK' /\ Waiting'
      BY <3>1 DEF FInv, LInv, ThreadsOK, Waiting, Held, clocks
    <3>5. QED
      BY <3>3, <3>4 DEF FInv, LInv
  <2>2. ASSUME NEW i \in Clocks, Outrun(i) PROVE FInv'
    <3>1. UNCHANGED <<order, billed, crew, lock, pend>>
          /\ clock' = [clock EXCEPT ![i].over = TRUE]
      BY <2>2 DEF Outrun
    <3>2. \A c \in Clocks : /\ clock'[c] \in Rec /\ clock'[c].state = clock[c].state
                            /\ clock'[c].order = clock[c].order /\ clock'[c].who = clock[c].who
      BY <3>1 DEF FInv, LInv, ClocksOK, Rec
    <3>3. \A x \in Orders : Running(x)' = Running(x)
      BY <3>2 DEF Running
    <3>4. Good'
      BY <3>1, <3>2, <3>3 DEF FInv, Good, order, Running,
                              StoppedMeansIdle, ChargingIsOnCrew, PreWorkMatchesCrew
    <3>5. OrdersOK' /\ ThreadsOK'
      BY <3>1 DEF FInv, LInv, OrdersOK, ThreadsOK, order
    <3>6. ClocksOK' /\ Rows'
      BY <3>1, <3>2 DEF FInv, LInv, ClocksOK, Rows
    <3>7. ASSUME NEW t \in Threads PROVE Held(t)'
      <4>1. Held(t) /\ pend[t] \in Pend
        BY DEF FInv, LInv, Waiting, ThreadsOK
      <4>2. QED
        BY <3>1, <3>2, <4>1 DEF Held, order, Pend
    <3>8. QED
      BY <3>4, <3>5, <3>6, <3>7 DEF FInv, LInv, Waiting
  <2>3. CASE UNCHANGED vars
    <3>1. ThreadsOK' /\ Waiting'
      BY <2>3 DEF vars, FInv, LInv, ThreadsOK, Waiting, Held
    <3>2. UNCHANGED <<order, crew, clocks>>
      BY <2>3 DEF vars, order, clocks
    <3>3. QED
      BY <3>1, <3>2, Reading DEF FInv, LInv
  <2>4. QED
    BY <2>1, <2>2, <2>3, OrderStep, TapStep, BeginStep, FinishStep DEF Next
<1>3. QED
  BY <1>1, <1>2, PTL DEF Spec

\* Every request leaves every variable in its type: TypeOK of LaborClock.
THEOREM TypeCorrect == Spec => []TypeOK
<1>1. FInv => TypeOK
  BY Parts DEF FInv, LInv
<1>2. QED
  BY <1>1, Invariant, PTL

\* Whatever requests cross, on however many orders, a paused or finished order
\* has no running clock: StoppedMeansIdle of LaborClock.
THEOREM ClocksFollowOrders == Spec => []StoppedMeansIdle
<1>1. FInv => StoppedMeansIdle
  BY DEF FInv, Good
<1>2. QED
  BY <1>1, Invariant, PTL

\* Whatever requests cross, nobody charges to an order he is off, also when his
\* switch finishes after he was taken off: ChargingIsOnCrew of LaborClock.
THEOREM ChargersAreOnCrew == Spec => []ChargingIsOnCrew
<1>1. FInv => ChargingIsOnCrew
  BY DEF FInv, Good
<1>2. QED
  BY <1>1, Invariant, PTL

\* Whatever requests cross, no order is Created with a crew or Assigned without
\* one: PreWorkMatchesCrew of LaborClock.
THEOREM CrewDecidesPreWork == Spec => []PreWorkMatchesCrew
<1>1. FInv => PreWorkMatchesCrew
  BY DEF FInv, Good
<1>2. QED
  BY <1>1, Invariant, PTL

-----------------------------------------------------------------------------
\* The completion date, without material activity.  It is written from the status
\* its locked step writes, so a status read before (LogActivity) would break it.

NoActivity == \A t \in Threads : pend[t].op # "activity"

LEMMA DatedWith ==
  ASSUME FInv, CompletedAtMatches, NEW w \in Orders, NEW s, Become(w, s)
  PROVE  CompletedAtMatches'
  BY DEF Become, CompletedAtMatches, FInv, LInv, OrdersOK

LEMMA DatedHold ==
  ASSUME FInv, CompletedAtMatches, NEW w \in Orders, NEW S, HoldIfIdle(w, S)
  PROVE  CompletedAtMatches'
  BY DatedWith DEF HoldIfIdle, order, CompletedAtMatches

\* An order that is not In-Progress is not put On-Hold, and one that is has no date.
LEMMA DatedHeld ==
  ASSUME FInv, CompletedAtMatches, NEW w \in Orders, NEW S
  PROVE  Dated(w, HeldIfIdle(w, S)) <=> HeldIfIdle(w, S) \in Finished
  <1>1. completedAt[w] <=> status[w] \in Finished
    BY DEF CompletedAtMatches
  <1>2. CASE HeldIfIdle(w, S) = status[w]
    BY <1>1, <1>2 DEF Dated
  <1>3. CASE HeldIfIdle(w, S) # status[w]
    BY <1>3 DEF Dated, HeldIfIdle, Finished
  <1>4. QED
    BY <1>2, <1>3

LEMMA DatedUpdate ==
  ASSUME FInv, CompletedAtMatches, NEW w \in Orders, NEW C \in SUBSET Workers,
         NEW s \in Statuses \cup {"keep"}, Update(w, C, s)
  PROVE  CompletedAtMatches'
  <1>1. /\ status' = [status EXCEPT ![w] = Patched(w, C, s)]
        /\ completedAt' = [completedAt EXCEPT ![w] = Redated(w, C, s)]
    BY DEF Update
  <1>2. Redated(w, C, s) <=> Patched(w, C, s) \in Finished
    <2>1. CASE s # "keep"
      BY <2>1 DEF Redated
    <2>2. CASE s = "keep"
      <3>1. Dated(w, Crewed(w, C)) <=> Crewed(w, C) \in Finished
        <4>1. CASE crew[w] \subseteq C
          BY <4>1 DEF Crewed, Dated, CompletedAtMatches
        <4>2. CASE ~(crew[w] \subseteq C)
          BY <4>2, DatedHeld DEF Crewed
        <4>3. QED
          BY <4>1, <4>2
      <3>2. Reconcile(Crewed(w, C), C) \in Finished <=> Crewed(w, C) \in Finished
        BY DEF Reconcile, PreWork, Finished
      <3>3. QED
        BY <2>2, <3>1, <3>2 DEF Redated, Patched
    <2>3. QED
      BY <2>1, <2>2
  <1>3. QED
    BY <1>1, <1>2 DEF CompletedAtMatches, FInv, LInv, OrdersOK

LEMMA DatedSwitch ==
  ASSUME FInv, CompletedAtMatches, NEW t \in Threads, NEW i \in Clocks, FinishSwitch(t, i)
  PROVE  CompletedAtMatches'
  <1> DEFINE w == pend[t].order
             b == OtherOrder(t)
             held == HeldIfIdle(b, {pend[t].clock})
  <1>1. w \in Orders /\ b \in Orders /\ b # w
    BY DEF FInv, LInv, Waiting, Rows, FinishSwitch, Held, OtherOrder
  <1>2. /\ status' = [status EXCEPT ![b] = held, ![w] = "in_progress"]
        /\ completedAt' = [completedAt EXCEPT ![b] = Dated(b, held), ![w] = FALSE]
    BY DEF FinishSwitch
  <1>3. Dated(b, held) <=> held \in Finished
    BY <1>1, DatedHeld
  <1> HIDE DEF w, b, held
  <1>4. ASSUME NEW x \in Orders PROVE completedAt'[x] <=> status'[x] \in Finished
    <2>1. CASE x = w
      BY <1>1, <1>2, <2>1 DEF Finished, FInv, LInv, OrdersOK
    <2>2. CASE x = b
      BY <1>1, <1>2, <1>3, <2>2 DEF FInv, LInv, OrdersOK
    <2>3. CASE x # w /\ x # b
      BY <1>1, <1>2, <2>3 DEF CompletedAtMatches, FInv, LInv, OrdersOK
    <2>4. QED
      BY <2>1, <2>2, <2>3
  <1>5. QED
    BY <1>4 DEF CompletedAtMatches

LEMMA DatedStep ==
  ASSUME FInv, "activity" \notin Ops, NoActivity, CompletedAtMatches, [Next]_vars
  PROVE  NoActivity' /\ CompletedAtMatches'
  <1>1. ASSUME UNCHANGED pend \/ \E t \in Threads : Done(t) PROVE NoActivity'
    BY <1>1 DEF NoActivity, Done, Idle, FInv, LInv, ThreadsOK
  <1>2. ASSUME UNCHANGED <<status, completedAt>> PROVE CompletedAtMatches'
    BY <1>2 DEF CompletedAtMatches
  <1>3. ASSUME NEW w \in Orders, Order(w) PROVE NoActivity' /\ CompletedAtMatches'
    <2>1. UNCHANGED pend
      BY <1>3 DEF Order, ScanStart, Archive, Restore, Sweep, Update
    <2>2. CompletedAtMatches'
      BY <1>2, <1>3, DatedWith, DatedUpdate DEF Order, ScanStart, Archive, Restore, Sweep, order
    <2>3. QED
      BY <1>1, <2>1, <2>2
  <1>4. ASSUME NEW w \in Orders, NEW u \in Workers, Tap(w, u)
        PROVE  NoActivity' /\ CompletedAtMatches'
    <2>1. UNCHANGED pend
      BY <1>4 DEF Tap, Hold, Resume, Stop, StartAgain, Complete, StartFirst
    <2>2. ASSUME Stop(w, u) PROVE CompletedAtMatches'
      BY <1>2, <2>2, DatedHold DEF Stop, order
    <2>3. CompletedAtMatches'
      BY <1>2, <1>4, <2>2, DatedWith DEF Tap, Hold, Resume, StartAgain, Complete, StartFirst,
         order
    <2>4. QED
      BY <1>1, <2>1, <2>3
  <1>5. ASSUME NEW t \in Threads, Begun(t) PROVE NoActivity' /\ CompletedAtMatches'
    <2>1. pend'[t].op # "activity" /\ \A r \in Threads : r # t => pend'[r] = pend[r]
      <3>1. ASSUME NEW w \in Orders, NEW u \in Workers, NEW i \in Clocks, StartSwitch(t, w, u, i)
            PROVE  pend'[t].op = "switch" /\ \A r \in Threads : r # t => pend'[r] = pend[r]
        BY <3>1 DEF StartSwitch, Idle, FInv, LInv, ThreadsOK
      <3>2. ASSUME NEW i \in Clocks, FindClock(t, i)
            PROVE  pend'[t].op = "punchOut" /\ \A r \in Threads : r # t => pend'[r] = pend[r]
        BY <3>2 DEF FindClock, Idle, FInv, LInv, ThreadsOK
      <3>3. QED
        BY <1>5, <3>1, <3>2 DEF Begun, ReadOrder
    <2>2. UNCHANGED order
      BY <1>5 DEF Begun, StartSwitch, FindClock, ReadOrder
    <2>3. QED
      BY <1>2, <2>1, <2>2 DEF NoActivity, order
  <1>6. ASSUME NEW t \in Threads, Finish(t) PROVE NoActivity' /\ CompletedAtMatches'
    <2>1. Done(t)
      BY <1>6 DEF Finish, FinishSwitch, AbortSwitch, PunchOut, LogActivity
    <2>2. ASSUME PunchOut(t) PROVE CompletedAtMatches'
      <3>1. OtherOrder(t) \in Orders
        BY <2>2 DEF PunchOut, FInv, LInv, Waiting, Held, Rows, OtherOrder
      <3>2. QED
        BY <2>2, <3>1, DatedHold DEF PunchOut
    <2>3. ~LogActivity(t)
      BY DEF LogActivity, NoActivity
    <2>4. CompletedAtMatches'
      BY <1>2, <1>6, <2>2, <2>3, DatedSwitch DEF Finish, AbortSwitch, order
    <2>5. QED
      BY <1>1, <2>1, <2>4
  <1>7. ASSUME ArchiveLegacy \/ (\E i \in Clocks : Outrun(i)) \/ UNCHANGED vars
        PROVE  NoActivity' /\ CompletedAtMatches'
    BY <1>1, <1>2, <1>7 DEF ArchiveLegacy, Outrun, vars, order
  <1>8. QED
    BY <1>3, <1>4, <1>5, <1>6, <1>7 DEF Next

\* With material activity not in use, an order has a completion date exactly while
\* it is Completed or in Review, whatever else crosses: CompletedAtMatches.
THEOREM DatesFollowStatus == "activity" \notin Ops => (Spec => []CompletedAtMatches)
<1> SUFFICES ASSUME "activity" \notin Ops PROVE Spec => []CompletedAtMatches
  OBVIOUS
<1>1. Init => NoActivity /\ CompletedAtMatches
  BY DEF Init, NoActivity, Idle, CompletedAtMatches, Finished
<1>2. FInv /\ NoActivity /\ CompletedAtMatches /\ [Next]_vars => NoActivity' /\ CompletedAtMatches'
  BY DatedStep
<1>3. QED
  BY <1>1, <1>2, Invariant, PTL DEF Spec

-----------------------------------------------------------------------------
\* Archived orders, without the bulk archive.  An order that a switch has locked to
\* open a clock on cannot be archived before it does.

SwitchIsLive == \A t \in Threads : pend[t].op = "switch" => ~archived[pend[t].order]

LEMMA ArchivedStep ==
  ASSUME FInv, "archiveLegacy" \notin Ops, SwitchIsLive, ArchivedIsIdle, [Next]_vars
  PROVE  SwitchIsLive' /\ ArchivedIsIdle'
  <1> USE LaborClockAssumption DEF LaborClockAssumption
  <1>1. ASSUME UNCHANGED archived, UNCHANGED pend \/ \E t \in Threads : Done(t)
        PROVE  SwitchIsLive'
    <2>1. ASSUME NEW r \in Threads PROVE pend'[r] = pend[r] \/ pend'[r].op = "none"
      BY <1>1 DEF Done, Idle, FInv, LInv, ThreadsOK
    <2>2. QED
      BY <1>1, <2>1 DEF SwitchIsLive
  \* The sessions in S end, and i starts on an order w that is not archived.
  <1>2. ASSUME NEW S \in SUBSET Clocks, NEW i \in Clocks \cup {None}, NEW u, NEW w,
               CloseAndOpen(S, i, u, w),
               \A c \in S : clock[c].state # "unused",
               i \in Clocks => /\ u \in Workers /\ w \in Orders
                              /\ clock[i].state = "unused" /\ ~archived[w],
               \A x \in Orders : archived'[x] => archived[x] \/ Running(x) \subseteq S
        PROVE  \/ ArchivedIsIdle'
               \/ i \in Clocks /\ archived'[w]
    <2>1. \A x \in Orders : \A c \in Running(x)' :
             c \in Running(x) \ S \/ (i \in Clocks /\ x = w)
      BY <1>2, Sessions DEF FInv, LInv
    <2>2. ASSUME NEW x \in Orders, archived'[x], NEW c \in Running(x)', ~(i \in Clocks /\ archived'[w])
          PROVE  FALSE
      BY <1>2, <2>1, <2>2 DEF ArchivedIsIdle
    <2>3. QED
      BY <2>2 DEF ArchivedIsIdle
  \* The sessions in S end.
  <1>3. ASSUME NEW S \in SUBSET Clocks, Close(S), \A c \in S : clock[c].state # "unused",
               \A x \in Orders : archived'[x] => archived[x] \/ Running(x) \subseteq S
        PROVE  ArchivedIsIdle'
    <2>1. None \notin Clocks /\ CloseAndOpen(S, None, None, None)
      BY <1>3 DEF Close
    <2>2. QED
      BY <1>2, <1>3, <2>1
  <1>4. ASSUME UNCHANGED clocks, \A x \in Orders : archived'[x] => archived[x]
        PROVE  ArchivedIsIdle'
    <2>1. \A x \in Orders : Running(x)' = Running(x)
      BY <1>4 DEF Running, clocks
    <2>2. QED
      BY <1>4, <2>1 DEF ArchivedIsIdle
  <1>5. \A w \in Orders : /\ Running(w) \subseteq Clocks /\ \A c \in Running(w) : clock[c].state # "unused"
                          /\ OverCap(w) \subseteq Running(w)
    BY DEF Running, OverCap
  <1>6. ASSUME NEW w \in Orders, Order(w) PROVE SwitchIsLive' /\ ArchivedIsIdle'
    <2>1. ASSUME Archive(w) PROVE SwitchIsLive' /\ ArchivedIsIdle'
      <3>1. \A x \in Orders : archived'[x] => archived[x] \/ Running(x) \subseteq Running(w)
        BY <2>1 DEF Archive, FInv, LInv, OrdersOK
      <3>2. ArchivedIsIdle'
        BY <1>3, <1>5, <2>1, <3>1 DEF Archive
      <3>3. \A t \in Threads : pend[t].op = "switch" => pend[t].order # w /\ pend[t].order \in Orders
        BY <2>1 DEF Archive, At, FInv, LInv, Waiting, Held
      <3>4. SwitchIsLive'
        BY <2>1, <3>3 DEF SwitchIsLive, Archive, FInv, LInv, OrdersOK
      <3>5. QED
        BY <3>2, <3>4
    <2>2. ASSUME Restore(w) PROVE SwitchIsLive' /\ ArchivedIsIdle'
      <3>1. \A x \in Orders : archived'[x] => archived[x]
        BY <2>2 DEF Restore, FInv, LInv, OrdersOK
      <3>2. \A t \in Threads : pend[t].op = "switch" => pend[t].order \in Orders
        BY DEF FInv, LInv, Waiting, Held
      <3>3. QED
        BY <1>4, <2>2, <3>1, <3>2 DEF SwitchIsLive, Restore
    <2>3. ASSUME ScanStart(w) PROVE SwitchIsLive' /\ ArchivedIsIdle'
      BY <1>1, <1>4, <2>3 DEF ScanStart, Become
    <2>4. ASSUME NEW S \in SUBSET Clocks, Sweep(w, S) PROVE SwitchIsLive' /\ ArchivedIsIdle'
      <3>1. S \subseteq OverCap(w) /\ Close(S) /\ UNCHANGED <<archived, pend>>
        BY <2>4 DEF Sweep, order
      <3>2. QED
        BY <1>1, <1>3, <1>5, <3>1
    <2>5. ASSUME NEW C \in SUBSET Workers, NEW s \in Statuses \cup {"keep"}, Update(w, C, s)
          PROVE  SwitchIsLive' /\ ArchivedIsIdle'
      <3>1. \E S \in SUBSET Running(w) : Close(S) /\ UNCHANGED <<archived, pend>>
        <4>1. Removed(w, C) \subseteq Running(w)
          BY DEF Removed
        <4>2. QED
          BY <2>5, <4>1 DEF Update
      <3>2. QED
        BY <1>1, <1>3, <1>5, <3>1
    <2>6. QED
      BY <1>6, <2>1, <2>2, <2>3, <2>4, <2>5 DEF Order
  <1>7. ASSUME NEW w \in Orders, NEW u \in Workers, Tap(w, u)
        PROVE  SwitchIsLive' /\ ArchivedIsIdle'
    <2>1. ASSUME NEW i \in Clocks, StartFirst(w, u, i) PROVE SwitchIsLive' /\ ArchivedIsIdle'
      <3>1. /\ CloseAndOpen(OverCap(w), i, u, w) /\ clock[i].state = "unused" /\ ~archived[w]
            /\ UNCHANGED <<archived, pend>>
        BY <2>1 DEF StartFirst, At, Begin, Become, Free
      <3>2. QED
        BY <1>1, <1>2, <1>5, <3>1
    <2>2. ASSUME Hold(w, u) \/ Stop(w, u) \/ StartAgain(w, u)
                 \/ \E s \in {"ready_to_complete", "completed"} : Complete(w, u, s)
          PROVE  SwitchIsLive' /\ ArchivedIsIdle'
      <3>1. UNCHANGED <<archived, pend>>
        BY <2>2 DEF Hold, Stop, StartAgain, Complete, HoldIfIdle, Become, order
      <3>2. \E S \in SUBSET Running(w) : Close(S)
        BY <1>5, <2>2 DEF Hold, Stop, StartAgain, Complete
      <3>3. QED
        BY <1>1, <1>3, <1>5, <3>1, <3>2
    <2>3. ASSUME Resume(w, u) PROVE SwitchIsLive' /\ ArchivedIsIdle'
      BY <1>1, <1>4, <2>3 DEF Resume, Become
    <2>4. QED
      BY <1>7, <2>1, <2>2, <2>3 DEF Tap
  <1>8. ASSUME NEW t \in Threads, Begun(t) PROVE SwitchIsLive' /\ ArchivedIsIdle'
    <2>1. UNCHANGED <<archived, clocks>>
      BY <1>8 DEF Begun, StartSwitch, FindClock, ReadOrder, order
    <2>2. ASSUME NEW w \in Orders, NEW u \in Workers, NEW i \in Clocks, StartSwitch(t, w, u, i)
          PROVE  SwitchIsLive'
      BY <2>1, <2>2 DEF StartSwitch, At, Idle, SwitchIsLive, FInv, LInv, ThreadsOK
    <2>3. ASSUME NEW i \in Clocks, FindClock(t, i) PROVE SwitchIsLive'
      BY <2>1, <2>3 DEF FindClock, Idle, SwitchIsLive, FInv, LInv, ThreadsOK
    <2>4. ASSUME NEW w \in Orders, ReadOrder(t, w) PROVE SwitchIsLive'
      BY <2>1, <2>4 DEF ReadOrder, Idle, SwitchIsLive, FInv, LInv, ThreadsOK
    <2>5. QED
      BY <1>4, <1>8, <2>1, <2>2, <2>3, <2>4 DEF Begun
  <1>9. ASSUME NEW t \in Threads, Finish(t) PROVE SwitchIsLive' /\ ArchivedIsIdle'
    <2>1. Done(t) /\ UNCHANGED archived
      BY <1>9 DEF Finish, FinishSwitch, AbortSwitch, PunchOut, LogActivity, HoldIfIdle,
         Become, order
    <2>2. ASSUME NEW i \in Clocks, FinishSwitch(t, i) PROVE ArchivedIsIdle'
      <3> DEFINE w == pend[t].order
                 S == Closing(t)
      <3>1. /\ w \in Orders /\ pend[t].who \in Workers /\ ~archived[w]
            /\ S \in SUBSET Clocks /\ \A c \in S : clock[c].state # "unused"
        BY <2>2 DEF FinishSwitch, SwitchIsLive, FInv, LInv, Waiting, Held, Closing
      <3>2. CloseAndOpen(S, i, pend[t].who, w) /\ clock[i].state = "unused"
        BY <2>2 DEF FinishSwitch, Begin, Free
      <3> HIDE DEF S
      <3>3. QED
        BY <1>2, <2>1, <3>1, <3>2
    <2>3. ASSUME PunchOut(t) PROVE ArchivedIsIdle'
      <3>1. pend[t].clock \in Clocks /\ clock[pend[t].clock].state # "unused"
        BY <2>3 DEF PunchOut, FInv, LInv, Waiting, Held
      <3>2. QED
        BY <1>3, <2>1, <2>3, <3>1 DEF PunchOut
    <2>4. ASSUME AbortSwitch(t) \/ LogActivity(t) PROVE ArchivedIsIdle'
      BY <1>4, <2>1, <2>4 DEF AbortSwitch, LogActivity
    <2>5. QED
      BY <1>1, <1>9, <2>1, <2>2, <2>3, <2>4 DEF Finish
  <1>10. ASSUME NEW i \in Clocks, Outrun(i) PROVE SwitchIsLive' /\ ArchivedIsIdle'
    <2>1. UNCHANGED <<archived, pend>> /\ clock' = [clock EXCEPT ![i].over = TRUE]
      BY <1>10 DEF Outrun, order
    <2>2. \A x \in Orders : Running(x)' = Running(x)
      BY <2>1 DEF Running, FInv, LInv, ClocksOK, Rec
    <2>3. QED
      BY <1>1, <2>1, <2>2 DEF ArchivedIsIdle
  <1>11. CASE UNCHANGED vars
    BY <1>1, <1>4, <1>11 DEF vars, clocks
  <1>12. QED
    BY <1>6, <1>7, <1>8, <1>9, <1>10, <1>11 DEF Next, ArchiveLegacy

\* With the bulk archive not in use, no archived order has a running clock,
\* whatever else crosses: ArchivedIsIdle of LaborClock.
THEOREM ArchiveStopsClocks == "archiveLegacy" \notin Ops => (Spec => []ArchivedIsIdle)
<1> SUFFICES ASSUME "archiveLegacy" \notin Ops PROVE Spec => []ArchivedIsIdle
  OBVIOUS
<1>1. Init => SwitchIsLive /\ ArchivedIsIdle
  BY DEF Init, SwitchIsLive, Idle, ArchivedIsIdle
<1>2. FInv /\ SwitchIsLive /\ ArchivedIsIdle /\ [Next]_vars => SwitchIsLive' /\ ArchivedIsIdle'
  BY ArchivedStep
<1>3. QED
  BY <1>1, <1>2, Invariant, PTL DEF Spec

-----------------------------------------------------------------------------
\* Billing.  A session is billed twice when a request that looked it up before it
\* locked an order closes it after another has (run labor_double_bill).  The two
\* that do are the end of a shift and a switch between orders; on one order, and
\* without shifts ending, every session closed is running under the same lock.

OneLock == "punchOut" \notin Ops /\ \A v, w \in Orders : v = w

NoLookup == \A t \in Threads : pend[t].op \notin {"switch", "punchOut"}

\* The sessions in S, which run, end, and i, an unused row, may start.
LEMMA BilledWith ==
  ASSUME FInv, BilledOnce, NEW S \in SUBSET Clocks, \A c \in S : clock[c].state = "running",
         NEW i, NEW u, NEW w, CloseAndOpen(S, i, u, w), i \in Clocks => clock[i].state = "unused"
  PROVE  BilledOnce'
  <1>1. ASSUME NEW c \in Clocks PROVE billed'[c] = IF clock'[c].state = "ended" THEN 1 ELSE 0
    <2>1. billed[c] = IF clock[c].state = "ended" THEN 1 ELSE 0
      BY DEF BilledOnce
    <2>2. CASE c \in S
      <3>1. clock'[c].state = "ended" /\ billed'[c] = billed[c] + 1
        BY <2>2 DEF CloseAndOpen, FInv, LInv, ClocksOK, Rec
      <3>2. QED
        BY <2>1, <2>2, <3>1
    <2>3. CASE c \notin S /\ c = i
      <3>1. clock'[c].state = "running" /\ billed'[c] = billed[c]
        BY <2>3 DEF CloseAndOpen
      <3>2. QED
        BY <2>1, <2>3, <3>1
    <2>4. CASE c \notin S /\ c # i
      BY <2>1, <2>4 DEF CloseAndOpen
    <2>5. QED
      BY <2>2, <2>3, <2>4
  <1>2. QED
    BY <1>1 DEF BilledOnce

LEMMA BilledStep ==
  ASSUME FInv, OneLock, NoLookup, BilledOnce, [Next]_vars
  PROVE  NoLookup' /\ BilledOnce'
  <1> USE LaborClockAssumption DEF LaborClockAssumption
  <1>1. ASSUME UNCHANGED pend \/ \E t \in Threads : Done(t) PROVE NoLookup'
    BY <1>1 DEF NoLookup, Done, Idle, FInv, LInv, ThreadsOK
  <1>2. ASSUME UNCHANGED clocks PROVE BilledOnce'
    BY <1>2 DEF BilledOnce, clocks
  <1>3. ASSUME NEW w \in Orders, NEW S \in SUBSET Running(w), Close(S) PROVE BilledOnce'
    <2>1. S \in SUBSET Clocks /\ \A c \in S : clock[c].state = "running"
      BY DEF Running
    <2>2. None \notin Clocks /\ CloseAndOpen(S, None, None, None)
      BY <1>3 DEF Close
    <2>3. QED
      BY <2>1, <2>2, BilledWith
  <1>4. \A w \in Orders : OverCap(w) \subseteq Running(w)
    BY DEF OverCap
  <1>5. ASSUME NEW w \in Orders, Order(w) PROVE NoLookup' /\ BilledOnce'
    <2>1. UNCHANGED pend
      BY <1>5 DEF Order, ScanStart, Archive, Restore, Sweep, Update
    <2>2. ASSUME NEW C \in SUBSET Workers, NEW s \in Statuses \cup {"keep"}, Update(w, C, s)
          PROVE  \E S \in SUBSET Running(w) : Close(S)
      <3>1. Removed(w, C) \subseteq Running(w)
        BY DEF Removed
      <3>2. QED
        BY <2>2, <3>1 DEF Update
    <2>3. ASSUME NEW S \in SUBSET Clocks, Sweep(w, S) PROVE S \in SUBSET Running(w) /\ Close(S)
      BY <1>4, <2>3 DEF Sweep
    <2>4. UNCHANGED clocks \/ \E S \in SUBSET Running(w) : Close(S)
      BY <1>5, <2>2, <2>3 DEF Order, ScanStart, Archive, Restore
    <2>5. QED
      BY <1>1, <1>2, <1>3, <2>1, <2>4
  <1>6. ASSUME NEW w \in Orders, NEW u \in Workers, Tap(w, u) PROVE NoLookup' /\ BilledOnce'
    <2>1. UNCHANGED pend
      BY <1>6 DEF Tap, Hold, Resume, Stop, StartAgain, Complete, StartFirst
    <2>2. ASSUME NEW i \in Clocks, StartFirst(w, u, i) PROVE BilledOnce'
      <3>1. CloseAndOpen(OverCap(w), i, u, w) /\ clock[i].state = "unused"
        BY <2>2 DEF StartFirst, Begin, Free
      <3>2. OverCap(w) \in SUBSET Clocks /\ \A c \in OverCap(w) : clock[c].state = "running"
        BY DEF OverCap, Running
      <3>3. QED
        BY <3>1, <3>2, BilledWith
    <2>3. ASSUME Hold(w, u) \/ Stop(w, u) \/ StartAgain(w, u)
                 \/ \E s \in {"ready_to_complete", "completed"} : Complete(w, u, s)
          PROVE  \E S \in SUBSET Running(w) : Close(S)
      BY <1>4, <2>3 DEF Hold, Stop, StartAgain, Complete
    <2>4. ASSUME Resume(w, u) PROVE UNCHANGED clocks
      BY <2>4 DEF Resume
    <2>5. QED
      BY <1>1, <1>2, <1>3, <1>6, <2>1, <2>2, <2>3, <2>4 DEF Tap
  <1>7. ASSUME NEW t \in Threads, Begun(t) PROVE NoLookup' /\ BilledOnce'
    <2>1. UNCHANGED clocks
      BY <1>7 DEF Begun, StartSwitch, FindClock, ReadOrder
    <2>2. ASSUME NEW w \in Orders, NEW u \in Workers, NEW i \in Clocks, StartSwitch(t, w, u, i)
          PROVE  FALSE
      <3>1. i \in Clocks /\ clock[i].state = "running" /\ clock[i].order # w
        BY <2>2 DEF StartSwitch, Elsewhere, RunningOf, Running
      <3>2. clock[i].order \in Orders
        BY <3>1 DEF FInv, LInv, Rows
      <3>3. QED
        BY <3>1, <3>2 DEF OneLock
    <2>3. ASSUME NEW w \in Orders, ReadOrder(t, w) PROVE NoLookup'
      BY <2>3 DEF ReadOrder, Idle, NoLookup, FInv, LInv, ThreadsOK
    <2>4. QED
      BY <1>2, <1>7, <2>1, <2>2, <2>3 DEF Begun, FindClock, OneLock
  <1>8. ASSUME NEW t \in Threads, Finish(t) PROVE NoLookup' /\ BilledOnce'
    <2>1. AbortSwitch(t) \/ LogActivity(t)
      BY <1>8 DEF Finish, FinishSwitch, PunchOut, NoLookup
    <2>2. QED
      BY <1>1, <1>2, <2>1 DEF AbortSwitch, LogActivity
  <1>9. ASSUME NEW i \in Clocks, Outrun(i) PROVE NoLookup' /\ BilledOnce'
    <2>1. UNCHANGED <<billed, pend>> /\ clock' = [clock EXCEPT ![i].over = TRUE]
      BY <1>9 DEF Outrun
    <2>2. \A c \in Clocks : clock'[c].state = clock[c].state
      BY <2>1 DEF FInv, LInv, ClocksOK, Rec
    <2>3. QED
      BY <1>1, <2>1, <2>2 DEF BilledOnce
  <1>10. ASSUME ArchiveLegacy \/ UNCHANGED vars PROVE NoLookup' /\ BilledOnce'
    BY <1>1, <1>2, <1>10 DEF ArchiveLegacy, vars, clocks
  <1>11. QED
    BY <1>5, <1>6, <1>7, <1>8, <1>9, <1>10 DEF Next

\* On one order, and without shifts ending, a session is billed once, when it ends,
\* however many workers, sessions and threads there are: BilledOnce of LaborClock.
THEOREM SessionsAreBilledOnce == OneLock => (Spec => []BilledOnce)
<1> SUFFICES ASSUME OneLock PROVE Spec => []BilledOnce
  OBVIOUS
<1>1. Init => NoLookup /\ BilledOnce
  BY DEF Init, NoLookup, Idle, BilledOnce, NoClock
<1>2. FInv /\ NoLookup /\ BilledOnce /\ [Next]_vars => NoLookup' /\ BilledOnce'
  BY BilledStep
<1>3. QED
  BY <1>1, <1>2, Invariant, PTL DEF Spec

\* The three for one order whose requests are single locked steps, as the run
\* checks them: ClocksHold of LaborClock.
THEOREM OneOrderClocksHold ==
    OneLock /\ {"activity", "archiveLegacy"} \cap Ops = {} => (Spec => []ClocksHold)
<1> SUFFICES ASSUME OneLock, "activity" \notin Ops, "archiveLegacy" \notin Ops
             PROVE  Spec => []ClocksHold
  OBVIOUS
<1>1. BilledOnce /\ CompletedAtMatches /\ ArchivedIsIdle => ClocksHold
  BY DEF ClocksHold
<1>2. Spec => []BilledOnce
  BY SessionsAreBilledOnce
<1>3. Spec => []CompletedAtMatches
  BY DatesFollowStatus
<1>4. Spec => []ArchivedIsIdle
  BY ArchiveStopsClocks
<1>5. QED
  BY <1>1, <1>2, <1>3, <1>4, PTL

-----------------------------------------------------------------------------
(* The sign-in ceremony and its import chain.  A file is handed to one chain, *)
(* once, by the capture that runs; a player is shown for a browser let go only *)
(* when a cancel left it there.                                            *)

CaptureCaptures == Capture!Attempts \X (1..Capture!MaxFiles)
CapturePollSteps == {"none", "rest", "ask", "signed", "watch", "read", "dispatch", "chain", "release",
              "done", "dead", "cut", "stray", "refused"}
CaptureChainSteps == {"off", "import", "orphan", "bad", "mark", "close", "release", "enrich", "start",
               "finish", "unenriched", "raised"}
CaptureChains == [n : 0..nMaxAttempts, file : 0..Capture!MaxFiles, pc : CaptureChainSteps]

CaptureActive(r) == nChain[r].pc \notin {"off", "raised"}

CaptureTInv ==
    /\ nCer \in Capture!Ceremonies /\ nPolling \in [Capture!Attempts -> CapturePollSteps] /\ nLate \in [Capture!Attempts -> BOOLEAN]
    /\ nReleases \in [Capture!Attempts -> Nat] /\ nFiles \in [Capture!Attempts -> 0..Capture!MaxFiles]
    /\ nChain \in [Capture!Runners -> CaptureChains] /\ nImported \in [CaptureCaptures -> Nat]
    /\ nSaved \in Capture!SavedSessions /\ nJob \in Capture!Jobs
    /\ nCer.file # 0 => nCer.n # 0
    /\ nCer.n = 0 => nCer.state = "none"
    /\ \A r \in Capture!Runners : CaptureActive(r) => nChain[r].n \in 1..nCer.n /\ nChain[r].file # 0

\* Nothing exported in n was imported.
CaptureUntouched(n) == \A f \in 1..Capture!MaxFiles : nImported[<<n, f>>] = 0

\* Nothing happened yet to the ceremonies to come, but that a start may have failed.
CaptureToCome ==
    /\ \A a \in Capture!Attempts : a <= nCer.n => nPolling[a] # "none"
    /\ \A a \in Capture!Attempts :
          a > nCer.n => nPolling[a] \in {"none", "stray"} /\ nReleases[a] = 0 /\ CaptureUntouched(a)

\* A chain of a poll task runs while the task waits for it, or was cut loose.
CaptureTasks ==
    \A a \in Capture!Attempts : CaptureActive(a) => nPolling[a] = IF nChain[a].pc = "orphan" THEN "cut" ELSE "chain"

\* A ceremony has one chain at a time, and its stage says so.
CaptureOneChain ==
    /\ \A r, s \in Capture!Runners : CaptureActive(r) /\ CaptureActive(s) /\ nChain[r].n = nChain[s].n => r = s
    /\ \A r \in Capture!Runners : CaptureActive(r) /\ Capture!Ours(r) => nCer.stage \in Capture!Busy

\* A chain that has yet to import finds nothing of its ceremony imported.
CaptureToImport == \A r \in Capture!Runners : nChain[r].pc \in {"import", "orphan", "bad"} => CaptureUntouched(nChain[r].n)

\* What was imported is marked, or its chain is about to, or was cut loose.
CaptureMarked ==
    nCer.n # 0 /\ ~CaptureUntouched(nCer.n) =>
        \/ nCer.consumed
        \/ \E r \in Capture!Runners : Capture!Ours(r) /\ nChain[r].pc = "mark"
        \/ nCer.stage \in Capture!Busy /\ \A r \in Capture!Runners : ~(CaptureActive(r) /\ Capture!Ours(r))

\* Who is about to release a browser has stopped showing it.
CaptureLetting ==
    /\ nCer.shown => nCer.n # 0 /\ nCer.state \in Capture!Open /\ nPolling[nCer.n] # "release"
    /\ \A r \in Capture!Runners : nCer.shown /\ nChain[r].pc = "release" => ~Capture!Ours(r)

CaptureChained == CaptureToCome /\ CaptureTasks /\ CaptureOneChain /\ CaptureToImport /\ CaptureMarked /\ Capture!ImportedOnce
CaptureIInv == CaptureTInv /\ CaptureChained /\ CaptureLetting /\ Capture!StalePlayerWasCut

LEMMA CaptureTypes == ASSUME CaptureIInv PROVE Capture!TypeOK
  BY DEF CaptureIInv, CaptureTInv, Capture!TypeOK, CaptureCaptures, CapturePollSteps,
     Capture!Polling, Capture!Gone, CaptureChains, CaptureChainSteps

LEMMA CaptureInitIInv == ASSUME CaptureConstantsOK, Capture!Init PROVE CaptureIInv
<1>1. CaptureTInv
  BY DEF CaptureConstantsOK, Capture!Init, CaptureTInv, Capture!Idle, CaptureActive,
     Capture!Ceremonies, CapturePollSteps, CaptureChains, CaptureChainSteps,
         Capture!SavedSessions, Capture!Jobs, CaptureCaptures, Capture!Runners, Capture!MaxFiles
<1>2. \A a \in Capture!Attempts : CaptureUntouched(a)
  BY DEF Capture!Init, CaptureUntouched
<1>3. \A r \in Capture!Runners : nChain[r].pc = "off"
  BY DEF Capture!Init, Capture!Idle
<1>4. Capture!ImportedOnce
  BY DEF Capture!Init, Capture!ImportedOnce
<1>5. CaptureChained
  BY <1>2, <1>3, <1>4 DEF Capture!Init, CaptureChained, CaptureToCome, CaptureTasks,
     CaptureOneChain, CaptureToImport, CaptureMarked, CaptureActive, Capture!Runners,
     Capture!Attempts
<1> QED
  BY <1>1, <1>3, <1>5 DEF CaptureIInv, Capture!Init, CaptureLetting, Capture!StalePlayerWasCut

-----------------------------------------------------------------------------
\* The poll task, and whatever else leaves the chains alone.
LEMMA CapturePollKeeps ==
    ASSUME CaptureIInv, UNCHANGED <<nChain, nImported>>, NEW a \in Capture!Attempts, a <= nCer.n,
           nCer'.n = nCer.n, nCer'.stage = nCer.stage, nCer'.consumed = nCer.consumed,
           \A b \in Capture!Attempts \ {a} : nPolling'[b] = nPolling[b] /\ nReleases'[b] = nReleases[b],
           nPolling'[a] = nPolling[a] \/ (nPolling[a] \notin {"chain", "cut"} /\ nPolling'[a] # "none")
    PROVE  CaptureChained'
<1>1. \A n : CaptureUntouched(n)' = CaptureUntouched(n)
  BY DEF CaptureUntouched
<1>2. CaptureToCome'
  BY <1>1 DEF CaptureIInv, CaptureChained, CaptureToCome, CaptureTInv, Capture!Ceremonies,
     Capture!Attempts
<1>3. CaptureTasks'
  BY DEF CaptureIInv, CaptureChained, CaptureTasks, CaptureActive
<1>4. CaptureOneChain' /\ CaptureToImport'
  BY <1>1 DEF CaptureIInv, CaptureChained, CaptureOneChain, CaptureToImport, CaptureActive,
     Capture!Ours
<1>5. CaptureMarked'
  BY <1>1 DEF CaptureIInv, CaptureChained, CaptureMarked, CaptureActive, Capture!Ours
<1> QED
  BY <1>2, <1>3, <1>4, <1>5 DEF CaptureIInv, CaptureChained, Capture!ImportedOnce

LEMMA CaptureLateStep == ASSUME CaptureConstantsOK, CaptureIInv, NEW a \in Capture!Attempts, Capture!Late(a) PROVE CaptureIInv'
<1>1. a <= nCer.n
  BY DEF CaptureIInv, CaptureChained, CaptureToCome, CaptureTInv, Capture!Ceremonies,
     Capture!Attempts, Capture!Late, Capture!Polling
<1>2. CaptureChained'
  BY <1>1, CapturePollKeeps DEF Capture!Late, Capture!chainVars
<1>3. CaptureTInv'
  BY DEF CaptureIInv, CaptureTInv, Capture!Late, Capture!chainVars, CaptureActive
<1> QED
  BY <1>2, <1>3 DEF CaptureIInv, CaptureLetting, Capture!StalePlayerWasCut, Capture!Ours,
     Capture!Late, Capture!chainVars

LEMMA CaptureEndedIs ==
    ASSUME CaptureTInv, NEW s \in {"closed", "cancelled", "timed_out"}
    PROVE  /\ Capture!Ended(s) \in Capture!Ceremonies /\ Capture!Ended(s).n = nCer.n /\ Capture!Ended(s).stage = nCer.stage
           /\ Capture!Ended(s).consumed = nCer.consumed /\ Capture!Ended(s).file = nCer.file
           /\ Capture!Ended(s).state = s /\ ~Capture!Ended(s).shown
  BY DEF CaptureTInv, Capture!Ended, Capture!Ceremonies

LEMMA CaptureTimeoutStep == ASSUME CaptureConstantsOK, CaptureIInv, NEW a \in Capture!Attempts, Capture!Timeout(a) PROVE CaptureIInv'
<1>1. a <= nCer.n
  BY DEF CaptureIInv, CaptureChained, CaptureToCome, CaptureTInv, Capture!Ceremonies,
     Capture!Attempts, Capture!Timeout
<1>2. /\ nCer' \in Capture!Ceremonies /\ nCer'.n = nCer.n /\ nCer'.stage = nCer.stage
      /\ nCer'.consumed = nCer.consumed /\ nCer'.file = nCer.file
      /\ nCer'.shown => nCer' = nCer
      /\ nCer.n = a /\ nPolling'[a] = "release" => ~nCer'.shown
  BY CaptureEndedIs DEF CaptureIInv, CaptureTInv, Capture!Timeout, Capture!Overdue,
     Capture!Goes, CapturePollSteps
<1>3. /\ nPolling' \in [Capture!Attempts -> CapturePollSteps] /\ nPolling[a] \in {"rest", "watch"}
      /\ nPolling'[a] # "none"
      /\ \A b \in Capture!Attempts \ {a} : nPolling'[b] = nPolling[b]
  BY DEF CaptureIInv, CaptureTInv, Capture!Timeout, Capture!Goes, CapturePollSteps
<1>4. UNCHANGED <<nLate, nReleases, nFiles, nChain, nImported, nSaved, nJob>>
  BY DEF Capture!Timeout, Capture!chainVars
<1>5. CaptureChained'
  BY <1>1, <1>2, <1>3, <1>4, CapturePollKeeps
<1>6. CaptureTInv'
  BY <1>1, <1>2, <1>3, <1>4 DEF CaptureIInv, CaptureTInv, CaptureActive, Capture!Attempts,
     Capture!Ceremonies
<1>7. CaptureLetting'
  BY <1>2, <1>3, <1>4 DEF CaptureIInv, CaptureLetting, Capture!Ours, CaptureTInv,
     Capture!Ceremonies, Capture!Attempts
<1>8. Capture!StalePlayerWasCut'
  <2>1. nCer.shown => nCer.n \in Capture!Attempts
    BY DEF CaptureIInv, CaptureLetting, CaptureTInv, Capture!Ceremonies, Capture!Attempts
  <2> QED
    BY <1>2, <1>3, <1>4, <2>1 DEF CaptureIInv, Capture!StalePlayerWasCut
<1> QED
  BY <1>5, <1>6, <1>7, <1>8 DEF CaptureIInv

LEMMA CaptureReleaseOverdueStep ==
    ASSUME CaptureConstantsOK, CaptureIInv, NEW a \in Capture!Attempts, Capture!ReleaseOverdue(a) PROVE CaptureIInv'
<1>1. a <= nCer.n
  BY DEF CaptureIInv, CaptureChained, CaptureToCome, CaptureTInv, Capture!Ceremonies,
     Capture!Attempts, Capture!ReleaseOverdue
<1>2. /\ nPolling' \in [Capture!Attempts -> CapturePollSteps] /\ nReleases' \in [Capture!Attempts -> Nat]
      /\ \A b \in Capture!Attempts \ {a} : nPolling'[b] = nPolling[b] /\ nReleases'[b] = nReleases[b]
      /\ nPolling[a] = "release" /\ nPolling'[a] = "done"
      /\ UNCHANGED <<nCer, nLate, nFiles, nChain, nImported, nSaved, nJob>>
  BY DEF CaptureIInv, CaptureTInv, Capture!ReleaseOverdue, Capture!Goes, CapturePollSteps,
     Capture!chainVars
<1>3. CaptureChained'
  BY <1>1, <1>2, CapturePollKeeps
<1>4. CaptureTInv'
  BY <1>2 DEF CaptureIInv, CaptureTInv, CaptureActive
<1>5. CaptureLetting' /\ Capture!StalePlayerWasCut'
  BY <1>2 DEF CaptureIInv, CaptureLetting, Capture!Ours, Capture!StalePlayerWasCut,
     CaptureTInv, Capture!Ceremonies, Capture!Attempts
<1> QED
  BY <1>3, <1>4, <1>5 DEF CaptureIInv

\* The steps of a poll task that is neither ended nor in a chain.
LEMMA CapturePollStepKeeps ==
    ASSUME CaptureIInv, NEW a \in Capture!Attempts, nPolling[a] \in {"rest", "ask", "signed", "watch", "read", "dispatch"},
           \E pc \in CapturePollSteps \ {"release", "none"} : nPolling' = [nPolling EXCEPT ![a] = pc],
           UNCHANGED <<nReleases, nChain, nImported, nJob>>,
           nLate' \in [Capture!Attempts -> BOOLEAN], nFiles' \in [Capture!Attempts -> 0..Capture!MaxFiles],
           nSaved' \in Capture!SavedSessions, nCer' \in Capture!Ceremonies,
           nCer'.n = nCer.n, nCer'.stage = nCer.stage, nCer'.consumed = nCer.consumed, nCer'.shown = nCer.shown,
           nCer'.state = nCer.state \/ nCer'.state = "signed_in", nCer'.file = nCer.file \/ nCer.n = a
    PROVE  CaptureIInv'
<1>1. a <= nCer.n
  BY DEF CaptureIInv, CaptureChained, CaptureToCome, CaptureTInv, Capture!Ceremonies,
     Capture!Attempts
<1>2. PICK pc \in CapturePollSteps \ {"release", "none"} : nPolling' = [nPolling EXCEPT ![a] = pc]
  OBVIOUS
<1>3. /\ nPolling' \in [Capture!Attempts -> CapturePollSteps] /\ nPolling'[a] \notin {"release", "none"}
      /\ \A b \in Capture!Attempts \ {a} : nPolling'[b] = nPolling[b]
  BY <1>2 DEF CaptureIInv, CaptureTInv
<1>4. CaptureChained'
  BY <1>1, <1>3, CapturePollKeeps
<1>5. CaptureTInv'
  BY <1>1, <1>3 DEF CaptureIInv, CaptureTInv, CaptureActive, Capture!Attempts,
     Capture!Ceremonies
<1>6. CaptureLetting' /\ Capture!StalePlayerWasCut'
  BY <1>3 DEF CaptureIInv, CaptureLetting, Capture!Ours, Capture!StalePlayerWasCut,
     CaptureTInv, Capture!Ceremonies, Capture!Attempts, Capture!Open
<1> QED
  BY <1>4, <1>5, <1>6 DEF CaptureIInv

LEMMA CaptureRestSteps ==
    ASSUME CaptureConstantsOK, CaptureIInv, NEW a \in Capture!Attempts,
           Capture!Ask(a) \/ Capture!NotYet(a) \/ Capture!Dies(a) \/ Capture!Persist(a) \/ Capture!Watch(a) \/ Capture!NoFile(a)
    PROVE  CaptureIInv'
<1>1. /\ nPolling[a] \in {"rest", "ask", "watch", "read"}
      /\ \E pc \in CapturePollSteps \ {"release", "none"} : nPolling' = [nPolling EXCEPT ![a] = pc]
      /\ UNCHANGED <<nCer, nLate, nFiles, nReleases, nChain, nImported, nJob>>
  BY DEF Capture!Ask, Capture!NotYet, Capture!Dies, Capture!Persist, Capture!Watch,
     Capture!NoFile, Capture!Goes, CapturePollSteps, Capture!chainVars
<1>2. [from |-> a, expired |-> FALSE] \in Capture!SavedSessions
  BY DEF Capture!SavedSessions, Capture!Attempts
<1>3. nSaved' = nSaved \/ nSaved' = [from |-> a, expired |-> FALSE]
  BY DEF Capture!Ask, Capture!NotYet, Capture!Dies, Capture!Persist, Capture!Watch,
     Capture!NoFile
<1>4. nSaved' \in Capture!SavedSessions
  BY <1>2, <1>3 DEF CaptureIInv, CaptureTInv
<1> QED
  BY <1>1, <1>4, CapturePollStepKeeps DEF CaptureIInv, CaptureTInv

LEMMA CaptureSignedInStep == ASSUME CaptureConstantsOK, CaptureIInv, NEW a \in Capture!Attempts, Capture!SignedIn(a) PROVE CaptureIInv'
<1>1. /\ nCer' \in Capture!Ceremonies /\ nCer'.n = nCer.n /\ nCer'.stage = nCer.stage
      /\ nCer'.consumed = nCer.consumed /\ nCer'.file = nCer.file /\ nCer'.shown = nCer.shown
      /\ nCer'.state = nCer.state \/ nCer'.state = "signed_in"
  BY DEF Capture!SignedIn, CaptureIInv, CaptureTInv, Capture!Ceremonies, Capture!Open
<1>2. /\ nPolling[a] = "signed" /\ nLate' \in [Capture!Attempts -> BOOLEAN]
      /\ \E pc \in CapturePollSteps \ {"release", "none"} : nPolling' = [nPolling EXCEPT ![a] = pc]
      /\ UNCHANGED <<nFiles, nSaved, nReleases, nChain, nImported, nJob>>
  BY DEF Capture!SignedIn, Capture!Goes, CapturePollSteps, Capture!chainVars, CaptureIInv,
     CaptureTInv
<1> QED
  BY <1>1, <1>2, CapturePollStepKeeps DEF CaptureIInv, CaptureTInv

LEMMA CaptureCaptureStep == ASSUME CaptureConstantsOK, CaptureIInv, NEW a \in Capture!Attempts, Capture!Capture(a) PROVE CaptureIInv'
<1>1. nFiles' \in [Capture!Attempts -> 0..Capture!MaxFiles]
  BY DEF Capture!Capture, CaptureIInv, CaptureTInv, CaptureConstantsOK, Capture!MaxFiles
<1>2. nFiles'[a] \in 0..Capture!MaxFiles
  BY <1>1
<1>3. /\ nCer' \in Capture!Ceremonies /\ nCer'.n = nCer.n /\ nCer'.stage = nCer.stage
      /\ nCer'.consumed = nCer.consumed /\ nCer'.shown = nCer.shown /\ nCer'.state = nCer.state
      /\ nCer'.file = nCer.file \/ nCer.n = a
  BY <1>2 DEF Capture!Capture, CaptureIInv, CaptureTInv, Capture!Ceremonies
<1>4. /\ nPolling[a] = "read"
      /\ \E pc \in CapturePollSteps \ {"release", "none"} : nPolling' = [nPolling EXCEPT ![a] = pc]
      /\ UNCHANGED <<nLate, nSaved, nReleases, nChain, nImported, nJob>>
  BY DEF Capture!Capture, Capture!Goes, CapturePollSteps, Capture!chainVars
<1> QED
  BY <1>1, <1>3, <1>4, CapturePollStepKeeps DEF CaptureIInv, CaptureTInv

-----------------------------------------------------------------------------
(* The chain.                                                              *)

\* A chain is dispatched on what was captured and never imported.
LEMMA CaptureDispatchKeeps ==
    ASSUME CaptureIInv, NEW r \in Capture!Runners, ~Capture!Refused, Capture!Dispatch(r), UNCHANGED <<nLate, nReleases, nFiles, nImported, nSaved, nJob>>,
           ~CaptureActive(r), nPolling' \in [Capture!Attempts -> CapturePollSteps],
           \A a \in Capture!Attempts : nPolling'[a] = IF a = r THEN "chain" ELSE nPolling[a],
           r \in Capture!Attempts => r <= nCer.n /\ nPolling[r] = "dispatch"
    PROVE  CaptureIInv'
<1>1. /\ nCer' \in Capture!Ceremonies /\ nCer'.n = nCer.n /\ nCer'.stage = "importing" /\ nCer'.file = nCer.file
      /\ nCer'.consumed = nCer.consumed /\ nCer'.shown = nCer.shown /\ nCer'.state = nCer.state
      /\ nCer.file # 0 /\ nCer.n # 0 /\ ~nCer.consumed /\ nCer.stage \notin Capture!Busy
  BY DEF CaptureIInv, CaptureTInv, Capture!Dispatch, Capture!Refused, Capture!Ceremonies,
     Capture!Busy
<1>2. /\ nChain' \in [Capture!Runners -> CaptureChains] /\ \A s \in Capture!Runners \ {r} : nChain'[s] = nChain[s]
      /\ nChain'[r].pc = "import" /\ nChain'[r].n = nCer.n /\ nChain'[r].file = nCer.file
  BY DEF CaptureIInv, CaptureTInv, Capture!Dispatch, CaptureChains, CaptureChainSteps,
     Capture!Ceremonies
<1>3. \A s \in Capture!Runners : ~(CaptureActive(s) /\ Capture!Ours(s))
  BY <1>1 DEF CaptureIInv, CaptureChained, CaptureOneChain
<1>4. CaptureUntouched(nCer.n)
  BY <1>1, <1>3 DEF CaptureIInv, CaptureChained, CaptureMarked, CaptureActive
<1>5. \A n : CaptureUntouched(n)' = CaptureUntouched(n)
  BY DEF CaptureUntouched
<1>6. CaptureTInv'
  BY <1>1, <1>2 DEF CaptureIInv, CaptureTInv, CaptureActive, Capture!Ceremonies
<1>7. CaptureToCome'
  BY <1>1, <1>5 DEF CaptureIInv, CaptureChained, CaptureToCome, CaptureTInv,
     Capture!Ceremonies, Capture!Attempts
<1>8. CaptureTasks'
  BY <1>2 DEF CaptureIInv, CaptureChained, CaptureTasks, CaptureActive, Capture!Runners
<1>9. CaptureOneChain'
  BY <1>1, <1>2, <1>3 DEF CaptureIInv, CaptureChained, CaptureOneChain, CaptureActive,
     Capture!Ours, Capture!Busy
<1>10. CaptureToImport'
  BY <1>2, <1>4, <1>5 DEF CaptureIInv, CaptureChained, CaptureToImport
<1>11. CaptureMarked' /\ Capture!ImportedOnce'
  BY <1>1, <1>4, <1>5 DEF CaptureIInv, CaptureChained, CaptureMarked, Capture!ImportedOnce
<1>12. CaptureLetting'
  <2>1. nCer.shown => nCer.n \in Capture!Attempts
    BY DEF CaptureIInv, CaptureLetting, CaptureTInv, Capture!Ceremonies, Capture!Attempts
  <2> QED
    BY <1>1, <1>2, <2>1 DEF CaptureIInv, CaptureLetting, Capture!Ours
<1>13. Capture!StalePlayerWasCut'
  <2>1. nCer.shown => nCer.n \in Capture!Attempts
    BY DEF CaptureIInv, CaptureLetting, CaptureTInv, Capture!Ceremonies, Capture!Attempts
  <2> QED
    BY <1>1, <2>1 DEF CaptureIInv, Capture!StalePlayerWasCut
<1> QED
  BY <1>13, <1>6, <1>7, <1>8, <1>9, <1>10, <1>11, <1>12 DEF CaptureIInv, CaptureChained

LEMMA CaptureDispatchStep ==
    ASSUME CaptureConstantsOK, CaptureIInv, Capture!Press \/ \E a \in Capture!Attempts : Capture!AutoDispatch(a) PROVE CaptureIInv'
<1>1. CASE Capture!Press
  <2>1. Capture!Button \in Capture!Runners /\ Capture!Button \notin Capture!Attempts /\ ~CaptureActive(Capture!Button)
    BY <1>1 DEF Capture!Press, CaptureActive, Capture!Runners, Capture!Button, Capture!Attempts
  <2> QED
    BY <1>1, <2>1, CaptureDispatchKeeps DEF Capture!Press, CaptureIInv, CaptureTInv
<1>2. ASSUME NEW a \in Capture!Attempts, Capture!AutoDispatch(a), ~Capture!Refused PROVE CaptureIInv'
  <2>1. nPolling[a] = "dispatch" /\ ~CaptureActive(a) /\ a <= nCer.n
    BY <1>2 DEF Capture!AutoDispatch, CaptureIInv, CaptureChained, CaptureTasks,
       CaptureActive, CaptureToCome, CaptureTInv, Capture!Ceremonies, Capture!Attempts,
       Capture!Runners
  <2>2. /\ nPolling' \in [Capture!Attempts -> CapturePollSteps]
        /\ \A b \in Capture!Attempts : nPolling'[b] = IF b = a THEN "chain" ELSE nPolling[b]
    BY <1>2 DEF Capture!AutoDispatch, Capture!Goes, CaptureIInv, CaptureTInv, CapturePollSteps
  <2> QED
    BY <1>2, <2>1, <2>2, CaptureDispatchKeeps DEF Capture!AutoDispatch, Capture!Runners
<1>3. ASSUME NEW a \in Capture!Attempts, Capture!AutoDispatch(a), Capture!Refused PROVE CaptureIInv'
  <2>1. /\ nPolling[a] = "dispatch"
        /\ \E pc \in CapturePollSteps \ {"release", "none"} : nPolling' = [nPolling EXCEPT ![a] = pc]
        /\ UNCHANGED <<nCer, nLate, nReleases, nFiles, nChain, nImported, nSaved, nJob>>
    BY <1>3 DEF Capture!AutoDispatch, Capture!Goes, CapturePollSteps
  <2> QED
    BY <2>1, CapturePollStepKeeps DEF CaptureIInv, CaptureTInv
<1> QED
  BY <1>1, <1>2, <1>3

\* A chain that goes on, past its import, keeps its ceremony and its file.
CaptureGoesOn(r, pc) ==
    /\ nChain' \in [Capture!Runners -> CaptureChains] /\ \A s \in Capture!Runners \ {r} : nChain'[s] = nChain[s]
    /\ nChain'[r].pc = pc /\ nChain'[r].n = nChain[r].n /\ nChain'[r].file = nChain[r].file

LEMMA CaptureStepIs ==
    ASSUME CaptureIInv, NEW r \in Capture!Runners, NEW pc \in CaptureChainSteps, Capture!Step(r, pc) PROVE CaptureGoesOn(r, pc)
  BY DEF CaptureIInv, CaptureTInv, Capture!Step, CaptureGoesOn, CaptureChains

LEMMA CaptureChainKeeps ==
    ASSUME CaptureIInv, NEW r \in Capture!Runners, NEW pc \in {"close", "release", "enrich", "start", "finish", "unenriched"},
           CaptureGoesOn(r, pc), UNCHANGED <<nPolling, nLate, nFiles, nImported, nSaved>>, nJob' \in Capture!Jobs,
           CaptureActive(r), nChain[r].pc \notin {"orphan"}, nChain[r].pc = "mark" /\ Capture!Ours(r) => nCer'.consumed,
           nCer' \in Capture!Ceremonies, nCer'.n = nCer.n, nCer'.file = nCer.file, nCer.consumed => nCer'.consumed,
           nCer'.stage = nCer.stage \/ nCer'.stage \in Capture!Busy, nCer'.shown => nCer.shown /\ nCer'.state = nCer.state,
           pc = "release" /\ Capture!Ours(r) => ~nCer'.shown,
           nReleases' \in [Capture!Attempts -> Nat],
           \A a \in Capture!Attempts : nReleases'[a] = nReleases[a] \/ (nChain[r].pc = "release" /\ a = nChain[r].n)
    PROVE  CaptureIInv'
<1>1. \A n : CaptureUntouched(n)' = CaptureUntouched(n)
  BY DEF CaptureUntouched
<1>2. nChain[r].n \in 1..nCer.n
  BY DEF CaptureIInv, CaptureTInv
<1>3. CaptureTInv'
  BY DEF CaptureIInv, CaptureTInv, CaptureActive, CaptureGoesOn
<1>4. CaptureToCome'
  BY <1>1, <1>2 DEF CaptureIInv, CaptureChained, CaptureToCome, CaptureTInv,
     Capture!Ceremonies, Capture!Attempts
<1>5. CaptureTasks'
  BY DEF CaptureIInv, CaptureChained, CaptureTasks, CaptureActive, Capture!Runners,
     CaptureGoesOn
<1>6. CaptureOneChain'
  BY DEF CaptureIInv, CaptureChained, CaptureOneChain, CaptureActive, Capture!Ours,
     CaptureGoesOn
<1>7. CaptureToImport'
  BY <1>1 DEF CaptureIInv, CaptureChained, CaptureToImport, CaptureGoesOn
<1>8. CaptureMarked'
  <2>1. CASE Capture!Ours(r)
    BY <1>1, <2>1 DEF CaptureIInv, CaptureChained, CaptureMarked, CaptureOneChain,
       CaptureGoesOn, Capture!Ours, CaptureActive
  <2>2. CASE ~Capture!Ours(r)
    BY <1>1, <2>2 DEF CaptureIInv, CaptureChained, CaptureMarked, CaptureGoesOn, Capture!Ours,
       CaptureActive
  <2> QED
    BY <2>1, <2>2
<1>9. CaptureLetting'
  BY DEF CaptureIInv, CaptureLetting, Capture!Ours, CaptureGoesOn
<1>10. Capture!StalePlayerWasCut'
  BY DEF CaptureIInv, CaptureLetting, Capture!StalePlayerWasCut, Capture!Ours, CaptureTInv,
     Capture!Ceremonies, Capture!Attempts
<1> QED
  BY <1>3, <1>4, <1>5, <1>6, <1>7, <1>8, <1>9, <1>10 DEF CaptureIInv, CaptureChained,
     Capture!ImportedOnce

LEMMA CaptureMarkStep == ASSUME CaptureConstantsOK, CaptureIInv, NEW r \in Capture!Runners, Capture!Mark(r) PROVE CaptureIInv'
<1>1. CaptureGoesOn(r, "close") /\ nChain[r].pc = "mark" /\ UNCHANGED <<nPolling, nLate, nReleases, nFiles, nImported, nSaved, nJob>>
  BY CaptureStepIs DEF Capture!Mark, CaptureChainSteps
<1>2. /\ nCer' \in Capture!Ceremonies /\ nCer'.n = nCer.n /\ nCer'.file = nCer.file /\ nCer'.state = nCer.state
      /\ nCer'.shown = nCer.shown
      /\ nCer.consumed => nCer'.consumed
  BY DEF Capture!Mark, CaptureIInv, CaptureTInv, Capture!Ceremonies, Capture!Busy
<1>3. (Capture!Ours(r) => nCer'.consumed) /\ (nCer'.stage = nCer.stage \/ nCer'.stage \in Capture!Busy)
  BY DEF Capture!Mark, CaptureIInv, CaptureTInv, Capture!Ceremonies, Capture!Busy
<1> QED
  BY <1>1, <1>2, <1>3, CaptureChainKeeps DEF CaptureIInv, CaptureTInv, CaptureActive

LEMMA CaptureCloseStep == ASSUME CaptureConstantsOK, CaptureIInv, NEW r \in Capture!Runners, Capture!Close(r) PROVE CaptureIInv'
<1>1. nChain[r].pc = "close" /\ UNCHANGED <<nPolling, nLate, nReleases, nFiles, nImported, nSaved, nJob>>
  BY DEF Capture!Close
<1>2. /\ nCer' \in Capture!Ceremonies /\ nCer'.n = nCer.n /\ nCer'.stage = nCer.stage
      /\ nCer'.consumed = nCer.consumed /\ nCer'.file = nCer.file
      /\ nCer'.shown => nCer' = nCer
  BY CaptureEndedIs DEF CaptureIInv, CaptureTInv, Capture!Close
<1>3. CaptureGoesOn(r, "enrich") \/ (CaptureGoesOn(r, "release") /\ ~nCer'.shown)
  BY CaptureStepIs, CaptureEndedIs DEF CaptureIInv, Capture!Close, CaptureChainSteps
<1>4. CASE CaptureGoesOn(r, "enrich")
  BY <1>1, <1>2, <1>4, CaptureChainKeeps DEF CaptureIInv, CaptureTInv, CaptureActive
<1>5. CASE CaptureGoesOn(r, "release") /\ ~nCer'.shown
  BY <1>1, <1>2, <1>5, CaptureChainKeeps DEF CaptureIInv, CaptureTInv, CaptureActive
<1> QED
  BY <1>3, <1>4, <1>5

LEMMA CaptureReleaseStep == ASSUME CaptureConstantsOK, CaptureIInv, NEW r \in Capture!Runners, Capture!Release(r) PROVE CaptureIInv'
<1>1. /\ CaptureGoesOn(r, "enrich") /\ nChain[r].pc = "release"
      /\ UNCHANGED <<nCer, nPolling, nLate, nFiles, nImported, nSaved, nJob>>
  BY CaptureStepIs DEF Capture!Release, CaptureChainSteps
<1>2. nChain[r].n \in Capture!Attempts
  <2>1. nCer.n \in 0..nMaxAttempts /\ nChain[r].n \in 1..nCer.n
    BY <1>1 DEF CaptureIInv, CaptureTInv, CaptureActive, Capture!Ceremonies
  <2> QED
    BY <2>1 DEF Capture!Attempts, CaptureConstantsOK
<1>3. nReleases' \in [Capture!Attempts -> Nat]
  BY <1>2 DEF Capture!Release, CaptureIInv, CaptureTInv
<1>4. \A a \in Capture!Attempts : nReleases'[a] = nReleases[a] \/ a = nChain[r].n
  BY DEF Capture!Release, CaptureIInv, CaptureTInv
<1> QED
  BY <1>1, <1>3, <1>4, CaptureChainKeeps DEF CaptureIInv, CaptureTInv, CaptureActive

LEMMA CaptureEnrichStep == ASSUME CaptureConstantsOK, CaptureIInv, NEW r \in Capture!Runners, Capture!Enrich(r) PROVE CaptureIInv'
<1>1. /\ CaptureGoesOn(r, "start") /\ nChain[r].pc = "enrich"
      /\ UNCHANGED <<nPolling, nLate, nReleases, nFiles, nImported, nSaved, nJob>>
  BY CaptureStepIs DEF Capture!Enrich, CaptureChainSteps
<1>2. /\ nCer' \in Capture!Ceremonies /\ nCer'.n = nCer.n /\ nCer'.file = nCer.file /\ nCer'.state = nCer.state
      /\ nCer'.shown = nCer.shown /\ nCer'.consumed = nCer.consumed
      /\ nCer'.stage = nCer.stage \/ nCer'.stage \in Capture!Busy
  BY DEF Capture!Enrich, CaptureIInv, CaptureTInv, Capture!Ceremonies, Capture!Busy
<1> QED
  BY <1>1, <1>2, CaptureChainKeeps DEF CaptureIInv, CaptureTInv, CaptureActive

LEMMA CaptureBatchStep ==
    ASSUME CaptureConstantsOK, CaptureIInv, NEW r \in Capture!Runners, Capture!StaysUnenriched(r) \/ Capture!StartBatch(r) PROVE CaptureIInv'
<1>1. /\ CaptureGoesOn(r, "unenriched") \/ CaptureGoesOn(r, "finish")
      /\ nChain[r].pc = "start" /\ UNCHANGED <<nCer, nPolling, nLate, nReleases, nFiles, nImported, nSaved>>
  BY CaptureStepIs DEF Capture!StaysUnenriched, Capture!StartBatch, CaptureChainSteps,
     Capture!cerVars
<1>2. nJob' \in Capture!Jobs
  BY DEF Capture!StaysUnenriched, Capture!StartBatch, CaptureIInv, CaptureTInv, Capture!Jobs,
     Capture!SavedSessions
<1>3. CASE CaptureGoesOn(r, "unenriched")
  BY <1>1, <1>2, <1>3, CaptureChainKeeps DEF CaptureIInv, CaptureTInv, CaptureActive
<1>4. CASE CaptureGoesOn(r, "finish")
  BY <1>1, <1>2, <1>4, CaptureChainKeeps DEF CaptureIInv, CaptureTInv, CaptureActive
<1> QED
  BY <1>1, <1>3, <1>4

\* A chain that ends: its runner is free, and its task watches again.
LEMMA CaptureEndKeeps ==
    ASSUME CaptureConstantsOK, CaptureIInv, NEW r \in Capture!Runners, CaptureActive(r),
           nChain' \in [Capture!Runners -> CaptureChains], \A s \in Capture!Runners \ {r} : nChain'[s] = nChain[s],
           nChain'[r].pc \in {"off", "raised"}, nPolling' \in [Capture!Attempts -> CapturePollSteps],
           \A a \in Capture!Attempts :
               nPolling'[a] = nPolling[a] \/ (a = r /\ nPolling[a] = "chain" /\ nPolling'[a] = "watch"),
           UNCHANGED <<nLate, nReleases, nFiles, nSaved, nJob>>,
           nCer' \in Capture!Ceremonies, nCer'.n = nCer.n, nCer'.file = nCer.file, nCer'.consumed = nCer.consumed,
           nCer'.shown => nCer.shown /\ nCer'.state = nCer.state,
           \A s \in Capture!Runners \ {r} : CaptureActive(s) /\ Capture!Ours(s) => nCer'.stage \in Capture!Busy,
           nImported' \in [CaptureCaptures -> Nat], Capture!ImportedOnce',
           \A n : n # nChain[r].n => CaptureUntouched(n)' = CaptureUntouched(n),
           CaptureMarked'
    PROVE  CaptureIInv'
<1>1. ~CaptureActive(r)' /\ nChain'[r].pc \notin {"import", "orphan", "bad", "release"}
  BY DEF CaptureActive
<1>2. nChain[r].n \in 1..nCer.n
  BY DEF CaptureIInv, CaptureTInv
<1>3. CaptureTInv'
  BY <1>1 DEF CaptureIInv, CaptureTInv, CaptureActive
<1>4. CaptureToCome'
  <2>1. \A a \in Capture!Attempts : nPolling[a] \in {"none", "stray"} => nPolling'[a] = nPolling[a]
    OBVIOUS
  <2>2. \A a \in Capture!Attempts : nPolling'[a] = "none" => nPolling[a] = "none"
    OBVIOUS
  <2>3. \A a \in Capture!Attempts : a > nCer.n => a # nChain[r].n
    BY <1>2 DEF CaptureIInv, CaptureTInv, Capture!Ceremonies, Capture!Attempts
  <2> QED
    BY <2>1, <2>2, <2>3 DEF CaptureIInv, CaptureChained, CaptureToCome
<1>5. CaptureTasks'
  BY <1>1 DEF CaptureIInv, CaptureChained, CaptureTasks, CaptureActive, Capture!Runners
<1>6. CaptureOneChain'
  BY <1>1 DEF CaptureIInv, CaptureChained, CaptureOneChain, CaptureActive, Capture!Ours
<1>7. CaptureToImport'
  BY <1>1 DEF CaptureIInv, CaptureChained, CaptureToImport, CaptureOneChain, CaptureActive
<1>8. CaptureLetting'
  <2>1. nCer.shown => nCer.n \in Capture!Attempts
    BY DEF CaptureIInv, CaptureLetting, CaptureTInv, Capture!Ceremonies, Capture!Attempts
  <2> QED
    BY <1>1, <2>1 DEF CaptureIInv, CaptureLetting, Capture!Ours
<1>9. Capture!StalePlayerWasCut'
  <2>1. nCer.shown => nCer.n \in Capture!Attempts
    BY DEF CaptureIInv, CaptureLetting, CaptureTInv, Capture!Ceremonies, Capture!Attempts
  <2> QED
    BY <2>1 DEF CaptureIInv, Capture!StalePlayerWasCut
<1> QED
  BY <1>3, <1>4, <1>5, <1>6, <1>7, <1>8, <1>9 DEF CaptureIInv, CaptureChained

\* The task that ran a chain that ended watches again.
LEMMA CaptureResumesIs ==
    ASSUME CaptureIInv, NEW r \in Capture!Runners, CaptureActive(r), nChain[r].pc # "orphan", Capture!Resumes(r)
    PROVE  /\ nPolling' \in [Capture!Attempts -> CapturePollSteps]
           /\ \A a \in Capture!Attempts :
                  nPolling'[a] = nPolling[a] \/ (a = r /\ nPolling[a] = "chain" /\ nPolling'[a] = "watch")
<1>1. CASE r = Capture!Button
  BY <1>1 DEF Capture!Resumes, CaptureIInv, CaptureTInv
<1>2. CASE r \in Capture!Attempts /\ r # Capture!Button
  <2>1. nPolling' = [nPolling EXCEPT ![r] = "watch"] /\ nPolling[r] = "chain"
    BY <1>2 DEF Capture!Resumes, CaptureIInv, CaptureChained, CaptureTasks
  <2> QED
    BY <1>2, <2>1 DEF CaptureIInv, CaptureTInv, CapturePollSteps
<1> QED
  BY <1>1, <1>2 DEF Capture!Runners

LEMMA CaptureIdleIs == ASSUME CaptureConstantsOK PROVE Capture!Idle \in CaptureChains /\ Capture!Idle.pc = "off"
  BY DEF Capture!Idle, CaptureChains, CaptureChainSteps, Capture!MaxFiles, CaptureConstantsOK

LEMMA CaptureFinishStep == ASSUME CaptureConstantsOK, CaptureIInv, NEW r \in Capture!Runners, Capture!Finish(r) PROVE CaptureIInv'
<1>1. /\ nChain[r].pc \in {"bad", "finish", "unenriched"} /\ nChain' = [nChain EXCEPT ![r] = Capture!Idle]
      /\ UNCHANGED <<nLate, nReleases, nFiles, nImported, nSaved, nJob>>
  BY DEF Capture!Finish, Capture!Back
<1>2. /\ nPolling' \in [Capture!Attempts -> CapturePollSteps]
      /\ \A a \in Capture!Attempts :
             nPolling'[a] = nPolling[a] \/ (a = r /\ nPolling[a] = "chain" /\ nPolling'[a] = "watch")
  BY <1>1, CaptureResumesIs DEF Capture!Finish, Capture!Back, CaptureActive
<1>3. /\ nCer' \in Capture!Ceremonies /\ nCer'.n = nCer.n /\ nCer'.file = nCer.file /\ nCer'.shown = nCer.shown
      /\ nCer'.consumed = nCer.consumed /\ nCer'.state = nCer.state
      /\ ~Capture!Ours(r) => nCer' = nCer
  BY DEF Capture!Finish, CaptureIInv, CaptureTInv, Capture!Ceremonies
<1>4. CaptureActive(r)
  BY <1>1 DEF CaptureActive
<1>5. \A s \in Capture!Runners \ {r} : CaptureActive(s) /\ Capture!Ours(s) => nCer'.stage \in Capture!Busy
  BY <1>3, <1>4 DEF CaptureIInv, CaptureChained, CaptureOneChain, Capture!Ours
<1>6. \A n : CaptureUntouched(n)' = CaptureUntouched(n)
  BY <1>1 DEF CaptureUntouched
<1>7. CaptureMarked'
  <2>1. \A s \in Capture!Runners \ {r} : nChain'[s] = nChain[s]
    BY <1>1 DEF CaptureIInv, CaptureTInv
  <2>2. CASE Capture!Ours(r)
    <3>1. CaptureUntouched(nCer.n) \/ nCer.consumed
      <4>1. nCer.n # 0
        BY <1>4, <2>2 DEF CaptureIInv, CaptureTInv, Capture!Ours
      <4>2. \A s \in Capture!Runners : Capture!Ours(s) /\ nChain[s].pc = "mark" => FALSE
        BY <1>1, <1>4, <2>2 DEF CaptureIInv, CaptureChained, CaptureOneChain, Capture!Ours,
           CaptureActive
      <4> QED
        BY <1>4, <2>2, <4>1, <4>2 DEF CaptureIInv, CaptureChained, CaptureMarked
    <3> QED
      BY <1>3, <1>6, <3>1 DEF CaptureMarked
  <2>3. CASE ~Capture!Ours(r)
    <3>1. \A s \in Capture!Runners : Capture!Ours(s)' /\ CaptureActive(s)' => s # r /\ Capture!Ours(s) /\ CaptureActive(s)
      BY <1>1, <1>3, <2>1, <2>3 DEF Capture!Ours, CaptureActive, Capture!Idle, CaptureIInv,
         CaptureTInv
    <3>2. \A s \in Capture!Runners : Capture!Ours(s) /\ nChain[s].pc = "mark" => Capture!Ours(s)' /\ nChain'[s].pc = "mark"
      BY <1>3, <2>1, <2>3 DEF Capture!Ours
    <3> QED
      BY <1>3, <1>6, <2>3, <3>1, <3>2 DEF CaptureIInv, CaptureChained, CaptureMarked
  <2> QED
    BY <2>2, <2>3
<1>8. /\ nChain' \in [Capture!Runners -> CaptureChains] /\ \A s \in Capture!Runners \ {r} : nChain'[s] = nChain[s]
      /\ nChain'[r].pc = "off"
  BY <1>1, CaptureIdleIs DEF CaptureIInv, CaptureTInv
<1> QED
  BY <1>1, <1>2, <1>3, <1>4, <1>5, <1>6, <1>7, <1>8, CaptureEndKeeps DEF CaptureIInv,
     CaptureTInv, CaptureChained, Capture!ImportedOnce

\* An error the chain does not expect leaves the stage where it was.
LEMMA CaptureRaisesStep == ASSUME CaptureConstantsOK, CaptureIInv, NEW r \in Capture!Runners, Capture!Raises(r) PROVE CaptureIInv'
<1>1. /\ CaptureGoesOn(r, "raised") /\ nChain[r].pc = "start" /\ CaptureActive(r)
      /\ UNCHANGED <<nCer, nLate, nReleases, nFiles, nImported, nSaved, nJob>>
  BY CaptureStepIs DEF Capture!Raises, CaptureChainSteps, CaptureActive
<1>2. /\ nPolling' \in [Capture!Attempts -> CapturePollSteps]
      /\ \A a \in Capture!Attempts :
             nPolling'[a] = nPolling[a] \/ (a = r /\ nPolling[a] = "chain" /\ nPolling'[a] = "watch")
  BY <1>1, CaptureResumesIs DEF Capture!Raises
<1>3. \A s \in Capture!Runners \ {r} : CaptureActive(s) /\ Capture!Ours(s) => nCer.stage \in Capture!Busy
  BY DEF CaptureIInv, CaptureChained, CaptureOneChain
<1>4. \A n : CaptureUntouched(n)' = CaptureUntouched(n)
  BY <1>1 DEF CaptureUntouched
<1>5. CaptureMarked'
  <2>1. \A s \in Capture!Runners : Capture!Ours(s)' = Capture!Ours(s)
    BY <1>1 DEF Capture!Ours, CaptureGoesOn
  <2>2. \A s \in Capture!Runners : CaptureActive(s)' => s # r /\ CaptureActive(s)
    BY <1>1 DEF CaptureActive, CaptureGoesOn
  <2>3. \A s \in Capture!Runners : nChain[s].pc = "mark" => nChain'[s].pc = "mark"
    BY <1>1 DEF CaptureGoesOn
  <2>4. CASE Capture!Ours(r)
    BY <1>1, <2>1, <2>2, <2>4 DEF CaptureIInv, CaptureChained, CaptureOneChain, CaptureMarked,
       Capture!Ours
  <2>5. CASE ~Capture!Ours(r)
    BY <1>1, <1>4, <2>1, <2>2, <2>3, <2>5 DEF CaptureIInv, CaptureChained, CaptureMarked
  <2> QED
    BY <2>4, <2>5
<1> QED
  BY <1>1, <1>2, <1>3, <1>4, <1>5, CaptureEndKeeps DEF CaptureIInv, CaptureTInv,
     CaptureChained, Capture!ImportedOnce, CaptureGoesOn

LEMMA CaptureImportStep ==
    ASSUME CaptureConstantsOK, CaptureIInv, NEW r \in Capture!Runners, NEW good \in BOOLEAN, Capture!Import(r, good) PROVE CaptureIInv'
<1> DEFINE n == nChain[r].n
           f == nChain[r].file
<1>1. /\ nChain[r].pc \in {"import", "orphan"} /\ CaptureActive(r)
      /\ UNCHANGED <<nCer, nPolling, nLate, nReleases, nFiles, nSaved, nJob>>
  BY DEF Capture!Import, CaptureActive, Capture!cerVars
<1>2. n \in Capture!Attempts /\ n \in 1..nCer.n /\ f \in 1..Capture!MaxFiles
  <2>1. nCer.n \in 0..nMaxAttempts /\ n \in 1..nCer.n /\ f \in 0..Capture!MaxFiles /\ f # 0
    BY <1>1 DEF CaptureIInv, CaptureTInv, Capture!Ceremonies, CaptureChains
  <2> QED
    BY <2>1 DEF Capture!Attempts, Capture!MaxFiles, CaptureConstantsOK
<1>3. CaptureUntouched(n)
  BY <1>1 DEF CaptureIInv, CaptureChained, CaptureToImport
<1>4. \/ nImported' = nImported
      \/ good /\ nImported' = [nImported EXCEPT ![<<n, f>>] = @ + 1]
  BY DEF Capture!Import
<1>5. nImported' \in [CaptureCaptures -> Nat] /\ Capture!ImportedOnce' /\ \A m : m # n => CaptureUntouched(m)' = CaptureUntouched(m)
  <2>1. <<n, f>> \in CaptureCaptures /\ nImported[<<n, f>>] = 0
    BY <1>2, <1>3 DEF CaptureUntouched, CaptureCaptures
  <2>2. CASE nImported' = nImported
    BY <2>2 DEF CaptureIInv, CaptureTInv, CaptureChained, Capture!ImportedOnce, CaptureUntouched
  <2>3. CASE nImported' = [nImported EXCEPT ![<<n, f>>] = @ + 1]
    <3>1. nImported' \in [CaptureCaptures -> Nat] /\ \A x \in CaptureCaptures : nImported'[x] = IF x = <<n, f>> THEN 1 ELSE nImported[x]
      BY <2>1, <2>3 DEF CaptureIInv, CaptureTInv
    <3>2. Capture!ImportedOnce'
      BY <3>1 DEF CaptureIInv, CaptureTInv, CaptureChained, Capture!ImportedOnce
    <3>3. ASSUME NEW m, m # n PROVE CaptureUntouched(m)' = CaptureUntouched(m)
      <4>1. \A g \in 1..Capture!MaxFiles : nImported'[<<m, g>>] = nImported[<<m, g>>]
        BY <2>3, <3>3 DEF CaptureIInv, CaptureTInv
      <4> QED
        BY <4>1 DEF CaptureUntouched
    <3> QED
      BY <3>1, <3>2, <3>3
  <2> QED
    BY <1>4, <2>2, <2>3
<1> HIDE DEF n, f
<1>6. CASE nChain[r].pc = "import"
  <2> DEFINE pc == IF good THEN "mark" ELSE "bad"
  <2>1. CaptureGoesOn(r, pc) /\ (pc = "bad" => nImported' = nImported)
    BY <1>6, CaptureStepIs DEF Capture!Import, CaptureChainSteps
  <2>2. CaptureTInv'
    BY <1>1, <1>5, <2>1 DEF CaptureIInv, CaptureTInv, CaptureGoesOn, CaptureActive
  <2>3. CaptureToCome'
    BY <1>1, <1>2, <1>5 DEF CaptureIInv, CaptureChained, CaptureToCome, CaptureTInv,
       Capture!Ceremonies, Capture!Attempts
  <2>4. CaptureTasks'
    BY <1>1, <1>6, <2>1 DEF CaptureIInv, CaptureChained, CaptureTasks, CaptureActive,
       Capture!Runners, CaptureGoesOn
  <2>5. CaptureOneChain'
    BY <1>1, <2>1 DEF CaptureIInv, CaptureChained, CaptureOneChain, CaptureActive,
       Capture!Ours, CaptureGoesOn
  <2>6. CaptureToImport'
    <3>1. \A s \in Capture!Runners \ {r} : nChain[s].pc \in {"import", "orphan", "bad"} => nChain[s].n # n
      BY <1>1 DEF CaptureIInv, CaptureChained, CaptureOneChain, CaptureActive, n
    <3>2. pc = "bad" => \A m : CaptureUntouched(m)' = CaptureUntouched(m)
      BY <2>1 DEF CaptureUntouched
    <3> QED
      BY <1>3, <1>5, <2>1, <3>1, <3>2 DEF CaptureIInv, CaptureChained, CaptureToImport,
         CaptureGoesOn, n
  <2>7. CaptureMarked'
    <3>1. CASE Capture!Ours(r)
      <4>1. CASE pc = "mark"
        BY <1>1, <2>1, <3>1, <4>1 DEF CaptureMarked, Capture!Ours, CaptureGoesOn
      <4>2. CASE pc = "bad"
        BY <1>1, <1>3, <2>1, <3>1, <4>2 DEF CaptureMarked, CaptureUntouched, Capture!Ours, n
      <4> QED
        BY <4>1, <4>2
    <3>2. CASE ~Capture!Ours(r)
      BY <1>1, <1>5, <2>1, <3>2 DEF CaptureIInv, CaptureChained, CaptureMarked, Capture!Ours,
         CaptureActive, CaptureGoesOn, n
    <3> QED
      BY <3>1, <3>2
  <2>8. CaptureLetting' /\ Capture!StalePlayerWasCut'
    BY <1>1, <2>1 DEF CaptureIInv, CaptureLetting, Capture!StalePlayerWasCut, Capture!Ours,
       CaptureGoesOn
  <2> QED
    BY <1>5, <2>2, <2>3, <2>4, <2>5, <2>6, <2>7, <2>8 DEF CaptureIInv, CaptureChained
<1>7. CASE nChain[r].pc = "orphan"
  <2>1. nChain' = [nChain EXCEPT ![r] = Capture!Idle] /\ Capture!Idle.pc = "off"
    BY <1>7 DEF Capture!Import, Capture!Idle
  <2>2. /\ nChain' \in [Capture!Runners -> CaptureChains] /\ \A s \in Capture!Runners \ {r} : nChain'[s] = nChain[s]
        /\ nChain'[r].pc = "off"
    BY <2>1, CaptureIdleIs DEF CaptureIInv, CaptureTInv
  <2>3. CaptureMarked'
    <3>1. CASE Capture!Ours(r)
      BY <1>1, <2>1, <2>2, <3>1 DEF CaptureIInv, CaptureTInv, CaptureChained, CaptureMarked,
         CaptureOneChain, Capture!Ours, CaptureActive
    <3>2. CASE ~Capture!Ours(r)
      <4>1. \A s \in Capture!Runners : CaptureActive(s)' /\ Capture!Ours(s)' => s # r /\ CaptureActive(s) /\ Capture!Ours(s)
        BY <1>1, <2>1, <2>2, <3>2 DEF CaptureActive, Capture!Ours, CaptureIInv, CaptureTInv
      <4>2. \A s \in Capture!Runners : Capture!Ours(s) /\ nChain[s].pc = "mark" => Capture!Ours(s)' /\ nChain'[s].pc = "mark"
        BY <1>1, <2>2, <3>2 DEF Capture!Ours
      <4>3. CaptureUntouched(nCer.n)' = CaptureUntouched(nCer.n)
        BY <1>1, <1>5, <3>2 DEF Capture!Ours, n
      <4> QED
        BY <1>1, <4>1, <4>2, <4>3 DEF CaptureIInv, CaptureChained, CaptureMarked
    <3> QED
      BY <3>1, <3>2
  <2>4. \A s \in Capture!Runners \ {r} : CaptureActive(s) /\ Capture!Ours(s) => nCer'.stage \in Capture!Busy
    BY <1>1 DEF CaptureIInv, CaptureChained, CaptureOneChain
  <2> QED
    BY <1>1, <1>5, <2>2, <2>3, <2>4, CaptureEndKeeps DEF CaptureIInv, CaptureTInv, n
<1> QED
  BY <1>1, <1>6, <1>7

-----------------------------------------------------------------------------
(* The ceremony.                                                           *)

\* A failed start may leave the ceremony before it in place.
LEMMA CaptureStartStep ==
    ASSUME CaptureConstantsOK, CaptureIInv, NEW a \in Capture!Attempts, NEW how \in Capture!Openings, Capture!Start(a, how) PROVE CaptureIInv'
<1>1. /\ a > nCer.n /\ nCer.n \in Nat /\ \A r \in Capture!Runners : CaptureActive(r) => nChain[r].n # a
      /\ UNCHANGED <<nLate, nReleases, nFiles, nChain, nImported, nSaved, nJob>>
  BY DEF Capture!Start, CaptureIInv, CaptureTInv, Capture!Ceremonies, CaptureChained,
     CaptureToCome, Capture!Attempts, Capture!chainVars
<1>2. nPolling[a] = "none" /\ nReleases[a] = 0 /\ CaptureUntouched(a)
  BY <1>1 DEF CaptureIInv, CaptureChained, CaptureToCome, Capture!Start
<1>3. /\ nPolling' \in [Capture!Attempts -> CapturePollSteps]
      /\ nPolling'[a] \in {"rest", "refused", "stray"}
      /\ \A b \in Capture!Attempts \ {a} : nPolling'[b] = nPolling[b]
  BY DEF Capture!Start, Capture!Goes, Capture!Opened, CaptureIInv, CaptureTInv, CapturePollSteps
<1>4. \A m : CaptureUntouched(m)' = CaptureUntouched(m)
  BY <1>1 DEF CaptureUntouched
<1>5. CaptureTasks'
  BY <1>1, <1>2, <1>3 DEF CaptureIInv, CaptureChained, CaptureTasks, CaptureActive
<1>6. CASE how = "raises"
  <2>1. nCer' = nCer /\ nPolling'[a] = "stray"
    BY <1>6 DEF Capture!Start, Capture!Goes, Capture!Opened, CaptureIInv, CaptureTInv
  <2>2. CaptureTInv'
    BY <1>1, <1>3, <2>1 DEF CaptureIInv, CaptureTInv, CaptureActive
  <2>3. CaptureToCome'
    BY <1>1, <1>2, <1>3, <1>4, <2>1 DEF CaptureIInv, CaptureChained, CaptureToCome,
       Capture!Attempts
  <2>4. CaptureOneChain' /\ CaptureToImport' /\ CaptureMarked' /\ Capture!ImportedOnce'
    BY <1>1, <1>4, <2>1 DEF CaptureIInv, CaptureChained, CaptureOneChain, CaptureToImport,
       CaptureMarked, Capture!ImportedOnce, CaptureActive, Capture!Ours
  <2>5. CaptureLetting' /\ Capture!StalePlayerWasCut'
    <3>1. nCer.shown => nCer.n \in Capture!Attempts \ {a}
      BY <1>1 DEF CaptureIInv, CaptureLetting, CaptureTInv, Capture!Ceremonies, Capture!Attempts
    <3> QED
      BY <1>1, <1>3, <2>1, <3>1 DEF CaptureIInv, CaptureLetting, Capture!Ours,
         Capture!StalePlayerWasCut
  <2> QED
    BY <1>5, <2>2, <2>3, <2>4, <2>5 DEF CaptureIInv, CaptureChained
<1>7. CASE how # "raises"
  <2>1. /\ nCer' \in Capture!Ceremonies /\ nCer'.n = a /\ nCer'.file = 0
        /\ nCer'.shown => nCer'.state \in Capture!Open
    <3>1. a \in 0..nMaxAttempts /\ 0 \in 0..Capture!MaxFiles
      BY DEF Capture!Attempts, Capture!MaxFiles, CaptureConstantsOK
    <3>2. CASE how = "opens"
      BY <3>1, <3>2 DEF Capture!Start, Capture!Ceremonies, Capture!Open
    <3>3. CASE how # "opens"
      BY <1>7, <3>1, <3>3 DEF Capture!Start, Capture!Ceremonies
    <3> QED
      BY <3>2, <3>3
  <2>2. CaptureTInv'
    BY <1>1, <1>3, <2>1 DEF CaptureIInv, CaptureTInv, CaptureActive, Capture!Attempts
  <2>3. CaptureToCome'
    BY <1>1, <1>2, <1>3, <1>4, <2>1 DEF CaptureIInv, CaptureChained, CaptureToCome,
       Capture!Start, Capture!Attempts
  <2>4. CaptureOneChain'
    BY <1>1, <2>1 DEF CaptureIInv, CaptureChained, CaptureOneChain, CaptureActive, Capture!Ours
  <2>5. CaptureToImport' /\ CaptureMarked' /\ Capture!ImportedOnce'
    BY <1>1, <1>2, <1>4, <2>1 DEF CaptureIInv, CaptureChained, CaptureToImport, CaptureMarked,
       Capture!ImportedOnce
  <2>6. CaptureLetting' /\ Capture!StalePlayerWasCut'
    BY <1>1, <1>2, <1>3, <2>1 DEF CaptureLetting, Capture!Ours, CaptureActive,
       Capture!Attempts, Capture!StalePlayerWasCut
  <2> QED
    BY <1>5, <2>2, <2>3, <2>4, <2>5, <2>6 DEF CaptureIInv, CaptureChained
<1> QED
  BY <1>6, <1>7

LEMMA CaptureCancelStep == ASSUME CaptureConstantsOK, CaptureIInv, NEW closes \in BOOLEAN, Capture!Cancel(closes) PROVE CaptureIInv'
<1> DEFINE n == nCer.n
<1>1. /\ nCer' \in Capture!Ceremonies /\ nCer'.n = n /\ nCer'.stage = nCer.stage /\ nCer'.file = nCer.file
      /\ nCer'.consumed = nCer.consumed /\ (nCer'.shown => nCer' = nCer)
  BY CaptureEndedIs DEF Capture!Cancel, CaptureIInv, CaptureTInv
<1>2. UNCHANGED <<nLate, nFiles, nImported, nSaved, nJob>>
  BY DEF Capture!Cancel
<1>3. ASSUME n = 0 PROVE FALSE
  BY <1>3 DEF Capture!Cancel, CaptureIInv, CaptureTInv
<1>4. n \in Capture!Attempts /\ n \in Capture!Runners /\ n \in Nat
  BY <1>3 DEF CaptureIInv, CaptureTInv, Capture!Ceremonies, Capture!Attempts, Capture!Runners,
     CaptureConstantsOK
<1>5. /\ nPolling' \in [Capture!Attempts -> CapturePollSteps] /\ nPolling'[n] = "cut"
      /\ \A b \in Capture!Attempts \ {n} : nPolling'[b] = nPolling[b]
  BY <1>4 DEF Capture!Cancel, Capture!Goes, CaptureIInv, CaptureTInv, CapturePollSteps
<1>6. nReleases' \in [Capture!Attempts -> Nat] /\ \A b \in Capture!Attempts \ {n} : nReleases'[b] = nReleases[b]
  BY <1>4 DEF Capture!Cancel, CaptureIInv, CaptureTInv
<1>7. \/ nChain[n].pc \in {"import", "orphan"} /\ nChain' = [nChain EXCEPT ![n].pc = "orphan"]
      \/ nChain[n].pc \notin {"import", "orphan"} /\ nChain' = [nChain EXCEPT ![n] = Capture!Idle]
  <2>1. CASE nChain[n].pc = "orphan"
    <3>1. [nChain[n] EXCEPT !.pc = "orphan"] = nChain[n]
      BY <1>4, <2>1 DEF CaptureIInv, CaptureTInv, CaptureChains
    <3> QED
      BY <2>1, <3>1, <1>4 DEF Capture!Cancel, CaptureIInv, CaptureTInv
  <2>2. CASE nChain[n].pc # "orphan"
    BY <2>2, <1>4 DEF Capture!Cancel, CaptureIInv, CaptureTInv
  <2> QED
    BY <2>1, <2>2
<1>8. /\ nChain' \in [Capture!Runners -> CaptureChains] /\ \A s \in Capture!Runners \ {n} : nChain'[s] = nChain[s]
      /\ \/ nChain[n].pc \in {"import", "orphan"} /\ nChain'[n].pc = "orphan"
            /\ nChain'[n].n = nChain[n].n /\ nChain'[n].file = nChain[n].file
         \/ nChain'[n].pc = "off"
  <2>1. CASE nChain' = [nChain EXCEPT ![n] = Capture!Idle]
    BY <1>4, <2>1, CaptureIdleIs DEF CaptureIInv, CaptureTInv
  <2>2. CASE nChain[n].pc \in {"import", "orphan"} /\ nChain' = [nChain EXCEPT ![n].pc = "orphan"]
    <3>1. Capture!Step(n, "orphan") /\ "orphan" \in CaptureChainSteps
      BY <2>2 DEF Capture!Step, CaptureChainSteps
    <3>2. CaptureGoesOn(n, "orphan")
      BY <1>4, <3>1, CaptureStepIs
    <3> QED
      BY <2>2, <3>2 DEF CaptureGoesOn
  <2> QED
    BY <1>7, <2>1, <2>2
<1> HIDE DEF n
<1>9. \A s \in Capture!Runners : CaptureActive(s)' => CaptureActive(s) /\ nChain'[s].n = nChain[s].n /\ nChain'[s].file = nChain[s].file
  BY <1>4, <1>8 DEF CaptureActive
<1>10. \A m : CaptureUntouched(m)' = CaptureUntouched(m)
  BY <1>2 DEF CaptureUntouched
<1>11. CaptureTInv'
  BY <1>1, <1>2, <1>3, <1>5, <1>6, <1>8, <1>9 DEF CaptureIInv, CaptureTInv, n
<1>12. CaptureToCome'
  BY <1>1, <1>4, <1>5, <1>6, <1>10 DEF CaptureIInv, CaptureChained, CaptureToCome, n
<1>13. CaptureTasks'
  BY <1>4, <1>5, <1>8 DEF CaptureIInv, CaptureChained, CaptureTasks, CaptureActive,
     Capture!Runners
<1>14. CaptureOneChain'
  BY <1>1, <1>9 DEF CaptureIInv, CaptureChained, CaptureOneChain, Capture!Ours, n
<1>15. CaptureToImport'
  BY <1>8, <1>10 DEF CaptureIInv, CaptureChained, CaptureToImport
<1>16. CaptureMarked'
  <2>1. CASE nCer.consumed \/ CaptureUntouched(n)
    BY <1>1, <1>10, <2>1 DEF CaptureMarked, n
  <2>2. ASSUME NEW r \in Capture!Runners, Capture!Ours(r), nChain[r].pc = "mark" PROVE CaptureMarked'
    <3>1. CaptureActive(r) /\ nCer.stage \in Capture!Busy
      BY <2>2 DEF CaptureActive, CaptureIInv, CaptureChained, CaptureOneChain
    <3>2. CASE r = n
      <4>1. nChain'[n].pc = "off"
        BY <1>8, <2>2, <3>2
      <4>2. \A s \in Capture!Runners : ~(CaptureActive(s)' /\ Capture!Ours(s)')
        BY <1>1, <1>9, <2>2, <3>1, <3>2, <4>1 DEF CaptureIInv, CaptureChained,
           CaptureOneChain, Capture!Ours, CaptureActive, n
      <4> QED
        BY <1>1, <3>1, <4>2 DEF CaptureMarked
    <3>3. CASE r # n
      BY <1>1, <1>8, <2>2, <3>3 DEF CaptureMarked, Capture!Ours, n
    <3> QED
      BY <3>2, <3>3
  <2>3. CASE nCer.stage \in Capture!Busy /\ \A r \in Capture!Runners : ~(CaptureActive(r) /\ Capture!Ours(r))
    BY <1>1, <1>9, <2>3 DEF CaptureMarked, Capture!Ours, n
  <2> QED
    BY <1>3, <2>1, <2>2, <2>3 DEF CaptureIInv, CaptureChained, CaptureMarked, n
<1>17. CaptureLetting' /\ Capture!StalePlayerWasCut'
  BY <1>1, <1>4, <1>5, <1>8 DEF CaptureIInv, CaptureLetting, Capture!Ours,
     Capture!StalePlayerWasCut, n
<1> QED
  BY <1>2, <1>11, <1>12, <1>13, <1>14, <1>15, <1>16, <1>17 DEF CaptureIInv, CaptureChained,
     Capture!ImportedOnce


\* Batches by hand, and what becomes of a batch.
LEMMA CaptureJobStep ==
    ASSUME CaptureConstantsOK, CaptureIInv,
           \/ \E from \in 0..nMaxAttempts : Capture!EnrichByHand(from)
           \/ \E end \in {"completed", "authentication_required"} : Capture!BatchEnds(end)
           \/ Capture!GetBatch
    PROVE  CaptureIInv'
<1>1. UNCHANGED <<nCer, nPolling, nLate, nReleases, nFiles, nChain, nImported>>
  BY DEF Capture!EnrichByHand, Capture!BatchEnds, Capture!GetBatch, Capture!cerVars,
     Capture!chainVars
<1>2. nJob' \in Capture!Jobs /\ nSaved' \in Capture!SavedSessions
  <2>1. nJob' = nJob \/ nJob' \in Capture!Jobs
    <3>1. CASE \E from \in 0..nMaxAttempts : Capture!EnrichByHand(from)
      BY <3>1 DEF Capture!EnrichByHand, Capture!Jobs
    <3>2. CASE \E end \in {"completed", "authentication_required"} : Capture!BatchEnds(end)
      BY <3>2 DEF Capture!BatchEnds, Capture!Jobs, CaptureIInv, CaptureTInv
    <3> QED
      BY <3>1, <3>2 DEF Capture!GetBatch
  <2>2. nSaved' = nSaved \/ nSaved' = [nSaved EXCEPT !.expired = TRUE]
    BY DEF Capture!EnrichByHand, Capture!BatchEnds, Capture!GetBatch
  <2> QED
    BY <2>1, <2>2 DEF Capture!SavedSessions, CaptureIInv, CaptureTInv
<1>3. CaptureTInv' /\ CaptureLetting' /\ Capture!StalePlayerWasCut'
  BY <1>1, <1>2 DEF CaptureIInv, CaptureTInv, CaptureActive, CaptureLetting, Capture!Ours,
     Capture!StalePlayerWasCut
<1>4. CaptureChained'
  BY <1>1 DEF CaptureIInv, CaptureChained, CaptureToCome, CaptureTasks, CaptureOneChain,
     CaptureToImport, CaptureMarked, Capture!ImportedOnce, CaptureUntouched, CaptureActive,
     Capture!Ours
<1> QED
  BY <1>3, <1>4 DEF CaptureIInv

LEMMA CaptureStutterStep == ASSUME CaptureIInv, UNCHANGED Capture!vars PROVE CaptureIInv'
<1>1. UNCHANGED <<nCer, nPolling, nLate, nReleases, nFiles, nChain, nImported, nSaved, nJob>>
  BY DEF Capture!vars
<1>2. CaptureChained'
  BY <1>1 DEF CaptureIInv, CaptureChained, CaptureToCome, CaptureTasks, CaptureOneChain,
     CaptureToImport, CaptureMarked, Capture!ImportedOnce, CaptureUntouched, CaptureActive,
     Capture!Ours
<1> QED
  BY <1>1, <1>2 DEF CaptureIInv, CaptureTInv, CaptureActive, CaptureLetting, Capture!Ours,
     Capture!StalePlayerWasCut

LEMMA CaptureNextStep == ASSUME CaptureConstantsOK, CaptureIInv, [Capture!Next]_Capture!vars PROVE CaptureIInv'
<1>1. ASSUME NEW a \in Capture!Attempts, Capture!PollStep(a) PROVE CaptureIInv'
  BY <1>1, CaptureTimeoutStep, CaptureReleaseOverdueStep, CaptureRestSteps,
     CaptureSignedInStep, CaptureCaptureStep, CaptureDispatchStep
     DEF Capture!PollStep
<1>2. ASSUME NEW r \in Capture!Runners, Capture!ChainStep(r) PROVE CaptureIInv'
  BY <1>2, CaptureImportStep, CaptureMarkStep, CaptureCloseStep, CaptureReleaseStep,
     CaptureEnrichStep, CaptureBatchStep, CaptureRaisesStep,
         CaptureFinishStep
     DEF Capture!ChainStep
<1> QED
  BY <1>1, <1>2, CaptureStartStep, CaptureLateStep, CaptureDispatchStep, CaptureCancelStep,
     CaptureJobStep, CaptureStutterStep DEF Capture!Next

LEMMA CaptureInvariant == CaptureConstantsOK => (Capture!Init /\ [][Capture!Next]_Capture!vars => []CaptureIInv)
<1> SUFFICES ASSUME CaptureConstantsOK PROVE Capture!Init /\ [][Capture!Next]_Capture!vars => []CaptureIInv
  OBVIOUS
<1>1. Capture!Init => CaptureIInv
  BY CaptureInitIInv
<1>2. CaptureIInv /\ [Capture!Next]_Capture!vars => CaptureIInv'
  BY CaptureNextStep
<1> QED
  BY <1>1, <1>2, PTL

\* No exported file is imported twice, however the poll task, the button,
\* retries after a failed import and cancels interleave (netfacilities_cloud.py).
THEOREM CaptureFilesAreImportedOnce ==
    CaptureConstantsOK => (Capture!Init /\ [][Capture!Next]_Capture!vars => [](Capture!TypeOK /\ Capture!ImportedOnce))
<1>1. CaptureIInv => Capture!TypeOK /\ Capture!ImportedOnce
  BY CaptureTypes DEF CaptureIInv, CaptureChained
<1> QED
  BY <1>1, CaptureInvariant, PTL

\* The status shows a player for a browser that was let go only after a cancel
\* whose close raised: no deadline, import or new ceremony leaves one behind
\* (netfacilities_cloud_auth.py).
THEOREM CaptureStalePlayersWereCut == CaptureConstantsOK => (Capture!Init /\ [][Capture!Next]_Capture!vars => []Capture!StalePlayerWasCut)
<1>1. CaptureIInv => Capture!StalePlayerWasCut
  BY DEF CaptureIInv
<1> QED
  BY <1>1, CaptureInvariant, PTL

-----------------------------------------------------------------------------
(* The enrichment batch.  Each candidate is counted once, where it came to rest, *)
(* and what a step writes it has read under the same lock.                 *)

EnrichCounts == {"attempted", "invalid", "refused", "lost", "written", "unchanged", "remaining",
           "candidates"}
EnrichCandidates == [id : bRows, number : bNumbers]
EnrichPriorities == {Enrich!Blank} \cup {Enrich!Source(n) : n \in bNumbers}
EnrichBatches == [pc : {"load", "next", "prime", "read", "reprime", "reread", "apply", "done"},
            todo : Seq(EnrichCandidates), priority : EnrichPriorities]

EnrichTInv ==
    /\ bWo \in [bRows -> Enrich!OrderRows] /\ bEdits \in 0..bMaxEdits
    /\ bLosses \in 0..bMaxLosses
    /\ bHome \in BOOLEAN /\ bPrimed \in BOOLEAN
    /\ bBatch \in EnrichBatches /\ bSum \in [EnrichCounts -> Nat]

EnrichUnderWay == {"prime", "read", "reprime", "reread", "apply"}

\* The candidates not asked for yet, and whether one is under way.
EnrichAhead == IF bBatch.pc = "next" THEN Len(bBatch.todo)
         ELSE IF bBatch.pc \in EnrichUnderWay THEN Len(bBatch.todo) - 1 ELSE 0
EnrichBusy == IF bBatch.pc \in EnrichUnderWay THEN 1 ELSE 0

\* The candidate at the head is under way, and every other is counted or to come.
EnrichTally ==
    /\ bBatch.pc = "load" => bSum = Enrich!Zero
    /\ bBatch.pc \in EnrichUnderWay => bBatch.todo # <<>>
    /\ bBatch.pc # "done" => bSum.remaining = 0
    /\ bBatch.pc = "done" /\ bSum.remaining + bSum.lost = 0 => bBatch.todo = <<>>
    /\ bSum.candidates = bSum.attempted + bSum.invalid + bSum.remaining + EnrichAhead
    /\ bSum.attempted = bSum.refused + bSum.lost + bSum.written + bSum.unchanged + EnrichBusy
    /\ bSum.candidates <= Enrich!Cardinality(bRows)

\* What is about to be written was read for the candidate.
EnrichOneCandidate == bBatch.pc = "apply" => bBatch.priority \in {Enrich!Blank, Enrich!Source(Enrich!Candidate.number)}

\* As long as the home context is lost once at most, the second read has it.
EnrichHomes ==
    /\ bPrimed /\ ~bHome => bLosses >= 1
    /\ bBatch.pc = "read" /\ ~bHome => bLosses >= 1
    /\ bBatch.pc \in {"reprime", "reread"} => bLosses >= 1
    /\ bBatch.pc = "reread" /\ ~bHome => bLosses >= 2
    /\ bBatch.pc = "apply" /\ bLosses <= 1 /\ Enrich!Candidate.number \in bUrgent =>
          bBatch.priority = Enrich!Source(Enrich!Candidate.number)

\* While nobody edits, each urgent order without its priority is still to come.
EnrichDue(r) == bWo[r].number \in bUrgent \ bBadNumbers /\ Enrich!IsBlank(bWo[r])
EnrichComes(r) == \E i \in 1..Len(bBatch.todo) :
               bBatch.todo[i].id = r /\ bBatch.todo[i].number = bWo[r].number
EnrichToCome ==
    bEdits = 0 =>
       /\ \A r \in bRows : bWo[r].live
       /\ bLosses <= 1 /\ bSum.remaining + bSum.lost + bSum.refused = 0 /\ bBatch.pc # "load" =>
             \A r \in bRows : EnrichDue(r) => EnrichComes(r)

EnrichIInv == EnrichTInv /\ EnrichTally /\ EnrichOneCandidate /\ EnrichHomes /\ EnrichToCome

EnrichFields ==
    /\ bSum.attempted \in Nat /\ bSum.invalid \in Nat /\ bSum.refused \in Nat
    /\ bSum.lost \in Nat
    /\ bSum.written \in Nat /\ bSum.unchanged \in Nat /\ bSum.remaining \in Nat
    /\ bSum.candidates \in Nat

\* All counts but f stand.
EnrichBeside(f) ==
    /\ f # "attempted" => bSum'.attempted = bSum.attempted
    /\ f # "invalid" => bSum'.invalid = bSum.invalid
    /\ f # "refused" => bSum'.refused = bSum.refused
    /\ f # "lost" => bSum'.lost = bSum.lost
    /\ f # "written" => bSum'.written = bSum.written
    /\ f # "unchanged" => bSum'.unchanged = bSum.unchanged
    /\ f # "remaining" => bSum'.remaining = bSum.remaining
    /\ bSum'.candidates = bSum.candidates

\* A set of the Enrich instance is finite, and as large, as elsewhere.
LEMMA EnrichSizes ==
    ASSUME NEW S
    PROVE  /\ Enrich!IsFiniteSet(S) <=> IsFiniteSet(S)
           /\ Enrich!Cardinality(S) = Cardinality(S)
  BY DEF Enrich!IsFiniteSet, IsFiniteSet, Enrich!Cardinality, Cardinality

LEMMA EnrichFieldsAre == ASSUME EnrichTInv PROVE EnrichFields
  BY DEF EnrichTInv, EnrichCounts, EnrichFields

LEMMA EnrichTypes == ASSUME EnrichConstantsOK, EnrichIInv PROVE Enrich!TypeOK
<1>1. Enrich!Cardinality(bRows) \in Nat
  BY FS_CardinalityType, EnrichSizes DEF EnrichConstantsOK
<1>2. DOMAIN Enrich!Zero = EnrichCounts
  BY DEF Enrich!Zero, EnrichCounts
<1>3. Len(bBatch.todo) \in Nat /\ (bBatch.todo # <<>> => Len(bBatch.todo) >= 1)
  BY DEF EnrichIInv, EnrichTInv, EnrichBatches
<1>4. EnrichFields
  BY EnrichFieldsAre DEF EnrichIInv
<1>7. /\ bSum.attempted <= bSum.candidates /\ bSum.invalid <= bSum.candidates
      /\ bSum.remaining <= bSum.candidates /\ bSum.refused <= bSum.attempted
      /\ bSum.lost <= bSum.attempted /\ bSum.written <= bSum.attempted
      /\ bSum.unchanged <= bSum.attempted /\ bSum.candidates <= Enrich!Cardinality(bRows)
  <2>1. PICK k \in Nat : bSum.candidates = bSum.attempted + bSum.invalid + bSum.remaining + k
    BY <1>3 DEF EnrichIInv, EnrichTally, EnrichAhead, EnrichUnderWay
  <2>2. PICK m \in Nat : bSum.attempted = bSum.refused + bSum.lost + bSum.written + bSum.unchanged + m
    BY DEF EnrichIInv, EnrichTally, EnrichBusy
  <2>3. bSum.candidates <= Enrich!Cardinality(bRows)
    BY DEF EnrichIInv, EnrichTally
  <2> QED
    BY <1>4, <2>1, <2>2, <2>3 DEF EnrichFields
<1>5. \A c \in EnrichCounts : bSum[c] \in 0..Enrich!Cardinality(bRows)
  BY <1>1, <1>4, <1>7 DEF EnrichCounts, EnrichFields
<1>6. bSum \in [DOMAIN Enrich!Zero -> 0..Enrich!Cardinality(bRows)]
  BY <1>2, <1>5 DEF EnrichIInv, EnrichTInv
<1> QED
  BY <1>6 DEF EnrichIInv, EnrichTInv, Enrich!TypeOK, EnrichBatches, EnrichCandidates,
     EnrichPriorities

LEMMA EnrichInitIInv == ASSUME EnrichConstantsOK, Enrich!Init PROVE EnrichIInv
<1>1. Enrich!Zero \in [EnrichCounts -> Nat]
  BY DEF Enrich!Zero, EnrichCounts
<1>2. bWo \in [bRows -> Enrich!OrderRows] /\ \A r \in bRows : bWo[r].live
  BY DEF Enrich!Init, Enrich!OrderRows, Enrich!Texts, Enrich!Link, Enrich!Typed, Enrich!Blank
<1>3. bBatch \in EnrichBatches /\ bBatch.pc = "load"
  BY DEF Enrich!Init, EnrichBatches, EnrichPriorities
<1>4. Enrich!Cardinality(bRows) \in Nat
  BY FS_CardinalityType, EnrichSizes DEF EnrichConstantsOK
<1>7. bEdits = 0 /\ bHome = FALSE /\ bLosses = 0 /\ bPrimed = FALSE /\ bSum = Enrich!Zero
  BY DEF Enrich!Init
<1>8. bHome \in BOOLEAN /\ bPrimed \in BOOLEAN
  BY <1>7
<1>9. bEdits \in 0..bMaxEdits /\ bLosses \in 0..bMaxLosses
  BY <1>7 DEF EnrichConstantsOK
<1>5. EnrichTInv
  BY <1>1, <1>2, <1>3, <1>7, <1>8, <1>9, Zenon DEF EnrichTInv
<1>6. EnrichTally
  BY <1>3, <1>4 DEF Enrich!Init, EnrichTally, EnrichAhead, EnrichBusy, Enrich!Zero,
     EnrichUnderWay
<1> QED
  BY <1>2, <1>3, <1>5, <1>6 DEF EnrichIInv, Enrich!Init, EnrichOneCandidate, EnrichHomes,
     EnrichToCome

-----------------------------------------------------------------------------
(* The people, and the source.                                             *)

LEMMA EnrichPeopleStep ==
    ASSUME EnrichConstantsOK, EnrichIInv, NEW r \in bRows, Enrich!Edit(r) \/ Enrich!Shelve(r)
    PROVE  EnrichIInv'
<1>1. bEdits' \in 1..bMaxEdits /\ UNCHANGED <<bHome, bLosses, bPrimed, bBatch, bSum>>
  BY DEF Enrich!Edit, Enrich!Shelve, EnrichIInv, EnrichTInv, EnrichConstantsOK
<1>2. bWo' \in [bRows -> Enrich!OrderRows]
  <2>1. CASE Enrich!Shelve(r)
    BY <2>1 DEF Enrich!Shelve, EnrichIInv, EnrichTInv, Enrich!OrderRows
  <2>2. CASE Enrich!Edit(r)
    <3>1. CASE bWo' = [bWo EXCEPT ![r].description = Enrich!Typed]
      BY <3>1 DEF EnrichIInv, EnrichTInv, Enrich!OrderRows, Enrich!Texts, Enrich!Typed
    <3>2. CASE \E p \in {Enrich!Typed, Enrich!Blank} : bWo' = [bWo EXCEPT ![r].priority = p]
      <4>1. Enrich!Typed \in Enrich!Texts /\ Enrich!Blank \in Enrich!Texts
        BY DEF Enrich!Texts, Enrich!Typed, Enrich!Blank
      <4> QED
        BY <3>2, <4>1 DEF EnrichIInv, EnrichTInv, Enrich!OrderRows
    <3>3. CASE \E n \in bNumbers : bWo' = [bWo EXCEPT ![r].number = n]
      BY <3>3 DEF EnrichIInv, EnrichTInv, Enrich!OrderRows
    <3> QED
      BY <2>2, <3>1, <3>2, <3>3 DEF Enrich!Edit
  <2> QED
    BY <2>1, <2>2
<1>3. EnrichTInv'
  BY <1>1, <1>2 DEF EnrichIInv, EnrichTInv
<1>4. EnrichTally' /\ EnrichOneCandidate' /\ EnrichHomes'
  BY <1>1 DEF EnrichIInv, EnrichTally, EnrichAhead, EnrichBusy, EnrichOneCandidate, EnrichHomes,
     Enrich!Candidate
<1> QED
  BY <1>1, <1>3, <1>4 DEF EnrichIInv, EnrichToCome

LEMMA EnrichForgetStep == ASSUME EnrichConstantsOK, EnrichIInv, Enrich!ForgetHome
                          PROVE  EnrichIInv'
<1>1. bLosses' = bLosses + 1 /\ bLosses' <= bMaxLosses /\ bHome /\ ~bHome'
      /\ UNCHANGED <<bWo, bEdits, bPrimed, bBatch, bSum>>
  BY DEF Enrich!ForgetHome, EnrichIInv, EnrichTInv, EnrichConstantsOK
<1>6. bLosses' \in 0..bMaxLosses
  BY <1>1 DEF EnrichIInv, EnrichTInv, EnrichConstantsOK
<1>7. bHome' \in BOOLEAN
  BY DEF Enrich!ForgetHome
<1>2. EnrichTInv'
  BY <1>1, <1>6, <1>7 DEF EnrichIInv, EnrichTInv
<1>3. EnrichTally' /\ EnrichOneCandidate'
  BY <1>1 DEF EnrichIInv, EnrichTally, EnrichAhead, EnrichBusy, EnrichOneCandidate,
     Enrich!Candidate
<1>4. EnrichHomes'
  BY <1>1 DEF EnrichIInv, EnrichHomes, EnrichTInv, Enrich!Candidate
<1>5. EnrichToCome'
  BY <1>1 DEF EnrichIInv, EnrichToCome, EnrichTInv, EnrichDue, EnrichComes, Enrich!IsBlank
<1> QED
  BY <1>2, <1>3, <1>4, <1>5 DEF EnrichIInv

-----------------------------------------------------------------------------
(* The batch.                                                              *)

LEMMA EnrichQueue ==
    ASSUME NEW S, NEW s \in Seq(S), s # <<>>
    PROVE  /\ Head(s) \in S /\ Head(s) = s[1] /\ Tail(s) \in Seq(S)
           /\ Len(s) \in Nat \ {0} /\ Len(Tail(s)) = Len(s) - 1
           /\ \A i \in 1..Len(s) - 1 : Tail(s)[i] = s[i + 1]
  OBVIOUS

LEMMA EnrichFnLen ==
    ASSUME NEW n \in Nat, NEW S, NEW f \in [1..n -> S] PROVE Len(f) = n /\ f \in Seq(S)
  OBVIOUS

\* A sequence of a set has its elements, each once.
LEMMA EnrichOrdersOf ==
    ASSUME NEW T, NEW S \in SUBSET T, Enrich!IsFiniteSet(S), NEW f \in Enrich!SetToSeqs(S)
    PROVE  f \in Seq(T) /\ Len(f) = Enrich!Cardinality(S)
           /\ \A x \in S : \E i \in 1..Len(f) : f[i] = x
<1> DEFINE n == Enrich!Cardinality(S)
<1>1. n \in Nat
  BY FS_CardinalityType, EnrichSizes
<1>2. f \in [1..n -> S] /\ \A i, j \in 1..n : i # j => f[i] # f[j]
  BY DEF Enrich!SetToSeqs
<1>7. f \in [1..n -> T]
  BY <1>2
<1>3. Len(f) = n /\ f \in Seq(T)
  BY <1>1, <1>7, EnrichFnLen
<1>4. Enrich!Cardinality(1..n) = n
  BY <1>1, FS_Interval, EnrichSizes
<1> HIDE DEF n
<1>5. f \in Injection(1..n, S)
  BY <1>2 DEF Injection, IsInjective, Enrich!IsInjective
<1>6. f \in Surjection(1..n, S)
  BY <1>4, <1>5, FS_Injection, EnrichSizes DEF n
<1> QED
  BY <1>3, <1>6 DEF Surjection, n

LEMMA EnrichLoadStep == ASSUME EnrichConstantsOK, EnrichIInv, Enrich!Load PROVE EnrichIInv'
<1> DEFINE E == {s \in bRows : Enrich!Eligible(bWo[s])}
           S == {[id |-> r, number |-> bWo[r].number] : r \in E}
<1>1. PICK ids \in Enrich!SetToSeqs(S) :
         /\ bBatch' = [bBatch EXCEPT !.pc = "next", !.todo = ids]
         /\ bSum' = [Enrich!Zero EXCEPT !.candidates = Len(ids)]
  BY DEF Enrich!Load
<1>2. bBatch.pc = "load" /\ UNCHANGED <<bWo, bEdits, bHome, bLosses, bPrimed>>
  BY DEF Enrich!Load
<1>3. Enrich!IsFiniteSet(S) /\ Enrich!Cardinality(S) <= Enrich!Cardinality(bRows)
      /\ Enrich!Cardinality(S) \in Nat
  <2> DEFINE f == [x \in S |-> x.id]
  <2>1. f \in Injection(S, bRows)
    BY DEF Injection, IsInjective, Enrich!IsInjective
  <2>2. Enrich!IsFiniteSet(S) /\ Enrich!Cardinality(S) <= Enrich!Cardinality(bRows)
    BY <2>1, FS_Injection, EnrichSizes DEF EnrichConstantsOK
  <2> QED
    BY <2>2, FS_CardinalityType, EnrichSizes
<1>12. \A r \in E : [id |-> r, number |-> bWo[r].number] \in S
  OBVIOUS
<1>4. S \subseteq EnrichCandidates
  BY DEF EnrichIInv, EnrichTInv, Enrich!OrderRows, EnrichCandidates
<1>5. ids \in Seq(EnrichCandidates) /\ Len(ids) = Enrich!Cardinality(S)
      /\ \A x \in S : \E i \in 1..Len(ids) : ids[i] = x
  <2> HIDE DEF S
  <2> QED
    BY <1>1, <1>3, <1>4, EnrichOrdersOf
<1>6. \A r \in E : \E i \in 1..Len(ids) : ids[i].id = r /\ ids[i].number = bWo[r].number
  <2> HIDE DEF S, E
  <2> TAKE r \in E
  <2>1. PICK i \in 1..Len(ids) : ids[i] = [id |-> r, number |-> bWo[r].number]
    BY <1>5, <1>12
  <2> QED
    BY <2>1
<1> HIDE DEF S
<1>7. /\ bBatch' \in EnrichBatches /\ bBatch'.pc = "next" /\ bBatch'.todo = ids
      /\ bSum' \in [EnrichCounts -> Nat] /\ bSum' = [Enrich!Zero EXCEPT !.candidates = Len(ids)]
  <2>1. Enrich!Zero \in [EnrichCounts -> Nat]
    BY DEF Enrich!Zero, EnrichCounts
  <2>2. bSum' \in [EnrichCounts -> Nat]
    BY <1>1, <1>3, <1>5, <2>1
  <2>3. bBatch' \in EnrichBatches /\ bBatch'.pc = "next" /\ bBatch'.todo = ids
    BY <1>1, <1>5 DEF EnrichIInv, EnrichTInv, EnrichBatches
  <2> QED
    BY <1>1, <2>2, <2>3
<1>8. EnrichTInv'
  BY <1>2, <1>7 DEF EnrichIInv, EnrichTInv
<1>9. EnrichTally'
  BY <1>3, <1>5, <1>7 DEF EnrichTally, EnrichAhead, EnrichBusy, Enrich!Zero, EnrichUnderWay
<1>10. EnrichOneCandidate' /\ EnrichHomes'
  BY <1>2, <1>7 DEF EnrichIInv, EnrichOneCandidate, EnrichHomes
<1>11. EnrichToCome'
  BY <1>2, <1>6, <1>7 DEF EnrichIInv, EnrichToCome, EnrichDue, EnrichComes, Enrich!Eligible,
     Enrich!IsBlank
<1> QED
  BY <1>8, <1>9, <1>10, <1>11 DEF EnrichIInv

\* What a step on the candidate that is next, or at its head, finds.
LEMMA EnrichHeadFacts ==
    ASSUME EnrichIInv, bBatch.todo # <<>>
    PROVE  /\ Enrich!Candidate = bBatch.todo[1] /\ Enrich!Candidate \in EnrichCandidates
           /\ Tail(bBatch.todo) \in Seq(EnrichCandidates)
           /\ Len(bBatch.todo) \in Nat \ {0} /\ Len(Tail(bBatch.todo)) = Len(bBatch.todo) - 1
           /\ \A i \in 1..Len(bBatch.todo) - 1 : Tail(bBatch.todo)[i] = bBatch.todo[i + 1]
  BY EnrichQueue DEF EnrichIInv, EnrichTInv, EnrichBatches, Enrich!Candidate

LEMMA EnrichRestIs ==
    ASSUME EnrichIInv, bBatch.todo # <<>>
    PROVE  /\ Enrich!Rest \in EnrichBatches /\ Enrich!Rest.pc = "next"
           /\ Enrich!Rest.todo = Tail(bBatch.todo)
  BY EnrichHeadFacts DEF EnrichIInv, EnrichTInv, EnrichBatches, EnrichPriorities, Enrich!Rest

LEMMA EnrichPcIs ==
    ASSUME EnrichTInv, NEW pc \in {"next", "prime", "read", "reprime", "reread", "apply", "done"}, Enrich!Goto(pc)
    PROVE  bBatch' \in EnrichBatches /\ bBatch'.pc = pc /\ bBatch'.todo = bBatch.todo
           /\ bBatch'.priority = bBatch.priority
  BY DEF EnrichTInv, EnrichBatches, Enrich!Goto

LEMMA EnrichSetIs ==
    ASSUME EnrichTInv, NEW f \in EnrichCounts \ {"candidates"}, NEW v \in Nat, bSum' = [bSum EXCEPT ![f] = v]
    PROVE  bSum' \in [EnrichCounts -> Nat] /\ bSum'[f] = v /\ EnrichBeside(f)
<1>1. bSum' \in [EnrichCounts -> Nat] /\ bSum'[f] = v
      /\ \A g \in EnrichCounts \ {f} : bSum'[g] = bSum[g]
  BY DEF EnrichTInv
<1> QED
  BY <1>1 DEF EnrichBeside, EnrichCounts

LEMMA EnrichCountIs ==
    ASSUME EnrichTInv, NEW f \in EnrichCounts \ {"candidates"}, Enrich!Count(f)
    PROVE  bSum' \in [EnrichCounts -> Nat] /\ bSum'[f] = bSum[f] + 1 /\ EnrichBeside(f)
<1>1. bSum[f] + 1 \in Nat /\ bSum' = [bSum EXCEPT ![f] = bSum[f] + 1]
  BY DEF EnrichTInv, Enrich!Count
<1> QED
  BY <1>1, EnrichSetIs

\* Only the candidate's row changes, and it is handled: the others still come.
LEMMA EnrichTailKeeps ==
    ASSUME EnrichIInv, bBatch.todo # <<>>, bBatch'.todo = Tail(bBatch.todo), NEW r \in bRows,
           EnrichComes(r),
           bWo'[r].number = bWo[r].number,
           ~(Enrich!Candidate.id = r /\ Enrich!Candidate.number = bWo[r].number)
    PROVE  EnrichComes(r)'
<1>1. PICK i \in 1..Len(bBatch.todo) : bBatch.todo[i].id = r
                                       /\ bBatch.todo[i].number = bWo[r].number
  BY DEF EnrichComes
<1>2. i # 1
  BY <1>1, EnrichHeadFacts
<1>3. i - 1 \in 1..Len(Tail(bBatch.todo)) /\ Tail(bBatch.todo)[i - 1] = bBatch.todo[i]
  BY <1>1, <1>2, EnrichHeadFacts, SMTT(30)
<1> QED
  BY <1>1, <1>3 DEF EnrichComes

\* The counts of the steps that only move on, and of those that count one field.
LEMMA EnrichMoved ==
    ASSUME EnrichIInv, UNCHANGED bSum, EnrichAhead' = EnrichAhead, EnrichBusy' = EnrichBusy,
           bBatch'.pc \notin {"load", "done"}, bBatch'.pc \in EnrichUnderWay => bBatch'.todo # <<>>,
           bBatch.pc # "done"
    PROVE  EnrichTally'
  BY DEF EnrichIInv, EnrichTally

LEMMA EnrichAdds ==
    ASSUME NEW a \in Nat, NEW i \in Nat, NEW k \in Nat, NEW c \in Nat, c = a + i + 0 + k
    PROVE  c = (a + 1) + i + 0 + (k - 1) /\ c = a + (i + 1) + 0 + (k - 1)
  OBVIOUS

LEMMA EnrichHandles ==
    ASSUME NEW a \in Nat, NEW r \in Nat, NEW l \in Nat, NEW w \in Nat, NEW u \in Nat,
           NEW b \in 0..1,
           a = r + l + w + u + b
    PROVE  /\ a + 1 = r + l + w + u + (b + 1) /\ a = (r + 1) + l + w + u + (b - 1)
           /\ a = r + l + (w + 1) + u + (b - 1) /\ a = r + l + w + (u + 1) + (b - 1)
  OBVIOUS

\* The counts of a step that asks for a candidate, or handles the one asked for.
LEMMA EnrichTallied ==
    ASSUME EnrichIInv, bBatch.pc # "done", bBatch'.pc \notin {"load", "done"},
           bBatch'.pc \in EnrichUnderWay => bBatch'.todo # <<>>,
           NEW f \in {"attempted", "invalid", "refused", "written", "unchanged"},
           bSum'[f] = bSum[f] + 1, EnrichBeside(f), EnrichAhead \in Nat,
           f \in {"attempted", "invalid"} => EnrichAhead >= 1 /\ EnrichAhead' = EnrichAhead - 1,
           f \notin {"attempted", "invalid"} => EnrichAhead' = EnrichAhead,
           f = "attempted" => EnrichBusy' = EnrichBusy + 1, f = "invalid" => EnrichBusy' = EnrichBusy,
           f \notin {"attempted", "invalid"} => EnrichBusy' = EnrichBusy - 1
    PROVE  EnrichTally'
<1>1. EnrichFields /\ bSum.remaining = 0
  BY EnrichFieldsAre DEF EnrichIInv, EnrichTally
<1>2. /\ bSum.candidates = bSum.attempted + bSum.invalid + 0 + EnrichAhead
      /\ bSum.attempted = bSum.refused + bSum.lost + bSum.written + bSum.unchanged + EnrichBusy
      /\ bSum.candidates <= Enrich!Cardinality(bRows)
  BY <1>1 DEF EnrichIInv, EnrichTally
<1>3. EnrichBusy \in 0..1
  BY DEF EnrichBusy
<1>5. /\ bSum.candidates = (bSum.attempted + 1) + bSum.invalid + 0 + (EnrichAhead - 1)
      /\ bSum.candidates = bSum.attempted + (bSum.invalid + 1) + 0 + (EnrichAhead - 1)
      /\ bSum.attempted + 1 = bSum.refused + bSum.lost + bSum.written + bSum.unchanged + (EnrichBusy + 1)
      /\ bSum.attempted = (bSum.refused + 1) + bSum.lost + bSum.written + bSum.unchanged + (EnrichBusy - 1)
      /\ bSum.attempted = bSum.refused + bSum.lost + (bSum.written + 1) + bSum.unchanged + (EnrichBusy - 1)
      /\ bSum.attempted = bSum.refused + bSum.lost + bSum.written + (bSum.unchanged + 1) + (EnrichBusy - 1)
  <2>1. /\ bSum.attempted \in Nat /\ bSum.invalid \in Nat /\ bSum.refused \in Nat
        /\ bSum.lost \in Nat
        /\ bSum.written \in Nat /\ bSum.unchanged \in Nat /\ bSum.candidates \in Nat
    BY <1>1 DEF EnrichFields
  <2>4. PICK a \in Nat, i \in Nat, r \in Nat, l \in Nat, w \in Nat, u \in Nat, c \in Nat :
           /\ a = bSum.attempted /\ i = bSum.invalid /\ r = bSum.refused /\ l = bSum.lost
           /\ w = bSum.written /\ u = bSum.unchanged /\ c = bSum.candidates
    BY <2>1, Zenon
  <2>5. c = a + i + 0 + EnrichAhead /\ a = r + l + w + u + EnrichBusy
    BY <1>2, <2>4, Zenon
  <2>6. c = (a + 1) + i + 0 + (EnrichAhead - 1) /\ c = a + (i + 1) + 0 + (EnrichAhead - 1)
    BY ONLY <2>4, <2>5, EnrichAdds, EnrichAhead \in Nat
  <2>7. /\ a + 1 = r + l + w + u + (EnrichBusy + 1)
        /\ a = (r + 1) + l + w + u + (EnrichBusy - 1)
        /\ a = r + l + (w + 1) + u + (EnrichBusy - 1)
        /\ a = r + l + w + (u + 1) + (EnrichBusy - 1)
    BY ONLY <1>3, <2>4, <2>5, EnrichHandles
  <2>2. /\ bSum.candidates = (bSum.attempted + 1) + bSum.invalid + 0 + (EnrichAhead - 1)
        /\ bSum.candidates = bSum.attempted + (bSum.invalid + 1) + 0 + (EnrichAhead - 1)
    BY <2>4, <2>6, Zenon
  <2>3. /\ bSum.attempted + 1 = bSum.refused + bSum.lost + bSum.written + bSum.unchanged + (EnrichBusy + 1)
        /\ bSum.attempted = (bSum.refused + 1) + bSum.lost + bSum.written + bSum.unchanged + (EnrichBusy - 1)
        /\ bSum.attempted = bSum.refused + bSum.lost + (bSum.written + 1) + bSum.unchanged + (EnrichBusy - 1)
        /\ bSum.attempted = bSum.refused + bSum.lost + bSum.written + (bSum.unchanged + 1) + (EnrichBusy - 1)
    BY <2>4, <2>7, Zenon
  <2> QED
    BY <2>2, <2>3
<1>6. bSum'.candidates = bSum.candidates /\ bSum'.remaining = 0
  BY <1>1 DEF EnrichBeside
<1>4. /\ bSum'.candidates = bSum'.attempted + bSum'.invalid + bSum'.remaining + EnrichAhead'
      /\ bSum'.attempted = bSum'.refused + bSum'.lost + bSum'.written + bSum'.unchanged + EnrichBusy'
  <2>1. CASE f = "attempted"
    BY <1>2, <1>5, <1>6, <2>1, Zenon DEF EnrichBeside
  <2>2. CASE f = "invalid"
    BY <1>2, <1>5, <1>6, <2>2, Zenon DEF EnrichBeside
  <2>3. CASE f = "refused"
    BY <1>2, <1>5, <1>6, <2>3, Zenon DEF EnrichBeside
  <2>4. CASE f = "written"
    BY <1>2, <1>5, <1>6, <2>4, Zenon DEF EnrichBeside
  <2>5. CASE f = "unchanged"
    BY <1>2, <1>5, <1>6, <2>5, Zenon DEF EnrichBeside
  <2> QED
    BY <2>1, <2>2, <2>3, <2>4, <2>5
<1> QED
  BY <1>2, <1>4, <1>6 DEF EnrichTally

LEMMA EnrichOutOfTimeStep ==
    ASSUME EnrichConstantsOK, EnrichIInv, Enrich!OutOfTime PROVE EnrichIInv'
<1>1. /\ bBatch.pc = "next" /\ bBatch.todo # <<>>
      /\ bSum' = [bSum EXCEPT !.remaining = Len(bBatch.todo)]
      /\ UNCHANGED <<bWo, bEdits, bHome, bLosses, bPrimed>>
  BY DEF Enrich!OutOfTime, Enrich!Left
<1>2. bBatch' \in EnrichBatches /\ bBatch'.pc = "done" /\ bBatch'.todo = bBatch.todo
      /\ bBatch'.priority = bBatch.priority
  BY EnrichPcIs DEF Enrich!OutOfTime, EnrichIInv
<1>3. Len(bBatch.todo) \in Nat \ {0}
  BY <1>1, EnrichHeadFacts
<1>4. bSum' \in [EnrichCounts -> Nat] /\ bSum'.remaining = Len(bBatch.todo)
      /\ EnrichBeside("remaining")
  BY <1>1, <1>3, EnrichSetIs DEF EnrichIInv, EnrichCounts
<1>5. EnrichTInv'
  BY <1>1, <1>2, <1>4 DEF EnrichIInv, EnrichTInv
<1>6. EnrichTally'
  <2>1. EnrichAhead = Len(bBatch.todo) /\ EnrichBusy = 0 /\ EnrichAhead' = 0 /\ EnrichBusy' = 0
    BY <1>1, <1>2 DEF EnrichAhead, EnrichBusy, EnrichUnderWay
  <2>2. EnrichFields /\ bSum.candidates = bSum.attempted + bSum.invalid + Len(bBatch.todo)
    <3>1. EnrichFields
      BY EnrichFieldsAre DEF EnrichIInv
    <3>2. /\ bSum.candidates = bSum.attempted + bSum.invalid + bSum.remaining + EnrichAhead
          /\ bSum.remaining = 0
      BY <1>1 DEF EnrichIInv, EnrichTally
    <3>3. PICK a \in Nat, i \in Nat : a = bSum.attempted /\ i = bSum.invalid
      BY <3>1, Zenon DEF EnrichFields
    <3>4. a + i + 0 + Len(bBatch.todo) = a + i + Len(bBatch.todo)
      BY <1>3
    <3>5. bSum.candidates = a + i + 0 + Len(bBatch.todo)
      BY <2>1, <3>2, <3>3, Zenon
    <3> QED
      BY <3>1, <3>3, <3>4, <3>5, Zenon
  <2>3. /\ bSum'.candidates = bSum'.attempted + bSum'.invalid + bSum'.remaining + EnrichAhead'
        /\ bSum'.candidates <= Enrich!Cardinality(bRows) /\ bSum'.remaining + bSum'.lost # 0
    <3>1. bSum.candidates = bSum.attempted + bSum.invalid + Len(bBatch.todo) + 0
      BY <1>3, <2>2 DEF EnrichFields
    <3>2. /\ bSum'.candidates = bSum.candidates /\ bSum'.attempted = bSum.attempted
          /\ bSum'.invalid = bSum.invalid /\ bSum'.lost = bSum.lost
      BY <1>4 DEF EnrichBeside
    <3>3. bSum'.remaining + bSum'.lost # 0
      <4>1. PICK l \in Nat : l = bSum.lost
        BY <2>2, Zenon DEF EnrichFields
      <4>2. Len(bBatch.todo) + l # 0
        BY <1>3
      <4> QED
        BY <1>4, <3>2, <4>1, <4>2, Zenon
    <3>4. bSum'.candidates <= Enrich!Cardinality(bRows)
      BY <3>2 DEF EnrichIInv, EnrichTally
    <3> QED
      BY <1>4, <2>1, <3>1, <3>2, <3>3, <3>4
  <2>4. bSum'.attempted = bSum'.refused + bSum'.lost + bSum'.written + bSum'.unchanged + EnrichBusy'
    BY <1>4, <2>1 DEF EnrichIInv, EnrichTally, EnrichBeside
  <2> QED
    BY <1>2, <2>3, <2>4 DEF EnrichTally, EnrichUnderWay
<1>7. EnrichOneCandidate' /\ EnrichHomes'
  BY <1>1, <1>2 DEF EnrichIInv, EnrichOneCandidate, EnrichHomes
<1>8. EnrichToCome'
  BY <1>1, <1>3, <1>4, EnrichFieldsAre, SMTT(30) DEF EnrichIInv, EnrichToCome, EnrichFields, EnrichBeside
<1> QED
  BY <1>5, <1>6, <1>7, <1>8 DEF EnrichIInv

LEMMA EnrichFinishedStep == ASSUME EnrichConstantsOK, EnrichIInv, Enrich!Finished
                            PROVE  EnrichIInv'
<1>1. bBatch.pc = "next" /\ bBatch.todo = <<>>
      /\ UNCHANGED <<bWo, bEdits, bHome, bLosses, bPrimed, bSum>>
  BY DEF Enrich!Finished
<1>2. bBatch' \in EnrichBatches /\ bBatch'.pc = "done" /\ bBatch'.todo = bBatch.todo
  BY EnrichPcIs DEF Enrich!Finished, EnrichIInv
<1>3. EnrichTInv'
  BY <1>1, <1>2 DEF EnrichIInv, EnrichTInv
<1>4. EnrichTally'
  BY <1>1, <1>2 DEF EnrichIInv, EnrichTally, EnrichAhead, EnrichBusy, EnrichUnderWay
<1>5. EnrichOneCandidate' /\ EnrichHomes'
  BY <1>1, <1>2 DEF EnrichIInv, EnrichOneCandidate, EnrichHomes
<1>6. EnrichToCome'
  BY <1>1, <1>2 DEF EnrichIInv, EnrichToCome, EnrichDue, EnrichComes, Enrich!IsBlank
<1> QED
  BY <1>3, <1>4, <1>5, <1>6 DEF EnrichIInv

LEMMA EnrichRequestStep == ASSUME EnrichConstantsOK, EnrichIInv, Enrich!Request
                           PROVE  EnrichIInv'
<1>1. bBatch.pc = "next" /\ bBatch.todo # <<>>
      /\ UNCHANGED <<bWo, bEdits, bHome, bLosses, bPrimed>>
  BY DEF Enrich!Request
<1>2. CASE Enrich!Candidate.number \in bBadNumbers
  <2>1. bBatch' \in EnrichBatches /\ bBatch'.pc = "next" /\ bBatch'.todo = Tail(bBatch.todo)
    BY <1>1, <1>2, EnrichRestIs DEF Enrich!Request
  <2>2. bSum' \in [EnrichCounts -> Nat] /\ bSum'.invalid = bSum.invalid + 1
        /\ EnrichBeside("invalid")
    BY <1>2, EnrichCountIs DEF Enrich!Request, EnrichCounts, EnrichIInv
  <2>3. EnrichTInv'
    BY <1>1, <2>1, <2>2 DEF EnrichIInv, EnrichTInv
  <2>4. EnrichTally'
    <3>1. EnrichAhead = Len(bBatch.todo) /\ EnrichBusy = 0
          /\ EnrichAhead' = Len(bBatch.todo) - 1 /\ EnrichBusy' = 0
      BY <1>1, <2>1, EnrichHeadFacts DEF EnrichAhead, EnrichBusy, EnrichUnderWay
    <3>2. Len(bBatch.todo) \in Nat \ {0}
      BY <1>1, EnrichHeadFacts
    <3> QED
      BY <1>1, <2>1, <2>2, <3>1, <3>2, EnrichTallied DEF EnrichCounts, EnrichUnderWay
  <2>5. EnrichOneCandidate' /\ EnrichHomes'
    BY <1>1, <2>1 DEF EnrichIInv, EnrichOneCandidate, EnrichHomes
  <2>6. EnrichToCome'
    <3>1. ASSUME NEW r \in bRows, EnrichDue(r), EnrichComes(r) PROVE EnrichComes(r)'
      <4>1. Enrich!Candidate.number # bWo[r].number
        BY <1>2, <3>1 DEF EnrichDue
      <4> QED
        BY <1>1, <2>1, <3>1, <4>1, EnrichTailKeeps
    <3> QED
      BY <1>1, <2>1, <2>2, <3>1 DEF EnrichIInv, EnrichToCome, EnrichDue, Enrich!IsBlank,
         EnrichBeside
  <2> QED
    BY <2>3, <2>4, <2>5, <2>6 DEF EnrichIInv
<1>3. CASE Enrich!Candidate.number \notin bBadNumbers
  <2>1. /\ bBatch' \in EnrichBatches /\ bBatch'.pc = (IF bPrimed THEN "read" ELSE "prime")
        /\ bBatch'.todo = bBatch.todo /\ bBatch'.priority = bBatch.priority
    BY <1>3, EnrichPcIs DEF Enrich!Request, EnrichIInv
  <2>2. bSum' \in [EnrichCounts -> Nat] /\ bSum'.attempted = bSum.attempted + 1
        /\ EnrichBeside("attempted")
    BY <1>3, EnrichCountIs DEF Enrich!Request, EnrichCounts, EnrichIInv
  <2>3. EnrichTInv'
    BY <1>1, <2>1, <2>2 DEF EnrichIInv, EnrichTInv
  <2>4. EnrichTally'
    <3>1. EnrichAhead = Len(bBatch.todo) /\ EnrichBusy = 0
          /\ EnrichAhead' = Len(bBatch.todo) - 1 /\ EnrichBusy' = 1
      BY <1>1, <2>1, EnrichHeadFacts DEF EnrichAhead, EnrichBusy, EnrichUnderWay
    <3>2. Len(bBatch.todo) \in Nat \ {0}
      BY <1>1, EnrichHeadFacts
    <3> QED
      BY <1>1, <2>1, <2>2, <3>1, <3>2, EnrichTallied DEF EnrichCounts, EnrichUnderWay
  <2>5. EnrichOneCandidate' /\ EnrichHomes'
    BY <1>1, <2>1 DEF EnrichIInv, EnrichOneCandidate, EnrichHomes
  <2>6. EnrichToCome'
    BY <1>1, <2>1, <2>2 DEF EnrichIInv, EnrichToCome, EnrichDue, EnrichComes, Enrich!IsBlank,
       EnrichBeside
  <2> QED
    BY <2>3, <2>4, <2>5, <2>6 DEF EnrichIInv
<1> QED
  BY <1>2, <1>3

LEMMA EnrichPrimeStep == ASSUME EnrichConstantsOK, EnrichIInv, Enrich!Prime PROVE EnrichIInv'
<1>1. /\ bBatch.pc \in {"prime", "reprime"} /\ bPrimed' = TRUE /\ bHome' = TRUE
      /\ UNCHANGED <<bWo, bEdits, bLosses, bSum>>
  BY DEF Enrich!Prime
<1>2. /\ bBatch' \in EnrichBatches
      /\ bBatch'.pc = (IF bBatch.pc = "prime" THEN "read" ELSE "reread")
      /\ bBatch'.todo = bBatch.todo /\ bBatch'.priority = bBatch.priority
  BY EnrichPcIs DEF Enrich!Prime, EnrichIInv
<1>3. EnrichTInv'
  <2>1. bHome' \in BOOLEAN /\ bPrimed' \in BOOLEAN
    BY <1>1
  <2> QED
    BY <1>1, <1>2, <2>1 DEF EnrichIInv, EnrichTInv
<1>4. EnrichTally'
  BY <1>1, <1>2 DEF EnrichIInv, EnrichTally, EnrichAhead, EnrichBusy, EnrichUnderWay
<1>5. EnrichOneCandidate' /\ EnrichHomes'
  BY <1>1, <1>2 DEF EnrichIInv, EnrichOneCandidate, EnrichHomes
<1>6. EnrichToCome'
  BY <1>1, <1>2 DEF EnrichIInv, EnrichToCome, EnrichDue, EnrichComes, Enrich!IsBlank
<1> QED
  BY <1>3, <1>4, <1>5, <1>6 DEF EnrichIInv

LEMMA EnrichReadStep == ASSUME EnrichConstantsOK, EnrichIInv, Enrich!Read PROVE EnrichIInv'
<1>1. bBatch.pc \in {"read", "reread"} /\ UNCHANGED <<bWo, bEdits, bHome, bLosses, bSum>>
  BY DEF Enrich!Read
<1>2. CASE bBatch.pc = "read" /\ ~bHome
  <2>1. /\ bBatch' \in EnrichBatches /\ bBatch'.pc = "reprime" /\ bPrimed' = FALSE
        /\ bBatch'.todo = bBatch.todo /\ bBatch'.priority = bBatch.priority
    BY <1>2, EnrichPcIs DEF Enrich!Read, Enrich!Trimmed, EnrichIInv
  <2>2. EnrichTInv' /\ EnrichTally'
    <3>1. bPrimed' \in BOOLEAN
      BY <2>1
    <3> QED
      BY <1>1, <2>1, <3>1 DEF EnrichIInv, EnrichTInv, EnrichTally, EnrichAhead, EnrichBusy,
         EnrichUnderWay
  <2>3. EnrichOneCandidate' /\ EnrichHomes'
    BY <1>1, <1>2, <2>1 DEF EnrichIInv, EnrichOneCandidate, EnrichHomes
  <2>4. EnrichToCome'
    BY <1>1, <2>1 DEF EnrichIInv, EnrichToCome, EnrichDue, EnrichComes, Enrich!IsBlank
  <2> QED
    BY <2>2, <2>3, <2>4 DEF EnrichIInv
<1>3. CASE ~(bBatch.pc = "read" /\ ~bHome)
  <2>1. bBatch' = [bBatch EXCEPT !.pc = "apply", !.priority = Enrich!Printed(Enrich!Candidate.number)] /\ bPrimed' = bPrimed
    BY <1>3 DEF Enrich!Read, Enrich!Trimmed
  <2>2. bBatch.todo # <<>>
    BY <1>1 DEF EnrichIInv, EnrichTally, EnrichAhead, EnrichBusy, EnrichUnderWay
  <2>3. Enrich!Candidate.number \in bNumbers
    BY <2>2, EnrichHeadFacts DEF EnrichCandidates
  <2>4. Enrich!Printed(Enrich!Candidate.number) \in EnrichPriorities
        /\ Enrich!Printed(Enrich!Candidate.number) \in {Enrich!Blank, Enrich!Source(Enrich!Candidate.number)}
    BY <2>3 DEF Enrich!Printed, EnrichPriorities
  <2>5. /\ bBatch' \in EnrichBatches /\ bBatch'.pc = "apply" /\ bBatch'.todo = bBatch.todo
        /\ bBatch'.priority = Enrich!Printed(Enrich!Candidate.number)
        /\ Enrich!Candidate' = Enrich!Candidate
    BY <2>1, <2>4 DEF EnrichIInv, EnrichTInv, EnrichBatches, Enrich!Candidate
  <2>6. EnrichTInv' /\ EnrichTally'
    BY <1>1, <2>1, <2>5 DEF EnrichIInv, EnrichTInv, EnrichTally, EnrichAhead, EnrichBusy,
       EnrichUnderWay
  <2>7. EnrichOneCandidate'
    BY <2>4, <2>5 DEF EnrichOneCandidate
  <2>8. EnrichHomes'
    BY <1>1, <1>3, <2>1, <2>5 DEF EnrichIInv, EnrichHomes, Enrich!Printed, EnrichTInv
  <2>9. EnrichToCome'
    BY <1>1, <2>5 DEF EnrichIInv, EnrichToCome, EnrichDue, EnrichComes, Enrich!IsBlank
  <2> QED
    BY <2>6, <2>7, <2>8, <2>9 DEF EnrichIInv
<1> QED
  BY <1>2, <1>3

LEMMA EnrichRefusedStep ==
    ASSUME EnrichConstantsOK, EnrichIInv, NEW why \in Enrich!Refusals, Enrich!Refused(why)
    PROVE  EnrichIInv'
<1>1. /\ bBatch.pc \in {"prime", "read", "reprime", "reread"} /\ bBatch' = Enrich!Rest
      /\ UNCHANGED <<bWo, bEdits, bHome, bLosses, bPrimed>>
  BY DEF Enrich!Refused, Enrich!Asking
<1>2. bBatch.todo # <<>>
  BY <1>1 DEF EnrichIInv, EnrichTally, EnrichUnderWay
<1>3. bBatch' \in EnrichBatches /\ bBatch'.pc = "next" /\ bBatch'.todo = Tail(bBatch.todo)
  BY <1>1, <1>2, EnrichRestIs
<1>4. bSum' \in [EnrichCounts -> Nat] /\ bSum'.refused = bSum.refused + 1
      /\ EnrichBeside("refused")
  BY EnrichCountIs DEF Enrich!Refused, EnrichCounts, EnrichIInv
<1>5. EnrichTInv'
  BY <1>1, <1>3, <1>4 DEF EnrichIInv, EnrichTInv
<1>6. EnrichTally'
  <2>1. EnrichAhead = Len(bBatch.todo) - 1 /\ EnrichBusy = 1
        /\ EnrichAhead' = Len(bBatch.todo) - 1 /\ EnrichBusy' = 0
    BY <1>1, <1>2, <1>3, EnrichHeadFacts DEF EnrichAhead, EnrichBusy, EnrichUnderWay
  <2>2. Len(bBatch.todo) \in Nat \ {0}
    BY <1>2, EnrichHeadFacts
  <2> QED
    BY <1>1, <1>3, <1>4, <2>1, <2>2, EnrichTallied DEF EnrichUnderWay
<1>7. EnrichOneCandidate' /\ EnrichHomes'
  BY <1>1, <1>3 DEF EnrichIInv, EnrichOneCandidate, EnrichHomes
<1>8. EnrichToCome'
  <2>1. bSum'.remaining + bSum'.lost + bSum'.refused # 0
    <3>1. bSum'.remaining = bSum.remaining /\ bSum'.lost = bSum.lost
      BY <1>4 DEF EnrichBeside
    <3> QED
      BY <1>4, <3>1, EnrichFieldsAre DEF EnrichIInv, EnrichFields
  <2> QED
    BY <1>1, <2>1 DEF EnrichIInv, EnrichToCome
<1> QED
  BY <1>5, <1>6, <1>7, <1>8 DEF EnrichIInv

LEMMA EnrichStops ==
    ASSUME NEW a \in Nat, NEW i \in Nat, NEW r \in Nat, NEW l \in Nat, NEW w \in Nat,
           NEW u \in Nat,
           NEW k \in Nat, NEW c \in Nat, c = a + i + 0 + k, a = r + l + w + u + 1
    PROVE  c = a + i + k + 0 /\ a = r + (l + 1) + w + u + 0 /\ k + (l + 1) # 0
  OBVIOUS

LEMMA EnrichStoppedStep == ASSUME EnrichConstantsOK, EnrichIInv, Enrich!Stopped
                           PROVE  EnrichIInv'
<1>1. /\ bBatch.pc \in {"prime", "read", "reprime", "reread"}
      /\ bSum' = [bSum EXCEPT !.lost = @ + 1, !.remaining = Len(bBatch.todo) - 1]
      /\ UNCHANGED <<bWo, bEdits, bHome, bLosses, bPrimed>>
  BY DEF Enrich!Stopped, Enrich!Asking, Enrich!Left
<1>2. bBatch' \in EnrichBatches /\ bBatch'.pc = "done"
  BY EnrichPcIs DEF Enrich!Stopped, EnrichIInv
<1>3. Len(bBatch.todo) \in Nat \ {0}
  <2>1. bBatch.todo # <<>>
    BY <1>1 DEF EnrichIInv, EnrichTally, EnrichUnderWay
  <2> QED
    BY <2>1, EnrichHeadFacts
<1>4. /\ bSum' \in [EnrichCounts -> Nat] /\ bSum'.lost = bSum.lost + 1
      /\ bSum'.remaining = Len(bBatch.todo) - 1
      /\ bSum'.attempted = bSum.attempted /\ bSum'.invalid = bSum.invalid
      /\ bSum'.refused = bSum.refused
      /\ bSum'.written = bSum.written /\ bSum'.unchanged = bSum.unchanged
      /\ bSum'.candidates = bSum.candidates
  <2>1. bSum.lost + 1 \in Nat /\ Len(bBatch.todo) - 1 \in Nat
    BY <1>3 DEF EnrichIInv, EnrichTInv, EnrichCounts
  <2> QED
    BY <1>1, <2>1, Zenon DEF EnrichIInv, EnrichTInv, EnrichCounts
<1>5. EnrichTInv'
  BY <1>1, <1>2, <1>4 DEF EnrichIInv, EnrichTInv
<1>6. EnrichTally'
  <2>1. EnrichAhead = Len(bBatch.todo) - 1 /\ EnrichBusy = 1 /\ EnrichAhead' = 0
        /\ EnrichBusy' = 0
    BY <1>1, <1>2 DEF EnrichAhead, EnrichBusy, EnrichUnderWay
  <2>2. PICK a \in Nat, i \in Nat, r \in Nat, l \in Nat, w \in Nat, u \in Nat, c \in Nat, k \in Nat :
           /\ a = bSum.attempted /\ i = bSum.invalid /\ r = bSum.refused /\ l = bSum.lost
           /\ w = bSum.written /\ u = bSum.unchanged /\ c = bSum.candidates
           /\ k = Len(bBatch.todo) - 1
    <3>1. EnrichFields /\ Len(bBatch.todo) - 1 \in Nat
      BY <1>3, EnrichFieldsAre DEF EnrichIInv
    <3> QED
      BY <3>1, Zenon DEF EnrichFields
  <2>3. bSum.remaining = 0
    BY <1>1 DEF EnrichIInv, EnrichTally
  <2>4. c = a + i + 0 + k /\ a = r + l + w + u + 1
    BY <2>1, <2>2, <2>3, Zenon DEF EnrichIInv, EnrichTally
  <2>5. c = a + i + k + 0 /\ a = r + (l + 1) + w + u + 0 /\ k + (l + 1) # 0
    BY ONLY <2>4, EnrichStops
  <2>6. c <= Enrich!Cardinality(bRows)
    BY <2>2 DEF EnrichIInv, EnrichTally
  <2>7. /\ bSum'.candidates = bSum'.attempted + bSum'.invalid + bSum'.remaining + EnrichAhead'
        /\ bSum'.attempted = bSum'.refused + bSum'.lost + bSum'.written + bSum'.unchanged + EnrichBusy'
        /\ bSum'.remaining + bSum'.lost # 0
    BY <1>4, <2>1, <2>2, <2>5, Zenon
  <2> QED
    BY <1>2, <1>4, <2>2, <2>6, <2>7 DEF EnrichTally, EnrichUnderWay
<1>7. EnrichOneCandidate' /\ EnrichHomes'
  BY <1>1, <1>2 DEF EnrichIInv, EnrichOneCandidate, EnrichHomes
<1>8. EnrichToCome'
  <2>1. bSum'.remaining + bSum'.lost + bSum'.refused # 0
    <3>1. PICK l \in Nat, r \in Nat, k \in Nat :
             l = bSum.lost /\ r = bSum.refused /\ k = Len(bBatch.todo) - 1
      <4>1. EnrichFields /\ Len(bBatch.todo) - 1 \in Nat
        BY <1>3, EnrichFieldsAre DEF EnrichIInv
      <4> QED
        BY <4>1, Zenon DEF EnrichFields
    <3>2. k + (l + 1) + r # 0
      OBVIOUS
    <3> QED
      BY <1>4, <3>1, <3>2, Zenon
  <2> QED
    BY <1>1, <2>1 DEF EnrichIInv, EnrichToCome
<1> QED
  BY <1>5, <1>6, <1>7, <1>8 DEF EnrichIInv

\* What applying a read does to a row.
LEMMA EnrichAppliedIs ==
    ASSUME NEW w \in Enrich!OrderRows, NEW c \in EnrichCandidates, NEW p \in EnrichPriorities
    PROVE  /\ Enrich!Applied(w, c, p) \in Enrich!OrderRows
           /\ Enrich!Applied(w, c, p).number = w.number /\ Enrich!Applied(w, c, p).live = w.live
           /\ Enrich!Applied(w, c, p) # w => w.live /\ w.number = c.number
           /\ Enrich!Applied(w, c, p).description # w.description =>
                 Enrich!IsFallback(w)
                 /\ Enrich!Applied(w, c, p).description = Enrich!Source(w.number)
           /\ Enrich!Applied(w, c, p).priority # w.priority => Enrich!IsBlank(w) /\ Enrich!Applied(w, c, p).priority = p
           /\ w.live /\ w.number = c.number /\ Enrich!IsBlank(w) => Enrich!Applied(w, c, p).priority = p
<1>1. Enrich!Source(c.number) \in Enrich!Texts /\ p \in Enrich!Texts
  BY DEF EnrichCandidates, EnrichPriorities, Enrich!Source, Enrich!Blank, Enrich!Texts
<1>2. CASE ~w.live \/ w.number # c.number
  <2>1. Enrich!Applied(w, c, p) = w
    BY <1>2, Zenon DEF Enrich!Applied
  <2> QED
    BY <1>2, <2>1
<1>3. CASE w.live /\ w.number = c.number
  <2>1. /\ Enrich!Applied(w, c, p) \in Enrich!OrderRows
        /\ Enrich!Applied(w, c, p).number = w.number /\ Enrich!Applied(w, c, p).live = w.live
        /\ Enrich!Applied(w, c, p).description = (IF Enrich!IsFallback(w) THEN Enrich!Source(c.number) ELSE w.description)
        /\ Enrich!Applied(w, c, p).priority = (IF Enrich!IsBlank(w) THEN p ELSE w.priority)
    BY <1>1, <1>3 DEF Enrich!Applied, Enrich!OrderRows
  <2> QED
    BY <1>3, <2>1
<1> QED
  BY <1>2, <1>3 DEF Enrich!OrderRows

\* Only the candidate's row is written.
LEMMA EnrichApplyRows ==
    ASSUME EnrichConstantsOK, EnrichIInv, Enrich!Apply
    PROVE  /\ bBatch.todo # <<>> /\ Enrich!Candidate \in EnrichCandidates
           /\ bBatch.priority \in EnrichPriorities
           /\ bWo' \in [bRows -> Enrich!OrderRows]
           /\ \A r \in bRows : bWo[r] \in Enrich!OrderRows
           /\ \A r \in bRows : bWo'[r] = IF r = Enrich!Candidate.id THEN Enrich!Applied(bWo[r], Enrich!Candidate, bBatch.priority) ELSE bWo[r]
<1>1. bBatch.pc = "apply"
      /\ bWo' = [bWo EXCEPT ![Enrich!Candidate.id] = Enrich!Applied(@, Enrich!Candidate, bBatch.priority)]
  BY DEF Enrich!Apply
<1>2. bBatch.todo # <<>>
  BY <1>1 DEF EnrichIInv, EnrichTally, EnrichUnderWay
<1>3. Enrich!Candidate \in EnrichCandidates /\ bBatch.priority \in EnrichPriorities
      /\ bWo \in [bRows -> Enrich!OrderRows]
  BY <1>2, EnrichHeadFacts DEF EnrichIInv, EnrichTInv, EnrichBatches
<1>4. Enrich!Candidate.id \in bRows
  BY <1>3 DEF EnrichCandidates
<1>5. Enrich!Applied(bWo[Enrich!Candidate.id], Enrich!Candidate, bBatch.priority) \in Enrich!OrderRows
  BY <1>3, <1>4, EnrichAppliedIs
<1> QED
  BY <1>1, <1>2, <1>3, <1>4, <1>5

LEMMA EnrichApplyStep == ASSUME EnrichConstantsOK, EnrichIInv, Enrich!Apply PROVE EnrichIInv'
<1>1. /\ bBatch.pc = "apply" /\ bBatch' = Enrich!Rest
      /\ UNCHANGED <<bEdits, bHome, bLosses, bPrimed>>
  BY DEF Enrich!Apply
<1>2. /\ bBatch.todo # <<>> /\ Enrich!Candidate \in EnrichCandidates
      /\ bBatch.priority \in EnrichPriorities
      /\ bWo' \in [bRows -> Enrich!OrderRows]
      /\ \A r \in bRows : bWo[r] \in Enrich!OrderRows
      /\ \A r \in bRows : bWo'[r] = IF r = Enrich!Candidate.id THEN Enrich!Applied(bWo[r], Enrich!Candidate, bBatch.priority) ELSE bWo[r]
  BY EnrichApplyRows
<1>3. bBatch' \in EnrichBatches /\ bBatch'.pc = "next" /\ bBatch'.todo = Tail(bBatch.todo)
  BY <1>1, <1>2, EnrichRestIs
<1>4. PICK f \in {"written", "unchanged"} : Enrich!Count(f)
  BY DEF Enrich!Apply
<1>5. bSum' \in [EnrichCounts -> Nat] /\ bSum'[f] = bSum[f] + 1 /\ EnrichBeside(f)
  BY <1>4, EnrichCountIs DEF EnrichCounts, EnrichIInv
<1>6. EnrichTInv'
  BY <1>1, <1>2, <1>3, <1>5 DEF EnrichIInv, EnrichTInv
<1>7. EnrichTally'
  <2>1. EnrichAhead = Len(bBatch.todo) - 1 /\ EnrichBusy = 1
        /\ EnrichAhead' = Len(bBatch.todo) - 1 /\ EnrichBusy' = 0
    BY <1>1, <1>2, <1>3, EnrichHeadFacts DEF EnrichAhead, EnrichBusy, EnrichUnderWay
  <2>2. Len(bBatch.todo) \in Nat \ {0}
    BY <1>2, EnrichHeadFacts
  <2> QED
    BY <1>1, <1>3, <1>5, <2>1, <2>2, EnrichTallied DEF EnrichUnderWay
<1>8. EnrichOneCandidate' /\ EnrichHomes'
  BY <1>1, <1>3 DEF EnrichIInv, EnrichOneCandidate, EnrichHomes
<1>9. EnrichToCome'
  <2>1. ASSUME bEdits' = 0 PROVE \A r \in bRows : bWo'[r].live
    <3>1. \A r \in bRows : bWo[r].live
      BY <1>1, <2>1 DEF EnrichIInv, EnrichToCome
    <3> TAKE r \in bRows
    <3> QED
      BY <1>2, <3>1, EnrichAppliedIs
  <2>2. ASSUME bEdits' = 0, bLosses' <= 1, bSum'.remaining + bSum'.lost + bSum'.refused = 0,
               NEW r \in bRows, EnrichDue(r)'
        PROVE  EnrichComes(r)'
    <3>1. bSum.remaining + bSum.lost + bSum.refused = 0
      BY <1>5, <2>2 DEF EnrichBeside
    <3>2. bWo[r].live /\ (EnrichDue(r) => EnrichComes(r))
      BY <1>1, <2>2, <3>1 DEF EnrichIInv, EnrichToCome
    <3>3. CASE r # Enrich!Candidate.id \/ Enrich!Candidate.number # bWo[r].number
      <4>1. bWo'[r] = bWo[r]
        <5>1. CASE r = Enrich!Candidate.id
          BY <1>2, <3>3, <5>1, EnrichAppliedIs
        <5>2. CASE r # Enrich!Candidate.id
          BY <1>2, <5>2
        <5> QED
          BY <5>1, <5>2
      <4>2. EnrichDue(r)
        BY <2>2, <4>1 DEF EnrichDue, Enrich!IsBlank
      <4> QED
        BY <1>2, <1>3, <3>2, <3>3, <4>1, <4>2, EnrichTailKeeps
    <3>4. CASE r = Enrich!Candidate.id /\ Enrich!Candidate.number = bWo[r].number
      <4>1. bWo'[r] = Enrich!Applied(bWo[r], Enrich!Candidate, bBatch.priority)
            /\ bWo[r] \in Enrich!OrderRows
        BY <1>2, <3>4
      <4>2. bWo'[r].number = bWo[r].number /\ (Enrich!IsBlank(bWo[r]) => bWo'[r].priority = bBatch.priority)
            /\ (~Enrich!IsBlank(bWo[r]) => bWo'[r].priority = bWo[r].priority)
        BY <1>2, <3>2, <3>4, <4>1, EnrichAppliedIs
      <4>3. Enrich!Candidate.number \in bUrgent /\ bWo'[r].priority = Enrich!Blank
        BY <2>2, <3>4, <4>2 DEF EnrichDue, Enrich!IsBlank
      <4>4. bBatch.priority = Enrich!Source(Enrich!Candidate.number)
        BY <1>1, <2>2, <4>3 DEF EnrichIInv, EnrichHomes
      <4>5. Enrich!Source(Enrich!Candidate.number) # Enrich!Blank
        BY DEF Enrich!Source, Enrich!Blank
      <4> QED
        BY <4>2, <4>3, <4>4, <4>5 DEF Enrich!IsBlank
    <3> QED
      BY <3>3, <3>4
  <2> QED
    BY <1>1, <2>1, <2>2 DEF EnrichToCome
<1> QED
  BY <1>6, <1>7, <1>8, <1>9 DEF EnrichIInv

LEMMA EnrichNextStep ==
    ASSUME EnrichConstantsOK, EnrichIInv, [Enrich!Next]_Enrich!vars PROVE EnrichIInv'
<1>1. CASE UNCHANGED Enrich!vars
  <2>1. UNCHANGED <<bWo, bEdits, bHome, bLosses, bPrimed, bBatch, bSum>>
    BY <1>1 DEF Enrich!vars
  <2>2. EnrichTInv'
    BY <2>1 DEF EnrichIInv, EnrichTInv
  <2>3. EnrichTally' /\ EnrichOneCandidate' /\ EnrichHomes'
    BY <2>1 DEF EnrichIInv, EnrichTally, EnrichAhead, EnrichBusy, EnrichOneCandidate,
       Enrich!Candidate, EnrichHomes
  <2>4. EnrichToCome'
    BY <2>1 DEF EnrichIInv, EnrichToCome, EnrichDue, EnrichComes, Enrich!IsBlank
  <2> QED
    BY <2>2, <2>3, <2>4 DEF EnrichIInv
<1>2. CASE Enrich!Next
  BY <1>2, EnrichLoadStep, EnrichOutOfTimeStep, EnrichFinishedStep, EnrichRequestStep,
     EnrichPrimeStep, EnrichReadStep, EnrichStoppedStep,
     EnrichApplyStep, EnrichRefusedStep, EnrichForgetStep, EnrichPeopleStep DEF Enrich!Next, Enrich!Step
<1> QED
  BY <1>1, <1>2

-----------------------------------------------------------------------------
LEMMA EnrichAdding == ASSUME EnrichIInv PROVE Enrich!CountsAddUp
<1> SUFFICES ASSUME bBatch.pc = "done"
             PROVE  /\ bSum.candidates = bSum.attempted + bSum.invalid + bSum.remaining
                    /\ bSum.attempted = bSum.refused + bSum.lost + bSum.written + bSum.unchanged
  BY DEF Enrich!CountsAddUp
<1>1. EnrichAhead = 0 /\ EnrichBusy = 0
  BY DEF EnrichAhead, EnrichBusy, EnrichUnderWay
<1>2. EnrichFields
  BY EnrichFieldsAre DEF EnrichIInv
<1>3. PICK a \in Nat, i \in Nat, r \in Nat, l \in Nat, w \in Nat, u \in Nat, m \in Nat, c \in Nat :
         /\ a = bSum.attempted /\ i = bSum.invalid /\ r = bSum.refused /\ l = bSum.lost
         /\ w = bSum.written /\ u = bSum.unchanged /\ m = bSum.remaining /\ c = bSum.candidates
  BY <1>2, Zenon DEF EnrichFields
<1>4. c = a + i + m + 0 /\ a = r + l + w + u + 0
  BY <1>1, <1>3, Zenon DEF EnrichIInv, EnrichTally
<1>5. c = a + i + m /\ a = r + l + w + u
  BY ONLY <1>4, c \in Nat, a \in Nat, i \in Nat, m \in Nat, r \in Nat, l \in Nat, w \in Nat,
     u \in Nat
<1> QED
  BY <1>3, <1>5, Zenon

LEMMA EnrichReading == ASSUME EnrichIInv PROVE Enrich!PrioritiesAreRead
<1> SUFFICES ASSUME bBatch.pc = "done", bEdits = 0, bLosses <= 1,
                    bSum.remaining + bSum.lost + bSum.refused = 0,
                    NEW r \in bRows, bWo[r].number \in bUrgent \ bBadNumbers, Enrich!IsBlank(bWo[r])
             PROVE  FALSE
  BY DEF Enrich!PrioritiesAreRead
<1>1. EnrichComes(r)
  BY DEF EnrichIInv, EnrichToCome, EnrichDue
<1>2. bSum.remaining + bSum.lost = 0
  BY EnrichFieldsAre DEF EnrichIInv, EnrichFields
<1>3. bBatch.todo = <<>>
  BY <1>2 DEF EnrichIInv, EnrichTally
<1> QED
  BY <1>1, <1>3 DEF EnrichComes

\* While a read is written, only the write takes a step of the batch.
LEMMA EnrichOnlyApply ==
    ASSUME EnrichConstantsOK, EnrichIInv, [Enrich!Next]_Enrich!vars, Enrich!Writes
    PROVE  Enrich!Apply
  BY DEF Enrich!Next, Enrich!Step, Enrich!Writes, Enrich!Load, Enrich!OutOfTime,
         Enrich!Finished,
         Enrich!Request, Enrich!Prime, Enrich!Read, Enrich!Stopped, Enrich!Asking,
         Enrich!Refused, Enrich!Edit, Enrich!Shelve, Enrich!ForgetHome, Enrich!vars

LEMMA EnrichSurviving ==
    ASSUME EnrichConstantsOK, EnrichIInv, [Enrich!Next]_Enrich!vars, Enrich!Writes, NEW r \in bRows
    PROVE  /\ bWo'[r].description # bWo[r].description => Enrich!IsFallback(bWo[r])
           /\ bWo'[r].priority # bWo[r].priority => Enrich!IsBlank(bWo[r])
  BY EnrichOnlyApply, EnrichApplyRows, EnrichAppliedIs

LEMMA EnrichRightOne ==
    ASSUME EnrichConstantsOK, EnrichIInv, [Enrich!Next]_Enrich!vars, Enrich!Writes, NEW r \in bRows
    PROVE  /\ bWo'[r] # bWo[r] => bWo[r].live
           /\ bWo'[r].description # bWo[r].description => bWo'[r].description = Enrich!Source(bWo[r].number)
           /\ bWo'[r].priority # bWo[r].priority => bWo'[r].priority = Enrich!Source(bWo[r].number)
<1>1. bBatch.priority \in {Enrich!Blank, Enrich!Source(Enrich!Candidate.number)}
  BY DEF EnrichIInv, EnrichOneCandidate, Enrich!Writes
<1>2. CASE r # Enrich!Candidate.id
  BY <1>2, EnrichOnlyApply, EnrichApplyRows
<1>3. CASE r = Enrich!Candidate.id
  <2>1. bWo'[r] = Enrich!Applied(bWo[r], Enrich!Candidate, bBatch.priority)
    BY <1>3, EnrichOnlyApply, EnrichApplyRows
  <2>2. /\ bWo'[r] # bWo[r] => bWo[r].live /\ bWo[r].number = Enrich!Candidate.number
        /\ bWo'[r].description # bWo[r].description => bWo'[r].description = Enrich!Source(bWo[r].number)
        /\ bWo'[r].priority # bWo[r].priority => Enrich!IsBlank(bWo[r]) /\ bWo'[r].priority = bBatch.priority
    BY <2>1, EnrichOnlyApply, EnrichApplyRows, EnrichAppliedIs
  <2>3. bWo'[r].priority # bWo[r].priority => bBatch.priority = Enrich!Source(Enrich!Candidate.number)
    BY <1>1, <2>2 DEF Enrich!IsBlank
  <2> QED
    BY <2>2, <2>3
<1> QED
  BY <1>2, <1>3

LEMMA EnrichInvariant ==
    EnrichConstantsOK => (Enrich!Init /\ [][Enrich!Next]_Enrich!vars => []EnrichIInv)
<1> SUFFICES ASSUME EnrichConstantsOK
             PROVE  Enrich!Init /\ [][Enrich!Next]_Enrich!vars => []EnrichIInv
  OBVIOUS
<1>1. Enrich!Init => EnrichIInv
  BY EnrichInitIInv
<1>2. EnrichIInv /\ [Enrich!Next]_Enrich!vars => EnrichIInv'
  BY EnrichNextStep
<1> QED
  BY <1>1, <1>2, PTL

\* A finished batch accounts for each candidate once, wherever it stopped, and one
\* that went through has every priority there was: CountsAddUp, PrioritiesAreRead
\* (netfacilities_jobs.py).
THEOREM EnrichBatchesAddUp ==
    EnrichConstantsOK => (Enrich!Init /\ [][Enrich!Next]_Enrich!vars => [](Enrich!TypeOK /\ Enrich!CountsAddUp /\ Enrich!PrioritiesAreRead))
<1> SUFFICES ASSUME EnrichConstantsOK
             PROVE  Enrich!Init /\ [][Enrich!Next]_Enrich!vars => [](Enrich!TypeOK /\ Enrich!CountsAddUp /\ Enrich!PrioritiesAreRead)
  OBVIOUS
<1>1. EnrichIInv => Enrich!TypeOK /\ Enrich!CountsAddUp /\ Enrich!PrioritiesAreRead
  BY EnrichTypes, EnrichAdding, EnrichReading
<1> QED
  BY <1>1, EnrichInvariant, PTL

\* The batch writes over nothing a person typed, and what it read for a number only
\* on the live row that bears it then: EditsSurviveBatch, RightOrder.
THEOREM EnrichBatchesSpareEdits ==
    EnrichConstantsOK => (Enrich!Init /\ [][Enrich!Next]_Enrich!vars => Enrich!EditsSurviveBatch /\ Enrich!RightOrder)
<1> SUFFICES ASSUME EnrichConstantsOK
             PROVE  Enrich!Init /\ [][Enrich!Next]_Enrich!vars => Enrich!EditsSurviveBatch /\ Enrich!RightOrder
  OBVIOUS
<1> DEFINE Spares == Enrich!Writes =>
                 \A r \in bRows : /\ bWo'[r].description # bWo[r].description => Enrich!IsFallback(bWo[r])
                                  /\ bWo'[r].priority # bWo[r].priority => Enrich!IsBlank(bWo[r])
           Right == Enrich!Writes =>
                 \A r \in bRows :
                    /\ bWo'[r] # bWo[r] => bWo[r].live
                    /\ bWo'[r].description # bWo[r].description =>
                          bWo'[r].description = Enrich!Source(bWo[r].number)
                    /\ bWo'[r].priority # bWo[r].priority =>
                          bWo'[r].priority = Enrich!Source(bWo[r].number)
<1>1. ASSUME EnrichIInv, [Enrich!Next]_Enrich!vars PROVE Spares /\ Right
  BY <1>1, EnrichSurviving, EnrichRightOne
<1>2. EnrichIInv /\ [Enrich!Next]_Enrich!vars => [Spares]_Enrich!vars /\ [Right]_Enrich!vars
  BY <1>1
<1> QED
  BY <1>2, EnrichInvariant, PTL DEF Enrich!EditsSurviveBatch, Enrich!RightOrder

-----------------------------------------------------------------------------
(* The CSV import.  A row without a number is one nobody created, a created *)
(* one has its task, and an import at a row knows where its names lead.    *)

CsvRouting == [VendorNames -> iSupervisors \cup {None}] \cup {Csv!NoJob.route}
CsvJobs == [next : Nat, existed : BOOLEAN, looked : BOOLEAN, route : CsvRouting, created : SUBSET iNumbers]

\* An import that runs is at a row of its file, and knows where its names lead.
CsvJobOK(t) ==
    /\ iJob[t].next \in 0..Len(iFiles[t])
    /\ iJob[t].next # 0 => iJob[t].route \in [VendorNames -> iSupervisors \cup {None}]
    /\ Csv!Ready(t) => Csv!Current(t).number # None

CsvTInv == iRow \in [iRows -> Csv!OrderRows] /\ iActive \subseteq iSupervisors
        /\ iJob \in [Clerks -> CsvJobs] /\ \A t \in Clerks : CsvJobOK(t)

\* A row without a number is one nobody created; a created one has its task.
CsvWhole(r) == IF iRow[r].number = None THEN iRow[r] = Csv!NoRow ELSE iRow[r].task # Csv!Blank
CsvIInv == CsvTInv /\ Csv!OneNumber /\ \A r \in iRows : CsvWhole(r)

\* A set of the Csv instance is as large as elsewhere.
LEMMA CsvSizes == ASSUME NEW S PROVE Csv!Cardinality(S) = Cardinality(S)
  BY DEF Csv!Cardinality, Cardinality

LEMMA CsvTypes == ASSUME CsvIInv PROVE Csv!TypeOK
  BY DEF CsvIInv, CsvTInv, Csv!TypeOK, CsvJobs

LEMMA CsvInitIInv == ASSUME ImportConstantsOK, Csv!Init PROVE CsvIInv
<1>1. Csv!NoRow \in Csv!OrderRows
  BY DEF Csv!NoRow, Csv!OrderRows, Csv!Blank
<1>2. Csv!NoJob \in CsvJobs
  BY DEF Csv!NoJob, CsvJobs, CsvRouting
<1>3. \A t \in Clerks : iJob[t] = Csv!NoJob /\ iJob[t].next = 0 /\ Len(iFiles[t]) \in Nat
  BY DEF Csv!Init, Csv!NoJob, ImportConstantsOK
<1>4. CsvTInv
  BY <1>1, <1>2, <1>3 DEF Csv!Init, CsvTInv, CsvJobOK, Csv!Ready
<1> QED
  BY <1>4 DEF Csv!Init, CsvIInv, Csv!OneNumber, CsvWhole, Csv!NoRow

-----------------------------------------------------------------------------
\* A step of one import, which leaves the rows to the caller.
LEMMA CsvJobSteps ==
    ASSUME ImportConstantsOK, CsvIInv, NEW t \in Clerks, NEW j \in CsvJobs,
           iJob' = [iJob EXCEPT ![t] = j],
           j.next \in 0..Len(iFiles[t]),
           j.next # 0 => j.route \in [VendorNames -> iSupervisors \cup {None}],
           j.next # 0 /\ j.looked => iFiles[t][j.next].number # None
    PROVE  iJob' \in [Clerks -> CsvJobs] /\ \A u \in Clerks : CsvJobOK(u)'
<1>1. iJob' \in [Clerks -> CsvJobs] /\ iJob'[t] = j
      /\ \A u \in Clerks \ {t} : iJob'[u] = iJob[u]
  BY DEF CsvIInv, CsvTInv
<1>2. CsvJobOK(t)'
  BY <1>1 DEF CsvJobOK, Csv!Ready, Csv!Current
<1>3. ASSUME NEW u \in Clerks \ {t} PROVE CsvJobOK(u)'
  BY <1>1, <1>3 DEF CsvIInv, CsvTInv, CsvJobOK, Csv!Ready, Csv!Current
<1> QED
  BY <1>1, <1>2, <1>3

\* An import at a row: what it reads there, and the row it takes next.
LEMMA CsvAtRow ==
    ASSUME ImportConstantsOK, CsvIInv, NEW t \in Clerks, iJob[t].next # 0
    PROVE  /\ Csv!Current(t) \in CsvRows /\ iJob[t] \in CsvJobs
           /\ Csv!RouteOf(t, Csv!Current(t)) \in iSupervisors \cup {None}
           /\ Csv!After(t) \in 0..Len(iFiles[t]) /\ Csv!After(t) \in Nat
<1>1. iJob[t] \in CsvJobs /\ iJob[t].next \in 1..Len(iFiles[t]) /\ iFiles[t] \in Seq(CsvRows)
      /\ iJob[t].route \in [VendorNames -> iSupervisors \cup {None}]
  BY DEF CsvIInv, CsvTInv, CsvJobOK, ImportConstantsOK, CsvJobs
<1>2. Csv!Current(t) \in CsvRows
  BY <1>1 DEF Csv!Current
<1>3. Csv!RouteOf(t, Csv!Current(t)) \in iSupervisors \cup {None}
  BY <1>1, <1>2 DEF Csv!RouteOf, CsvRows
<1>4. Csv!After(t) \in 0..Len(iFiles[t])
  BY <1>1 DEF Csv!After
<1> QED
  BY <1>1, <1>2, <1>3, <1>4

LEMMA CsvDoneIs ==
    ASSUME NEW j \in CsvJobs, NEW n \in Nat
    PROVE  Csv!Done(j, n) \in CsvJobs /\ Csv!Done(j, n).next = n /\ ~Csv!Done(j, n).looked
           /\ Csv!Done(j, n).route = j.route
  BY DEF Csv!Done, CsvJobs

LEMMA CsvSameRows ==
    ASSUME CsvIInv, iRow' = iRow PROVE Csv!OneNumber' /\ \A r \in iRows : CsvWhole(r)'
  BY DEF CsvIInv, Csv!OneNumber, CsvWhole

\* A row that takes a live order's place, its number its own or one nobody has.
LEMMA CsvRowWritten ==
    ASSUME CsvIInv, NEW r \in iRows, NEW x \in Csv!OrderRows, iRow' = [iRow EXCEPT ![r] = x],
           x.number = iRow[r].number \/ Csv!Free(x.number),
           IF x.number = None THEN x = Csv!NoRow ELSE x.task # Csv!Blank
    PROVE  iRow' \in [iRows -> Csv!OrderRows] /\ Csv!OneNumber' /\ \A q \in iRows : CsvWhole(q)'
<1>1. /\ iRow' \in [iRows -> Csv!OrderRows] /\ iRow'[r] = x
      /\ \A q \in iRows \ {r} : iRow'[q] = iRow[q]
  BY DEF CsvIInv, CsvTInv
<1>2. Csv!OneNumber'
  BY <1>1 DEF CsvIInv, Csv!OneNumber, Csv!Free, Csv!Named
<1>3. \A q \in iRows : CsvWhole(q)'
  BY <1>1 DEF CsvIInv, CsvWhole
<1> QED
  BY <1>1, <1>2, <1>3

LEMMA CsvLookupIs == ASSUME CsvIInv
                     PROVE  Csv!Lookup \in [VendorNames -> iSupervisors \cup {None}]
<1> SUFFICES ASSUME NEW nm \in VendorNames
             PROVE  LET who == {s \in iActive : iNameOf[s] = nm}
                    IN (IF Csv!Cardinality(who) = 1 THEN CHOOSE s \in who : TRUE ELSE None)
                          \in iSupervisors \cup {None}
  BY DEF Csv!Lookup, VendorNames
<1> DEFINE who == {s \in iActive : iNameOf[s] = nm}
<1>1. CASE who = {}
  BY <1>1, FS_EmptySet, CsvSizes
<1>2. CASE who # {}
  <2>1. (CHOOSE s \in who : TRUE) \in who
    BY <1>2
  <2> QED
    BY <2>1 DEF CsvIInv, CsvTInv
<1> QED
  BY <1>1, <1>2

LEMMA CsvBeginStep ==
    ASSUME ImportConstantsOK, CsvIInv, NEW t \in Clerks, Csv!Begin(t) PROVE CsvIInv'
<1> DEFINE j == [Csv!NoJob EXCEPT !.next = 1, !.route = Csv!Lookup]
<1>1. iJob' = [iJob EXCEPT ![t] = j] /\ UNCHANGED <<iRow, iActive>>
  BY DEF Csv!Begin
<1>2. j \in CsvJobs /\ j.next = 1 /\ ~j.looked /\ j.route = Csv!Lookup
  BY CsvLookupIs DEF Csv!NoJob, CsvJobs, CsvRouting
<1>3. 1 \in 0..Len(iFiles[t])
  BY DEF ImportConstantsOK
<1> HIDE DEF j
<1>4. iJob' \in [Clerks -> CsvJobs] /\ \A u \in Clerks : CsvJobOK(u)'
  BY <1>1, <1>2, <1>3, CsvLookupIs, CsvJobSteps
<1> QED
  BY <1>1, <1>4, CsvSameRows DEF CsvIInv, CsvTInv

LEMMA CsvMovedOn ==
    ASSUME ImportConstantsOK, CsvIInv, NEW t \in Clerks, iJob[t].next # 0,
           NEW n \in 0..Len(iFiles[t]),
           iJob' = [iJob EXCEPT ![t] = Csv!Done(iJob[t], n)]
    PROVE  iJob' \in [Clerks -> CsvJobs] /\ \A u \in Clerks : CsvJobOK(u)'
<1>1. iJob[t] \in CsvJobs /\ n \in Nat
      /\ iJob[t].route \in [VendorNames -> iSupervisors \cup {None}]
  BY DEF CsvIInv, CsvTInv, CsvJobOK, ImportConstantsOK
<1>2. Csv!Done(iJob[t], n) \in CsvJobs /\ Csv!Done(iJob[t], n).next = n
      /\ ~Csv!Done(iJob[t], n).looked
      /\ Csv!Done(iJob[t], n).route = iJob[t].route
  BY <1>1, CsvDoneIs
<1> QED
  BY <1>1, <1>2, CsvJobSteps

LEMMA CsvSkipStep ==
    ASSUME ImportConstantsOK, CsvIInv, NEW t \in Clerks, Csv!Skip(t) \/ Csv!Abort(t)
    PROVE  CsvIInv'
<1>1. iJob[t].next # 0 /\ UNCHANGED <<iRow, iActive>>
  BY DEF Csv!Skip, Csv!Abort, Csv!Ready
<1>2. PICK n \in 0..Len(iFiles[t]) : iJob' = [iJob EXCEPT ![t] = Csv!Done(iJob[t], n)]
  <2>1. CASE Csv!Skip(t)
    BY <1>1, <2>1, CsvAtRow DEF Csv!Skip, CsvIInv, CsvTInv
  <2>2. CASE Csv!Abort(t)
    <3>1. 0 \in 0..Len(iFiles[t])
      BY DEF ImportConstantsOK
    <3> QED
      BY <2>2, <3>1 DEF Csv!Abort, CsvIInv, CsvTInv
  <2> QED
    BY <2>1, <2>2
<1>3. iJob' \in [Clerks -> CsvJobs] /\ \A u \in Clerks : CsvJobOK(u)'
  BY <1>1, <1>2, CsvMovedOn
<1> QED
  BY <1>1, <1>3, CsvSameRows DEF CsvIInv, CsvTInv

LEMMA CsvLookStep == ASSUME ImportConstantsOK, CsvIInv, NEW t \in Clerks, Csv!Look(t)
                     PROVE  CsvIInv'
<1> DEFINE hit == Csv!Named(Csv!Current(t).number)
           j == [iJob[t] EXCEPT !.looked = TRUE, !.existed = (hit # {})]
<1>1. iJob[t].next # 0 /\ Csv!Current(t).number # None /\ UNCHANGED <<iRow, iActive>>
  BY DEF Csv!Look
<1>2. iJob' \in [Clerks -> CsvJobs] /\ \A u \in Clerks : CsvJobOK(u)'
  <2>1. CASE iJob' = [iJob EXCEPT ![t] = Csv!Done(iJob[t], Csv!After(t))]
    BY <1>1, <2>1, CsvAtRow, CsvMovedOn
  <2>2. CASE iJob' = [iJob EXCEPT ![t] = j]
    <3>1. j \in CsvJobs /\ j.next = iJob[t].next /\ j.route = iJob[t].route
      <4>1. iJob[t] \in CsvJobs
        BY <1>1, CsvAtRow
      <4> DEFINE k == [iJob[t] EXCEPT !.looked = TRUE]
      <4>2. k \in CsvJobs /\ k.next = iJob[t].next /\ k.route = iJob[t].route
        BY <4>1 DEF CsvJobs
      <4>3. j = [k EXCEPT !.existed = (hit # {})] /\ (hit # {}) \in BOOLEAN
        OBVIOUS
      <4> HIDE DEF k, hit, j
      <4> QED
        BY <4>2, <4>3 DEF CsvJobs
    <3> HIDE DEF j
    <3>2. iJob[t].next \in 0..Len(iFiles[t])
          /\ iJob[t].route \in [VendorNames -> iSupervisors \cup {None}]
      BY <1>1 DEF CsvIInv, CsvTInv, CsvJobOK
    <3> QED
      BY <1>1, <2>2, <3>1, <3>2, CsvJobSteps DEF Csv!Current
  <2> QED
    BY <2>1, <2>2 DEF Csv!Look, CsvIInv, CsvTInv
<1> QED
  BY <1>1, <1>2, CsvSameRows DEF CsvIInv, CsvTInv

LEMMA CsvCountedKeeps ==
    ASSUME ImportConstantsOK, CsvIInv, NEW t \in Clerks, Csv!Ready(t), iJob' = [iJob EXCEPT ![t] = Csv!Counted(t, Csv!Current(t))]
    PROVE  iJob' \in [Clerks -> CsvJobs] /\ \A u \in Clerks : CsvJobOK(u)'
<1> DEFINE d == Csv!Done(iJob[t], Csv!After(t))
           made == IF iJob[t].existed THEN d.created ELSE d.created \cup {Csv!Current(t).number}
<1>1. Csv!Current(t) \in CsvRows /\ Csv!Current(t).number # None /\ iJob[t] \in CsvJobs
      /\ Csv!After(t) \in 0..Len(iFiles[t]) /\ Csv!After(t) \in Nat
      /\ iJob[t].route \in [VendorNames -> iSupervisors \cup {None}]
  BY CsvAtRow DEF Csv!Ready, CsvIInv, CsvTInv, CsvJobOK
<1>2. d \in CsvJobs /\ d.next = Csv!After(t) /\ ~d.looked /\ d.route = iJob[t].route
  BY <1>1, CsvDoneIs
<1> HIDE DEF d
<1>3. made \in SUBSET iNumbers
  BY <1>1, <1>2 DEF CsvJobs, CsvRows
<1>4. Csv!Counted(t, Csv!Current(t)) = [d EXCEPT !.created = made]
  BY DEF Csv!Counted, d
<1>5. Csv!Counted(t, Csv!Current(t)) \in CsvJobs
      /\ Csv!Counted(t, Csv!Current(t)).next = Csv!After(t)
      /\ ~Csv!Counted(t, Csv!Current(t)).looked
      /\ Csv!Counted(t, Csv!Current(t)).route = iJob[t].route
  <2> HIDE DEF made
  <2> QED
    BY <1>2, <1>3, <1>4 DEF CsvJobs
<1> QED
  BY <1>1, <1>5, CsvJobSteps

LEMMA CsvGivenIs ==
    ASSUME NEW c \in CsvRows, c.number # None
    PROVE  /\ Csv!Given(c) \in {Csv!Link(n) : n \in iNumbers} \cup {Csv!TaskOf(x) : x \in iTasks}
           /\ Csv!Given(c) # Csv!Blank /\ (c.task # None => Csv!Given(c)[1] = "task")
  BY DEF Csv!Given, CsvRows, Csv!Link, Csv!TaskOf, Csv!Blank

\* What an import writes into a live order: blanks filled, its own link replaced.
LEMMA CsvMergedIs ==
    ASSUME CsvIInv, NEW r \in iRows, NEW c \in CsvRows, c.number # None,
           NEW s \in iSupervisors \cup {None},
           iRow[r].number # None
    PROVE  /\ Csv!Merged(r, c, s) \in Csv!OrderRows
           /\ Csv!Merged(r, c, s).number = iRow[r].number
           /\ Csv!Merged(r, c, s).task # Csv!Blank
           /\ iRow[r].place # None => Csv!Merged(r, c, s).place = iRow[r].place
           /\ iRow[r].task # Csv!Link(iRow[r].number) => Csv!Merged(r, c, s).task = iRow[r].task
           /\ Csv!Merged(r, c, s).task[1] # "link" \/ Csv!Merged(r, c, s).task = iRow[r].task
           /\ iRow[r].sup # None => Csv!Merged(r, c, s).sup = iRow[r].sup
<1>1. iRow[r] \in Csv!OrderRows /\ iRow[r].task # Csv!Blank
  BY DEF CsvIInv, CsvTInv, CsvWhole
<1>2. /\ Csv!TaskAfter(r, c) \in {Csv!Link(n) : n \in iNumbers} \cup {Csv!TaskOf(x) : x \in iTasks}
      /\ Csv!TaskAfter(r, c) # Csv!Blank
      /\ iRow[r].task # Csv!Link(iRow[r].number) => Csv!TaskAfter(r, c) = iRow[r].task
      /\ Csv!TaskAfter(r, c)[1] # "link" \/ Csv!TaskAfter(r, c) = iRow[r].task
  BY <1>1, CsvGivenIs DEF Csv!TaskAfter, Csv!Generated, Csv!OrderRows
<1>3. Csv!Merged(r, c, s) = [iRow[r] EXCEPT !.task = Csv!TaskAfter(r, c),
                                       !.place = IF iRow[r].place = None THEN c.place ELSE iRow[r].place,
                                       !.sup = Csv!Routed(r, s)]
  BY <1>1 DEF Csv!Merged, Csv!OrderRows
<1>4. (IF iRow[r].place = None THEN c.place ELSE iRow[r].place) \in iPlaces \cup {None}
  BY <1>1 DEF Csv!OrderRows, CsvRows
<1>5. Csv!Routed(r, s) \in iSupervisors \cup {None} /\ (iRow[r].sup # None => Csv!Routed(r, s) = iRow[r].sup)
  BY <1>1 DEF Csv!Routed, Csv!OrderRows
<1>6. /\ Csv!Merged(r, c, s) \in Csv!OrderRows /\ Csv!Merged(r, c, s).number = iRow[r].number
      /\ Csv!Merged(r, c, s).task = Csv!TaskAfter(r, c)
      /\ Csv!Merged(r, c, s).place = IF iRow[r].place = None THEN c.place ELSE iRow[r].place
      /\ Csv!Merged(r, c, s).sup = Csv!Routed(r, s)
  <2> DEFINE tk == Csv!TaskAfter(r, c)
             p == IF iRow[r].place = None THEN c.place ELSE iRow[r].place
             v == Csv!Routed(r, s)
             m == Csv!Merged(r, c, s)
  <2>1. /\ tk \in {Csv!Link(n) : n \in iNumbers} \cup {Csv!TaskOf(x) : x \in iTasks}
        /\ p \in iPlaces \cup {None} /\ v \in iSupervisors \cup {None}
        /\ m = [iRow[r] EXCEPT !.task = tk, !.place = p, !.sup = v]
    BY <1>2, <1>3, <1>4, <1>5
  <2> HIDE DEF tk, p, v, m
  <2>2. m \in Csv!OrderRows /\ m.number = iRow[r].number /\ m.task = tk /\ m.place = p
        /\ m.sup = v
    BY <1>1, <2>1 DEF Csv!OrderRows
  <2> QED
    BY <2>2 DEF tk, p, v, m
<1> QED
  BY ONLY <1>2, <1>5, <1>6, Zenon

LEMMA CsvMergeRow ==
    ASSUME ImportConstantsOK, CsvIInv, NEW t \in Clerks, Csv!Merge(t)
    PROVE  \/ UNCHANGED iRow
           \/ \E r \in iRows : /\ iRow[r].live /\ iRow[r].number # None
                               /\ iRow' = [iRow EXCEPT ![r] = Csv!Merged(r, Csv!Current(t), Csv!RouteOf(t, Csv!Current(t)))]
<1>1. Csv!Current(t).number # None
  BY DEF Csv!Merge, CsvIInv, CsvTInv, CsvJobOK
<1> QED
  BY <1>1 DEF Csv!Merge, Csv!Named, Csv!Untouched

LEMMA CsvMergeStep ==
    ASSUME ImportConstantsOK, CsvIInv, NEW t \in Clerks, Csv!Merge(t) PROVE CsvIInv'
<1>1. Csv!Ready(t) /\ iJob[t].next # 0 /\ iActive' = iActive
  BY DEF Csv!Merge, Csv!Ready
<1>2. Csv!Current(t) \in CsvRows /\ Csv!Current(t).number # None
      /\ Csv!After(t) \in 0..Len(iFiles[t])
      /\ Csv!RouteOf(t, Csv!Current(t)) \in iSupervisors \cup {None}
  BY <1>1, CsvAtRow DEF CsvIInv, CsvTInv, CsvJobOK
<1>3. iJob' \in [Clerks -> CsvJobs] /\ \A u \in Clerks : CsvJobOK(u)'
  <2>1. CASE iJob' = [iJob EXCEPT ![t] = Csv!Done(iJob[t], Csv!After(t))]
    BY <1>1, <1>2, <2>1, CsvMovedOn
  <2>2. CASE iJob' = [iJob EXCEPT ![t] = Csv!Counted(t, Csv!Current(t))]
    BY <1>1, <2>2, CsvCountedKeeps
  <2> QED
    BY <2>1, <2>2 DEF Csv!Merge, CsvIInv, CsvTInv
<1>4. iRow' \in [iRows -> Csv!OrderRows] /\ Csv!OneNumber' /\ \A r \in iRows : CsvWhole(r)'
  <2>1. CASE UNCHANGED iRow
    BY <2>1, CsvSameRows DEF CsvIInv, CsvTInv
  <2>2. CASE \E r \in iRows : /\ iRow[r].live /\ iRow[r].number # None
                              /\ iRow' = [iRow EXCEPT ![r] = Csv!Merged(r, Csv!Current(t), Csv!RouteOf(t, Csv!Current(t)))]
    <3>1. PICK r \in iRows : /\ iRow[r].number # None
                             /\ iRow' = [iRow EXCEPT ![r] = Csv!Merged(r, Csv!Current(t), Csv!RouteOf(t, Csv!Current(t)))]
      BY <2>2
    <3> DEFINE x == Csv!Merged(r, Csv!Current(t), Csv!RouteOf(t, Csv!Current(t)))
    <3>2. x \in Csv!OrderRows /\ x.number = iRow[r].number /\ x.task # Csv!Blank
      BY <1>2, <3>1, CsvMergedIs
    <3> HIDE DEF x
    <3>3. iRow' = [iRow EXCEPT ![r] = x]
      BY <3>1 DEF x
    <3> QED
      BY <3>1, <3>2, <3>3, CsvRowWritten
  <2> QED
    BY <2>1, <2>2, CsvMergeRow
<1> QED
  BY <1>1, <1>3, <1>4 DEF CsvIInv, CsvTInv

LEMMA CsvCreateStep ==
    ASSUME ImportConstantsOK, CsvIInv, NEW t \in Clerks, Csv!Create(t) PROVE CsvIInv'
<1>1. Csv!Ready(t) /\ iJob[t].next # 0 /\ iActive' = iActive /\ Csv!Free(Csv!Current(t).number)
      /\ iJob' = [iJob EXCEPT ![t] = Csv!Counted(t, Csv!Current(t))]
  BY DEF Csv!Create, Csv!Ready
<1>2. Csv!Current(t) \in CsvRows /\ Csv!Current(t).number # None
      /\ Csv!RouteOf(t, Csv!Current(t)) \in iSupervisors \cup {None}
  BY <1>1, CsvAtRow DEF CsvIInv, CsvTInv, CsvJobOK
<1>3. iJob' \in [Clerks -> CsvJobs] /\ \A u \in Clerks : CsvJobOK(u)'
  BY <1>1, CsvCountedKeeps
<1> DEFINE x == Csv!New(Csv!Current(t), Csv!RouteOf(t, Csv!Current(t)), t)
<1>4. x \in Csv!OrderRows /\ x.number = Csv!Current(t).number /\ x.task # Csv!Blank
  BY <1>2, CsvGivenIs, Zenon DEF Csv!New, Csv!NoRow, Csv!OrderRows, CsvRows
<1>5. PICK r \in iRows : iRow' = [iRow EXCEPT ![r] = x]
  BY DEF Csv!Create, Csv!Named
<1> HIDE DEF x
<1>6. iRow' \in [iRows -> Csv!OrderRows] /\ Csv!OneNumber' /\ \A q \in iRows : CsvWhole(q)'
  BY <1>1, <1>2, <1>4, <1>5, CsvRowWritten
<1> QED
  BY <1>1, <1>3, <1>6 DEF CsvIInv, CsvTInv

LEMMA CsvPutStep ==
    ASSUME CsvIInv, NEW r \in iRows, NEW x \in Csv!OrderRows, Csv!Put(r, x),
           x.number = iRow[r].number \/ Csv!Free(x.number), x.number # None, x.task # Csv!Blank
    PROVE  CsvIInv'
<1>1. iRow' = [iRow EXCEPT ![r] = x] /\ UNCHANGED <<iActive, iJob>>
  BY DEF Csv!Put
<1>2. iRow' \in [iRows -> Csv!OrderRows] /\ Csv!OneNumber' /\ \A q \in iRows : CsvWhole(q)'
  BY <1>1, CsvRowWritten
<1>3. iJob' \in [Clerks -> CsvJobs] /\ \A u \in Clerks : CsvJobOK(u)'
  BY <1>1 DEF CsvIInv, CsvTInv, CsvJobOK, Csv!Ready, Csv!Current
<1> QED
  BY <1>1, <1>2, <1>3 DEF CsvIInv, CsvTInv

\* The other endpoints act on an order that was created.
LEMMA CsvOthersStep ==
    ASSUME ImportConstantsOK, CsvIInv, NEW t \in Clerks, NEW r \in iRows,
           \/ \E u \in iWorkers, p \in iPlaces : Csv!Resolve(t, r, u, p)
           \/ \E x \in iTasks : Csv!Edit(t, r, x)
           \/ \E s \in iSupervisors \cup {None} : Csv!Route(t, r, s)
           \/ \E n \in iNumbers : Csv!Renumber(t, r, n)
           \/ Csv!Archive(t, r) \/ Csv!Restore(t, r)
    PROVE  CsvIInv'
<1>1. iRow[r] \in Csv!OrderRows /\ (iRow[r].number # None => iRow[r].task # Csv!Blank)
      /\ (iRow[r].live => iRow[r].number # None)
  BY DEF CsvIInv, CsvTInv, CsvWhole, Csv!NoRow
<1>2. ASSUME NEW u \in iWorkers, NEW p \in iPlaces, Csv!Resolve(t, r, u, p) PROVE CsvIInv'
  <2> DEFINE C == IF iRow[r].crew = {} THEN {u} ELSE iRow[r].crew
             q == IF iRow[r].place = None THEN p ELSE iRow[r].place
             x == [iRow[r] EXCEPT !.place = q, !.crew = C]
  <2>1. Csv!Put(r, x) /\ iRow[r].live
    BY <1>2, Zenon DEF Csv!Resolve, Csv!Put
  <2>2. C \in SUBSET iWorkers /\ q \in iPlaces \cup {None}
    BY <1>1 DEF Csv!OrderRows
  <2> HIDE DEF C, q
  <2>3. x \in Csv!OrderRows /\ x.number = iRow[r].number /\ x.task = iRow[r].task
    BY <1>1, <2>2 DEF Csv!OrderRows
  <2> QED
    BY <1>1, <2>1, <2>3, CsvPutStep
<1>3. ASSUME NEW y \in iTasks, Csv!Edit(t, r, y) PROVE CsvIInv'
  <2> DEFINE x == [iRow[r] EXCEPT !.task = Csv!TaskOf(y)]
  <2>1. Csv!Put(r, x) /\ iRow[r].live
    BY <1>3 DEF Csv!Edit
  <2>2. x \in Csv!OrderRows /\ x.number = iRow[r].number /\ x.task # Csv!Blank
    BY <1>1 DEF Csv!OrderRows, Csv!TaskOf, Csv!Blank
  <2> QED
    BY <1>1, <2>1, <2>2, CsvPutStep
<1>4. ASSUME NEW s \in iSupervisors \cup {None}, Csv!Route(t, r, s) PROVE CsvIInv'
  <2> DEFINE x == [iRow[r] EXCEPT !.sup = s]
  <2>1. Csv!Put(r, x) /\ iRow[r].live
    BY <1>4 DEF Csv!Route
  <2>2. x \in Csv!OrderRows /\ x.number = iRow[r].number /\ x.task = iRow[r].task
    BY <1>1 DEF Csv!OrderRows
  <2> QED
    BY <1>1, <2>1, <2>2, CsvPutStep
<1>5. ASSUME NEW n \in iNumbers, Csv!Renumber(t, r, n) PROVE CsvIInv'
  <2> DEFINE x == [iRow[r] EXCEPT !.number = n]
  <2>1. Csv!Put(r, x) /\ iRow[r].live /\ Csv!Free(n)
    BY <1>5 DEF Csv!Renumber
  <2>2. x \in Csv!OrderRows /\ x.number = n /\ x.task = iRow[r].task /\ n # None
    BY <1>1 DEF Csv!OrderRows, ImportConstantsOK
  <2> QED
    BY <1>1, <2>1, <2>2, CsvPutStep
<1>6. ASSUME NEW b \in BOOLEAN, iRow[r].number # None, Csv!Put(r, [iRow[r] EXCEPT !.live = b])
      PROVE  CsvIInv'
  <2> DEFINE x == [iRow[r] EXCEPT !.live = b]
  <2>1. x \in Csv!OrderRows /\ x.number = iRow[r].number /\ x.task = iRow[r].task
    BY <1>1 DEF Csv!OrderRows
  <2> QED
    BY <1>1, <1>6, <2>1, CsvPutStep
<1>7. CASE Csv!Archive(t, r) \/ Csv!Restore(t, r)
  BY <1>1, <1>6, <1>7 DEF Csv!Archive, Csv!Restore
<1> QED
  BY <1>2, <1>3, <1>4, <1>5, <1>6, <1>7

LEMMA CsvLeaveStep ==
    ASSUME ImportConstantsOK, CsvIInv, NEW t \in Clerks, NEW s \in iSupervisors, Csv!Leave(t, s)
    PROVE  CsvIInv'
<1>1. UNCHANGED <<iRow, iJob>> /\ iActive' \subseteq iSupervisors
  BY DEF Csv!Leave, CsvIInv, CsvTInv
<1> QED
  BY <1>1, CsvSameRows DEF CsvIInv, CsvTInv, CsvJobOK, Csv!Ready, Csv!Current

LEMMA CsvNextStep == ASSUME ImportConstantsOK, CsvIInv, [Csv!Next]_Csv!vars PROVE CsvIInv'
<1>1. CASE UNCHANGED Csv!vars
  BY <1>1, CsvSameRows DEF Csv!vars, CsvIInv, CsvTInv, CsvJobOK, Csv!Ready, Csv!Current
<1>2. CASE Csv!Next
  <2>1. PICK t \in Clerks :
           \/ Csv!Begin(t) \/ Csv!Skip(t) \/ Csv!Look(t) \/ Csv!Merge(t) \/ Csv!Create(t) \/ Csv!Abort(t)
           \/ \E r \in iRows :
                 \/ \E u \in iWorkers, p \in iPlaces : Csv!Resolve(t, r, u, p)
                 \/ \E x \in iTasks : Csv!Edit(t, r, x)
                 \/ \E s \in iSupervisors \cup {None} : Csv!Route(t, r, s)
                 \/ \E n \in iNumbers : Csv!Renumber(t, r, n)
                 \/ Csv!Archive(t, r) \/ Csv!Restore(t, r)
           \/ \E s \in iSupervisors : Csv!Leave(t, s)
    BY <1>2, Zenon DEF Csv!Next
  <2>2. CASE Csv!Begin(t) \/ Csv!Skip(t) \/ Csv!Look(t) \/ Csv!Abort(t)
    BY <2>2, CsvBeginStep, CsvSkipStep, CsvLookStep, Zenon
  <2>3. CASE Csv!Merge(t) \/ Csv!Create(t)
    BY <2>3, CsvMergeStep, CsvCreateStep, Zenon
  <2>4. CASE \E s \in iSupervisors : Csv!Leave(t, s)
    BY <2>4, CsvLeaveStep, Zenon
  <2> QED
    BY <2>1, <2>2, <2>3, <2>4, CsvOthersStep, Zenon
<1> QED
  BY <1>1, <1>2

-----------------------------------------------------------------------------
LEMMA CsvPutLeaves == ASSUME NEW r, NEW x, Csv!Put(r, x) PROVE iJob' = iJob
  BY DEF Csv!Put

\* What the rows become in a step of an import.
LEMMA CsvWriting ==
    ASSUME ImportConstantsOK, CsvIInv, Csv!Next, NEW t \in Clerks, Csv!Imports(t)
    PROVE  \/ UNCHANGED iRow
           \/ \E u \in Clerks, r \in iRows : /\ Csv!Ready(u) /\ iRow[r].live /\ iRow[r].number # None
                  /\ iRow' = [iRow EXCEPT ![r] = Csv!Merged(r, Csv!Current(u), Csv!RouteOf(u, Csv!Current(u)))]
           \/ \E r \in iRows : \E x : iRow[r].number = None /\ iRow' = [iRow EXCEPT ![r] = x]
<1>1. iJob' # iJob
  BY DEF Csv!Imports
<1>2. PICK u \in Clerks :
         Csv!Begin(u) \/ Csv!Skip(u) \/ Csv!Look(u) \/ Csv!Merge(u) \/ Csv!Create(u) \/ Csv!Abort(u)
  <2>1. \A u \in Clerks, r \in iRows :
           /\ \A w \in iWorkers, p \in iPlaces : ~Csv!Resolve(u, r, w, p)
           /\ \A x \in iTasks : ~Csv!Edit(u, r, x)
           /\ \A s \in iSupervisors \cup {None} : ~Csv!Route(u, r, s)
           /\ \A n \in iNumbers : ~Csv!Renumber(u, r, n)
           /\ ~Csv!Archive(u, r) /\ ~Csv!Restore(u, r)
    BY <1>1, CsvPutLeaves, Zenon DEF Csv!Resolve, Csv!Edit, Csv!Route, Csv!Renumber,
       Csv!Archive,
       Csv!Restore
  <2>2. \A u \in Clerks : \A s \in iSupervisors : ~Csv!Leave(u, s)
    BY <1>1 DEF Csv!Leave
  <2> QED
    BY <2>1, <2>2, Zenon DEF Csv!Next
<1>3. CASE Csv!Merge(u)
  BY <1>3, CsvMergeRow, Zenon DEF Csv!Merge
<1>4. CASE Csv!Create(u)
  BY <1>4 DEF Csv!Create, Csv!Named
<1> QED
  BY <1>2, <1>3, <1>4 DEF Csv!Begin, Csv!Skip, Csv!Look, Csv!Abort

LEMMA CsvImporting ==
    ASSUME ImportConstantsOK, CsvIInv, [Csv!Next]_Csv!vars, NEW t \in Clerks, NEW r \in iRows, Csv!Imports(t)
    PROVE  /\ iRow[r].place # None => iRow'[r].place = iRow[r].place
           /\ iRow[r].task \notin {Csv!Blank, Csv!Link(iRow[r].number)} => iRow'[r].task = iRow[r].task
           /\ iRow[r].number # None => iRow'[r].task[1] # "link" \/ iRow'[r].task = iRow[r].task
           /\ iRow[r].number # None /\ ~iRow[r].live => iRow'[r] = iRow[r]
           /\ iRow[r].sup # None => iRow'[r].sup = iRow[r].sup
<1>1. Csv!Next
  BY DEF Csv!Imports, Csv!vars
<1>2. CASE UNCHANGED iRow
  BY <1>2
<1>3. ASSUME NEW u \in Clerks, NEW q \in iRows, Csv!Ready(u), iRow[q].live,
             iRow[q].number # None,
             iRow' = [iRow EXCEPT ![q] = Csv!Merged(q, Csv!Current(u), Csv!RouteOf(u, Csv!Current(u)))]
      PROVE  /\ iRow[r].place # None => iRow'[r].place = iRow[r].place
             /\ iRow[r].task \notin {Csv!Blank, Csv!Link(iRow[r].number)} => iRow'[r].task = iRow[r].task
             /\ iRow[r].number # None => iRow'[r].task[1] # "link" \/ iRow'[r].task = iRow[r].task
             /\ iRow[r].number # None /\ ~iRow[r].live => iRow'[r] = iRow[r]
             /\ iRow[r].sup # None => iRow'[r].sup = iRow[r].sup
  <2> DEFINE x == Csv!Merged(q, Csv!Current(u), Csv!RouteOf(u, Csv!Current(u)))
  <2>1. Csv!Current(u) \in CsvRows /\ Csv!Current(u).number # None
        /\ Csv!RouteOf(u, Csv!Current(u)) \in iSupervisors \cup {None}
    BY <1>3, CsvAtRow DEF Csv!Ready, CsvIInv, CsvTInv, CsvJobOK
  <2>2. /\ iRow[q].place # None => x.place = iRow[q].place
        /\ iRow[q].task # Csv!Link(iRow[q].number) => x.task = iRow[q].task
        /\ x.task[1] # "link" \/ x.task = iRow[q].task
        /\ iRow[q].sup # None => x.sup = iRow[q].sup
    BY <1>3, <2>1, CsvMergedIs
  <2>3. iRow'[q] = x /\ (r # q => iRow'[r] = iRow[r])
    BY <1>3 DEF CsvIInv, CsvTInv
  <2> HIDE DEF x
  <2> QED
    BY <1>3, <2>2, <2>3
<1>4. ASSUME NEW q \in iRows, NEW x, iRow[q].number = None, iRow' = [iRow EXCEPT ![q] = x]
      PROVE  /\ iRow[r].place # None => iRow'[r].place = iRow[r].place
             /\ iRow[r].task \notin {Csv!Blank, Csv!Link(iRow[r].number)} => iRow'[r].task = iRow[r].task
             /\ iRow[r].number # None => iRow'[r].task[1] # "link" \/ iRow'[r].task = iRow[r].task
             /\ iRow[r].number # None /\ ~iRow[r].live => iRow'[r] = iRow[r]
             /\ iRow[r].sup # None => iRow'[r].sup = iRow[r].sup
  <2>1. iRow[q] = Csv!NoRow /\ (r # q => iRow'[r] = iRow[r])
    BY <1>4 DEF CsvIInv, CsvTInv, CsvWhole
  <2>2. CASE r = q
    BY <2>1, <2>2 DEF Csv!NoRow
  <2> QED
    BY <2>1, <2>2
<1> QED
  BY <1>1, <1>2, <1>3, <1>4, CsvWriting, Zenon

LEMMA CsvInvariant == ImportConstantsOK => (Csv!Init /\ [][Csv!Next]_Csv!vars => []CsvIInv)
<1> SUFFICES ASSUME ImportConstantsOK PROVE Csv!Init /\ [][Csv!Next]_Csv!vars => []CsvIInv
  OBVIOUS
<1>1. Csv!Init => CsvIInv
  BY CsvInitIInv
<1>2. CsvIInv /\ [Csv!Next]_Csv!vars => CsvIInv'
  BY CsvNextStep
<1> QED
  BY <1>1, <1>2, PTL

\* No two work orders ever carry one number, whichever imports, renumberings and
\* restores cross: OneNumber (work_orders.py, models.WorkOrder).
THEOREM CsvNumbersAreUnique ==
    ImportConstantsOK => (Csv!Init /\ [][Csv!Next]_Csv!vars => [](Csv!TypeOK /\ Csv!OneNumber))
<1> SUFFICES ASSUME ImportConstantsOK
             PROVE  Csv!Init /\ [][Csv!Next]_Csv!vars => [](Csv!TypeOK /\ Csv!OneNumber)
  OBVIOUS
<1>1. CsvIInv => Csv!TypeOK /\ Csv!OneNumber
  BY CsvTypes DEF CsvIInv
<1> QED
  BY <1>1, CsvInvariant, PTL

\* An import fills blanks and replaces its own link only, leaves an archived order
\* as it is and takes none from its supervisor: EditsSurviveImport,
\* ArchivedUntouched, RoutingStands (work_orders.py).
THEOREM CsvImportsSpareEdits ==
    ImportConstantsOK => (Csv!Init /\ [][Csv!Next]_Csv!vars =>
                      Csv!EditsSurviveImport /\ Csv!ArchivedUntouched /\ Csv!RoutingStands)
<1> SUFFICES ASSUME ImportConstantsOK
             PROVE  Csv!Init /\ [][Csv!Next]_Csv!vars =>
                      Csv!EditsSurviveImport /\ Csv!ArchivedUntouched /\ Csv!RoutingStands
  OBVIOUS
<1> DEFINE Spares == \A t \in Clerks, r \in iRows : Csv!Imports(t) =>
              /\ iRow[r].place # None => iRow'[r].place = iRow[r].place
              /\ iRow[r].task \notin {Csv!Blank, Csv!Link(iRow[r].number)} => iRow'[r].task = iRow[r].task
              /\ iRow[r].number # None => iRow'[r].task[1] # "link" \/ iRow'[r].task = iRow[r].task
           Stays == \A t \in Clerks, r \in iRows :
              Csv!Imports(t) /\ iRow[r].number # None /\ ~iRow[r].live => iRow'[r] = iRow[r]
           Routes == \A t \in Clerks, r \in iRows :
              Csv!Imports(t) /\ iRow[r].sup # None => iRow'[r].sup = iRow[r].sup
<1>1. ASSUME CsvIInv, [Csv!Next]_Csv!vars PROVE Spares /\ Stays /\ Routes
  BY <1>1, CsvImporting
<1>2. CsvIInv /\ [Csv!Next]_Csv!vars => [Spares]_Csv!vars /\ [Stays]_Csv!vars /\ [Routes]_Csv!vars
  BY <1>1
<1> QED
  BY <1>2, CsvInvariant, PTL DEF Csv!EditsSurviveImport, Csv!ArchivedUntouched,
     Csv!RoutingStands

-----------------------------------------------------------------------------
(* Uploads.  A mark is set with its baseline, and the lines of a paper come *)
(* together.                                                               *)

\* An order is marked with its baseline, which counts edits there were.
SheetsRowOK(x, e) == x \in Sheets!OrderRows /\ x.work <= e /\ (x.smr => x.baseline # None)

\* What an upload remembers: a row that is there stays, and so does its baseline.
SheetsJobOK(j, rows) ==
    /\ j.pc \in {"idle", "row", "merge", "mark", "shell", "shellmark", "lines", "targets", "replace"}
    /\ j.pc \in {"row", "merge", "mark"} => j.left \in Seq(SheetRows)
    /\ j.pc \in {"merge", "mark", "shellmark"} => j.number \in sNumbers
    /\ j.pc \in {"mark", "shellmark"} => rows[j.number] # None
    /\ j.pc = "mark" => j.mark \in BOOLEAN /\ j.freeze \in BOOLEAN
    /\ j.pc = "mark" /\ ~j.freeze => rows[j.number].baseline # None
    /\ j.pc \in {"shell", "shellmark"} => j.create \subseteq sNumbers
    /\ j.pc \in {"shell", "shellmark", "lines"} => j.new \in {sReviewed, {}}
    /\ j.pc = "targets" => \A n \in sNumbers : n \in j.known => rows[n] # None
    /\ j.pc = "replace" => j.new \in 1..sMaxUploads

SheetsOrdersOK ==
    /\ sOrder \in [sNumbers -> Sheets!OrderRows \cup {None}]
    /\ \A n \in sNumbers : sOrder[n] # None => SheetsRowOK(sOrder[n], sEdits)

SheetsPapersOK == sPaper \in [sNumbers -> {None, "imported", "edited"}] /\ Sheets!PaperIsWhole

SheetsCountsOK ==
    /\ sEdits \in 0..sMaxEdits /\ sUploads \in 0..sMaxUploads /\ sCrashes \in 0..sMaxCrashes
    /\ sInvoices \in SUBSET (1..sMaxUploads)

SheetsJobsOK == sUp = [t \in Clerks |-> sUp[t]] /\ \A t \in Clerks : SheetsJobOK(sUp[t], sOrder)

SheetsIInv == SheetsOrdersOK /\ SheetsPapersOK /\ SheetsCountsOK /\ SheetsJobsOK

LEMMA SheetsTypes == ASSUME SheetsIInv PROVE Sheets!TypeOK
  BY DEF SheetsIInv, SheetsOrdersOK, SheetsPapersOK, SheetsCountsOK, SheetsJobsOK, SheetsJobOK,
     Sheets!TypeOK

LEMMA SheetsFrozen == ASSUME SheetsIInv PROVE Sheets!SmrIsFrozen /\ Sheets!PaperIsWhole
  BY DEF SheetsIInv, SheetsOrdersOK, SheetsRowOK, SheetsPapersOK, Sheets!SmrIsFrozen,
         Sheets!Smr,
         Sheets!Known

LEMMA SheetsNewIs ==
    ASSUME SheetsConstantsOK, NEW made \in {"app", "sheet", "paper"}
    PROVE  /\ Sheets!New(made) \in Sheets!OrderRows /\ Sheets!New(made).work = 0
           /\ ~Sheets!New(made).smr
           /\ Sheets!New(made).live
  BY DEF Sheets!New, Sheets!OrderRows, SheetsConstantsOK

LEMMA SheetsInitIInv == ASSUME SheetsConstantsOK, Sheets!Init PROVE SheetsIInv
<1>1. SheetsOrdersOK
  <2>1. PICK known \in SUBSET sNumbers, live \in BOOLEAN :
           sOrder = [n \in sNumbers |-> IF n \in known THEN [Sheets!New("app") EXCEPT !.live = live] ELSE None]
    BY DEF Sheets!Init
  <2> DEFINE x == [Sheets!New("app") EXCEPT !.live = live]
  <2>2. SheetsRowOK(x, 0)
    BY SheetsNewIs DEF SheetsRowOK, Sheets!OrderRows
  <2> HIDE DEF x
  <2>3. sOrder = [n \in sNumbers |-> IF n \in known THEN x ELSE None] /\ sEdits = 0
    BY <2>1 DEF Sheets!Init, x
  <2> QED
    BY <2>2, <2>3 DEF SheetsOrdersOK, SheetsRowOK
<1>2. SheetsPapersOK /\ SheetsCountsOK
  BY DEF Sheets!Init, SheetsPapersOK, Sheets!PaperIsWhole, SheetsCountsOK, SheetsConstantsOK
<1>3. SheetsJobsOK
  BY DEF Sheets!Init, SheetsJobsOK, SheetsJobOK, Sheets!Idle
<1> QED
  BY <1>1, <1>2, <1>3 DEF SheetsIInv

-----------------------------------------------------------------------------
\* What no step takes back: an order that is there, and its baseline.
SheetsGrows == \A n \in sNumbers : sOrder[n] # None =>
            /\ sOrder'[n] # None
            /\ sOrder[n].baseline # None => sOrder'[n].baseline # None

LEMMA SheetsStays ==
    ASSUME SheetsIInv, SheetsGrows, NEW t \in Clerks, NEW j, Sheets!Goto(t, j), SheetsJobOK(j,
           sOrder')
    PROVE  SheetsJobsOK'
<1>1. ASSUME NEW u \in Clerks PROVE SheetsJobOK(sUp[u], sOrder')
  BY DEF SheetsIInv, SheetsJobsOK, SheetsJobOK, SheetsGrows
<1> QED
  BY <1>1 DEF Sheets!Goto, SheetsIInv, SheetsJobsOK

LEMMA SheetsOthers == ASSUME SheetsIInv, SheetsGrows, UNCHANGED sUp PROVE SheetsJobsOK'
  BY DEF SheetsIInv, SheetsJobsOK, SheetsJobOK, SheetsGrows

LEMMA SheetsUnmoved == ASSUME UNCHANGED sOrder PROVE SheetsGrows
  BY DEF SheetsGrows

\* One row of an order is written.
LEMMA SheetsRowWritten ==
    ASSUME SheetsIInv, NEW n \in sNumbers, NEW x, sOrder' = [sOrder EXCEPT ![n] = x],
           SheetsRowOK(x, sEdits'), None \notin Sheets!OrderRows, sEdits \in Nat, sEdits' \in Nat, sEdits <= sEdits',
           sOrder[n] # None /\ sOrder[n].baseline # None => x.baseline # None
    PROVE  SheetsOrdersOK' /\ SheetsGrows /\ sOrder'[n] = x
<1>1. \A k \in sNumbers : sOrder'[k] = IF k = n THEN x ELSE sOrder[k]
  BY DEF SheetsIInv, SheetsOrdersOK
<1>2. \A k \in sNumbers : sOrder[k] # None => SheetsRowOK(sOrder[k], sEdits)
  BY DEF SheetsIInv, SheetsOrdersOK
<1>3. ASSUME NEW k \in sNumbers, sOrder'[k] # None PROVE SheetsRowOK(sOrder'[k], sEdits')
  <2>1. CASE k = n
    BY <1>1, <2>1
  <2>2. CASE k # n
    <3>1. sOrder'[k] = sOrder[k] /\ SheetsRowOK(sOrder[k], sEdits)
      BY <1>1, <1>2, <1>3, <2>2
    <3>2. PICK w \in Nat : w = sOrder[k].work
      BY <3>1 DEF SheetsRowOK, Sheets!OrderRows
    <3>3. w <= sEdits'
      BY <3>1, <3>2 DEF SheetsRowOK
    <3> QED
      BY <3>1, <3>2, <3>3 DEF SheetsRowOK
  <2> QED
    BY <2>1, <2>2
<1>4. sOrder' \in [sNumbers -> Sheets!OrderRows \cup {None}]
  BY DEF SheetsIInv, SheetsOrdersOK, SheetsRowOK
<1>5. SheetsGrows
  BY <1>1 DEF SheetsGrows, SheetsRowOK
<1> QED
  BY <1>1, <1>3, <1>4, <1>5 DEF SheetsOrdersOK

LEMMA SheetsSameOrders ==
    ASSUME SheetsIInv, UNCHANGED <<sOrder, sEdits>> PROVE SheetsOrdersOK' /\ SheetsGrows
  BY DEF SheetsIInv, SheetsOrdersOK, SheetsGrows

LEMMA SheetsSamePapers == ASSUME SheetsIInv, UNCHANGED sPaper PROVE SheetsPapersOK'
  BY DEF SheetsIInv, SheetsPapersOK, Sheets!PaperIsWhole

LEMMA SheetsSameCounts ==
    ASSUME SheetsIInv, UNCHANGED <<sInvoices, sEdits, sUploads, sCrashes>> PROVE SheetsCountsOK'
  BY DEF SheetsIInv, SheetsCountsOK

LEMMA SheetsBounds ==
    ASSUME SheetsConstantsOK, SheetsIInv PROVE sEdits \in Nat /\ None \notin Sheets!OrderRows
  BY DEF SheetsConstantsOK, SheetsIInv, SheetsCountsOK

LEMMA SheetsAnOrder ==
    ASSUME SheetsConstantsOK, SheetsIInv, NEW n \in sNumbers, sOrder[n] # None
    PROVE  /\ SheetsRowOK(sOrder[n], sEdits) /\ sOrder[n] \in Sheets!OrderRows
           /\ sOrder[n].work \in 0..sMaxEdits /\ sOrder[n].work <= sEdits
  BY DEF SheetsIInv, SheetsOrdersOK, SheetsRowOK, Sheets!OrderRows

LEMMA SheetsUploadWrites ==
    ASSUME SheetsConstantsOK, SheetsIInv, UNCHANGED sEdits, NEW n \in sNumbers, NEW x,
           sOrder' = [sOrder EXCEPT ![n] = x], SheetsRowOK(x, sEdits),
           sOrder[n] # None /\ sOrder[n].baseline # None => x.baseline # None
    PROVE  SheetsOrdersOK' /\ SheetsGrows /\ sOrder'[n] = x
<1>1. SheetsRowOK(x, sEdits') /\ sEdits' \in Nat /\ sEdits <= sEdits' /\ sEdits \in Nat
      /\ None \notin Sheets!OrderRows
  BY SheetsBounds
<1> QED
  BY <1>1, SheetsRowWritten

\* An upload reads and goes on.
LEMMA SheetsReads ==
    ASSUME SheetsConstantsOK, SheetsIInv, UNCHANGED <<sOrder, sPaper, sInvoices, sEdits,
           sCrashes>>,
           sUploads' \in 0..sMaxUploads, NEW t \in Clerks, NEW j, Sheets!Goto(t, j), SheetsJobOK(j, sOrder)
    PROVE  SheetsIInv'
<1>1. SheetsOrdersOK' /\ SheetsGrows
  BY SheetsSameOrders
<1>2. SheetsJobsOK'
  BY <1>1, SheetsStays
<1>3. SheetsCountsOK'
  BY DEF SheetsIInv, SheetsCountsOK
<1> QED
  BY <1>1, <1>2, <1>3, SheetsSamePapers DEF SheetsIInv

LEMMA SheetsIdleOK == ASSUME NEW rows PROVE SheetsJobOK(Sheets!Idle, rows)
  BY DEF SheetsJobOK, Sheets!Idle

LEMMA SheetsSends ==
    ASSUME SheetsConstantsOK, SheetsIInv, NEW t \in Clerks, NEW what, Sheets!Send(t, what)
    PROVE  sUploads' \in 0..sMaxUploads /\ sUploads + 1 \in 1..sMaxUploads
  BY DEF Sheets!Send, SheetsConstantsOK, SheetsIInv, SheetsCountsOK

-----------------------------------------------------------------------------
LEMMA SheetsEditStep ==
    ASSUME SheetsConstantsOK, SheetsIInv, NEW n \in sNumbers, Sheets!Edit(n) PROVE SheetsIInv'
<1>1. sOrder[n] # None /\ sEdits' = sEdits + 1 /\ sEdits' \in 0..sMaxEdits /\ sEdits \in Nat
  BY DEF Sheets!Edit, Sheets!Known, SheetsConstantsOK, SheetsIInv, SheetsCountsOK
<1>2. PICK w \in Nat : w = sOrder[n].work /\ w <= sEdits /\ w + 1 \in 0..sMaxEdits
                       /\ w + 1 <= sEdits'
  <2>1. PICK w \in Nat : w = sOrder[n].work
    BY <1>1, SheetsAnOrder DEF Sheets!OrderRows
  <2>2. w <= sEdits
    BY <1>1, <2>1, SheetsAnOrder
  <2> QED
    BY <1>1, <2>1, <2>2 DEF SheetsConstantsOK
<1>3. CASE sOrder' = [sOrder EXCEPT ![n].work = @ + 1]
  <2> DEFINE x == [sOrder[n] EXCEPT !.work = w + 1]
  <2>1. sOrder' = [sOrder EXCEPT ![n] = x]
    BY <1>2, <1>3
  <2>2. SheetsRowOK(x, sEdits') /\ x.baseline = sOrder[n].baseline
    BY <1>1, <1>2, SheetsAnOrder DEF SheetsRowOK, Sheets!OrderRows
  <2> HIDE DEF x
  <2>5. sEdits <= sEdits' /\ sEdits' \in Nat
    BY <1>1
  <2>3. SheetsOrdersOK' /\ SheetsGrows
    BY <1>1, <2>1, <2>2, <2>5, SheetsRowWritten, SheetsBounds
  <2>4. SheetsJobsOK' /\ SheetsCountsOK'
    BY <1>1, <2>3, SheetsOthers DEF Sheets!Edit, SheetsIInv, SheetsCountsOK
  <2> QED
    BY <2>3, <2>4, SheetsSamePapers DEF Sheets!Edit, SheetsIInv
<1>4. CASE sOrder' = [sOrder EXCEPT ![n].live = ~@]
  <2> DEFINE x == [sOrder[n] EXCEPT !.live = ~sOrder[n].live]
  <2>1. sOrder' = [sOrder EXCEPT ![n] = x]
    BY <1>4
  <2>a. sOrder[n] \in Sheets!OrderRows /\ (sOrder[n].smr => sOrder[n].baseline # None)
    BY <1>1, SheetsAnOrder DEF SheetsRowOK
  <2>b. /\ x \in Sheets!OrderRows /\ x.baseline = sOrder[n].baseline /\ x.smr = sOrder[n].smr
        /\ x.work = sOrder[n].work
    BY <2>a DEF Sheets!OrderRows
  <2> HIDE DEF x
  <2>c. x.work = w /\ w <= sEdits'
    BY <1>1, <1>2, <2>b
  <2>2. SheetsRowOK(x, sEdits') /\ x.baseline = sOrder[n].baseline
    BY <2>a, <2>b, <2>c DEF SheetsRowOK
  <2>5. sEdits <= sEdits' /\ sEdits' \in Nat
    BY <1>1
  <2>3. SheetsOrdersOK' /\ SheetsGrows
    BY <1>1, <2>1, <2>2, <2>5, SheetsRowWritten, SheetsBounds
  <2>4. SheetsJobsOK' /\ SheetsCountsOK'
    BY <1>1, <2>3, SheetsOthers DEF Sheets!Edit, SheetsIInv, SheetsCountsOK
  <2> QED
    BY <2>3, <2>4, SheetsSamePapers DEF Sheets!Edit, SheetsIInv
<1> QED
  BY <1>3, <1>4 DEF Sheets!Edit

LEMMA SheetsEditLineStep ==
    ASSUME SheetsConstantsOK, SheetsIInv, NEW n \in sNumbers, Sheets!EditLine(n)
    PROVE  SheetsIInv'
<1>1. sEdits' = sEdits + 1 /\ sEdits' \in 0..sMaxEdits /\ sEdits \in Nat
  BY DEF Sheets!EditLine, SheetsConstantsOK, SheetsIInv, SheetsCountsOK
<1>2. SheetsPapersOK'
  BY DEF Sheets!EditLine, SheetsConstantsOK, SheetsIInv, SheetsPapersOK, Sheets!PaperIsWhole
<1>3. SheetsOrdersOK'
  <2>1. ASSUME NEW k \in sNumbers, sOrder[k] # None PROVE SheetsRowOK(sOrder[k], sEdits')
    <3>1. PICK w \in Nat : w = sOrder[k].work
      BY <2>1, SheetsAnOrder DEF Sheets!OrderRows
    <3>2. w <= sEdits'
      BY <1>1, <2>1, <3>1, SheetsAnOrder
    <3> QED
      BY <2>1, <3>1, <3>2, SheetsAnOrder DEF SheetsRowOK
  <2> QED
    BY <2>1 DEF Sheets!EditLine, SheetsIInv, SheetsOrdersOK
<1>4. SheetsJobsOK' /\ SheetsCountsOK'
  BY <1>1, SheetsOthers, SheetsUnmoved DEF Sheets!EditLine, SheetsIInv, SheetsCountsOK
<1> QED
  BY <1>2, <1>3, <1>4 DEF SheetsIInv

LEMMA SheetsCrashStep == ASSUME SheetsConstantsOK, SheetsIInv, Sheets!Crash PROVE SheetsIInv'
<1>1. SheetsJobsOK'
  BY SheetsIdleOK DEF Sheets!Crash, SheetsJobsOK
<1>2. SheetsCountsOK'
  BY DEF Sheets!Crash, SheetsConstantsOK, SheetsIInv, SheetsCountsOK
<1> QED
  BY <1>1, <1>2, SheetsSameOrders, SheetsSamePapers DEF Sheets!Crash, SheetsIInv

LEMMA SheetsSendSheetStep ==
    ASSUME SheetsConstantsOK, SheetsIInv, NEW t \in Clerks, Sheets!SendSheet(t)
    PROVE  SheetsIInv'
<1>1. SheetsJobOK([pc |-> "row", left |-> sSheet], sOrder)
  BY DEF SheetsJobOK, SheetsConstantsOK
<1> QED
  BY <1>1, SheetsSends, SheetsReads DEF Sheets!SendSheet

LEMMA SheetsRowStep ==
    ASSUME SheetsConstantsOK, SheetsIInv, NEW t \in Clerks, Sheets!Row(t) PROVE SheetsIInv'
<1> DEFINE row == Head(sUp[t].left)
           skip == row.number = None \/ ~row.closed
           next == [pc |-> "merge", left |-> Tail(sUp[t].left), number |-> row.number,
                    restore |-> Sheets!Known(row.number) /\ ~sOrder[row.number].live]
<1>1. sUp[t].pc = "row" /\ sUp[t].left \in Seq(SheetRows)
  BY DEF Sheets!Row, SheetsIInv, SheetsJobsOK, SheetsJobOK
<1>2. sUploads' \in 0..sMaxUploads
  BY DEF Sheets!Row, SheetsIInv, SheetsCountsOK
<1>3. CASE Sheets!Goto(t, Sheets!Idle)
  BY <1>2, <1>3, SheetsIdleOK, SheetsReads DEF Sheets!Row
<1>4. CASE sUp[t].left # <<>> /\ Sheets!Goto(t, [sUp[t] EXCEPT !.left = Tail(@)])
  <2>1. Tail(sUp[t].left) \in Seq(SheetRows)
    BY <1>1, <1>4
  <2> DEFINE k == [sUp[t] EXCEPT !.left = Tail(sUp[t].left)]
  <2>2. k.pc = "row" /\ k.left \in Seq(SheetRows)
    BY <1>1, <2>1
  <2>3. SheetsJobOK(k, sOrder)
    <3> HIDE DEF k
    <3> QED
      BY <2>2, SMTT(30) DEF SheetsJobOK
  <2> QED
    BY <1>2, <1>4, <2>3, SheetsReads DEF Sheets!Row
<1>5. CASE sUp[t].left # <<>> /\ ~skip /\ Sheets!Goto(t, next)
  <2>1. Tail(sUp[t].left) \in Seq(SheetRows) /\ row \in SheetRows
    BY <1>1, <1>5
  <2>2. row.number \in sNumbers
    BY <1>5, <2>1 DEF SheetRows
  <2>3. SheetsJobOK(next, sOrder)
    <3> HIDE DEF row
    <3> QED
      BY <2>1, <2>2 DEF SheetsJobOK
  <2> QED
    BY <1>2, <1>5, <2>3, SheetsReads DEF Sheets!Row
<1> QED
  BY <1>3, <1>4, <1>5 DEF Sheets!Row

LEMMA SheetsCreatedIs ==
    ASSUME SheetsConstantsOK, SheetsIInv, NEW n \in sNumbers, NEW made \in {"app", "sheet", "paper"}, NEW r
    PROVE  /\ SheetsRowOK(Sheets!Created(n, made, r), sEdits)
           /\ sOrder[n] # None => Sheets!Created(n, made, r).baseline = sOrder[n].baseline
<1>1. CASE ~Sheets!Known(n)
  <2>1. Sheets!New(made) \in Sheets!OrderRows /\ Sheets!New(made).work <= sEdits
    BY SheetsNewIs, SheetsBounds
  <2> QED
    BY <1>1, <2>1, SheetsNewIs DEF Sheets!Created, Sheets!Known, SheetsRowOK
<1>2. CASE Sheets!Known(n) /\ r
  BY <1>2, SheetsAnOrder DEF Sheets!Created, Sheets!Known, SheetsRowOK, Sheets!OrderRows
<1>3. CASE Sheets!Known(n) /\ ~r
  BY <1>3, SheetsAnOrder DEF Sheets!Created, Sheets!Known
<1> QED
  BY <1>1, <1>2, <1>3

LEMMA SheetsMergeStep ==
    ASSUME SheetsConstantsOK, SheetsIInv, NEW t \in Clerks, Sheets!Merge(t) PROVE SheetsIInv'
<1> DEFINE n == sUp[t].number
           row == Sheets!Created(n, "sheet", sUp[t].restore)
           next == [pc |-> "mark", left |-> sUp[t].left, number |-> n,
                    mark |-> ~row.smr, freeze |-> row.baseline = None]
<1>1. n \in sNumbers /\ sUp[t].left \in Seq(SheetRows)
  BY DEF Sheets!Merge, SheetsIInv, SheetsJobsOK, SheetsJobOK
<1>2. SheetsRowOK(row, sEdits) /\ (sOrder[n] # None => row.baseline = sOrder[n].baseline)
  BY <1>1, SheetsCreatedIs
<1> HIDE DEF row
<1>3. Sheets!Goto(t, next) /\ UNCHANGED <<sPaper, sInvoices, sEdits, sUploads, sCrashes>>
  BY DEF Sheets!Merge, row
<1>4. SheetsOrdersOK' /\ SheetsGrows /\ sOrder'[n] = row
  <2>1. sOrder' = [sOrder EXCEPT ![n] = row] /\ UNCHANGED sEdits
    BY DEF Sheets!Merge, row
  <2>2. sOrder[n] # None /\ sOrder[n].baseline # None => row.baseline # None
    BY <1>2
  <2> HIDE DEF n
  <2> QED
    BY <1>1, <1>2, <2>1, <2>2, SheetsUploadWrites
<1>5. SheetsJobOK(next, sOrder')
  BY <1>1, <1>2, <1>4, SheetsBounds DEF SheetsJobOK, SheetsRowOK, Sheets!OrderRows
<1>6. SheetsJobsOK'
  BY <1>3, <1>4, <1>5, SheetsStays
<1> QED
  BY <1>3, <1>4, <1>6, SheetsSamePapers, SheetsSameCounts DEF SheetsIInv

LEMMA SheetsMarkedIs ==
    ASSUME SheetsConstantsOK, NEW x, NEW e, SheetsRowOK(x, e), NEW m \in BOOLEAN,
           NEW f \in BOOLEAN,
           f \/ x.baseline # None
    PROVE  SheetsRowOK(Sheets!Marked(x, m, f), e) /\ Sheets!Marked(x, m, f).baseline # None
<1>1. x.work \in 0..sMaxEdits /\ x.work # None
  BY DEF SheetsRowOK, Sheets!OrderRows, SheetsConstantsOK
<1>2. /\ Sheets!Marked(x, m, f).made = x.made /\ Sheets!Marked(x, m, f).live = x.live
      /\ Sheets!Marked(x, m, f).work = x.work /\ Sheets!Marked(x, m, f).target = x.target
      /\ Sheets!Marked(x, m, f).smr = (x.smr \/ m)
      /\ Sheets!Marked(x, m, f).baseline = IF f THEN x.work ELSE x.baseline
  BY DEF Sheets!Marked, SheetsRowOK, Sheets!OrderRows
<1>3. Sheets!Marked(x, m, f) \in Sheets!OrderRows
  BY <1>1, <1>2 DEF Sheets!Marked, SheetsRowOK, Sheets!OrderRows
<1> QED
  BY <1>1, <1>2, <1>3 DEF SheetsRowOK

LEMMA SheetsMarkStep ==
    ASSUME SheetsConstantsOK, SheetsIInv, NEW t \in Clerks, Sheets!Mark(t) PROVE SheetsIInv'
<1> DEFINE n == sUp[t].number
           x == Sheets!Marked(sOrder[n], sUp[t].mark, sUp[t].freeze)
           next == [pc |-> "row", left |-> sUp[t].left]
<1>1. /\ n \in sNumbers /\ sUp[t].left \in Seq(SheetRows) /\ sOrder[n] # None
      /\ sUp[t].mark \in BOOLEAN /\ sUp[t].freeze \in BOOLEAN
      /\ sUp[t].freeze \/ sOrder[n].baseline # None
  BY DEF Sheets!Mark, SheetsIInv, SheetsJobsOK, SheetsJobOK
<1>2. SheetsRowOK(x, sEdits) /\ x.baseline # None
  BY <1>1, SheetsAnOrder, SheetsMarkedIs
<1>3. sOrder' = [sOrder EXCEPT ![n] = x] /\ Sheets!Goto(t, next)
      /\ UNCHANGED <<sPaper, sInvoices, sEdits, sUploads, sCrashes>>
  BY DEF Sheets!Mark
<1>4. SheetsJobOK(next, sOrder')
  BY <1>1 DEF SheetsJobOK
<1> HIDE DEF x
<1>5. SheetsOrdersOK' /\ SheetsGrows
  BY <1>1, <1>2, <1>3, SheetsUploadWrites
<1>6. SheetsJobsOK'
  BY <1>3, <1>4, <1>5, SheetsStays
<1> QED
  BY <1>3, <1>5, <1>6, SheetsSamePapers, SheetsSameCounts DEF SheetsIInv

LEMMA SheetsMergeArchivedStep ==
    ASSUME SheetsConstantsOK, SheetsIInv, NEW t \in Clerks, Sheets!MergeArchived(t)
    PROVE  SheetsIInv'
<1> DEFINE n == sUp[t].number
           x == Sheets!Marked(sOrder[n], ~sOrder[n].smr, sOrder[n].baseline = None)
           next == [pc |-> "row", left |-> sUp[t].left]
<1>1. n \in sNumbers /\ sUp[t].left \in Seq(SheetRows) /\ sOrder[n] # None
  BY DEF Sheets!MergeArchived, Sheets!Known, SheetsIInv, SheetsJobsOK, SheetsJobOK
<1>2. SheetsRowOK(x, sEdits) /\ x.baseline # None
  <2>1. SheetsRowOK(sOrder[n], sEdits)
    BY <1>1, SheetsAnOrder
  <2>2. (~sOrder[n].smr) \in BOOLEAN
    OBVIOUS
  <2>3. (sOrder[n].baseline = None) \in BOOLEAN
    OBVIOUS
  <2> QED
    BY <2>1, <2>2, <2>3, SheetsMarkedIs
<1>3. sOrder' = [sOrder EXCEPT ![n] = x] /\ Sheets!Goto(t, next)
      /\ UNCHANGED <<sPaper, sInvoices, sEdits, sUploads, sCrashes>>
  BY DEF Sheets!MergeArchived
<1>4. SheetsJobOK(next, sOrder')
  BY <1>1 DEF SheetsJobOK
<1> HIDE DEF x
<1>5. SheetsOrdersOK' /\ SheetsGrows
  BY <1>1, <1>2, <1>3, SheetsUploadWrites
<1>6. SheetsJobsOK'
  BY <1>3, <1>4, <1>5, SheetsStays
<1> QED
  BY <1>3, <1>5, <1>6, SheetsSamePapers, SheetsSameCounts DEF SheetsIInv

-----------------------------------------------------------------------------
LEMMA SheetsSendTargetsStep ==
    ASSUME SheetsConstantsOK, SheetsIInv, NEW t \in Clerks, Sheets!SendTargets(t)
    PROVE  SheetsIInv'
<1>1. SheetsJobOK([pc |-> "targets", known |-> {n \in sBreakdown : Sheets!Smr(n)}], sOrder)
  BY DEF SheetsJobOK, Sheets!Smr, Sheets!Known
<1> QED
  BY <1>1, SheetsSends, SheetsReads DEF Sheets!SendTargets

LEMMA SheetsTargetsStep ==
    ASSUME SheetsConstantsOK, SheetsIInv, NEW t \in Clerks, Sheets!Targets(t) PROVE SheetsIInv'
<1>1. /\ \A n \in sNumbers : n \in sUp[t].known => sOrder[n] # None
      /\ sOrder' = [n \in sNumbers |-> IF n \in sUp[t].known THEN [sOrder[n] EXCEPT !.target = TRUE]
                                     ELSE sOrder[n]]
      /\ Sheets!Goto(t, Sheets!Idle)
      /\ UNCHANGED <<sPaper, sInvoices, sEdits, sUploads, sCrashes>>
  BY DEF Sheets!Targets, SheetsIInv, SheetsJobsOK, SheetsJobOK
<1>2. ASSUME NEW n \in sNumbers, sOrder[n] # None
      PROVE  /\ sOrder'[n] # None /\ SheetsRowOK(sOrder'[n], sEdits)
             /\ sOrder'[n].baseline = sOrder[n].baseline
  <2>1. SheetsRowOK([sOrder[n] EXCEPT !.target = TRUE], sEdits)
    BY <1>2, SheetsAnOrder DEF SheetsRowOK, Sheets!OrderRows
  <2>2. [sOrder[n] EXCEPT !.target = TRUE].baseline = sOrder[n].baseline
    BY <1>2, SheetsAnOrder DEF Sheets!OrderRows
  <2> QED
    BY <1>1, <1>2, <2>1, <2>2, SheetsAnOrder, SheetsBounds DEF SheetsRowOK
<1>3. \A n \in sNumbers : sOrder[n] = None => sOrder'[n] = None
  BY <1>1
<1>4. SheetsOrdersOK' /\ SheetsGrows
  BY <1>1, <1>2, <1>3 DEF SheetsOrdersOK, SheetsRowOK, SheetsGrows
<1>5. SheetsJobsOK'
  BY <1>1, <1>4, SheetsIdleOK, SheetsStays
<1> QED
  BY <1>1, <1>4, <1>5, SheetsSamePapers, SheetsSameCounts DEF SheetsIInv

LEMMA SheetsSendPaperStep ==
    ASSUME SheetsConstantsOK, SheetsIInv, NEW t \in Clerks, Sheets!SendPaper(t)
    PROVE  SheetsIInv'
<1> DEFINE new == {n \in sReviewed : sPaper[n] = None}
           create == {n \in sReviewed : ~Sheets!Known(n)}
           next == IF Sheets!Accepted THEN [pc |-> "shell", create |-> create, new |-> new] ELSE Sheets!Idle
<1>1. new \in {sReviewed, {}} /\ create \subseteq sNumbers
  BY DEF SheetsIInv, SheetsPapersOK, Sheets!PaperIsWhole, SheetsConstantsOK
<1>2. SheetsJobOK(next, sOrder)
  <2> HIDE DEF new, create
  <2> QED
    BY <1>1, SheetsIdleOK DEF SheetsJobOK
<1> QED
  BY <1>2, SheetsSends, SheetsReads DEF Sheets!SendPaper

LEMMA SheetsShellStep ==
    ASSUME SheetsConstantsOK, SheetsIInv, NEW t \in Clerks, Sheets!Shell(t) PROVE SheetsIInv'
<1>1. /\ sUp[t].pc = "shell" /\ sUp[t].create \subseteq sNumbers
      /\ sUp[t].new \in {sReviewed, {}}
      /\ UNCHANGED <<sPaper, sInvoices, sEdits, sUploads, sCrashes>>
  BY DEF Sheets!Shell, SheetsIInv, SheetsJobsOK, SheetsJobOK
<1>2. CASE Sheets!Goto(t, [sUp[t] EXCEPT !.pc = "lines"]) /\ UNCHANGED sOrder
  <2> DEFINE k == [sUp[t] EXCEPT !.pc = "lines"]
  <2>1. SheetsJobOK(k, sOrder)
    <3>1. k.pc = "lines" /\ k.new = sUp[t].new
      BY <1>1
    <3> HIDE DEF k
    <3> QED
      BY <1>1, <3>1 DEF SheetsJobOK
  <2> QED
    BY <1>1, <1>2, <2>1, SheetsReads DEF SheetsIInv, SheetsCountsOK
<1>3. ASSUME NEW n \in sUp[t].create, sOrder' = [sOrder EXCEPT ![n] = Sheets!Created(n,
             "paper", FALSE)],
             Sheets!Goto(t, [pc |-> "shellmark", number |-> n, create |-> sUp[t].create \ {n},
                      new |-> sUp[t].new])
      PROVE  SheetsIInv'
  <2> DEFINE x == Sheets!Created(n, "paper", FALSE)
             next == [pc |-> "shellmark", number |-> n, create |-> sUp[t].create \ {n},
                      new |-> sUp[t].new]
  <2>1. n \in sNumbers /\ SheetsRowOK(x, sEdits) /\ (sOrder[n] # None => x.baseline = sOrder[n].baseline)
    BY <1>1, <1>3, SheetsCreatedIs
  <2> HIDE DEF x
  <2>2. SheetsOrdersOK' /\ SheetsGrows /\ sOrder'[n] = x
    BY <1>1, <1>3, <2>1, SheetsUploadWrites DEF x
  <2>3. SheetsJobOK(next, sOrder')
    BY <1>1, <2>1, <2>2, SheetsBounds DEF SheetsJobOK, SheetsRowOK
  <2>4. SheetsJobsOK'
    BY <1>3, <2>2, <2>3, SheetsStays
  <2> QED
    BY <1>1, <2>2, <2>4, SheetsSamePapers, SheetsSameCounts DEF SheetsIInv
<1> QED
  BY <1>2, <1>3 DEF Sheets!Shell

LEMMA SheetsShellMarkStep ==
    ASSUME SheetsConstantsOK, SheetsIInv, NEW t \in Clerks, Sheets!ShellMark(t)
    PROVE  SheetsIInv'
<1> DEFINE n == sUp[t].number
           x == [sOrder[n] EXCEPT !.smr = TRUE, !.baseline = sOrder[n].work, !.target = TRUE]
           next == [pc |-> "shell", create |-> sUp[t].create, new |-> sUp[t].new]
<1>1. /\ n \in sNumbers /\ sOrder[n] # None /\ sUp[t].create \subseteq sNumbers
      /\ sUp[t].new \in {sReviewed, {}}
      /\ UNCHANGED <<sPaper, sInvoices, sEdits, sUploads, sCrashes>>
  BY DEF Sheets!ShellMark, SheetsIInv, SheetsJobsOK, SheetsJobOK
<1>2. SheetsRowOK(x, sEdits) /\ x.baseline # None
  <2>1. sOrder[n] \in Sheets!OrderRows /\ sOrder[n].work \in 0..sMaxEdits
        /\ sOrder[n].work <= sEdits
        /\ sOrder[n].work # None
    BY <1>1, SheetsAnOrder DEF SheetsConstantsOK
  <2>2. /\ x.baseline = sOrder[n].work /\ x.work = sOrder[n].work /\ x.smr
        /\ x \in Sheets!OrderRows
    BY <2>1 DEF Sheets!OrderRows
  <2> HIDE DEF x
  <2> QED
    BY <2>1, <2>2 DEF SheetsRowOK
<1>3. sOrder' = [sOrder EXCEPT ![n] = x] /\ Sheets!Goto(t, next)
  BY DEF Sheets!ShellMark
<1>4. SheetsJobOK(next, sOrder')
  BY <1>1 DEF SheetsJobOK
<1> HIDE DEF x
<1>5. SheetsOrdersOK' /\ SheetsGrows
  BY <1>1, <1>2, <1>3, SheetsUploadWrites
<1>6. SheetsJobsOK'
  BY <1>3, <1>4, <1>5, SheetsStays
<1> QED
  BY <1>1, <1>5, <1>6, SheetsSamePapers, SheetsSameCounts DEF SheetsIInv

LEMMA SheetsPaperLinesStep ==
    ASSUME SheetsConstantsOK, SheetsIInv, NEW t \in Clerks, Sheets!PaperLines(t)
    PROVE  SheetsIInv'
<1>1. sUp[t].new \in {sReviewed, {}} /\ sReviewed \subseteq sNumbers
  BY DEF Sheets!PaperLines, SheetsIInv, SheetsJobsOK, SheetsJobOK, SheetsConstantsOK
<1>2. PICK done \in SUBSET sUp[t].new :
         /\ Sheets!Written(sUp[t].new, done)
         /\ sPaper' = [n \in sNumbers |-> IF n \in done THEN "imported" ELSE sPaper[n]]
  BY DEF Sheets!PaperLines
<1>3. done = {} \/ done = sReviewed
  BY <1>1, <1>2 DEF Sheets!Written
<1>4. SheetsPapersOK'
  BY <1>1, <1>2, <1>3 DEF SheetsIInv, SheetsPapersOK, Sheets!PaperIsWhole, SheetsConstantsOK
<1>5. SheetsJobsOK'
  BY SheetsIdleOK, SheetsStays, SheetsUnmoved DEF Sheets!PaperLines
<1> QED
  BY <1>4, <1>5, SheetsSameOrders, SheetsSameCounts DEF Sheets!PaperLines, SheetsIInv

LEMMA SheetsInvoiceStep ==
    ASSUME SheetsConstantsOK, SheetsIInv, NEW t \in Clerks,
           Sheets!SendInvoice(t) \/ Sheets!Replace(t)
    PROVE  SheetsIInv'
<1>1. CASE Sheets!SendInvoice(t)
  <2>1. SheetsJobOK([pc |-> "replace", old |-> sInvoices, new |-> sUploads + 1], sOrder)
    BY <1>1, SheetsSends DEF Sheets!SendInvoice, SheetsJobOK
  <2> QED
    BY <1>1, <2>1, SheetsSends, SheetsReads DEF Sheets!SendInvoice
<1>2. CASE Sheets!Replace(t)
  <2>1. sUp[t].new \in 1..sMaxUploads
    BY <1>2 DEF Sheets!Replace, SheetsIInv, SheetsJobsOK, SheetsJobOK
  <2>2. SheetsCountsOK'
    BY <1>2, <2>1 DEF Sheets!Replace, SheetsIInv, SheetsCountsOK
  <2>3. SheetsJobsOK'
    BY <1>2, SheetsIdleOK, SheetsStays, SheetsUnmoved DEF Sheets!Replace
  <2> QED
    BY <1>2, <2>2, <2>3, SheetsSameOrders, SheetsSamePapers DEF Sheets!Replace, SheetsIInv
<1> QED
  BY <1>1, <1>2

LEMMA SheetsStep ==
    ASSUME SheetsConstantsOK, SheetsIInv, [Sheets!Next]_Sheets!vars PROVE SheetsIInv'
<1>1. CASE UNCHANGED Sheets!vars
  BY <1>1, SheetsSameOrders, SheetsSamePapers, SheetsSameCounts, SheetsOthers DEF Sheets!vars,
     SheetsIInv
<1>2. ASSUME NEW n \in sNumbers, Sheets!Edit(n) \/ Sheets!EditLine(n) PROVE SheetsIInv'
  BY <1>2, SheetsEditStep, SheetsEditLineStep
<1>3. ASSUME NEW t \in Clerks, Sheets!SendSheet(t) \/ Sheets!Row(t) \/ Sheets!Merge(t) \/ Sheets!MergeArchived(t) \/ Sheets!Mark(t)
      PROVE  SheetsIInv'
  BY <1>3, SheetsSendSheetStep, SheetsRowStep, SheetsMergeStep, SheetsMergeArchivedStep,
     SheetsMarkStep
<1>4. ASSUME NEW t \in Clerks, Sheets!SendTargets(t) \/ Sheets!Targets(t) PROVE SheetsIInv'
  BY <1>4, SheetsSendTargetsStep, SheetsTargetsStep
<1>5. ASSUME NEW t \in Clerks,
             Sheets!SendPaper(t) \/ Sheets!Shell(t) \/ Sheets!ShellMark(t) \/ Sheets!PaperLines(t)
      PROVE  SheetsIInv'
  BY <1>5, SheetsSendPaperStep, SheetsShellStep, SheetsShellMarkStep, SheetsPaperLinesStep
<1>6. ASSUME NEW t \in Clerks, Sheets!SendInvoice(t) \/ Sheets!Replace(t) PROVE SheetsIInv'
  BY <1>6, SheetsInvoiceStep
<1> QED
  BY <1>1, <1>2, <1>3, <1>4, <1>5, <1>6, SheetsCrashStep DEF Sheets!Next

LEMMA SheetsInvariant ==
    SheetsConstantsOK => (Sheets!Init /\ [][Sheets!Next]_Sheets!vars => []SheetsIInv)
<1> SUFFICES ASSUME SheetsConstantsOK
             PROVE  Sheets!Init /\ [][Sheets!Next]_Sheets!vars => []SheetsIInv
  OBVIOUS
<1>1. Sheets!Init => SheetsIInv
  BY SheetsInitIInv
<1>2. SheetsIInv /\ [Sheets!Next]_Sheets!vars => SheetsIInv'
  BY SheetsStep
<1> QED
  BY <1>1, <1>2, PTL

\* Whatever uploads cross, fail or are cut off by a restart, an order is marked SMR
\* with its frozen baseline, and a paper's lines are there for all its numbers or for
\* none: SmrIsFrozen, PaperIsWhole (work_orders_smr.py, _smr_import.py).
THEOREM SheetsUploadsAreWhole ==
    SheetsConstantsOK => (Sheets!Init /\ [][Sheets!Next]_Sheets!vars => [](Sheets!TypeOK /\ Sheets!SmrIsFrozen /\ Sheets!PaperIsWhole))
<1> SUFFICES ASSUME SheetsConstantsOK
             PROVE  Sheets!Init /\ [][Sheets!Next]_Sheets!vars => [](Sheets!TypeOK /\ Sheets!SmrIsFrozen /\ Sheets!PaperIsWhole)
  OBVIOUS
<1>1. SheetsIInv => Sheets!TypeOK /\ Sheets!SmrIsFrozen /\ Sheets!PaperIsWhole
  BY SheetsTypes, SheetsFrozen, Zenon
<1> QED
  BY <1>1, SheetsInvariant, PTL

LEMMA SheetsCorrectedStays ==
    ASSUME SheetsConstantsOK, SheetsIInv, [Sheets!Next]_Sheets!vars, NEW n \in sNumbers, sPaper[n] = "edited"
    PROVE  sPaper'[n] = "edited"
<1>1. CASE UNCHANGED sPaper
  BY <1>1
<1>2. ASSUME NEW k \in sNumbers, Sheets!EditLine(k) PROVE sPaper'[n] = "edited"
  BY <1>2 DEF Sheets!EditLine, SheetsIInv, SheetsPapersOK
<1>3. ASSUME NEW t \in Clerks, Sheets!PaperLines(t) PROVE sPaper'[n] = "edited"
  <2>1. PICK done \in SUBSET sUp[t].new :
           /\ Sheets!Written(sUp[t].new, done)
           /\ sPaper' = [k \in sNumbers |-> IF k \in done THEN "imported" ELSE sPaper[k]]
    BY <1>3 DEF Sheets!PaperLines
  <2>2. n \notin done
    BY <2>1 DEF Sheets!Written, SheetsConstantsOK
  <2> QED
    BY <2>1, <2>2
<1> QED
  BY <1>1, <1>2, <1>3, Zenon
     DEF Sheets!Next, Sheets!vars, Sheets!Edit, Sheets!Crash, Sheets!SendSheet, Sheets!Row,
         Sheets!Merge, Sheets!MergeArchived, Sheets!Mark, Sheets!SendTargets,
         Sheets!Targets, Sheets!SendPaper, Sheets!Shell, Sheets!ShellMark, Sheets!SendInvoice, Sheets!Replace

\* A paper uploaded again takes back nothing that was corrected in the app:
\* CorrectionsStand (_smr_import.py).
THEOREM SheetsCorrectedLinesStay ==
    SheetsConstantsOK => (Sheets!Init /\ [][Sheets!Next]_Sheets!vars => Sheets!CorrectionsStand)
<1> SUFFICES ASSUME SheetsConstantsOK
             PROVE  Sheets!Init /\ [][Sheets!Next]_Sheets!vars => Sheets!CorrectionsStand
  OBVIOUS
<1> DEFINE Stand == \A n \in sNumbers : sPaper[n] = "edited" => sPaper'[n] = "edited"
<1>1. SheetsIInv /\ [Sheets!Next]_Sheets!vars => Stand
  BY SheetsCorrectedStays
<1>2. Sheets!Init /\ [][Sheets!Next]_Sheets!vars => [][Stand]_Sheets!vars
  <2> HIDE DEF Stand
  <2>1. SheetsIInv /\ [Sheets!Next]_Sheets!vars => [Stand]_Sheets!vars
    BY <1>1
  <2> QED
    BY <2>1, SheetsInvariant, PTL
<1> QED
  BY <1>2 DEF Sheets!CorrectionsStand

-----------------------------------------------------------------------------
(* Together: whichever component runs, the others stand still.             *)

LEMMA ClocksRun == OrderDeskSpec => Spec
<1>1. OrderDeskInit => Init
  BY DEF OrderDeskInit
<1>2. [OrderDeskNext]_OrderDeskVars => [Next]_vars
  BY DEF OrderDeskNext, OrderDeskVars
<1> QED
  BY <1>1, <1>2, PTL DEF OrderDeskSpec, Spec

LEMMA CaptureRuns == OrderDeskSpec => Capture!Init /\ [][Capture!Next]_(Capture!vars)
<1>1. OrderDeskInit => Capture!Init
  BY DEF OrderDeskInit
<1>2. [OrderDeskNext]_OrderDeskVars => [Capture!Next]_(Capture!vars)
  BY DEF OrderDeskNext, OrderDeskVars, CloudCaptureVars, Capture!vars
<1> QED
  BY <1>1, <1>2, PTL DEF OrderDeskSpec

LEMMA EnrichRuns == OrderDeskSpec => Enrich!Init /\ [][Enrich!Next]_(Enrich!vars)
<1>1. OrderDeskInit => Enrich!Init
  BY DEF OrderDeskInit
<1>2. [OrderDeskNext]_OrderDeskVars => [Enrich!Next]_(Enrich!vars)
  BY DEF OrderDeskNext, OrderDeskVars, EnrichmentVars, Enrich!vars
<1> QED
  BY <1>1, <1>2, PTL DEF OrderDeskSpec

LEMMA CsvRuns == OrderDeskSpec => Csv!Init /\ [][Csv!Next]_(Csv!vars)
<1>1. OrderDeskInit => Csv!Init
  BY DEF OrderDeskInit
<1>2. [OrderDeskNext]_OrderDeskVars => [Csv!Next]_(Csv!vars)
  BY DEF OrderDeskNext, OrderDeskVars, WorkOrderImportVars, Csv!vars
<1> QED
  BY <1>1, <1>2, PTL DEF OrderDeskSpec

LEMMA SheetsRuns == OrderDeskSpec => Sheets!Init /\ [][Sheets!Next]_(Sheets!vars)
<1>1. OrderDeskInit => Sheets!Init
  BY DEF OrderDeskInit
<1>2. [OrderDeskNext]_OrderDeskVars => [Sheets!Next]_(Sheets!vars)
  BY DEF OrderDeskNext, OrderDeskVars, SmrSheetsVars, Sheets!vars
<1> QED
  BY <1>1, <1>2, PTL DEF OrderDeskSpec

-----------------------------------------------------------------------------
(* The events, three times: what WorkOrderEventsProofs shows of each.      *)

MovesFacts == INSTANCE WorkOrderEventsProofs WITH
    order <- eOrder, running <- eRunning, pend <- ePend, unheard <- eUnheard,
    Orders <- eBoth, Sends <- eMoving, Workers <- eWorkers,
    Supervisors <- eSupervisors, Threads <- Clerks

LEMMA MovesBegin == Moves!Init => MovesFacts!Init
  BY DEF Moves!NoRequest, Moves!Init, MovesFacts!NoRequest, MovesFacts!Init

LEMMA MovesStep == Moves!Next => MovesFacts!Next
  BY Zenon
     DEF Moves!Statuses, Moves!PreWork, Moves!Startable, Moves!Stopping, Moves!Card,
         Moves!Review,
         Moves!Board, Moves!Cards, Moves!NoRequest, Moves!Reconcile, Moves!Charging,
         Moves!InReview, Moves!HeldWithout, Moves!Outdated, Moves!Write, Moves!Row,
         Moves!Stopped, Moves!Moved, Moves!Repeat, Moves!ScanStart, Moves!Complete,
         Moves!Hold, Moves!Resume, Moves!PatchStatus, Moves!PatchCrew, Moves!PatchRouting,
         Moves!Start, Moves!StartAgain, Moves!Stop, Moves!PunchOut, Moves!Archive,
         Moves!Restore, Moves!Announced, Moves!Answer, Moves!Tap, Moves!Edit, Moves!Next,
         MovesFacts!Statuses, MovesFacts!PreWork, MovesFacts!Startable, MovesFacts!Stopping,
         MovesFacts!Card, MovesFacts!Review, MovesFacts!Board, MovesFacts!Cards,
         MovesFacts!NoRequest, MovesFacts!Reconcile, MovesFacts!Charging,
         MovesFacts!InReview, MovesFacts!HeldWithout, MovesFacts!Outdated, MovesFacts!Write,
         MovesFacts!Row, MovesFacts!Stopped, MovesFacts!Moved, MovesFacts!Repeat,
         MovesFacts!ScanStart, MovesFacts!Complete, MovesFacts!Hold, MovesFacts!Resume,
         MovesFacts!PatchStatus, MovesFacts!PatchCrew, MovesFacts!PatchRouting,
         MovesFacts!Start, MovesFacts!StartAgain, MovesFacts!Stop, MovesFacts!PunchOut,
         MovesFacts!Archive, MovesFacts!Restore, MovesFacts!Announced, MovesFacts!Answer,
         MovesFacts!Tap, MovesFacts!Edit, MovesFacts!Next

LEMMA MovesHold ==
    /\ MovesFacts!TypeOK => Moves!TypeOK
    /\ MovesFacts!RepeatIsSilent => Moves!RepeatIsSilent
    /\ MovesFacts!MovesAreHeard => Moves!MovesAreHeard
<1>1. MovesFacts!TypeOK => Moves!TypeOK
  BY Zenon
     DEF Moves!Statuses, Moves!Routes, Moves!Card, Moves!Review, Moves!Board, Moves!Cards,
         Moves!Projections, Moves!OrderRows, Moves!TypeOK, MovesFacts!Statuses,
         MovesFacts!Routes, MovesFacts!Card, MovesFacts!Review, MovesFacts!Board,
         MovesFacts!Cards, MovesFacts!Projections, MovesFacts!OrderRows, MovesFacts!TypeOK
<1>2. MovesFacts!RepeatIsSilent => Moves!RepeatIsSilent
  BY Zenon
     DEF Moves!Shown, Moves!PatchNews, Moves!News, Moves!Audience, Moves!Said, Moves!Told,
         Moves!Pushes, Moves!RepeatIsSilent, MovesFacts!Shown, MovesFacts!PatchNews,
         MovesFacts!News, MovesFacts!Audience, MovesFacts!Said, MovesFacts!Told,
         MovesFacts!Pushes, MovesFacts!RepeatIsSilent
<1>3. MovesFacts!MovesAreHeard => Moves!MovesAreHeard
  BY Zenon
     DEF Moves!Card, Moves!Review, Moves!Board, Moves!Cards, Moves!Announced,
         Moves!MovesAreHeard,
         MovesFacts!Card, MovesFacts!Review, MovesFacts!Board, MovesFacts!Cards,
         MovesFacts!Announced, MovesFacts!MovesAreHeard
<1> QED
  BY <1>1, <1>2, <1>3

TapsFacts == INSTANCE WorkOrderEventsProofs WITH
    order <- eOrder, running <- eRunning, pend <- ePend, unheard <- eUnheard,
    Orders <- eOne, Sends <- eOneOrder, Workers <- eWorkers,
    Supervisors <- eSupervisors, Threads <- Clerks

LEMMA TapsBegin == Taps!Init => TapsFacts!Init
  BY DEF Taps!NoRequest, Taps!Init, TapsFacts!NoRequest, TapsFacts!Init

LEMMA TapsStep == Taps!Next => TapsFacts!Next
  BY Zenon
     DEF Taps!Statuses, Taps!PreWork, Taps!Startable, Taps!Stopping, Taps!Card, Taps!Review,
         Taps!Board, Taps!Cards, Taps!NoRequest, Taps!Reconcile, Taps!Charging,
         Taps!InReview, Taps!HeldWithout, Taps!Outdated, Taps!Write, Taps!Row, Taps!Stopped,
         Taps!Moved, Taps!Repeat, Taps!ScanStart, Taps!Complete, Taps!Hold, Taps!Resume,
         Taps!PatchStatus, Taps!PatchCrew, Taps!PatchRouting, Taps!Start, Taps!StartAgain,
         Taps!Stop, Taps!PunchOut, Taps!Archive, Taps!Restore, Taps!Announced, Taps!Answer,
         Taps!Tap, Taps!Edit, Taps!Next, TapsFacts!Statuses, TapsFacts!PreWork,
         TapsFacts!Startable, TapsFacts!Stopping, TapsFacts!Card, TapsFacts!Review,
         TapsFacts!Board, TapsFacts!Cards, TapsFacts!NoRequest, TapsFacts!Reconcile,
         TapsFacts!Charging, TapsFacts!InReview, TapsFacts!HeldWithout, TapsFacts!Outdated,
         TapsFacts!Write, TapsFacts!Row, TapsFacts!Stopped, TapsFacts!Moved,
         TapsFacts!Repeat, TapsFacts!ScanStart, TapsFacts!Complete, TapsFacts!Hold,
         TapsFacts!Resume, TapsFacts!PatchStatus, TapsFacts!PatchCrew,
         TapsFacts!PatchRouting, TapsFacts!Start, TapsFacts!StartAgain, TapsFacts!Stop,
         TapsFacts!PunchOut, TapsFacts!Archive, TapsFacts!Restore, TapsFacts!Announced,
         TapsFacts!Answer, TapsFacts!Tap, TapsFacts!Edit, TapsFacts!Next

LEMMA TapsHold ==
    /\ TapsFacts!TypeOK => Taps!TypeOK
    /\ TapsFacts!RepeatIsSilent => Taps!RepeatIsSilent
    /\ TapsFacts!MovesAreHeard => Taps!MovesAreHeard
<1>1. TapsFacts!TypeOK => Taps!TypeOK
  BY Zenon
     DEF Taps!Statuses, Taps!Routes, Taps!Card, Taps!Review, Taps!Board, Taps!Cards,
         Taps!Projections, Taps!OrderRows, Taps!TypeOK, TapsFacts!Statuses,
         TapsFacts!Routes, TapsFacts!Card, TapsFacts!Review, TapsFacts!Board,
         TapsFacts!Cards, TapsFacts!Projections, TapsFacts!OrderRows, TapsFacts!TypeOK
<1>2. TapsFacts!RepeatIsSilent => Taps!RepeatIsSilent
  BY Zenon
     DEF Taps!Shown, Taps!PatchNews, Taps!News, Taps!Audience, Taps!Said, Taps!Told,
         Taps!Pushes,
         Taps!RepeatIsSilent, TapsFacts!Shown, TapsFacts!PatchNews, TapsFacts!News,
         TapsFacts!Audience, TapsFacts!Said, TapsFacts!Told, TapsFacts!Pushes,
         TapsFacts!RepeatIsSilent
<1>3. TapsFacts!MovesAreHeard => Taps!MovesAreHeard
  BY Zenon
     DEF Taps!Card, Taps!Review, Taps!Board, Taps!Cards, Taps!Announced, Taps!MovesAreHeard,
         TapsFacts!Card, TapsFacts!Review, TapsFacts!Board, TapsFacts!Cards,
         TapsFacts!Announced, TapsFacts!MovesAreHeard
<1> QED
  BY <1>1, <1>2, <1>3

LeavesFacts == INSTANCE WorkOrderEventsProofs WITH
    order <- eOrder, running <- eRunning, pend <- ePend, unheard <- eUnheard,
    Orders <- eOne, Sends <- eLeaving, Workers <- eWorkers,
    Supervisors <- eSupervisors, Threads <- Clerks

LEMMA LeavesBegin == Taps!Init => LeavesFacts!Init
  BY DEF Taps!NoRequest, Taps!Init, LeavesFacts!NoRequest, LeavesFacts!Init

LEMMA LeavesStep == Leaves!Next => LeavesFacts!Next
  BY Zenon
     DEF Leaves!Statuses, Leaves!PreWork, Leaves!Startable, Leaves!Stopping, Leaves!Card,
         Leaves!Review, Leaves!Board, Leaves!Cards, Leaves!NoRequest, Leaves!Reconcile,
         Leaves!Charging, Leaves!InReview, Leaves!HeldWithout, Leaves!Outdated,
         Leaves!Write, Leaves!Row, Leaves!Stopped, Leaves!Moved, Leaves!Repeat,
         Leaves!ScanStart, Leaves!Complete, Leaves!Hold, Leaves!Resume, Leaves!PatchStatus,
         Leaves!PatchCrew, Leaves!PatchRouting, Leaves!Start, Leaves!StartAgain,
         Leaves!Stop, Leaves!PunchOut, Leaves!Archive, Leaves!Restore, Leaves!Announced,
         Leaves!Answer, Leaves!Tap, Leaves!Edit, Leaves!Next, LeavesFacts!Statuses,
         LeavesFacts!PreWork, LeavesFacts!Startable, LeavesFacts!Stopping, LeavesFacts!Card,
         LeavesFacts!Review, LeavesFacts!Board, LeavesFacts!Cards, LeavesFacts!NoRequest,
         LeavesFacts!Reconcile, LeavesFacts!Charging, LeavesFacts!InReview,
         LeavesFacts!HeldWithout, LeavesFacts!Outdated, LeavesFacts!Write, LeavesFacts!Row,
         LeavesFacts!Stopped, LeavesFacts!Moved, LeavesFacts!Repeat, LeavesFacts!ScanStart,
         LeavesFacts!Complete, LeavesFacts!Hold, LeavesFacts!Resume,
         LeavesFacts!PatchStatus, LeavesFacts!PatchCrew, LeavesFacts!PatchRouting,
         LeavesFacts!Start, LeavesFacts!StartAgain, LeavesFacts!Stop, LeavesFacts!PunchOut,
         LeavesFacts!Archive, LeavesFacts!Restore, LeavesFacts!Announced,
         LeavesFacts!Answer, LeavesFacts!Tap, LeavesFacts!Edit, LeavesFacts!Next

LEMMA LeavesHold ==
    /\ LeavesFacts!TypeOK => Leaves!TypeOK
    /\ LeavesFacts!RepeatIsSilent => Leaves!RepeatIsSilent
<1>1. LeavesFacts!TypeOK => Leaves!TypeOK
  BY Zenon
     DEF Leaves!Statuses, Leaves!Routes, Leaves!Card, Leaves!Review, Leaves!Board, Leaves!Cards,
         Leaves!Projections, Leaves!OrderRows, Leaves!TypeOK, LeavesFacts!Statuses,
         LeavesFacts!Routes, LeavesFacts!Card, LeavesFacts!Review, LeavesFacts!Board,
         LeavesFacts!Cards, LeavesFacts!Projections, LeavesFacts!OrderRows,
         LeavesFacts!TypeOK
<1>2. LeavesFacts!RepeatIsSilent => Leaves!RepeatIsSilent
  BY Zenon
     DEF Leaves!Shown, Leaves!PatchNews, Leaves!News, Leaves!Audience, Leaves!Said, Leaves!Told,
         Leaves!Pushes, Leaves!RepeatIsSilent, LeavesFacts!Shown, LeavesFacts!PatchNews,
         LeavesFacts!News, LeavesFacts!Audience, LeavesFacts!Said, LeavesFacts!Told,
         LeavesFacts!Pushes, LeavesFacts!RepeatIsSilent
<1> QED
  BY <1>1, <1>2

EventsInv ==
    /\ on = "moving" => MovesFacts!IInv /\ MovesFacts!MovesAreHeard
    /\ on = "oneOrder" => TapsFacts!IInv /\ TapsFacts!MovesAreHeard
    /\ on = "leaving" => LeavesFacts!IInv

LEMMA EventsStart == OrderDeskInit => EventsInv
<1> SUFFICES ASSUME OrderDeskInit PROVE EventsInv
  OBVIOUS
<1>1. IF on = "moving" THEN Moves!Init ELSE Taps!Init
  BY DEF OrderDeskInit
<1>2. CASE on = "moving"
  BY <1>1, <1>2, MovesBegin, MovesFacts!InitIInv DEF EventsInv
<1>3. CASE on # "moving"
  BY <1>1, <1>3, TapsBegin, LeavesBegin, TapsFacts!InitIInv, LeavesFacts!InitIInv DEF EventsInv
<1> QED
  BY <1>2, <1>3

LEMMA EventsStep == EventsInv /\ [OrderDeskNext]_OrderDeskVars => EventsInv'
<1> SUFFICES ASSUME EventsInv, [OrderDeskNext]_OrderDeskVars PROVE EventsInv'
  OBVIOUS
<1>1. on' = on
  BY DEF OrderDeskNext, OrderDeskVars
<1>2. CASE on = "moving"
  <2>1. MovesFacts!IInv /\ MovesFacts!MovesAreHeard
    BY <1>2 DEF EventsInv
  <2>2. CASE Moves!Next
    <3>1. \A t \in Clerks : "punchOut" \notin eMoving[t]
      BY EventsAssumption
    <3> QED
      BY <1>1, <1>2, <2>1, <2>2, <3>1, MovesStep, MovesFacts!Step, Zenon DEF EventsInv
  <2>3. CASE UNCHANGED WorkOrderEventsVars
    <3>1. UNCHANGED MovesFacts!vars
      BY <2>3 DEF WorkOrderEventsVars, MovesFacts!vars
    <3> QED
      BY <1>1, <1>2, <2>1, <3>1, MovesFacts!Stutter, Zenon DEF EventsInv
  <2> QED
    BY <1>2, <2>2, <2>3 DEF OrderDeskNext, OrderDeskVars
<1>3. CASE on = "oneOrder"
  <2>1. TapsFacts!IInv /\ TapsFacts!MovesAreHeard
    BY <1>3 DEF EventsInv
  <2>2. CASE Taps!Next
    <3>1. \A t \in Clerks : "punchOut" \notin eOneOrder[t]
      BY EventsAssumption
    <3> QED
      BY <1>1, <1>3, <2>1, <2>2, <3>1, TapsStep, TapsFacts!Step, Zenon DEF EventsInv
  <2>3. CASE UNCHANGED WorkOrderEventsVars
    <3>1. UNCHANGED TapsFacts!vars
      BY <2>3 DEF WorkOrderEventsVars, TapsFacts!vars
    <3> QED
      BY <1>1, <1>3, <2>1, <3>1, TapsFacts!Stutter, Zenon DEF EventsInv
  <2> QED
    BY <1>3, <2>2, <2>3 DEF OrderDeskNext, OrderDeskVars
<1>4. CASE on = "leaving"
  <2>1. LeavesFacts!IInv
    BY <1>4 DEF EventsInv
  <2>2. CASE Leaves!Next
    BY <1>1, <1>4, <2>1, <2>2, LeavesStep, LeavesFacts!Step, Zenon DEF EventsInv
  <2>3. CASE UNCHANGED WorkOrderEventsVars
    <3>1. UNCHANGED LeavesFacts!vars
      BY <2>3 DEF WorkOrderEventsVars, LeavesFacts!vars
    <3> QED
      BY <1>1, <1>4, <2>1, <3>1, LeavesFacts!Stutter, Zenon DEF EventsInv
  <2> QED
    BY <1>4, <2>2, <2>3 DEF OrderDeskNext, OrderDeskVars
<1> QED
  BY <1>1, <1>2, <1>3, <1>4 DEF EventsInv

\* Punch-outs apart, every change of a card, of the Review queue and of the crew
\* board is announced by a request that has yet to answer, and a repeated tap buzzes
\* nobody, for any orders, workers, supervisors and requests.
THEOREM MovesAreAnnounced == OrderDeskSpec => []MovesAreHeard
<1>1. EventsInv => MovesAreHeard
  <2> SUFFICES ASSUME EventsInv PROVE MovesAreHeard
    OBVIOUS
  <2>1. ASSUME on = "moving"
        PROVE  Moves!TypeOK /\ Moves!MovesAreHeard /\ Moves!RepeatIsSilent
    BY <2>1, MovesHold, MovesFacts!Types, MovesFacts!Silent, Zenon DEF EventsInv
  <2>2. ASSUME on = "oneOrder"
        PROVE  Taps!TypeOK /\ Taps!MovesAreHeard /\ Taps!RepeatIsSilent
    BY <2>2, TapsHold, TapsFacts!Types, TapsFacts!Silent, Zenon DEF EventsInv
  <2>3. ASSUME on = "leaving" PROVE Leaves!TypeOK /\ Leaves!RepeatIsSilent
    BY <2>3, LeavesHold, LeavesFacts!Types, LeavesFacts!Silent, Zenon DEF EventsInv
  <2> QED
    BY <2>1, <2>2, <2>3 DEF MovesAreHeard
<1> QED
  BY <1>1, EventsStart, EventsStep, PTL DEF OrderDeskSpec

-----------------------------------------------------------------------------
(* Corrections, twice: what SmrCorrectionsProofs shows of one editor and   *)
(* of several.                                                             *)

AloneFacts == INSTANCE SmrCorrectionsProofs WITH
    lines <- cLines, gone <- cGone, day <- cDay, block <- cBlock, ed <- cEd,
    writes <- cWrites, Asks <- cAlone, MaxWrites <- cAloneWrites,
    Editors <- Clerks, Lines <- cRows, Workers <- cWorkers, Vendors <- cVendors,
    VendorOf <- cVendorOf, Days <- cDays, Weeks <- cWeeks, WeekOf <- cWeekOf

LEMMA AloneGiven == CorrectionsConstantsOK => AloneFacts!ConstantsOK /\ AloneFacts!OneEditor
  BY DEF CorrectionsConstantsOK, AloneFacts!ConstantsOK, AloneFacts!OneEditor,
         Alone!Grounds, AloneFacts!Grounds, Alone!LineRows, AloneFacts!LineRows,
         Alone!Bases, AloneFacts!Bases, Alone!Statuses, AloneFacts!Statuses

LEMMA AloneBegin == Alone!Init => AloneFacts!Init
  BY SMTT(30) DEF Alone!Idle, Alone!NoBlock, Alone!Undated, Alone!Init, AloneFacts!Idle,
         AloneFacts!NoBlock, AloneFacts!Undated,
         AloneFacts!Init

LEMMA AloneStep == Alone!Next => AloneFacts!Next
  BY Zenon
     DEF Alone!Bases, Alone!Placements, Alone!Grounds, Alone!Idle, Alone!Present, Alone!NoBlock,
         Alone!WeekFor, Alone!Over, Alone!Dated, Alone!Fits, Alone!Sound, Alone!Storable,
         Alone!Bodies, Alone!Matched, Alone!Columns, Alone!Goto, Alone!Ask, Alone!Wrote,
         Alone!EditRead, Alone!EditWrite, Alone!AddRead, Alone!AddWrite, Alone!DayRead,
         Alone!DayWrite, Alone!DayLines, Alone!DayLine, Alone!Repointed, Alone!MergeRead,
         Alone!MergeWrite, Alone!Charged, Alone!Printed, Alone!Digest, Alone!BlockRead,
         Alone!Rendered, Alone!BlockWrite, Alone!PasteRead, Alone!PasteWrite, Alone!Next,
         AloneFacts!Bases, AloneFacts!Placements, AloneFacts!Grounds, AloneFacts!Idle,
         AloneFacts!Present, AloneFacts!NoBlock, AloneFacts!WeekFor, AloneFacts!Over,
         AloneFacts!Dated, AloneFacts!Fits, AloneFacts!Sound, AloneFacts!Storable,
         AloneFacts!Bodies, AloneFacts!Matched, AloneFacts!Columns, AloneFacts!Goto,
         AloneFacts!Ask, AloneFacts!Wrote, AloneFacts!EditRead, AloneFacts!EditWrite,
         AloneFacts!AddRead, AloneFacts!AddWrite, AloneFacts!DayRead, AloneFacts!DayWrite,
         AloneFacts!DayLines, AloneFacts!DayLine, AloneFacts!Repointed,
         AloneFacts!MergeRead, AloneFacts!MergeWrite, AloneFacts!Charged,
         AloneFacts!Printed, AloneFacts!Digest, AloneFacts!BlockRead, AloneFacts!Rendered,
         AloneFacts!BlockWrite, AloneFacts!PasteRead, AloneFacts!PasteWrite, AloneFacts!Next

LEMMA AloneHold ==
    /\ AloneFacts!TypeOK => Alone!TypeOK
    /\ AloneFacts!BlockIsCurrent => Alone!BlockIsCurrent
    /\ AloneFacts!LinesAreSound => Alone!LinesAreSound
    /\ AloneFacts!RemovedIsNotBilled => Alone!RemovedIsNotBilled
<1>1. AloneFacts!TypeOK => Alone!TypeOK
  BY Zenon
     DEF Alone!Bases, Alone!Grounds, Alone!Statuses, Alone!LineRows, Alone!TypeOK,
         AloneFacts!Bases,
         AloneFacts!Grounds, AloneFacts!Statuses, AloneFacts!LineRows, AloneFacts!TypeOK
<1>2. AloneFacts!BlockIsCurrent => Alone!BlockIsCurrent
  BY Zenon
     DEF Alone!NoBlock, Alone!Charged, Alone!Printed, Alone!Digest, Alone!Stale,
         Alone!BlockIsCurrent, AloneFacts!NoBlock, AloneFacts!Charged, AloneFacts!Printed,
         AloneFacts!Digest, AloneFacts!Stale, AloneFacts!BlockIsCurrent
<1>3. AloneFacts!LinesAreSound => Alone!LinesAreSound
  BY Zenon
     DEF Alone!Present, Alone!WeekFor, Alone!LinesAreSound, AloneFacts!Present,
         AloneFacts!WeekFor,
         AloneFacts!LinesAreSound
<1>4. AloneFacts!RemovedIsNotBilled => Alone!RemovedIsNotBilled
  BY Zenon
     DEF Alone!Present, Alone!RemovedIsNotBilled, AloneFacts!Present,
         AloneFacts!RemovedIsNotBilled
<1> QED
  BY <1>1, <1>2, <1>3, <1>4

TogetherFacts == INSTANCE SmrCorrectionsProofs WITH
    lines <- cLines, gone <- cGone, day <- cDay, block <- cBlock, ed <- cEd,
    writes <- cWrites, Asks <- cTogether, MaxWrites <- cTogetherWrites,
    Editors <- Clerks, Lines <- cRows, Workers <- cWorkers, Vendors <- cVendors,
    VendorOf <- cVendorOf, Days <- cDays, Weeks <- cWeeks, WeekOf <- cWeekOf

LEMMA TogetherGiven == CorrectionsConstantsOK => TogetherFacts!ConstantsOK
  BY DEF CorrectionsConstantsOK, TogetherFacts!ConstantsOK,
         Alone!Grounds, TogetherFacts!Grounds, Alone!LineRows, TogetherFacts!LineRows,
         Alone!Bases, TogetherFacts!Bases, Alone!Statuses, TogetherFacts!Statuses

LEMMA TogetherBegin == Alone!Init => TogetherFacts!Init
  BY Zenon
     DEF Alone!Idle, Alone!NoBlock, Alone!Undated, Alone!Init, TogetherFacts!Idle,
         TogetherFacts!NoBlock, TogetherFacts!Undated,
         TogetherFacts!Init

LEMMA TogetherStep == Together!Next => TogetherFacts!Next
  BY Zenon
     DEF Together!Bases, Together!Placements, Together!Grounds, Together!Idle, Together!Present,
         Together!NoBlock, Together!WeekFor, Together!Over, Together!Dated, Together!Fits,
         Together!Sound, Together!Storable, Together!Bodies, Together!Matched,
         Together!Columns, Together!Goto, Together!Ask, Together!Wrote, Together!EditRead,
         Together!EditWrite, Together!AddRead, Together!AddWrite, Together!DayRead,
         Together!DayWrite, Together!DayLines, Together!DayLine, Together!Repointed,
         Together!MergeRead, Together!MergeWrite, Together!Charged, Together!Printed,
         Together!Digest, Together!BlockRead, Together!Rendered, Together!BlockWrite,
         Together!PasteRead, Together!PasteWrite, Together!Next, TogetherFacts!Bases,
         TogetherFacts!Placements, TogetherFacts!Grounds, TogetherFacts!Idle,
         TogetherFacts!Present, TogetherFacts!NoBlock, TogetherFacts!WeekFor,
         TogetherFacts!Over, TogetherFacts!Dated, TogetherFacts!Fits, TogetherFacts!Sound,
         TogetherFacts!Storable, TogetherFacts!Bodies, TogetherFacts!Matched,
         TogetherFacts!Columns, TogetherFacts!Goto, TogetherFacts!Ask, TogetherFacts!Wrote,
         TogetherFacts!EditRead, TogetherFacts!EditWrite, TogetherFacts!AddRead,
         TogetherFacts!AddWrite, TogetherFacts!DayRead, TogetherFacts!DayWrite,
         TogetherFacts!DayLines, TogetherFacts!DayLine, TogetherFacts!Repointed,
         TogetherFacts!MergeRead, TogetherFacts!MergeWrite, TogetherFacts!Charged,
         TogetherFacts!Printed, TogetherFacts!Digest, TogetherFacts!BlockRead,
         TogetherFacts!Rendered, TogetherFacts!BlockWrite, TogetherFacts!PasteRead,
         TogetherFacts!PasteWrite, TogetherFacts!Next

LEMMA TogetherHold ==
    /\ TogetherFacts!TypeOK => Together!TypeOK
    /\ TogetherFacts!BlockIsCurrent => Together!BlockIsCurrent
<1>1. TogetherFacts!TypeOK => Together!TypeOK
  BY Zenon
     DEF Together!Bases, Together!Grounds, Together!Statuses, Together!LineRows,
         Together!TypeOK,
         TogetherFacts!Bases, TogetherFacts!Grounds, TogetherFacts!Statuses,
         TogetherFacts!LineRows, TogetherFacts!TypeOK
<1>2. TogetherFacts!BlockIsCurrent => Together!BlockIsCurrent
  BY Zenon
     DEF Together!NoBlock, Together!Charged, Together!Printed, Together!Digest, Together!Stale,
         Together!BlockIsCurrent, TogetherFacts!NoBlock, TogetherFacts!Charged,
         TogetherFacts!Printed, TogetherFacts!Digest, TogetherFacts!Stale,
         TogetherFacts!BlockIsCurrent
<1> QED
  BY <1>1, <1>2

CorrectionsInv ==
    /\ on = "alone" => AloneFacts!SInv
    /\ on = "together" => TogetherFacts!TInv

LEMMA CorrectionsStart == OrderDeskInit => CorrectionsInv
<1> SUFFICES ASSUME OrderDeskInit PROVE CorrectionsInv
  OBVIOUS
<1>1. Alone!Init
  BY DEF OrderDeskInit
<1>2. AloneFacts!SInv
  BY <1>1, CorrectionsAssumption, AloneGiven, AloneBegin, AloneFacts!InitSInv
<1>3. TogetherFacts!TInv
  BY <1>1, CorrectionsAssumption, TogetherGiven, TogetherBegin, TogetherFacts!InitTInv
<1> QED
  BY <1>2, <1>3 DEF CorrectionsInv

LEMMA CorrectionsStep == CorrectionsInv /\ [OrderDeskNext]_OrderDeskVars => CorrectionsInv'
<1> SUFFICES ASSUME CorrectionsInv, [OrderDeskNext]_OrderDeskVars PROVE CorrectionsInv'
  OBVIOUS
<1>1. on' = on
  BY DEF OrderDeskNext, OrderDeskVars
<1>2. CASE on = "alone"
  <2>1. AloneFacts!SInv
    BY <1>2 DEF CorrectionsInv
  <2>2. [AloneFacts!Next]_(AloneFacts!vars)
    <3>1. CASE Alone!Next
      BY <3>1, AloneStep
    <3>2. CASE UNCHANGED SmrCorrectionsVars
      BY <3>2 DEF SmrCorrectionsVars, AloneFacts!vars
    <3> QED
      BY <1>2, <3>1, <3>2 DEF OrderDeskNext, OrderDeskVars
  <2>3. AloneFacts!SInv'
    BY <2>1, <2>2, CorrectionsAssumption, AloneGiven, AloneFacts!StepSInv, Zenon
  <2> QED
    BY <1>1, <1>2, <2>3 DEF CorrectionsInv
<1>3. CASE on = "together"
  <2>1. TogetherFacts!TInv
    BY <1>3 DEF CorrectionsInv
  <2>2. [TogetherFacts!Next]_(TogetherFacts!vars)
    <3>1. CASE Together!Next
      BY <3>1, TogetherStep
    <3>2. CASE UNCHANGED SmrCorrectionsVars
      BY <3>2 DEF SmrCorrectionsVars, TogetherFacts!vars
    <3> QED
      BY <1>3, <3>1, <3>2 DEF OrderDeskNext, OrderDeskVars
  <2>3. TogetherFacts!TInv'
    BY <2>1, <2>2, CorrectionsAssumption, TogetherGiven, TogetherFacts!StepTInv, Zenon
  <2> QED
    BY <1>1, <1>3, <2>3 DEF CorrectionsInv
<1> QED
  BY <1>1, <1>2, <1>3 DEF CorrectionsInv

-----------------------------------------------------------------------------
(* The properties of the runs                                              *)

\* No exported file is imported twice and no player outlives its browser but by a
\* cancel whose close raised, whatever polls, retries, failed starts and cancels
\* cross; a batch's counts add up and it read
\* every priority there was, for any number of files, attempts and orders.
THEOREM CapturesHold == OrderDeskSpec => []CaptureHolds
<1>1. OrderDeskSpec => [](Capture!TypeOK /\ Capture!ImportedOnce)
  BY CaptureRuns, CaptureAssumption, CaptureFilesAreImportedOnce, PTL
<1>2. OrderDeskSpec => []Capture!StalePlayerWasCut
  BY CaptureRuns, CaptureAssumption, CaptureStalePlayersWereCut, PTL
<1>3. OrderDeskSpec => [](Enrich!TypeOK /\ Enrich!CountsAddUp /\ Enrich!PrioritiesAreRead)
  BY EnrichRuns, EnrichAssumption, EnrichBatchesAddUp, PTL
<1>4. /\ Capture!TypeOK /\ Capture!ImportedOnce /\ Capture!StalePlayerWasCut
      /\ Enrich!TypeOK /\ Enrich!CountsAddUp /\ Enrich!PrioritiesAreRead
      => CaptureHolds
  BY DEF CaptureHolds
<1> QED
  BY <1>1, <1>2, <1>3, <1>4, PTL

\* No import and no batch writes over what people typed, touches an archived order
\* or takes one from its supervisor, and no two orders bear one number, for any
\* files, rows and requests beside them.
THEOREM EditsStand == OrderDeskSpec => EditsSurvive
<1>1. OrderDeskSpec => [](Csv!TypeOK /\ Csv!OneNumber)
  BY CsvRuns, ImportAssumption, CsvNumbersAreUnique, PTL
<1>2. Csv!TypeOK /\ Csv!OneNumber => OneNumber
  BY DEF OneNumber
<1>3. OrderDeskSpec => Csv!EditsSurviveImport /\ Csv!ArchivedUntouched /\ Csv!RoutingStands
  BY CsvRuns, ImportAssumption, CsvImportsSpareEdits
<1>4. OrderDeskSpec => Enrich!EditsSurviveBatch /\ Enrich!RightOrder
  BY EnrichRuns, EnrichAssumption, EnrichBatchesSpareEdits
<1> QED
  BY <1>1, <1>2, <1>3, <1>4, PTL DEF EditsSurvive

\* The clocks of OrderDesk are those of LaborClock: on one order, without shifts
\* ending, material activity and the bulk archive, each session is billed once, the
\* completion date follows the status and an archived order has no clock.
THEOREM DeskClocksHold ==
    OneLock /\ {"activity", "archiveLegacy"} \cap Ops = {} => (OrderDeskSpec => []ClocksHold)
  BY ClocksRun, OneOrderClocksHold

\* A correction block that does not read as stale prints the lines as they are,
\* whoever edits meanwhile; one editor at a time leaves no line the rules refuse;
\* an SMR order has its frozen baseline and a paper is imported whole, whatever
\* uploads cross and restarts cut off, for any lines, papers, sheets and editors.
THEOREM ReviewsHold == OrderDeskSpec => []SmrHolds
<1>1. CorrectionsInv =>
        /\ on = "alone" =>
              /\ Alone!TypeOK /\ Alone!BlockIsCurrent
              /\ Alone!LinesAreSound /\ Alone!RemovedIsNotBilled
        /\ on = "together" => Together!TypeOK /\ Together!BlockIsCurrent
  <2> SUFFICES ASSUME CorrectionsInv
               PROVE  /\ on = "alone" =>
                            /\ Alone!TypeOK /\ Alone!BlockIsCurrent
                            /\ Alone!LinesAreSound /\ Alone!RemovedIsNotBilled
                      /\ on = "together" => Together!TypeOK /\ Together!BlockIsCurrent
    OBVIOUS
  <2>1. ASSUME on = "alone"
        PROVE  /\ Alone!TypeOK /\ Alone!BlockIsCurrent
               /\ Alone!LinesAreSound /\ Alone!RemovedIsNotBilled
    <3>1. AloneFacts!SInv /\ AloneFacts!ConstantsOK
      BY <2>1, CorrectionsAssumption, AloneGiven DEF CorrectionsInv
    <3>2. AloneFacts!TInv
      BY <3>1 DEF AloneFacts!SInv
    <3> QED
      BY <3>1, <3>2, AloneHold, AloneFacts!Types, AloneFacts!Currents, AloneFacts!Sounds, Zenon
  <2>2. ASSUME on = "together" PROVE Together!TypeOK /\ Together!BlockIsCurrent
    <3>1. TogetherFacts!TInv /\ TogetherFacts!ConstantsOK
      BY <2>2, CorrectionsAssumption, TogetherGiven DEF CorrectionsInv
    <3> QED
      BY <3>1, TogetherHold, TogetherFacts!Types, TogetherFacts!Currents, Zenon
  <2> QED
    BY <2>1, <2>2
<1>2. OrderDeskSpec => []CorrectionsInv
  BY CorrectionsStart, CorrectionsStep, PTL DEF OrderDeskSpec
<1>3. OrderDeskSpec => [](Sheets!TypeOK /\ Sheets!SmrIsFrozen /\ Sheets!PaperIsWhole)
  BY SheetsRuns, SheetsAssumption, SheetsUploadsAreWhole, PTL
<1>4. CorrectionsInv /\ (Sheets!TypeOK /\ Sheets!SmrIsFrozen /\ Sheets!PaperIsWhole) => SmrHolds
  BY <1>1 DEF SmrHolds
<1> QED
  BY <1>2, <1>3, <1>4, PTL

\* What was corrected in the app stays when its paper is uploaded again.
THEOREM CorrectionsStay == OrderDeskSpec => Sheets!CorrectionsStand
  BY SheetsRuns, SheetsAssumption, SheetsCorrectedLinesStay
=============================================================================

---------------------------- MODULE ItemAlerts ----------------------------
(***************************************************************************)
(* What one catalogue item tells people: the low-stock push and page       *)
(* (domain/low_stock.py, services/low_stock.py, routers/_stock_events.py)  *)
(* and the missing-price request (services/user_requests.py).  A writer    *)
(* locks the item, reads it, commits, and emits after the commit; the      *)
(* fulfilment of a catalogue request attaches the item without the lock.   *)
(***************************************************************************)
EXTENDS Integers, FiniteSets

CONSTANTS Threads, None, Sends, MaxQty, MaxThreshold, MaxAsks

VARIABLES quantity, threshold, archived,   \* the items row
          priced, linked,
          asks,    \* open missing-price requests filed under the item's lock
          loose,   \* and those a fulfilment filed without it
          page,    \* is the item on the Low Stock page people look at?
          pushes,  \* low-stock pushes since the item was last not low
          born,    \* it has been low ever since it was created
          lock, job

vars == <<quantity, threshold, archived, priced, linked, asks, loose, page, pushes,
          born, lock, job>>

IsLow(q, n) == q <= n
Low == ~archived /\ IsLow(quantity, threshold)
Idle == [phase |-> "idle"]

TypeOK ==
    /\ quantity \in 0 .. MaxQty /\ threshold \in 1 .. MaxThreshold
    /\ {archived, priced, linked, page, born} \subseteq BOOLEAN
    /\ {asks, loose} \subseteq 0 .. MaxAsks
    /\ pushes \in 0 .. 2
    /\ lock \in Threads \cup {None}
    /\ \A t \in Threads : job[t].phase \in {"idle", "commit", "emit"}

\* A new item is born with any count; its creation announces nothing but
\* puts it on the page.
Init ==
    /\ quantity \in 0 .. MaxQty /\ threshold = 1
    /\ archived = FALSE
    /\ priced \in BOOLEAN /\ linked \in BOOLEAN
    /\ asks = 0 /\ loose = 0 /\ pushes = 0
    /\ born = IsLow(quantity, threshold)
    /\ page = born
    /\ lock = None
    /\ job = [t \in Threads |-> Idle]

-----------------------------------------------------------------------------
(* The two questions a write asks of its before and after.                 *)

CrossedIntoLow(b, a) == ~IsLow(b[1], b[2]) /\ IsLow(a[1], a[2])

MembershipChanged(b, a) == IsLow(b[1], b[2]) # IsLow(a[1], a[2])

\* Seeded fault: the threshold route does not lock the item.
Locks_NotRetune == {"stock", "edit", "attach"}

Locks == {"stock", "retune", "edit", "attach"}

Thresholds == 1 .. MaxThreshold

Ask(o, n, price, link) == [op |-> o, n |-> n, price |-> price, link |-> link]
Asked(o) ==
    CASE o = "stock" -> {Ask(o, d, FALSE, FALSE) : d \in {-2, -1, 1, 2}}
      [] o = "retune" -> {Ask(o, n, FALSE, FALSE) : n \in Thresholds}
      [] o = "edit" -> {Ask(o, 0, p, l) : p \in BOOLEAN, l \in BOOLEAN}
      [] o = "attach" -> {Ask(o, 0, FALSE, FALSE)}
      [] o = "fulfil" -> {Ask(o, 0, FALSE, FALSE)}

\* With the lock (or without it) a request reads the item and its requests.
Read(t) ==
    /\ job[t].phase = "idle"
    /\ \E o \in Sends[t] \ {"archive"} : \E r \in Asked(o) :
        /\ o \in Locks => lock = None
        /\ o # "edit" => ~archived
        /\ o = "stock" => quantity + r.n \in 0 .. MaxQty
        /\ lock' = IF o \in Locks THEN t ELSE lock
        /\ job' = [job EXCEPT ![t] =
             [phase |-> "commit", req |-> r, saw |-> <<quantity, threshold>>,
              wants |-> ~priced /\ asks + loose = 0]]
    /\ UNCHANGED <<quantity, threshold, archived, priced, linked, asks, loose, page, pushes,
                   born>>

After(j) ==
    CASE j.req.op = "stock" -> <<j.saw[1] + j.req.n, j.saw[2]>>
      [] j.req.op = "retune" -> <<j.saw[1], j.req.n>>
      [] OTHER -> j.saw

\* An UPDATE writes the column that changed.
Writes(j) ==
    /\ quantity' = IF j.req.op = "stock" THEN After(j)[1] ELSE quantity
    /\ threshold' = IF j.req.op = "retune" THEN After(j)[2] ELSE threshold

\* Pushes sent since the item became low: one per crossing that was told.
Pushed(told, low) == IF ~low THEN 0 ELSE IF told /\ pushes < 2 THEN pushes + 1 ELSE pushes

\* A price and a link together resolve every open missing-price request.
Settles(r) == r.op = "edit" /\ r.price /\ r.link

Commit(t) ==
    LET j == job[t]  told == CrossedIntoLow(j.saw, After(j)) IN
    /\ j.phase = "commit"
    /\ lock \in {None, t} \/ j.req.op = "fulfil"
    /\ j.req.op \in {"attach", "fulfil"} => asks + loose < MaxAsks
    /\ Writes(j)
    /\ IF j.req.op = "edit" THEN priced' = j.req.price /\ linked' = j.req.link
       ELSE UNCHANGED <<priced, linked>>
    /\ asks' = IF Settles(j.req) THEN 0
               ELSE asks + (IF j.req.op = "attach" /\ j.wants THEN 1 ELSE 0)
    /\ loose' = IF Settles(j.req) THEN 0
                ELSE loose + (IF j.req.op = "fulfil" /\ j.wants THEN 1 ELSE 0)
    /\ pushes' = Pushed(told, IsLow(quantity', threshold'))
    /\ born' = (born /\ IsLow(quantity', threshold'))
    /\ lock' = IF lock = t THEN None ELSE lock
    /\ job' = [job EXCEPT ![t] = IF MembershipChanged(j.saw, After(j))
                                 THEN [phase |-> "emit"] ELSE Idle]
    /\ UNCHANGED <<archived, page>>

\* delete_item takes no lock of its own; its UPDATE waits for the row.
Archive(t) ==
    /\ job[t].phase = "idle" /\ "archive" \in Sends[t]
    /\ lock = None
    /\ archived' = TRUE
    /\ job' = [job EXCEPT ![t] = [phase |-> "emit"]]
    /\ UNCHANGED <<quantity, threshold, priced, linked, asks, loose, page, pushes, born, lock>>

\* After the commit the route invalidates the page, which reads again.
Emit(t) ==
    /\ job[t].phase = "emit"
    /\ page' = Low
    /\ job' = [job EXCEPT ![t] = Idle]
    /\ UNCHANGED <<quantity, threshold, archived, priced, linked, asks, loose, pushes, born,
                   lock>>

\* Staff resolve the open requests by hand (PATCH).
Close ==
    /\ asks + loose > 0
    /\ asks' = 0 /\ loose' = 0
    /\ UNCHANGED <<quantity, threshold, archived, priced, linked, page, pushes, born, lock, job>>

Next == Close \/ \E t \in Threads : Read(t) \/ Commit(t) \/ Archive(t) \/ Emit(t)

Spec == Init /\ [][Next]_vars

-----------------------------------------------------------------------------
(* Properties.                                                             *)

\* Every time the item becomes low, by a movement or by a threshold raised
\* past the count, exactly one push says so.
LowIsAnnounced == ~archived /\ IsLow(quantity, threshold) /\ ~born => pushes = 1

\* Once the routes have emitted, the Low Stock page shows what is low.
PageSettles == (\A t \in Threads : job[t].phase = "idle") => page = Low

\* An item with a price and a link has no missing-price request, and an item
\* has never two, unless a fulfilment that held no lock filed one.
PriceQueue == asks <= 1 /\ (priced /\ linked => asks = 0)
=============================================================================

------------------------------ MODULE Requests ------------------------------
(***************************************************************************)
(* The user-request queue of one catalogue item: services/                 *)
(* material_requests.py and services/user_requests.py, as the routes of    *)
(* routers/user_requests.py, the stock writers and add_work_order_item     *)
(* call them.  A material request waits for the shelf and follows its two  *)
(* zero edges; a catalogue request waits for somebody to name its item.    *)
(* A thread locks (the item row, a request row), reads, and commits;       *)
(* autoflush is off, so nothing is written before the commit, and a row    *)
(* read without its lock may be written over what others made of it.       *)
(***************************************************************************)
EXTENDS Integers, FiniteSets, FiniteSetsExt, Sequences, SequencesExt

CONSTANTS Threads, Orders, None,
          Sends,             \* the operations each thread carries
          MinHand, MaxHand,  \* bounds on the count on the shelf
          MaxRows, MaxFiled, \* ids, and how many of them are filed at most
          MaxLine            \* bound on what is logged on a work order

VARIABLES onHand,   \* items.quantity
          closed,   \* archived work orders
          req,      \* user_requests: row or None by id
          line,     \* quantity of the item's line on each work order
          logged,   \* what was ever logged on each work order
          filled,   \* what fulfilments logged there
          itemLock, rowLock,   \* holders of FOR UPDATE locks
          job       \* what each thread is doing

vars == <<onHand, closed, req, line, logged, filled, itemLock, rowLock, job>>

Ids == 1 .. MaxRows
Rows == {i \in Ids : req[i] # None}
Free == Ids \ Rows
Material == {i \in Rows : req[i].kind = "material"}
Catalogue == {i \in Rows : req[i].kind = "catalogue"}
IsLive(r) == r.status \in {"open", "stocked"}
LiveFor(o) == {i \in Material : req[i].order = o /\ IsLive(req[i])}

Idle == [phase |-> "idle"]

RequestRows ==
    [kind : {"material", "catalogue"}, order : Orders,
     status : {"open", "stocked", "resolved"}, by : {None, "auto", "staff"},
     auto : {None, "added", "skipped"}, loose : BOOLEAN, onShelf : BOOLEAN]

TypeOK ==
    /\ onHand \in Int
    /\ closed \subseteq Orders
    /\ \A i \in Rows : req[i] \in RequestRows
    /\ \A o \in Orders : {line[o], logged[o], filled[o]} \subseteq Nat
    /\ itemLock \in Threads \cup {None}
    /\ rowLock \in [Ids -> Threads \cup {None}]

Init ==
    /\ onHand = 0
    /\ closed = {}
    /\ req = [i \in Ids |-> None]
    /\ line = [o \in Orders |-> 0]
    /\ logged = [o \in Orders |-> 0]
    /\ filled = [o \in Orders |-> 0]
    /\ itemLock = None
    /\ rowLock = [i \in Ids |-> None]
    /\ job = [t \in Threads |-> Idle]

-----------------------------------------------------------------------------
(* The edges of domain/material_requests.py, and what crossing one writes. *)

WentOut_Below(before, after) == before > 0 /\ after < 0

Restocked(before, after) == before <= 0 /\ after > 0
WentOut(before, after) == before > 0 /\ after <= 0

NewRow(kind, o, loose) ==
    [kind |-> kind, order |-> o, status |-> "open", by |-> None, auto |-> None,
     loose |-> loose, onShelf |-> onHand > 0]

Stocked(r, who) == [r EXCEPT !.status = "stocked", !.by = who]
Reopened(r) == [r EXCEPT !.status = "open", !.by = None]

Resolved(r) == [r EXCEPT !.status = "resolved"]

\* A request whose work order is already closed is resolved quietly.
StockedOrClosed(r, who) == IF r.order \in closed THEN Resolved(r) ELSE Stocked(r, who)

\* Seeded fault: the WHERE clause alone, without the in-session status.
MovedRows_Stale(before, after, own) ==
    [i \in {i \in Material :
        \/ Restocked(before, after) /\ req[i].status = "open"
        \/ WentOut(before, after) /\ req[i].status = "stocked"} |->
     IF after > 0 THEN StockedOrClosed(req[i], "auto") ELSE Reopened(req[i])]

\* The requests a stock write moves, as it will write them.  A row this
\* transaction has already resolved (own) matches in SQL, but not in the
\* identity map.
MovedRows(before, after, own) ==
    [i \in {i \in Material \ own :
        \/ Restocked(before, after) /\ req[i].status = "open"
        \/ WentOut(before, after) /\ req[i].status = "stocked"} |->
     IF after > 0 THEN StockedOrClosed(req[i], "auto") ELSE Reopened(req[i])]

-----------------------------------------------------------------------------
(* Requests arrive; what their first locks are.                            *)

\* The requests that name the same material: here all do, and the list that
\* staff confirmed may be older than the requests' statuses.
Siblings(i) == Catalogue \ {i}

Ask(o, w, i, n, S) == [op |-> o, order |-> w, id |-> i, n |-> n, sibs |-> S]
Asked(o) ==
    CASE o \in {"file", "ask"} -> {Ask(o, w, None, 0, {}) : w \in Orders \ closed}
      [] o = "add" ->
            {Ask(o, w, i, 0, {}) : w \in Orders \ closed, i \in Material \cup {None}}
      [] o = "stock" -> {Ask(o, None, None, d, {}) : d \in {-1, 1, 2}}
      [] o \in {"mark", "cancel"} -> {Ask(o, None, i, 0, {}) : i \in Material}
      [] o \in {"reopen", "close"} -> {Ask(o, None, i, 0, {}) : i \in Rows}
      [] o = "fulfil" ->
            UNION {{Ask(o, None, i, 0, S) : S \in SUBSET Siblings(i)} : i \in Catalogue}

\* Bounds on what may be under way: rows to insert, units to log, the count.
Inserts(a) ==
    CASE a.op \in {"file", "ask"} -> 1
      [] a.op = "fulfil" -> Cardinality({req[i].order : i \in {a.id} \cup a.sibs})
      [] OTHER -> 0
Logs(a) == IF a.op = "add" THEN 1 ELSE IF a.op = "fulfil" THEN 1 + Cardinality(a.sibs) ELSE 0
Moves(a) == IF a.op = "add" THEN -1 ELSE a.n
Within(a) ==
    LET asks == {a} \cup {job[u].req : u \in {u \in Threads : job[u].phase # "idle"}}
        twice == {u \in Threads : job[u].phase # "idle" /\ job[u].req = a}
        total(f(_)) == FoldSet(LAMBDA x, n : f(x) + n, 0, asks)
                       + Cardinality(twice) * f(a)
    IN  /\ Inserts(a) > 0 => Cardinality(Rows) + total(Inserts) <= MaxFiled
        /\ Logs(a) > 0 => \A o \in Orders : logged[o] + total(Logs) <= MaxLine
        /\ Moves(a) # 0 => onHand + total(Moves) \in MinHand .. MaxHand
                           /\ onHand + Moves(a) \in MinHand .. MaxHand

-----------------------------------------------------------------------------
(* What each operation reads, and with it what it will write:              *)
(* rows (new contents by id), news (rows to insert), hand (change of the   *)
(* count), adds (work orders whose line grows), fills (requests linked).   *)

Rewrites(rows, news) == [rows |-> rows, news |-> news, hand |-> 0, adds |-> {}, fills |-> {}]
NoRows == [i \in {} |-> None]

\* One live request per work order and item: a second filing updates it.
Filed(o) ==
    IF LiveFor(o) # {} THEN Rewrites([i \in {Min(LiveFor(o))} |-> req[i]], {})
    ELSE Rewrites(NoRows, {NewRow("material", o, FALSE)})

StockWrite(d) ==
    [rows |-> MovedRows(onHand, onHand + d, {}), news |-> {}, hand |-> d, adds |-> {}, fills |-> {}]

\* "Add requested material": the request must be stocked and this order's.
AddOK(r) ==
    r.id = None \/ (req[r.id].status = "stocked" /\ req[r.id].order = r.order)

Added(r) ==
    LET own == {r.id} \ {None}
        moved == MovedRows(onHand, onHand - 1, own) IN
    [rows |-> [i \in own \cup DOMAIN moved |->
                  IF i \in DOMAIN moved THEN moved[i] ELSE Resolved(req[i])],
     news |-> {}, hand |-> -1, adds |-> {r.order}, fills |-> {}]

\* A PATCH: resolve, or reopen (a fulfilled catalogue request may not be).
PatchOK(r) == r.op = "reopen" => req[r.id].auto = None

Patched(r) ==
    IF r.op = "close" THEN Resolved(req[r.id])
    ELSE [Reopened(req[r.id]) EXCEPT !.loose = TRUE]

\* The request and the siblings still open once their rows are locked.
Targets(r) == {r.id} \cup {i \in r.sibs : req[i].status = "open"}

\* Every target is linked to the item; those on a live work order are
\* logged there, and an empty shelf files a material request for the crew.
\* No lock on the item, no lock on the line.
Fulfilled(r) ==
    LET orders == {req[i].order : i \in Targets(r)} \ closed
        again == {Min(LiveFor(o)) : o \in {o \in orders : onHand <= 0 /\ LiveFor(o) # {}}} IN
    [rows |-> [i \in Targets(r) \cup again |->
                  IF i \in Targets(r)
                  THEN [Resolved(req[i]) EXCEPT
                          !.auto = IF req[i].order \in closed THEN "skipped" ELSE "added"]
                  ELSE [req[i] EXCEPT !.loose = TRUE]],
     news |-> {NewRow("material", o, TRUE) :
                    o \in {o \in orders : onHand <= 0 /\ LiveFor(o) = {}}},
     hand |-> 0, adds |-> orders, fills |-> Targets(r)]

Refused(r) ==
    CASE r.op = "add" -> ~AddOK(r)
      [] r.op \in {"mark", "cancel", "fulfil"} -> req[r.id].status # "open"
      [] r.op \in {"reopen", "close"} -> ~PatchOK(r)
      [] OTHER -> FALSE

Does(r) ==
    CASE r.op = "file" -> Filed(r.order)
      [] r.op = "ask" -> Rewrites(NoRows, {NewRow("catalogue", r.order, FALSE)})
      [] r.op = "stock" -> StockWrite(r.n)
      [] r.op = "add" -> Added(r)
      [] r.op = "fulfil" -> Fulfilled(r)
      [] r.op = "mark" -> Rewrites([i \in {r.id} |-> StockedOrClosed(req[i], "staff")], {})
      [] r.op = "cancel" -> Rewrites([i \in {r.id} |-> Resolved(req[i])], {})
      [] r.op \in {"reopen", "close"} -> Rewrites([i \in {r.id} |-> Patched(r)], {})

\* With its last lock a request reads, and is refused or has a write pending:
\* the columns it read of the rows and the lines it will write go with it.
Reading(r) ==
    IF Refused(r) THEN Idle
    ELSE LET w == Does(r) IN
         [phase |-> "commit", req |-> r, does |-> w,
          saw |-> [i \in DOMAIN w.rows |-> req[i]], seen |-> [o \in w.adds |-> line[o]]]

\* The request rows a thread still has to lock.
Wanted(t) ==
    {i \in {job[t].req.id} \cup job[t].req.sibs : i # None /\ rowLock[i] # t}

Ends(t) ==
    /\ job' = [job EXCEPT ![t] = Idle]
    /\ itemLock' = IF itemLock = t THEN None ELSE itemLock
    /\ rowLock' = [i \in Ids |-> IF rowLock[i] = t THEN None ELSE rowLock[i]]

\* The operations that lock the item row first.
LocksItem == {"file", "add", "stock"}

\* A request is seen from its first lock on: lock_live_item and the stock
\* writers' own SELECT, or its own request row.
Takes(t, r) ==
    LET item == r.op \in LocksItem
        own == IF item THEN {} ELSE {r.id} \ {None}
        rest == ({r.id} \cup r.sibs) \ (own \cup {None})
    IN  /\ item => itemLock = None
        /\ \A i \in own : rowLock[i] = None
        /\ IF rest = {} /\ Refused(r) THEN UNCHANGED <<job, itemLock, rowLock>>
           ELSE /\ job' = [job EXCEPT ![t] = IF rest = {} THEN Reading(r)
                                             ELSE [phase |-> "locking", req |-> r]]
                /\ itemLock' = IF item THEN t ELSE itemLock
                /\ rowLock' = [i \in Ids |-> IF i \in own THEN t ELSE rowLock[i]]

Arrive(t) ==
    /\ job[t].phase = "idle"
    /\ \E o \in Sends[t] : \E r \in Asked(o) : Within(r) /\ Takes(t, r)
    /\ UNCHANGED <<onHand, closed, req, line, logged, filled>>

\* Seeded fault: a request refused under its locks is never answered.
LockRow_Unanswered(t) ==
    /\ job[t].phase = "locking"
    /\ LET i == Min(Wanted(t)) IN
       /\ rowLock[i] = None
       /\ Wanted(t) # {i} \/ ~Refused(job[t].req)
       /\ rowLock' = [rowLock EXCEPT ![i] = t]
       /\ job' = [job EXCEPT ![t] = IF Wanted(t) # {i} THEN @ ELSE Reading(@.req)]
    /\ UNCHANGED <<onHand, closed, req, line, logged, filled, itemLock>>

\* FOR UPDATE takes the other rows one by one, in the order of the scan.
LockRow(t) ==
    /\ job[t].phase = "locking"
    /\ LET i == Min(Wanted(t)) IN
       /\ rowLock[i] = None
       /\ IF Wanted(t) # {i} \/ ~Refused(job[t].req)
          THEN /\ rowLock' = [rowLock EXCEPT ![i] = t]
               /\ job' = [job EXCEPT ![t] = IF Wanted(t) # {i} THEN @ ELSE Reading(@.req)]
               /\ UNCHANGED itemLock
          ELSE Ends(t)
    /\ UNCHANGED <<onHand, closed, req, line, logged, filled>>

\* Lock waits in a cycle: PostgreSQL picks a victim, which rolls back.
Deadlocked(t) ==
    \E S \in SUBSET Threads :
        /\ t \in S
        /\ \A u \in S : job[u].phase = "locking" /\ rowLock[Min(Wanted(u))] \in S
        /\ \A u \in S : \E v \in S : rowLock[Min(Wanted(v))] = u

Abort(t) ==
    /\ Deadlocked(t)
    /\ Ends(t)
    /\ UNCHANGED <<onHand, closed, req, line, logged, filled>>

-----------------------------------------------------------------------------
(* Commits.                                                                *)

\* How many units a pending write logs on a work order.
Units(w, saw, o) ==
    IF o \notin w.adds THEN 0
    ELSE IF w.fills = {} THEN 1 ELSE Cardinality({i \in w.fills : saw[i].order = o})

\* UNIQUE (work_order_id, item_id): the line was inserted by somebody else
\* since, or twice by this very fulfilment.
LineCollides(j) ==
    \E o \in j.does.adds : /\ j.seen[o] = 0
                           /\ line[o] > 0 \/ Units(j.does, j.saw, o) > 1

\* An UPDATE carries the columns that differ from the row read.
Merged(now, saw, new) ==
    [now EXCEPT !.status = IF new.status = saw.status THEN @ ELSE new.status,
                !.by = IF new.status = saw.status THEN @ ELSE new.by,
                !.auto = IF new.auto = saw.auto THEN @ ELSE new.auto,
                !.loose = @ \/ new.loose]

Commit(t) ==
    LET j == job[t]  w == j.does  ids == DOMAIN w.rows IN
    /\ j.phase = "commit"
    /\ \A i \in ids : rowLock[i] \in {None, t}
    /\ IF LineCollides(j)
       THEN UNCHANGED <<onHand, req, line, logged, filled>>
       ELSE /\ onHand' = onHand + w.hand
            /\ LET news == SetToSeq(w.news)
                   place(i) == Cardinality({k \in Free : k <= i})
               IN  req' = [i \in Ids |->
                     IF i \in ids THEN Merged(req[i], j.saw[i], w.rows[i])
                     ELSE IF i \in Free /\ place(i) <= Len(news) THEN news[place(i)]
                     ELSE req[i]]
            /\ line' = [o \in Orders |-> IF o \in w.adds
                        THEN j.seen[o] + Units(w, j.saw, o) ELSE line[o]]
            /\ logged' = [o \in Orders |-> logged[o] + Units(w, j.saw, o)]
            /\ filled' = [o \in Orders |-> filled[o] +
                            (IF w.fills = {} THEN 0 ELSE Units(w, j.saw, o))]
    /\ Ends(t)
    /\ UNCHANGED closed

\* A work order is archived (WorkOrder lifecycle; no lock on requests).
Archive(o) ==
    /\ o \notin closed
    /\ closed' = closed \cup {o}
    /\ UNCHANGED <<onHand, req, line, logged, filled, itemLock, rowLock, job>>

Step(t) == LockRow(t) \/ Commit(t) \/ Abort(t)

Next ==
    \/ \E t \in Threads : Arrive(t) \/ Step(t)
    \/ \E o \in Orders : Archive(o)

Spec == Init /\ [][Next]_vars

\* The database queues the waiters of a row lock, so none waits for ever
\* while others keep taking it.
Fairness == \A t \in Threads : SF_vars(Step(t))
FairSpec == Spec /\ Fairness

-----------------------------------------------------------------------------
(* Properties.                                                             *)

\* The crew of a work order has one live request per item, as long as it was
\* filed under the item's lock and nobody reopened it.
OneLive ==
    \A o \in Orders : Cardinality({i \in LiveFor(o) : ~req[i].loose}) <= 1

\* A request the shelf itself stocked never outlives the stock.
AutoStockedIsOnShelf ==
    \A i \in Material : req[i].status = "stocked" /\ req[i].by = "auto" => onHand > 0

\* No restock is missed: a request that waits while there is stock was filed
\* with stock there, or filed or reopened without the item's lock.
NoMissedRestock ==
    \A i \in Material : req[i].status = "open" /\ onHand > 0 => req[i].onShelf \/ req[i].loose

\* What fulfilments logged on a work order is one unit for each fulfilled
\* request of it, however fulfilments of the same siblings interleave.
AddedOnce ==
    \A o \in Orders : filled[o] = Cardinality({i \in Catalogue : req[i].order = o
                                                               /\ req[i].auto = "added"})

\* The material added from a stocked request closes it for good, the last
\* unit of the shelf included (a lost race for the line undoes it all).
AddCloses ==
    [][\A t \in Threads : Commit(t) /\ job[t].req.op = "add" /\ job[t].req.id # None
                         /\ logged' # logged
        => req'[job[t].req.id].status = "resolved"]_vars

\* Stated by the repository and not kept by the code (README, Disagreements).
\* A line counts everything logged on the work order ("that lock serialises
\* concurrent dispenses of the same item", work_orders.py:2921).
LineHasEveryAdd == \A o \in Orders : line[o] = logged[o]

\* Every request is answered, lock cycles and refusals included.
RequestsEnd == \A t \in Threads : []<>(job[t].phase = "idle")
=============================================================================

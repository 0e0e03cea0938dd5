---------------------------- MODULE StockLedger ----------------------------
(***************************************************************************)
(* One item's count, its transactions, the materials lines of the work     *)
(* orders it was used on, the recount requests its shortages raise and one *)
(* Mass Stage that loads it onto a truck.  Each request is one step: the   *)
(* row locks of StockRace serialise them.  What can go wrong here is a     *)
(* long sequence of legal requests, not two at the same time.              *)
(***************************************************************************)
EXTENDS StageAllocation

CONSTANTS Slots,        \* the stage's work orders in sort_order, each once
          Planned,      \* what each slot planned, above zero
          None,         \* no work order
          Ops,          \* the operations in use
          Amounts,      \* the quantities a request may carry
          Opening,      \* the count at the start
          MaxRows       \* bound on the transactions written

Orders == Range(Slots)
Modes == {"dispense", "retroactive"}
LedgerOps == {"stock", "dispense", "correct", "void"}
MaterialOps == {"add", "edit", "delete", "open"}
StageOps == {"stage", "load", "return"}
EveryOp == LedgerOps \cup MaterialOps \cup StageOps \cup {"answer"}

\* A recount request in the queue, its row in History or gone from it; answered by
\* the services; or closed by hand.
Pending == {"open", "reopened"}
Answered == {"resolved", "dismissed"}

VARIABLES
    onHand,     \* items.quantity
    rows,       \* transactions, oldest first
    line,       \* work_order_items, by work order
    stage,      \* mass_stages.status
    slots       \* mass_stage_items in sort_order

vars == <<onHand, rows, line, stage, slots>>

NoLine == [qty |-> 0, mode |-> "none"]
Lines == {NoLine} \cup [qty : Nat \ {0}, mode : Modes]
Row == [kind : {"stock", "dispense", "adjust"}, qty : Int, order : Orders \cup {None},
        moved : BOOLEAN, live : BOOLEAN, recount : {"none"} \cup Pending \cup Answered]
Slot == [planned : Nat \ {0}, loaded : Nat, returned : Nat]

TypeOK ==
    /\ onHand \in Int
    /\ rows \in Seq(Row) /\ Len(rows) <= MaxRows
    /\ line \in [Orders -> Lines]
    /\ stage \in {"planning", "loading", "completed"}
    /\ slots \in [DOMAIN Slots -> Slot]

Init ==
    /\ onHand = Opening
    /\ rows = <<>>
    /\ line = [w \in Orders |-> NoLine]
    /\ stage = "planning"
    /\ slots = [i \in DOMAIN Slots |-> [planned |-> Planned[i], loaded |-> 0, returned |-> 0]]

-----------------------------------------------------------------------------
\* What a row did to the count when it was written.
Effect(r) == IF ~r.moved THEN 0 ELSE IF r.kind = "dispense" THEN -r.qty ELSE r.qty

\* What a row did to its work order's line.
Contribution(r) == CASE r.kind = "dispense" -> r.qty [] r.kind = "adjust" -> -r.qty [] OTHER -> 0

\* A row that leaves the count short carries an open recount request.
RecountFor(short) == IF short THEN "open" ELSE "none"
NewRow(k, q, w, m, short) ==
    [kind |-> k, qty |-> q, order |-> w, moved |-> m, live |-> TRUE, recount |-> RecountFor(short)]
Write(new) == Len(rows) + Len(new) <= MaxRows /\ rows' = rows \o new

\* The units a dispense takes that the count says are not there.
Shortage(q) == Larger(q - Larger(onHand, 0), 0)

\* attach_dispense_line: a stock-moving entry makes a retroactive line a
\* dispensed one.
Attached(l, q, m) ==
    [qty |-> l.qty + q,
     mode |-> IF l = NoLine \/ m = "dispense" THEN m ELSE l.mode]

\* A line drops out at zero.
Reduced(l, q) == IF l = NoLine \/ l.qty - q <= 0 THEN NoLine ELSE [l EXCEPT !.qty = @ - q]

\* Seeded fault: the request of a removed row stays in the queue.
Voided_KeepsRequest(r) == [r EXCEPT !.live = FALSE]

\* A row that goes takes its open recount request with it.
Resolved(r) == [r EXCEPT !.recount = IF @ \in Pending THEN "resolved" ELSE @]
Voided(r) == [Resolved(r) EXCEPT !.live = FALSE]

-----------------------------------------------------------------------------
\* The ledger.

\* A restock may name a work order; it makes no line.
Stock(q, w) ==
    /\ "stock" \in Ops
    /\ onHand' = onHand + q
    /\ Write(<<NewRow("stock", q, w, TRUE, FALSE)>>)
    /\ UNCHANGED <<line, stage, slots>>

\* Real usage is recorded even when the count is short.
Dispense(q, w) ==
    /\ "dispense" \in Ops
    /\ onHand' = onHand - q
    /\ Write(<<NewRow("dispense", q, w, TRUE, Shortage(q) > 0)>>)
    /\ line' = IF w = None THEN line ELSE [line EXCEPT ![w] = Attached(@, q, "dispense")]
    /\ UNCHANGED <<stage, slots>>

\* A correction answers every open recount request of the item.
Correct(n) ==
    /\ "correct" \in Ops /\ n # onHand
    /\ onHand' = n
    /\ Len(rows) < MaxRows
    /\ rows' = Append([i \in DOMAIN rows |-> Resolved(rows[i])],
                      NewRow("adjust", n - onHand, None, TRUE, FALSE))
    /\ UNCHANGED <<line, stage, slots>>

\* reverse_delta: undoing a dispense is a stock-in and never refused.
CannotVoid(r) == r.moved /\ r.kind # "dispense" /\ onHand - Effect(r) < 0

Void(i) ==
    LET r == rows[i]  w == r.order IN
    /\ "void" \in Ops /\ r.live /\ ~CannotVoid(r)
    /\ onHand' = onHand - Effect(r)
    /\ rows' = [rows EXCEPT ![i] = Voided(@)]
    /\ line' = IF w = None \/ r.kind = "stock" THEN line
               ELSE [line EXCEPT ![w] = Reduced(@, Contribution(r))]
    /\ UNCHANGED <<stage, slots>>

\* PATCH /user-requests/{id}: a recount request is closed by hand, whatever the
\* count, and opened again, whatever became of its row.
UpdateUserRequest(i, status) ==
    /\ "answer" \in Ops
    /\ rows[i].recount \in IF status = "open" THEN Answered ELSE Pending
    /\ rows' = [rows EXCEPT ![i].recount = CASE status # "open" -> "dismissed"
                                             [] rows[i].live -> "open"
                                             [] OTHER -> "reopened"]
    /\ UNCHANGED <<onHand, line, stage, slots>>

-----------------------------------------------------------------------------
\* The materials of a work order.

\* A PATCH sets the order's entry_mode to either mode at any time, so an entry
\* may find either.  A retroactive one is a dispense row that moves no stock.
Add(w, q, m) ==
    LET moves == m = "dispense" IN
    /\ "add" \in Ops
    /\ onHand' = IF moves THEN onHand - q ELSE onHand
    /\ Write(<<NewRow("dispense", q, w, moves, moves /\ Shortage(q) > 0)>>)
    /\ line' = [line EXCEPT ![w] = Attached(@, q, m)]
    /\ UNCHANGED <<stage, slots>>

\* Editing a line's total writes the difference as an adjustment of its own.
Edit(w, q) ==
    LET delta == line[w].qty - q IN
    /\ "edit" \in Ops /\ line[w] # NoLine /\ delta # 0
    /\ IF line[w].mode = "dispense"
       THEN /\ onHand + delta >= 0
            /\ onHand' = onHand + delta
            /\ Write(<<NewRow("adjust", delta, w, TRUE, FALSE)>>)
       ELSE UNCHANGED <<onHand, rows>>
    /\ line' = [line EXCEPT ![w].qty = q]
    /\ UNCHANGED <<stage, slots>>

\* Seeded fault: only the transaction the line refers to, the latest, is voided.
Contributor_Latest(i, w) ==
    rows[i].live /\ rows[i].order = w /\ \A j \in DOMAIN rows : rows[j].order = w => j <= i

\* The line's total goes back to stock; its rows leave History unreversed.
Contributor(i, w) == rows[i].live /\ rows[i].order = w
Delete(w) ==
    /\ "delete" \in Ops /\ line[w] # NoLine
    /\ onHand' = IF line[w].mode = "dispense" THEN onHand + line[w].qty ELSE onHand
    /\ rows' = [i \in DOMAIN rows |-> IF Contributor(i, w) THEN Voided(rows[i]) ELSE rows[i]]
    /\ line' = [line EXCEPT ![w] = NoLine]
    /\ UNCHANGED <<stage, slots>>

\* Opening the card turns linked dispenses without a line into a line.
Orphans(w) == SelectSeq(rows, LAMBDA r : r.live /\ r.order = w /\ r.kind = "dispense")
OrphanTotal(w) == FoldLeft(LAMBDA n, r : n + r.qty, 0, Orphans(w))
OpenCard(w) ==
    /\ "open" \in Ops /\ line[w] = NoLine /\ Orphans(w) # <<>>
    /\ line' = [line EXCEPT ![w] = [qty |-> OrphanTotal(w), mode |-> "dispense"]]
    /\ UNCHANGED <<onHand, rows, stage, slots>>

-----------------------------------------------------------------------------
\* The Mass Stage: forward only, and loaded only while loading.

Advance ==
    /\ "stage" \in Ops /\ stage # "completed"
    /\ stage' = IF stage = "planning" THEN "loading" ELSE "completed"
    /\ UNCHANGED <<onHand, rows, line, slots>>

SlotOf(w) == CHOOSE i \in DOMAIN Slots : Slots[i] = w

\* One dispense per room that gets a share, all or none.
Load(q) ==
    LET share == AllocateLoad(slots, q)
        filled == SetToSortSeq({i \in DOMAIN Slots : share[i] > 0}, <) IN
    /\ "load" \in Ops /\ stage = "loading"
    /\ onHand - q >= 0
    /\ onHand' = onHand - q
    /\ Write([n \in DOMAIN filled |->
                 NewRow("dispense", share[filled[n]], Slots[filled[n]], TRUE, FALSE)])
    /\ line' = [w \in Orders |-> LET n == share[SlotOf(w)] IN
                                  IF n > 0 THEN Attached(line[w], n, "dispense") ELSE line[w]]
    /\ slots' = [i \in DOMAIN slots |-> [slots[i] EXCEPT !.loaded = @ + share[i]]]
    /\ UNCHANGED stage

\* Unused materials come back without a transaction.
GiveBack(q) ==
    LET share == AllocateReturn(slots, q) IN
    /\ "return" \in Ops /\ stage = "loading"
    /\ q <= Returnable(slots)
    /\ onHand' = onHand + q
    /\ line' = [w \in Orders |-> LET n == share[SlotOf(w)] IN
                                  IF n > 0 THEN Reduced(line[w], n) ELSE line[w]]
    /\ slots' = [i \in DOMAIN slots |-> [slots[i] EXCEPT !.returned = @ + share[i]]]
    /\ UNCHANGED <<rows, stage>>

-----------------------------------------------------------------------------
Next ==
    \/ \E q \in Amounts, w \in Orders \cup {None} : Stock(q, w) \/ Dispense(q, w)
    \/ \E n \in Amounts \cup {0} : Correct(n)
    \/ \E i \in DOMAIN rows : Void(i) \/ \E status \in {"open", "resolved"} : UpdateUserRequest(i, status)
    \/ \E w \in Orders, q \in Amounts : Edit(w, q) \/ \E m \in Modes : Add(w, q, m)
    \/ \E w \in Orders : Delete(w) \/ OpenCard(w)
    \/ Advance
    \/ \E q \in Amounts : Load(q) \/ GiveBack(q)

Spec == Init /\ [][Next]_vars

-----------------------------------------------------------------------------
TotalOver(Keep(_), Value(_)) == Sum([i \in DOMAIN rows |-> IF Keep(rows[i]) THEN Value(rows[i]) ELSE 0])

\* The rows of a work order tell the whole story of its line: nothing logged
\* after the fact, no restock in its name, nothing given back from the truck,
\* and no edited total of which a row has since been removed.
Regular(w) ==
    LET own == {rows[i] : i \in {j \in DOMAIN rows : rows[j].order = w}} IN
    /\ \A r \in own : r.moved /\ r.kind # "stock"
    /\ (\A r \in own : r.live) \/ (\A r \in own : r.kind # "adjust")
    /\ \A i \in DOMAIN Slots : Slots[i] = w => slots[i].returned = 0

\* "A line is the aggregate of its work-order transactions": whichever of the
\* pages dispensed, edited, voided, deleted or loaded.
LineIsAggregate ==
    \A w \in Orders : Regular(w) =>
        line[w].qty = TotalOver(LAMBDA r : r.live /\ r.order = w, Contribution)

\* The count is where it started plus what the rows in History say happened to it.
LedgerBalances ==
    (\A w \in Orders : Regular(w)) =>
        onHand = Opening + TotalOver(LAMBDA r : r.live, Effect)

\* A count below zero is always owed to a dispense still in History whose recount
\* request nothing but a person's hand has closed, as long as no work was logged
\* after the fact: no void, edit or deletion beside it answers it by mistake.
Owed == \E i \in DOMAIN rows : rows[i].live /\ rows[i].recount \in {"open", "dismissed"}
NegativeIsFlagged == (\A i \in DOMAIN rows : rows[i].moved) /\ onHand < 0 => Owed

\* Stated by the repository and not kept by the code (README, Disagreements).
\* "A linked open User Request tells TechFM OA+ that the physical stock needs to
\* be re-counted", whatever was logged.
Flagged == \E i \in DOMAIN rows : rows[i].live /\ rows[i].recount = "open"
ShortCountIsFlagged == onHand < 0 => Flagged

\* Only a dispense that raises a request takes the count below zero.
ShortagesAreRaised ==
    [][onHand' < 0 /\ onHand' < onHand =>
           Len(rows') > Len(rows) /\ rows'[Len(rows')].recount = "open"]_vars

\* A row that leaves History leaves no open request behind, though a person may
\* open it again.
RecountIsLive == \A i \in DOMAIN rows : rows[i].recount = "open" => rows[i].live

\* A room is loaded when those before it are full; only the last takes surplus.
LoadFollowsPlan ==
    \A i, j \in DOMAIN slots : i < j =>
        /\ slots[i].loaded <= slots[i].planned
        /\ slots[j].loaded > 0 => Need(slots[i]) = 0

\* A room gives units back only when those after it have none left on the truck.
UnloadsLastFirst ==
    [][\A i, j \in DOMAIN slots :
           i < j /\ slots'[i].returned > slots[i].returned => NetLoaded(slots'[j]) = 0]_vars
=============================================================================

------------------------------- MODULE TruckPlan -------------------------------
(***************************************************************************)
(* Planning a truck: the stages of the buildings, the work orders slotted  *)
(* into them, what one item has planned, loaded and returned on each slot, *)
(* and the requests that build, move, load and delete them.  No request    *)
(* locks the stage: each reads the status, then writes, and another commits *)
(* in between.  Loads and returns lock the item; adding a work order locks  *)
(* that order while its blank building is filled in.                        *)
(***************************************************************************)
EXTENDS StageAllocation, FiniteSets

CONSTANTS Threads, Sends,      \* requests in flight, and what each of them sends
          StageIds, Buildings, WorkOrders, None,
          MaxSlots, MaxStock, MaxQty, MaxSent   \* bounds

Statuses == {"planning", "loading", "completed"}

VARIABLES
    stage,      \* the stages; None before they are created
    slots,      \* the slots, with the plan row of the item (planned is None without one)
    place,      \* each work order's building; None while it is blank
    stock,      \* the item's count
    holder,     \* the request that holds the item's row
    req,        \* each request: its step and what it read
    made, sent, dropped   \* slots made, requests sent, units on plan rows that were deleted

vars == <<stage, slots, place, stock, holder, req, made, sent, dropped>>

Idle == [pc |-> "idle"]
Live(s) == stage[s] # None /\ stage[s].status # "gone"
Active(s) == Live(s) /\ stage[s].status # "completed"
Taken(b, others) == \E s \in others : Active(s) /\ stage[s].building = b
Planned(slot) == slot.planned # None
RoomsOf(s) == {x \in slots : x.stage = s /\ Planned(x)}
OnTruck(set) == FoldSet(LAMBDA x, sum : sum + x.loaded - x.returned, 0, set)

StageRows == [building : Buildings, status : Statuses, done : BOOLEAN]
SlotRows == [id : 1..made, stage : StageIds, wo : WorkOrders, order : Nat,
             planned : 1..MaxQty \cup {None}, loaded : 0..MaxStock, returned : 0..MaxStock]

TypeOK ==
    /\ \A s \in StageIds : Live(s) => stage[s] \in StageRows
    /\ slots \subseteq SlotRows
    /\ \A x, y \in slots : x.stage = y.stage /\ x.wo = y.wo => x = y
    /\ place \in [WorkOrders -> Buildings \cup {None}]
    /\ stock \in 0..MaxStock /\ made \in 0..MaxSlots /\ sent \in 0..MaxSent

Init ==
    /\ stage = [s \in StageIds |-> None] /\ slots = {}
    /\ place \in [WorkOrders -> {None} \cup Buildings]
    /\ stock = MaxStock /\ holder = None /\ req = [t \in Threads |-> Idle]
    /\ made = 0 /\ sent = 0 /\ dropped = 0

Goto(t, next) == req' = [req EXCEPT ![t] = next]
Send(t, what) ==
    /\ req[t] = Idle /\ what \in Sends[t] /\ sent < MaxSent
    /\ sent' = sent + 1

\* Deleting plan rows forgets what they had on the truck.
Without(set) == slots' = slots \ set /\ dropped' = dropped + OnTruck(set)

-----------------------------------------------------------------------------
\* Stages.

\* The unlocked look for an active stage; a reuse takes a completed one's building.
SendCreate(t) ==
    /\ \E b \in Buildings :
          /\ \/ Send(t, "create")
             \/ /\ Send(t, "reuse")
                /\ \E s \in StageIds : Live(s) /\ ~Active(s) /\ stage[s].building = b
          /\ ~Taken(b, StageIds)
          /\ Goto(t, [pc |-> "create", building |-> b])
    /\ UNCHANGED <<stage, slots, place, stock, holder, made, dropped>>

\* Seeded fault: only the look is left, not the unique index.
Free_Unindexed(b, others) == TRUE

\* The partial unique index on the building of every stage not completed.
Free(b, others) == ~Taken(b, others)

Create(t) ==
    /\ req[t].pc = "create"
    /\ \/ /\ Free(req[t].building, StageIds)
          /\ \E s \in StageIds :
                /\ stage[s] = None
                /\ stage' = [stage EXCEPT ![s] =
                                [building |-> req[t].building, status |-> "planning", done |-> FALSE]]
       \/ ~Free(req[t].building, StageIds) /\ UNCHANGED stage
    /\ Goto(t, Idle)
    /\ UNCHANGED <<slots, place, stock, holder, made, sent, dropped>>

\* validate_transition: one step forward.
Follows(from, to) == <<from, to>> \in {<<"planning", "loading">>, <<"loading", "completed">>}

\* A rename, a transition or both, judged by the row as read.
SendUpdate(t) ==
    /\ Send(t, "update")
    /\ \E s \in StageIds, status \in Statuses \cup {None}, b \in Buildings :
          /\ Live(s)
          /\ status \in {None, stage[s].status} \/ Follows(stage[s].status, status)
          /\ LET moved == status \notin {None, stage[s].status}
                 then == IF moved THEN status ELSE stage[s].status
                 renamed == b # stage[s].building
             IN /\ moved \/ renamed
                /\ renamed /\ then # "completed" => ~Taken(b, StageIds)
                /\ Goto(t, [pc |-> "update", stage |-> s,
                            status |-> IF moved THEN status ELSE None,
                            building |-> IF renamed THEN b ELSE None])
    /\ UNCHANGED <<stage, slots, place, stock, holder, made, dropped>>

\* The UPDATE names the changed columns only; the index may still refuse it,
\* and a row deleted meanwhile fails the request.
Update(t) ==
    /\ req[t].pc = "update"
    /\ LET s == req[t].stage
           status == IF req[t].status = None THEN stage[s].status ELSE req[t].status
           building == IF req[t].building = None THEN stage[s].building ELSE req[t].building
           accepted == Live(s) /\ (status = "completed" \/ Free(building, StageIds \ {s}))
       IN stage' = IF accepted
                   THEN [stage EXCEPT ![s] = [building |-> building, status |-> status,
                                              done |-> @.done \/ req[t].status = "completed"]]
                   ELSE stage
    /\ Goto(t, Idle)
    /\ UNCHANGED <<slots, place, stock, holder, made, sent, dropped>>

\* Whatever its status; slots and plan rows go with it.
DeleteStage(t) ==
    /\ Send(t, "delete")
    /\ \E s \in StageIds :
          /\ Live(s) /\ stage' = [stage EXCEPT ![s].status = "gone"]
          /\ Without({x \in slots : x.stage = s})
    /\ UNCHANGED <<place, stock, holder, req, made>>

-----------------------------------------------------------------------------
\* Slots.

\* The stage is being planned and the order's building, if any, is the stage's.
SendSlot(t) ==
    /\ Send(t, "slot")
    /\ \E s \in StageIds, w \in WorkOrders :
          /\ Live(s) /\ stage[s].status = "planning" /\ place[w] \in {None, stage[s].building}
          /\ Goto(t, [pc |-> "fill", stage |-> s, wo |-> w, building |-> stage[s].building])
    /\ UNCHANGED <<stage, slots, place, stock, holder, made, dropped>>

\* fill_blank, on the row as locked.
Filled(current, incoming) == IF current = None THEN incoming ELSE current

\* resolve_work_order: lock the order, fill in its building, commit.
Fill(t) ==
    /\ req[t].pc = "fill"
    /\ place' = [place EXCEPT ![req[t].wo] = Filled(@, req[t].building)]
    /\ Goto(t, [pc |-> "count", stage |-> req[t].stage, wo |-> req[t].wo])
    /\ UNCHANGED <<stage, slots, stock, holder, made, sent, dropped>>

\* The slot's place is the number of slots there are.
Count(t) ==
    /\ req[t].pc = "count"
    /\ Goto(t, IF Live(req[t].stage)
               THEN [pc |-> "slot", stage |-> req[t].stage, wo |-> req[t].wo,
                     order |-> Cardinality({x \in slots : x.stage = req[t].stage})]
               ELSE Idle)
    /\ UNCHANGED <<stage, slots, place, stock, holder, made, sent, dropped>>

\* The unique key and the foreign key may refuse it.
Slot(t) ==
    /\ req[t].pc = "slot"
    /\ \/ /\ Live(req[t].stage) /\ made < MaxSlots
          /\ \A x \in slots : x.stage = req[t].stage => x.wo # req[t].wo
          /\ made' = made + 1
          /\ slots' = slots \cup {[id |-> made + 1, stage |-> req[t].stage, wo |-> req[t].wo,
                                   order |-> req[t].order, planned |-> None,
                                   loaded |-> 0, returned |-> 0]}
       \/ /\ ~Live(req[t].stage) \/ \E x \in slots : x.stage = req[t].stage /\ x.wo = req[t].wo
          /\ UNCHANGED <<slots, made>>
    /\ Goto(t, Idle)
    /\ UNCHANGED <<stage, place, stock, holder, sent, dropped>>

-----------------------------------------------------------------------------
\* Edits of the plan: read under "planning", written whatever the status is then.

SendEdit(t) ==
    /\ \E x \in slots :
          /\ stage[x.stage].status = "planning"
          /\ \/ Send(t, "plan") /\ \E q \in 1..MaxQty :
                   Goto(t, [pc |-> "plan", id |-> x.id, quantity |-> q, insert |-> ~Planned(x)])
             \/ Send(t, "unplan") /\ Planned(x) /\ Goto(t, [pc |-> "unplan", id |-> x.id])
             \/ Send(t, "unslot") /\ Goto(t, [pc |-> "unslot", id |-> x.id])
    /\ UNCHANGED <<stage, slots, place, stock, holder, made, dropped>>

\* An insert meets a row somebody else inserted, or an update a row somebody
\* deleted: the request fails.
Plan(t) ==
    /\ req[t].pc = "plan"
    /\ slots' = {IF x.id = req[t].id /\ Planned(x) # req[t].insert
                 THEN [x EXCEPT !.planned = req[t].quantity] ELSE x : x \in slots}
    /\ Goto(t, Idle)
    /\ UNCHANGED <<stage, place, stock, holder, made, sent, dropped>>

Unplan(t) ==
    /\ req[t].pc = "unplan"
    /\ slots' = {IF x.id = req[t].id
                 THEN [x EXCEPT !.planned = None, !.loaded = 0, !.returned = 0] ELSE x : x \in slots}
    /\ dropped' = dropped + OnTruck({x \in slots : x.id = req[t].id})
    /\ Goto(t, Idle)
    /\ UNCHANGED <<stage, place, stock, holder, made, sent>>

Unslot(t) ==
    /\ req[t].pc = "unslot" /\ Without({x \in slots : x.id = req[t].id})
    /\ Goto(t, Idle)
    /\ UNCHANGED <<stage, place, stock, holder, made, sent>>

-----------------------------------------------------------------------------
\* The truck.

\* The status is read before the item is locked.
SendMove(t) ==
    /\ \E s \in StageIds, q \in 1..MaxQty, what \in {"load", "return"} :
          /\ Send(t, what) /\ Live(s) /\ stage[s].status = "loading"
          /\ Goto(t, [pc |-> "lock", what |-> what, stage |-> s, quantity |-> q])
    /\ UNCHANGED <<stage, slots, place, stock, holder, made, dropped>>

MayLock(t) == holder = None

\* sort_order may repeat; the rows with one value come in any order.
Sorted(rooms) ==
    {seq \in SetToSeqs(rooms) : \A i, j \in DOMAIN seq : i < j => seq[i].order <= seq[j].order}

Shares(what, rooms, q) ==
    IF what = "load" THEN AllocateLoad(rooms, q) ELSE AllocateReturn(rooms, q)

\* Lock the item, read the rooms that planned it, and share the quantity out.
Lock(t) ==
    /\ req[t].pc = "lock" /\ MayLock(t)
    /\ LET q == req[t].quantity
           back == req[t].what = "return"
       IN \/ \E rooms \in Sorted(RoomsOf(req[t].stage)) :
                /\ rooms # <<>>
                /\ IF back THEN q <= Returnable(rooms) ELSE q <= stock
                /\ LET share == Shares(req[t].what, rooms, q) IN
                      Goto(t, [pc |-> "move", stock |-> IF back THEN stock + q ELSE stock - q,
                               rows |-> {[id |-> rooms[i].id,
                                          loaded |-> rooms[i].loaded + (IF back THEN 0 ELSE share[i]),
                                          returned |-> rooms[i].returned + (IF back THEN share[i] ELSE 0)]
                                            : i \in {k \in DOMAIN rooms : share[k] > 0}}])
                /\ holder' = t
          \/ /\ \A rooms \in Sorted(RoomsOf(req[t].stage)) :
                   rooms = <<>> \/ (IF back THEN q > Returnable(rooms) ELSE q > stock)
             /\ Goto(t, Idle) /\ UNCHANGED holder
    /\ UNCHANGED <<stage, slots, place, stock, made, sent, dropped>>

\* One commit, of the values worked out from the rows as read; a room that was
\* deleted meanwhile takes all of it back.
Move(t) ==
    /\ req[t].pc = "move"
    /\ LET kept == \A r \in req[t].rows : \E x \in slots : x.id = r.id /\ Planned(x)
           Now(x) == CHOOSE r \in req[t].rows : r.id = x.id
       IN /\ stock' = IF kept THEN req[t].stock ELSE stock
          /\ slots' = IF kept
                      THEN {IF \E r \in req[t].rows : r.id = x.id
                            THEN [x EXCEPT !.loaded = Now(x).loaded, !.returned = Now(x).returned]
                            ELSE x : x \in slots}
                      ELSE slots
    /\ holder' = None /\ Goto(t, Idle)
    /\ UNCHANGED <<stage, place, made, sent, dropped>>

Next ==
    \E t \in Threads :
        \/ SendCreate(t) \/ Create(t) \/ SendUpdate(t) \/ Update(t) \/ DeleteStage(t)
        \/ SendSlot(t) \/ Fill(t) \/ Count(t) \/ Slot(t)
        \/ SendEdit(t) \/ Plan(t) \/ Unplan(t) \/ Unslot(t)
        \/ SendMove(t) \/ Lock(t) \/ Move(t)

Spec == Init /\ [][Next]_vars

-----------------------------------------------------------------------------
\* A building has one active stage however creations, reuses, renames and
\* transitions race: each looks first without a lock, and only the index is
\* there when they commit (models.MassStage, update_stage).
OneActiveStage ==
    \A s1, s2 \in StageIds :
        Active(s1) /\ Active(s2) /\ stage[s1].building = stage[s2].building => s1 = s2

\* What left the shelf is on a row of the truck, or was on a row deleted since,
\* and no row gave back more than it took, whatever plan edits and deletions
\* run beside loads and returns (load_item and return_item write values they
\* worked out earlier, under the item's lock).
TruckIsCounted ==
    /\ stock + OnTruck(slots) + dropped = MaxStock
    /\ \A x \in slots : x.returned <= x.loaded

\* A building once on record for a work order stays, also when two stages of
\* different buildings add the order while it is blank (add_work_order_to_stage).
PlaceStands == [][\A w \in WorkOrders : place[w] # None => place'[w] = place[w]]_vars

\* Stated by the repository and not kept by the code (README, Disagreements).
\* What domain/mass_staging.py says of the status: it only moves forward.
ForwardOnly ==
    [][\A s \in StageIds :
          Live(s) /\ Live(s)' /\ stage'[s].status # stage[s].status
             => Follows(stage[s].status, stage'[s].status)]_vars
=============================================================================

------------------------------- MODULE MCShelf -------------------------------
(***************************************************************************)
(* Values for the constants of Storeroom (shelf.cfg).                      *)
(***************************************************************************)
EXTENDS Storeroom, TLC

CONSTANTS t1, t2, w1, w2

\* The crib: every call.
EveryCall == ToolOps \cup UserOps

\* Two work orders that are the two rooms of one stage, one unit planned each.
EveryMovement == {"stock", "dispense", "correct", "void", "add", "edit", "delete", "open",
                  "stage", "load", "return"}
Recounting == {"dispense", "correct", "void", "add", "edit", "delete", "open", "answer"}
TwoRooms == <<w1, w2>>
OneEach == <<1, 1>>

\* The shelf moving under the queue, then its fulfilment.
Shelf == t1 :> {"file", "add", "stock", "mark", "cancel"}
      @@ t2 :> {"stock", "add", "cancel", "reopen", "close"}
Fulfilment == t1 :> {"ask", "fulfil", "file"} @@ t2 :> {"fulfil", "stock", "reopen"}
Short == -1   \* the least count

\* Two clerks who code the same items.
Coding == t1 :> {"create"} @@ t2 :> {"relabel", "edit"}

\* Two planners of stages that share a work order and an item.
Planners == t1 :> {"create", "update", "slot", "load", "return", "plan"}
         @@ t2 :> {"create", "update", "reuse", "delete", "slot", "plan", "unplan", "unslot",
                   "load"}
=============================================================================

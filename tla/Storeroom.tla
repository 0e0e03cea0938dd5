------------------------------ MODULE Storeroom ------------------------------
(***************************************************************************)
(* The shelf and what is asked of it, one component at a time: the crib of *)
(* tools (the extended module), the ledger of stock movements, the queue   *)
(* of requests, the catalogue's codes, the weekly dispense sheets and the  *)
(* planning of truck stages.  Clerks send the requests of all but the      *)
(* crib; None is the same for all; the other constants of a component      *)
(* carry its letter, as its variables do.                                  *)
(***************************************************************************)
EXTENDS ToolCustody, Sequences

CONSTANTS Components,   \* the components a run goes through
          Clerks

VARIABLE on   \* the component that runs

-----------------------------------------------------------------------------
\* A ledger with two sets of operations: every movement, then the recount
\* requests that movements raise and people answer.
CONSTANTS hRooms, hPlanned, hMoves, hRecounts, hAmounts, hOpening, hMaxRows
VARIABLES hOnHand, hRows, hLine, hStage, hSlots
Ledger == INSTANCE StockLedger WITH
    onHand <- hOnHand, rows <- hRows, line <- hLine, stage <- hStage,
    slots <- hSlots, Slots <- hRooms, Planned <- hPlanned,
    Ops <- hMoves, Amounts <- hAmounts, Opening <- hOpening, MaxRows <- hMaxRows
Recounts == INSTANCE StockLedger WITH
    onHand <- hOnHand, rows <- hRows, line <- hLine, stage <- hStage,
    slots <- hSlots, Slots <- hRooms, Planned <- hPlanned,
    Ops <- hRecounts, Amounts <- hAmounts, Opening <- hOpening, MaxRows <- hMaxRows
StockLedgerVars == <<hOnHand, hRows, hLine, hStage, hSlots>>

-----------------------------------------------------------------------------
\* A queue with two sets of operations: the shelf moving under it, then its
\* fulfilment.
CONSTANTS qOrders, qMinHand, qMaxHand, qMaxRows, qShelf, qShelfFiled, qShelfLine,
          qFulfil, qFulfilFiled, qFulfilLine
VARIABLES qOnHand, qClosed, qReq, qLine, qLogged, qFilled, qItemLock,
          qRowLock, qJob
OnShelf == INSTANCE Requests WITH
    onHand <- qOnHand, closed <- qClosed, req <- qReq, line <- qLine,
    logged <- qLogged, filled <- qFilled, itemLock <- qItemLock,
    rowLock <- qRowLock, job <- qJob, Threads <- Clerks, Orders <- qOrders,
    Sends <- qShelf, MinHand <- qMinHand, MaxHand <- qMaxHand, MaxRows <- qMaxRows,
    MaxFiled <- qShelfFiled, MaxLine <- qShelfLine
Fulfilled == INSTANCE Requests WITH
    onHand <- qOnHand, closed <- qClosed, req <- qReq, line <- qLine,
    logged <- qLogged, filled <- qFilled, itemLock <- qItemLock,
    rowLock <- qRowLock, job <- qJob, Threads <- Clerks, Orders <- qOrders,
    Sends <- qFulfil, MinHand <- qMinHand, MaxHand <- qMaxHand, MaxRows <- qMaxRows,
    MaxFiled <- qFulfilFiled, MaxLine <- qFulfilLine
RequestsVars == <<qOnHand, qClosed, qReq, qLine, qLogged, qFilled, qItemLock,
                  qRowLock, qJob>>

\* Ids count from one, None is no id, clerk or row; each clerk carries requests
\* Asked describes.
QueueConstantsOK ==
    /\ qMaxRows \in Nat /\ None \notin Nat /\ None \notin Clerks /\ None # "added"
    /\ \A r \in Fulfilled!RequestRows : r # None
    /\ \A t \in Clerks : qShelf[t] \cup qFulfil[t] \subseteq
          {"file", "ask", "add", "stock", "mark", "cancel", "reopen", "close", "fulfil"}
ASSUME QueueAssumption == QueueConstantsOK

-----------------------------------------------------------------------------
CONSTANTS iCodes, iSends, iMaxItems
VARIABLES iItem, iJob, iRaced, iStolen, iRefused
Catalogue == INSTANCE ItemCodes WITH
    item <- iItem, job <- iJob, raced <- iRaced, stolen <- iStolen,
    refused <- iRefused, Threads <- Clerks, Codes <- iCodes, Sends <- iSends,
    MaxItems <- iMaxItems
ItemCodesVars == <<iItem, iJob, iRaced, iStolen, iRefused>>

\* The bound on items is a number, None neither one, nor a code, nor a row; each
\* clerk carries the requests Asked describes.
CatalogueConstantsOK ==
    /\ iMaxItems \in Nat /\ None \notin Nat /\ None \notin iCodes
    /\ \A r \in Catalogue!ItemRows : r # None
    /\ \A t \in Clerks : iSends[t] \subseteq {"create", "edit", "relabel"}
ASSUME CatalogueAssumption == CatalogueConstantsOK

-----------------------------------------------------------------------------
CONSTANTS xDispenses, xMaxNow, xMaxSheets
VARIABLES xNow, xCreated, xCommitted, xVoided, xSheets, xJob
Export == INSTANCE WeeklyExport WITH
    now <- xNow, created <- xCreated, committed <- xCommitted,
    voided <- xVoided, sheets <- xSheets, job <- xJob, Threads <- Clerks,
    Dispenses <- xDispenses, MaxNow <- xMaxNow, MaxSheets <- xMaxSheets
WeeklyExportVars == <<xNow, xCreated, xCommitted, xVoided, xSheets, xJob>>

\* The clock's bound is a number, and None neither an instant nor a sheet's rows.
ExportConstantsOK == xMaxNow \in Nat /\ None \notin Nat /\ \A S \in SUBSET xDispenses : S # None
ASSUME ExportAssumption == ExportConstantsOK

-----------------------------------------------------------------------------
CONSTANTS pSends, pStageIds, pBuildings, pOrders, pMaxSlots, pMaxStock, pMaxQty, pMaxSent
VARIABLES pStage, pSlots, pPlace, pStock, pHolder, pReq, pMade, pSent,
          pDropped
Truck == INSTANCE TruckPlan WITH
    stage <- pStage, slots <- pSlots, place <- pPlace, stock <- pStock,
    holder <- pHolder, req <- pReq, made <- pMade, sent <- pSent,
    dropped <- pDropped, Threads <- Clerks, Sends <- pSends,
    StageIds <- pStageIds, Buildings <- pBuildings, WorkOrders <- pOrders,
    MaxSlots <- pMaxSlots, MaxStock <- pMaxStock, MaxQty <- pMaxQty, MaxSent <- pMaxSent
TruckPlanVars == <<pStage, pSlots, pPlace, pStock, pHolder, pReq, pMade,
                   pSent, pDropped>>

-----------------------------------------------------------------------------
\* Only the component chosen at the start takes steps.
StoreroomInit ==
    /\ on \in Components
    /\ Init
    /\ on # "crib" => out = [k \in Tools |-> [u \in Users |-> 0]]
    /\ Ledger!Init
    /\ OnShelf!Init
    /\ Catalogue!Init
    /\ Export!Init
    /\ Truck!Init
    /\ on # "truck" => pPlace = [w \in pOrders |-> None]

StoreroomNext ==
    /\ UNCHANGED on
    /\ \/ /\ on = "crib" /\ Next
          /\ UNCHANGED <<StockLedgerVars, RequestsVars, ItemCodesVars,
                         WeeklyExportVars, TruckPlanVars>>
       \/ /\ on = "ledger" /\ Ledger!Next
          /\ UNCHANGED <<vars, RequestsVars, ItemCodesVars, WeeklyExportVars, TruckPlanVars>>
       \/ /\ on = "recounts" /\ Recounts!Next
          /\ UNCHANGED <<vars, RequestsVars, ItemCodesVars, WeeklyExportVars, TruckPlanVars>>
       \/ /\ on = "shelf" /\ OnShelf!Next
          /\ UNCHANGED <<vars, StockLedgerVars, ItemCodesVars, WeeklyExportVars, TruckPlanVars>>
       \/ /\ on = "fulfilment" /\ Fulfilled!Next
          /\ UNCHANGED <<vars, StockLedgerVars, ItemCodesVars, WeeklyExportVars, TruckPlanVars>>
       \/ /\ on = "codes" /\ Catalogue!Next
          /\ UNCHANGED <<vars, StockLedgerVars, RequestsVars, WeeklyExportVars, TruckPlanVars>>
       \/ /\ on = "export" /\ Export!Next
          /\ UNCHANGED <<vars, StockLedgerVars, RequestsVars, ItemCodesVars,
                         TruckPlanVars>>
       \/ /\ on = "truck" /\ Truck!Next
          /\ UNCHANGED <<vars, StockLedgerVars, RequestsVars, ItemCodesVars,
                         WeeklyExportVars>>

StoreroomVars == <<on, vars, StockLedgerVars, RequestsVars, ItemCodesVars,
                   WeeklyExportVars, TruckPlanVars>>
StoreroomSpec == StoreroomInit /\ [][StoreroomNext]_StoreroomVars

-----------------------------------------------------------------------------
\* Of a crew and an item there is one live request, one the shelf stocked is on
\* it, no restock is missed, and a fulfilment logs each request once, however
\* requests, movements and fulfilments interleave (material_requests.py).
QueueFollowsShelf ==
    on \in {"shelf", "fulfilment"} =>
        /\ Fulfilled!TypeOK /\ Fulfilled!OneLive /\ Fulfilled!AutoStockedIsOnShelf
        /\ Fulfilled!NoMissedRestock /\ Fulfilled!AddedOnce

\* A scan finds one live item, and a deleted item's code is reused without
\* taking one from a live item (items.py, barcodes.py).
CodesHold ==
    on = "codes" => Catalogue!TypeOK /\ Catalogue!ScanFindsOne /\ Catalogue!LiveKeepsCodes

\* A dispense committed before the window over it closed is on a weekly sheet,
\* whatever exports overlap (dispense_export.py).
NothingSkipped == on = "export" => Export!TypeOK /\ Export!NothingSkipped

\* The count and every regular line are what History says, whichever pages
\* dispensed, edited, voided, deleted or loaded (transactions.py, work_orders.py).
LedgerHolds ==
    on \in {"ledger", "recounts"} =>
        Ledger!TypeOK /\ Ledger!LineIsAggregate /\ Ledger!LedgerBalances

\* A negative count has a dispense still in History whose recount request only a
\* person closed, a row that leaves History leaves no open request, and only a
\* dispense that raises one takes the count below zero (user_requests.py,
\* transactions.py).
FlagsHold ==
    /\ [](on \in {"ledger", "recounts"} => Ledger!NegativeIsFlagged /\ Ledger!RecountIsLive)
    /\ Ledger!ShortagesAreRaised

\* One stage is active per building, what is on the truck left the shelf, and
\* rooms are loaded first to last as planned and unloaded last to first
\* (mass_staging.py, domain/mass_staging.py).
TruckHolds ==
    /\ [](on = "truck" => Truck!TypeOK /\ Truck!OneActiveStage /\ Truck!TruckIsCounted)
    /\ []Ledger!LoadFollowsPlan /\ Ledger!UnloadsLastFirst

\* Material added from a stocked request closes it for good, and a work order's
\* building, once known, is not replaced by a plan (material_requests.py,
\* mass_staging.py).
WritesStand == Fulfilled!AddCloses /\ Truck!PlaceStands
=============================================================================

------------------------------ MODULE OrderDesk ------------------------------
(***************************************************************************)
(* Work orders around the clocks, one component at a time: the clocks (the *)
(* extended module), the events and pushes of every route, the CSV import  *)
(* beside edits, the enrichment of the live orders, the sign-in that feeds *)
(* it, and the service-material review: corrections of lines (by one       *)
(* editor, then by two), uploads, the weekly chart and the naming of       *)
(* crews.  Clerks send the requests of all but the clocks; None is the     *)
(* same for all; the other constants of a component carry its letter, as   *)
(* its variables do.                                                       *)
(***************************************************************************)
EXTENDS LaborClock, Sequences

CONSTANTS Components,   \* the components a run goes through
          Clerks

VARIABLE on   \* the component that runs

-----------------------------------------------------------------------------
\* A clock that moves between orders; every route of one order; a punch-out.
CONSTANTS eBoth, eOne, eWorkers, eSupervisors, eMoving, eOneOrder, eLeaving
VARIABLES eOrder, eRunning, ePend, eUnheard
Moves == INSTANCE WorkOrderEvents WITH
    order <- eOrder, running <- eRunning, pend <- ePend, unheard <- eUnheard,
    Orders <- eBoth, Sends <- eMoving, Workers <- eWorkers,
    Supervisors <- eSupervisors, Threads <- Clerks
Taps == INSTANCE WorkOrderEvents WITH
    order <- eOrder, running <- eRunning, pend <- ePend, unheard <- eUnheard,
    Orders <- eOne, Sends <- eOneOrder, Workers <- eWorkers,
    Supervisors <- eSupervisors, Threads <- Clerks
Leaves == INSTANCE WorkOrderEvents WITH
    order <- eOrder, running <- eRunning, pend <- ePend, unheard <- eUnheard,
    Orders <- eOne, Sends <- eLeaving, Workers <- eWorkers,
    Supervisors <- eSupervisors, Threads <- Clerks
WorkOrderEventsVars == <<eOrder, eRunning, ePend, eUnheard>>

\* Only the third goes through the end of a shift, which announces no order.
ASSUME EventsAssumption == \A t \in Clerks : "punchOut" \notin eMoving[t] \cup eOneOrder[t]

-----------------------------------------------------------------------------
CONSTANTS iRows, iNumbers, iTasks, iPlaces, iSupervisors, iWorkers, iNameOf, iFiles, iOps
VARIABLES iRow, iActive, iJob
Csv == INSTANCE WorkOrderImport WITH
    row <- iRow, active <- iActive, job <- iJob, Rows <- iRows,
    Numbers <- iNumbers, Tasks <- iTasks, Places <- iPlaces,
    Supervisors <- iSupervisors, Workers <- iWorkers, Threads <- Clerks,
    NameOf <- iNameOf, Files <- iFiles, Ops <- iOps
WorkOrderImportVars == <<iRow, iActive, iJob>>

VendorNames == {iNameOf[s] : s \in iSupervisors}
CsvRows == [number : iNumbers \cup {None}, task : iTasks \cup {None},
            place : iPlaces \cup {None}, vendor : VendorNames \cup {None}]

\* A file has rows, and a name that nobody bears is left out of it; None is no number.
ImportConstantsOK ==
    None \notin iNumbers /\ \A t \in Clerks : iFiles[t] \in Seq(CsvRows) \ {<<>>}
ASSUME ImportAssumption == ImportConstantsOK

-----------------------------------------------------------------------------
CONSTANTS bRows, bNumbers, bBadNumbers, bUrgent, bMaxEdits, bMaxLosses
VARIABLES bWo, bEdits, bHome, bLosses, bPrimed, bBatch, bSum
Enrich == INSTANCE Enrichment WITH
    wo <- bWo, edits <- bEdits, home <- bHome, losses <- bLosses,
    primed <- bPrimed, batch <- bBatch, sum <- bSum, Rows <- bRows,
    Numbers <- bNumbers, BadNumbers <- bBadNumbers, Urgent <- bUrgent,
    MaxEdits <- bMaxEdits, MaxLosses <- bMaxLosses
EnrichmentVars == <<bWo, bEdits, bHome, bLosses, bPrimed, bBatch, bSum>>

\* Finitely many orders; None is no number.
EnrichConstantsOK ==
    IsFiniteSet(bRows) /\ bMaxEdits \in Nat /\ bMaxLosses \in Nat /\ None \notin bNumbers
ASSUME EnrichAssumption == EnrichConstantsOK

\* Numbers for the orders while no batch runs.
Numbering == CHOOSE f \in [bRows -> bNumbers] : \A r, s \in bRows : r # s => f[r] # f[s]

-----------------------------------------------------------------------------
CONSTANTS nMaxAttempts, nExports
VARIABLES nCer, nPolling, nLate, nReleases, nFiles, nChain, nImported,
          nSaved, nJob
Capture == INSTANCE CloudCapture WITH
    cer <- nCer, polling <- nPolling, late <- nLate, releases <- nReleases,
    files <- nFiles, chain <- nChain, imported <- nImported, saved <- nSaved,
    job <- nJob, MaxAttempts <- nMaxAttempts, Exports <- nExports
CloudCaptureVars == <<nCer, nPolling, nLate, nReleases, nFiles, nChain,
                      nImported, nSaved, nJob>>

\* The bounds are numbers.
CaptureConstantsOK ==
    nMaxAttempts \in Nat /\ nExports \in [Capture!Attempts -> 0..Capture!MaxFiles]
ASSUME CaptureAssumption == CaptureConstantsOK

-----------------------------------------------------------------------------
CONSTANTS cAlone, cTogether, cAloneWrites, cTogetherWrites, cRows, cWorkers, cVendors,
          cVendorOf, cDays, cWeeks, cWeekOf
VARIABLES cLines, cGone, cDay, cBlock, cEd, cWrites
Alone == INSTANCE SmrCorrections WITH
    lines <- cLines, gone <- cGone, day <- cDay, block <- cBlock, ed <- cEd,
    writes <- cWrites, Asks <- cAlone, MaxWrites <- cAloneWrites,
    Editors <- Clerks, Lines <- cRows, Workers <- cWorkers, Vendors <- cVendors,
    VendorOf <- cVendorOf, Days <- cDays, Weeks <- cWeeks, WeekOf <- cWeekOf
Together == INSTANCE SmrCorrections WITH
    lines <- cLines, gone <- cGone, day <- cDay, block <- cBlock, ed <- cEd,
    writes <- cWrites, Asks <- cTogether, MaxWrites <- cTogetherWrites,
    Editors <- Clerks, Lines <- cRows, Workers <- cWorkers, Vendors <- cVendors,
    VendorOf <- cVendorOf, Days <- cDays, Weeks <- cWeeks, WeekOf <- cWeekOf
SmrCorrectionsVars == <<cLines, cGone, cDay, cBlock, cEd, cWrites>>

\* A day falls in a week, the first week is one; None is no day, week, worker, ground
\* or row; and whoever edits alone does.
CorrectionsConstantsOK ==
    /\ cWeekOf \in [cDays -> cWeeks] /\ 1 \in cWeeks
    /\ cAloneWrites \in Nat /\ cTogetherWrites \in Nat
    /\ None \notin cDays /\ None \notin cWeeks /\ None \notin cWorkers
    /\ None \notin Alone!Grounds /\ None \notin Alone!LineRows
    /\ \E e \in Clerks : \A t \in Clerks \ {e} : cAlone[t] = {}
ASSUME CorrectionsAssumption == CorrectionsConstantsOK

-----------------------------------------------------------------------------
CONSTANTS sSends, sNumbers, sSheet, sReviewed, sBreakdown, sMaxEdits, sMaxUploads, sMaxCrashes
VARIABLES sOrder, sPaper, sInvoices, sUp, sEdits, sUploads, sCrashes
Sheets == INSTANCE SmrSheets WITH
    order <- sOrder, paper <- sPaper, invoices <- sInvoices, up <- sUp,
    edits <- sEdits, uploads <- sUploads, crashes <- sCrashes,
    Owners <- Clerks, Uploads <- sSends, Numbers <- sNumbers,
    Sheet <- sSheet, Paper <- sReviewed, Breakdown <- sBreakdown,
    MaxEdits <- sMaxEdits, MaxUploads <- sMaxUploads, MaxCrashes <- sMaxCrashes
SmrSheetsVars == <<sOrder, sPaper, sInvoices, sUp, sEdits, sUploads, sCrashes>>

SheetRows == [number : sNumbers \cup {None}, closed : BOOLEAN]

\* The bounds are numbers, the files name numbers; None is no row and no count.
SheetsConstantsOK ==
    /\ sMaxEdits \in Nat /\ sMaxUploads \in Nat /\ sMaxCrashes \in Nat
    /\ sSheet \in Seq(SheetRows) /\ sReviewed \subseteq sNumbers
    /\ None \notin 0..sMaxEdits /\ None \notin {"imported", "edited"}
    /\ None \notin Sheets!OrderRows
ASSUME SheetsAssumption == SheetsConstantsOK

-----------------------------------------------------------------------------
CONSTANTS wLastWeek, wMaxHours
VARIABLES wLines, wTarget, wInvoiced, wCells, wWeek, wCarry
Weekly == INSTANCE SmrWeekly WITH
    lines <- wLines, target <- wTarget, invoiced <- wInvoiced,
    cells <- wCells, week <- wWeek, carry <- wCarry, LastWeek <- wLastWeek,
    MaxHours <- wMaxHours
SmrWeeklyVars == <<wLines, wTarget, wInvoiced, wCells, wWeek, wCarry>>

-----------------------------------------------------------------------------
CONSTANTS mCrews, mHeads, mEach, mNames, mWorkerOf, mMaxRuns, mMaxHours
VARIABLES mCrew, mNamed, mLog, mInvoiced, mRun
NamesOf == INSTANCE SmrNames WITH
    crew <- mCrew, named <- mNamed, log <- mLog, invoiced <- mInvoiced,
    run <- mRun, Crews <- mCrews, Heads <- mHeads, Each <- mEach,
    Names <- mNames, WorkerOf <- mWorkerOf, MaxRuns <- mMaxRuns, MaxHours <- mMaxHours,
    AnyRun <- FALSE
SmrNamesVars == <<mCrew, mNamed, mLog, mInvoiced, mRun>>

-----------------------------------------------------------------------------
\* Only the component chosen at the start takes steps; the others start one way.
OrderDeskInit ==
    /\ on \in Components
    /\ IF on = "moving" THEN Moves!Init ELSE Taps!Init
    /\ on \notin {"moving", "oneOrder", "leaving"} => \A w \in eOne : eOrder[w].sup = None
    /\ Init
    /\ on # "clocks" => crew = [w \in Orders |-> {}]
    /\ Csv!Init
    /\ Enrich!Init
    /\ on # "enrichment" =>
          \A r \in bRows : /\ bWo[r].number = Numbering[r]
                           /\ bWo[r].description = Enrich!Typed /\ bWo[r].priority = Enrich!Typed
    /\ Capture!Init
    /\ Alone!Init
    /\ on \notin {"alone", "together"} => cLines[CHOOSE l \in cRows : TRUE] # None
    /\ Sheets!Init
    /\ on # "sheets" => sOrder = [n \in sNumbers |-> None]
    /\ Weekly!Init
    /\ on # "weekly" =>
          /\ wLines = [w \in 1..wLastWeek \cup {None} |-> 0] /\ wTarget = 0
          /\ wInvoiced = [w \in 1..wLastWeek |-> 0]
    /\ NamesOf!Init
    /\ on # "names" => mInvoiced = [n \in mNames |-> 0]

OrderDeskNext ==
    /\ UNCHANGED on
    /\ \/ /\ on = "moving" /\ Moves!Next
          /\ UNCHANGED <<vars, WorkOrderImportVars, EnrichmentVars, CloudCaptureVars,
                         SmrCorrectionsVars, SmrSheetsVars, SmrWeeklyVars,
                         SmrNamesVars>>
       \/ /\ on = "oneOrder" /\ Taps!Next
          /\ UNCHANGED <<vars, WorkOrderImportVars, EnrichmentVars, CloudCaptureVars,
                         SmrCorrectionsVars, SmrSheetsVars, SmrWeeklyVars,
                         SmrNamesVars>>
       \/ /\ on = "leaving" /\ Leaves!Next
          /\ UNCHANGED <<vars, WorkOrderImportVars, EnrichmentVars, CloudCaptureVars,
                         SmrCorrectionsVars, SmrSheetsVars, SmrWeeklyVars,
                         SmrNamesVars>>
       \/ /\ on = "clocks" /\ Next
          /\ UNCHANGED <<WorkOrderEventsVars, WorkOrderImportVars, EnrichmentVars,
                         CloudCaptureVars, SmrCorrectionsVars, SmrSheetsVars,
                         SmrWeeklyVars, SmrNamesVars>>
       \/ /\ on = "import" /\ Csv!Next
          /\ UNCHANGED <<WorkOrderEventsVars, vars, EnrichmentVars, CloudCaptureVars,
                         SmrCorrectionsVars, SmrSheetsVars, SmrWeeklyVars,
                         SmrNamesVars>>
       \/ /\ on = "enrichment" /\ Enrich!Next
          /\ UNCHANGED <<WorkOrderEventsVars, vars, WorkOrderImportVars,
                         CloudCaptureVars, SmrCorrectionsVars, SmrSheetsVars,
                         SmrWeeklyVars, SmrNamesVars>>
       \/ /\ on = "capture" /\ Capture!Next
          /\ UNCHANGED <<WorkOrderEventsVars, vars, WorkOrderImportVars,
                         EnrichmentVars, SmrCorrectionsVars, SmrSheetsVars,
                         SmrWeeklyVars, SmrNamesVars>>
       \/ /\ on = "alone" /\ Alone!Next
          /\ UNCHANGED <<WorkOrderEventsVars, vars, WorkOrderImportVars,
                         EnrichmentVars, CloudCaptureVars, SmrSheetsVars,
                         SmrWeeklyVars, SmrNamesVars>>
       \/ /\ on = "together" /\ Together!Next
          /\ UNCHANGED <<WorkOrderEventsVars, vars, WorkOrderImportVars,
                         EnrichmentVars, CloudCaptureVars, SmrSheetsVars,
                         SmrWeeklyVars, SmrNamesVars>>
       \/ /\ on = "sheets" /\ Sheets!Next
          /\ UNCHANGED <<WorkOrderEventsVars, vars, WorkOrderImportVars,
                         EnrichmentVars, CloudCaptureVars, SmrCorrectionsVars,
                         SmrWeeklyVars, SmrNamesVars>>
       \/ /\ on = "weekly" /\ Weekly!Next
          /\ UNCHANGED <<WorkOrderEventsVars, vars, WorkOrderImportVars,
                         EnrichmentVars, CloudCaptureVars, SmrCorrectionsVars,
                         SmrSheetsVars, SmrNamesVars>>
       \/ /\ on = "names" /\ NamesOf!Next
          /\ UNCHANGED <<WorkOrderEventsVars, vars, WorkOrderImportVars,
                         EnrichmentVars, CloudCaptureVars, SmrCorrectionsVars,
                         SmrSheetsVars, SmrWeeklyVars>>

OrderDeskVars == <<on, vars, WorkOrderEventsVars, WorkOrderImportVars,
                   EnrichmentVars, CloudCaptureVars, SmrCorrectionsVars,
                   SmrSheetsVars, SmrWeeklyVars, SmrNamesVars>>
OrderDeskSpec == OrderDeskInit /\ [][OrderDeskNext]_OrderDeskVars

-----------------------------------------------------------------------------
\* Every change of a card, of the Review queue and of the crew board is heard by
\* the clients that show it, punch-outs apart, and a repeated tap buzzes nobody
\* (routers/work_orders.py, domain/realtime.py).
MovesAreHeard ==
    /\ on = "moving" => Moves!TypeOK /\ Moves!MovesAreHeard /\ Moves!RepeatIsSilent
    /\ on = "oneOrder" => Taps!TypeOK /\ Taps!MovesAreHeard /\ Taps!RepeatIsSilent
    /\ on = "leaving" => Leaves!TypeOK /\ Leaves!RepeatIsSilent

\* Each number has one live order (models.WorkOrder, work_orders.py).
OneNumber == on = "import" => Csv!TypeOK /\ Csv!OneNumber

\* No import and no batch overwrites what people typed, touches an archived order
\* or gives a number to two orders (work_orders.py, netfacilities_jobs.py).
EditsSurvive ==
    /\ []OneNumber
    /\ Csv!EditsSurviveImport /\ Csv!ArchivedUntouched /\ Csv!RoutingStands
    /\ Enrich!EditsSurviveBatch /\ Enrich!RightOrder

\* A file is imported at most once and a player outlives its browser only by a
\* cancel whose close raised; a batch's counts add up to its candidates and it
\* read every priority there was (netfacilities_cloud_auth.py, netfacilities.py).
CaptureHolds ==
    /\ on = "capture" => Capture!TypeOK /\ Capture!ImportedOnce /\ Capture!StalePlayerWasCut
    /\ on = "enrichment" => Enrich!TypeOK /\ Enrich!CountsAddUp /\ Enrich!PrioritiesAreRead

\* The block marked current prints the lines as they are, whoever edits them
\* while it is generated; with one editor at a time a line's status, ground, date
\* and week agree and a removed line is not charged; an SMR order has its frozen
\* baseline and a paper's lines are imported together, whatever uploads and
\* restarts did (work_orders_smr.py, _smr_lines.py, _smr_import.py).
SmrHolds ==
    /\ on = "alone" =>
          Alone!TypeOK /\ Alone!BlockIsCurrent /\ Alone!LinesAreSound /\ Alone!RemovedIsNotBilled
    /\ on = "together" => Together!TypeOK /\ Together!BlockIsCurrent
    /\ on = "sheets" => Sheets!TypeOK /\ Sheets!SmrIsFrozen /\ Sheets!PaperIsWhole

\* Rolling hours from week to week neither loses nor invents any, no bar but the
\* last explains more than its week was invoiced, and naming crews and undoing
\* the newest run keeps the charged hours (work_orders_smr_weekly.py).
HoursAreKept ==
    /\ on = "weekly" => Weekly!TypeOK /\ Weekly!HoursAreConserved /\ Weekly!BarsFitInvoices
    /\ on = "names" => NamesOf!TypeOK /\ NamesOf!HoursAreKept

\* A corrected line is not overwritten by another upload of its paper, and a run
\* names a worker beyond his invoiced hours only if they spell him in several
\* ways (work_orders_smr_import.py, work_orders_smr_weekly.py).
WrittenOnce == Sheets!CorrectionsStand /\ NamesOf!RunFitsInvoice
=============================================================================

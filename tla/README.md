# Verification of the inventory and work-order application

TLA+ modules of the FastAPI / PostgreSQL application under `src/backend/app`, the
TLC runs that check them on small instances and the theorems TLAPS proves about
them. `PROJECT.json` maps every definition to the lines it models and lists, under
`hazards`, what is hardest to test in this code with the properties that would catch
it going wrong.

## 1. The system

The server is one Python process. HTTP handlers are synchronous and run in a thread
pool; each opens one SQLAlchemy session and, as a rule, commits once at its end.
PostgreSQL runs at READ COMMITTED. What serialises requests is only

- `SELECT ... FOR UPDATE` on the rows a service chooses to lock, in the order it
  happens to reach them (the database aborts one of a circle of waiters);
- a handful of partial unique indexes (live barcode, open punch per user, running
  labor session per user, active mass stage, work-order number).

The ORM session keeps the copy of a row it loaded first and runs with autoflush off
(`database.py`). A later locking query waits for the row but does **not** refresh
that copy unless it says `populate_existing`. Whether a service first loads a row
*by* locking it is therefore the difference between a serialised and a lost update,
and a large part of this project is about it.

Beside the thread pool there is one event loop: the realtime hub (WebSockets) and
the NetFacilities jobs (a remote browser session and an import chain) live there.

### Components

| component | state | operations | what is hard | modules |
|---|---|---|---|---|
| Stock movements (`transactions.py`, `work_orders.py`) | `items.quantity`, `transactions`, one materials line per (order, item) | stock, dispense, correct, void; add / edit / delete a line | absolute writes from a session copy; void and deletion lock in opposite orders | `StockRace` |
| Stock ledger, lines and truck (`transactions.py`, `work_orders.py`, `mass_staging.py`) | the same, recount requests, slot quantities | the same plus the card's repair, load, return, stage transitions, a recount request answered by hand | long legal sequences; counts below zero by design | `StockLedger`, `StageAllocation` |
| Tool custody (`tools.py`, `users.py`) | shelf count, append-only `tool_transactions` | checkout, return, correct, archive tool or user, restore | custody is a sum, read before locks; a reference locks too | `ToolCustody`, `ToolLedger` |
| Work-order lifecycle and labor clocks (`work_orders.py`) | status, crew, `completed_at`, sessions, labor rows | start, stop, scan, complete, hold, resume, PATCH, archive, restore, sweep, punch-out | reads before locks, two orders locked in turn, twelve-hour cap | `LaborClock` |
| Attendance (`attendance*.py`) | punches, their source and review flag | punch in / out, sweep, add, edit, delete, bulk review | the unique-index race, unlocked rows, midnight | `Attendance`, `Timesheet` |
| Material requests and the queue (`material_requests.py`, `user_requests.py`) | request status, stamps | file, cancel, mark, automatic edges, resolve from a line, fulfil, close, reopen | two lock orders, siblings of one request, deadlocks | `Requests` |
| Login throttle (`login_throttle.py`) | failure counters, `locked_until` | check, record, clear, sweep | unlocked read-modify-write, two layers in one transaction | `LoginThrottle` |
| Sign-in sessions (`auth.py`, `users.py`) | session rows, accounts | sign in, resolve, sign out, expiry, role change, reset, archive, delete | sign-in crossing a revocation | `Sessions` |
| Request rate limiter (`rate_limit.py`) | timestamps per key | check-and-record, sweep | window boundary, refusals not recorded | `SlidingWindow` |
| Realtime hub (`realtime.py`) and browser socket (`static/realtime.js`) | handoff, wakeup, connections and queues; a screen | emit, drain, fan out, register, revalidate, close, crash, restart, reconnect, refetch | thread / loop handoff, full queues, converging closes | `Realtime`, `Invalidation` |
| NetFacilities enrichment (`netfacilities.py`, `netfacilities_jobs.py`) | a batch over a snapshot | read, retry, apply, count | awaits between snapshot and write, a vendor that forgets | `Enrichment` |
| Cloud sign-in and chain (`netfacilities_cloud_*.py`) | a ceremony per user | start, poll, capture, import, enrich, close, cancel, time out | awaits between check and write, several paths that release, exceptions nothing catches | `CloudCapture` |
| Mass-stage planning (`mass_staging.py`) | stages, slots, plan | create, move on, slots, plan, load, return, reuse, delete | one active stage; transitions against loads | `TruckPlan` |
| Creation, import and events of work orders (`work_orders.py`, `routers/`) | orders by number; what each route announces | import, merge, route, edit; the events and pushes of every route | find-or-create race; announcing what another request wrote | `WorkOrderImport`, `WorkOrderEvents` |
| Catalogue (`items.py`, `barcodes.py`) | items, codes | create, relabel, edit, archive, reuse a code | check before insert | `ItemCodes` |
| Alerts and push (`low_stock.py`, `push.py`) | thresholds, price queue, subscriptions | cross, emit, subscribe, resolve, deliver, prune | emitted after the commit; a device two people share | `ItemAlerts`, `PushDevices` |
| Weekly dispense sheets (`dispense_export.py`) | windows already printed | export | the clock and the commit order | `WeeklyExport` |
| Service-material review (`work_orders_smr*.py`) | lines, blocks, uploads, invoice names | correct, date, merge, render, paste, upload, roll forward, fill, undo | reads before writes, several commits per request | `SmrCorrections`, `SmrSheets`, `SmrWeekly`, `SmrNames` |
| Reports, labels, search, schema, configuration, logging | none of its own | reads, layout, wiring | none | not modelled |

Components meet in three ways. They **share rows**: materials routes, truck loading,
scans and voids all write `items.quantity` and one line; attendance and the board
both close labor sessions. They **call** each other inside one commit: a stock
movement raises or resolves recount requests, moves material requests and fills the
low-stock buffer; a punch-out stops a clock; archiving a user returns tools. And they
**emit** an invalidation to the realtime hub after the commit.

## 2. Modules

| module | what it is |
|---|---|
| `StockRace` | the requests that move one item's count, split at the session's read, the item lock and the commit |
| `StockLedger`, `StageAllocation` | the same data and more, one step per request; the pure allocation rules of a stage |
| `ToolCustody`, `ToolLedger` | tool requests split at their row locks; the abstract crib they implement |
| `LaborClock` | lifecycle of work orders with their clocks |
| `Attendance`, `Timesheet` | punches with their unlocked reads; the abstract pay record they implement |
| `Requests` | one crew's requests for one item, beside the shelf that answers them |
| `ItemCodes`, `ItemAlerts`, `WeeklyExport`, `TruckPlan` | codes of the catalogue; thresholds, prices and what is announced; the weekly sheets; stages and slots |
| `LoginThrottle`, `SlidingWindow`, `Sessions`, `PushDevices` | who may come in, how often, as whom, and who is told |
| `Realtime`, `Invalidation` | the hub with its browsers; the abstract promise to a screen |
| `WorkOrderEvents`, `WorkOrderImport` | what each route announces; find-or-create and merge |
| `CloudCapture`, `Enrichment` | the remote sign-in and its chain; one batch over the live orders |
| `SmrCorrections`, `SmrSheets`, `SmrWeekly`, `SmrNames` | the service-material review |
| `StockRaceProofs`, `RealtimeProofs`, `AttendanceProofs`, `WorkOrderEventsProofs`, `SmrCorrectionsProofs`, `StoreroomProofs`, `PersonnelProofs`, `OrderDeskProofs` | theorems, each about the module it is named for; the last three also about the components those modules hold |
| `MCStockRace`, `MCLaborClock` | the requests of two counterexamples |
| `MCRowLocks` | stock, tools and clocks, one system at a time, whose requests wait for each other's rows |
| `Personnel` | the people's components side by side: shifts, throttle, limiter, sessions, push devices, alerts |
| `Storeroom` | the shelf's components side by side: crib, ledger, requests, codes, weekly sheets, truck |
| `OrderDesk` | the work orders' components side by side: clocks, routes and events, imports, enrichment, captures, the service-material review |
| `MCPeople`, `MCShelf`, `MCOrders` | values for `Personnel`, `Storeroom` and `OrderDesk` |
| `MCLive` | the hub, a sign-in ceremony with all that may fail in it, and the queue's transactions |

Operators named `X_Something` directly before `X` are seeded faults: plausible wrong
versions of the code that each property is known to reject (`mutants` in
`PROJECT.json`). Nothing else uses them.

`Personnel`, `Storeroom`, `OrderDesk`, `MCRowLocks` and `MCLive` hold several components
each: they extend one of them (`Attendance`, `ToolCustody`, `LaborClock`, `StockRace`,
`Realtime`), whose
properties and theorems therefore bear the same names, and instantiate others that do
not share state with it. A variable `on` is chosen at the start from the constant
`Components` and only that component takes steps, the others keeping one initial state:
the state space is the *sum* of the components', never their product, and each component
is explored as if alone. A property of such a run is a conjunction of the components'
own invariants, each conditioned on `on`. Components that do interact are composed
inside one module (the hub and its browsers, the import and the chain that starts it,
the shelf and the requests it answers, the punch and the clock it stops).

### Stock: StockRace, StockLedger and StageAllocation

`StockRace` keeps the item's count, the materials line of one order (row id and
quantity), the transactions rows (named by the thread that wrote each), the locks on
the item row and on each transactions row, and per thread its progress, its request
and its session's copies (`seen`). `booked` and `onOrder` are history: running sums
over the live rows, kept so that the proof needs no induction over the ledger. A
request is three steps. `Call`, `VoidLockRow` or `LoadOrder` accept it and do what it
reads before the item lock; `LockItem` waits for the item and fills the copy *only if
there is none*; one of the `Commit...` actions or `Refuse` ends it. That matches the
code: `stock_item`, `dispense_item` and `correct_quantity` first touch the item with
the locking query; `void_transaction` locks the transactions row and then the item;
the three materials routes load the order with its lines and items and only then lock
the item. `AbortDeadlock` is PostgreSQL breaking the circle of a void and a line
deletion.

In `StockLedger` a request is one step and the interest is in sequences. State: the
count, the whole list of `transactions` with each row's kind, quantity, order,
liveness, whether it moved stock, and its recount request; a line (quantity and entry
mode) per order; a stage and its slots. A dispense may take the count below zero and
then raises a recount request; a correction resolves every open one; voiding a
dispense is never refused, voiding anything else is when it would cross zero. A PATCH
may set an order's entry mode at any time, so `Add` takes either mode: after the fact
it writes a dispense row that moves no stock. `Delete` returns the *line's* total and
drops the rows from History without reversing them. `OpenCard` rebuilds a line from
live dispenses that have none. `AllocateLoad` walks the rooms in sort order, each
taking what it still needs, the last one the surplus; `AllocateReturn` walks them
backwards. A recount request may also be resolved, dismissed or opened again by hand
(`UpdateUserRequest`), whatever the count is; `recount` then says `dismissed` instead of
`resolved`, so that what a person closed is told from what the code closed. `Storeroom`
has the ledger twice: every movement (`ledger`), and the movements a shortage can come
from together with the requests answered by hand (`recounts`).

### ToolCustody and ToolLedger

`out[k][u]` is the sum the custody queries compute over `tool_transactions`; it is
not a column. A checkout locks user then tool; a return, a correction and an archived
tool lock the tool only; archiving a user locks him, reads his custody
(`ReadCustody`) and, when forced, locks those tools in no stated order (`LockHeld`)
and returns the balances it *read* (`CommitArchive`). A return never locks the user by
name, but the row it inserts references him (`models.py:1116`): the database takes a
share lock on his row, which waits for an archive that has it locked. So nobody's balance
moves between an archive's read and its writes, and a return and a forced return can meet
in a deadlock (`Waits`, `AbortDeadlock`). The share lock a row takes on the person who
performs it is left out: nobody archives himself. `ledger` is history: what a
tool's rows add up to. `ToolLedger` states the promise: six indivisible operations,
no threads and no locks. The refinement maps every variable to the one of the same
name.

### LaborClock

Every board transition locks its order, re-reads it and commits, so it is one step.
Three requests read something before they hold the lock that protects it and are
split there: `FindClock` / `PunchOut` (ending a shift), `StartSwitch` /
`FinishSwitch` / `AbortSwitch` (Begin Charging while a clock runs on another order)
and `ReadOrder` / `LogActivity` (material activity). `Update` is the PATCH with all it
may carry at once. `billed` counts the labor rows each session has produced. Time is
only "this session has outrun the twelve-hour cap" (`Outrun`).

### Attendance and Timesheet

A punch is a row with a start, an end, a source, a review flag, a "seen" mark and a
deletion mark; `clock` is the work-order clock the same person runs. Every operation
first sweeps (writes midnight over punches left open on an earlier day), then reads
without a lock and writes later: `Read...` and `Commit` or `InsertPunch` are separate
steps, and the insert may meet the unique index. `Timesheet` is what the crew is
promised: an append-only record in which a shift, once ended, is changed only by an
edit someone made. Soundness of one person's record (`SoundTimesheet`,
`ClockOnShift`) is claimed only while no two requests about that person overlapped
(`crossed`), because edits check against rows they do not lock. The sweep is modelled
before an edit's permission check, which the code does in the other order; since any
read of the roster may sweep, the same states result. Tags, the lunch waiver and the
provenance of a start are data. A comment, `models.py:711`, still says that there is
no auto-close; the sweep is one.

### Requests

Rows of one item: material requests of a crew and catalogue requests of people. The
shelf moves under the item lock and moves the requests with it (`MovedRows`); people
lock the request. A fulfilment finds its siblings, locks them in turn and then adds
material, which waits for the item: the two orders can meet and PostgreSQL aborts one
(`Deadlocked`, `Abort`). Kept as the code has them: two siblings on one order with no
line yet make the fulfilment fail every time; an add that races a fulfilment fails;
filing again on a request cancelled meanwhile updates a closed row; a closed request
may be reopened by staff. The fall-back of `went_out` and quiet resolutions emit no
event. Wording edits (`update_user_request_fields`) change no status.

### ItemCodes, ItemAlerts, WeeklyExport, TruckPlan

`ItemCodes` checks every code and then writes, with only the unique index behind it:
`raced`, `stolen` and `refused` remember which codes two overlapping requests claimed,
took from a live item or were refused. `ItemAlerts` relates threshold crossings,
pushes, the Low Stock page and the missing-price queue; a push is decided from the
count the request *read*. Its movements read the item under its lock; the materials
routes, which compute from the copy loaded before the lock (`work_orders.py:3038`,
disagreement 1), are not among them. `WeeklyExport` gives every dispense its created and its
committed instant: an export prints what it can see of its window, so a row that is
created in a window and committed after it closed is on no sheet, and
`NothingSkipped` speaks of the others. `TruckPlan` follows two
stages of two buildings, their slots and plan rows, and the shelf they load from, with
each request's reads before its writes. It keeps what the code allows: a stage's
status may move backward, a plan row may be deleted after it was loaded, a load may
arrive after completion, two stages' adds may fill the same blank order, renaming
does not look at the slots again.

### LoginThrottle, SlidingWindow, Sessions, PushDevices

`LoginThrottle` has the two layers (an account at an address, and the address), each a
counter read, computed and written without a lock; the loser of an insert rolls both
layers back and counts again, and the sweep that runs in the same transaction may delete
the row about to be written. `SlidingWindow` is the per-caller deque: a refusal is not
recorded, and the wait it announces must really suffice. `Sessions` splits a sign-in
between the password check and the insert, and each account operation between its
revocation and its commit; `epoch` counts the changes after which an old session must
not resolve. `PushDevices` has one browser used by two people, the endpoint it may lose
and mint, and a sender that resolves its audience before it delivers.

### Realtime and Invalidation

Writers commit (`Commit`), hand the event over (`EmitAppend`) and wake the loop
(`EmitWake`); the loop's task runs between awaits (`DispatchTop`, `DispatchWoken`,
`FanOut`, `Drained`), may crash and is restarted a bounded number of times; a
connection registers under a cap, has a bounded queue, a pump, a revalidation and one
end (`Finish`); the process may restart. The browser opens, loses, backs off,
reconnects and refetches when the flag says it missed something (`Recovers`).
`Invalidation` is the promise: a screen that is behind fetches again, unless it is
excused. The excuses (`Excused`) are an event dropped because the handoff was full or
lost in a crash of the dispatcher, a dispatcher that gave up, an event between the
page's first fetch and its first connection, and a revoked session. Old and
new process do not overlap, there is one audience, a fetch is atomic, and the
handshake limiter (the shape of `SlidingWindow`) is left out. Two details of the loop
are stricter than the promise needs: the test for a non-empty handoff at the top of
each pass, and clearing the wakeup before draining rather than after.

### WorkOrderEvents, WorkOrderImport

`WorkOrderEvents` follows each route from the state it read before its service call to
the events it emits from the state after it, so a route may announce a transition
another request made. `unheard` are the screens an event should have reached. A
punch-out announces nothing to the boards, although it stops clocks and may hold an
order (`routers/attendance.py:62`; `domain/realtime.py:68` lists no such event): the
instance with it (`leaving`) is explored, and excluded from `MovesAreHeard`.
`WorkOrderImport` runs two CSV imports, one commit per row, against renumbering,
archiving, scans, edits and a supervisor who is deactivated between the lookup and the
row: the rows before stay and the request fails without an event.

### CloudCapture, Enrichment

`CloudCapture` has the ceremonies of one user, the poller of each, the deadline
(`Late`), the import chain for each captured file and the import button, and the
batches that use the saved session (`from` is 0 for another user's). What may fail does,
in every run: a start may be refused, or fail *after* a browser was rented
(`cloud_steel.py:108`), with an error the service records or with one that leaves the
ceremony before it in place (`netfacilities_cloud_auth.py:133`), and nothing is left to
close that browser (`stray`); a vendor's call or the saving of the session may raise in
the poll, which ends the task without a release (`dead`); working out which session a
batch replays may raise in the chain, which leaves the stage "enriching"
(`netfacilities_cloud_chain.py:226`, `raised`); closing may raise in a cancel, *after* the
release (`cloud_steel.py:210`), which leaves state and player as they were, and the next
start then returns that ceremony until it is cancelled again. Kept as the code
has them besides: cancelling again releases and relabels again; cancelling during an
import leaves the stage "importing"; a second export while an import is retried by hand is
lost; a ceremony started during an enrichment loses the final push; a batch may
overlap the browser; a fresh session may be marked expired by an older batch.
`Enrichment` is one batch: its snapshot, the vendor's home context that may be
forgotten between requests, one retry, and the write against rows edited, renumbered
or archived meanwhile. Losing the context twice in one read leaves the priority blank
without a word.

### SmrCorrections, SmrSheets, SmrWeekly, SmrNames

`SmrCorrections` is the editing of one order's charged lines, one or two editors, each
request split at its read; a block is rendered from what was read and carries a digest
of it, and is stale when the lines have moved on. `SmrSheets` is the uploads: vendor
sheets create or merge an order per row (one commit each), a reviewed paper is
accepted whole, a sheet of targets sets `smr_target` on the orders it names, an invoice
replaces the last. `SmrWeekly`
is the arithmetic that scales hours and rolls an excess to the next week;
`SmrNames` fills invoice names into unnamed crew places and can undo its newest run. An
invoice names people by text, and several spellings may resolve to one worker; the code
keeps one of them per worker, the last a query without an order returns (`Kept`), takes
the hours he has already from that one and gives the others their full room again
(`Room`, disagreement 5).
Kept as the code has them: merging workers of two vendors blocks later edits of their
lines; the paper's worker lookup does not exclude merged-away workers; `edit_reading`
commits line by line; an excluded line needs no ground; with two editors a charged
line may keep a date and no week (so `LinesAreSound` and `RemovedIsNotBilled` are
checked for one); the digest covers lines only.

## 3. Runs

| run | module | result | what it shows |
|---|---|---|---|
| `labor_stale_reads` | `MCOrders` (`OrderDesk`) | pass | with two threads acting on old reads and a bulk archive: no stopped order has a clock, nobody charges to an order he is off, Created and Assigned follow the crew |
| `row_locks` | `MCRowLocks` | pass | stock-ins, dispenses, corrections and voids never lose an update, and the order's line is the aggregate of its live rows; every request for an item (the materials routes too), for a tool or for a clock ends and lets go of its rows, through the deadlocks of a void and a line's deletion, of two forced returns, of two workers who swap orders |
| `stock_materials_race` | `MCStockRace` | violation | the materials routes do lose an update |
| `labor_double_bill` | `MCLaborClock` | violation | a punch-out bills a session that a Hold has just closed |
| `live` | `MCLive` | pass | a quiet, connected screen is current or the loss is an admitted one; slots come back, a revoked session is cut; a ceremony comes to one end, its browser is released and its chain ends, but for the exceptions nothing catches, which the property names; every transaction on the request queue ends; the hub implements `Invalidation` |
| `capture_leak` | `MCLive` | violation | an exception in the poll leaves a rented browser unreleased |
| `capture_player` | `MCLive` | violation | a cancel whose close raises leaves the player of a released browser on show |
| `ledger` | `MCShelf` (`Storeroom`) | pass | lines and count agree with History over every sequence, and a short count is owed to a dispense whose recount request only a person's hand has closed; one stage per building is active, its truck is counted, filled in plan order and emptied from the last room |
| `shelf` | `MCShelf` (`Storeroom`) | pass | with every tool request in use, forced returns too: counts follow the rows, nobody and nothing archived has a tool out, no return exceeds what is out, and the requests implement `ToolLedger`; the queue follows the shelf; scans find one item; no dispense is missing from the weekly sheets; material from a stocked request closes it for good and a plan replaces no known building |
| `people` | `MCPeople` (`Personnel`) | pass | lows are announced once; shifts are sound and implement `Timesheet`; failures are counted and spaced; sessions end with the authority they were given for; the window's cap and its waiting time hold; a device belongs to one person |
| `orders` | `MCOrders` (`OrderDesk`) | pass | board changes are heard; imports and batches spare what people typed; each file is imported once and a player without a browser was left by a cancel; sessions are billed once among one-step requests; SMR lines, blocks, baselines and hours hold, and names fit their invoices while each worker has one spelling |
| `names_overrun` | `MCOrders` (`OrderDesk`) | violation | a second run names a worker beyond what the invoices give him, when they spell him in two ways |

### Bounds, and why they are enough

- *Stock*: four threads where no update is lost (a void of a row needs its writer and a
  voider; a second voider and a bystander make four), three for the violation and for
  liveness (a lock circle takes a deletion, a void and the writer of the row), all in
  `row_locks`. Quantities `{1, 2}` (of the four threads: 2) and an opening of 1 or 2 let
  a dispense cross zero, a void be refused and an edit go either way. The ledger has two orders, three rows at most
  (`MaxRows`; dispense + edit + void, or a second shortage on a short count), quantities
  `{1, 3}`, and two rooms that planned one unit each, so that a load of three fills both
  and spills. Operations that write no row are not bounded.
- *Tools*: two tools and two threads (`row_locks`, where two forced returns lock in a
  circle); one tool, three threads and quantities of two (`shelf`, where returns cross a
  forced one); every request in both, two users, and a user may start with a unit out,
  which stands for any earlier history.
- *Labor*: `Clocks` bounds the starts. One order is enough where nothing crosses
  orders; two, two workers and three clocks let two switches lock crosswise. Threads,
  workers and clocks are symmetric in `labor_stale_reads`, where no liveness is checked.
- *Attendance*: one person, a lead and an administrator; first every operation by one
  thread up to the second midnight (days of two instants, weeks of one day), then two
  crossing threads up to the first. Two punches can overlap, collide on the open one,
  and be swept.
- *Requests*: a count from -1 to 1 covers short, empty and stocked; three rows are a
  live request, a resolved one and a sibling.
- *Codes, alerts, sheets, truck*: two codes two items want; counts and thresholds up
  to 2; one dispense against overlapping exports whose windows share an instant; two
  stages that share a work order and an item, six requests (`MaxSent`).
- *Access*: two accounts behind one address and back-off up to two; a window of three
  ticks with room for two requests, four grants; an Owner and a person he manages, one
  account change (`MaxEpoch`) which is what a sign-in can cross; one device, two
  people, two endpoints.
- *Hub*: one screen, two connections (the cap is one, so the old one is still there
  when the browser returns), one writer, a handoff and queues of one (full is one
  event away), two versions after the first, one restart by the supervisor, two faults
  anywhere.
- *Work orders*: two orders and one worker for a clock that moves, one order for every
  route against every other; two files that share a number, one of whose other rows is
  blank; two candidate orders, one possible bad number, two losses and two edits; two
  ceremonies, two files and two releases of one browser (a repeated cancel); two lines,
  days and workers of one vendor with three writes; three weeks; two crews, three names
  of two workers, three hours on each name's invoices and two naming runs (a name is
  overrun by the second).

### Fairness

No request, commit, page change, fault or crash is ever forced to happen; what was
accepted goes on.

- `StockRace`, `ToolCustody`: weak fairness of each thread's work: its thread runs, a
  free lock is granted, and the database aborts one of a deadlocked circle.
- `LaborClock`, `Requests`: an endless stream of one-step requests may take and release
  the row another waits for. PostgreSQL hands a row lock to its waiters in turn, so the
  step that waits is strongly fair.
- `Realtime`: weak fairness of every task the loop has scheduled and of the browser's
  timers. `CloudCapture`: of the poller's next step, of the chain's next step and of
  the deadline, all of which the loop runs or an `asyncio.timeout` guarantees.

What ends there may begin again, so `CaptureEnds` says of browsers and chains that time
and again all of them are at rest (`[]<>`): a browser or a chain that is never let go
would make that false from some point on.

In the packed runs the fairness of a component is conditioned on `on`, so it says
nothing while another component runs. Deadlock checking is off everywhere: users may
stop sending requests, and the bounded threads, rows and clocks run out.

### Disagreements found

Five have a run of their own:

1. **Materials routes lose updates** (`stock_materials_race`). `transactions.py:321`
   says corrections, stocks and dispenses "never lose updates". The three materials
   routes of a work order lock the item after their session has cached it
   (`work_orders.py:3038`) and compute from the cached count.
2. **A session billed twice** (`labor_double_bill`). `work_orders.py:2025` describes
   the serialisation that must prevent this; ending a shift finds the session before it
   locks the order and closes it without looking again (`work_orders.py:2873`). This is
   why `BilledOnce` passes only for one-step requests.
3. **A browser left rented** (`capture_leak`). `cloud_config.py:29` and `:34` describe
   a bounded ceremony whose browser is given back; a vendor's call or a save that raises
   in the poll for the sign-in (`netfacilities_cloud_auth.py:198`, `:201`) ends the task
   without a release. The same is lost by a start that fails once the browser is rented
   (`cloud_steel.py:108`): `CaptureEnds` excuses both (`Leaked`), and, of the chain's
   stage, the resolver that raises (`netfacilities_cloud_chain.py:226`, `Abandoned`).
4. **A player without a browser** (`capture_player`). `netfacilities_cloud_auth.py:308`
   says that the status "must never advertise a player for a session we let go"; closing
   releases the browser first and raises afterwards (`cloud_steel.py:210`), so a cancel
   that fails (`netfacilities_cloud_auth.py:171`) leaves state and player in place. What
   holds is that nothing but such a cancel does it (`StalePlayerWasCut`).
5. **A name beyond its invoice** (`names_overrun`). `work_orders_smr_weekly.py:178` says
   that a name's room is what it was invoiced less the hours already on lines of that
   person; one spelling per worker is charged with those hours (`:203`) and every other
   has its full room again. What holds is `RunFitsInvoice`: a run exceeds what a worker
   is invoiced only if he has several spellings and some hours already.

The modules also *state* what a reader of the code would expect and what does not
hold; none of these is in a passing run, and each has a comment at its definition.

| statement | why it fails |
|---|---|
| `StockLedger.ShortCountIsFlagged` | work logged after the fact lets a line return more or less than its rows moved; six legal requests end at -1 with no request open. And a clerk may close the request by hand while the count is short (`user_requests.py:473`). `NegativeIsFlagged` is the promise that does hold |
| `Requests.LineHasEveryAdd` | an add beside a fulfilment of the same line loses units (`work_orders.py:2921` promises it does not) |
| `ItemCodes.ReuseGoesThrough` | a confirmed reuse is refused by the database while rows still cite the old item |
| `LoginThrottle.FailureIsAnswered` | the sweep in the same transaction, or a success beside it, deletes the row a failure is about to update: all is rolled back and the caller gets a server error |
| `WeeklyExport.PrintedOnce` | two overlapping exports print the same dispense (`models.py:1245`) |
| `TruckPlan.ForwardOnly` | a stage can go back a status, where `domain/mass_staging.py:43` and `:149` speak of moving forward |
| `WorkOrderImport.ImportCountsOnce` | a renumbering between two rows makes the summary count an order twice |
| `SmrSheets.ShellsAreSmr` | a restart between the two commits of a shell leaves an order that is not SMR |
| `SmrSheets.InvoicesReplace` | two invoice uploads at once leave the rows of both |

Where a property above a module is narrowed, the narrowing is in its definition:
`LineIsAggregate` and `LedgerBalances` of `StockLedger` say nothing of orders outside
`Regular` (retroactive work, a restock in their name, units given back from the truck,
an edited line one of whose rows was removed later), where the code gives up the
correspondence. The run still explores all of them for the other properties.
`LineIsAggregate` of `StockRace` is checked without the materials routes for the
reason of item 1.

## 4. Theorems

A theorem holds for every value of the constants its module's named assumptions
allow: any finite or infinite set of threads, people, orders or screens, any caps,
quantities and lengths. What those assumptions ask is what the code gives: caps and
amounts are numbers, amounts are not zero, `None` is nobody. Where a theorem needs
more, its statement says so and the list below says why. Safety properties are
seldom inductive; each module strengthens its own to an `IInv` and proves that every
action keeps it, one lemma per action.

**StockRaceProofs.** `TypeCorrect`; `NoUpdateLost` and `LineFollowsRows`, both while
only the endpoints that load the item *by* locking it are in use (`OnlyLockFirst`;
`stock_materials_race` refutes the first without it). `IInv` adds that a thread past
the lock holds it and its copy is the current count (`CopyIsCurrent`), that nothing was
cached before (`NothingCached`), and that a void's victim is live and locked by it
(`VictimIsLive`), so a commit moves count and ledger together (`AtCommit`). That the
line is the aggregate of its rows needs that an order's total is at least each row's
share. A sum over a set of rows is an induction the provers cannot do, so `AInv` counts
units instead: a row of n units stands for n pairs (`UnitsOf`), the total is the
cardinality of their union, and the library's facts on cardinalities do the rest.

**RealtimeProofs.** `PlacesAreKept`: no user ever has more places than the cap and only
an endpoint still there to give it back holds one. `NoScreenIsForgotten`: a screen that
is behind has news, a close or a refresh still coming, or is excused. The strengthening
follows the two ends of a socket, which agree on its state only up to the message under
way (`Wired`), and says where news can be: from registration on, an event newer than
the screen is ahead of its connection (a writer about to hand it over, the handoff) or
in it (its queue, its close code), or its loss is an accepted one (`NewsArrives`).
`OnlyNewsAndFetches` is the safety half of implementing `Invalidation`; its fairness is
what the run `live` checks.

**AttendanceProofs.** `TimesheetIsSound` and `RecordIsKept`, the latter the refinement
of `Timesheet`. Nothing is locked, so the invariant separates what holds anyway from
what holds of a person no two of whose requests overlapped. Anyway: every job carries
only what may be merged into whatever the row has become (`JobOK`: a write never
reopens a shift and never unflags an estimate unseen), and the unique index holds.
For an uncrossed person: at most one request under way is about him, so what it read is
still so (`Fresh`: the rows to sweep, the copy to write over, the flags a review clears),
and his record is in order (`Settled`). Multiplying a day number by a day's length is
not linear, so the calendar's few facts are lemmas (`Products`, `Days`).

**WorkOrderEventsProofs.** `TypeCorrect`; `RepeatsAreSilent`; `MovesAreAnnounced`: while
nobody ends a shift (a punch-out announces nothing to the boards, see section 2), each
card, queue or board an open request has outdated is among what that request is about to
announce. Given that a request which committed nothing names nobody else (`Quiet`), the
promise keeps itself: `Says` states of a write that its request will announce every row
and clock it changed (the *other* order too when a start moves a running clock), and an
answer takes off what is unheard exactly what it announces.

**StoreroomProofs.** The crib's theorems come first (`Storeroom` extends `ToolCustody`).
`SheetsAreComplete`, `CodesAreKept`, `QueueIsKept` and `WritesStay` prove four
properties of `shelf` under their own names, for every value of the constants
`Storeroom` assumes (`ExportAssumption`, `CatalogueAssumption`, `QueueAssumption`:
bounds are numbers, `None` is no id, code, clerk, instant or row, and each clerk sends
requests the code has). Each component has its inductive invariant first; a component
that is not `on` stands still.

- *The crib* (`TypeCorrect`, `CountsAndShelvesHold`, `ArchivedHaveNothing`,
  `ReturnsAreCovered`, `ImplementsLedger`; whatever the requests, forced returns
  included). The strengthening says what each lock buys: a locked tool's loaded count is
  current (`Fresh`), a thread about to write has a live tool locked (`HasTool`) and an
  active user locked (`HasUser`), and while an archive has its user locked the balances
  it read stand (`ReadingStands`). A checkout locks the user too, and a return waits for
  him because its row references him; without that wait only an upper bound would
  stand, and a forced return could repeat one just made. The last theorem is the
  refinement: initial states map to initial states, each commit to the operation of
  `ToolLedger` it stands for, every other step to a stutter (`StepRefines`).
- *Weekly sheets* (`ExportTypeCorrect`, `ExportNothingIsSkipped`). Exports overlap
  freely and two may cover one window; no instant below the latest end is outside every
  window (`NoGap`: each window starts at or before the latest end and the clock never
  goes back) and a rendered sheet printed all of its window that had been committed when
  it closed (`Prints`).
- *Codes* (`CatalogueTypeCorrect`, `CatalogueScansFindOne`,
  `CatalogueLiveItemsKeepCodes`). The database keeps primary codes apart from primary
  codes and alternates from alternates (`Unique`); that no primary is another live
  item's alternate rests on a check made before the write. So a code no two overlapping
  requests claimed has one holder (`OneHolder`), and a request about to commit still has
  its codes to itself, or takes them from an item that is deleted and that it has locked
  (`Claims`, `Clear`, `EditsApart`).
- *Request queue* (`QueueInvariant`). The count moves only under the item lock; people
  mark, cancel and reopen requests, file their own and add material without it. What a
  request has read of a row it has locked is still so (`Sound`), and of what is pending:
  whoever holds the item writes every request its move of the count leaves on the wrong
  side, and files only a crew's first (`Follows`, `Edges`, `FilesFirst`); whoever does
  not hold it makes no filed request live again and marks as a person's what it stocks
  (`Beside`). So a crew never has two filed requests that are live or about to be
  (`OneFiling`), which no single row shows: a request under way may be about to revive
  one while another is filed. A fulfilment links only what it locked open and counts
  each request once (`Linked`, `Links`); a set of linked rows and the counter grow
  together, by cardinality, with no sum to induct over. `OnShelf` and `Fulfilled` are
  one queue with different requests in use; `SameReads`, `SameTakes` and `SameSteps`
  show that they take the same steps, so one invariant serves both.
- `WritesStay`: material taken from a stocked request closes it for good (`Closes`, then
  `QueueClosed`), and a stage plan never replaces a known building (`TruckPlaceStep`).
- *Truck* (`TruckStagesAreApart`, the part of `TruckHolds` about stages). The look for an
  active stage is unlocked; the row that is written answers to the index, whatever the
  request read (`TruckRowWritten`).

**PersonnelProofs.** `AccessIsKept`, `AlertsAreKept` and `AccessStepsAreKept` prove
the three properties `people` checks of the access and alert components, under their
own names, for every value of the constants `Personnel` assumes (`ThrottleAssumption`,
`LimiterAssumption`, `AccessAssumption`, `AlertsAssumption`: bounds are numbers, a lock
never outlasts the time a counter is kept, the address is no user, `None` is no thread
and no row). Below them are each component's own theorems, then one lemma per component
(`ThrottleRuns`, ...) that lifts its invariant to the composition: while `on` names
another, it stands still.

- *Throttle* (`ThrottleFailuresAreCounted`, `ThrottleDelaysAreServed`,
  `ThrottleLocksOutliveSweeps`). Nothing locks, so the invariant sorts what holds
  of any key from what holds of one no two sign-ins of which overlapped (`crossed`). Of
  any: what a request read is still there unless it knows better, counts never exceed
  the failures there were, and the unique index lets one insert through (`CopiesStand`,
  `NeverOver`, `Inserts`). Of an uncrossed one: at most one request is under way on it
  and its copy is the row, and what it is about to write is the next count with the
  delay that count earns (`Apart`, `Loners`, `Cleans`). `BackoffHolds` counts the
  delays a key earned (`Earned`), so nothing is summed. `SweepKeepsLocks` is claimed for
  uncrossed keys: a sign-in that overtakes another may leave a lock beside an older
  `last`.
- *Limiter* (`LimiterWindowIsCapped`, `LimiterRetryIsHonest`, `LimiterRefusalsAreDue`).
  What was granted and is still in the window is in the bucket (`Remembers`), and
  somebody told to come back waits for a grant that leaves the window by then and
  without which there is room (`Waits`).
- *Sessions* (`AccessSessionsFollowAccounts`, `AccessShownRolesAreLive`,
  `AccessOwnersStand`). For somebody none of whose sign-ins ran beside a change of his
  account: sign-ins and changes under way are never both his (`Apart`), his sessions and
  the sign-in about to open one are of the account as it is, and a change about to
  commit ends all the sessions he has (`Current`). `OwnersAreFixed` needs no such
  condition: a change under way is of somebody who was outranked when it was checked,
  and makes nobody an Owner (`Ranked`).
- *Push* (`PushClaimsAreSingle`, `PushServedStaySubscribed`). A row is one person's
  (`Single`), everything posted or about to be delivered was minted (`Known`), and an
  endpoint a sender found dead never serves again (`DeadStay`), so the clean-up may come
  as late as it likes.
- *Alerts* (`AlertsFallsAreAnnounced`, `AlertsPageIsCurrent`,
  `AlertsPricesAreAskedOnce`). Whoever locks the item saw it as it is, with its
  missing-price request (`Held`); there is one push per fall, none for an item born low
  (`Told`); and a page that does not show what is low has a route about to say so
  (`Shown`).

**SmrCorrectionsProofs.** `BlocksAreCurrent`: whoever edits while a block is generated,
one that does not read as stale prints the lines as they are. The block keeps the digest
it was printed from (`BlockOK`), so all that is left to say is what a request under way
remembers (`JobOK`). `CorrectionsAreSound` is about one editor (`OneEditor`; two whose
edits of one line cross, each checked against the row it read, can leave a line the
rules refuse, which is why `orders` has them apart): every line is one the rules accept
of the workers not merged away (`SoundRow`), and whatever he has yet to write keeps it
so (`ToWrite`), through the cascade of a paper's new day and the moves of a merge. The
columns an edit writes are a function on *some* fields, so laying them over a line is an
operator with lemmas of its own (`OverAt`).

**OrderDeskProofs.** `MovesAreAnnounced`, `CapturesHold`, `EditsStand`, `ReviewsHold` and
`DeskClocksHold` prove the properties `orders` checks of them (`MovesAreHeard`,
`CaptureHolds`, `EditsSurvive`, `SmrHolds`, `ClocksHold`) for every value of the constants
`OrderDesk` assumes (`ImportAssumption`, `EnrichAssumption`, `CaptureAssumption`,
`CorrectionsAssumption`, `SheetsAssumption`: bounds are numbers, files name numbers the
run has, a day falls in a week, `None` is no number, day or row, and whoever edits alone
does). `CorrectionsStay` is the first half of `WrittenOnce`. `DeskClocksHold` adds that the
requests are those `OneOrderClocksHold` allows.

- *The clocks*. `TypeCorrect`, `ClocksFollowOrders`, `ChargersAreOnCrew` and
  `CrewDecidesPreWork` hold with every request and stale read in use. The invariant adds
  that a started session has an order and a worker (`Rows`) and what a waiting thread
  may rely on (`Waiting`): a switch still holds its new order, which is therefore still
  startable when the switch writes it. Lemma `OneOrder` reduces every one-order step to
  four conditions on the sessions closed and opened. Three more need a request to be out
  of use, in each case the one that breaks them: `DatesFollowStatus` (completion date
  and status agree, without material activity, which writes a status it read unlocked),
  `ArchiveStopsClocks` (an archived order has no clock, without the bulk archive, which
  leaves them running) and `SessionsAreBilledOnce` (one order and no shift ending,
  `OneLock`; `labor_double_bill` is the counterexample otherwise). `OneOrderClocksHold`
  joins them as the run `orders` checks them, and `DeskClocksHold` says so of
  `OrderDesk`.
- *Sign-in and its chain* (`CaptureFilesAreImportedOnce`, `CaptureStalePlayersWereCut`). A
  ceremony has one chain at a time and its stage says so (`OneChain`), a chain that has
  yet to import finds nothing of its ceremony imported (`ToImport`), and what was imported
  is marked, or its own chain is about to mark it, or that chain was cut loose and the
  stage stays busy for good (`Marked`): that is what keeps a second click out. Whoever
  is about to release a browser has stopped showing it (`Letting`), so a player can
  outlive its browser only through a cancel, and only through one whose close raised,
  since the others hide the player; that this does happen is what `capture_player` shows.
- *Enrichment* (`EnrichBatchesAddUp`, `EnrichBatchesSpareEdits`). The counts and the
  candidates still ahead add up at every step (`Tally`); a lost home context has been
  paid for from the losses there were, so the second read has it (`Homes`); while nobody
  edits, each urgent order without its priority is still to come (`ToCome`).
- *Import* (`CsvNumbersAreUnique`, `CsvImportsSpareEdits`). What an import looked up may be
  gone when it writes; the write is right because it is made of the row as it is then. So
  the invariant has little to add: an import that runs is at a row with a number and knows
  where its names lead (`JobOK`), and a created order has its task (`Whole`).
- *Events and corrections*. `WorkOrderEvents` is in the composition three times and
  `SmrCorrections` twice, with different requests in use. Each instance takes the steps of
  the module that was proved (`MovesStep`, `TapsStep`, `LeavesStep`; `AloneStep`,
  `TogetherStep`), so its invariant holds of it while it runs (`EventsInv`,
  `CorrectionsInv`).
- *Uploads* (`SheetsUploadsAreWhole`, `SheetsCorrectedLinesStay`). An order marked SMR has
  its baseline (`RowOK`), what an upload remembers of the orders is still there because
  rows and baselines stay (`JobOK`, `Stays`), and a paper's lines are written by one commit
  (`PapersOK`), which is all a restart can cut off.

(In `OrderDeskProofs`, `StoreroomProofs` and `PersonnelProofs` the names of a component's
invariants begin with its own: `CaptureOneChain`, `SheetsJobOK`, and so on.)

The proofs found a fault of the models themselves: three `CASE` expressions
(`WorkOrderEvents.PatchNews`, `SmrCorrections.WeekFor`, `SmrNames.Logged`) had
overlapping guards, which is a free choice in TLA+ and a first match in the code (and,
as it happens, in TLC, so no run could show it). Their guards are disjoint now.

**Model-checked only, and why.**

- Liveness (`StockRequestsEnd`, `ToolRequestsEnd`, `LaborRequestsEnd`, and `RevokedIsCut`,
  `CaptureEnds`, `QueueMovesOn` and the fairness of `Invalidation` in `live`) and `ENABLED`: out of the
  prover's reach.
- `StockLedger` (`LedgerHolds`, `FlagsHold`): sums over a growing list of rows and a
  returned surplus, an induction over data.
- `HoursAreKept` and the half of `WrittenOnce` about names (`RunFitsInvoice`): folds over
  an order's columns, the weeks of a chart and the units of a crew, of which not even the
  type can be proved without the same induction.
- The rest of `TruckHolds`: its counting (`TruckIsCounted`) and the allocation
  (`StageAllocation`) are folds too.

## 5. What is abstracted, and what is left out

- One item in the stock modules and in `Requests`; items meet only through buffers.
- Quantities are integers (the code's `Decimal` with a fixed step); times are ticks in
  the modules where order matters and absent elsewhere; text is dropped.
- Roles and route permissions, except where they are the point (`Sessions`, and who
  may edit a punch in `Attendance`): every request is one its caller may send.
- Rows written only for display (notes, audit text, logging).
- In `StockLedger` a request is atomic. `StockRace` justifies that for the endpoints
  that lock first; for the materials routes it is an assumption that disagreement 1
  shows the code does not quite meet.
- External and modelled from how the code uses them: PostgreSQL's locks, deadlock
  detector and unique indexes, the ORM's unit of work, the event loop's wakeup, the
  NetFacilities site and the remote-browser provider, the push service, the browser.
- Some operations are in a module but outside the properties of their component,
  because they give those up: the bulk archive and material activity (outside
  `ClocksHold`), a punch-out (outside `MovesAreHeard`).

**Not modelled**, and why: hand-keyed labor entries, the signature, the billing
override and note texts are single-row writes nobody races for; tools' own fields and
names likewise. Search, lists, filters, the crew hub's ranking, reports, labels and
spreadsheet layout only read. Encryption of the saved session, password hashing and
origin checks are functions of libraries. Keep-alive frames and the handshake limiter
repeat what is modelled. Schema and configuration are the environment the modules
assume; logging has no behaviour.

## 6. Plan

The components the code has are modelled, and most have theorems. What is left is to
prove more, in this order:

1. `TruckPlan`: `TruckIsCounted`, by counting units as `StockRaceProofs` does instead of
   folding over the slots, which asks the same of `StageAllocation`.
2. `StockLedger`: `NegativeIsFlagged` from this argument: while the count is below zero
   every edit, correction down, load and undoing that would cross zero is refused, so
   the units short are owed to dispenses taken since the count was last non-negative;
   each order's line is at least what those took from it net of returns, so removing
   them all brings the count back to zero first, and one that remains carries a
   recount request only a person can have closed.

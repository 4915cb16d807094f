# TLA+ models of AXOS OS

AXOS OS is an ERP and MES for electronics contract manufacturing: a NestJS API
(`apps/api`, about 85 domain modules over TypeORM and PostgreSQL), a Next.js front
end (`apps/web`) and shared contracts (`packages/contracts`). These files model the
parts of the API in which several requests change the same rows: the numbering of
documents, the stock of the plant, the reports of production at the bays, on the
line and on the shop floor, the containment of suspect material and the tasks of
the warehouse. TLC checks the models on small instances, TLAPS proves the main
results for all instances.

    tlc -workers 2 -config inv_serial.cfg MCInventory     one run
    tlapm InventoryProofs.tla                             the proofs of a module

## 1. Inventory of the system

Requests come in over HTTP; each handler is an async method of a service. Services
call one another directly and share the database. There are few queues and hardly
any in-process state: what can go wrong is in how handlers that run at the same time
read and write rows. A handler may use

* one transaction (`dataSource.transaction` or a query runner) at READ COMMITTED;
* pessimistic locks, in numbering, bay runtime, returns of bays and a few others;
* autocommitted repository calls, which is most of the code;
* calls of `InventoryService.recordTransaction()`, which always opens a connection of
  its own and commits on its own, also when its caller is in a transaction.

| Part (under `apps/api/src/modules`) | State | Operations | Talks to | Hard because | Correct when |
| --- | --- | --- | --- | --- | --- |
| `numbering` | `document_sequences` | allocate, allocateBlock, create, update | called by every module that numbers documents | lock of a row that may not exist, turn of the year, admin edits | no folio is issued twice; counters do not go back |
| `inventory` (positions) | `inventory_positions`, `inventory_movements` | recordTransaction, issueToLine, transferToLine | called by about 20 modules | read, check and save without a lock; several commits in one request | stock is conserved, never negative, equals its movements; holds block |
| `inventory` (warehouse, replenishment) | `warehouse_tasks`, rules | create, import, start, complete, deliver, cancel, except | positions, calls of the line | numbers by count, movement and status commit apart, stale copies | a task moves its stock before it says so; a call is pulled once; a delivery closes |
| `inventory` (returns) | returns | receive, inspect, complete | positions | as warehouse tasks | a return moves its stock once |
| `quality` | holds, quarantine transfers, dispositions, NCRs, inspections | createHold, releaseHold, request and complete a transfer, propose, approve and execute a disposition, inspect | positions, NCR, event ledger | one operation on two connections, failures in between, overlapping holds | nothing leaves a hold but by a decision; what says executed has happened |
| `production-runtime` | bay material, bay events, WIP, kit status | registerBayEvent, revertBayEvent, declareFinishedGoods, receiveLine, startLine | inventory, kits, audit | retries, undo, row locks, lock cycles, nested commits | a report counts once; material, WIP and kit follow the events |
| `mes-execution` | executions, steps, step materials, events, incidents, andons, downtime | open, confirm, revert, report, dispose, raise, resolve | inventory, material requests | guards on unlocked reads, saves without a transaction, the undo of units that have moved on | no station passes on more than it got; material and units follow the confirmations; a blocked station has its clock |
| `production-plan`, `material-staging`, `floor-quality`, `fai`, `operator-terminal` | one work order, its staging lines, holds, first pieces and consumption events | publish, stage, hold, dispose, sign, confirm, cancel | one another, by hooks on the order's row | whole-row saves without lock or transaction from five modules | no double count; the gates of the order say what holds, lines and inspections say |
| `plans`, `kits`, `kit-materials`, `pick-lists` | work orders, kits, lists | import, release, start | numbering, staging, inventory | numbers by max + 1, checks before the transaction | one kit and one list per order |
| `material-requests`, `resupplies`, `cancellation-requests` | requests and their status | ask, fulfil, receive, cancel | transferToLine, notifications | fulfilment is several commits | a request is supplied once |
| `receiving`, `inbound` | receipts | register, inspect, put away | inventory, quality | retry after a partial failure | a receipt enters stock once |
| `outbound`, `shipping`, `packing`, `traffic` | shipments, cartons, lines | pack, pick, ship | inventory, numbering | pick against moving stock | what ships left stock once |
| `cycle-counts` | counts | open, count, adjust | inventory | stock moves during a count | an adjustment keeps the movements in between |
| `npi`, `engineering`, `line-engineering` | gates, revisions, approvals | propose, approve, release | BOM, routing | approvals by several roles | a gate opens with all its approvals only |
| `accounting`, `erp-core` and costing | journals, periods, balances | post, reverse, close | inventory, procurement | post while a period closes | journals balance, closed periods stay closed |
| `genealogy`, `event-ledger`, `governance` | append-only rows | record, query | everything | none: rows are only added | rows stay |
| `notifications`, `messaging`, `live`, `alerts` | messages, sockets | notify, poll, read | all | duplicates, pollers that overlap | one notification per cause |
| `mrp`, `procurement`, `purchase-planning`, `suppliers`, `forecast` | plans, orders | explode, order, receive | BOM, receiving | receipts against one order | no order is over-received unnoticed |
| BOM, routing, master data, quality records, maintenance, people, analytics, AI, web | own tables | edit and query | the above | little concurrency | see `PROJECT.json` |

The first eight rows, returns apart, have a model. `PROJECT.json` lists every
component with its status, and under `hazards` the lines where the code is hard to
test.

How the parts meet: the stock of `inventory` is under all of them, and each model
shows `recordTransaction()` as the others meet it. Inventory has its statements one by
one; BayRuntime, QualityContainment and WarehouseTasks have it as a movement that
commits by itself in the middle of their own work, which is what `StockLedger` states
and `inv_serial` checks of the statements; where two movements overlap on one row
Inventory, not the others, says what can happen.

## 2. Modules

| Module | Role |
| --- | --- |
| `DocumentNumbering` | the folio service, one document type |
| `Inventory` | positions of one part, holds, transfers, supplies |
| `StockLedger` | abstract: one quantity per place, movements at once or not at all |
| `BayRuntime` | production of one kit: reports, reverts, declarations, starts |
| `ProductionLog` | abstract: each report logged once and whole, undone at most once |
| `ExecutionFlow` | a work order along its stations: confirmations, undo, incidents, andons |
| `ShopFloor` | one published order and the five modules that write its row |
| `QualityContainment` | holds, quarantine, dispositions, incoming inspection of one part |
| `WarehouseTasks` | tasks and pulls of one part between a store and a line |
| `MC...` | the small instances of each for TLC |
| `...Proofs` | the TLAPS theorems of each |
| `FunctionSums` | lemmas on sums over finite sets, for the proofs about stock, material and units |

### How the code becomes actions

PostgreSQL is modelled by what a READ COMMITTED transaction can see. A statement is
one step; between two `await`s any other request may run. A read sees what is
committed then, and what the transaction itself wrote. A write or a `FOR UPDATE` read
locks its row until commit or rollback, and a second writer waits (its step is not
enabled). TypeORM's `save()` is a SELECT, a comparison and an UPDATE; the model takes
it as one step that writes the whole entity over the row. That is what happens when a
column of the stale entity differs from the row, and nothing changes when it does not.
Two transactions in a cycle of waits: one is chosen as the victim and rolled back. A
request may fail at any step (`Fail`): its open transaction is rolled back and what it
committed before stays. The server keeps nothing over a restart, so a crash is the
failure of all requests, one after the other.

**DocumentNumbering.** `rows` is the table, `lock` the row locks, `entity` what a
request holds in memory. `Allocation` (lock, number, save, commit) is
`allocateNumbers()`; `Administration` is `create()` and `update()`, which do not lock.
A folio is abstracted to what tells two apart: the precision of its date tokens, the
calendar window they print, and the sequence number. The calendar may turn between
any two steps.

**Inventory.** `rows` is `inventory_positions` of one part; `pending` the uncommitted
writes; `cur` the entity a request read; `dto` its arguments; `supply` the progress of
a `transferToLine()`. `ReadSource`, `SaveSource`, `ReadDest`, `SaveDest`, `Commit` are
the statements of `recordTransaction()`; `BeginSupply`, `NextTake`, `EndSupply` those
of `transferToLine()`, whose candidates are a snapshot; `ApplyHold`, `ReleaseHold` the
single UPDATE of the quality service. `booked` (history) sums the committed movements
of each row, `raced` marks rows saved from an out-of-date copy. `StockLedger` is what a
caller may assume: a movement happens at once or not at all; `Ledger` is the refinement
mapping (stock of a place is the sum of its rows) and `Takes` the movements a supply may
be made of.

**BayRuntime.** `material`, `events`, `wip` and `kit` are the committed rows of one
kit; what a request will write is in its locals (`copy`, `eid`, `wipCopy`, `sum`) and
takes effect at its commit, while its row locks are held from the write on. `tank`,
`staged` and `declared` are the formal inventory, moved by `recordTransaction()`, which
commits at once: `Consume` and `Transfer` change them in the middle of a report. The
consumption of the line tank fails softly, so `Consume` may leave the tank alone. The
undo window (10 s) is a choice: a revert may be refused as too late at any time. The
unique index on `clientRequestId` makes an insert wait for an uncommitted one of the
same key. Operators mount bays with `ensureMaterialState()`; the model begins with the
bays mounted. One assembly uses one unit of each part of its bay.

**ExecutionFlow.** `step`, `material`, `event`, `incident`, `andon` and `downtime` are
the tables of `mes-execution`; `job` is what a handler has read. `ConfirmRead` and
`ConfirmCommit` are the two halves of the transaction of `confirmAdvance()`: it locks
nothing, so the counters it writes are those it read. `ConfirmAfter` is the debit of the
formal stock (`tank`), the request for missing material and the end of the order, after
the commit. `RevertEvent` is one step; incidents and their disposition are a read and
a save (`ReportIncident`/`SaveIncident`, `Disposition`/`SaveDisposition`), with a crash
possible between two saves. The model assumes that the handlers which write the counters
of one station do not overlap, except the same request sent twice: a station is one
terminal with one operator. Without that assumption they overwrite one another. The
history variables `withdrawn`, `reworked` and `unreturned` record what an undo or an
incident took back, released or could not take back.

**ShopFloor.** `wo` is the row of the order, which five modules load and save whole.
A hook is `load` (a copy of the row) and `save` (the copy with its change); `Changed`
is what each hook does to the row. `line`, `hold` and `fai` are saved before the hook
starts, `event` (unique by idempotency key) before the unit is counted. A request may
die between any two saves. The retry of a confirmation finds its event and counts
nothing, as in `confirm()`.

**QualityContainment.** `pos` is `inventory_positions` of the part, with the fields a
hold can match; `hold`, `transfer`, `dispo` and `ncr` are statuses. `executeDisposition()`
is `UpdatePositions`, `IssueGoods`, `CloseNcr`, `ReleaseItsHold` and `Finalize`: its own
transaction keeps the updated rows locked (`Locked`) while the services it calls commit
on other connections. `Fail` at any step rolls the first back and leaves the others. A
release with a hold calls `releaseHold()`, which updates the rows its caller has
locked: that request waits for itself. A movement is one step here.

**WarehouseTasks.** A row is known by its number, which is the count of the tenant's
rows plus one; `Count` and `Insert` are two queries and `Clash` is the unique index.
`Move` is the committed movement, `Save` the save of the copy read at the start. A
crashed request leaves what it committed. `settled` (history) has the tasks whose stock
moved, or whose delivery noted why it did not.

The first query of `revertBayEvent()` (`production-runtime.service.ts:308-313`) asks
for `FOR UPDATE` over a LEFT JOIN of the kit. PostgreSQL refuses to lock the nullable
side of an outer join, so as the code stands a revert ends there with an error. The
constant `Reverting` separates the cases: FALSE is that database, TRUE the handler
with the lock on the event alone, as its author wrote the rest of it.

## 3. Runs

| Run | Module | Instance | What it shows |
| --- | --- | --- | --- |
| `num_provisioned` | `MCDocumentNumbering` | 3 allocators, 1 row, blocks of 1 and 2, 5 months, 2 per year | `TypeOK`; concurrent allocations never get the same folio (`UniqueFolios`), also when the year turns in the middle |
| `num_serial` | `MCDocumentNumbering` | 2 allocators, 1 admin, no row at first, one request at a time | the sequential logic: unique folios, exact totals (`TotalCountsIssued`), no rewinding by admin edits (`CounterNeverBackwards`) |
| `inv_concurrent` | `MCInventory` | 2 clients, 3 places, 4 rows, 3 requests, a place quality may hold | `TypeOK`, `NonNegative`, `LedgerExplains`, `SupplyExact` and, under fairness, `RequestsEnd` |
| `inv_serial` | `MCInventory` | 1 request at a time, a lot and a flat position in one place, statuses named by callers, holds, failures | `HoldsBlockMovement`, `HoldsStay`, and the positions implement `StockLedger` (`ImplementsLedger`) |
| `bay_concurrent` | `MCBayRuntime` | 2 clients, 2 bays, 4 requests, retries of one id on both bays, reverts, declarations | `TypeOK`, `MaterialBalance`, `OncePerRequest`, the bays implement `ProductionLog` (`ImplementsLog`), `RequestsEnd` under fairness |
| `bay_serial` | `MCBayRuntime` | 1 request at a time, 2 parts, an unmounted bay, 3 ids | `KitFollowsEvents`, `OnlyLastReverted` |
| `bay_declare_again` | `MCBayRuntime` | report, declare, report, declare | violation of `DeclaredWithinProduced`: the sum of events overwrites what was subtracted |
| `mes_flow` | `MCExecutionFlow` | 2 stations, 3 requests, 2 incidents, 1 andon, 2 handlers that may die | `ForwardWip`, `MaterialFollowsEvents`, `UnitsAccounted`, `BlockedHasClock` |
| `floor_overlap` | `MCShopFloor` | 2 requests at a time that may die, 1 station, 2 keys, 1 first piece | `NeverOvercounted` and `NoUnitBeforeFirstPiece` under any overlap of whole-row saves |
| `floor_serial` | `MCShopFloor` | 1 request at a time, 2 stations, 2 keys, 2 holds, 1 first piece | `OpenHoldBlocks`, `ShortageBlocks`, `OrderClosesItself`: the sequential logic of the gates |
| `containment` | `MCQualityContainment` | 2 requests at a time that may fail, a lot and a quarantine area, 1 hold, 1 transfer, a release, a scrap and a release that waits for itself | `RecordsSavedLast`, `ContainedUntilDecided`, `RequestsEnd` under fairness |
| `warehouse` | `MCWarehouseTasks` | 2 requests at a time that may crash, one importer, 1 call, 2 tasks, 1 unit in store | `NextNumberFree`, `ImportedOnce`, `CompletedMoved`, `DeliveryCloses` under fairness |

**Bounds.** `MaxJobs` (requests started), `MaxNext` (counter), `LastMonth` (calendar),
`MaxTasks` and the sets of ids are the only bounds; each is a constant and a guard. Two
requests are enough for every race seen: an atomicity error needs one request between
two steps of another, a cycle of locks two. The third allocator of `num_provisioned` is
there for a wait behind a waiter. Three or four requests in sequence reach every state
of a kit (report, revert, report again) and every candidate of a supply (all of it, a
rest, nothing). In `mes_flow` the two requests of the first station confirm more than
the plan, so that the guard refuses one, and the third depends on what the first
station released; the andon gives the reason of a quality block, the one case in which
two causes share a clock. In `warehouse` the second task wants the unit that the first
one takes. `CHECK_DEADLOCK FALSE` is set where the bounds run out or a plant may be
idle; that no request hangs is `RequestsEnd`.

**Serial and concurrent.** `OneAtATime` (or one worker) lets a request start only when
none is in flight. Some properties hold only then, because the code does not lock:
`HoldsBlockMovement`, `HoldsStay`, `TotalCountsIssued`, `CounterNeverBackwards`,
`KitFollowsEvents`, `OnlyLastReverted`, `ImplementsLedger` and the three of
`floor_serial`. With two requests at a time TLC finds counterexamples: a hold that
commits between a check and a save, a start of the line while the last report commits,
a report that commits between a revert's look for a later event and its lock of the
material, a copy of the order loaded before a hold blocked it and saved after.

**Fairness.** `FairSpec` is fairness of the steps of a request that has started: the
server runs every promise and PostgreSQL every statement. It includes the detection of
deadlocks, which PostgreSQL performs after `deadlock_timeout`. Nothing is assumed of
new requests, of failures, or of quality. Weak fairness is enough for Inventory,
BayRuntime and WarehouseTasks: a lock holder always has an enabled step, or is in a
cycle that is broken. QualityContainment has strong fairness, since a request that
waits for two rows may see each of them come free at another time; PostgreSQL grants a
row lock in the order of arrival, so it gets both.

**What the models contain and no property excludes.** Read these as limits of the
properties above, each a behaviour of the model that a changed constant brings out:

* The first use of a document type without a row: there is nothing to lock, two
  requests insert a row each, and folio 1 is issued twice. Provisioning the type
  before its first use avoids it.
* `update()` of a document type saves the counter it read, so an allocation in
  between is lost.
* A type whose policy and pattern go from yearly to monthly and back within the year
  repeats folios of that year, one request at a time: the months restart the counter,
  the edit back does not look at what the year had reached.
* Two transfers from one position both debit the copy they read (`recordTransaction()`
  locks nothing); `LedgerExplains` is about rows that were not raced.
* A supply that names no lot takes from a position with a lot.
* A report sent twice drains the line tank twice: the second is refused after its
  consumption has committed.
* An incident that does not block, reported on a station that another one blocked and
  that has good units left, puts the station back in process.
* A disposition that is executed twice at a time, or again after a step failed, issues
  its goods twice; a release disposition with a hold waits for itself.
* A call imported by two requests at a time may get two pulls, and the count of one
  tenant gives a number that another tenant has, which the unique index refuses.

## 4. Proofs

All theorems are about `Spec`, for arbitrary sets of clients, rows, places, bays,
parts, stations and arguments, under the named assumptions of the component's module
(null markers outside of the data, quantities that are positive, initial rows well
formed, and rows, requests and keys finite where they are counted or summed). Every
safety property a passing run checks is stated by a theorem. Where a run needs a
hypothesis, so does its theorem: `OneAtATime`, one tenant, one importer.

Sums and counts need induction, which the provers do not do. `FunctionSums` replaces it
by a smallest counterexample: among the finite sets that violate a claim there is one
with no smaller one inside (`MinimalSubset`), and taking an element from it gives the
contradiction. From that: a sum is well defined, a natural number, and changes by what
one argument changes (`TotalNat`, `TotalExtend`, `TotalChange`, `SumZero`).

* `DocumentNumberingProofs`: `TypeCorrect`. For any number of concurrent allocators,
  `FoliosAreUnique` and `TotalIsExact`, from the extra hypotheses that the type is
  provisioned with one row and has no admin at work (without the first two allocators
  insert a row each, see above). The invariant says that the entity of the lock holder
  is the row, that every issued folio of the current window lies below the counter, and
  that the folios rendered and not yet issued lie at or above it.
  When requests do not overlap, `CounterOnlyGrows`, `FoliosAreUniqueSerially` and
  `TotalIsExactSerially`, with provisioning on first use and edits. The last two take
  the hypothesis `Disciplined`: the reset policy stays and every pattern prints at
  least the window it resets on; TLC finds the repeated folio without it. The invariant
  (`Orderly`) is that the row, or the copy about to be saved, accounts for what was
  issued.
* `InventoryProofs`: `TypeCorrect`; `StockNeverNegative`, because every entity in
  memory was checked against its own copy and a save writes that copy, whatever
  happened to the row; `LedgerExplainsStock`, whose invariant relates each row, its
  one uncommitted writer, the copies being held and the movements booked: a row not
  marked as raced equals the sum of its movements; `SuppliesAreExact`, because moved,
  in transit and left to take always add up to what was asked, and the candidates that
  remain cover what is left, under any overlap.
  When requests do not overlap, `HoldsAreRespected` and `HoldsAreKept` (the copy in
  memory is the row until it is saved), and `InventoryImplementsLedger`: only `Commit`
  moves the ledger. Its invariant (`Posting`) says what the pending writes of the
  request add to the source and to the destination; one row that changes changes the
  sum of its place by the same (`OneRowChanges`).
* `BayRuntimeProofs`: `TypeCorrect`, `RequestsAreRecordedOnce`, `MaterialIsBalanced`
  and `ReportsImplementLog` under any overlap. The invariant `Inv` has four parts:
  types (`CoreType`), committed events that come from reports and have one id each
  (`EventsOK`), what each request knows of the rows it locked (`ClientOK`: parts done
  are checked and used, parts to do are as they were, the new id is unused), and what
  locks and the unique index exclude between two requests (`Apart`). `OncePerRequest`
  alone is not inductive: the commit of a report needs that nobody committed its id
  since the insert checked the index. The balance of material holds because who writes
  the material of a bay has locked it since before it read. In the refinement only
  `CommitEvent` and `CommitRevert` move the abstract log. When requests do not overlap,
  `KitIsFollowed` and `OnlyLastIsReverted`.
* `ExecutionFlowProofs`: `TypeCorrect`, `WipIsForward`, `MaterialIsExact`, `UnitsAddUp`
  and `BlockedIsClocked`, for any number of stations. A handler writes counters it read
  before, so none of them is inductive: `Exclusive` says which handlers can be in
  flight at a station, `Fresh` that what such a handler read of its station is still
  there and that the station before it has since released no less, once what was taken
  back is counted; `Clocks` that a clock which names an andon was asked for by that
  andon, and the andon is still open.
* `ShopFloorProofs`: `TypeCorrect`, `UnitsNeverOvercounted`, `FirstPieceFirst` for
  requests that overlap and die. A stale copy of the row may be saved at any time, so
  the invariant bounds the count of every copy in memory, not of the row alone, by the
  events whose unit is not still to be counted (`Settled`); a copy that says approved
  means an inspection was signed.
  For one request at a time, `HoldsBlockTheOrder`, `ShortLineStopsTheOrder` and
  `OrderIsClosed`. In the middle of a request the order is wrong (a hold is open and the
  block still to be saved), so the invariant (`Serial`) speaks of the row and the holds
  as the running request will leave them (`RowAfter`, `HoldAfter`): the steps that only
  carry a change out leave those as they are, and the steps that decide one are the few
  to look at.
* `QualityContainmentProofs`: `TypeCorrect`, `SavedLast`, `Contained`. `StepsDone` says
  what has been done by the time a request reaches each step; it survives the failure
  of others because holds are released for good and the histories only grow.
* `WarehouseTasksProofs`: `TypeCorrect`, `CompletedHaveMoved`; `NumbersFree` with one
  tenant and `CallsImportedOnce` with one importer, the hypotheses of the run. A copy
  in memory has the identity of its row and says completed only if the task moved; the
  numbers of one tenant are dense, 1 to the count, because a clash inserts nothing.

| Proved for all instances | Property |
| --- | --- |
| any overlap of requests, with failures | `TypeOK` of every module, `UniqueFolios` and `TotalCountsIssued` (provisioned, not edited), `NonNegative`, `LedgerExplains`, `SupplyExact`, `OncePerRequest`, `MaterialBalance`, `ImplementsLog`, `ForwardWip`, `MaterialFollowsEvents`, `UnitsAccounted`, `BlockedHasClock`, `NeverOvercounted`, `NoUnitBeforeFirstPiece`, `RecordsSavedLast`, `ContainedUntilDecided`, `CompletedMoved`, `NextNumberFree` (one tenant), `ImportedOnce` (one importer) |
| requests that do not overlap | `UniqueFolios` and `TotalCountsIssued` (provisioning and edits), `CounterNeverBackwards`, `HoldsBlockMovement`, `HoldsStay`, `ImplementsLedger`, `KitFollowsEvents`, `OnlyLastReverted`, `OpenHoldBlocks`, `ShortageBlocks`, `OrderClosesItself` (these three also without crashes) |

The hypothesis of the second row is not a convenience of the proofs: for each of them
TLC has a counterexample with two requests at a time (section 3), and for the three of
the shop floor also with one request that dies between two saves.

Model-checked only: liveness under fairness (`RequestsEnd`, `DeliveryCloses`), which is
out of the prover's reach, and the violation of `DeclaredWithinProduced`.

## 5. What is not modelled

Quantities are whole: rounding to six decimals and the tolerance of 1e-9 are left out.
One tenant (except in WarehouseTasks), one part (Inventory, QualityContainment,
WarehouseTasks), one kit (BayRuntime), one order (ExecutionFlow, ShopFloor), one
document type. Audit rows, the event ledger and views change nothing that the models
read. Callers are assumed to pass positive quantities to `recordTransaction()`; it does
not check. The connection pool of the driver is taken as large enough: a report holds
one connection while the inventory asks for two more, so as many reports as the pool
has connections would wait for one another.

Of the components without a model, three groups remain; `PROJECT.json` has the reason
for each.

* **The same pattern again.** Returns, receiving, outbound, cycle counts, material
  requests and routing backflush each save a status around one or more calls of
  `recordTransaction()` or `transferToLine()`. What can go wrong in them is what
  Inventory and WarehouseTasks show: the movement commits apart from the status.
* **State apart from the flow of material.** Plans and pick lists before an order is
  published, journals and periods, NPI gates, advances, maintenance, suppliers: records
  with a status each. They would be models of their own that compose with none of these.
* **No protocol to model.** Pure functions (netting, explosion of a BOM), queries,
  dashboards, the web front end with its graphical editors, calls of a language model,
  seeds and migrations. Most of the source is here, which is why the models cover a
  small share of its lines.

# Verification of techno

TLA+ models of the sales, stock and accounting system in this repository, the
TLC runs that check them on small instances, and TLAPS proofs about them.
Paths below are relative to the repository; `services/`, `api/`, `models/`,
`lib/` and `core/` are under `src/backend/src/`.

Check a run with `tlc -config X.cfg M.tla` and a proof with `tlapm M.tla`.
`PROJECT.json` lists the components, the runs, the source lines every
definition stands for, a mutant for every checked property, the hazards of the
code, the findings and the theorems.

1. The system
2. The modules
3. The runs: what they check, what they show, bounds, fairness
4. The proofs
5. Known limits of the code that the models met
6. Not modelled
7. Plan

## 1. The system

A FastAPI server over PostgreSQL serves a browser and desktop client, a
Flutter app whose users work offline, and agents that carry the logs of
fingerprint devices. A request is one handler on one database session
(`core/db.py:28-38`): it reads rows, calls services, and the endpoint commits;
an exception closes the session, which rolls back. The isolation level is
PostgreSQL's default, READ COMMITTED. So the server's components interact
through tables only, and what is hard is

- what happens between the reads of a request and its commit when another
  request commits in between (few reads take a lock);
- what a long sequence of edits, reversals and deletions leaves of a document
  whose rows live in several tables;
- what clients do that lose answers, are killed, and send again.

| Component | State | Operations | Interacts with | Hard | Correct when | Module |
|---|---|---|---|---|---|---|
| Stock ledger (`services/stock_service.py`) | `stock_movement`, `stock_locator` (lock anchors) | `post_movement`, `on_hand`, `reverse_movement` | everything that moves stock | check and insert of racing requests, first use of a locator, lock order | never negative unless the caller allows it; a request is atomic and ends | `StockLedger`, `StockBook` |
| Stock transfers (`transfer_service.py`) | transfers, their lines and movements | create, approve, approve what there is, reject, cancel, delete, revise, edit lines | ledger, app | status read without a lock; a revision's differences | what is approved has moved its lines, once; else nothing | `Transfers` |
| Permits, wastage, counts (`stock_permit_service.py`, `wastage_service.py`, `stock_count_service.py`) | papers, their movements, lots | create, edit, reverse, delete, count, post | stock, lots | mirrors filed under another document; lots kept beside stock | movements are the papers' lines; lots add up | `StorePapers` |
| Purchases (`purchase_service.py`) | purchases, returns | buy, return, edit, delete | stock | what was returned before is read without a lock | no more goes back than was bought | `Purchases` |
| Sales (`sales_service.py`, `document_edit_service.py`, `serial_service.py`, `batch_service.py`) | invoices, returns, pieces, lots | sell, return, edit, delete | stock, coupons | the same; an edit purges and builds again in four tables | what moved is what the documents say | `Sales` |
| Coupons (`coupon_custody_service.py`, `coupon_receipt_service.py`) | loads, numbered sheets, receipts | load, give back, hand out on invoices, bring in, approve, reject, edit, delete | sales | one sheet passes through many documents | one holder; handed to one customer | `Coupons` |
| Reconciliation (`reconcile_service.py`) | residuals, links, groups, `payment_state` | reconcile, automatic, undo | entries | no locks; chained groups | the residual is the amount less the links; groups open and close whole | `Reconcile` |
| Journal and hash chain (`ledger_service.py`, `journal_service.py`, `secure_hash_service.py`, `lock_date_service.py`) | entries, sequences, digests, lock date | post, draft, rewrite, reset, cancel, reverse, replace, delete, lock | every money document | who is next in the chain; what is sealed or locked | one unbroken chain; what is locked stays | `Journal` |
| Vouchers, cheques, boxes (`voucher_service.py`, `cheque_service.py`, `treasury_service.py`, `cash_box_service.py`) | vouchers, cheques, balances | pay, receive, move, settle, bounce, edit, reverse, delete | journal | balance or status read, then used | books are what the documents say; no overdraft | `Cash` |
| Fixed assets (`fixed_asset_service.py`) | assets, monthly charges | buy, depreciate, reverse, dispose | journal | month run twice, disposal meanwhile | each month charged once; salvage kept | `FixedAssets` |
| Fleet (`fleet_service.py`) | vehicles' records, drivers | record, link a voucher, assign | vouchers | records made by vouchers and by hand | an expense counted once; one driver | `Fleet` |
| Production (`manufacturing_production_service.py`) | orders, materials, receipts | draft, confirm, stages, receive, execute, edit, reverse | stock | undoing part of an order in any order | moved is what the order says | `Production` |
| Inspections and points (`inspection_service.py`, `points_service.py`) | visits, their movements and points | create, reject, accept, delete | stock, custodies, app | accepted again after the custody changed hands | out of one custody, points once | `Inspections` |
| Payroll (`salary_service.py`, `payroll_service.py`, `advance_service.py`) | runs, lines, advances, adjustments | calculate, post, unpost, pay | journal, attendance | a draft shows what was due when it was made | what was held back was taken, once | `Payroll` |
| Attendance and leave (`attendance_service.py`, `attendance_device_service.py`, `leave_service.py`) | punches, days, leave | receive, rebuild, enter, import, delete, approve, cancel | payroll locks days | four writers of one row | the row shows its source; locked rows stay | `Attendance` |
| Fingerprint agent (`src/tools/zk_agent/`) | state file | run | device, server | overlapping runs, lost answers, erased logs | every punch arrives | `PunchAgent` |
| Offline queue (`src/mobile/lib/`) | local documents with a sync mark and a `client_uuid` | save, edit, delete, push, pull | server endpoints | lost answers, edits during a push, killed app, two pushes | each document reaches the server once | `OfflineSync` |
| Live events (`lib/live_events.py`, `api/live.py`, `src/frontend/src/utils/live.ts`, `api/client.ts`) | queues of streams; the browser's cache | announce, stream, refresh, stop | all requests | full queues, lost streams, answers that overtake | the screen shows the last change in the end | `LiveScreens` |
| Login guard (`core/login_guard.py`) | failure counter in memory | check, fail, succeed, expire | login | two logins under way | few failures; no lock without cause | `LoginGuard` |
| The rest | | | | | | section 6 |

## 2. The modules

    StockBook           what the ledger promises: commits are atomic and funded
       ^ refined by
    StockLedger         requests, locks, movements  <- StockLedgerProofs (TLAPS)
       ^ EXTENDS, and refined by
    Transfers           transfer documents          <- TransfersProofs (TLAPS, with MCTransfers)

    FiniteTheorems      sums, counts and chains of finite sets (TLAPS)
    HoldingsProofs      MCHoldings: Reconcile, StorePapers, Purchases, FixedAssets
    DocumentsProofs     MCDocuments: Sales, Coupons, Attendance
    MoneyProofs         MCMoney: Cash, Journal, Fleet
    OperationsProofs    MCOperations: Production, Inspections, Payroll, LiveScreens, LoginGuard
    SyncProofs          OfflineSync, PunchAgent

    MCStockLedger       StockLedger
    MCTransfers         Transfers
    MCHoldings          Reconcile, StorePapers, Purchases, FixedAssets
    MCDocuments         Sales, Coupons, Attendance
    MCMoney             Cash, Journal, Fleet
    MCOperations        Production, Inspections, Payroll, LiveScreens, LoginGuard
    MCSync              StockLedger, OfflineSync (MCOfflineSync), PunchAgent

`Transfers` is composed with the ledger, `Sales` holds both stock and the rows
beside it, `Cash` includes cheques and boxes, `Inspections` includes custodies.
Components that meet only through the numbers they exchange are modelled one by
one. An MC module with several of them has a variable `world`: a behaviour
takes place in one world, where one component moves and the others rest. Where a
property holds only for requests served one at a time, or while nobody does a
certain thing, the world says so (`..._alone`, `..._quiet`) and the property
names the world; section 5 says what happens outside.

A definition marked "Wrong on purpose" is the mutated form of the definition
after it (a bug that code could have had) and no specification uses it.

**How requests are modelled.** A request that reads and later writes, where the
interval matters, is two or more steps: the first keeps what it read in a
variable (`req`, `job`, `asked`, `asking`, `errand`, `request`, `posting`,
`verifying`), the last writes and commits. The other requests of a component
run at one instant. What a request does before its commit is seen by nobody
else; a failure in between is a step that drops the request. Texts, dates that
nothing compares, audit rows, document numbers and branch authorisation are
left out everywhere. Prices and taxes are left out of `Sales` and `Purchases`:
they decide amounts of an entry, not which rows there are.

### StockLedger, StockBook

A transaction of `Txn` is one request. `Begin` opens its session, `Request`
is the call of `post_movement` (`stock_service.py:127`), `LockLocator` is the
`SELECT ... FOR UPDATE` of `_lock_locator` (line 26), `MissLocator` is that
select finding no row, `InsertLocator` the insert that follows,
`LocatorTaken` its failure on the unique constraint, `InsertMovement` the
check of `on_hand` and the insert of the row, `NotEnough` the `StockError`.
`Commit` and `Rollback` end the session; `DeadlockVictim` is PostgreSQL ending
a cycle of waiters. The program stores no on-hand: `on_hand` adds up the rows a
transaction can see. The model keeps the two halves of that sum, `balance`
(committed) and `delta` (own, uncommitted). `Overdraft` is the set of locators
some caller posts to with `allow_negative=True`.

`StockBook` is the abstract specification: a state is a balance, and a step
applies a sequence of movements all at once, each funded by those before it.
`Serializable` says StockLedger implements it: a request that committed could
have run alone at the instant of its commit.

### Transfers

A request is a `Start...` step that reads the transfer, its lines and the
on-hands it needs, without locks, as the handlers do, and decides; then one
`PostNext` and the ledger's own steps for each movement; then a `Finish...`
step, its last flush and the commit. `req` keeps what it read, `todo` the
movements it has still to post, and `moved` the committed movements of a
transfer added up by locator. `LedgerAbort` is every exception before the
commit. What `Finish...` writes is what SQLAlchemy writes: an attribute that
was assigned, where it differs from what was read. An UPDATE of a row that is
gone raises `StaleDataError` (`RowsAlive`, `LinesAlive`); a DELETE of one does
not. `DropMovements` is the bulk DELETE of `_drop_movements`, which takes no
locator's lock. A sale stands for any other user of the stock.

Abstractions: the reads of one handler are one step (`approve_available` reads
the lines again when it calls `approve`); the early flushes of `revise` and
`approve_available` are folded into the last; two requests that wait on each
other's document rows are ended as any other failure before the commit.

### StorePapers, Purchases, FixedAssets, Reconcile

**StorePapers.** A permit is a row, its lines, `permitRows` (its movements) and
what it did to lots; `mirroredRows` are the movements reversed, since a movement and
its mirror always come as a pair. A permit is edited by dropping and posting
anew, reversed by a permit of its own, deleted with its movements. `FirstOut`
is the first-expiring-first of `consume_fefo`. A count keeps what the clerk
typed and what the book said; posting writes the differences.

**Purchases.** `AskBack` reads what was bought and given back, `PostBack` posts
later. Returns of no purchase, edits and deletions run at one instant.

**FixedAssets.** `errand` is what a depreciation run, reversal or disposal has
read; the charge of a month is `lib/depreciation.py` in hundredths.

**Reconcile.** The lines are those of one reconcilable account. A request reads
(`StartReconcile`, `StartAutoReconcile`, `StartUndoLines`, `StartUndoGroup`,
`StartPost`, `StartReset`, `StartCancelEntry`) and later writes
(`FinishReconcile`, `FinishUndo`, `FinishPost`, `FinishRelease`), or fails.
`Matched` is the loop of `reconcile`: `Pair` is one round, which pays the open
debit that matures first from the open credit that does, and as many rounds as
lines are enough, since each uses up one. `Component`, the least set of lines
that links do not lead out of, is what `_connected_component` reaches. The
foreign key of
`partial_reconcile.full_reconcile_id` is a guard of `FinishUndo`. The component
that `_close_if_done` reads is read at the commit.

### Sales, Coupons, Attendance

**Sales.** One item that has serial numbers or lots (`tracking`). An invoice's
quantity, its pieces and its lots live in three places; an edit purges
(`purge_sale`) and creates again, a deletion purges, a return restores.
`AlreadyReturned` is read without a lock by a return, which posts later.

**Coupons.** A sheet's row says whose custody it is in and on which invoice or
receipt it was. `Handed` is `consume_for_invoice`, which passes over numbers
that nobody loaded; `ReceivedKept` is `assert_received_kept`.

**Attendance.** A day's row comes from punches (`RebuildDays`), a hand, an
imported table or a leave, and each may come upon another's. Employees' device
numbers are given and taken away, and the punches of a number are claimed by
whoever has it (`Reprocess`). A posted payroll run locks rows.

### Cash, Journal, Fleet

**Cash.** A voucher or a cheque is a row and what it put in the books; boxes
are hidden, shown and made the default. Payments read the balance, and cheque
requests the status, then post.

**Journal.** A request that posts is two steps: `Begin` checks the lock date,
takes the sequence row if the entry needs a number (it holds it until the
commit), and reads the end of the chain; `Commit` writes. A digest is the record of all that went into it, so two digests are equal only
if everything below is. `ChainIntact` is `check_journal`.

**Fleet.** Records of cost are made by hand and paid by a voucher that names
them, or made by a voucher on the account of a vehicle; drivers are assigned.

### Production, Inspections, Payroll, LiveScreens, LoginGuard

**Production.** `moves` are the movements of an order by stage and line,
`mirrored` those reversed. Starting, the following stage, receipts in parts and
execution each issue what is still to be issued. `perpetual` chooses whether
materials pass through work in progress, and may be switched while an order is
under way: the row of a material remembers where it was taken from. A reversal
is an order of its own with no rows; the mirrors are those of the order it
reverses.

**Inspections.** `outs` and `undone` are a visit's movements; a visit refers to
those of its last deduction. Custodies change hands and are hidden meanwhile.

**Payroll.** A run is calculated, refreshed line by line, posted, paid, and
undone by `reversal_seq`. `Consume` marks the instalments and adjustments due.
`Pay` is the payment of `salary_service.py`, of chosen employees, which remits
their insurance too.

**LiveScreens.** `queue` is each stream's; `link` is the browser's stage
(down, with a ticket, open) and `downSince` whether a stream or a ticket failed
before: the first connection refreshes nothing. `shown`, `due`, `pending` and `load` are
the screen, `entry`, `gets`, `joinable` and `saving` the cache of answers.

**LoginGuard.** A login looks, verifies, records: the lock is taken in the
first and last step only.

### OfflineSync, PunchAgent

**OfflineSync.** A task of the app runs a plan of steps (push a kind, pull); a
push reads its queue once and posts document by document. A request travels on
a connection of `Conn`; it or its answer may be lost, it may be served after
its sender gave up, the app may be killed between any two steps, the user may
edit and delete while it runs, the office may edit and delete on the server. A
`client_uuid` the server knows is answered with the row it has. A transfer
counts as sent only if the answer has as many lines as the request (`Complete`),
and is marked by its own row where other documents are marked by uuid (`Marked`).

**PunchAgent.** A run reads its state file, counts the records of the device,
reads the log if the count changed, and sends batches; it may be cut off
anywhere, or overlap another run. Clocks go back by no more than the overlap.

## 3. The runs

States are the distinct states TLC found.

| Run | Instance | Checks | States |
|---|---|---|---|
| `stock_ledger_safety` | 2 requests of up to 2 movements; a stocked locator, one that may be overdrawn, one never used | `TypeOK`, `NonNegative`, `OneWriter`, `Serializable` | 632K |
| `transfers` | 1 transfer; one request at a time with all ten operations and up to 5 lines over its life, or 2 requests of any two kinds | `MovedAsApprovedAlone`, `AutoApprovalAlone`, `PendingMovesNothing`, `StockIsExplained` | 729K |
| `transfers_ledger` | 2 transfers of 2 items in opposite orders, revised and approved while the van sells | `ImplementsLedger` | 137K |
| `holdings` | two invoices and a payment entry (4 lines); 3 permits, wastage, a count, 2 stores, an item in lots; 2 purchases, 2 returns; 2 assets, 3 months | `ClaimsAddUp`, `PermitsAddUp`, `ReturnedWithinBoughtAlone`, `AssetsAddUp`, `OldestFirst`, `LackedStep` | 509K |
| `documents` | 2 invoices, 2 returns, 2 pieces or 2 lots; 3 loads of 2 sheets, 2 representatives, 2 bills, 2 receipts; 2 employees, 3 days, 2 leaves | `SalesAddUp`, `ReturnedWithinSoldAlone`, `CouponsAddUp`, `DaysAddUp`, `LockedStep` | 528K |
| `money` | 2 vouchers, 2 cheques, 2 boxes; 3 entries, 2 journals, 2 months, 2 requests that post; 2 vehicles, 2 records, 2 vouchers | `CashAddsUp`, `ChainIntactRace`, `FleetAddsUp`, `Overdrawn`, `HeldFast` | 823K |
| `operations` | an order with its reversal or a second order; 2 visits; 2 employees, 2 months; 2 streams with queues of 1; 2 logins | `ProductionAddsUp`, `OverdrawnStep`, `VisitsAddUp`, `PayrollAddsUp`, `GuardHolds`, `BehindOnlyForAMoment`, `ShowsTheLast`, `StopsWhenTold` | 559K |
| `sync_safety` | an invoice and its bonus, or an inspection and a transfer; 2 pushes, 2 connections, 2 faults; 4 punches in batches of 2 | `ReachedOnce`, `NeverLost`, `BonusIsLinked`, `NothingSkippedInMonth` | 2.23M |
| `liveness` | 2 requests, 2 locators in either order; an invoice and a receipt, or 2 transfers, 1 fault; 3 punches | `EveryRequestEnds`, `AgreeInTheEnd`, `PunchesArriveAlone` | 253K |

What they show, besides that the properties hold:

- The ledger's FOR UPDATE row makes check-then-insert atomic, the first use of a
  locator included; what every committed request did is one funded step of
  `StockBook`.
- Documents undo themselves exactly, in any order of edits, returns, reversals
  and deletions, for stock, lots, pieces, sheets, books, points and
  instalments; where they do not, section 5 says which sequence and the
  property names the condition.
- What the app saved is never made twice and never lost, whatever is lost or
  killed, since the `client_uuid` is looked up before the insert and unique.
- The state file of the fingerprint agent never lets a later run pass over a
  punch, within one month, although runs overlap and are cut off.
- Between two failures no further apart than a lock lasts, no more failures are
  recorded than set the lock off and logins then under way add
  (`FailuresAreFew`); over longer times old failures are forgotten, and with the
  constants of the code (5 in 300 seconds, locked for 900) no bound per hour
  follows from it.
- A browser's cached list is behind only while an announcement is on its way,
  a queue was full, or an answer outlived its stream.

Violations, each a counterexample to what a document or message of the
repository says (`findings`):

| Run | Property | What the code does |
|---|---|---|
| `transfers_two_approvals` | `ApprovedMovesOnce` | Two approvals read the transfer pending (`transfer_service.py:121`) and both move it. |
| `locked_month` | `LockedStays` | A document of a locked month is edited or deleted, and its posted entry goes with it (`document_edit_service.py:103`). |
| `month_end` | `FirstRunOnly` | Every run starts at the first day of the current month when `since_date` is empty (`zk_agent.py:248`), so the first run of a month passes over what the last could not send. |

### Bounds

Every bound is a constant or a set in the cfg or the MC module.

- Two requests are enough for the races of these handlers: each hazard is one
  request deciding on what another changes. The theorems about the ledger hold
  for any number.
- Two documents of a kind let one take what another gave (a piece, a sheet, a
  lot, a place in the chain); a third, where there is one, lets both be undone
  around it (permits, loads, entries).
- `MaxPosts`, `MaxOnHand` (StockLedger): two movements in a request are the
  least that can wait in a cycle and the least that can share one stock; an
  on-hand of two lets two requests both pass a stale check. In the transfer
  runs both are 20 and never reached. `MaxLineId` 5 covers a draft of two
  lines, one added and a revision; in a race the identifiers stop at 3 before
  a change. `Qty` is 1..20 there: five lines at most, of at most four each (a
  revision's two of two, merged), so that it keeps no request from
  posting what it plans.
- `MaxLink` 6 (2 in the race) links; a race may make one more than it tests.
- `PapersBounded`, `YardsBounded`: sales beside the papers take at most one
  item of a store, or two of a yard, more than papers brought; lots hold -2..3.
  In "papers" two permits live at once and papers are undone in order.
- `MaxReceipts`, `MaxTurns`, `MaxRuns` 2: the second receipt, deduction or run
  is the first that comes upon another's rows.
- `MaxChange`, `MaxLoss`, `MaxStops`, `QueueMax`: two changes tell the last from
  an earlier one; a queue of one is full at once.
- The second order of a production is a reversal, or an order that was executed
  and stands, untouched, beside all that happens to the first.
- `LineCount` (OfflineSync): every version of a document has one line, but an
  edit of the second transfer, in `liveness`, has two.
- `EndOfTime` 7 lets a lock of 2 and the forgetting after 3 happen twice.
- `MaxVersion`, `MaxFault`, `Together`: versions of a document, faults and
  office edits, and which documents one behaviour saves. Each fault is of any
  kind at any time; two cover a lost answer followed by a crash of the retry.
- `Batch` 2, `Overlap` 1, `MaxCuts` 1: four punches are two batches. With more
  punches in the overlap than a batch, and every run cut after its first
  batch, no run would get further; that is why cuts are counted.
- Symmetry is used over names that no definition tells apart, and never where
  a liveness property is checked.

`CHECK_DEADLOCK FALSE` is set where the instance ends once its documents are
used up, its faults spent or its clock at the end; `stock_ledger_safety`
checks deadlock.

### Fairness

- **Requests** (`Fairness` of StockLedger): weak fairness of a request's own
  steps, since a handler runs to its end and PostgreSQL's deadlock detector
  ends a cycle of waiters; strong fairness of `LockLocator` and
  `InsertLocator`, since the lock queue of a row serves its waiters, while a
  weakly fair request could be overtaken for ever. Nobody need send anything:
  `Begin` and `Request` are not fair.
- **The app** (`PhoneFairness`): a task that has begun goes on, a request that
  arrived is served, and the automatic synchronisation is started again and
  again (its timer and its connectivity listener). Faults are finitely many;
  nobody need press a button, edit or delete.
- **The agent** (`AgentFairness`): the scheduler starts it again and a run goes
  on. Its steps follow one another and one of them is enabled, so fairness of
  their disjunction is what the scheduler gives. Cuts are finitely many.
- **Live events** (`LiveFairness`): announcements that are due are made (they
  run after the response), streams take what is in their queues and end when
  told, the browser asks for a ticket, connects, receives, fires its timer and
  renders. Nobody need change anything or look at the screen.

## 4. Proofs

Proved by TLAPS for every value of the constants (any number of requests,
documents, pieces, boxes, employees, streams, ..., any quantities and bounds),
from the named assumptions that the modules make about them.

| Module | Theorem | Says |
|---|---|---|
| `StockLedgerProofs` | `TypeCorrect` | `Spec => []TypeOK` |
| | `NeverNegative` | `Spec => []NonNegative` |
| | `SingleWriter` | `Spec => []OneWriter` |
| | `LedgerSerializable` | `Spec => Serializable`: the ledger implements `StockBook` |
| `TransfersProofs` | `NothingMovesWhilePending` | `TransferSpec => []PendingMovesNothing` |
| | `TransfersConserve` | `TransferSpec => []TransferConserves` |
| | `StockExplained` | where `Ops` has no sale, `TransferSpec => []StockIsExplained` |
| | `TransfersImplementLedger` | where `Ops` has no cancel and no delete, `TransferSpec => ImplementsLedger` |
| | `TransfersNeverNegative`, `TransfersSerializable` | so, there, `TransferSpec => []NonNegative` and `TransferSpec => Serializable` |
| | `MovedWhenAlone`, `MovedAlone` | `AloneSpec => []MovedAsApproved`, and so `MCSpec => []MovedAsApprovedAlone` |
| | `GivenWhenAlone`, `GivenAlone` | `AloneSpec => [][AutoApprovalGives]_transferVars`, and so `MCSpec => AutoApprovalAlone` |
| `HoldingsProofs` | `AssetsChargedOnce` | `Spec => []AssetsAddUp` |
| | `GivenBackWasBought` | `Spec => []ReturnedWithinBoughtAlone` |
| | `LackedOnlyByUndoing` | `Spec => LackedStep` |
| | `StoresAddUp` | `Spec => []PermitsAddUp` |
| | `MatchesAddUp` | `Spec => []ClaimsAddUp` |
| | `PaysOldestFirst` | `Spec => OldestFirst` |
| `DocumentsProofs` | `DocumentsUndoThemselves` | `Spec => []SalesAddUp` |
| | `ReturnsFit` | `Spec => []ReturnedWithinSoldAlone` |
| | `SheetsAccountedFor` | `Spec => []CouponsAddUp` |
| | `DaysHaveOneStory` | `Spec => []DaysAddUp` |
| | `LockedDaysStayInWorlds` | `Spec => LockedStep` |
| | `LockedDaysStay`, `LeaveWithinQuota` | locked rows stay, and leave keeps within its days, under every operation of `Attendance` at once, in no world |
| `MoneyProofs` | `CashBooksAddUp` | `CashSpec /\ []NoTwoDecide => []CashAddsUp` |
| | `BoxesOverdrawnOnlyByUndoing` | where no request is interrupted, `Overdrawn` |
| | `JournalTyped`, `EntriesHeldFast` | `JournalSpec => []JournalTypeOK` and `=> HeldFast` |
| | `ChainUnbroken` | within one year, while entries are new, requests that race leave every chain whole |
| | `ChainsWholeInWorlds` | within one year, `Spec => []ChainIntactRace` |
| | `DriversToldApart` | `FleetSpec => []`(no driver on two vehicles) |
| | `FleetCountsOnce` | where records are left to their vouchers, `FleetAddsUp` |
| `OperationsProofs` | `ListBehindForAMoment` | `LiveInit /\ [][LiveNext]_liveVars => []BehindOnlyForAMoment` |
| | `GuardAlwaysHolds` | the same of the login guard and `GuardHolds` |
| | `VisitsStandOrFall` | `InspectionInit /\ [][InspectionNext]_inspectionVars => []VisitsAddUp` |
| | `OrdersMoveAsTold` | `ProductionInit /\ [][ProductionNext]_productionVars => []ProductionAddsUp` |
| | `OverdrawnOnlyWithLeave` | of the same steps, `OverdrawnStep` |
| | `SalariesAddUp` | `Spec => []PayrollAddsUp` |
| `SyncProofs` | `OfflineInvariant`, `DocumentsReachOnce`, `NothingSavedIsLost`, `BonusesStayLinked` | `OfflineSpec => []ReachedOnce`, `[]NeverLost`, `[]BonusIsLinked` |
| | `PunchesWaitInReach` | the agent's steps `=> []NothingSkippedInMonth` |

None of these properties is inductive by itself. What each needs besides:

**The ledger.** Nothing in `NonNegative` says why the check of one request is
still true when it inserts. `IInv` adds `LockInv` (whoever has uncommitted rows
at a locator, or is past the lock there, holds its lock, and only locators of
`Overdraft` are called with `negative`) and `VisibleNonNegative` (what each
request sees is not negative). Two requests with rows at one locator would both
hold its lock, which gives `OneWriter`; a commit adds the rows of the only
writer, whose view was not negative.

For `Serializable`, `SInv` adds `Posted`: what a request has uncommitted is what
its posts bring, and each of them is funded by the committed stock of now and
the posts before it. The check of `post_movement` makes that so of the last
post (`InsertStep`); it stays so although others commit, since the request holds
the lock of every place it posted to and they have no rows there (`EndStep`).
A commit then applies the posts in one step of `StockBook` (`CommitApplies`), and
every other step leaves the committed stock alone.

**The transfers.** `StepSplit` says every step of Transfers is a step of the
ledger, or drops the movements of a transfer. The first case carries the
ledger's theorems over; the second happens only for cancel and delete, and
without the assumption `NothingDropped` the statement is false (section 5).
`PInv` says that a request which will commit as pending has posted nothing:
edits and rejections post nothing, revisions are of approved transfers, and a
transfer never becomes pending again. `TInv` adds that what a request has
posted, is posting and will post comes in pairs (`InPairs`), so that the tally
of a transfer conserves whenever it commits, races included.

`AloneSpec` serves one request at a time (`AloneStep`). There `MovedAsApproved`
says that an approved transfer has moved its lines (`Asked`) and any other
nothing. `AInv` adds `OneServed`; `ReadsNow`, that what the request has read is
what the rows say, since nobody else commits; `MovesWanted`, that what it has
posted, is posting and has yet to post amounts at each locator to what its
operation must move (`Wanted`); and `LinesApart`, that the lines of a transfer
have ids of their own, without which a removal or a change of one line would
change another too. The movements a plan consists of add up to the flow of the
lines (`MovesFlow`); a revision's two halves, what is taken back and what is
added or what the new route moves, to the difference of the two flows
(`RevisionFlow`, over `MergedQty`, the merging of lines of one item). The lines
that `approve_available` writes are those it found, cut and chosen in order
(`CutLines`), and of each item carry the smaller of what was asked and what the
source holds, however many lines share the item (`TrimmedQty`); with nothing
moved before, that is also what `AutoApprovalGives` says of the step. In the
world "alone" the instances take steps of `AloneStep` only, so the theorems hold
there, whatever `Draft`, `Revision` and `Edit` are.

**Sums.** The tallies of the models are `SumFunctionOnSet` of the community
modules, which is a fold. `FiniteTheorems` proves what it computes (nothing for
no members; taking one member out; adding, comparing and changing terms) by a
smallest counterexample instead of an induction theorem (`LeastNat`,
`SubsetInduction` with sets in the place of predicates, since no prover here
instantiates an operator argument), and that finite sets can be put in order,
which the queue of a push needs.

**Fixed assets.** `AssetInv`: rows and what requests have read are well formed,
and no asset has two rows for a month, which is the unique constraint that
`EndRun` meets and needs no more. `AssetsAlone`, of the world `assets_alone`:
what a request under way has read is still so (`StillSo`: what it will
charge fits, the rows it will delete are there, what it will take off is what
rows charge), the
accumulated account holds what rows charge less what disposals took off, no
asset is below its salvage value, and nothing is booked on an asset not bought
yet (`UnbornUnbooked`). `MonthlyFits` is the lemma that a month's charge,
straight or declining and rounded half up, is never more than what is left.

**Purchases.** That a place comes to lack goods only by undoing a purchase
needs the types alone, and holds however requests race: `ShelfByPurchase` and
`ShelfByReturn` say how one document changes what is on the shelf, and every
other document asks for it first. `BuysAlone`, of the world `purchases_alone`:
no more went back than was bought, and what a request is about to post fits
what is left (`Fits`). That world has only requests that name an item
once, since lines are held against the purchase one by one, and leaves the
returns of purchases unedited, since an edit does not ask (section 5).

**Sales.** `SalesInv`: rows have their types; what a return logged is the
return's; each document's tally is its row; a sold piece is on a live invoice.
`AloneInv` adds that what a request is about to post fits what is left of its
invoice; it is kept by steps after which no request has asked any more, which
is the world `sales_alone`. Where requests interleave it is false (section 5).

**Coupons.** `CouponInv`: a row of a sheet says whose load it came in, and on
whose bill it is while it is given; rejected receipts bring nothing; the counts
of documents and of rows agree for each representative. `LoadedInv`, of the
world `coupons_loaded`: a sheet given is on its own bill and a sheet brought in
was given.

**Attendance.** `DaysInv`: leave of one kind keeps within its days
(`LeavesHeld`), a row made of punches shows those of the employee who has the
number now (`PunchesShown`, where rows come of punches and leaves only), and an
approved leave shows on its days (`LeaveShown`, where only leaves are made).

**Money.** `CashInv`: balances are the sum of what documents say, a cheque a
request is about is registered and pending until it decides (this is where two
deciding at once, `NoTwoDecide`, is excluded), and a mirror is opposite to an
original that exists. `JournalHeld`: a sealed entry is posted, and a request
holds a draft that is there; `HeldFast` is a property of steps and holds while
what requests under way read is still so (`UpToDate`). `ChainInv`: two requests
under way are about two entries and two journals, and each has read the end of
its chain, because the row of `journal_sequence` is held until the commit.
Hypotheses: one year (`OneYear`; the row locked is that of a journal and year),
and entries that are new (`OnlyNew`; a draft that has a number locks nothing).
Both exceptions are real (section 5).

**Live events and logins.** `LiveInv`: a list that is behind is about to be told
(`WordComes`): the announcement, the event, or the word that some were dropped
is on its way. `GuardInv`: the recorded failures since the counter began are
those of `failed`, and those since any instant within a lock's time are as few
as is claimed.

**Inspections.** `VisitsInv`: what is out for a visit is what its row refers to
or nothing, and came out of one custody at one turn (`OutHeld`); `TurnIsNew`
keeps the movements of two deductions apart. For each visit the deductions of
points and their reversals alternate, since no more than one is open, and while
the visit owes points the last deduction is of them (`Held`). The program
decides by counting both kinds, and the counts would come apart from the row if
it gave back any deduction but the last.

**Production.** `ProductionInv` says of each order that stands what its rows are
(`Moved`): each fits a line of it (`RowFits`), only receipts were mirrored, an
issued line has exactly one row of issue, what waits in work in progress waits
in pairs (`Counterpart`), and what was received and made of a line is the line's
quantity (`LineMoved`). An order that was not started, and a reversal, have no
rows, which is why the movements of a new or edited order never meet old ones.
`ProductionAddsUp` says only what the rows come to. From the invariant,
work in progress holds nothing because its rows cancel in pairs (`SumOpposite`),
and a reversal takes from the store no more than `CanTakeBack` found there,
since the rows it mirrors are output and receipts, which brought, or issues,
which took. `OverdrawnStep` blames the step itself, never an order that merely
stands: an execution or an edit that would not have been allowed without leave
(`CreateDone(o, d, TRUE)` and not `CreateDone(o, d, FALSE)`), or an edit that
makes less of the item. `MovesAnew` and `AnewWithoutLeave` show that without
leave an issue found all it took, so that what is posted anew leaves no item
below zero that was not taken back; `LeaveKept` has one case for each operation,
and starting, receiving, undoing and reversing come out as never overdrawing,
whatever other orders stand.

**Store papers.** `PaperInv`, of every world, is `PermitsExplained` and
`ReversalsMirror`: a reversal is of the other kind and in the same store as the
permit it names, which stands. That no store lacks goods rests on where the code
looks: an issue looks before it takes (`Enough`), an edit or a deletion
afterwards and only at the store and the items the permit had
(`NotBelowZero`); `LookedAt` shows that what it does not look at cannot have
become less. `PapersAlone`, where papers are undone in order, ties the log to
the movements: what it says a permit did to lots is what the permit moved, and
for the reversal of a receipt the opposite (`LogSays`), so that taking back what
is logged takes back what was moved. Nothing is logged for the reversal of an
issue, hence the condition. `FirstOutSum`, by the least date at which it would
fail, says that first-expiring-first takes exactly what was asked when there is
enough; a count cannot change what is kept in lots, and what is wasted is
subtracted once.

**Matching of lines.** `ClaimsInv`, of every world: rows are well formed, every
link goes from a debit line to a credit line, and what a request under way has
read of a line is on the line's own side. Since a matching takes of a line no
more than it read, and undoing gives back what links took, also on the line's
side, no race spends a line to the other side. `ClaimsAlone`, one request at a
time, adds that exactly the lines of posted entries have a residual, the ends of
links among them, that nothing is left of a closed line, and that what the
request has read is still so (`FreshRead`). An entry that is released has no
link (`Unlinked`), so its lines were not closed either: a closed line was paid
in full, thus by links. `Walked`, kept by each round of the loop (`PairKeeps`),
says that what links took of a line grew by what is no longer left of it; from
`RoundInduction` it holds of the whole matching, which is all that
`ReconcileKeeps` needs to know of it. For `OldestFirst` each round also keeps
`InOrder` and uses up a line (`PairInOrder`), so that after as many rounds as
there are lines one side is used up. Hypotheses: every entry has a line of the
account (an entry of other accounts only is none of this module's business),
and `Null` is no amount.

**Payroll.** `PayrollInv`, of every world: of the runs of a month only the
newest is not reversed (`RunsHeld`); a payment covers lines of its own run, each
paid whole (`PaidWhole`); what was taken from an instalment or an adjustment
names a posted line of the same employee and month, an advance is settled when
all of it was taken and active while something is open (`AdvanceHeld`), and an
adjustment taken had been approved; the books are sums over the posted lines
(`BooksSay`). That what a posted line held back is what names it (`Counts`)
needs more: `QuietInv`, of the worlds where no advance or adjustment changes
while a draft is out, says that every line of a draft reads what would be read
now (`Fresh`). Posting turns the first into the second (`TakesNew`: nothing
named the line before, and the line read all that was free), and unposting is
the same exchange backwards (`Swapped`). On the screen of advances only the
guard `NoDraftRead` keeps it. Outside those worlds a draft goes stale
(section 5).

**The app and the agent.** `OfflineInv`: a document made is on the server or was
deleted there; an answer names only documents that were made; what is marked
synchronised was made; what is pending was saved; and a bonus is behind its
invoice in the phone's tables, in every queue and on every connection
(`BaseIsKept`, `BaseIsAhead`, `BaseArrived`). `AgentHonest`: what the state file
and every run under way claim to have sent and counted is on the server
(`Truthful`), while no new month has begun.

Every safety invariant and action property the runs check is stated by a
theorem. Only model-checked is liveness (`EveryRequestEnds`, `AgreeInTheEnd`,
`PunchesArriveAlone`, `ShowsTheLast`, `StopsWhenTold`): fairness and ENABLED are
beyond the prover.

`PiecesMatchStock` is neither proved nor in a run: it is false (section 5).

## 5. Known limits of the code that the models met

The properties hold as stated. Without the condition they name (or in a
sequence they exclude) the models show the following. The hazards name what the
properties cover, and refer here for what the code lets happen.

**Transfers.** A delete or reject that read the transfer pending and commits
after an approval leaves its stock moved (`transfer_service.py:240`, `:606`).
Cancel and delete after the stock was sold at the destination can overdraw it
(`:258`, `:276`). Removing every line of a pending transfer and approving it
moves the header's stale item (`:133`).

**Permits, counts, lots.** The mirrors of a reversed permit are filed under the
original permit (`stock_service.py:186-207`), so deleting the reversal alone
leaves the stock reversed while the lots come back. Deleting a reversed issue of
a perishable adds its lots twice, since `restore_for_return` logs no document.
Wastage never touches lots and purchases never add them. A purge can leave a
lot below zero. A movement between a count's entry and its posting is undone by
the posting.

**Purchases.** Two returns at once, an edit racing a return, or one request
naming an item twice give back more than was bought. A return linked to a
purchase is edited without asking what was bought. Only the last line of an
item counts. Editing or deleting a purchase does not ask for stock.

**Sales.** Two returns at once return more than was sold. What returns and their
purges do to pieces and lots is logged under the invoice, so
`purge_sales_return` finds none of it (`document_edit_service.py:66`), and
standalone returns never touch lots: `PiecesMatchStock` in `Sales` states the
agreement of pieces and stock, does not hold, and no run checks it. Deleting a return may
drive stock below zero. Concurrent edits of one invoice can move it twice.

**Coupons.** Representatives nobody ever loaded may print any number, also one
that is elsewhere; `HandedOnce` and `BroughtWasHanded` hold where all who sell
are loaded. Deleting an invoice removes receipt lines but not their count.

**Reconciliation.** Two reconciliations of one line lose a link's amount
(`reconcile_service.py:244`). Undoing one line of a group leaves others closed
(`:309`). A reset racing a reconciliation leaves a matched draft
(`ledger_service.py:344`).

**Journal.** Dropping an entry takes hashed reversals of it along and leaves a
gap (`SealedStays` states the exception). Two requests that post the same
draft, or in different years, can take the same place in the chain. Drafts and
cancelled entries can be reversed. Deletion and edit of documents do not ask
for the lock date (`locked_month`).

**Cash.** Deleting or reversing a receipt may overdraw a box, even a hidden
one. A hidden box can be made the default. Two settlements of one cheque post
twice.

**Fixed assets.** Runs of different months that race may charge more than is
depreciable; two reversals reverse an entry twice; two disposals post twice; a
run racing a disposal charges a disposed asset; reversing a month after the
disposal leaves the accumulated account off.

**Fleet.** A voucher with a record linked by hand, edited on a vehicle's
account, makes a record of its own too, so the expense is counted twice.
Unlinking a record the voucher made orphans it. Linking can leave the previous
voucher without a record. A voucher linked to a fault cannot be edited or
deleted. Assignments in the past may overlap closed ones.

**Production.** Undoing parts of an order may leave receipts larger than the
quantity. **Inspections.** Accepting while the representative has no custody
deducts nothing and keeps references to reversed movements, after which reject
and delete fail. **Payroll.** A draft is stale once advances or adjustments
change on their own screen; posting then marks as taken what the lines did not
hold back (`CountedIsTaken` holds in the quiet worlds). An instalment granted
for a month already posted is never held back unless the month is undone.

**Attendance.** When a device number is taken away and reprocessing removes all
punches of a day, the row stays. A reprocess limited to a branch gives punches
away without rebuilding. Cancelling a rejected request removes the days of
another approved one. Late punches of locked days are not entered when the run
is undone. Two approvals at once may exceed the quota. Days entered by hand or
imported overwrite leave.

**Agent.** A log erased and grown to the saved count is not read until the next
punch. A punch with a clock far ahead blocks later ones. With `Overlap` 0 the
date is ignored after the first run. A run that finds the lock file taken
removes it (`techno_basma.py`), so runs overlap.

**App.** Lines are read when a document is sent, its header when the push began
(`api_client.dart:521`, `:533`). An edit saved during a push is replaced by the
server's version. Buttons do not ask the automatic synchronisation's mutex
(`sales_review_screen.dart:149`). A refused invoice blocks those after it for
good. Documents deleted after they were sent are not taken back. A transfer
whose answer was lost, and that is then edited to another number of lines, is
answered with the lines the server has, which the app refuses (502,
`api_client.dart:630`) on every push from then on; those saved before it, which
come after it in the queue, wait behind it. `AgreeInTheEnd` exempts it and them
(`HeldUp`).

**Live events.** Events in a gap under five seconds are lost, and a full queue
of 200 drops them. The first connection refreshes nothing (`live.ts:60`), so
what was announced after the page's first answers and before it is missed.

## 6. Not modelled

| Component | Why |
|---|---|
| Reservations | A hold no sale looks at: `mark_converted` has no caller. Available stock is read and reserved as in the stock ledger, without its lock. |
| Coupon redemption (`coupon_service.py`) | One row at a time. |
| Document numbers (`numbering.py`) | The highest plus one, unlocked; the unique constraint refuses the second of two and the request fails as a whole. |
| Document versions | Snapshots appended beside a request, never read back by the program. |
| Roles, branches, permissions | Stateless checks on what one request reads. |
| Sessions and tokens | A row of one user, replaced at login. |
| Period closing, income statement, balances | Reports; what locks a period is the lock date, in `Journal`. |
| Costing and valuation | Averages over the rows a report reads. |
| Customers and their merging | Plain records; a merge rewrites references in one transaction. |
| Chart of accounts, routing, tax, settings, catalog | Configuration that is looked up. |
| Profiles, statements, reports; the layout of all three clients | Queries and layout. |
| Audit, backup | Records beside a request; pure I/O. |
| Imports and repair scripts, migrations | One-off, run by hand. |

The map covers about a ninth of the implementation's lines. The rest is
mostly what this table lists: of 96 thousand lines, the pages of the browser
client, the screens of the app, reports, serialisers and scripts carry no state
that several actors change.

Inside the modelled components these are left out: units, costs and prices;
branches; imports; the entry beside each document (its books are `Cash`'s and
`Journal`'s subject); attachments and price sheets of the app, and its edits of
inspections and coupon receipts (a deletion and a new document with the old
`client_uuid`); transfers that the office revises while the app pushes; several devices, shifts and holidays that change; remittances
and salary cards; waste of production; faults of vehicles.

## 7. Plan

In this order:

1. `reverse_movement` in `StockLedger`, with the rows behind the tallies: at
   most one reversal of a movement.
2. Races of two requests in `Coupons`, `Production` and `Payroll`, which are
   now taken at one instant.
3. `Reservations` and `DocumentNumbers` over the stock ledger's locks.

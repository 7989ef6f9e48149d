# BranchBrew ERP — formal models

TLA+ models of BranchBrew Cafe ERP: of the backend, the parts where several
processes, requests, retries and crashes meet on shared rows; of the browser,
the three pages that keep state of their own between the server's answers. TLC
checks the models on small instances, TLAPS proves nearly all of their safety
properties for every instance. Paths below are relative to
`src/backend/src/` unless they start otherwise.

## 1. The system

A NestJS API (any number of processes), one PostgreSQL database, a Next.js
front end. A request runs one service method; most writes run in one
`prisma.$transaction` at READ COMMITTED. Whatever other modules must do about
a change is recorded in the same transaction as a row of `OutboxEvent`; a cron
in every process drains these rows and emits them to in-process listeners
(accounting, loyalty, auto-reorder, notifications, kitchen displays).

| Component | State it keeps | Operations | Meets | What makes it correct |
|---|---|---|---|---|
| `outbox` | `OutboxEvent` rows; per process `isDraining` and pending listeners | enqueue, drain (claim, dispatch, complete, fail, abandon), replay | every writer, every listener | one holder per claim, a row settles, its effect happens once and is not lost |
| `accounting` | `JournalEntry` with unique `reference`, lines, accounts | post on events, close, reports | outbox | balanced entries, one per reference; the statements agree with the papers |
| `orders` | `Order`, queue number of the day | create (retry on conflicts), status, void, refund | stock, points, outbox | one order per request, effects applied once and reversed once |
| `common/helpers`, `inventory` | `BranchInventory.stock` (cache), `InventoryBatch` | deduct FEFO, restore, receive, waste, expiry cron, stock counts | orders, procurement, transfers | cache = sum of batches, never negative, nothing lost |
| `branches` | `StockTransfer` | create, accept, add batch, report waste | stock | a transfer moves stock once |
| `procurement` | `PurchaseOrder`, suppliers | create, submit, approve, reject, receive, pay, auto-reorder | stock, outbox | received once, paid once after receipt, payables reconcile |
| `customers` | `Customer` points, tier | enrol, tier, anonymise | orders | balance explained by orders, never negative |
| `inventory/stock-count` | `StockCount` and its lines | create, fill in, submit, approve, cancel; adjust | stock, outbox | a variance is applied once, and told to the ledger as applied |
| `production` | `ProductionOrder`, BOM | create, move on the board, complete | stock, outbox | consumed and produced once; the ledger follows the shelves |
| `procurement` auto-reorder | draft purchase orders | look at stock, append or create | stock, decisions on orders | an ingredient is on one open order |
| `finance` | shift settlements, expenses | submit, resubmit, approve | orders, outbox | signed off once, and the figures stand |
| `hr` | attendance, leave, payroll | clock in and out, decide, move, generate, approve | outbox | one open record, each record and salary paid once |
| `customers` tiers | `Customer.tier` | evaluate after an order, anonymise | orders, outbox | the tier is that of the lifetime spend |
| `realtime`, kitchen page | sockets; the query cache of a display | publish, snapshot, patch, roll back | outbox, orders | a display with nothing on its way shows the orders as they are |
| terminal page | cart, `clientRequestId`, `localStorage` | edit, apply terms, check out, retry, reload | orders, promotions | one sale per guest, charged as quoted, the right receipt |
| stock count page | drafts over the cached count | type, save, submit, refetch | stock counts | what is submitted is what was typed |
| `notifications`, `audit` | notices, audit rows | notify, log | outbox, all | a notice per cause; otherwise append or forward |
| `products`, `modifiers`, `promotions`, `ingredients`, `equipment`, `settings` | catalogue rows | row editing | orders read them | — |
| `auth`, `navigation`, `reports`, `observability`, `config`, `common` | — | guards, reads, helpers | all | — |
| the other pages, `packages/types`, `infra`, `loadtest`, `scripts`, seeds | — | — | the API | — |

What is hard here: rows read before a transaction or a lock and used after it,
compare-and-swap updates that lose, updates by id that always win, uniqueness
conflicts that restart a whole sale, processes that die while they hold a
claim, listeners nobody waits for, clocks (backoff, staleness, day, expiry),
and a browser that patches its cache from events, snapshots and guesses that
cross each other. `PROJECT.json` lists each of them as a hazard at its line.

## 2. The modules

| Module | Models |
|---|---|
| `PostingPromise` | the abstract promise of outbox and ledger: what is owed is posted, once |
| `Outbox` | outbox rows, draining processes, emitter, journal, administrator, faults |
| `OutboxProofs` | the theorems about `Outbox` |
| `RowStore` | PostgreSQL as the services use it: versions, row locks, commit, rollback |
| `Stock` | cache and batches under six concurrent operations (over `RowStore`) |
| `Orders` | life of an order with stock, points, outbox and repeated requests (over `RowStore`) |
| `Purchasing` | life of a purchase order with stock and ledger (over `RowStore`) |
| `Service` | back-office requests side by side, statement by statement (over `RowStore`) |
| `StockCounts`, `Production` | counts, adjustments, production orders: one stockroom |
| `Reordering` | automatic purchase orders, in a serializable transaction |
| `Settlements` | the daily settlement of a branch |
| `Staff` | attendance, leave, payroll |
| `Loyalty` | the tier of a member |
| `Journal` | the lines every event posts, and the statements |
| `BackOffice` | the seven of them over one database |
| `Kitchen` | a kitchen display |
| `Terminal` | the tabs of a till |
| `CountSheet` | the page a count is filled in on |
| `Screens` | the three of them |
| `StockProofs`, `OrdersProofs`, `PurchasingProofs` | the theorems about these modules |
| `BackOfficeProofs` | the theorems about the seven departments, on `BackOffice` |
| `LedgerProofs` | the books of the back office: its statements, its types, the value of its shelves; over `BackOfficeProofs` |
| `PageProofs` | the theorems about `Kitchen`, `Terminal` and `CountSheet` |
| `SumProofs` | sums over finite sets: the laws the others cite |
| `MC*` | constants of the small instances |

### Outbox

`status`, `attempts` and `claimAge` are the columns of a row; `claimAge` is the
class of `now - claimedAt` that the code can tell apart: fresh, past the retry
backoff, past `STALE_PROCESSING_MS`. The longest backoff of a row that may be
retried is 240 s, the threshold 300 s, so the classes are passed in this order.
`pc`, `batch`, `current`, ... are the local variables of `processBatch` in each
process; each database statement is one step. `scheduled` is what has been
emitted and not run: the listeners are `@OnEvent(..., { async: true })`, so the
dispatch does not wait for them. `ledger` counts the entries of each
reference. Of the listeners only accounting is modelled; the event's reference
is the constant `Ref`, and two events may share one, which is stronger than
redelivery of one event. A slow worker is a fault of its own (`OutliveClaim`):
`Timely` says none has occurred.

Order of poll: the rows are numbered by `createdAt`. `isDraining` is the guard
of `StartDrain`. Faults: a crash (local state and emitted listeners are gone),
a failing statement (inside or outside the inner `try`), a failing listener, a
failing notice.

### RowStore, Stock

A transaction's read sees its own writes and otherwise the committed version;
an update waits for the holder of the row and then evaluates its WHERE on the
latest version; an insert is a write of an unused row. Deadlocks are resolved
by PostgreSQL by killing one side: `Abort` may end a transaction at any step,
and so also stands for timeouts and lost connections.

`Stock.Program` is the sequence of statements of each operation, in the order
of the code: a sale decrements the cache and then empties batches by
compare-and-swap; `restoreInventory` increments the cache, picks the first
ACTIVE batch, else a DEPLETED one, else creates one; a transfer claims its row,
empties source batches, decrements the source, creates the target batch with
the earliest expiry it consumed; a receipt creates a batch and increments the
cache line by line, in the caller's order (`Deliveries`: sequences of items, in
which one may occur twice). `request` keeps the items an operation was asked for, and only
`OnlyCrossingsDeadlock` looks at it. A request asks for one quantity of each of its
items, and a receipt carries one expiry date for all. A completion of a production
order and the approval of a count consume and add stock with the same
statements, ingredient by ingredient, and are in `Production` and `StockCounts`, on
the cache row alone. `net` is a history variable: what the
committed operations asked for. Quantities are whole numbers: the drift by
binary floating point that `src/docs/architecture.md` describes is outside the
model. The CHECK constraints on stock and quantity are left out on purpose:
`StockNonNegative` shows the code does not need them.

### Orders

The transaction of a sale is `Program.create`: recipe, deduction, check of
points, redemption, earning, queue number, insert. The insert meets the two
unique constraints of `Order` (`Clashes`): it waits while the row it conflicts
with is uncommitted; a conflict on `clientRequestId` rolls back and answers
with the existing order, one on the queue number rolls back and tries the
whole sale again, at most `MAX_QUEUE_NUMBER_RETRIES` times. Status changes,
voids and refunds read first (`BeginStatus`, `BeginVoid`, `BeginRefund`) and
then open their transaction with a compare-and-swap on the status (`Claim`).
Abstractions: an order is one product of one ingredient; stock is the cache
row alone, which `Stock` relates to the batches; promotions, VAT and prices of
modifiers are left out; the day of the queue and the day of `createdAt` come
from one clock, though from two reads of it; one branch. Points are redeemed
and earned by `pointsEarnedForSpend` with the code's constants.

### Purchasing

`submitPO`, `approvePO` and `rejectPO` read the status outside a transaction
and set it by id: `ReadDecision` and `Decide` are separate steps. `receivePO`
and `payPO` validate, claim by compare-and-swap, write and enqueue. Events are
posted later, once per reference (`poNumber`, `PAY-poNumber`), as
`Outbox` shows. `overlaps` counts decisions begun while another on the same
order was under way; `Orderly` says there was none.

### Service and BackOffice

A request is a record `tx[t]`: the operation, its next statement (`pc`), the
row it is about, what it has read, and the rows it inserts and never changes
(`out`: adjustments, outbox events, sign-offs), which `Commit` adds to `log`. A
statement outside a transaction is a `Put`, which commits at once; one inside
is a `Write` of `RowStore`. `raced` collects the rows written from a read that
was out of date by then: it is how a property names the crossing that breaks
it. `Abort` ends a request anywhere.

Departments share no row, so `BackOffice` picks the department of a behaviour
at the start (`desk`); counts and production share the shelves and are one
department. `Sell`, `Collect`, `Move`, `ReceivePO` and `Reverse` stand for the
rest of the system and are single steps here: their own interleavings are in
`Stock`, `Orders` and `Purchasing`.

- `StockCounts`: `updateLines`, `submitStockCount`, `approveStockCount`,
  `cancel`, `adjust`; the balances a submission reads become the expected
  quantities; an approval applies variances and enqueues one event.
- `Production`: the board moves an order by id; `completeProductionOrder` takes
  each raw ingredient, adds the finished one and sets the status by id.
- `Reordering`: the listener looks at the stock, takes the snapshot of a
  SERIALIZABLE transaction, appends to a draft or creates one. Two such
  transactions that crossed end in `SerializationFailure`; PostgreSQL does not
  order them against the READ COMMITTED decisions, which therefore interleave.
- `Settlements`: find today's row, compute, update by id or create; `Staff`:
  check and create, claim and pay; `Loyalty`: aggregate, read, write by id.
- `Journal`: a paper (order, purchase or production order, payroll, expense,
  adjustment) takes its steps one at a time and logs the event the service
  enqueues; an order keeps the tax of the rate it was sold at. `Deliver` runs
  the listener of any event, in any order, once more if it likes; `Miss` is a
  listener that died. `Sold`, `Reversed`, `Received`, `Produced`, ... are the
  lines the handlers of `accounting.service.ts` post, in satang, debits
  positive; `PostEntry` is the balance check and the unique reference;
  `Balance`, `SheetBalances`, `OutputVat`, `Payables` are the queries. The event
  amounts are rounded to a satang where they are enqueued, so the handlers'
  second rounding changes nothing and is left out.

### Kitchen

`story` is the sequence of statuses of an order on the server, each published
as an event that may be late, lost while the socket is down, or repeated.
`board` is the query cache of `useKitchenQueue`; it is patched by events, by a
tap before the server answered it, by the rollback of a refused tap, and
replaced by snapshots. `heard` and `missed` are history: how far into its
story the last input about an order reached, and whether one before was lost.

### Terminal

A tab holds a cart, its terms (promotion and points) and the `clientRequestId`,
all saved in `localStorage` and restored on reload. Every edit of the cart
takes a new id, a change of terms does not. Requests are retried by the client
without an answer, may arrive later than that, or never. `orders` is keyed by
the id, as `Orders` shows. Money is in hundredths of a satang so that a
percentage is exact: `Quoted` is what the screen computes, `Charged` what
`order-creation` does, each in its own order of rounding and clamping.

### CountSheet

`drafts` are the fields, `page` the cached count. A refetch that brings other
data resets the drafts; equal data is the same object (structural sharing) and
does not. `excused` says which of the things that may lose typing have
happened.

## 3. What is checked

| Run | Instance | Shows |
|---|---|---|
| `OutboxFaults` | 2 processes, 2 events with one reference, the second malformed, 2 attempts, batch of 1, one fault of each kind, 1 replay | types; `SoleHolder`, `NoStrandedRow`, `CompletedIsFinal` while workers are timely; no more failures unheard of than crashes and failed notices (`FailureAnnounced`); every step is one of `PostingPromise` |
| `OutboxDelivery` | the same rows, drain loop of 2, a database and a notice fault, fairness | every row settles; what is owed is posted (the liveness of `PostingPromise`) |
| `OutboxLost` (violated) | one event, a listener that throws | a COMPLETED row without its entry |
| `StockMoves` | 2 transactions at a time, 4 in all, 2 batches that expire in reverse order, a receipt that names milk twice, a transfer, 2 days | `CacheMatchesBatches`, `StockBalances`, first expired first out |
| `StockAllOps` | all six operations, 2 at a time, 3 in all, 2 ingredients, recipes and receipts that name both in either order | `StockNonNegative`; orderly operations wait for each other only when their requests cross (`OnlyCrossingsDeadlock`) |
| `StockDrift` (violated) | sale, reversal, waste, disposal | the cron or a waste report overwrites what a concurrent transaction wrote |
| `OrdersBooks` | 2 tills, latte and cake, 2 orders, 4 operations, 2 days | stock and points are explained by the orders that stand |
| `OrdersStory` | the same with redemptions and recipe edits, 3 operations | idempotent requests, consecutive tickets, faithful events, forward statuses |
| `OrdersOverdrawn` (violated) | 2 sales that redeem the same points | a negative balance |
| `PurchasingOrders` | 2 orders, 2 managers, 10 operations, 2 overlapping decisions | payment follows receipt always; payables and stock reconcile if decisions do not overlap (its types are proved, for every instance) |
| `BackOffice` | two requests at a time, 5 to 7 in each department | each department does once what it promises, or names the crossing that broke it; once every event was delivered, the statements agree with the papers |
| `Screens` | 2 tickets and 2 hands; two shops; a count of 2 lines | a quiet board is right and a polling one gets right; one sale per guest, the right receipt, charged as quoted; a count as typed |

**Bounds.** Two of each actor, since every race in the code is between two
writers of one row; two orders, events or batches, since the conflicts (same
reference, same ticket, next batch) need two; `MaxAttempts = 2` gives a first
attempt, a retry and exhaustion; `BatchSize = 1` makes batches full, so the
drain loop repeats; the 6 batch ids of `StockAllOps` leave four for what two
receipts of two lines create, which is what runs at a time, and its one expiry date is past on the
second day, so that the cron meets what was received; `MaxRetries = 1` in `OrdersStory` (5 in the code) lets a sale
run out of tries on its ticket. `MaxBegun` bounds the operations begun, so the models that
have it stop: their configurations do not check deadlock. `MaxFaults`,
`MaxReplays`, `MaxOverlaps` and `LastDay` bound faults, replays, overlapping
decisions and days. Symmetry is over processes or transactions, and not used
with liveness.

`BackOffice` has two requests in flight, since every crossing there is of two;
its 5 to 7 requests per department suffice to draft, fill in, submit and
approve a count beside a sale, to run an order to receipt beside two
listeners, to pay two months' runs, to sell, change the VAT rate, void, deliver both
events and repeat one. `Screens`: two tickets and two taps let a
rollback undo another ticket; two events and one fault (a disconnection, a
repeat or a failed request) let a snapshot be overtaken. One shop has two tabs
on one branch and a fixed promotion, the other one tab, two branches, two
products and a promotion of 15 % beside 700 points on ฿55.55 and ฿119.99, so
that rounding and clamping both happen. `MaxRetries = 1` there (3 in
`src/frontend/src/lib/api/retry-policy.ts`): the second answer is what matters.
Both configurations stop when their bounds are used up and do not check
deadlock.

**Fairness.** `Outbox.FairSpec`: every process keeps executing its next
step (the cron fires each second, awaited statements return), emitted
listeners run (`setImmediate`), claims age. Nothing obliges a business
transaction, a replay or a fault. In `OutboxDelivery` no process dies and no
listener throws, because the code does promise nothing then: that is
`OutboxLost`. `Screens.KitchenFairness`: while the display is used, its refetch
interval runs, the server answers, and the browser handles answers. Nothing
obliges the socket, the cooks or the news. `BoardCatchesUp` therefore concerns
displays whose socket stays down: a connected one asks for nothing.

**Conditional properties.** Where the code does not keep a property in a case
the run can reach, the condition is part of the formula and the run reaches
both sides of it:

- A worker that outlives its claim: its failure write (`outbox.processor.ts:147`)
  can put a row with no attempts left back to PENDING, where neither the poll
  nor `GET /outbox/failed` finds it; its COMPLETED write can overtake another
  worker's claim. Hence `Timely`.
- Nothing in the code puts ingredients into a common order. Sales and reversals go
  through them as the order brought them up (`common/helpers/inventory.helper.ts:10`,
  `:89`), receipts as the caller or the purchase order lists them
  (`inventory/inventory.service.ts:30`, `procurement/procurement.service.ts:278`), each
  holding the cache rows it has passed. Two sales, two receipts, or a receipt and a sale
  that name two ingredients in opposite orders therefore do deadlock, PostgreSQL
  kills one, and the model reaches it. `OnlyCrossingsDeadlock` says that among
  sales, reversals, receipts and disposals nothing else makes two wait for each other:
  neither batches nor what else runs meanwhile. Transfers and waste reports take
  batches before the cache; they deadlock with each other and with the rest and
  are not in the property, nor are circles of three.
- A late rejection (`procurement.service.ts:241`) makes a received order a
  draft again, so its debt leaves the aging list; a late approval (`:218`)
  reopens it, and its goods come in twice while the ledger posts one receipt.
  Hence `Orderly`.
- A line written after a submission that its check of DRAFT came before
  (`inventory/stock-count.service.ts:154`) is approved as if it had been
  submitted: `VarianceAppliedOnce` leaves such counts out.
- Two completions that cross (`production/production.service.ts:140`) consume
  and produce twice, and the ledger posts the reference once: `MadeOnce` and
  `BooksFollowShelves` leave such jobs out. A job whose raw material costs
  nothing posts no event (`:228`): in the instance it costs something, and the
  theorem assumes that such a job makes goods worth nothing.
- An order decided from a status it had left may be listed twice by
  auto-reorder (`OrderedOnce`).
- The journal hears only of what cost something: goods received free
  (`procurement/procurement.service.ts:359`) and a job out of free raw material
  (`production/production.service.ts:228`) move shelves at standard cost and post
  nothing. Waste, disposal and free-hand receipts enqueue no event at all, so
  account 1030 keeps what was thrown away. Nor does a transfer between branches
  (`branches/branches.service.ts:133`): the goods stay on the account of the branch
  that sent them, so account 1030 of each branch drifts from its shelves while their total
  does not. `StatementsAgree` compares inventory
  with what was announced; without that condition the free delivery of the
  instance breaks it. It speaks of papers none of whose listeners died.
- A resubmission that read the row before its approval overwrites it, and two
  first submissions make two rows (`finance/finance.service.ts:119`):
  `SettledOnce` speaks of days without them.
- Two clock-ins that cross leave two open records (`hr/hr.service.ts:57`); an
  employee moved between two payrolls of a month gets the salary from both
  branches (`PaidOnce`).
- A tier written after a newer order's, or not written because the listener
  died, stays; a reversal evaluates nothing (`customers/customers.service.ts:144`;
  `TierFollowsSpend`).
- Reconnecting asks for no snapshot, and one computed before an event but
  received after it replaces a newer board: the display stays stale until the
  window gets the focus. A failed refetch followed by an event clears the error
  banner over such a board. `QuietBoardIsRight` speaks of orders whose last
  news was heard.
- A changed promotion keeps the `clientRequestId`: a repeated checkout returns
  the order with the terms of the first (`ReceiptIsForTheCart`). A basket
  edited after an unanswered checkout is a second sale (`OneSalePerGuest`).
- A fixed-amount promotion reaches the screen as a string: `validateCode`
  returns the Prisma `Decimal` as it is (`promotions/promotions.service.ts:156`;
  `promotion-response.dto.ts:53` says number), and
  `terminal-page-client.tsx:294` adds it to the points with `+`: "20" and 0
  make 200, so a cart of ฿120 is quoted ฿0 and charged ฿100. `Quoted` models
  it; `QuoteIsCharged` is about the other promotions.
- A refetch that brings a sale or another's edit wipes unsaved typing. So does the
  edit of an ingredient's name or cost, which the cached count carries
  (`inventory/stock-count.service.ts:112`), in a blind count too: it is one of
  the edits that excuse lost typing. Typing
  during a save is lost, and an emptied field is never sent (`CountAsTyped`).
- A recipe edited between a sale and its reversal restores another quantity
  (`orders/helpers/order-reversal.helper.ts:32`): `OrdersBooks` has no edits,
  `OrdersStory` has them and does not check stock.
- A clawback above the balance sets it to zero in a second statement
  (`order-reversal.helper.ts:57`): points earned in between are erased, and
  the balance is no longer what the orders explain: `OrdersBooks` has no
  redemption, so the balance covers every clawback.

Each property of `BackOffice` and `Screens` was also run without its
conditions, and fails there.

Two more facts the models made visible: the toast that offers to take back a
completed order always fails, since `canTransitionOrderStatus` has no way back
(`orders/domain/order-status.rules.ts:33`); and the checks that refuse a sale
come before the conflict on its id, so a repeated checkout of a sale that
exists may be refused.

## 4. What is proved

TLAPS checks, for every value of the constants that satisfies the assumptions
named in the modules:

- `SumProofs`: what `SumFunctionOnSet` of the community modules does when an
  element is added, removed or changed, when two functions are added, when a
  set is split (`SumInsert`, `SumRemove`, `SumChange`, `SumPlus`, `SumUnion`, ...).
  The library's induction theorems take an operator and cannot be instantiated
  here; `SubsetInduction` states the induction over a finite set about a set of
  subsets instead, from the well-foundedness of strict inclusion, and each law
  names the set of subsets it holds for. This is what the proofs about stock,
  points, debts and papers rest on.
- `OutboxProofs`: `TypeCorrect`; `SoleHolderHolds`, `NoStrandedRowHolds` and
  `CompletedIsFinalHolds`; `FailureAnnouncedHolds`;
  `OutboxKeepsPromise`. `TypeOK` is inductive together
  with `BatchInv` (what a poll read has an attempt left) and `WorkInv` (a worker
  past its claim works on a recorded row; only well-formed rows are emitted):
  `TypeInv`. `SoleHolder` is not inductive: a second claim of a held row is
  excluded because the holder's claim is fresh or backed off, so the row is
  PROCESSING and not stale, no batch that remembers it as stale is right to, and
  every claim must match its snapshot (`ClaimableIsFree`). `ClaimInv` states
  this, and that a retry already decided has an attempt left. It is preserved
  while `Timely` holds; faults are counted and never forgotten
  (`TimelyBefore`), so `Timely => ClaimInv` is inductive. `ReportInv` says
  that the FAILED rows nobody heard of, nor is about to hear of, are no more than the crashes
  and failed notices so far: either adds one at most (`OneSilenced`), and every other step
  leaves a row reported that was (`HeardStays`). For the refinement
  `LedgerInv` says that a reference is posted at most once and only when owed;
  each listener run then maps to `Post` or a stutter, each `Enqueue` to
  `Commit` or a stutter, every other step to a stutter.
- `StockProofs`: `TypeCorrect` and `StockNonNegativeHolds`, from `StockInv`. No
  row can be shown non-negative on its own: a statement subtracts what an
  earlier one read, so the invariant says of every latest and committed version
  that it is sound (`Sound`), and of every transaction that what it still has
  to do names rows of the right kind and amounts that are naturals (`TxInv`). A
  guarded decrement then keeps a sound version sound; commit and rollback put
  a sound version in the place of another. `CacheMatchesBatchesHolds` and
  `StockBalancesHolds` need `BooksInv` besides, and `Ops \subseteq CoreOps`
  (sale, reversal, receipt, transfer): waste reports and the expiry cron do break
  the cache, as `StockDrift` shows. `Shape` says at which statement of which program
  a transaction is, `Locks` that it holds the cache row of every batch it has
  changed, but for receipts and transfers that change the batch first; `Account`
  and `Booked` say by how much its versions of cache and batches differ from
  the committed ones. Since two transactions cannot both hold a cache row,
  what one has read of the batches of its item stays true (`ListInv`), and a
  commit moves cache and batches by the same amount, the one it was asked for.
  `FirstExpiredFirstOutHolds`, of the same operations: what a sale about to take
  has not read, or has finished with, holds nothing it could sell, and what it
  has read expires when it did (`OrderInv`); nobody else changes a batch of the
  item while it holds the cache row.
  `OnlyCrossingsDeadlockHolds` is about all six operations and needs no order of the
  ingredients. By `LineInv` an orderly operation is at some position of its request,
  has dealt with the items before it and has those from there on still to do; it holds
  caches only of items it has reached, that of its current item once it deals with
  batches, and that of every batch it has changed that others can know of;
  batches keep their items (`KeptItems`). So it waits for another orderly one at a
  cache only. Two that wait for each other are each at an item that the other reached
  earlier in its own request, so their requests name the two in opposite orders.
- `OrdersProofs`: `TypeCorrect`, `OneOrderPerRequestHolds` and
  `StatusMovesForwardHolds`, from `OrdersInv`. `RowsInv`: the latest version of
  an order is one step ahead of the committed one and of the same sale, and no
  two latest versions are of one request. Each insert keeps it because the
  conflict is looked for among the latest versions (the unique index sees
  uncommitted rows), each claim because it holds the row it compares.
  `Holdings`: nothing is held before a claim or after a rollback, and a sale
  that is about to commit holds the order it will answer with; that is why an
  answer names a committed order. Only a commit changes a committed version, to
  a latest one, so statuses move forward. `LifeInv` adds where each request is
  in its program, and that the tickets below the one it was given are those of
  committed orders of its day; with `NumbersInv` (the tickets of a day are 1 to their
  number, a statement about cardinalities) the tickets are consecutive
  (`QueueNumbersConsecutiveHolds`). `EventsInv` relates the events recorded to
  the committed status (`EventsFollowOrdersHolds`). `StockBooks` and
  `PointsBooks` say what each request has added to its version of the stock
  and of the balance; `StockFollowsOrdersHolds` assumes no recipe edits
  (`RecipeChoices = {}`), `PointsFollowOrdersHolds` no redemptions
  (`Redemptions \subseteq {0}`): the code breaks either equation otherwise (see
  above), and the runs check them under the same restriction.
- `PurchasingProofs`: `TypeCorrect` and `PaymentFollowsReceiptHolds`. The
  second needs `ReceiptInv`: an order RECEIVED in its committed version has its
  receipt event, one RECEIVED or PAID only in its latest version is held by a
  receipt or a payment that will commit the event with it, and a payment under
  way has seen a receipt. `TxInv` and `LockInv` tie every lock to the
  transaction that works on that row. It holds with any number of overlapping
  decisions: a late decision may take RECEIVED away, but the event stays
  recorded. `AgingReconcilesHolds` and `OrderlyStockFollowsLedgerHolds` need
  `BooksInv`: while `Orderly`, what a decision has read still holds, no two
  decisions are about one order, a version held differs from the committed one
  by the step under way, and the events recorded are those of the committed
  statuses. The debt and the stock then are sums over the same set of orders.
- `BackOfficeProofs`: one property of each department, on the specification of
  `BackOffice`. Each invariant starts with `desk = ... =>`, so a step of another
  department keeps it at once.
  - `TierFollowsSpendHolds`: a tier that is not that of the spend has a
    listener that will compute with the present spend (`TierInv`).
  - `SettledOnceHolds`: as long as no row was written from an old read, the day has
    one row, and what was signed off is what it holds (`SettleInv`).
  - `OrderedOnceHolds`: every listener has a ticket of its own; if an order
    lists the ingredient a listener did not see on any, the entry of the one
    that put it there is not among those its snapshot saw, so it will fail to
    serialize (`Noticed` in `ReorderInv`).
  - `PaidOnceHolds`: who is about to clock in is not clocked in yet; a payout
    holds its run; a run approved is told once; months are unique by index;
    the number of payslips is a cardinality that the claim cannot change
    (`StaffInv`).
  - `MadeOnceHolds`: a completion about to commit holds its job, and the goods
    it will log are those of that job; unless the job was raced it had not
    been completed (`MadeInv`).
  - `VarianceAppliedOnceHolds`: while a line is being saved its count is a draft
    nobody moves, unless raced (`Untouched`); a submission has given every
    counted line its expected quantity, or still has to (`Expected`); what an
    approval read is what the lines say (`ReadRight`); what an approval has
    inserted so far are the adjustments of a subset of the differing lines, and at
    commit of all of them (`CountInv`).
- `LedgerProofs`: `StatementsAgreeHolds`, for every set of papers, all prices and
  rates, and every order and repetition of the deliveries. `JournalInv` says that
  the events recorded are those of the steps the papers have been through, each with
  the tax of its paper (`FactsTold`), that an entry posted is the entry of one of
  them and a reference has one entry (`EntriesPosted`), and that an event handled
  has posted its entry unless the entry has no lines (`HandledPosted`). Each kind
  of entry weighs a fixed amount on each account and nothing in total (the line
  lemmas); so the balance sheet balances entry by entry, at all times. A balance
  of a scope is a sum over entries; `BalanceByPaper` regroups it by paper, where
  the entries of one paper add up to what the paper contributes to the operational
  number, and the two sums are equal term by term. The theorem assumes that
  prices, costs and pay are not negative and a net pay is at most the gross
  (`TermsAssumption`: the DTOs have `@Min(0)`, `hr/hr.service.ts:370` deducts), that VAT
  rates are natural numbers, and that there are finitely many papers.
  - `TypeCorrect`: the types alone are not inductive, because what a department
    writes is typed only if its requests have read and computed what they should.
    `BackInv` joins them (`BackTypes`: each row by its table, each request by what
    it has read, a lock only for a request inside a transaction) with the
    invariants of all seven departments; each step of one department needs its
    own and keeps the types. The bounds on requests begun must be natural numbers
    (`RequestsAssumption`), and so on for the constants of each department.
  - `BooksFollowShelvesHolds`: `ShelfBooks` says what each request has put on each
    shelf and not committed (`Change`) is what its reads and its unsent events make
    due (`Due`): the variances applied so far, the raw material no longer left and
    the goods made, the delta of an adjustment (`WorkRight`). So a commit moves the
    shelves by what it is due, and its event is worth the cost of that
    (`AdjustmentWorth`, `ApprovalWorth`, `CompletionWorth`: sums split, joined and
    reduced to one term). Every event in the log came from a sale or an adjustment
    whose number is used up, a count approved, or a job made (`Known`); the
    one about to be told can then not be among them, unless a job was raced, and
    is counted once. It assumes that goods made of costless material are worth
    nothing; otherwise it is false, since the code sends no event for them.
- `PageProofs`: `CountAsTypedHolds` from `SheetInv` (the server holds what the
  page shows or what the fields make of it, and a save under way leads from
  one to the other); `OneSalePerGuestHolds`, `ReceiptIsForTheCartHolds` and
  `QuoteIsChargedHolds` from `TillInv`: an id stands for one guest and one
  basket wherever it is kept (`NameInv`: screens, storage, requests, server), the
  claims of one guest share an id unless the basket was amended (`ClaimInv`),
  every request and order was confirmed by a cashier (`OrderInv`), and a receipt
  pairs a request with the order of its id (`ReceiptInv`). The last theorem is
  arithmetic: the screen and the server clamp and round in different orders and
  agree on the charge, for all prices, percentages and points.
  `QuietBoardHolds` comes from `KitchenInv`. Stories only grow, and an
  order that left the kitchen does not come back (`LeavesForGood`); an answered
  snapshot is the board of some past moment (`AnswerInv`); a settled board shows
  each order as of the last event heard, or has already removed it because an
  older event came late (`Placed`). While a tap or a snapshot is under way the
  board may show anything, and every tap ends by asking for a snapshot.

Every inductive invariant was checked by TLC on the instance of its run before
it was proved. Proving showed what small instances had not: that a charge may be
exactly a point's worth when points pay for everything (`Near`), that
listeners of auto-reorder are told apart by a ticket of their own, that a
property of one department must say so, and that the sets summed over are
finite, which the assumptions on the constants now state.

Only model-checked: liveness (`RowsSettle`, `KeepsPromise`, `BoardCatchesUp`),
which is beyond the installed provers. Every safety invariant and action property
the runs check is a theorem. The modules use folds of the community library and no
RECURSIVE operator.

## 5. Findings

Three runs end in a counterexample to a sentence of the documentation
(`PROJECT.json`, "findings"): a listener error loses a side effect
(`architecture.md:91`), cache and batches drift without floating point
(`architecture.md:7, 162`), and points go negative (`architecture.md:141`).
The crossings listed under "Conditional properties" are not contradicted by a
sentence of their own.

## 6. Plan

Done: outbox with its promise; stock; orders; purchasing; the back office; the
three pages; proofs about all of them. Left, in this order:

1. `Recipe`: requirements of an order with ingredient swaps
   (`orders/domain/recipe-requirements.ts`) against a reference definition;
   orders of several lines.
2. Points of an anonymised member beside sales; deduplication of notices;
   `createTransfer`.

## 7. Not modelled

- Row editing without a second actor (`ingredients`, `equipment`, `settings` but the VAT rate,
  `modifiers`, catalogue maintenance, suppliers, shifts, BOM, enrolment): a
  model would restate assignments.
- Reads (`reports`, dashboards, listings, `navigation`, exports, search) and
  what only formats (snapshots of events, themes, tables, forms): no state.
- `auth`: tokens, guards and sessions change no row the models share.
- The audit log: appended after the commit; a crash loses the entry, and
  nothing reads it back.
- Notices: written by listeners, read by people; deduplication is in the plan.
- Amounts as Decimals with four places inside a calculation: `Journal` and
  `Terminal` count in satang and round where the code rounds. The month an
  entry falls into (a reversal is dated when it is posted, while the VAT report
  drops the order from the month of its sale): the statements are compared over
  all time.
- `infra`, `loadtest`, seeds, migrations, generated types: no behaviour of the
  running system beyond the constraints the models name.

Most lines of the repository are of these kinds (page layout, forms, DTOs,
theme tables, seed data, tests), so the share of lines that definitions stand
for stays small: it is the share of the code where an order of steps matters.

# BizBoard: a TLA+ verification project

BizBoard is an accounting and point-of-sale product for small Indian firms: a
Django backend (`backend/`), a React web client (`web/`) and a mobile client.
This directory models the parts of it where steps of several actors meet: how a
receipt gets from a cashier's screen to the books exactly once and what may
happen to it there, online payments and their refunds, the goods that orders,
challans, invoices and transfers promise and move, and the schedules that bill
by themselves. The models are checked with TLC on small instances, and the most
important invariants are proved with TLAPS for every instance.

## 1. Inventory

`PROJECT.json` lists every component and every hazard with its line. The
components with state of their own, and what makes each correct:

| Component | State | Operations | Hard behaviour | Correct when |
|---|---|---|---|---|
| Idempotency-Key protocol (`core/idempotency.py`, `core/tasks.py`) | one `IdempotencyRecord` per scope and key: in flight or answered, fingerprint, age | claim, look up under lock, reclaim a stale key, store the answer, release, prune | racing retries, workers that die, answer writes that fail, time passing | money is posted once per key; answers are truthful and stable |
| Offline receipt outbox (`web/src/offline/receiptOutbox.ts`, `useReceiptOutbox.ts`, `NewReceiptDialog.tsx`) | IndexedDB rows, one flush loop per tab | queue, flush, classify the failure, retry, discard | several tabs on one store, lost answers, reload, company switch | a receipt leaves the device only when posted or discarded; the queue drains |
| Money In (`payments/services.py`, `views.py`, `receipt_math.py`) | receipts, allocations, advance refunds, cheque states | create, allocate, oldest first, reverse, void, refund, clear, bounce | loops that fail half-way, savepoints, rounding, mixtures of all operations | nothing is spent or paid twice, the shares add up |
| Ledger postings (`accounting/services.py`) | journal entries | post, reverse | must follow every document step and rollback | Customer Advances and Accounts Receivable agree with the documents |
| Periods (`reporting/gst_periods.py`, `accounting/period_ops.py`) | status per month | soft close, close, reopen | a period closes between two steps on one receipt | closed months do not change |
| Row locks of the money services (`payments/services.py`, `sales/notes_services.py`) | the locks of each transaction | lock, read, write, commit, roll back | locks taken in different orders, values read before a lock | each call is one step of the ledger, or none |
| Payment gateway (`payments/webhook_views.py`, `services.py`, `tasks.py`) | payment rows, link, processed events, dead letters, refund outbox | capture, park, retry, refund, replay | redelivery, workers that die, provider timeouts, a task and a request on one refund | a capture is booked once or parked; a refund is made and unwound once |
| Orders, challans, invoices (`sales/notes_services.py`, `services.py`, `order_quantities.py`, `challan_return.py`) | status and quantities of the documents | confirm, convert, complete, cancel, delete, bill, return | reservations without an owner; documents undone in another order than made | nothing delivered twice, reservations and status follow the documents |
| Stock (`inventory/services.py`) | on hand and reserved per godown, transfers | move, reserve, release, adjust, dispatch, receive, write off, send back, cancel | orders and transfers compete; partial receipts | every unit accounted for, never oversold |
| Recurring schedules (`sales/recurring.py`, `contracts/`) | next run, count, limits, runs per period | beat with catch-up, Run now, edit, pause, resume, contract end and renewal | overlapping passes, stale reads, closed periods, month ends and midnight | one document per period, none left out, limits kept |
| POS (`sales/pos_*`, `web` POS drafts) | sales, shifts, drafts on the device | check out, collect, park, sync | second outbox, device limits | as for receipts |
| Purchases, returns, credit and debit notes | documents | complete, cancel, return | a note reverses allocations | totals follow |
| Document numbers, audit chain | counters, hash chain | next number, append | concurrency, rollback | no gap, no fork |
| Tax engine, GST returns, reports, imports, CRM, payroll, manufacturing, UI | (derived or forms) | | | outside this project, see section 7 |

They interact as follows. The web client's outbox calls the receipt API with
an `Idempotency-Key`; the API claims the key, runs the money service in one
database transaction, stores the answer and replies. The money service locks
receipt and invoices, writes allocation rows and posts journals in the same
transaction; both are gated by the period of the receipt's date. The client
decides from the answer alone whether to drop, keep or set aside its copy.

A payment link is paid at the provider, whose webhooks end in the same receipts;
a cancelled invoice gives its allocations back to Money In and its goods back to
the stock and to its order. Celery's beat drives the retries of parked captures
and refunds, the prune job and the schedules, beside the requests of people.

## 2. Modules

| Module | Models | Composition |
|---|---|---|
| `Idempotency` | the claim protocol on the server | |
| `IdempotencyProofs` | theorems about it | extends `Idempotency` |
| `ReceiptOnce` | abstract: what the outbox promises the cashier | |
| `ReceiptOutbox` | tabs, the device's store and the network | extends `Idempotency` (its server), implements `ReceiptOnce` |
| `ReceiptOutboxProofs` | theorems about it | extends `ReceiptOutbox`, `IdempotencyProofs` |
| `ReceiptMath` | the arithmetic of `receipt_math.py` | |
| `Sums` | SQL's `Sum` over the rows a query selects | |
| `SumsProofs` | theorems about it | extends `Sums` |
| `MaxCashSearch` | the binary search of `max_cash_for_balance` | extends `ReceiptMath` |
| `MoneyIn` | receipts, allocations, refunds, cheques, periods, the two ledger accounts | extends `ReceiptMath`, `Sums` |
| `MoneyInProofs` | theorems about it, and about the search and how it is used | extends `MoneyIn`, `MaxCashSearch`, `SumsProofs` |
| `MoneyLedger` | abstract: the money services as atomic steps | |
| `MoneyLocks` | the same services statement by statement, with row locks | extends `Sums`, implements `MoneyLedger` |
| `MoneyLocksProofs` | theorems about it | extends `MoneyLocks`, `SumsProofs` |
| `Gateway` | links, captures, webhooks, parked captures, refund outbox | extends `Sums` |
| `GatewayProofs` | theorems about it | extends `Gateway`, `SumsProofs` |
| `StockBalance` | on hand and reserved, moves, reservations, adjustments | extends `Sums` |
| `StockTransfers` | transfers between godowns | extends `StockBalance` |
| `SalesOrders` | orders, delivery challans, their invoices and returns | extends `StockBalance` |
| `Godowns` | orders and transfers over one stock | extends `SalesOrders`, `StockTransfers` |
| `GodownsProofs` | theorems about it | extends `Godowns`, `SumsProofs` |
| `Recurring` | a schedule, the beat, people and contracts | extends `Sums` |
| `RunDates` | the code's calendar of monthly runs | |
| `RecurringProofs` | theorems about it | extends `Recurring`, `SumsProofs` |
| `MC*` | instances for TLC | `MCRunDates` joins `Recurring` and `RunDates` |

### Idempotency

`rows[k]` is the record of key `k`; `pc[r]` where request `r` is. `Begin`,
`Lookup` and `InsertAgain` are the three database calls of `begin_record` (the
INSERT, the locked SELECT after the IntegrityError, and the second INSERT);
between them any other request may run. `Build` is the protected operation,
whose commit appends to `effects[k]`. `StoreRecord`, `StoreFails`, `GiveUp` and
`ReleaseRecord` are the two settle codes: "keep" (the views and
`IdempotentCreateMixin`, which never release after the commit) and "wrap"
(`wrap_idempotent`, whose `finally` does). `Crash` is a worker that dies
anywhere. `Tick` moves a row past the stale window (15 minutes), a day, and the
30 days of the prune job (`Prune`). The kind of a key is what `begin_record`
sees in its scope: "money" (never reclaimed), "complete" (money, but reclaimed
because the document's own status stops a second completion), "plain".

### ReceiptOutbox

`outbox` is the store in `queuedAt` order, `tab[t]` the flush loop of a tab with
the snapshot it read, `shown[t]` the list on its screen. Each `await` of the
code is a point where others may step: reading the queue (`StartFlush`), the
company check (`NextRow`), the wait for the CSRF cookie before the request
leaves (`Dispatch`), the answer (`Receive`), the write of the result (`Remove`,
`Refuse`). The dialog's own send is `SaveOnline`, and when its answer never
arrives the receipt is queued under the same key (`KeepUnanswered`). A request
outlives the tab that gave up on it. `SwitchCompany` is two steps: the server
first, local storage after its answer.

### MoneyIn

`doc`, `alloc`, `refund`, `bill` are the tables; `advance[r]` and
`receivable[i]` are what has been posted to accounts 2300 and 1200, changed by
the journals only and never computed from the tables. An action is one
transaction. Operations that allocate in a loop or after another write (create
with allocation, oldest first, apply on clearance) are several actions under
`batch`, during which no other transaction starts: "apply" goes through the
invoices with the code's skip and stop conditions, and a failure turns to
"undo", which takes the writes back one by one. `UndoRest` distinguishes the
savepoint of `set_cheque_status` (a `BusinessRuleError` leaves the cheque
cleared) from the failure of the whole transaction. Dates are two months,
"past" and "today", each with one status: the stricter of the GST period and
the accounting period, which the code consults one after the other.

Amounts are whole paise. `Decimal` division is exact up to 28 digits; an exact
tie at the half paisa is rounded up in the model.

### MoneyLocks and MoneyLedger

`MoneyIn` runs its transactions one at a time; `MoneyLocks` is about whether the
database lets it seem so. `txn[t]` is a transaction with its own uncommitted
writes, its program counter, and the values it has read; `owner[row]` is the row
lock on a receipt, an invoice or an allocation. READ COMMITTED is modelled as it
is: a plain read sees what is committed at that moment and the transaction's own
writes, a `select_for_update` waits and then reads. The calls are allocate
(alone, oldest first, on clearance), reverse, void, refund an advance, cancel an
invoice, and a credit note that peels allocations. A circle of waiting
transactions ends with a victim rolled back. `MoneyLedger` has the same calls as
atomic steps on the same tables; the property `Atomic` is the refinement.

### Gateway

`gp[p]` is the payment row, `link`, `invoice`, `receipt`, `outbox[p][k]`, `seen`
and `dead` the other tables; `handler[h]` a webhook request and `worker[w]` a
refund at work, either the staff's request or the Celery task, each with the
rows it has read. An action is one transaction or one call to the provider;
everything else may step in between, and handlers and workers may die. The
provider knows a refund by its idempotency key (payment, sequence, amount).
Every fault, every act of staff and every change of period spends one unit of
`trouble`, so that `MaxTrouble` bounds them together and fairness can be stated
for steps that spend none.

`LateCaptures = FALSE` is an assumption of all three runs: no capture event for
a payment is finalised after the payment was refunded. The code does not check
it (see below), and with `TRUE` a refunded payment is booked again.

### StockBalance, StockTransfers, SalesOrders, Godowns

One product. `balance[w]` has what is on hand and reserved in a godown,
`adjusted[w]` the sum of opening stock and adjustments (for checking only).
`order`, `challan`, `invoice` and `transfer` are the rows; a row of status
"NONE" does not exist yet. Each handler locks its document and the order and is
one action; only completing a challan return reads before it locks, so it is two
(`StartReturn`, `CompleteReturn` or `RefuseReturn`). The code keeps shipped and
invoiced counters on the order's line, which every handler recomputes from the
documents; the model computes them (`Shipped`, `OnInvoices`, `Remaining`).
`Recomputed` is `recompute_order_status`, branch by branch, and `Unprocessed`
its case where nothing applies. `RebuildBalance` recomputes the balance from
movements and reservations. Both settings of `stock_on_delivery_challan` are
initial states, and each document remembers whether it moved stock.

### Recurring and RunDates

`row` is the schedule, `docs[p]` the documents of a period, `beat[b]` a pass of
the beat with the `next_run_at` it read, `form` a write under way (an edit, a
pause or resume from the contract) with the row it was made from. Generation
locks the row and is one action (`Generate`, in `BeatGenerates` and `RunNow`);
the loop around it works from its own copy, so `StartPass`, `SkipBilled`,
`StopAtClosed`, `TryPeriod` and `Refresh` are steps between which others act. A
PATCH writes the whole row it read (`SaveEdit`), the contract's resume and pause
write `next_run_at` and the flags. `hand` is a history variable: a person moved
the date, a manual run moved past a period that was never billed, an edit
overwrote the count. The calendar (`PeriodOf`, `AdvanceNextRun`, and `UtcDay` for
`next_run_at.date()`) is a parameter: two-day periods in `MCRecurring`, the
months of `RunDates` in `MCRunDates`.

## 3. Runs

| Run | Bounds | Shows |
|---|---|---|
| `claims` | 3 requests on one key, a receipt's or a completion's, 2 bodies; crashes, failing answer writes, prune, for receipts also requests slower than the stale window | one owner at a time, one posting, truthful and stable answers, a refusal means nothing was posted |
| `promise` | 2 tabs, 2 requests, 1 receipt; losses, overtaking, crashes, reloads, company switches | the composition implements `ReceiptOnce` |
| `drains` | 1 tab, 2 requests, 2 receipts; losses and reloads, fair | "needs attention" means not posted; every queued receipt is sent or set aside; every claimed key is settled |
| `max_cash` | all amounts up to 5 paise | the search ends, on the largest amount that fits |
| `money_books` | 2 receipts, 2 invoices (1 and 3 paise), 1 refund row each, 3 kinds of entry, amounts up to 3 | all safety properties of Money In, through failing loops and rollbacks |
| `locks` | 2 transactions of any kind, 2 receipts, 2 invoices | every commit is an atomic step of `MoneyLedger`; the ledger stays sound |
| `gateway_captures` | 2 payments on one link, 1 handler, 2 workers, 1 trouble | no capture is lost, no refund takes back more than was returned, no money on a cancelled bill |
| `gateway_refunds` | 1 payment, 1 handler, 2 workers, 2 attempts, 2 troubles, fair | one receipt per payment, REFUNDED only when returned, refunds settle, parked captures move on |
| `gateway_unwind` | 1 payment, partial refund, no trouble (violation) | request and task both unwind one refund |
| `stock` | 2 orders (2 units and 1), 3 documents, 1 transfer, 3 godowns, stock up to 3, policy BLOCK | reservations, stock, deliveries and order status agree with the documents |
| `recurring` | 2 passes, 2 two-day periods due, at most 2 ticks, 1 write, limit none or 1, 1 period that may close, fair | one document per period, no period left out, limit kept, no due schedule is stuck |
| `recurring_dates` | 1 pass, 70 days of the real calendar (violation) | a contract's schedule misses a month |

The configuration of each run and the definitions it checks:

| Run | Configuration | Properties |
|---|---|---|
| `claims` | `MCIdempotency_claims.cfg` | `TypeOK`, `SingleOwner`, `MoneyOnce`, `CompletedOnce`, `TruthfulAnswer`, `RefusalIsFinal`, `ReplayStable` |
| `promise` | `MCReceiptOutbox_promise.cfg` | `KeepsPromise` |
| `drains` | `MCReceiptOutbox_drains.cfg` | `AttentionMeansUnposted`, `QueueDrains`, `KeySettles` |
| `max_cash` | `MCMaxCashSearch.cfg` | `SearchFindsLargest`, `SearchEnds` |
| `money_books` | `MCMoneyIn_books.cfg` | `TypeOK`, `NeverOverspent`, `NeverOverpaid`, `VoidedIsEmpty`, `BooksAgree`, `SharesAddUp`, `ClosedPeriodIsFrozen` |
| `gateway_captures` | `MCGateway_captures.cfg` | `NeverDropped`, `UnwoundOnce`, `DeadBillIsFree` |
| `gateway_refunds` | `MCGateway_refunds.cfg` | `OneReceiptPerPayment`, `RefundedIsReturned`, `RefundsSettle`, `ParkedMovesOn` |
| `gateway_unwind` | `MCGateway_unwind.cfg` | `UnwoundOnce` |
| `locks` | `MCMoneyLocks_atomic.cfg` | `LedgerSound`, `Atomic` |
| `stock` | `MCGodowns.cfg` | `StockTypeOK`, `ReservedIsHeld`, `NeverOversold`, `GoodsAccountedFor`, `NotDeliveredTwice`, `StatusFollowsDocuments` |
| `recurring` | `MCRecurring.cfg` | `RecurringTypeOK`, `OneDocumentPerPeriod`, `NothingSkipped`, `LimitKept`, `NeverStuck` |
| `recurring_dates` | `MCRunDates.cfg` | `NothingSkipped` |

Why the bounds are enough to be interesting. In `claims`, three requests are
what the worst race of `begin_record` needs: one that loses its INSERT, one that
releases the row, one that takes it before the loser looks again; two bodies are
needed for a reused key, and `MaxEffects = 2` lets a second posting happen so
that it can be seen. Time has one step for each threshold the code compares
with. `OneKey` keeps a behaviour to one of the two keys: keys do not interact.
In `promise` two tabs and two requests let an abandoned send overtake and
be overtaken. In `money_books` the entries are cash on account, a cheque for a
named invoice with a discount, and a cheque for the oldest invoices with a
discount and TDS: amounts of two and three with one paisa of discount and of TDS
make every rounding case occur, the bills of one and three paise make the loop
settle one invoice, split on the next and fail half-way, and two receipts
compete for the same invoice. Initial states include draft invoices (which a
plan may name but never pay), both settings of the cheque rule and, through
`ChangeChequeRule`, a change of it in between. In `locks` two transactions are
enough for every wait and every circle between two rows; a second receipt and a
second invoice are there for the loops that take several. In the gateway runs
two workers are a request and a task on one refund; trouble of two lets a fault
hit the recovery from another. In `stock` the orders compete for less than they
ask for together, one of them can be split over two documents, and three
documents allow a challan, its bill and another delivery of the same order; with
four documents (`Rows = 4`) the properties were found to hold too, in more time
than a run should take. In `recurring` today may lie before or after the day of
the run in its period, a schedule falls two periods behind, and the second pass
can start at any step of the first.

`CHECK_DEADLOCK FALSE` is set where the system may really stop: the search ends,
on the device nothing is left to do once every receipt is sent or discarded, all
payments are settled, or the bounded time is over.

### Findings

Each is a violation run, with the quoted comment in `PROJECT.json`.

1. `gateway_unwind`: `execute_gateway_refund` (tasks.py:41) checks
   `applied_refund_keys` on the row it read before the provider call. The beat
   queues a PENDING row of any age, so the task may work on the refund of a
   request that is still waiting: one refund at the provider, two unwindings of
   a partial refund in the books.
2. `recurring_dates`: `advance_next_run` (recurring.py:63) adds the month in UTC,
   the period is that of the local date. A schedule due at midnight of 1 October
   (as contracts create them) is next due on 31 October, a period already
   billed, and then on 1 December: November is never billed. `NoPeriodSkipped`
   (section 5) says that this is the only way: in a calendar that does not step
   over periods none is missed.

Found by earlier violation runs, whose place newer questions have taken. Each is
what the modules still do:

- `wrap_idempotent` releases the key when storing the answer raises after the
  commit (idempotency.py:497), which the mixin in the same file says must never
  be done (:470); the retry commits again.
- The scope `pos_collect` (pos_views.py:146) takes money but is not in
  `MONEY_IDEMPOTENCY_SCOPES`: a stale key is reclaimed and posted twice.
- The outbox stops at the in-flight 409 of one receipt's own key as if the
  connection had failed (receiptOutbox.ts:170); a key left by a dead worker then
  blocks the receipts behind it.
- Clearing a cheque, putting it back to pending and clearing it again raises an
  IntegrityError past the handler that should let clearing succeed
  (payments/services.py:1573).
- `void_receipt` lets a soft closed period through, `reverse_allocation`, which
  it calls, does not (payments/services.py:945).
- payments/services.py:710 declares a global lock order, invoice before receipt,
  "to prevent AB-BA deadlocks". `set_cheque_status` (:1499), the oldest-first
  loop from its second invoice on, and credit notes take them the other way, and
  circles do occur; the database then rolls one back, and `Atomic` shows that
  nothing is left behind.
- An order whose challan came back in full and whose later invoice was cancelled
  stays CONVERTED although it owes everything: something live is left, nothing
  has completed, no branch of `recompute_order_status` applies
  (order_quantities.py:309). It can neither be converted nor cancelled.

### Observations

Met while modelling; the properties are stated so as to leave room for them.

- Idempotency: after the prune job drops a completed key at 30 days the same key
  posts again (`MoneyOnce` excludes it through `forgotten`).
- Outbox: a company switch in the middle of a flush sets the receipt aside
  instead of leaving it queued; a receipt discarded from an old list may have
  been sent by another tab in between; with a second tab, or a send that was
  given up before it arrived, a receipt listed as needing attention may be posted
  after all (why `drains` has one tab and `AttentionIsHonest` its conditions).
- Money In: a discount stays partly uncleared when a refund follows the last
  allocation (hence the condition of `SharesAddUp`).
- Gateway: `finalize_gateway_payment` has no case for a REFUNDED row
  (payments/services.py:2037); a second capture event on a parked capture counts
  as a retry and skips the checks of the link (:2331); a partial refund of half
  the amount whose webhook comes first is marked REFUNDED by the task; refunded
  cash of a partial refund stays available on the receipt; refunding the
  unallocated part posts no journal; the period gate of `reverse_allocation` can
  block an unwinding; two concurrent refunds of half the amount are both partial.
- Stock: (a) completing an order's invoice when the order holds all the stock is
  refused under BLOCK, since its own reservation counts against it; (b) the bill
  of a partly returned challan can never be completed (services.py:417 compares
  it with the whole challan); (c) the draft bill of a cancelled challan can still
  be completed and issues the goods again, outside the order; (d) two returns of
  one challan completed at the same time both pass the check before the lock
  (challan_return.py:90): `OneReturnAtATime` excludes it, without it TLC finds
  `ReservedIsHeld` violated; (e) an order with a fully returned challan can never
  be cancelled; (f) an order may stay PARTIALLY_CONVERTED with no live document.
  Under the policy WARN `RebuildBalance` clips the reservation, so
  `ReservedIsHeld` is stated for BLOCK.
- Recurring: Run now on an overdue schedule, say after its period was closed,
  moves `next_run_at` one step past the period that was never billed
  (`hand.jumped`); a PATCH that races a generation puts back the count of runs
  and may switch a finished schedule on (`hand.stale`); a pause from the contract
  writes back the date it read; a pass that finds its period billed overwrites a
  date a person has just set; each pass after `MAX_CATCHUP_TICKS` may complete
  one more back-dated invoice.

## 4. Fairness

`drains` (`FairOutbox`):

- `WF` on each request's server steps and on each tab's own steps: code that has
  started goes on. Web workers are killed after two minutes, which is a `Crash`,
  and there are none in this run.
- `WF` on `StartFlush`: the page flushes when it is opened and on every `online`
  event; a cashier with queued receipts opens it again and again.
- `SF` on "some attempt at this receipt succeeds or is refused": the server does
  not answer every single attempt with a 500. Without it no client could drain.
- `FewLosses`: answers are lost and tabs reloaded finitely often. Somebody who
  reloads the page for ever before the first answer never drains the queue.

`gateway_refunds` (`FairSpec`): `WF` on the steps of each handler, each worker and
of the beat jobs of each payment, in each case the ones that spend no trouble.
Beat is Celery's timer, and what a dead worker left in progress is queued again
by the beat job. Trouble is bounded, so faults and interventions end.

`recurring` (`FairSpec`): `WF` on each pass: the beat comes every hour and a pass
runs to its end. `SF` on generation: an attempt repeated every hour does not
raise every time. `NeverStuck` exempts closed periods, which only people reopen.

`max_cash`: the loop of a pure function runs.

In `claims`, only receipt keys are slow (`SlowKeys`): the workers' timeout of two
minutes is far below the fifteen minutes of the stale window, so a completion's
row goes stale only when nobody works under it. For money keys the assumption is
not needed and not made.

## 5. Proofs

`IdempotencyProofs` (any requests, keys, bodies, kinds, settle codes):

- `TypeCorrect`: `Spec => []TypeOK`.
- `MoneyIsPostedOnce`: `Spec => []MoneyOnce`, with crashes, failing answer writes
  and slow requests. `MoneyOnce` is not inductive; `IInv` adds that a request
  holding a protected key owns the in-flight row and owns it alone, that nothing
  has been committed before its own commit, and that a committed, unpruned key
  keeps a row. One lemma for claiming, one for the operation, one for settling,
  one for time and pruning.
- `RefusalsAreFinal`: the action property `RefusalIsFinal`, from the same `IInv`.
- `CompletesOnce`: `Spec => []CompletedOnce`, unconditional: the document's own
  status is the guard, whoever owns the key.
- `OneOwner`, `AnswersAreTrue`, `ReplaysAreStable`: `SingleOwner`,
  `TruthfulAnswer` and the action property `ReplayStable`, each under
  `StaleIsAbandoned`: no request outlives the stale window unless its key is one
  that is never reclaimed. The server's request timeout of two minutes against a
  window of fifteen is what justifies it, and TLC evaluates it for the instance
  of `MCIdempotency`. Without it two requests do work under one reclaimed key.
  `KInv` (theorem `OwnershipInductive`) says for every key what `IInv` says for
  protected ones, and that a stored success belongs to a committed body.

`ReceiptOutboxProofs` (any tabs, receipts, requests and answers):

- `DeviceIsTyped`: the store, the tabs and their snapshots stay well typed.
- `ServerIsIdempotency`: `OutboxSpec => Spec`. Every step of the composed system
  is a step of the claim protocol (a tab sends, a request runs, a slot is freed)
  or leaves the server alone. So every theorem of `IdempotencyProofs` holds of
  the composed system and is cited, not proved again.
- `TabsHearTheirOwn`: a tab that waits is served by the request it sent, with its
  own key and payload, and no two tabs wait for one request, although slots are
  reused and requests outlive their tabs.
- `RemovalsArePosted`: a tab about to remove a row holds a receipt the server has
  committed. From the two above and `AnswersAreTrue`.
- `PromiseIsKept`: `OutboxSpec => KeepsPromise`, the refinement of `ReceiptOnce`,
  as a step simulation: a put into the store is `Keep` or nothing, a commit is
  `Post` (the first by `MoneyIsPostedOnce`), a removal is `Sent` (by
  `RemovalsArePosted`) or nothing when another tab was faster, a discard is
  `Discard`, all else stutters. With any number of tabs, lost answers, overtaking
  requests, reloads, switches of company and dying workers.
- `AttentionIsHonest`: `AttentionMeansUnposted`, while one tab is open, no request
  is given up before the server takes it up, and the company is not switched
  (`Attended`). TLC refutes the property when any one of these three is dropped,
  so a refusal seen by the cashier is only final within them; see the
  observations. The inductive invariant `AttentionInv` says more than the
  property: nothing is posted under a key that is set aside *or about to be*,
  and no request of it can still post. It rests on `EarlyIsHeard` (a request
  that has not claimed its key has a listener), `SameBody` (a key always carries
  the same payload, so it is never refused for another), `Home`, and `StoreInv`
  (one row per key; a snapshot repeats no key and holds none that is set aside).

The last two theorems assume `ReceiptsAreMoney` (creating a receipt is a
protected kind, so its key is never reclaimed), which the instances of both runs satisfy.
Filtering the store is the recursive function `Picked` and not `SelectSeq`, whose
definition the provers cannot unfold; that the recursion has a solution, and what
it picks, is proved by taking a least counterexample of a set of numbers.

`MoneyInProofs` (any receipts, invoices, refund rows, bills, due order, entries):

- `Invariance`: `Spec => []IInv`, with `IInv == TypeOK /\ MoneyOK /\ BatchOK`.
- `MoneyTypeCorrect`, `SpentOnce`, `PaidOnce`, `VoidedStaysEmpty`,
  `LedgerAgrees`, `SharesComplete`: the six invariants of `money_books`.
- `ClosedStaysFrozen`: the action property `ClosedPeriodIsFrozen`.

`MoneyOK` joins the money properties, because none is inductive alone: that an
allocation fits relies on the sums of the receipt, that a void brings the ledger
to zero relies on the ledger having agreed before, that the shares are complete
relies on no share having exceeded its total. It adds `RowsReal`: a row without
cash carries no share (otherwise reversing it would leave the cash complete and
the shares not). `BatchOK` says what a transaction under way may still undo: the
receipt is posted, a receipt being created has only the rows this transaction
remembers and no refunds (so that taking the receipt back leaves nothing
behind), and the period allowed whatever was written (so that the rollback does
not touch a closed month).

- `AutomaticNeverRefused`: `Spec => []AutomaticPasses`. What
  `allocate_receipt_oldest_first` and the plan of a cheque that clears take for
  the next invoice is within the loop's own budget (its `remaining`), and
  `allocate_receipt` accepts it: no check of an amount, an invoice or a cheque
  turns it down, only a closed period does (or the unique constraint, when the pair
  has a row). `LoopInv` adds to `IInv` that the budget never exceeds the cash the
  receipt has left (`LoopOK`), although the loop counts it down on its own while
  the check counts the live rows. TLC finds states where the loop does fail, so the
  statement is not empty.
- `SearchIsRight`: `SearchSpec => []SearchFindsLargest`, for amounts of any size.
  `SearchInv` keeps the largest fitting cash between `lo` and `hi`; that half of
  the interval can be thrown away needs `SmallerFits`: what a smaller cash settles
  fits where a larger one's does. It follows from rounded quotients growing with
  the dividend (`QuotientGrows`, `RoundedQuotientGrows`, `ShareGrows`), the
  sentence on which the docstring of `max_cash_for_balance` rests.
- `SearchCoversUse`: `MaxAmount <= MaxPaise => (Spec => []AsksWithinInputs)`. What
  Money In asks of the search is one of the `Inputs` that `MaxCashSearch` starts
  from, so the search is proved right for every receipt, balance and split it
  meets in use: the shares already applied are within their totals, and a receipt
  with TDS has no refund (`DocOK`).

The lemmas follow the code's own layers: sums (`SumUpdate`, `RowChange`,
`RowsErased`, `RefundChange`), the share of a slice (`ShareBounds`), the writes
(`WriteStep`, `EraseStep`, `UnwindStep`, `RefundStep`), then one lemma per action.

`SumsProofs` (any finite set of rows, integers of any size): `Sum` is the fold of
the library's `SumFunction`, and what the other proofs use of it is proved, not
assumed: `SumIsInteger`, `SumIsZero`, `SumChanges` (one changed row), `SumGrows`,
`SumCovers` (no row exceeds the total), `SumSplits` (differences), and
`NaturalSums`, which gathers them for amounts. The fold is a recursion over the
subsets of the rows. `SubsetInduction` states induction over finite sets for a set
of sets instead of a predicate, which makes it usable here: it follows from the
least size a counterexample could have. `PartialExists` shows with it that the
recursion has a solution, and `OverAny` that the order in which rows are taken
does not matter.

`MoneyLocksProofs` (any receipts, invoices, calls in flight, amounts):

- `LocksInductive`: `Spec => []IInv`, `IInv == LocksTyped /\ LedgerSound` and
  `CallOK(t)` for every call.
- `NoDoubleSpending`: `Spec => []LedgerSound`.
- `CallsAreAtomic`: `Spec => Atomic`, the refinement of `MoneyLedger`: the commit
  of a call is the abstract call, every other step a stutter.

The argument is rely and guarantee. `CallOK(t)` says, for each statement the call
may be at, which locks it holds, that what it remembers from its reads still
bounds the committed rows, and that committing from there would be the abstract
step (`CommitOf`). `Rely(u)` is what the commit of another call `u` can do to rows
this call has locked: nothing, except that allocations it has not locked become
smaller, which only leaves more room. One family of lemmas shows that every step
of `u` respects it, the other that `CallOK(t)` survives it. This is where a
forgotten `select_for_update` shows: the read it protects is then not in any
`Rely`.

`GatewayProofs` (any payments, handlers, workers, events and faults):

- `NothingIsDropped`: `Spec => []NeverDropped`. `AckInv` adds that a handler about
  to answer has its capture accounted for, and that one about to park saw a row
  that was not captured (so that `park_gateway_payment` does write).
- `CancelledBillStaysFree`: `Spec => []DeadBillIsFree`, inductive with the types.
- `BookedOnce`: `~LateCaptures => (Spec => []OneReceiptPerPayment)`; `Kept` adds
  that a posted receipt is still there or its payment was refunded.
- `RefundedMeansReturned`, `BooksUnwoundOnce`: `RefundedIsReturned` and
  `UnwoundOnce` under `WholeRefunds`: no partial refunds, no late captures. Both
  conditions are necessary: `gateway_unwind` refutes `UnwoundOnce` for a partial
  refund, and for late captures see the observations. `RefundInv` says that the
  provider returned a payment at most once, that a row whose `raw_payload` knows of
  a refund is REFUNDED, and that a task under way read a row that knew of none;
  hence of two unwindings the second finds nothing allocated.

The lemmas show for each action that it keeps the types and that it does one of
three things to a payment (`Effect`): nothing that counts, a finalize
(`Captured`), or the end of a refund (`GivenBack`); the invariants follow from
that.

`GodownsProofs` (any orders, documents, transfers, godowns and quantities, either
policy):

- `Invariance`: `Spec => []IInv`, with `IInv` the conjunction of `StockTypeOK`,
  `RowsOK`, `TransitOK`, `GoodsAccountedFor` and `NeverOversold`.
- `StockIsTyped`, `GoodsAreAccountedFor`, `NothingIsOversold`.
- `DocumentsInductive`, `HoldsInductive`, `OrdersInductive`: three invariants about
  orders and their documents, each on top of the one before.
- `DeliveredOnce`, `StatusIsRight`: `NotDeliveredTwice` and
  `StatusFollowsDocuments`. `HoldsAreExact`: `ReservedIsHeld` under BLOCK.

`NeverOversold` is not inductive: writing off a shortage and cancelling a
transfer take goods out of the godown in transit without asking
`check_negative_stock`. That they are there follows from `GoodsAccountedFor`,
together with `TransitOK` (nobody adjusts or reserves in transit) and the
arithmetic of transfer rows. `RowsOK` has what the documents promise each other:
a completed challan's bill carries what stayed, a bill is completed only when
nothing came back, a return that passed its check still fits (this is where
`OneReturnAtATime` is used).

`DocumentsInv` says that the documents of an order point to each other (no two
challans share a bill, a bill of a challan has no source order and issues nothing
the challan already posted) and that they never claim more than was ordered
(`NotOverTaken`). Delivered is at most claimed: a challan counts for its order,
its bill is listed under the bill, and `SumByBills` re-indexes the sum over
challans into one over bills (no two challans share one, so nothing is counted
twice). `HoldsOK`: a draft or cancelled order holds nothing. With these
`ReservedIsHeld` is inductive, because every handler releases what the documents
take (`KeptIsHeld`) and holds again what they give back. Under WARN it is not
invariant: `rebuild_balance` clips the reservation to what is on hand.
`OrdersOK` strengthens `StatusFollowsDocuments`: a converted order has no draft
left but bills of its challans, and a cancelled one no live document at all;
without it, deleting a draft could reopen what the status says is finished.
Each handler has four lemmas: what it writes (`...Facts`), and that the documents
(`Documents...`), the holds (`Holds...`) and the statuses (`Orders...`) survive.

`RecurringProofs` (any calendar, any number of passes, limits and writes):

- `RecurringIsTyped`, `BilledOnce`, `LimitIsKept`, from `Books`: types, at most
  one document per period, a pass about to generate has found its date due, and
  the count of runs is the number of documents unless an edit overwrote it.
- `NoPeriodSkipped`: in an `Orderly` calendar `Spec => []NothingSkipped`.
  `NothingSkipped` speaks of the row only; `NoGaps` adds that everything before
  the date each pass works from is billed too, because a pass writes dates it
  computed from that copy. `Orderly` says that a step never leads beyond the next
  period and that a run due on a day in UTC is in no later period; TLC evaluates
  it for the calendar of `MCRecurring`, and `RunDates` does not have it.

Assumptions: those named `...Assumption` in the modules. They type the constants,
keep the sentinels apart from the ids, and say that there are finitely many rows
(receipts, invoices, orders, transfers), as in any database. About sums nothing
is assumed.

## 6. Only model-checked

- Liveness, which is outside the prover's reach: `QueueDrains`, `KeySettles`,
  `SearchEnds`, `RefundsSettle`, `ParkedMovesOn`, `NeverStuck`.
- `AttentionMeansUnposted` with several tabs, overtaken requests or a switch of
  company: false, see the conditions of `AttentionIsHonest`.
- `UnwoundOnce` and `RefundedIsReturned` where refunds are partial: false, see
  the findings.
- `ReservedIsHeld` under the policy WARN: false, see the observations.
- Everything under a violation run.

## 7. Not modelled

The repository has some 225,000 lines, most of them views, serializers, reports,
forms and pages without state of their own. The modules cover the services named
in section 1; a third of the repository is not within reach of any one project
of this kind.

- In Money In: one customer (no walk-in reassignment), gateway receipts (they are
  in `Gateway`), books switched on; `edit_receipt`, `set_tds_certificate`; the
  bank match and the till, which can only refuse a void; the cash limit and
  duplicate reference checks, which can only refuse a create.
- In `MoneyLocks`: discounts, TDS, cheque states, periods and journals, which take
  no locks of their own.
- In `Gateway`: journals, several links per invoice, the holding state switched
  off, disputes and settlements.
- In the stock modules: sales returns against an invoice, challans without an
  order or linked by hand, edits of orders and lines, several products or godowns
  per document, batches, serial numbers and valuation layers, reservations of job
  cards and those that expire.
- In `Recurring`: what kind of document is made and whether it is completed at
  once, the monthly allowance of automatic completions, customers who are not
  active, deletion of a schedule that has no runs, notifications.
- The components marked `not_modelled` in `PROJECT.json`: derived data (returns,
  reports, insights), pure arithmetic without state (tax engine), forms with a
  status field, features outside the pilot, rendering, and those planned below.

## 8. Plan

Done so far: `MoneyLocks`, `Gateway`, the stock modules, `Recurring`. Next, in
order of what could cost a user money:

1. `PosOutbox`: the drafts of the POS and their checkout, with an abstract
   specification shared with `ReceiptOnce`.
2. `SalesReturns`: returns and notes against an invoice, composed with `Godowns`
   and with `MoneyLedger`; then `edit_receipt`.
3. `Numbering` and `AuditChain`: gaps and forks under concurrency and rollback.
4. Proofs about these modules. Of those there are now, every safety property and
   both refinements the passing runs check are stated by a theorem.

The runs of a finished question are merged to make room for new ones: one run
per question, each within five minutes.

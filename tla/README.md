# Formal model of the point of sale backend

TLA+ modules that model the core of this repository (a NestJS, TypeORM and
Postgres backend for shoe stores: cash desks, stock and internal logistics), the
TLC runs that check them on small instances, and TLAPS proofs for every instance
of what matters most: the money of a shift, idempotency, the stock and what is set
apart of it, the charge of an order, its hands, purchases, discounts, returns, and
who governs a company. Paths are relative to the repository.

* [1. The system](#1-the-system) is the inventory: components, state, operations,
  interactions, what is hard about each.
* [2. Plan](#2-plan) is the order in which it is modelled and what is left.
* [3. Modules](#3-modules) says how each module corresponds to the code.
* [4. Runs](#4-runs) says what each run checks, with its bounds.
* [5. Fairness](#5-fairness), [6. Proofs](#6-proofs), [7. Disagreements](#7-disagreements-between-code-and-comments),
  [8. Not modelled](#8-what-is-not-modelled).

## 1. The system

Every mutation of the API is one Postgres transaction (`dataSource.transaction`)
at READ COMMITTED that locks rows with `SELECT ... FOR UPDATE` (TypeORM's
`pessimistic_write`), one at a time, checks what it read and writes. There is one
process and no in-memory business state: concurrency is what transactions do to
each other between two locks. A transaction is retried by the *client* (with an
idempotency key), never by the server. Events to connected users go out after the
commit.

### Money

| component | state | operations | hard |
|---|---|---|---|
| `cash-session` | shift: register, cashier, OPEN/CLOSED, expected/counted amounts frozen at closing, movement code and its failures | open, close, regenerateMovementCode, verifyMovementCode | closing freezes a sum over rows that charges, movements and refunds keep adding to; it also deletes drafts it listed before holding the shift |
| `cash-movement` | cash in and out rows of a shift | register | the drawer and the code are read under the shift's lock; a refused code is *committed* to be counted; the key is claimed last |
| `sale` | DRAFT/COMPLETED/CANCELLED, shift, lines, totals, the order it charges | create, createFromInternalOrder, addItem, updateItemQuantity, removeItem, cancel | edits look at the draft only, never at the shift; every edit re-reserves stock |
| `sale-payment` | payments of a sale | complete | sale, return of an exchange, shift, number, balances, restock: six kinds of lock in one transaction |
| `sale-return` | return: status, resolution, value, replacement sale, refunds | request, edit, approve, reject, cancel, lockForExchange/applyExchange, completeRefund | one return may be exchanged, refunded or cancelled by different desks |
| `discount-request` | request: PENDING/APPROVED/REJECTED/CANCELLED, amounts per line | request, approve, editApproved, reject, cancel, withdraw on charge | reads the request to find its sale, then locks sale and request |
| `document-sequence` | next number per company and series | next | an upsert that serialises everything after it |
| `idempotency` | key → fingerprint, resource | findIdempotentResource, runIdempotent, purge | the same request twice at once; a key purged while it is read |

### Goods

| component | state | operations | hard |
|---|---|---|---|
| `inventory-balance` | quantity per reference and box | lockOrCreate, reads | the row that serialises everything about a reference in a box |
| `inventory-reservation` | rows (reference, box, quantity, source document) | reserveInTransaction, syncForSource, release | availability = balance − reservations, read under the balance's lock |
| `inventory-movement` | append-only rows | record, recordInTransaction | two balances at once; what is reserved cannot leave |
| `internal-order` | SO (sales order), RE (return), TR (transfer), RS (restock): status, lines, runner, operator, parent and related orders, events | request, transition (`FLOWS`), claim, edit, requestChange, corrections, incidents, checkout hooks, restockStore | twenty statuses per type moved by seller, warehouse, runner and cash desk; sub-orders that absorb their parents |
| `returns-bin` | reservations of type RETURNS_BIN per document that left them | hold, heldFor, release, lockFor, takeRows | same goods claimed by the order, its draft, the bin and the trip to the warehouse |
| `purchase-order` | DRAFT/SENT/PENDING_APPROVAL/SHIPPED/RECEIVED/CANCELLED, counts | create, send, ship, resolveOverage, receive, cancel | supplier, administrator and warehouse alternate; incidents opened by counts |
| `write-off`, `incident` | request and its resolution | request, approve, reject, cancel / report, startReview, resolve, cancel | approving a write-off takes stock |
| `store-model-minimum`, `inventory-location` | minimums, boxes and runners' bags | set, suggestions / create, deactivate, activate, findOrCreateRunnerLocation | a box or a bag chosen without a lock and deactivated meanwhile |

### Around them

| component | state | operations | hard |
|---|---|---|---|
| `notification` | rows per user: type, entity, read or not | notify, markEntityRead, markRead | every notice asks for a step, and many roads end what it asks for |
| `realtime` | a queue per transaction, a bus in memory, one bounded `PushStream` per listener | publishAfterCommit, the outbox subscriber, subscribe, read | the database commits before the process knows; slow readers |
| `push` | registered devices and their failures | register, unregister, dispatch | the late answer of the push service |
| `auth`, `user`, `role` | accounts, roles per company, permissions per role | activate, deactivate, give, change and remove roles, grant and remove permissions | two administrators that remove each other |
| `cash-register`, `location`, `user-location-access` | what is in service, who works where | create, activate, deactivate | they meet the opening of shifts on the locks of a store's registers |
| `category`, `product`, `product-variant`, `brand`, `color`, `size` | the catalogue | create, edit, move, deactivate, delete | decided on rows that are not locked |
| `audit` | a log row per change | a TypeORM subscriber | nothing reads it back |

### Interactions

```
 cashier ── complete ──► sale ──► sale-return ──► cash-session ──► document-sequence
                           │                                             │
                           ▼                                             ▼
                      reservation ◄── balance locks ──► movement ──► restockStore ──► RS order
                           ▲
 seller ── SO order ───────┤ (the order's reservation becomes the draft's, and back)
                           ▼
                      returns-bin ──► RE order ──► warehouse
 administrator ── close ──► drafts (NOWAIT) ──► cash-session ──► orders of those drafts
```

The lock order the code documents is sale → return → shift
(`cash-session.service.ts:90`, `sale-return.service.ts`), with orders before
the shift when an order is charged, and balances last.

### What makes each part correct

* *Shift*: what was frozen at closing is what its rows add up to, for ever;
  nothing is charged in a closed shift; the drawer is never overdrawn by a
  cash-out; five wrong codes lock it.
* *Sale and return*: a completed sale was paid exactly; a return gives its value
  once, whatever desks do at the same time.
* *Idempotency*: one effect per key and week, whoever repeats gets his own answer.
* *Stock*: nothing promised twice, nothing lost, a draft holds what it will take.
* *Discounts and returns*: what is discounted was approved and is within the cap;
  what was sold comes back at most once, and all of it is worth what was paid.
* *Purchases*: lines, incidents and the order's mark agree; more than was ordered, as
  the supplier declared it, is shipped and received only if somebody authorised it, and
  what only the keeper counted over the order has an incident; the stock is what was
  counted.
* *Hands of an order*: who carries it sees it, who is offered it can take it, and no
  notice asks for a step that was already given.
* *Restocks*: what leaves the counter is brought or reported; what a restock reserves
  is in its box; what comes back cancels no more than itself, and nothing that was made
  ready (section 7 has the restock that a keeper is still preparing).
* *Company*: an administrator always remains; an open shift is attended.
* *Signals*: only what was committed is announced, and it reaches who is looking.
* *Checkout of an order*: charged once; its goods have one holder at any time;
  discarding the draft gives them back (section 7 has the cases where it cannot).
* *All*: no set of requests waits for itself; every request ends.

## 2. Plan

| # | modules | state | about |
|---|---|---|---|
| 1 | `CashShift`, `ShiftLedger`, `CashShift_proofs` | done | money of a shift; refinement to a ledger; proofs |
| 2 | `Idempotency`, `Idempotency_proofs` | done | keys under retries, failures and the purge |
| 3 | `Stock`, `Sums`, `Stock_proofs` | done | balances, reservations, movements |
| 4 | `Checkout`, `Checkout_proofs` | done | order ↔ draft ↔ shift ↔ bin ↔ trips |
| 5 | `InternalOrder`, `InternalOrder_proofs` | done for SO and RE | the goods of an order on the road from the warehouse |
| 6 | `Purchase`, `Documents_proofs` | done | supplier, administrator, warehouse; incidents, notices, write-offs |
| 7 | `Discount`, `SaleReturn`, `Documents_proofs` | done | a request on a draft, the charge, and what a return of it is worth |
| 8 | `Staff`, `BackOffice_proofs` | done | people, roles, permissions; counters opened against deactivations |
| 9 | `Outbox`, `Idempotency_proofs` | done | from the commit to the screen and the device |
| 10 | `Restock`, `BackOffice_proofs` | done for the restocks of a charge | what a charge asks for, its trip, what makes it fall |
| 11 | `Catalogue`, `BackOffice_proofs` | done | the tree, deletion of references, shared names |
| 12 | `Handover`, `BackOffice_proofs` | done | the four flows, who may give each step, who is told |

What is left, in the order of what it would add: the goods of a transfer between
stores (TR) and the request that is split over several warehouses, in
`InternalOrder`; a custody chain (warehouse, bag, store, customer) as an abstract
specification that `InternalOrder` implements.

`Checkout` composes what `CashShift`, `Stock` and `InternalOrder` model
separately, at the level of whole commits of stock. `SaleReturn` extends `Discount`:
a return is valued from the lines that its discounts left.

## 3. Modules

All modules share the style of the code: **a transaction is one action per lock
it waits for and one that commits**. The first lock starts the transaction. What
it read is kept in `tx[t]` until the commit, so any other transaction runs in
between. A refusal changes nothing: one that happens after a wait is an action
(`Refuse`, `Abort`) that gives the locks back. Definitions with a comment
"Faulty" or "Mutant" are plausible bugs: replacing the definition that follows by it
must violate the property it is paired with in the manifest, which shows that the
property depends on that piece of code. History variables and fields (`altered`,
`reported`, `late`, `crossed`, `refused`, `sameTime`, `disturbed`, `repacked`) are
named where they are declared: no guard reads them.

### CashShift — `cash-session`, `cash-movement`, `sale`, `sale-payment`, `sale-return`

| state | code |
|---|---|
| `shift[s]` | row of `cash_sessions`: status, `expectedAmount`, `movementCodeFailures`; `cash` is what `calculateSessionTotals` adds up from the committed payments, movements and refunds |
| `sale[x]` | row of `sales` with the sum of its lines and payments and `returnCredit`; DISCARDED is a row that closing deleted |
| `ret[r]` | row of `sale_returns`: status, resolution, value, replacement, refund |
| `tx[t]` | the open transaction: operation, what it waits for, what it read, rows locked |

`LockForX` actions are the checks of operation X under its first lock,
`LockShiftToX`/`LockForExchange` the later ones, `CommitX` the writes.
`LockDraftsToClose` takes the drafts NOWAIT, so it is enabled only when all are
free. The cash part of a charge or refund is any part of the amount. `refused` is
history: the wrong codes told to a client since the last good or new one, which
`LockedOutUntilRegenerated` compares with the failures that the row counts.
Stock, discounts and orders touched by a charge are in the other modules.

`ShiftLedger` is the abstract promise: per shift a balance that any posting may
change while it is open, frozen by the closing and never changed after it.
`CashShift` implements it with `ledger[s] = [open, balance, frozen]` read off the
shift's row.

### Idempotency — `idempotency`, `cash-movement`, the retried mutations

`row` are committed keys, `claim` an uncommitted insert (a second insert of the
same key waits for it), `performed` what was really done and when. Two kinds of
requests: *wrapped* ones claim first, *movements* look up, lock the shift, look up
again, verify the code, and claim last. `Purge` deletes old rows at any moment,
`CloseShift` closes a shift between the two lookups. A key stands for the whole
unique index, a print for the fingerprint.

### Stock — `inventory-*`, `sale`, `sale-payment`, `internal-order.restockStore`

`balance` per reference and box, `doc` the sales with their lines and what each
holds, `ordered` what restock orders hold in the warehouse. `Sync...` actions are
`syncForSource` (release, choose a box by availability *without* lock, lock the
balance, check again), the charge locks the series, then each balance, then plans
and reserves the restock, moves by hand lock both boxes in the order of their ids
(boxes are numbers because that order matters). Writes are visible at the commit.

### Checkout — `sale.createFromInternalOrder`, `internal-order` hooks, `returns-bin`

One store and one reference, so that a row of goods is a number. `order` (SO,
from RECEIVED_BY_SELLER to PAID or RETURNED), `sale` (drafts that charge an
order), `shift`, `trip` (RE made from the bin), `stock`, `held` (reservations of
documents), `bin` (reservations of the bin per document that left them).
`StepFrom`, `LockForOrder...`, `LockForCheckout` etc. are `transition`,
`lockForCheckout` and the edits of a draft with `syncHoldings`; `CommitCancel` and
`CommitClose` contain `restoreAfterSaleDiscarded`; `CommitIncident` is
`reportIncident` on goods that are not there. The code lets an incident be reported
while a draft charges the order (no `assertNoOpenSale`): the order is then
cancelled, or reserves what the draft still holds, and the history field `reported`
exempts just that from `OpenChargeFreezesOrder` and `GoodsAddUp`. Money is left to CashShift
and balance locks to Stock: what a transaction reads and writes under a balance's
lock is one action.

### InternalOrder — `internal-order`, `internal-order-stock`, `internal-order-flow`, `returns-bin`

The life of a sales order and of a return. Every operation locks the order, then
its parent, and changes everything in one transaction; no operation locks a parent
before its sub-order. So an operation is *one action*, built like the code: a chain
of the code's own helpers (`ReserveAt`, `HandOver`, `AbsorbParent`, `HoldInBin`,
`CancelEmptied`, ...) over the record `Now`, which carries the rows and `ok`, false
as soon as a step would throw. `Commit` requires `ok`.

| state | code |
|---|---|
| `order[o]` | row of `internal_orders` with the lines of its current version; `sibling` is "same `requestGroupId` as its parent"; `left` is `leftRunner`, the existence of a RUNNER_DELIVERY movement |
| `onHand[p]` | balances of the warehouse's STOCK and RETURNS, the store's STOCK and each runner's bag |
| `held[o]` | reservations TRANSFER_REQUEST of the order, and in which STOCK |
| `bin[o]`, `aside[p]` | reservations RETURNS_BIN under an order, and under a damage incident |
| `draft[o]` | what the open draft that charges the order reserves (its life is in Checkout) |
| `altered` | history: orders whose lines an edit or an incident changed while in a runner's hands or being charged, or that changed after their parent absorbed them |

`altered` marks what the code does and nobody wrote down what should happen: see
section 7. The properties that compare lines with goods leave those orders out, and
keep every other. Merging lines of one reference is the only thing lost by writing
the lines of a version as a function.

### Purchase — `purchase-order`, `incident`, `write-off`, `notification`

`purchase`, `line` and `incident` are the rows of `purchase_orders`, of their items
and of `incidents`; `notices` the kinds of notice that somebody has not read;
`writeOff` and `warehouse` the write-offs and the stock they take from. An operation
locks the row of its order: one action (`Create`, `Send`, `Ship`, `ResolveOverage`,
`Receive`, `Cancel`). Closing an incident from the tray locks the incident only and
counts the open ones of its order without a lock, so it is two (`BeginClose`, and the
commit): this is where it meets the next shipment of the order, and another closing.
What it counts decides whether the notice of the order's incidents is put out, and may
be old when it commits: two that close the last ones each leave it to the other, and the
notice stays (`crossed`, history, says of which orders); and a notice may be put out
although an incident was opened since, which no property forbids. Shipments are
numbered to tell their incidents apart; the code tells them apart by id.

### Discount, SaleReturn — `discount-request`, `sale`, `sale-return`, `return-values`

`sale`, `item`, `request` and `return` are rows; `asking` and `waiting` the requests
whose notice is pending; `brought` the units that came back. Every operation locks
the sale first and reads the request again, so each is one action. Amounts are
cents and the rounding (`roundMoney`, half up) is that of the code; a line is its
place in the order of creation, because the last line takes what the rounding of
the others leaves (`paidPerLine`), and the last units of a line what is left of it
(`returnValue`). The trigger of V0.4 that protects requests is a predicate that no
step may break (`DiscountRequestsGuard`).

### Staff — `user`, `role`, `cash-register`, `location`, `cash-session.open`

`account`, `role`, `grant`, `store`, `register`, `access` are rows; `shift[k]` the
cashier of the open shift of a register. `asked` is a request between its guards and
its transaction; `working` a transaction that has its locks (the company's, or the
registers of a store) and has decided. The last lock and the commit are the two
steps, because what the decision counted may change in between. `late` is history:
registers created while somebody's access to the store was being removed, which
that removal has not locked. `Owner` gives the company of each store.

### Outbox — `realtime`, `push`

`writer[w]` is a transaction with its queue of signals, `version` what is committed,
`told` what reached the bus, `stream[l]` a `PushStream` with its buffer and its
reader, `device`, `sending` and `off` the devices. Committing and handing over are
two steps, with a `Restart` possible in between. No service opens a nested
transaction, so savepoints are left out. What a screen does with a signal (ask again what
it shows of that channel) is external. One push of a device is on its way at a time: the
code may have several, whose answers lose counts of failures to each other.

### Restock — `restockStore`, the way of an RS, `cancelUntouchedRestock`

A charge is `Choose` (what to ask for, from which size), `Plan` (from which
warehouse, read without a lock) and `Charged` (reserve, or tell the administrators).
`charge[c].needed` is what the counter was left short of, over what was on its way;
`unsolved` what the administrators are to be told: the size sold when nothing could be
chosen, the size *chosen* when the warehouses lost it since (the code pushes
`line.productVariantId`, the source). `informed` is what the last charge told.
`ClaimRestock` and `ReleaseRestock` are a keeper who takes a restock or lets go of it
(`restock[o].claimed`): its status stays as it is.
A pick-up is `LookForBag` and `PickUp`; keeping the bin in the store reads its
candidates (`TakeFromBin`) and then locks them (`KeepInStore`). `SwitchBox`,
`SwitchBag` and `SetMinimum` are the configuration that changes meanwhile.
`sold`, `kept`, `dropped` and `disturbed` are history. Availability adds up all the
boxes of a warehouse and the reservation is made in one, as in the code, so a charge
may be refused (`Undone`).

### Catalogue — `category`, `product`, `product-variant`, `brand`, `color`, `size`

What an operation reads and what it saves are two steps wherever it decides on rows
that it has not locked: `BeginMove`/`SaveMove`, `CheckName`/`ChooseSlug`/`SaveName`,
`BeginDelete`/`DeactivateReference`/`RemoveReference`. `moved` are the variants that
a movement or a reservation names and `named` those that only a document names:
foreign keys refuse to delete either. `crossed` and `sameTime` are history. Names are
compared with ILIKE, where percent, underscore and backslash are not themselves
(`brand.service.ts:116`, and colours and sizes): names here have none of them.

### Handover — `internal-order` (flow, access, watchers), `notification`

The module follows one order. `order` is its row, with its open correction and
incident, and `repacked`, history: edited when it was already offered. `inbox` is the
kinds of notice about it that somebody has not read, `works` who works at which
site. `FLOWS` is the table of `internal-order-flow.ts`; `Transition` gives a step of
it with the guards of permission, site and actor; `SetStatus` puts out the notices
that are alive in no later status (`NOTICE_ALIVE_WHILE`), as the watchers do. `Claim`,
`ClaimForWarehouse` and `ReleaseFromWarehouse` take the order without changing its
status. What other orders do to this one (absorbing it, charging it) is `Elsewhere`.

## 4. Runs

| run | instance | shows |
|---|---|---|
| `shift_safety` | 1 shift, 2 sales, 1 return, 3 clients, amounts ≤ 2, cash −3..3, 2 failures (626 k states) | `FrozenExpectedMatchesLedger`, `CompletedSalePaidInFull`, `CreditBackedByReturn`, `ReturnSettledExactly`, `NoLockCycle`, `ChargedOnlyInOpenShift`, `CashOutNeverOverdraws`, `LockedOutUntilRegenerated`, `LedgerNeverRefuses` |
| `shift_liveness` | 1 shift, 1 sale, 1 return, 2 clients | `RequestsFinish`, and CashShift implements ShiftLedger (`LedgerSpec`) |
| `stale_draft` | 1 shift, 1 sale, 2 clients | *violated*: a draft outlives its shift (section 7) |
| `idempotency` | family DAYS: 2 requests of any kind, 3 days; CROWD: 3 movements, 2 days; retention 0 (98 k states) | `AtMostOnce`, `KeysAnswerForTheirWork`, `DoneMovementNotJudged`, `EveryRequestEnds` |
| `stock` | family UNITS: 1 reference, 2 store boxes and the warehouse, ≤ 2 units; LOCKS: 2 references, 1 store box and the warehouse; 2 sales, 2 clients (425 k states) | `ReservationsHold`, `UnitsConserved`, `AlikesNeverEmbrace` |
| `checkout_safety` | 2 orders, 2 drafts, 2 shifts, 1 trip, 2 clients, 1 unit, no spare one (966 k states) | `ChargedAtMostOnce`, `OpenChargeFreezesOrder`, `GoodsAddUp` |
| `checkout_deadlock` | 1 order, 1 draft, 2 clients | *violated*: opening a charge crosses with ending one |
| `discard_refused` | 1 order of 2 units, 1 client, no spare units | *violated*: a draft that cannot be discarded |
| `order_goods` | 2 orders, 2 references with 2 units each, 1 runner, lines of ≤ 1 unit when asked for (174 k states) | `GoodsAreWhereTheySay`, `WaitsForALiveSub`, `EndedStaysEnded` |
| `order_frozen` | the same | *violated*: an order that waits for a sub-order that was emptied |
| `documents` | family TRAY: 1 purchase order of 2 references, shipped ≤ 2 times, 1 incident by hand, 2 closings under way; STOCK: the order and a write-off; SALE: 2 lines of ≤ 2 units, 2 discount requests, 2 returns (460 k states) | `LinesAndIncidentsAgree`, `OverageIsAuthorised`, `NoticesAskForALiveStep`, `StockIsWhatWasCounted`, `DiscountsHold`, `ReturnsAddUp` |
| `back_office` | twelve families, below (226 k states) | `CompanyKeepsAnAdmin`, `OpenShiftIsAttended`, `SignalsArrive`, `AnnouncedIsCommitted`, `SwitchedOffStaysOff`, `NoGapForgotten`, `RestocksAddUp`, `TouchedRestockGoesOn`, `CatalogueHolds`, `HandsHold` |

A *family* is a variable that the initial state chooses and nothing changes: the
parts of a run share no state, or would multiply with no new interaction, so their
states add up instead. `back_office` has ADMIN (2 people, 2 roles, 1 company) and
COUNTER (1 store, 2 registers) for Staff; SIGNAL (1 stream of 2 signals, 2
transactions) and PUSH (2 people, 2 devices) for Outbox; CHARGE, CARRY and BACK (a
warehouse of 2 boxes, 2 sizes of a model of which one has run out, 2 restocks, 2
bags) for Restock; TREE (3 categories), REFERENCE (1 product, 2 variants) and NAME
(2 rows of a name in 2 spellings) for Catalogue; ORDER and TROUBLE (one order of any
type; a seller, two keepers, two runners, an administrator) for Handover. Between
them, all the actions fire.

Why the bounds are enough. The properties are about pairs of operations on the
same rows: two or three clients give every pair (and a third that interferes),
one shift is where all of them meet, two sales let an exchange and a plain sale or
two drafts compete, one return is where its three uses meet. Two units are the
least that can be split (credit and money, partly removed lines). One day more
than the retention lets a key expire and be used again, and a retention of 0 lets
its row vanish at once. Two boxes let the choice
of box go stale. Two orders are a parent and its sub-order (of either kind), two
orders that compete, or an order and the return that carries what it left, and two
references are what an exchange needs; joined lines have 2 units. What two orders
cannot show is a sub-order of a sub-order. Two shipments are one that was sent back
and the next, and two closings the last two incidents of an order; two lines and a price of 5 cents with discounts of 3 leave a rounding
to the last line. Three categories can make a cycle that is longer than a pair. In
Handover one incident of the order is open at a time. A buffer of two signals
overflows with the third. Symmetry is used only in safety
runs, for sets whose members are interchangeable.

`CHECK_DEADLOCK FALSE` only where all the work may end: Idempotency (each request is
sent once), InternalOrder, Documents and BackOffice (identities are finite, and a
document that is finished stays as it is).

## 5. Fairness

`CashShift.FairSpec`: weak fairness of the commit of each transaction (it holds
all it needs, nothing waits) and strong fairness of its next lock (Postgres queues
waiters of a row, so one that waits gets it although others take it in between).
No fairness of starting requests, of `Abort`, or of the closing's NOWAIT lock: a
closing that is refused is the end of that request. `Idempotency.Fairness`: weak
fairness of a request's own steps, strong of what waits for another's row. The
other modules are checked for safety only: what must eventually happen in them is
done by people, whom nothing obliges.

## 6. Proofs

Every theorem holds for any value of the constants that the named assumptions of the
module admit. TLC evaluates those assumptions on every run.

| module | assumption | theorems |
|---|---|---|
| `CashShift_proofs` | `ConstantsAssumption`: `MaxAmount ≥ 1`, `MaxCash ≥ 0`, `MaxFailures ≥ 1`, `None` is no row | `Invariance`, `TypeCorrect`, `FrozenExpected`, `PaidInFull`, `CreditBacked`, `ReturnSettled`, `DeadlockFree`, `ChargedInOpenShift`, `NoOverdraft`, `LockedOut`, `TriggersSilent`, `ImplementsLedger` |
| `Idempotency_proofs` | `ConstantsAssumption`, `NoneAssumption`: each input names one shift, keys of the two kinds differ, retention and calendar are numbers; `OutboxAssumption`: each stream is somebody's, bounds of at least one stream, signal, device and failure, finitely many transactions | `Protected`, `DoneOnce`, `KeysAnswer`, `NotJudgedTwice`, `OutboxKeepsItsWord`, `NoSignalIsLost`, `OnlyCommittedIsAnnounced`, `DevicesStayOff` |
| `Sums` | none but that the set is finite | `SumEmpty`, `SumType`, `SumRemove`, `SumSame`, `SumChange`, `SumAdded`, `SumLinear`, `SumBounds`, `SumSplit`, `SumUpdate`, `SumSwap`, `Largest` and corollaries |
| `Stock_proofs` | `ConstantsAssumption`: boxes are numbers, finite store boxes and documents, the warehouse's box is none of the store's | `StockInvariance`, `ReservationsAlwaysHold`, `UnitsAreConserved`, `AlikesNeverDeadlock` |
| `Checkout_proofs` | `ConstantsAssumption` | `Kept`, `ChargedOnce`, `Frozen`, `GoodsAlwaysAddUp` |
| `InternalOrder_proofs` | `InternalOrderAssumption`: finite orders and references, `None` and the two places are no runner | `GoodsInvariance`, `GoodsAlwaysWhereTheySay`, `SomeoneBringsTheChange`, `EndedForGood` |
| `BackOffice_proofs` | `StaffAssumption`: each store has an owner; `HandoverAssumption`: finite people, two sites, platform users administer; `CatalogueAssumption`: each variant has a product, each spelling a name, the root is no category, finitely many names; `RestockAssumption`: at least one warehouse, each with 1 to 9 boxes, finite warehouses, variants and orders, orders and bags are numbers | `StaffInvariance`, `AdminRemains`, `Attended`, `HandsInvariance`, `HandsStay`, `CatalogueInvariance`, `CatalogueAlwaysHolds`, `RestocksKeepTheirWord`, `GoodsAreWhereTheyAreSaid`, `EveryGapIsAnswered`, `NobodysWorkIsThrownAway`, `FallsFit`, `PlanGivesAWarehouse` |
| `Documents_proofs` | `PurchaseAssumption`: finite orders, references and write-offs, positive amounts, at least one shipment; `DiscountAssumption`: positive price, units and lines, a cap of 0 to 100 %; `SaleReturnAssumption`: finitely many returns, replacements worth something | `PurchaseInvariance`, `LinesAgree`, `OverageAuthorised`, `PurchaseNoticesAlive`, `StockAsCounted`, `DiscountInvariance`, `OnlyApprovedIsDiscounted`, `ReturnInvariance`, `ReturnsLeaveTheSale`, `ReturnsAlwaysAddUp`, `DocumentsAreBoth`, `NoticesAreAlive` |

**Shift.** The safety properties are not inductive: they are about rows, and whether
a commit keeps them depends on what the transaction read several steps before. `IInv`
says *what is known of the rows a transaction holds*: `TransactionInv` gives for
each operation the rows locked at each point and that what it read is still so
(`v.read = sale[v.sale].total`, `v.read = shift[v.shift].cash`, ...), and
`LocksExclusive` that no two transactions hold a row. The argument: a commit
touches only rows its transaction holds; so what every other transaction knows is
undisturbed (`OthersUndisturbed`, `SameRowsSameKnowledge`); and its own knowledge is
what makes the row it writes right. There is one lemma per commit
(`CommitChargePreserves`, ...), one for taking a first lock, one for the next ones.
`DeadlockFree` ranks a transaction by what it waits for and holds: one that waits
for a shift holds none, one that waits for a return holds neither a return nor a
shift. `TriggersSilent` shows that the triggers of V0.4 have nothing to refuse.
`ImplementsLedger` maps each commit to a posting, a closing or a stutter.

**Idempotency.** A row of a key appears with the work it answers for because whoever
works under a key is the only one who has claimed it, and the key has no row
(`RequestInv`, at "work"). A movement is judged only under the lock of its shift, and
looks for the key after taking it: `HoldsShift` says at which moments it has that
lock, so a twin that finished did so before and is found.

**Outbox.** `SignalsArrive` speaks of the signals that are on their way, and lets go of a
channel whose signal a full buffer dropped. What is inductive (`Heard`) says where the news
of *each* channel that a screen is behind with can be: received, in the buffer, dropped, or
in the queue of a transaction that committed and has not handed it over. `Push` keeps
what it cannot hold on record, and `Handed` is followed signal by signal, by the least
length at which it would fail. `FaithfulQueues` (a queue announces what its transaction
wrote) makes a commit and a flush move the same number from one side of
`AnnouncedIsCommitted` to the other (`Untold`, a sum over transactions). For devices,
`OneRow` (the unique index) is what makes taking a row away leave none, and a late answer
finds no row to write (`Orphaned`).

**Sums.** Units, cents and reservations are added up over finite sets of rows, with the
folds of the community modules. What such a fold computes is shown by its smallest
counterexample: the finite subsets are well-founded by strict inclusion, so among the
sets for which a fact failed there would be a smallest one, and taking one row out of
it gives a smaller one. `SumRemove` (any row may be taken first) is what all the
others follow from; `SumChange` and `SumUpdate` are an UPDATE of one or of several
rows; `SumSwap` adds up a table by rows and by columns.

**Stock.** That nothing is promised twice is not inductive: a commit writes the balance
that it read under its lock some steps before, and sets apart what it then found
available. `StockIInv` says of each transaction which balances it has locked
(`LockedInv`; no two hold the same, `Exclusive`) and that what it read of each is still
in the row, and per operation what it has left to do (`SyncInv`, `ChargeInv`,
`MoveInv`, `PromiseInv`). Who may set units apart in a box holds its balance, so the
sum of what is held there cannot grow under another's feet. `AlikesNeverEmbrace`: a
set of moves, or a set of charges, that waited for each other would have one that
waits for the greatest balance (`Largest`), and its holder waits for a greater one.

**Checkout.** `HolderInv` says what the lock of an order or of a draft guarantees to
whoever has it; `OrderInv` how an order and the live draft that charges it know each
other (a live draft names one order, no two the same one; PAID is exactly a
completed sale). `OpenChargeFreezesOrder` is part of the invariant: a charge relies
on the order not having moved. The goods add up (`GoodsIInv`) because each document
has one holder of its units: the order before it is charged, its draft while it is,
the bin once it ended; each commit moves them from one column of the sum to another.

**Internal orders.** An operation is a chain of helpers over one record of rows, so the
proof follows the chain: a lemma per helper says what it leaves (`Leaves`: one row
written, what its order holds, and `Sound`: if nothing was refused, no balance is
below zero nor below the sum of what is held in it), and a lemma per operation puts
them together. The invariant `GoodsIInv` adds to the two properties the stages that
each type passes through (`RowOK`), that the goods of an order have not left the bag
before it arrives (else `fromRunner` would move nothing), and that what an order waits
for is on its way *for it*, not a sibling of the same request (`Bringing`). Of what a
transaction leaves it is enough to look at the rows it touched (`RowFits`; up to three:
the order, its parent, a new sub-order) and at one bag (`BagFits`); `Committed` turns
that into the invariant. That what ended stays ended is part of `RowKept`, which every
operation is shown to keep of the order, of its parent and of its sub-order:
`EndedForGood` follows from the same lemmas.

**Staff.** That somebody administers the company is not inductive while two
transactions are about to remove somebody. `PendingInv` says that somebody remains
*after* the commit of each, and that no two transactions that take people away from a
company are in progress (they lock its row). For counters, `OpeningInv` says that
what an opening locked stays in force, and `RemovingInv` that a removal holds every
register but the late ones.

**Handover.** `HandsInv` adds who holds the order at each stage: before the offer,
and while it stands, there is no runner, and who is the runner may pick up.
`SoundFlow` reads the 4 tables of flows once and states what their steps do;
`StatusSet` what `setStatus` leaves in the row and in the inbox; there is a lemma
per operation on top of the two.

**Catalogue.** What an operation decided on rows it has not locked is no longer so when
it saves, unless nothing else was decided meanwhile: `MoveInv` (the new parent is not
below what is moved), `DeleteInv` (what a deletion read of the variants) and `NameInv` (a
name that was free is free) say what stays true while a move, or a name, is alone. That
the tree has no cycle is said of *sets* of categories (`Acyclic`: each has a member whose
parent is outside), which needs no induction on paths; a branch is the least set closed
under children, as the query `WITH RECURSIVE` computes it.

**Restock.** Three things change under the feet of a restock, and the invariant says what
stays. *A charge* reads the warehouses and reserves later: `ChargeInv` keeps, from one to
the other, that each size it is short of is a line that asks for its model or is on the
list of what the administrators will be told, and that each line has a warehouse in the
plan or the size it asks for is on that list, so `Charged` answers every gap
(`EveryGapIsAnswered`, a property of the step, from `OrdersAre`: each warehouse of the
plan gets an order of its own, with at least what each of its lines needs). *A pick-up*
looks for the bag and fills it later: `BagInv` counts as in use also the bags that
somebody was given, and says that until one is deactivated, or two are created at once,
there is one at most and all that is carried is in it; and an order that is being picked up
waits for its runner, so what it reserved is still in its box (`PickedIsThere`: the balance
stays above zero wherever the goods are found). What the restocks reserve in a box is in it
(`ReservedStaysThere`) because each step moves one order at most in or out of the sum of a box
(`ReservedByOthers`; a charge may create several, but each in a warehouse of its own,
`ChargedReserves`) and finds free what it reserves. *Keeping the bin* lists the orders and locks
them later: `Falls` is an equation (an order falls if it is covered by what the newer ones
that fall leave), and `FallsFit` shows that it has exactly one solution, that all of it is covered
by what came back and that nobody moved it on. That the recursions of the code end
(`PlanGivesAWarehouse`, `FallsFit`) is shown on the smallest set of lines, or of orders,
for which they would not.

**Purchase.** The properties are shown order by order (`OneOrder`, `OneIncident`).
`LineInv` says which lines may name an incident at each stage of the order, so that
a shipment finds none of a reception; `OverageOf` that what is shipped over the order has
the incident of its line resolved; `ClosingInv` that who closes an incident from
the tray finds it unsolved when it commits, because an operation of the order waits
for the incidents it closes. The stock is what was counted because an order enters
once: until it is received none of its lines has a count (`EntersOnce`).

**Discount.** `SaleOK` says that a sale has one active request at most, that without an
approved one nothing of it is discounted, and that the discounts on it are within the
cap. The cap is judged at the approval, on what the lines were worth then; it goes on
holding because a line under an active request is not edited, and withdrawing the
request clears its amounts.

**SaleReturn.** That returns never give back more than was paid is about all returns
of a sale together, and is not inductive: the last units of a line are worth *what is
left* of it. `LineSettled` says it line by line: no more units are listed than were
sold; a line that is listed whole is listed for exactly what was paid for it (so what
is left was never negative); what came back is what settled returns list. The total
follows by adding up the listed cents by returns and by lines (`SumSwap`), and because
the lines of a sale share out exactly what was paid for it (`Shares`).
`ReturnsLeaveTheSale` shows that a return is a stutter for `Discount`, so its theorems
hold of a sale with returns; `DocumentsAreBoth` that the composed module implements
both of its parts, and `NoticesAreAlive` joins what is known of their notices.

Only model-checked:

* `RequestsFinish` and `EveryRequestEnds`, which are liveness. Every other property that
  a passing run checks is the statement of a theorem.
* What a recursion over data gives is proved as far as a theorem needs it: that a plan
  exists and gives each line a warehouse that has all of it, not that each turn took
  the one that covers most; TLC evaluates the definitions as they are.

## 7. Disagreements between code and comments

* **A draft on a closed shift** (`stale_draft`). `close` lists and locks the
  drafts before it locks the shift; `create` locks the shift only. A creation that
  holds the shift at that moment commits a draft that closing never sees. The
  summary of a closed shift counts on there being none
  (`cash-session.service.ts:604`). No money is lost (`ChargedOnlyInOpenShift` is
  proved); the draft keeps its reservation until somebody cancels it.
* **Opening a charge against ending one** (`checkout_deadlock`).
  `createFromInternalOrder` locks order → draft, everything else draft → order,
  against the rule of `cash-session.service.ts:90`. Postgres aborts one of the two.
* **A draft that cannot be discarded** (`discard_refused`). Units taken off the
  draft go to the bin; the bin is sent to the warehouse while the draft is open;
  discarding the draft wants the whole order back in the store and is refused, and
  with it the closing of the shift. `internal-order.service.ts:2414` promises the
  opposite.
* **An order that waits for nobody** (`order_frozen`). `cancel` tells the parent of
  a cancelled sub-order; `cancelEmptied`, which ends a sub-order that lost its last
  line, does not. The parent stays in ITEM_CHANGE_REQUESTED, from which `FLOWS` has no
  step, with its goods reserved, until somebody edits it. It is the freeze that
  `internal-order.service.ts:1247` tells of order SO-000008, by another road, and
  `SERVICE_STATUSES` (`internal-order-flow.ts:140`) says that it cannot happen.
  `WaitsForALiveSub` shows that there is no other road on the same instance, but for
  orders in `altered`.

Two more, in the modules but with no run of their own, because a property of a passing
run sets each apart, by name, and shows that it is the only exception:

* **A notice with nothing left to solve.** Closing an incident locks that incident
  (`incident.service.ts:148`), and `settlePurchaseOrderIncidentNotices` counts the
  others (`purchase-order-watchers.ts:28`) in the same transaction, under READ
  COMMITTED: two that close the last ones of an order each count the other's as open.
  The notice stays pending until each user opens it, although line 16 says "Cuando ya
  no le queda ninguna, se marca como leído". Purchase names those orders `crossed`, and
  `NoticesAskForALiveStep` shows that there is no other road, of this notice or another.
* **A restock that somebody had touched.** A keeper takes a restock
  (`claimForWarehouse`, `internal-order.service.ts:1924`; `ClaimRestock`) and its
  status stays RESTOCK_REQUESTED, which is all that `cancelUntouchedRestock` asks of it
  (847). What was sold comes back, the restock in his hands is cancelled, and nobody
  tells him to stop, although line 813 says "que todavía no ha tocado nadie" and 861
  "Nadie la había tocado, así que no hay a quién avisarle que pare". What was made ready
  is safe (`TouchedRestockGoesOn`), and what falls is released and added up as it should
  be (`RestocksAddUp`).

Seen while modelling, also with no run of their own, because nothing written says what
should happen (each is a hazard of the manifest):

* damage of *part* of an order on its way leaves a RUNNER_DELIVERY movement, so
  `leftRunner` is true and receiving the rest moves nothing and then cannot reserve
  it: the order cannot be received and the rest stays in the bag;
* an order edited on its way reserves in the store what is still in the bag;
* `requestChange` on a sub-order ignores that `absorbParent` has just closed it;
* `reportIncident` does not ask for an open charge, unlike every other operation
  that changes lines;
* damage reported in the store is held in the bin *before* the order lets go of it,
  so without spare units it is refused;
* cancelling what was missing of an order that waits for a *change* brings it back
  to the seller although the change is still on its way;
* a cancelled return goes back to the bin without a warehouse of origin.
* an order claimed by a runner, edited back to packing and ready again, keeps that
  runner and is offered again to all of them (`internal-order-watchers.ts:111`):
  `OfferIsOpen` sets it apart (`repacked`);
* a runner who is called, or answers, during a correction leaves a notice that the
  end of the correction does not put out; an edit leaves one that nothing does
  (`internal-order-watchers.ts:78`);
* the notice of a new order goes to all the staff of the warehouse, some of whom
  cannot see the order;
* an incident opened while the last of the others is being closed may lose its notice:
  what the closing counted was read before (`CommitClose` in Purchase);
* what only the keeper counts over the order enters the stock at once, with an incident
  and no decision (`purchase-order-receiving.service.ts:42` says so; only what the
  supplier declares waits for one);
* opening a shift reads that the cashier's account is active without locking it
  (`cash-session.service.ts:258`): deactivated in between, the shift is open for
  somebody who can no longer enter;
* an account that works for two companies may be the last administrator of one and
  be deactivated from the other: `CompanyKeepsAnAdmin` speaks of companies whose
  people work for no other;
* an automatic restock may refuse the charge it belongs to: availability adds up the
  boxes of a warehouse and the reservation is made in one (`Undone` in Restock);
* two moves of categories, or two new names, decided at the same time end in a cycle
  or in two spellings of a name (`crossed`, `sameTime` in Catalogue).

## 8. What is not modelled

Whole components: `audit` (a log that no operation reads back), uploads and
printing hardware (input and output), configuration and scripts, and the
migrations, but for the triggers of V0.4 and the unique indexes and foreign keys
that an operation relies on.

Inside the modelled parts:

* money: prices, taxes and costs (an amount is a small integer, a unit has one
  price), which payment methods a store takes, and documents and statuses kept for
  rows from before a rule changed. Money and quantities are decimals in the code
  and integers here: sums, differences, comparisons, and the rounding to cents in
  Discount and SaleReturn;
* orders: the goods of a transfer between stores, the split of a request over
  several warehouses, the log of events and versions. The RS orders that people ask
  for by hand follow the flow in Handover, and their goods are not in Restock;
* notices: one is pending while somebody has not read it, not one row per user; the
  purge of old ones, the low-stock notice, the texts;
* people: passwords, tokens, the users of the platform (they are in Handover, as
  `Roots`), the limits of rate;
* configuration: renames, codes and pictures, creating boxes, filling the minimums
  from the variants.

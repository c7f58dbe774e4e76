# Wrap & Roll: specifications of the order system

TLA+ specifications of the part of Wrap & Roll that has to be right while
several people and processes act at once: the order row and everything that
moves it, the apps that create orders and act on them over unreliable
connections, the outbox behind the order, the PayHere webhook in front of it,
the stock it uses up, the cached queue the staff look at, and the reviews guests
leave. The code is under `src/`; paths below are relative to it, and `…/app/`
stands for `services/api/src/app/`. `PROJECT.json` maps every definition to the
lines it models, lists the runs, the hazards and the theorems.

## The system

The API (NestJS) runs in several instances over one PostgreSQL database. Worker
processes run the relay of the outbox and the BullMQ consumers. The point of
sale, the kitchen display, the courier app, the admin screens and the customer
apps call the API and refresh when a change stream tells them to.

| Component | State it keeps | Operations | Interacts with | What makes it correct |
|---|---|---|---|---|
| Order rules (`…/app/order/order.service.ts`, `libs/contracts/src/order-amendment.policy.ts`) | none | transition graph, roles, kitchen release, blocked reasons, amendment policies | called by handlers, queue projection and screens | hint and server agree on every row |
| Order handlers (`…/app/order/order.service.ts`) | `Order`, `PaymentEvent`, `OutboxEvent` | status, collection, courier, handover, lines, support, paid job | outbox, payment, inventory | no way round the kitchen, no payment without evidence, closed stays closed |
| Order creation (same file) | the same tables, elevation sessions | create: idempotency, hours, duplicate window, elevation | cashier queue, checkout, supervisor | one order per intention |
| Supervisor elevation (`…/app/supervisor/`) | `SupervisorElevationSession` | challenge, validate, consume | order creation, card collection | one approval, one use |
| Cashier app and offline queue (`apps/cashier`) | orders on the device, cart, keys waited for | place, queue, sync, clear | order creation | no order lost or doubled, the cashier is told the truth |
| Client and mobile checkout (`apps/client`, `apps/mobile`) | cart, order under way | press, pay, give up | order creation, PayHere, abort | a cart is owed once |
| Online payment (`…/app/payment/payment.service.ts`) | `PaymentEvent`, order payment columns | abort, webhook, job | PayHere, outbox, order handlers | every charge lands, once |
| Outbox and relay (`…/app/outbox/`) | `OutboxEvent` | append, claim, publish, mark | every handler, BullMQ | what committed is published, once |
| Inventory (`…/app/inventory/inventory.service.ts`) | `Ingredient`, `InventoryMovement`, `OrderCogsLine` | consume, reverse, restock, waste, adjust | order handlers through the outbox | stock is what the movements say; once per order |
| Queue cache (`…/app/order/queue-response-cache.service.ts`) | revision, cached pages, in Redis and per process | bump, get, set | order handlers, change stream | nobody is served, or keeps, an old page |
| Change stream and staff screens (`libs/order-kit`, `apps/kitchen`) | subscription, list shown | subscribe, refresh, poll | queue cache | every change is shown in the end |
| Courier app (`apps/delivery`) | list of offline actions | act, queue, flush | order handlers | an action queued is an action sent; money booked once |
| Dish reviews (`…/app/menu-review/`) | reviews, reactions, statistics of the dish | review, moderate, mark helpful | orders, menu | statistics follow the published reviews |
| Coupons, calendar, settings, menu, customers, staff, location, analytics, printing, notifications, activity | their tables | administration and rendering | order creation, queues | mostly sequential; see `PROJECT.json` |

What is hard in this code, and the reason for each module:

* **Read, check, await, write.** Every handler reads the order, checks its
  guards on that copy, awaits, and updates by id. Only `abortCheckout` repeats
  its condition in the update. What stands between two handlers is the unique
  index on the outbox key, nothing else. Creation looks for twins and validates
  an elevation outside the transaction that writes; reviews compute statistics
  in one call and write them in another.
* **Calls that belong together and are not one transaction**: the courier
  assignment and its outbox row; the webhook's claim, event and outbox row; the
  change of an order and the revision of the queue.
* **At-least-once everything**: PayHere repeats notifications, the relay
  publishes again after a failed mark, BullMQ runs a stalled job again, the till
  posts an order until it is answered, the courier app a list of actions.
* **Order of arrival**: a failed notification of an earlier attempt after a
  success, a reversal before its consumption, an older page after a newer one.
* **State on devices** that outlives the page, or does not: queued orders and
  the cart do, the list of keys the screen waits for does not.
* **Redis is optional**: each process falls back to a revision and pages of its
  own, and back again.
* **Absolute writes at READ COMMITTED** to the stock of an ingredient.

## Modules

| Module | Models | Granularity |
|---|---|---|
| `OrderPolicy` | the rules, as operators over one order row, and the rows a new order can be | no state |
| `OrderLifecycle` | the order row under all handlers, the webhook as far as it touches the row, and the paid job; EXTENDS `OrderPolicy` | one action for the read-and-check of a handler, one for each later write |
| `OrderBoard` | abstract: what the kitchen and the counter are promised | `OrderLifecycle` implements it while one request is served at a time |
| `OrderCreation` | `createOrder` with key, hours, duplicate window and elevation | one action per database call a race can fall between |
| `CashierSync` | tabs of the cashier app over one store of orders; EXTENDS `OrderCreation` | one action per request, answer or event |
| `Checkout` | a guest on the web or on mobile, PayHere's window, the server's part | one action per call, answer or callback |
| `OutboxRelay` | outbox rows and several relays | one action per database or Redis call |
| `PaymentGateway` | PayHere, the webhook handler, its job and a till, around one order | one action per database call |
| `InventoryLedger` | stock, movements and cost lines under jobs and back-office entries | one action per read and write of a transaction |
| `QueueCache` | `getQueue`, its cache and the announcement of changes on several processes | one action per database or Redis call |
| `QueueScreens` | screens with their streams and polls; EXTENDS `QueueCache` | one action per request, message or answer |
| `CourierApp` | the delivery app of each courier; EXTENDS `OrderPolicy` | one action per call, answer or step of a flush |
| `DishReviews` | reviews, moderation, statistics and marks of a dish | one action per database call |
| `CounterBook` | abstract: one book of slips, orders and what the cashier is told | `CashierSync` implements it |
| `EventDelivery` | abstract: an event is taken, sent once, delivered or given up | `OutboxRelay` implements it |
| `PaymentTrail` | abstract: the way of the money from the customer to the order | `PaymentGateway` implements it |
| `StaffQueue` | abstract: one list of changes, shown as it was at some moment between question and answer | `QueueScreens` implements it |
| `StockBook` | abstract: a book in which each movement of stock is one entry | `InventoryLedger` implements it |
| `…Proofs` | theorems about the module they are named for; `GuestProofs` is about `Checkout` and `DishReviews` | |
| `MC…` | instances for TLC | |

### OrderPolicy and OrderLifecycle

`order[o]` is the row, cut to the columns a rule reads. `payhere` stands for
itself and `online`, which the code treats alike everywhere; of the transaction
id the rules only test the prefix `ON_PICKUP_`; `gated` says whether the release
time of a scheduled order is still ahead, and `ReleaseTimeComes` is the clock.
`outbox[o]` is the set of idempotency keys present: a key names an event type
and what follows the order id in it, so inserting a present key is the unique
violation that rolls the transaction back. `events[o]` holds the `PaymentEvent`
rows that record money. `requests[s]` is a handler between its check and its
write: it keeps the decision, not the row, exactly as the code passes the
decision into `update({ where: { id } })`.

A handler `X` of the code is `XBegin` (read, guards, early returns) and
`XCommit` (one transaction: row, payment event, outbox keys, or roll back).
`assignCourier` has a third step because the code updates the row and appends
the outbox row in two calls. `handleOrderPaid` is `JobBegin`, `JobRead` and the
same `StatusCommit` that `updateOrderStatus` uses, and `JobFails` is its catch-all.
`Crash` forgets a handler; a job stays on its queue and runs again. Orders begin
as `createOrder` commits them, with the payment events of that transaction.

### OrderCreation and CashierSync

A key stands for `cashier-sync-<local id>`, and an order for its key, whose hash
is its id. `payload[k]` is what was queued under it. A cart stands for lines,
total and phone: what the search for a twin compares. `req[r]` is a request in
the API: `Lookup` (is there an order of this id), `Policy` (hours, then
elevation), `Search` (the twin), `Commit` (the transaction, in which the
conditional update consumes the elevation and a unique violation returns the
order that is there). The answers are told apart as the till does: the order,
409, a refusal whose text `isUnrecoverableCashierSyncFailure` takes for final,
and any other error.

`queue` is the IndexedDB store all tabs share, `tab[t]` what a page has in
memory: the cart, `submittingOrder` (`busy`), the elevation, the keys whose
answer clears the cart (`mine`) and the rows the sync under way has still to
post (`todo`). `told` is what the cashier was told when a row went. A page load
keeps the cart, which persists, and forgets the rest. A lost answer leaves the
request working in the API with nobody waiting (`Orphaned`).

### Checkout

An attempt is a press of the button and the order it becomes, as the request has
no key. `page` is `isSubmitting` and where `handleCheckout` is; `kept` whether
the cart is in the store. `paying` and `charged` are PayHere's, which is
external. `aborts` are the calls that give an order up and have not arrived.
The mobile app clears the cart whenever the order was created and opens no
payment (`apps/mobile/app/checkout.tsx:475`).

### OutboxRelay

A row is named by its place in creation order. `relay[w]` holds what the tick of
one worker process has in memory: candidates with the status it read, rows
claimed, and the next call for the oldest of these. `faults` bounds deaths and
failed calls. An error of `queue.add` may come before or after Redis took the
job and is not bounded. The queue is external: the set of job ids it has
accepted. That BullMQ forgets ids of jobs long completed is left out.

### PaymentGateway

PayHere is external: it sends notifications of status codes for payments of this
order and repeats each until it is answered with success. `handler[s]` is a
request between two awaits of `processWebhook`. `claims`, `recorded` and
`outbox` are the three writes it makes, `JobPaid` what the job does to the row,
`Collect` a till taking cash meanwhile. Signature, currency and amount checks
are left out: the notifications modelled pass them.

### InventoryLedger

`tx[s]` is an open database transaction: what it still has to move, what it has
read, what it has written and not committed. A read sees committed values and
its own writes; a write waits for the row lock of another transaction and then
writes the value it had computed. Recipes, lines and units are abstracted to a
quantity per ingredient. `stock` and `moved` are kept apart on purpose, as
`currentStock` and the movements are in the code. `raced` remembers the
ingredients and orders that two open transactions have both been at.

### The abstract modules

Each says what a component promises to somebody who sees none of its machinery,
and the component is shown to implement it under a refinement mapping given at
its end (`Board`, `OneBook`, `Delivery`, `Trail`, `Queue`, `Entries`). `OrderBoard` is
about an order on the kitchen's board. In `CounterBook` a slip becomes an order
in one step: the tabs, the store, the requests and the answers on their way are
gone, and the conditions of that step (no second elevation, no fresh twin, not
after "dropped") are what lookup, policy, search and commit have to add up to.
In `EventDelivery` an event has a stage and no relay; publishing again must not
make a second message, and a mark that failed after it was committed appears as
an event handed back. In `PaymentTrail` notifications and claims are gone. In
`StaffQueue` there is no revision, cache, message or process, only who asked and
what was announced then. In
`StockBook` there is no transaction: commits are entries, all reads and writes
before them are stutters, and being at the same ingredient as another
transaction spoils it.

### QueueCache and QueueScreens

Changes are numbered in the order they commit and a page is named by the last
change it contains. `bump[v]` is how far `notifyQueueProjectionChanged` got with
a change, without anybody waiting. `fetch[s]` is a `getQueue` between its calls:
the revision is read first and names the key under which the page is stored last.
`split` remembers that some process has been without Redis; `announced` and
`floor` remember what the revisions promised. A screen asks when it likes (the
poll, or a message after its debounce), with requests that overlap, and shows
what arrives. Filters and paging are left out, as they are part of the key.

### CourierApp

Each call of the app is one step on the server, since the races between handlers
are in `OrderLifecycle`; the guards are those of `OrderPolicy`. `call[c][o]` are
the calls about to fail for want of a connection, which may or may not have been
served. `flush[c][f]` is the copy of the list a flush sends and what it will
store instead. `collectCash` queues nothing (see below).

### DishReviews

An order stands for the review of the dish in it (the index is on order and
dish). An average is kept as a sum beside the number. `hand[s]` is a request
between two database calls; `raced` remembers that moderations overlapped or one
died half-way.

## Runs

| Run | Question | Bounds | Result |
|---|---|---|---|
| `OrderRaces` | what survives any race of handlers | one order, two slots, four kinds of order | 452,191 states, holds |
| `OrderSerial` | what the rules give without races; the board | one order, one slot, two couriers, every kind of order, one edit | 59,552 states, holds |
| `RegressToPaid` | `NeverPaidAfterKitchen` with two slots | as `OrderRaces` | violated |
| `CashierRaces` | till and creation: safety, one book (`KeepsOneBook`), and that the store drains | 2 keys, 1 cart with phone for delivery, 1 token, 2 tabs of which 1 takes orders, 2 requests, 2 faults | 956,895 states, holds |
| `CheckoutRaces` | is a cart owed once; is a paid order given up | 4 presses, 2 carts, 2 faults, web and mobile | 111,664 states, holds |
| `RelayFaults` | safety of the relays, that they act as one (`RelaysDeliver`), and that rows are settled | 3 rows, 2 relays, batch 2, threshold 2, 1 fault | 302,509 states, holds |
| `PaymentRaces` | no payment twice or from nothing; the trail of the money (`FollowsTrail`); charges land | 2 payments, 2 requests, 3 codes, a till, 1 fault | 164,034 states, holds |
| `PaymentLostInCrash` | does every charge land | 2 codes, 1 fault | violated |
| `LedgerRaces` | the books, and that movements are single entries (`EntriesAreAtomic`) | 2 ingredients, 1 order, 2 transactions, repeated jobs, 1 edit, 2 entries | 2.1 million states, holds |
| `QueueFaults` | old pages, that screens see one queue (`ScreensSeeOneQueue`), and whether changes are shown | 1 change, 2 processes, 1 screen, 2 requests, 1 fault | 987,000 states, holds |
| `CourierFlushes` | money at the door, actions queued | 2 couriers, 1 order, 2 flushes each, 2 actions, 2 faults | 1,454,876 states, holds |
| `ReviewRaces` | statistics and marks | 2 orders, 1 reader, 2 requests, 4 moderations and marks | 472,786 states, holds |

**Why these bounds are enough.** No handler reads more than one order, and keys
carry the order id, so orders do not interact: one is the whole system. Two
slots give every pair of handlers in every order of their steps. Two couriers
tell "the assigned courier" from "another"; one order kind per combination of
guards starts the races, all kinds start the serial run. Two relays with three
rows and batches of two make batches overlap, leave a remainder, and let a row
be claimed by either; a threshold of two gives a retry and a dead letter. Two
payments are an attempt and the next; two requests a notification and its
repetition, or two payments at once. Two ingredients make a transaction fail
half-way; two transactions lose updates and run a job twice. At the till, two
keys are an order and the next, or the same cart placed twice; a tab that only
syncs is another device on the same store; two faults let a second hit the
recovery from the first. At the checkout, four presses allow a cart to be pressed
three times and another to follow. One change is the change a screen misses: any
later one comes with a revision of its own, and `Fresh` is proved for any number.
Two flushes of two actions overlap in every way. Two reviews make an aggregate
that is out of date when written. `MaxEdits`, `MaxMoves`, `MaxFaults`,
`MaxEvents`, `MaxQueued`, `MaxCarts` and `MaxChanges` cap what is otherwise
unbounded, in the guards of the actions that count them. All safety properties
of the passing runs are proved without bounds. Where a run checks a refinement
it leaves out the type invariant, which is proved as well. `CHECK_DEADLOCK` is
off where a finite number of rows, payments, carts or orders is simply worked
off.

**What holds.** Under any race of handlers, an order in the kitchen or beyond
has had its ticket and stock deduction queued, an order that shows as paid or
delivered has a payment event, no order enters the kitchen twice, and the abort
of a checkout spares an order that was paid meanwhile. The last two rest on
mechanisms a reader of the code may take for incidental: the outbox key
`order.status_changed:…:in_kitchen`, and the `where` clause of one `updateMany`.
Without races the queue hint agrees with what the server accepts on every
reachable row, and the handlers implement the board. The relay never lets two
processes hold a row, never marks what it did not queue, and settles every row
unless its process failed between claim and result; seen from the handlers, any
number of relays are one. No payment is recorded twice,
and one is lost only in the two ways `ClaimSpent` names or behind cash. Stock,
movements and cost lines agree wherever transactions did not meet, and there
each movement is one entry although it is many reads and writes.

At the till, an elevation covers one order although it is checked outside the
transaction: the conditional update is what counts. No order is lost without a
word, whichever of several tabs sends it and whatever is lost; "synced" and
"duplicate" are always true, and "dropped" is while requests do not overlap. Once
the connection stays and the hours refuse nothing, the store drains. A screen is
never served a page older than what was announced when it asked, as long as Redis
is there: the revision is read before the page and names it; and a page is never
ahead of the database, whatever is lost. In the end every
screen shows the last change, whatever is lost, because entries expire and
screens poll. The money of a delivery is booked once however often collections
are repeated. An order given up is never one that was, or is being, paid. The
statistics of a dish are right when moderations came one after the other.

**What does not.** Two runs end in a counterexample; `PROJECT.json` quotes the
line of the repository that says otherwise.

* `RegressToPaid`: a till reads a placed order, the kitchen starts it, the till
  writes `paid` over `in_kitchen`.
* `PaymentLostInCrash`: the handler dies after its claim; the repetition is
  answered as a duplicate and the payment never reaches the order.

The conditions in the other properties are where the code promises nothing, and
dropping one yields a counterexample:

* *Orders.* With two slots `TerminalIsFinal` fails (a move writes over a
  cancellation), as do `DeliveredOnlyWhenPaid` (a failed notification between
  check and delivery), `CollectedOnce` (cash at one till, card at the other: the
  key carries the method) and `PaidLinesNeedOverride` (the amendment waits while
  the order is paid). `assignCourier` can move an order and fail on its outbox
  row; an order handed back to `ready` cannot be set `in_transit` again by
  `updateOrderStatus`, whose key is taken. A paid job that runs after a refund
  sets the payment back to completed, against `docs/ops/actor-flow-status.md:154`.
* *Relay.* Nothing resets a row whose relay died after claiming it (`Stranded`).
* *Payment.* The key of the claim does not hold the status code: a pending
  notification spends the claim of the success. Cash taken meanwhile makes the
  webhook refuse. The job swallows its own errors.
* *Stock* (`raced`). Two transactions at one ingredient lose an update; a job run
  again while it runs moves twice. A job that meets an error is done, and the
  stock is never deducted, against `docs/api-reference.md:266`; a reversal that
  comes first does nothing.
* *Till.* Overlapping requests (`overlap`), which a lost answer or a second tab
  bring about, defeat the duplicate window, and can report an order as dropped or
  as a twin of itself although it exists. Any failed, duplicate or dropped event
  frees the order button, whatever order it was for, while the cart stays: the
  cart can be placed again under a new key, as after a page load. Only the
  duplicate window stands in the way, and only for guests with a phone number. A
  400 that is not on the list of unrecoverable texts keeps the row, and all rows
  behind it wait (`QueueDrains` is about hours that open again;
  `OPERATIONS.md:90` speaks of automatic sync). Clearing the store during a
  sync does not stop the orders it has already read. A discount placed without
  connection is dropped when its elevation, valid for minutes, has expired by
  the time it is sent.
* *Checkout* (`faults`). After eight seconds without an answer the guest orders
  the cart a second time. A dismissed payment leaves its order placed and the cart
  full.
* *Queue* (`split`). A message published while a stream reconnects waits for the
  poll; a stream opened without Redis stays deaf and counts as connected; answers
  are shown in the order they arrive. The revision of a process's memory may be
  ahead of that in Redis. A handler that only changes the payment
  (`handleOrderPaid` on an order beyond placed) announces nothing.
* *Courier* (`raced`). An action queued during a flush is overwritten by what
  the flush leaves (`apps/delivery/src/store/useDeliveryStore.ts:484`). The catch
  block of `collectCash` uses `tenderNote`, a constant of the try block (`:353`),
  so it throws and cash taken offline is never queued. A refused action is kept,
  and sent, for ever. A page load in mid-flush sends accepted actions again, and
  delivery attempts are then noted twice.
* *Reviews* (`raced`). Of two moderations that overlap the older aggregate may be
  written last; one that dies half-way leaves the old statistics.

Read while modelling, outside the models: `createOrder` never writes
`Order.customerPhone`, which only a later edit by staff fills, so the count of a
guest's earlier orders by phone number in `…/app/coupon/coupon.service.ts:62` does
not see them, whatever the order of the steps.

## Fairness

Most safety runs use `Spec`, without fairness. `OutboxRelay!FairSpec` asks that
each relay goes on: `onModuleInit` starts a tick from an interval timer, and a
tick that has begun awaits calls that are answered or fail. No fairness is asked
of a successful `queue.add`: a row Redis refuses for ever is dead-lettered.
`PaymentGateway!FairSpec` asks that PayHere goes on repeating a notification that
is not answered (strong fairness, since a request slot is not always free), that
a request that has begun is served, and that a queued paid job is run in the end,
which the relay and BullMQ do. It assumes the job itself succeeds.
`CashierSync!FairSpec` asks that a tab goes on with the sync it is at and starts
one every ten seconds, as its poll does, and that the API works on a request it
has; nothing is asked of the connection, the hours or the cashier, so
`QueueDrains` states that they settle. `QueueScreens!FairSpec` asks that a screen
polls (every two minutes at most), that a request is answered or fails, and that
a cached page does not outlive its time; nothing is asked of Redis, of messages
or of streams.

## Proofs

Each theorem holds for any values of the constants that satisfy the module's
named assumption, in particular for any number of actors and any bounds.

| Module | Theorems | States |
|---|---|---|
| `OrderLifecycleProofs` | `TypeCorrect`, `Invariance`, `PreparedOrdersAreTicketed`, `SettledOrdersHaveEvidence`, `DecisionsStayJustified`, `KitchenEnteredOnce`, `AbortOnlyTheUnpaid` | all of `OrderRaces` |
| `OrderLifecycleProofs`, one slot | `CollectedOneWay`, `ClosedStaysClosed`, `PaidBeforeDelivered`, `PaidLinesOverridden`, `HintsMatchServer`, `HandlersImplementBoard` | all of `OrderSerial` |
| `OrderLifecycleProofs`, one slot | `NotBackToPaid` | that the counterexample of `RegressToPaid` needs a race |
| `OutboxRelayProofs` | `RelayTypeCorrect`, `RelayInvariance`, `RowsHeldByOne`, `NothingMarkedUnqueued`, `RowsQueuedOnce`, `GivenUpAtThreshold` | the invariants of `RelayFaults`, one job per row, and when a row is given up |
| the same | `RelaysImplementDelivery` | the relays implement `EventDelivery` |
| `PaymentGatewayProofs` | `GatewayTyped`, `PaymentRecordedOnce`, `CompletionWasPaid` | the invariants of `PaymentRaces` |
| the same | `WebhookFollowsTrail` | webhook, job and till implement `PaymentTrail` |
| `CashierSyncProofs` | `TillTyped`, `ElevationCoversOne`, `NothingLostSilently`, `CashierToldTheTruth`, `PhonedOnceAtATime` | the invariants of `CashierRaces` |
| the same | `TillsKeepOneBook` | tabs, connection and API implement `CounterBook` |
| `QueueScreensProofs` | `ScreensTyped`, `NoOldPageServed` | the invariants of `QueueFaults` |
| the same | `ScreensImplementQueue` | screens, processes and caches implement `StaffQueue` |
| `GuestProofs` | `CheckoutTyped`, `PaidIsNeverVoided`, `CartsOrderedOnce` | all of `CheckoutRaces` |
| the same | `ReviewsTyped`, `StatsAreThePublished`, `MarksCountToggles` | all of `ReviewRaces` |
| `CourierAppProofs` | `MoneyBookedOnce`, `QueuedActionIsKept` | all of `CourierFlushes` |
| `InventoryLedgerProofs` | `LedgerTyped`, `StockIsItsMovements`, `UsedComesBack`, `JobsMoveOnce` | the books of `LedgerRaces` |
| the same | `TransactionsAreEntries` | transactions implement `StockBook` |

**Orders.** Neither "prepared implies ticketed" nor "settled has evidence" is
inductive: a handler writes what it decided earlier, on a row that has changed
since. What is true of the decision and cannot be undone is that the ticket it
rests on was issued and the money it rests on was taken, because outbox keys and
payment events are only ever added. So `IInv` is `TypeOK`, the two invariants and
`RequestsJustified`, which says this of every decision in flight. Entering the
kitchen twice is excluded by the key alone, so that theorem needs types only; the
abort needs the condition of its update only.

The theorems about one request at a time assume `OneAtATime`, that `Slots` has no
two members, and range over any number of orders, couriers and steps; only
`HintsMatchServer`, which compares the rules of screen and server on every row,
needs no such assumption. `SInv` adds to `IInv` what no race can take away then:
a decision still fits the row it was taken on when it is written (`StillFits`),
and money taken by hand stays on the row until it is refunded (`CollectedStays`).
A step then changes one order of the board at most, by a documented move
(`StepMoves`), and `HandlersImplementBoard` maps it to a move, to money taken or
to a stutter. `NotBackToPaid` adds that an order with a kitchen ticket has left
placed for good (`TicketedHasLeft`), so that a request served alone never reads
it as placed.

**Relay.** That a row marked published has its job follows from nothing in the
table: it is the tick that knows whether `queue.add` succeeded, so `MarkHasJob`
ties the step of the tick to the jobs. That this step speaks of the row it is
used for needs the order of a tick (`ClaimsComeFirst`) and that nobody else holds
the row (`HeldApart`), which needs that a held row never looks due
(`HeldIsProcessing`), with one exception the proof had to find: after a mark that
was committed but reported as failed the row reads `published` until `markFailed`
overwrites it.

An event of `EventDelivery` is one row; its stage is the status, and its messages
are the jobs that carry its id. Claiming is taking, a successful mark is
delivery, and what a relay reads, keeps for later or forgets is a stutter. Two
steps need the invariant. A job added for a row that has one must be the same
job, which `JobsByRow` says. A row marked as failed may read published, and its
attempts decide between waiting and giving up: `AttemptsLeft` bounds them.

**Payment.** A payment is recorded as often as its request has come past the
recording (`RecordsCounted`); the claim lets one request past (`HeldApart`).
`WebhookFollowsTrail` rests on the same: recording is an entry because the
request past the claim carries a success that was charged and not yet recorded,
and appending is a place in the queue because the request has recorded.

**Till.** `KeysWerePlaced` and `TokensWereIssued` say where keys and tokens come
from: the second, that what an order was placed with is consumed, is what makes
the conditional update exclude a second order. `DroppedIsDead` is the reason a
cashier may act on "dropped": no request that could still write the order is
under way, unless requests overlapped; and `AloneUntilCommit`, that while they do
not, what the search found is still so at the commit. The insert is then an
entry of `CounterBook`, whose conditions are these three, and an answer heard is
a word said of a slip; all other steps of tabs and requests are stutters, except
that requests which overlap crowd the counter.

**Queue.** A revision promises what was announced when it took its value
(`FloorsRise`), a stored page keeps the promise of its key (`PagesKeepFloor`)
because the revision was read before the orders were, and so does an answer
(`AnswersReachWant`). Without losing Redis no two announcements share a revision
(`RevsBounded` keeps it within the changes counted). The refinement adds that no
page is ahead of the database, in any cache or request (`PagesBehind`), which
holds with caches apart as well; each step of `getQueue` is then a stutter, an
answer shown is an answer, and a process that starts again fails the questions
it had.

**Checkout.** An attempt is untouched until the page has its hash, and from then
on is given up or paid, never both (`GivenUpOrPaid`). `CartsOrderedOnce` compares the
attempts a cart is owed for over all presses. What makes it inductive is where
the page is: while no fault has struck, a creation under way is the one the page
waits for, and as long as the store keeps a cart, the only attempt it can be owed
for is the one the page is at (`Once`). A row and its call name the same cart
(`CartOfCall`), which must not depend on faults.

**Reviews.** The statistics are sums over sets, and nothing about sums has to be
known: while moderations do not overlap, a request about to write holds the
statistics of exactly what is published, and when none is under way the dish has
them (`StatsFollow`). Only published reviews count, and these have a rating
(`Rated`), so that a review being written changes nothing.

**Courier.** Money was booked once for a completed payment at most. An action
not yet accepted is on the list, and no flush under way will leave it out of what
it stores (`OpenIsHeld`): that is what an action queued during a flush breaks.

**Stock.** An open transaction is right about what it has read and written of
everything it alone has been at (`OpenAreRight`), everything else is `raced`
(`SharedIsRaced`), so a commit takes the books from right to right. With
these a commit is the entry of `StockBook` for what its transaction had to move;
a rollback is nothing at all.

Left to TLC are the four liveness properties, `EventuallySettled`, `ChargeLands`,
`QueueDrains` and `EventuallyFresh`, which the proof system does not cover, and
what a sum over a set computes, for which it has no induction; no theorem needs
it.

## Not modelled

Left out for good: prices, costs and averages (arithmetic without concurrency),
coupons (see above), rendering, printing, mail and SMS, analytics,
authentication, administration of menu, settings, staff and customers, the
calendar beyond that it refuses orders, delivery distance, and
`reconcilePayment`, a mock that is off unless an environment variable enables it.
Most lines of the repository are screens of this kind; the map covers the
small part of them that keeps state over calls.

Within the modelled components: the elevation of a card collection, which
nothing consumes, so that one approval covers every collection until it expires
(`docs/security/supervisor-step-up.md:12` promises single use for discounts
only); replies to reviews; the lanes and optimistic moves of the kitchen display; a lagging read
replica, whose page would be cached under the new revision
(`docs/ops/scaling-api-queue.md:19`); the retention of BullMQ, which forgets the
id of a job a thousand jobs later; the PayHere code for chargebacks; replayed
status changes, which write nothing but a log line; and the activity log, on
which nothing decides.

## Plan

1. Proofs: abstract specifications of the courier's list for `CourierApp` and of
   a guest's orders for `Checkout`.
2. The kitchen's optimistic moves against refreshes, on top of `QueueScreens`,
   with a read replica behind the cache.
3. Retention of job ids between `OutboxRelay` and `InventoryLedger`, composed.
4. Calendar rules against a reference definition over bounded dates.

## Running

    tlc -workers 2 -config OrderRaces.cfg MCOrderLifecycle.tla
    tlapm OrderLifecycleProofs.tla

Each `.cfg` belongs to the `MC…` module `PROJECT.json` names for it; each
`…Proofs` module is checked on its own.
